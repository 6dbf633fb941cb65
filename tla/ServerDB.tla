------------------------------ MODULE ServerDB ------------------------------
(***************************************************************************)
(* The server's SQLite store, server/db.py: three tables behind one        *)
(* connection and one lock, so that every method of class ServerDB is one  *)
(* atomic step.  A row is stored under its primary key; NoRow is the       *)
(* absent row (SELECT ... fetchone() returning None).                      *)
(*                                                                         *)
(* Abstraction of the data: the Argon2 parameters travel with the salt     *)
(* and are part of it, timestamps are left out.  SQLite does not enforce   *)
(* the schema's FOREIGN KEY clauses (the code never turns the foreign_keys *)
(* pragma on), so neither does this module.                                *)
(***************************************************************************)
EXTENDS Formats

CONSTANTS Salt,   \* Argon2 salts with their parameters
          Key,    \* public keys, named after the key pair
          NoRow   \* the absent row

UserRecord     == [salt : Salt, auth_pub : Key, sig_pub : Key, dh_pub : Key]
DocumentRecord == [owner : User, version : Nat, blob : DocBlob]

ASSUME NoRowAssumption ==
    /\ NoRow \notin UserRecord
    /\ NoRow \notin DocumentRecord
    /\ NoRow \notin ShareBlob

VARIABLES users,      \* the users table, by username
          documents,  \* the documents table, by doc_id
          shares,     \* the shares table, by doc_id and recipient
          dbOpen      \* the connection has not been closed

dbVars == <<users, documents, shares, dbOpen>>

DBTypeOK ==
    /\ users \in [User -> UserRecord \cup {NoRow}]
    /\ documents \in [DocId -> DocumentRecord \cup {NoRow}]
    /\ shares \in [DocId \X User -> ShareBlob \cup {NoRow}]
    /\ dbOpen \in BOOLEAN

DBInit ==
    /\ users = [u \in User |-> NoRow]
    /\ documents = [d \in DocId |-> NoRow]
    /\ shares = [k \in DocId \X User |-> NoRow]
    /\ dbOpen = TRUE

-----------------------------------------------------------------------------
(* The methods.  A guard that fails is the ValueError of the method; the   *)
(* caller decides what to do with it.                                      *)

UserExists(u)     == users[u] # NoRow
DocumentExists(d) == documents[d] # NoRow

(* Faulty variants, named after the bug, stand before the definition they  *)
(* are variants of; no action uses them.                                   *)
create_user_or_replace(u, row) ==
    /\ dbOpen
    /\ users' = [users EXCEPT ![u] = row]
    /\ UNCHANGED <<documents, shares, dbOpen>>

create_user(u, row) ==
    /\ dbOpen
    /\ ~UserExists(u)
    /\ users' = [users EXCEPT ![u] = row]
    /\ UNCHANGED <<documents, shares, dbOpen>>

update_user_auth(u, salt, auth_pub) ==
    /\ dbOpen
    /\ UserExists(u)
    /\ users' = [users EXCEPT ![u] = [@ EXCEPT !.salt = salt, !.auth_pub = auth_pub]]
    /\ UNCHANGED <<documents, shares, dbOpen>>

create_document_or_replace(blob) ==
    /\ dbOpen
    /\ documents' = [documents EXCEPT ![blob.doc_id] =
                        [owner |-> blob.owner, version |-> blob.version, blob |-> blob]]
    /\ UNCHANGED <<users, shares, dbOpen>>

create_document(blob) ==
    /\ dbOpen
    /\ blob.version = 1
    /\ ~DocumentExists(blob.doc_id)
    /\ documents' = [documents EXCEPT ![blob.doc_id] =
                        [owner |-> blob.owner, version |-> blob.version, blob |-> blob]]
    /\ UNCHANGED <<users, shares, dbOpen>>

create_or_replace_share(blob) ==
    /\ dbOpen
    /\ shares' = [shares EXCEPT ![<<blob.doc_id, blob.recipient>>] = blob]
    /\ UNCHANGED <<users, documents, dbOpen>>

list_documents_owned_by(u) ==
    {d \in DocId : DocumentExists(d) /\ documents[d].owner = u}

list_shares_for(u) == {d \in DocId : shares[<<d, u>>] # NoRow}

close ==
    /\ dbOpen' = FALSE
    /\ UNCHANGED <<users, documents, shares>>

(* Opening the database file again: CREATE TABLE IF NOT EXISTS keeps every *)
(* committed row.                                                          *)
reopen ==
    /\ dbOpen' = TRUE
    /\ UNCHANGED <<users, documents, shares>>
=============================================================================
