---------------------------- MODULE AtomicVault ----------------------------
(***************************************************************************)
(* What the server promises: every request it carries out takes effect in  *)
(* one indivisible step that sees the caller registered, the signature     *)
(* valid, the rows it refers to present and its nonce, challenge or        *)
(* primary key unspent, all at the same moment.  The server of module      *)
(* SecureVaultServer spreads these checks over several critical sections,  *)
(* with other connections in between.                                      *)
(*                                                                         *)
(* Two requests are proved by the authentication key, which a concurrent   *)
(* change of password replaces: LOGIN_RESPONSE and CHANGE_PASSWORD.  The   *)
(* server checks them against a row it has read before, so that the        *)
(* promise for these two is only that the caller is registered (for a      *)
(* change of password) and that the nonce or challenge is unspent.         *)
(***************************************************************************)
EXTENDS VaultRequests

VARIABLE served  \* the requests carried out since the server was started

AtomicVars == <<dbVars, served>>

Unspent(r) == \A s \in served : ~Conflict(r, s)

CarryOut(r) ==
    /\ Unspent(r)
    /\ served' = served \cup {r}

AtomicInit == DBInit /\ served = {}

AtomicRegister(r) ==
    /\ r.type = "REGISTER"
    /\ CarryOut(r)
    /\ create_user(r.username, r.row)

AtomicLogin(r) ==
    /\ r.type = "LOGIN_RESPONSE"
    /\ CarryOut(r)
    /\ UserExists(r.username)
    /\ UNCHANGED dbVars

AtomicUpload(r) ==
    /\ r.type = "UPLOAD"
    /\ CarryOut(r)
    /\ SignedByCaller(r)
    /\ WellFormed(r)
    /\ create_document(r.document)

AtomicShare(r) ==
    /\ r.type = "SHARE"
    /\ CarryOut(r)
    /\ SignedByCaller(r)
    /\ WellFormed(r)
    /\ UserExists(r.recipient)
    /\ DocumentExists(r.doc_id)
    /\ create_or_replace_share(r.share_blob)

AtomicGetDoc(r) ==
    /\ r.type = "GET_DOC"
    /\ CarryOut(r)
    /\ SignedByCaller(r)
    /\ WellFormed(r)
    /\ DocumentExists(r.doc_id)
    /\ documents[r.doc_id].owner = r.username \/ shares[<<r.doc_id, r.username>>] # NoRow
    /\ UNCHANGED dbVars

AtomicChangePassword(r) ==
    /\ r.type = "CHANGE_PASSWORD"
    /\ CarryOut(r)
    /\ r.sig.payload = canonical(r)
    /\ WellFormed(r)
    /\ update_user_auth(r.username, r.new_salt, r.new_auth_pub)

AtomicClose == close /\ UNCHANGED served

(* A restart forgets what was carried out and keeps the rows.              *)
AtomicRestart == reopen /\ served' = {}

AtomicNext ==
    \/ \E r \in Requests :
          \/ AtomicRegister(r) \/ AtomicLogin(r) \/ AtomicUpload(r)
          \/ AtomicShare(r) \/ AtomicGetDoc(r) \/ AtomicChangePassword(r)
    \/ AtomicClose
    \/ AtomicRestart

AtomicSpec == AtomicInit /\ [][AtomicNext]_AtomicVars
=============================================================================
