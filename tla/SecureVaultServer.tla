------------------------- MODULE SecureVaultServer -------------------------
(***************************************************************************)
(* The SecureVault TCP server, server/server.py, over its database         *)
(* (ServerDB) and its session state (SessionState).                        *)
(*                                                                         *)
(* start() gives every connection a thread of its own, and a connection    *)
(* carries one request and one response.  Handlers run concurrently and    *)
(* share nothing but the database and the session state; every method of   *)
(* those two is one critical section.  An action is therefore the code of  *)
(* a handler from one such call up to the next one, which interleaves the  *)
(* handlers wherever the code lets them interleave.  The signature checks  *)
(* and the parsing in between touch no shared state and belong to the      *)
(* action of the call before them.                                         *)
(*                                                                         *)
(* The network may deliver every request of the constant Requests any      *)
(* number of times, in any order and on several connections at once: this  *)
(* covers retries, duplicates, reordering and loss.                        *)
(***************************************************************************)
EXTENDS VaultRequests, SessionState, FiniteSets

CONSTANTS Thread,       \* connection threads
          NoRequest,    \* req of a thread that serves no connection
          FakeSalt,     \* HMAC(server_secret, username), cut to SALT_LEN
          MaxChallenge, \* bound: challenges drawn in a behaviour
          MaxClock,     \* bound: value of time.monotonic()
          MaxRestarts   \* bound: restarts of the server process

Reply == [type : {"NONE", "OK", "ERROR"}]
         \cup [type : {"OK"}, salt : Salt]
         \cup [type : {"LOGIN_CHALLENGE"}, salt : Salt \cup {FakeSalt}, challenge : Nat]
         \cup [type : {"USER_PUBKEY"}, sig_pub : Key, dh_pub : Key]
         \cup [type : {"DOC"}, document : DocBlob, share : ShareBlob \cup {NoRow}]
         \cup [type : {"DOC_LIST"}, owned : SUBSET DocId, shared : SUBSET DocId]

ASSUME NoRequestAssumption == NoRequest \notin Request
ASSUME BoundsAssumption ==
    /\ MaxChallenge \in Nat
    /\ MaxClock \in Nat
    /\ MaxRestarts \in Nat

VARIABLES pc,        \* the next shared call of each thread
          req,       \* the request each thread serves
          found,     \* what its handler has read from the database so far
          reply,     \* the response it is about to send
          listening, \* the accept loop of start() is running
          shutdown,  \* the _shutdown event
          restarts,  \* restarts of the process so far
          served,    \* history: one-shot requests carried out since the start
          repeated,  \* history: those of them carried out more than once
          earlier    \* history: those carried out before the last restart

threadVars  == <<pc, req, found, reply>>
lifeVars    == <<listening, shutdown, restarts>>
historyVars == <<served, repeated, earlier>>
vars == <<dbVars, sessionVars, threadVars, lifeVars, historyVars>>

NoReply == [type |-> "NONE"]
ERROR   == [type |-> "ERROR"]
OK      == [type |-> "OK"]

(* The calls on shared state a handler can be about to make.               *)
DbCalls == {"dispatch", "create_document", "get_recipient", "get_document",
            "create_share", "read_document", "read_share", "list_shares", "update_auth"}
SessionCalls == {"issue_challenge", "consume_challenge", "consume_nonce"}
Labels == {"idle", "respond"} \cup DbCalls \cup SessionCalls

ThreadTypeOK ==
    /\ pc \in [Thread -> Labels]
    /\ req \in [Thread -> Requests \cup {NoRequest}]
    /\ found \in [Thread -> UserRecord \cup DocumentRecord
                            \cup [owned : SUBSET DocId] \cup {NoRow}]
    /\ reply \in [Thread -> Reply]

HistoryTypeOK ==
    /\ served \subseteq Requests
    /\ repeated \subseteq served
    /\ earlier \subseteq Requests

TypeOK ==
    /\ DBTypeOK
    /\ SessionTypeOK
    /\ ThreadTypeOK
    /\ HistoryTypeOK
    /\ listening \in BOOLEAN
    /\ shutdown \in BOOLEAN
    /\ restarts \in Nat

(* A process that serves no connection yet.                                *)
ServerInit ==
    /\ pc = [t \in Thread |-> "idle"]
    /\ req = [t \in Thread |-> NoRequest]
    /\ found = [t \in Thread |-> NoRow]
    /\ reply = [t \in Thread |-> NoReply]
    /\ listening = TRUE
    /\ shutdown = FALSE
    /\ restarts = 0
    /\ served = {}
    /\ repeated = {}
    /\ earlier = {}

Init == DBInit /\ SessionInit /\ ServerInit

-----------------------------------------------------------------------------
(* How a handler goes on: to its next call, remembering a row it has read  *)
(* or not; or to its return, with a response.                              *)

Goto(t, label) ==
    /\ pc' = [pc EXCEPT ![t] = label]
    /\ UNCHANGED <<req, found, reply, historyVars>>

Remember(t, row, label) ==
    /\ pc' = [pc EXCEPT ![t] = label]
    /\ found' = [found EXCEPT ![t] = row]
    /\ UNCHANGED <<req, reply, historyVars>>

Return(t, response) ==
    /\ pc' = [pc EXCEPT ![t] = "respond"]
    /\ reply' = [reply EXCEPT ![t] = response]
    /\ UNCHANGED <<req, found>>

Answer(t, response) == Return(t, response) /\ UNCHANGED historyVars

(* The return of a handler that has carried out a one-shot request.        *)
Serve(t, response) ==
    /\ Return(t, response)
    /\ served' = served \cup {req[t]}
    /\ repeated' = repeated \cup ({req[t]} \cap served)
    /\ UNCHANGED earlier

At(t, label) == pc[t] = label
Routed(t, type) == At(t, "dispatch") /\ req[t].type = type

-----------------------------------------------------------------------------
(* The accept loop of start() and the end of _handle_connection.           *)

(* accept(), the new thread and recv_message.  The loop ends after this    *)
(* connection if the shutdown event was set while accept() was blocked.    *)
Accept(t, r) ==
    /\ listening
    /\ At(t, "idle")
    /\ pc' = [pc EXCEPT ![t] = "dispatch"]
    /\ req' = [req EXCEPT ![t] = r]
    /\ listening' = ~shutdown
    /\ UNCHANGED <<dbVars, sessionVars, found, reply, shutdown, restarts, historyVars>>

(* send_message and conn.close(); a failing send is swallowed.             *)
Respond(t) ==
    /\ At(t, "respond")
    /\ pc' = [pc EXCEPT ![t] = "idle"]
    /\ req' = [req EXCEPT ![t] = NoRequest]
    /\ found' = [found EXCEPT ![t] = NoRow]
    /\ reply' = [reply EXCEPT ![t] = NoReply]
    /\ UNCHANGED <<dbVars, sessionVars, historyVars>>

(* recv_message, _dispatch or a handler refuses the request before its     *)
(* first call on shared state.                                             *)
Refuse(t) ==
    /\ Routed(t, "MALFORMED")
    /\ Answer(t, ERROR)
    /\ UNCHANGED <<dbVars, sessionVars>>

DbError_at_dispatch_only(t) ==
    /\ At(t, "dispatch")
    /\ req[t].type # "MALFORMED"
    /\ ~dbOpen
    /\ Answer(t, ERROR)
    /\ UNCHANGED <<dbVars, sessionVars>>

(* A call on a closed database raises, and _handle_connection answers with *)
(* an internal error.                                                      *)
DbError(t) ==
    /\ pc[t] \in DbCalls
    /\ pc[t] = "dispatch" => req[t].type # "MALFORMED"
    /\ ~dbOpen
    /\ Answer(t, ERROR)
    /\ UNCHANGED <<dbVars, sessionVars>>

-----------------------------------------------------------------------------
(* Accounts: register, login_challenge, login, get_salt, get_user_pubkey.  *)

register(t) ==
    /\ Routed(t, "REGISTER")
    /\ \/ /\ create_user(req[t].username, req[t].row)
          /\ Serve(t, OK)
       \/ /\ dbOpen
          /\ UserExists(req[t].username)
          /\ Answer(t, ERROR)
          /\ UNCHANGED dbVars
    /\ UNCHANGED sessionVars

login_challenge(t) ==
    /\ Routed(t, "LOGIN_CHALLENGE_REQ")
    /\ dbOpen
    /\ Remember(t, users[req[t].username], "issue_challenge")
    /\ UNCHANGED <<dbVars, sessionVars>>

login_challenge_issue(t) ==
    /\ At(t, "issue_challenge")
    /\ issue_challenge(req[t].username)
    /\ Answer(t, [type |-> "LOGIN_CHALLENGE",
                  salt |-> IF found[t] = NoRow THEN FakeSalt ELSE found[t].salt,
                  challenge |-> nextChallenge])
    /\ UNCHANGED dbVars

login(t) ==
    /\ Routed(t, "LOGIN_RESPONSE")
    /\ dbOpen
    /\ Remember(t, users[req[t].username], "consume_challenge")
    /\ UNCHANGED <<dbVars, sessionVars>>

(* The row and the challenge must both exist, and the challenge must be    *)
(* signed by the authentication key of the row read before.                *)
login_verify(t) ==
    /\ At(t, "consume_challenge")
    /\ consume_challenge(req[t].username)
    /\ LET challenge == consumed(req[t].username)
       IN  IF /\ found[t] # NoRow
              /\ challenge # NoChallenge
              /\ verify_request_signature(found[t].auth_pub, <<"challenge", challenge>>, req[t].sig)
           THEN Serve(t, OK)
           ELSE Answer(t, ERROR)
    /\ UNCHANGED dbVars

get_salt(t) ==
    /\ Routed(t, "GET_SALT")
    /\ dbOpen
    /\ Answer(t, IF UserExists(req[t].username)
                 THEN [type |-> "OK", salt |-> users[req[t].username].salt]
                 ELSE ERROR)
    /\ UNCHANGED <<dbVars, sessionVars>>

get_user_pubkey(t) ==
    /\ Routed(t, "GET_USER_PUBKEY")
    /\ dbOpen
    /\ Answer(t, IF UserExists(req[t].username)
                 THEN [type |-> "USER_PUBKEY",
                       sig_pub |-> users[req[t].username].sig_pub,
                       dh_pub  |-> users[req[t].username].dh_pub]
                 ELSE ERROR)
    /\ UNCHANGED <<dbVars, sessionVars>>

-----------------------------------------------------------------------------
(* The requests with a signed nonce.  _authenticate checks the signature   *)
(* against the row of the caller and only then consumes the nonce;         *)
(* change_password does the same with the old authentication key.          *)

authenticate_without_verify(t) ==
    /\ At(t, "dispatch")
    /\ req[t].type \in NonceTypes
    /\ dbOpen
    /\ Goto(t, "consume_nonce")
    /\ UNCHANGED <<dbVars, sessionVars>>

authenticate(t) ==
    /\ At(t, "dispatch")
    /\ req[t].type \in NonceTypes
    /\ dbOpen
    /\ IF SignedByCaller(req[t]) THEN Goto(t, "consume_nonce") ELSE Answer(t, ERROR)
    /\ UNCHANGED <<dbVars, sessionVars>>

FirstCall == [UPLOAD |-> "create_document", SHARE |-> "get_recipient",
              GET_DOC |-> "read_document", CHANGE_PASSWORD |-> "update_auth"]

check_nonce(t) ==
    /\ At(t, "consume_nonce")
    /\ \/ /\ consume_nonce(req[t].nonce)
          /\ IF WellFormed(req[t]) THEN Goto(t, FirstCall[req[t].type]) ELSE Answer(t, ERROR)
       \/ /\ ~fresh(req[t].nonce)
          /\ Answer(t, ERROR)
          /\ UNCHANGED sessionVars
    /\ UNCHANGED dbVars

upload(t) ==
    /\ At(t, "create_document")
    /\ \/ /\ create_document(req[t].document)
          /\ Serve(t, OK)
       \/ /\ dbOpen
          /\ req[t].document.version # 1 \/ DocumentExists(req[t].document.doc_id)
          /\ Answer(t, ERROR)
          /\ UNCHANGED dbVars
    /\ UNCHANGED sessionVars

share_recipient(t) ==
    /\ At(t, "get_recipient")
    /\ dbOpen
    /\ IF UserExists(req[t].recipient) THEN Goto(t, "get_document") ELSE Answer(t, ERROR)
    /\ UNCHANGED <<dbVars, sessionVars>>

share_document_unchecked(t) ==
    /\ At(t, "get_document")
    /\ dbOpen
    /\ Goto(t, "create_share")
    /\ UNCHANGED <<dbVars, sessionVars>>

share_document(t) ==
    /\ At(t, "get_document")
    /\ dbOpen
    /\ IF DocumentExists(req[t].doc_id) THEN Goto(t, "create_share") ELSE Answer(t, ERROR)
    /\ UNCHANGED <<dbVars, sessionVars>>

share(t) ==
    /\ At(t, "create_share")
    /\ create_or_replace_share(req[t].share_blob)
    /\ Serve(t, OK)
    /\ UNCHANGED sessionVars

get_doc(t) ==
    /\ At(t, "read_document")
    /\ dbOpen
    /\ IF DocumentExists(req[t].doc_id)
       THEN Remember(t, documents[req[t].doc_id], "read_share")
       ELSE Answer(t, ERROR)
    /\ UNCHANGED <<dbVars, sessionVars>>

get_doc_share_unchecked(t) ==
    /\ At(t, "read_share")
    /\ dbOpen
    /\ Serve(t, [type |-> "DOC", document |-> found[t].blob,
                 share |-> shares[<<req[t].doc_id, req[t].username>>]])
    /\ UNCHANGED <<dbVars, sessionVars>>

(* The owner is always allowed; others need a share.                       *)
get_doc_share(t) ==
    /\ At(t, "read_share")
    /\ dbOpen
    /\ LET shareRow == shares[<<req[t].doc_id, req[t].username>>]
       IN  IF found[t].owner # req[t].username /\ shareRow = NoRow
           THEN Answer(t, ERROR)
           ELSE Serve(t, [type |-> "DOC", document |-> found[t].blob, share |-> shareRow])
    /\ UNCHANGED <<dbVars, sessionVars>>

list_docs(t) ==
    /\ Routed(t, "LIST_DOCS")
    /\ dbOpen
    /\ Remember(t, [owned |-> list_documents_owned_by(req[t].username)], "list_shares")
    /\ UNCHANGED <<dbVars, sessionVars>>

list_docs_shared(t) ==
    /\ At(t, "list_shares")
    /\ dbOpen
    /\ Answer(t, [type |-> "DOC_LIST", owned |-> found[t].owned,
                  shared |-> list_shares_for(req[t].username)])
    /\ UNCHANGED <<dbVars, sessionVars>>

change_password(t) ==
    /\ At(t, "update_auth")
    /\ update_user_auth(req[t].username, req[t].new_salt, req[t].new_auth_pub)
    /\ Serve(t, OK)
    /\ UNCHANGED sessionVars

-----------------------------------------------------------------------------
(* The process: time passes, stop() is called from another thread, the     *)
(* process dies and is started again on the same database file.            *)

Tick ==
    /\ clock < MaxClock
    /\ clock' = clock + 1
    /\ UNCHANGED <<dbVars, usedNonces, challenges, nextChallenge, threadVars, lifeVars, historyVars>>

(* _shutdown.set() and the close of the listening socket.                  *)
stop ==
    /\ ~shutdown
    /\ shutdown' = TRUE
    /\ UNCHANGED <<dbVars, sessionVars, threadVars, listening, restarts, historyVars>>

(* The accept loop meets the event or the closed socket.                   *)
StopListening ==
    /\ shutdown
    /\ listening
    /\ listening' = FALSE
    /\ UNCHANGED <<dbVars, sessionVars, threadVars, shutdown, restarts, historyVars>>

(* The last statement of stop(); it waits for no handler.                  *)
stop_db ==
    /\ shutdown
    /\ dbOpen
    /\ close
    /\ UNCHANGED <<sessionVars, threadVars, lifeVars, historyVars>>

(* A new process: the session state and all connections are gone, the      *)
(* rows are not.  Challenges drawn later still differ from earlier ones.   *)
Restart ==
    /\ restarts < MaxRestarts
    /\ restarts' = restarts + 1
    /\ reopen
    /\ usedNonces' = {}
    /\ challenges' = [u \in User |-> NoChallenge]
    /\ pc' = [t \in Thread |-> "idle"]
    /\ req' = [t \in Thread |-> NoRequest]
    /\ found' = [t \in Thread |-> NoRow]
    /\ reply' = [t \in Thread |-> NoReply]
    /\ listening' = TRUE
    /\ shutdown' = FALSE
    /\ served' = {}
    /\ repeated' = {}
    /\ earlier' = earlier \cup served
    /\ UNCHANGED <<nextChallenge, clock>>

(* One step of the thread that serves a connection.                        *)
HandlerStep(t) ==
    /\ \/ Refuse(t) \/ DbError(t) \/ Respond(t)
       \/ register(t)
       \/ login_challenge(t) \/ login_challenge_issue(t)
       \/ login(t) \/ login_verify(t)
       \/ get_salt(t) \/ get_user_pubkey(t)
       \/ authenticate(t) \/ check_nonce(t)
       \/ upload(t)
       \/ share_recipient(t) \/ share_document(t) \/ share(t)
       \/ get_doc(t) \/ get_doc_share(t)
       \/ list_docs(t) \/ list_docs_shared(t)
       \/ change_password(t)
    /\ UNCHANGED lifeVars

InFlight(t, type) == pc[t] \notin {"idle", "respond"} /\ req[t].type = type

(* A challenge can be signed only once it has been issued, and the bound   *)
(* on challenges limits the requests for them, not the handlers.           *)
Sendable(r) ==
    /\ r.type = "LOGIN_RESPONSE" =>
          \E c \in 0 .. nextChallenge - 1 : r.sig.payload = <<"challenge", c>>
    /\ r.type = "LOGIN_CHALLENGE_REQ" =>
          nextChallenge + Cardinality({t \in Thread : InFlight(t, r.type)}) < MaxChallenge

Deliver(t, r) == Sendable(r) /\ Accept(t, r)

Next ==
    \/ \E t \in Thread, r \in Requests : Deliver(t, r)
    \/ \E t \in Thread : HandlerStep(t)
    \/ Tick
    \/ stop \/ StopListening \/ stop_db
    \/ Restart

(* The operating system schedules every thread that can run.  Nothing is   *)
(* assumed of the clients, of time and of the operator.                    *)
Fairness == \A t \in Thread : WF_vars(HandlerStep(t))

Spec == Init /\ [][Next]_vars /\ Fairness

-----------------------------------------------------------------------------
(* Properties.                                                             *)

(* One-shot requests (session.py: used nonces are remembered, a challenge  *)
(* is single-use; db.py: primary keys).  However often and on however many *)
(* connections requests are delivered, of those that share a nonce, a      *)
(* login challenge, a username to register or a doc_id to create, at most  *)
(* one is carried out, and that one once, for as long as the process runs. *)
SpentOnce ==
    /\ repeated = {}
    /\ \A r1, r2 \in served : Conflict(r1, r2) => r1 = r2

(* Rows are created once (create_user, create_document): across restarts   *)
(* too, no account and no document is created a second time.               *)
CreatedOnce ==
    \A r1 \in earlier, r2 \in served \cup earlier :
        SameRow(r1, r2) => r1 = r2 /\ r1 \notin served

(* The foreign keys of the schema, which only the handlers enforce: a      *)
(* document belongs to a registered user and a share row to a stored       *)
(* document, a registered recipient and a registered sender; and the       *)
(* columns of a row agree with the blob stored in it.                      *)
ReferentialIntegrity ==
    /\ \A d \in DocId : DocumentExists(d) =>
          /\ UserExists(documents[d].owner)
          /\ documents[d].blob.doc_id = d
          /\ documents[d].blob.owner = documents[d].owner
          /\ documents[d].blob.version = documents[d].version
    /\ \A d \in DocId, u \in User : shares[<<d, u>>] # NoRow =>
          /\ DocumentExists(d)
          /\ UserExists(u)
          /\ UserExists(shares[<<d, u>>].sender)
          /\ shares[<<d, u>>].doc_id = d
          /\ shares[<<d, u>>].recipient = u

(* A response OK is durable (register, upload, share): what it confirms is *)
(* in the database ever after, after a crash and a restart as well.        *)
Durable ==
    \A r \in served \cup earlier :
        /\ r.type = "REGISTER" =>
              /\ UserExists(r.username)
              /\ users[r.username].sig_pub = r.row.sig_pub
              /\ users[r.username].dh_pub = r.row.dh_pub
        /\ r.type = "UPLOAD" =>
              /\ DocumentExists(r.document.doc_id)
              /\ documents[r.document.doc_id].blob = r.document
        /\ r.type = "SHARE" => shares[<<r.doc_id, r.recipient>>] # NoRow

(* Only a request with a valid signature costs a nonce (the docstring of   *)
(* _authenticate): every used nonce was in a request that its caller       *)
(* signed.  The key of a change of password may have been replaced since.  *)
NoncesEarned ==
    \A n \in usedNonces : \E r \in Requests :
        /\ r.type \in NonceTypes
        /\ r.nonce = n
        /\ r.sig.payload = canonical(r)
        /\ r.type # "CHANGE_PASSWORD" => SignedByCaller(r)

(* Identity keys and documents are for good: no step removes an account or *)
(* replaces its signing and key-agreement keys (update_user_auth only      *)
(* touches salt and auth_pub), and no step removes or alters a document.   *)
RowsPermanent ==
    [][/\ \A u \in User : UserExists(u) =>
             /\ users'[u] # NoRow
             /\ users'[u].sig_pub = users[u].sig_pub
             /\ users'[u].dh_pub = users[u].dh_pub
       /\ \A d \in DocId : DocumentExists(d) => documents'[d] = documents[d]
      ]_vars

(* The handlers, interleaved at every call, implement the atomic requests  *)
(* of AtomicVault: a check made in an earlier critical section still holds *)
(* when the request takes effect.                                          *)
Atomic == INSTANCE AtomicVault
ImplementsAtomicVault == Atomic!AtomicSpec

(* Every accepted request is answered and its connection closed, also      *)
(* when stop() closes the database meanwhile.                              *)
EveryRequestAnswered == \A t \in Thread : pc[t] # "idle" ~> pc[t] = "idle"

-----------------------------------------------------------------------------
(* The inductive invariant behind these properties: what a handler knows   *)
(* at each of its calls.                                                   *)

(* Calls made after the nonce was consumed, with the request they serve.   *)
ServesType(label) ==
    CASE label = "create_document" -> {"UPLOAD"}
      [] label \in {"get_recipient", "get_document", "create_share"} -> {"SHARE"}
      [] label \in {"read_document", "read_share"} -> {"GET_DOC"}
      [] label = "update_auth" -> {"CHANGE_PASSWORD"}
      [] label = "consume_nonce" -> NonceTypes
      [] label = "issue_challenge" -> {"LOGIN_CHALLENGE_REQ"}
      [] label = "consume_challenge" -> {"LOGIN_RESPONSE"}
      [] label = "list_shares" -> {"LIST_DOCS"}

PastNonce == {"create_document", "get_recipient", "get_document", "create_share",
              "read_document", "read_share", "update_auth"}

HandlerTypes(t) ==
    /\ pc[t] # "idle" => req[t] \in Requests
    /\ pc[t] \notin {"idle", "dispatch", "respond"} => req[t].type \in ServesType(pc[t])
    /\ pc[t] \in PastNonce => WellFormed(req[t])
    /\ pc[t] \in {"issue_challenge", "consume_challenge"} => found[t] \in UserRecord \cup {NoRow}
    /\ pc[t] = "read_share" => found[t] \in DocumentRecord
    /\ pc[t] = "list_shares" => found[t] \in [owned : SUBSET DocId]

(* Rows never disappear, so that what a handler has checked stays true.    *)
HandlerChecks(t) ==
    /\ pc[t] \in {"consume_nonce"} \cup PastNonce =>
          /\ UserExists(req[t].username)
          /\ req[t].sig.payload = canonical(req[t])
          /\ req[t].type # "CHANGE_PASSWORD" => SignedByCaller(req[t])
    /\ pc[t] = "consume_challenge" /\ found[t] # NoRow => UserExists(req[t].username)
    /\ pc[t] \in {"get_document", "create_share"} => UserExists(req[t].recipient)
    /\ pc[t] = "create_share" => DocumentExists(req[t].doc_id)
    /\ pc[t] = "read_share" => found[t] = documents[req[t].doc_id]

(* A nonce in use belongs to one handler or to one request carried out.    *)
NonceInv ==
    /\ \A t \in Thread : pc[t] \in PastNonce =>
          /\ req[t].nonce \in usedNonces
          /\ \A r \in served : r.type \in NonceTypes => r.nonce # req[t].nonce
          /\ \A u \in Thread : pc[u] \in PastNonce /\ req[u].nonce = req[t].nonce => u = t
    /\ \A r \in served : r.type \in NonceTypes => r.nonce \in usedNonces

(* A cached challenge is fresh, and the challenge of a login is not cached.*)
ChallengeInv ==
    /\ \A u \in User : challenges[u] # NoChallenge =>
          /\ challenges[u].value < nextChallenge
          /\ \A v \in User : challenges[v] # NoChallenge /\ challenges[v].value = challenges[u].value
                => v = u
    /\ \A r \in served : r.type = "LOGIN_RESPONSE" =>
          \E c \in 0 .. nextChallenge - 1 :
              /\ r.sig.payload = <<"challenge", c>>
              /\ \A u \in User : challenges[u] # NoChallenge => challenges[u].value # c

(* Only requests that spend something are recorded as carried out.         *)
OneShotTypes == NonceTypes \cup {"REGISTER", "LOGIN_RESPONSE"}

(* What the handlers rely on between two of their calls: the rows they     *)
(* have checked are still there, the nonce they hold is theirs alone, and  *)
(* a challenge that was used is in nobody's slot.                          *)
HandlersRely ==
    /\ \A t \in Thread : HandlerTypes(t) /\ HandlerChecks(t)
    /\ NonceInv
    /\ ChallengeInv
    /\ \A r \in served : r.type \in OneShotTypes

-----------------------------------------------------------------------------
(* session.py: every used request_nonce is remembered, rejecting replays.  *)
(* A request with a nonce that has been carried out is not carried out     *)
(* once more when it is delivered again, in a later life of the process    *)
(* on the same database either.                                            *)
ReplaysRejected == \A r \in served : r.type \in NonceTypes => r \notin earlier
=============================================================================
