---------------------- MODULE SecureVaultServer_proofs ----------------------
(***************************************************************************)
(* Proofs about the server, for any number of users, documents, threads,   *)
(* requests, challenges and restarts: its types, the permanence of rows,   *)
(* one-shot requests, the refinement of AtomicVault, the foreign keys and  *)
(* the histories.                                                          *)
(***************************************************************************)
EXTENDS SecureVaultServer, TLAPS

(* The fields each kind of request has (the _require_str and _require_b64  *)
(* calls of the handlers).                                                 *)
LEMMA RequestFields ==
    ASSUME NEW r \in Requests
    PROVE  /\ r.type = "REGISTER" => r.username \in User /\ r.row \in UserRecord
           /\ r.type \in {"LOGIN_CHALLENGE_REQ", "GET_SALT", "GET_USER_PUBKEY", "LIST_DOCS",
                          "LOGIN_RESPONSE"} => r.username \in User
           /\ r.type \in NonceTypes => r.username \in User /\ r.nonce \in Nonce
           /\ r.type = "UPLOAD" => r.document \in DocBlob \cup {Garbage}
           /\ r.type = "SHARE" =>
                 /\ r.recipient \in User
                 /\ r.doc_id \in DocRef
                 /\ r.share_blob \in ShareBlob \cup {Garbage}
           /\ r.type = "GET_DOC" => r.doc_id \in DocRef
           /\ r.type = "CHANGE_PASSWORD" =>
                 r.new_salt \in Salt \cup {BadSalt} /\ r.new_auth_pub \in Key
           /\ r.type \in {"REGISTER", "LOGIN_CHALLENGE_REQ", "GET_SALT", "GET_USER_PUBKEY",
                          "LIST_DOCS", "LOGIN_RESPONSE", "MALFORMED"} \cup NonceTypes
<1>1. r \in Request
  BY RequestsAssumption
<1>2. CASE r \in RegisterRequest
  BY <1>2 DEF RegisterRequest, NonceTypes
<1>3. CASE r \in QueryRequest
  BY <1>3 DEF QueryRequest, NonceTypes
<1>4. CASE r \in LoginRequest
  BY <1>4 DEF LoginRequest, NonceTypes
<1>5. CASE r \in UploadRequest
  BY <1>5 DEF UploadRequest, NonceTypes
<1>6. CASE r \in ShareRequest
  BY <1>6 DEF ShareRequest, NonceTypes
<1>7. CASE r \in GetDocRequest
  BY <1>7 DEF GetDocRequest, NonceTypes
<1>8. CASE r \in ChangeRequest
  BY <1>8 DEF ChangeRequest, NonceTypes
<1>9. CASE r \in MalformedRequest
  BY <1>9 DEF MalformedRequest, NonceTypes
<1> QED
  BY <1>1, <1>2, <1>3, <1>4, <1>5, <1>6, <1>7, <1>8, <1>9 DEF Request

-----------------------------------------------------------------------------
(* Type correctness.  TypeOK alone is not inductive: a handler that uses   *)
(* found[t] as a user's row must know that it read one.                    *)

ThreadInv == ThreadTypeOK /\ \A t \in Thread : HandlerTypes(t)

TInv ==
    /\ DBTypeOK
    /\ SessionTypeOK
    /\ ThreadInv
    /\ HistoryTypeOK
    /\ listening \in BOOLEAN
    /\ shutdown \in BOOLEAN
    /\ restarts \in Nat

(* The other threads do not notice a step of t.                            *)
LEMMA OtherHandlers ==
    ASSUME ThreadInv, NEW t \in Thread, NEW u \in Thread, u # t,
           pc'[u] = pc[u], req'[u] = req[u], found'[u] = found[u]
    PROVE  HandlerTypes(u)'
  BY DEF ThreadInv, HandlerTypes, WellFormed

(* Returning a response keeps the threads well-typed.                      *)
LEMMA ReturnTypes ==
    ASSUME ThreadInv, NEW t \in Thread, NEW response \in Reply,
           pc[t] # "idle", Return(t, response)
    PROVE  ThreadInv'
<1>1. ThreadTypeOK'
  BY DEF ThreadInv, ThreadTypeOK, Return, Labels
<1>2. HandlerTypes(t)'
  BY DEF ThreadInv, ThreadTypeOK, HandlerTypes, Return, PastNonce
<1>3. \A u \in Thread : u # t => HandlerTypes(u)'
  BY OtherHandlers DEF ThreadInv, ThreadTypeOK, Return
<1> QED
  BY <1>1, <1>2, <1>3 DEF ThreadInv

(* So does going on to the next call, if the request is one it serves.     *)
LEMMA GotoTypes ==
    ASSUME ThreadInv, NEW t \in Thread, NEW label \in {"consume_nonce"} \cup PastNonce,
           pc[t] # "idle", label # "read_share", Goto(t, label),
           req[t].type \in ServesType(label),
           label \in PastNonce => WellFormed(req[t])
    PROVE  ThreadInv'
<1>1. ThreadTypeOK'
  BY DEF ThreadInv, ThreadTypeOK, Goto, Labels, DbCalls, SessionCalls, PastNonce
<1>2. HandlerTypes(t)'
  BY DEF ThreadInv, ThreadTypeOK, HandlerTypes, Goto, PastNonce, WellFormed, ServesType
<1>3. \A u \in Thread : u # t => HandlerTypes(u)'
  BY OtherHandlers DEF ThreadInv, ThreadTypeOK, Goto
<1> QED
  BY <1>1, <1>2, <1>3 DEF ThreadInv

(* And remembering a row of the table the next call expects it from.       *)
LEMMA RememberTypes ==
    ASSUME ThreadInv, NEW t \in Thread, NEW label, NEW row,
           pc[t] # "idle", Remember(t, row, label),
           req[t].type \in ServesType(label),
           \/ label \in {"issue_challenge", "consume_challenge"} /\ row \in UserRecord \cup {NoRow}
           \/ label = "read_share" /\ row \in DocumentRecord /\ WellFormed(req[t])
           \/ label = "list_shares" /\ row \in [owned : SUBSET DocId]
    PROVE  ThreadInv'
<1>1. ThreadTypeOK'
  BY DEF ThreadInv, ThreadTypeOK, Remember, Labels, DbCalls, SessionCalls
<1>2. HandlerTypes(t)'
  BY DEF ThreadInv, ThreadTypeOK, HandlerTypes, Remember, PastNonce, WellFormed, ServesType
<1>3. \A u \in Thread : u # t => HandlerTypes(u)'
  BY OtherHandlers DEF ThreadInv, ThreadTypeOK, Remember
<1> QED
  BY <1>1, <1>2, <1>3 DEF ThreadInv

(* The responses without fields are responses.                             *)
LEMMA PlainReplies == ERROR \in Reply /\ OK \in Reply /\ NoReply \in Reply
  BY DEF ERROR, OK, NoReply, Reply

(* A step of a handler.                                                    *)
LEMMA HandlerStepTypes ==
    ASSUME TInv, NEW t \in Thread, HandlerStep(t)
    PROVE  TInv'
<1> USE DEF TInv, dbVars, sessionVars, lifeVars, historyVars
<1>0. /\ pc[t] # "idle"
      /\ req[t] \in Requests
      /\ HandlerTypes(t)
  BY DEF ThreadInv, HandlerTypes, HandlerStep, Refuse, DbError, Respond, register,
         login_challenge, login_challenge_issue, login, login_verify, get_salt,
         get_user_pubkey, authenticate, check_nonce, upload, share_recipient,
         share_document, share, get_doc, get_doc_share, list_docs, list_docs_shared,
         change_password, Routed, At, DbCalls
<1>L. listening' \in BOOLEAN /\ shutdown' \in BOOLEAN /\ restarts' \in Nat
  BY DEF HandlerStep
<1>1. CASE Refuse(t)
  BY <1>0, <1>1, <1>L, ReturnTypes, PlainReplies
     DEF Refuse, Answer, DBTypeOK, SessionTypeOK, HistoryTypeOK
<1>2. CASE DbError(t)
  BY <1>0, <1>2, <1>L, ReturnTypes, PlainReplies
     DEF DbError, Answer, DBTypeOK, SessionTypeOK, HistoryTypeOK
<1>3. CASE Respond(t)
  <2>1. ThreadTypeOK'
    BY <1>3, PlainReplies DEF ThreadInv, ThreadTypeOK, Respond, Labels
  <2>2. HandlerTypes(t)'
    BY <1>3 DEF ThreadInv, ThreadTypeOK, HandlerTypes, Respond, PastNonce
  <2>3. \A u \in Thread : u # t => HandlerTypes(u)'
    BY <1>3, OtherHandlers DEF ThreadInv, ThreadTypeOK, Respond
  <2> QED
    BY <1>3, <1>L, <2>1, <2>2, <2>3
       DEF Respond, ThreadInv, DBTypeOK, SessionTypeOK, HistoryTypeOK
<1>4. CASE register(t)
  <2>1. req[t].username \in User /\ req[t].row \in UserRecord
    BY <1>0, <1>4, RequestFields DEF register, Routed
  <2>2. DBTypeOK'
    BY <1>4, <2>1 DEF register, create_user, DBTypeOK
  <2>3. ThreadInv' /\ HistoryTypeOK'
    BY <1>0, <1>4, ReturnTypes, PlainReplies DEF register, Serve, Answer, HistoryTypeOK
  <2> QED
    BY <1>4, <1>L, <2>2, <2>3 DEF register, SessionTypeOK
<1>5. CASE login_challenge(t)
  <2>1. users[req[t].username] \in UserRecord \cup {NoRow}
    BY <1>0, <1>5, RequestFields DEF login_challenge, Routed, DBTypeOK
  <2>2. ThreadInv'
    BY <1>0, <1>5, <2>1, RememberTypes DEF login_challenge, Routed, ServesType
  <2> QED
    BY <1>5, <1>L, <2>2 DEF login_challenge, Remember, DBTypeOK, SessionTypeOK, HistoryTypeOK
<1>6. CASE login_challenge_issue(t)
  <2>1. /\ req[t].username \in User
        /\ found[t] \in UserRecord \cup {NoRow}
    BY <1>0, <1>6, RequestFields DEF login_challenge_issue, At, HandlerTypes, ServesType
  <2>2. [type |-> "LOGIN_CHALLENGE",
         salt |-> IF found[t] = NoRow THEN FakeSalt ELSE found[t].salt,
         challenge |-> nextChallenge] \in Reply
    BY <2>1 DEF Reply, UserRecord, SessionTypeOK
  <2>3. ThreadInv'
    BY <1>0, <1>6, <2>2, ReturnTypes DEF login_challenge_issue, Answer
  <2>4. SessionTypeOK'
    BY <1>6, <2>1 DEF login_challenge_issue, issue_challenge, SessionTypeOK, Challenge
  <2> QED
    BY <1>6, <1>L, <2>3, <2>4 DEF login_challenge_issue, Answer, DBTypeOK, HistoryTypeOK
<1>7. CASE login(t)
  <2>1. users[req[t].username] \in UserRecord \cup {NoRow}
    BY <1>0, <1>7, RequestFields DEF login, Routed, DBTypeOK
  <2>2. ThreadInv'
    BY <1>0, <1>7, <2>1, RememberTypes DEF login, Routed, ServesType
  <2> QED
    BY <1>7, <1>L, <2>2 DEF login, Remember, DBTypeOK, SessionTypeOK, HistoryTypeOK
<1>8. CASE login_verify(t)
  <2>1. ThreadInv' /\ HistoryTypeOK'
    BY <1>0, <1>8, ReturnTypes, PlainReplies DEF login_verify, Serve, Answer, HistoryTypeOK
  <2>2. SessionTypeOK'
    BY <1>8 DEF login_verify, consume_challenge, SessionTypeOK
  <2> QED
    BY <1>8, <1>L, <2>1, <2>2 DEF login_verify, DBTypeOK
<1>9. CASE get_salt(t)
  <2>1. users[req[t].username] \in UserRecord \cup {NoRow}
    BY <1>0, <1>9, RequestFields DEF get_salt, Routed, DBTypeOK
  <2>2. UserExists(req[t].username) =>
          [type |-> "OK", salt |-> users[req[t].username].salt] \in Reply
    BY <2>1 DEF UserExists, UserRecord, Reply
  <2>3. ThreadInv'
    BY <1>0, <1>9, <2>2, ReturnTypes, PlainReplies DEF get_salt, Answer
  <2> QED
    BY <1>9, <1>L, <2>3 DEF get_salt, Answer, DBTypeOK, SessionTypeOK, HistoryTypeOK
<1>10. CASE get_user_pubkey(t)
  <2>1. users[req[t].username] \in UserRecord \cup {NoRow}
    BY <1>0, <1>10, RequestFields DEF get_user_pubkey, Routed, DBTypeOK
  <2>2. UserExists(req[t].username) =>
          [type |-> "USER_PUBKEY", sig_pub |-> users[req[t].username].sig_pub,
           dh_pub |-> users[req[t].username].dh_pub] \in Reply
    BY <2>1 DEF UserExists, UserRecord, Reply
  <2>3. ThreadInv'
    BY <1>0, <1>10, <2>2, ReturnTypes, PlainReplies DEF get_user_pubkey, Answer
  <2> QED
    BY <1>10, <1>L, <2>3 DEF get_user_pubkey, Answer, DBTypeOK, SessionTypeOK, HistoryTypeOK
<1>11. CASE authenticate(t)
  <2>1. ThreadInv'
    BY <1>0, <1>11, GotoTypes, ReturnTypes, PlainReplies
       DEF authenticate, Answer, ServesType, PastNonce
  <2> QED
    BY <1>11, <1>L, <2>1
       DEF authenticate, Goto, Answer, DBTypeOK, SessionTypeOK, HistoryTypeOK
<1>12. CASE check_nonce(t)
  <2>1. req[t].type \in NonceTypes /\ req[t].nonce \in Nonce
    BY <1>0, <1>12, RequestFields DEF check_nonce, At, HandlerTypes, ServesType
  <2>2. /\ FirstCall[req[t].type] \in PastNonce \ {"read_share"}
        /\ req[t].type \in ServesType(FirstCall[req[t].type])
    BY <2>1 DEF NonceTypes, FirstCall, PastNonce, ServesType
  <2>3. ThreadInv'
    BY <1>0, <1>12, <2>2, GotoTypes, ReturnTypes, PlainReplies DEF check_nonce, Answer
  <2>4. SessionTypeOK'
    BY <1>12, <2>1 DEF check_nonce, consume_nonce, SessionTypeOK
  <2> QED
    BY <1>12, <1>L, <2>3, <2>4 DEF check_nonce, Goto, Answer, DBTypeOK, HistoryTypeOK
<1>13. CASE upload(t)
  <2>1. req[t].document \in DocBlob
    BY <1>0, <1>13, RequestFields
       DEF upload, At, HandlerTypes, ServesType, PastNonce, WellFormed
  <2>2. DBTypeOK'
    BY <1>13, <2>1 DEF upload, create_document, DBTypeOK, DocBlob, DocumentRecord
  <2>3. ThreadInv' /\ HistoryTypeOK'
    BY <1>0, <1>13, ReturnTypes, PlainReplies DEF upload, Serve, Answer, HistoryTypeOK
  <2> QED
    BY <1>13, <1>L, <2>2, <2>3 DEF upload, SessionTypeOK
<1>14. CASE share_recipient(t)
  <2>1. ThreadInv'
    BY <1>0, <1>14, GotoTypes, ReturnTypes, PlainReplies
       DEF share_recipient, At, Answer, HandlerTypes, ServesType, PastNonce
  <2> QED
    BY <1>14, <1>L, <2>1
       DEF share_recipient, Goto, Answer, DBTypeOK, SessionTypeOK, HistoryTypeOK
<1>15. CASE share_document(t)
  <2>1. ThreadInv'
    BY <1>0, <1>15, GotoTypes, ReturnTypes, PlainReplies
       DEF share_document, At, Answer, HandlerTypes, ServesType, PastNonce
  <2> QED
    BY <1>15, <1>L, <2>1
       DEF share_document, Goto, Answer, DBTypeOK, SessionTypeOK, HistoryTypeOK
<1>16. CASE share(t)
  <2>1. req[t].share_blob \in ShareBlob
    BY <1>0, <1>16, RequestFields
       DEF share, At, HandlerTypes, ServesType, PastNonce, WellFormed
  <2>2. DBTypeOK'
    BY <1>16, <2>1 DEF share, create_or_replace_share, DBTypeOK, ShareBlob
  <2>3. ThreadInv' /\ HistoryTypeOK'
    BY <1>0, <1>16, ReturnTypes, PlainReplies DEF share, Serve, HistoryTypeOK
  <2> QED
    BY <1>16, <1>L, <2>2, <2>3 DEF share, SessionTypeOK
<1>17. CASE get_doc(t)
  <2>1. req[t].type = "GET_DOC" /\ WellFormed(req[t]) /\ req[t].doc_id \in DocId
    BY <1>0, <1>17 DEF get_doc, At, HandlerTypes, ServesType, PastNonce, WellFormed
  <2>2. DocumentExists(req[t].doc_id) => documents[req[t].doc_id] \in DocumentRecord
    BY <2>1 DEF DocumentExists, DBTypeOK
  <2>3. ThreadInv'
    BY <1>0, <1>17, <2>1, <2>2, RememberTypes, ReturnTypes, PlainReplies
       DEF get_doc, Answer, ServesType
  <2> QED
    BY <1>17, <1>L, <2>3
       DEF get_doc, Remember, Answer, DBTypeOK, SessionTypeOK, HistoryTypeOK
<1>18. CASE get_doc_share(t)
  <2>1. /\ req[t].doc_id \in DocId
        /\ req[t].username \in User
        /\ found[t] \in DocumentRecord
    BY <1>0, <1>18, RequestFields
       DEF get_doc_share, At, HandlerTypes, ServesType, PastNonce, NonceTypes, WellFormed
  <2>2. [type |-> "DOC", document |-> found[t].blob,
         share |-> shares[<<req[t].doc_id, req[t].username>>]] \in Reply
    BY <2>1 DEF Reply, DocumentRecord, DBTypeOK
  <2>3. ThreadInv' /\ HistoryTypeOK'
    BY <1>0, <1>18, <2>2, ReturnTypes, PlainReplies DEF get_doc_share, Serve, Answer, HistoryTypeOK
  <2> QED
    BY <1>18, <1>L, <2>3 DEF get_doc_share, DBTypeOK, SessionTypeOK
<1>19. CASE list_docs(t)
  <2>1. [owned |-> list_documents_owned_by(req[t].username)] \in [owned : SUBSET DocId]
    BY DEF list_documents_owned_by
  <2>2. ThreadInv'
    BY <1>0, <1>19, <2>1, RememberTypes DEF list_docs, Routed, ServesType
  <2> QED
    BY <1>19, <1>L, <2>2 DEF list_docs, Remember, DBTypeOK, SessionTypeOK, HistoryTypeOK
<1>20. CASE list_docs_shared(t)
  <2>1. [type |-> "DOC_LIST", owned |-> found[t].owned,
         shared |-> list_shares_for(req[t].username)] \in Reply
    BY <1>0, <1>20 DEF list_docs_shared, At, HandlerTypes, Reply, list_shares_for
  <2>2. ThreadInv'
    BY <1>0, <1>20, <2>1, ReturnTypes DEF list_docs_shared, Answer
  <2> QED
    BY <1>20, <1>L, <2>2 DEF list_docs_shared, Answer, DBTypeOK, SessionTypeOK, HistoryTypeOK
<1>21. CASE change_password(t)
  <2>1. req[t].username \in User /\ req[t].new_salt \in Salt /\ req[t].new_auth_pub \in Key
    BY <1>0, <1>21, RequestFields
       DEF change_password, At, HandlerTypes, ServesType, PastNonce, NonceTypes, WellFormed
  <2>2. DBTypeOK'
    BY <1>21, <2>1 DEF change_password, update_user_auth, UserExists, DBTypeOK, UserRecord
  <2>3. ThreadInv' /\ HistoryTypeOK'
    BY <1>0, <1>21, ReturnTypes, PlainReplies DEF change_password, Serve, HistoryTypeOK
  <2> QED
    BY <1>21, <1>L, <2>2, <2>3 DEF change_password, SessionTypeOK
<1> QED
  BY <1>1, <1>2, <1>3, <1>4, <1>5, <1>6, <1>7, <1>8, <1>9, <1>10, <1>11, <1>12, <1>13,
     <1>14, <1>15, <1>16, <1>17, <1>18, <1>19, <1>20, <1>21 DEF HandlerStep

(* A server that has just been started is well-typed.                      *)
LEMMA InitTypes == Init => TInv
<1> SUFFICES ASSUME Init PROVE TInv
  OBVIOUS
<1> USE DEF Init, ServerInit
<1>1. DBTypeOK
  BY DEF DBInit, DBTypeOK
<1>2. SessionTypeOK
  BY DEF SessionInit, SessionTypeOK
<1>3. ThreadInv
  BY PlainReplies DEF ThreadInv, ThreadTypeOK, HandlerTypes, Labels, PastNonce
<1> QED
  BY <1>1, <1>2, <1>3 DEF TInv, HistoryTypeOK

(* Every step of the server keeps it well-typed: handlers, accept loop,    *)
(* clock, stop() and restart.                                              *)
LEMMA NextTypes == TInv /\ [Next]_vars => TInv'
<1> SUFFICES ASSUME TInv, [Next]_vars PROVE TInv'
  OBVIOUS
<1> USE DEF TInv, dbVars, sessionVars, lifeVars, historyVars
<1>1. ASSUME NEW t \in Thread, NEW r \in Requests, Deliver(t, r) PROVE TInv'
  <2>1. ThreadTypeOK'
    BY <1>1 DEF Deliver, Accept, ThreadInv, ThreadTypeOK, Labels, DbCalls
  <2>2. HandlerTypes(t)'
    BY <1>1 DEF Deliver, Accept, ThreadInv, ThreadTypeOK, HandlerTypes, PastNonce
  <2>3. \A u \in Thread : u # t => HandlerTypes(u)'
    BY <1>1, OtherHandlers DEF Deliver, Accept, ThreadInv, ThreadTypeOK
  <2> QED
    BY <1>1, <2>1, <2>2, <2>3
       DEF Deliver, Accept, ThreadInv, DBTypeOK, SessionTypeOK, HistoryTypeOK
<1>2. ASSUME NEW t \in Thread, HandlerStep(t) PROVE TInv'
  BY <1>2, HandlerStepTypes
<1>3. ASSUME threadVars' = threadVars PROVE ThreadInv'
  BY <1>3 DEF threadVars, ThreadInv, ThreadTypeOK, HandlerTypes, WellFormed
<1>4. CASE Tick
  BY <1>3, <1>4 DEF Tick, DBTypeOK, SessionTypeOK, HistoryTypeOK
<1>5. CASE stop
  BY <1>3, <1>5 DEF stop, DBTypeOK, SessionTypeOK, HistoryTypeOK
<1>6. CASE StopListening
  BY <1>3, <1>6 DEF StopListening, DBTypeOK, SessionTypeOK, HistoryTypeOK
<1>7. CASE stop_db
  BY <1>3, <1>7 DEF stop_db, close, DBTypeOK, SessionTypeOK, HistoryTypeOK
<1>8. CASE Restart
  <2>1. ThreadInv'
    BY <1>8, PlainReplies
       DEF Restart, ThreadInv, ThreadTypeOK, HandlerTypes, Labels, PastNonce
  <2>2. DBTypeOK' /\ SessionTypeOK'
    BY <1>8 DEF Restart, reopen, DBTypeOK, SessionTypeOK
  <2>3. HistoryTypeOK'
    BY <1>8 DEF Restart, HistoryTypeOK
  <2>4. listening' \in BOOLEAN /\ shutdown' \in BOOLEAN
    BY <1>8 DEF Restart
  <2>5. restarts' \in Nat
    BY <1>8 DEF Restart
  <2> QED
    BY <2>1, <2>2, <2>3, <2>4, <2>5
<1>9. CASE UNCHANGED vars
  BY <1>3, <1>9 DEF vars, threadVars, DBTypeOK, SessionTypeOK, HistoryTypeOK
<1> QED
  BY <1>1, <1>2, <1>4, <1>5, <1>6, <1>7, <1>8, <1>9 DEF Next

(* In every reachable state of the server, with any number of connections, *)
(* requests and restarts, tables, session state, handlers and responses    *)
(* are what the code takes them for.                                       *)
THEOREM TypeCorrect == Spec => []TypeOK
<1>1. TInv => TypeOK
  BY DEF TInv, ThreadInv, TypeOK
<1> QED
  BY <1>1, InitTypes, NextTypes, PTL DEF Spec

(* The inductive form of TypeCorrect, with what each handler has read so   *)
(* far (HandlerTypes), for the proofs that build on it.                    *)
THEOREM TypeInvariant == Spec => []TInv
  BY InitTypes, NextTypes, PTL DEF Spec

-----------------------------------------------------------------------------
(* Rows are permanent.                                                     *)

RowsGrow ==
    /\ \A u \in User : UserExists(u) =>
          /\ users'[u] # NoRow
          /\ users'[u].sig_pub = users[u].sig_pub
          /\ users'[u].dh_pub = users[u].dh_pub
    /\ \A d \in DocId : DocumentExists(d) => documents'[d] = documents[d]
    /\ \A d \in DocId, u \in User : shares[<<d, u>>] # NoRow => shares'[<<d, u>>] # NoRow

(* The handlers that touch a table are register, upload, share and         *)
(* change_password.                                                        *)
LEMMA StepKinds ==
    ASSUME [Next]_vars
    PROVE  \/ UNCHANGED <<users, documents, shares>>
           \/ \E t \in Thread : register(t) \/ upload(t) \/ share(t) \/ change_password(t)
<1>1. ASSUME NEW t \in Thread, HandlerStep(t)
      PROVE  \/ UNCHANGED <<users, documents, shares>>
             \/ register(t) \/ upload(t) \/ share(t) \/ change_password(t)
  BY <1>1 DEF HandlerStep, Refuse, DbError, Respond, login_challenge, login_challenge_issue,
       login, login_verify, get_salt, get_user_pubkey, authenticate, check_nonce,
       share_recipient, share_document, get_doc, get_doc_share, list_docs,
       list_docs_shared, dbVars
<1>2. ASSUME NEW t \in Thread, NEW r \in Requests, Deliver(t, r)
      PROVE  UNCHANGED <<users, documents, shares>>
  BY <1>2 DEF Deliver, Accept, dbVars
<1>3. Tick \/ stop \/ StopListening \/ stop_db \/ Restart \/ UNCHANGED vars
      => UNCHANGED <<users, documents, shares>>
  BY DEF Tick, stop, StopListening, stop_db, close, Restart, reopen, dbVars, vars
<1> QED
  BY <1>1, <1>2, <1>3 DEF Next

(* No step takes a row away or changes an identity key or a document       *)
(* (db.py has no DELETE, update_user_auth sets only salt and auth_pub).    *)
LEMMA Permanence ==
    ASSUME TInv, [Next]_vars
    PROVE  RowsGrow
<1> USE DEF TInv, RowsGrow, DBTypeOK
<1>1. CASE UNCHANGED <<users, documents, shares>>
  BY <1>1 DEF UserExists, DocumentExists
<1>2. ASSUME NEW t \in Thread, register(t) PROVE RowsGrow
  BY <1>2 DEF register, create_user, dbVars, UserExists, DocumentExists
<1>3. ASSUME NEW t \in Thread, upload(t) PROVE RowsGrow
  BY <1>3 DEF upload, create_document, dbVars, UserExists, DocumentExists
<1>4. ASSUME NEW t \in Thread, share(t) PROVE RowsGrow
  <2>1. req[t].share_blob \in ShareBlob
    BY <1>4, RequestFields
       DEF share, At, ThreadInv, HandlerTypes, ServesType, PastNonce, WellFormed
  <2>2. req[t].share_blob # NoRow
    BY <2>1, NoRowAssumption
  <2> QED
    BY <1>4, <2>1, <2>2 DEF share, create_or_replace_share, UserExists, DocumentExists
<1>5. ASSUME NEW t \in Thread, change_password(t) PROVE RowsGrow
  <2>1. req[t].username \in User /\ req[t].new_salt \in Salt /\ req[t].new_auth_pub \in Key
    BY <1>5, RequestFields
       DEF change_password, At, ThreadInv, HandlerTypes, ServesType, PastNonce, NonceTypes, WellFormed
  <2>2. users[req[t].username] \in UserRecord
    BY <1>5, <2>1 DEF change_password, update_user_auth, UserExists
  <2> DEFINE row == [users[req[t].username] EXCEPT !.salt = req[t].new_salt,
                                                   !.auth_pub = req[t].new_auth_pub]
  <2>3. row \in UserRecord /\ row # NoRow
    BY <2>1, <2>2, NoRowAssumption DEF UserRecord
  <2> QED
    BY <1>5, <2>1, <2>2, <2>3
       DEF change_password, update_user_auth, UserExists, DocumentExists, UserRecord
<1> QED
  BY <1>1, <1>2, <1>3, <1>4, <1>5, StepKinds

(* No step of the server removes an account or replaces its identity keys, *)
(* and none removes or alters a document.                                  *)
THEOREM RowsArePermanent == Spec => RowsPermanent
<1>1. TInv /\ [Next]_vars =>
        [/\ \A u \in User : UserExists(u) =>
              /\ users'[u] # NoRow
              /\ users'[u].sig_pub = users[u].sig_pub
              /\ users'[u].dh_pub = users[u].dh_pub
         /\ \A d \in DocId : DocumentExists(d) => documents'[d] = documents[d]]_vars
  BY Permanence DEF RowsGrow
<1> QED
  BY <1>1, TypeInvariant, PTL DEF Spec, RowsPermanent

-----------------------------------------------------------------------------
(* What a handler has checked stays true until it takes effect.            *)

ChecksInv == \A t \in Thread : HandlerChecks(t)

(* A signature that was valid stays valid, for identity keys do not change.*)
LEMMA SignatureStable ==
    ASSUME NEW r \in Requests, r.type \in NonceTypes \ {"CHANGE_PASSWORD"},
           SignedByCaller(r), RowsGrow
    PROVE  SignedByCaller(r)'
<1>1. r.username \in User
  BY RequestFields
<1> QED
  BY <1>1 DEF SignedByCaller, UserExists, CheckedKey, RowsGrow, verify_request_signature, canonical

(* A handler that makes no call keeps its checks.                          *)
LEMMA ChecksStable ==
    ASSUME TInv, RowsGrow, NEW t \in Thread, HandlerChecks(t),
           pc'[t] = pc[t], req'[t] = req[t], found'[t] = found[t]
    PROVE  HandlerChecks(t)'
<1> USE DEF TInv, ThreadInv
<1>0. HandlerTypes(t)
  OBVIOUS
<1>1. ASSUME pc[t] \in {"consume_nonce"} \cup PastNonce
      PROVE  /\ UserExists(req[t].username)'
             /\ req'[t].sig.payload = canonical(req'[t])
             /\ req[t].type # "CHANGE_PASSWORD" => SignedByCaller(req[t])'
  <2>1. req[t] \in Requests /\ req[t].type \in NonceTypes /\ req[t].username \in User
    BY <1>0, <1>1, RequestFields DEF HandlerTypes, ServesType, PastNonce, NonceTypes
  <2>2. UserExists(req[t].username)'
    BY <1>1, <2>1 DEF HandlerChecks, UserExists, RowsGrow
  <2>3. req'[t].sig.payload = canonical(req'[t])
    BY <1>1 DEF HandlerChecks
  <2>4. ASSUME req[t].type # "CHANGE_PASSWORD" PROVE SignedByCaller(req[t])'
    <3>1. SignedByCaller(req[t])
      BY <1>1, <2>4 DEF HandlerChecks
    <3> QED
      BY <2>1, <2>2, <2>4, <3>1
         DEF SignedByCaller, UserExists, CheckedKey, RowsGrow, verify_request_signature, canonical
  <2> QED
    BY <2>2, <2>3, <2>4
<1>2. ASSUME pc[t] = "consume_challenge", found[t] # NoRow PROVE UserExists(req[t].username)'
  <2>1. req[t].username \in User
    BY <1>0, <1>2, RequestFields DEF HandlerTypes, ServesType
  <2> QED
    BY <1>2, <2>1 DEF HandlerChecks, UserExists, RowsGrow
<1>3. ASSUME pc[t] \in {"get_document", "create_share"} PROVE UserExists(req[t].recipient)'
  <2>1. req[t].recipient \in User
    BY <1>0, <1>3, RequestFields DEF HandlerTypes, ServesType
  <2> QED
    BY <1>3, <2>1 DEF HandlerChecks, UserExists, RowsGrow
<1>4. ASSUME pc[t] = "create_share" PROVE DocumentExists(req[t].doc_id)'
  <2>1. req[t].doc_id \in DocId
    BY <1>0, <1>4 DEF HandlerTypes, ServesType, PastNonce, WellFormed
  <2> QED
    BY <1>4, <2>1 DEF HandlerChecks, DocumentExists, RowsGrow
<1>5. ASSUME pc[t] = "read_share" PROVE found'[t] = documents'[req'[t].doc_id]
  <2>1. req[t].doc_id \in DocId
    BY <1>0, <1>5 DEF HandlerTypes, ServesType, PastNonce, WellFormed
  <2>2. found[t] = documents[req[t].doc_id] /\ found[t] # NoRow
    BY <1>0, <1>5, NoRowAssumption DEF HandlerChecks, HandlerTypes
  <2> QED
    BY <2>1, <2>2 DEF DocumentExists, RowsGrow
<1> QED
  BY <1>1, <1>2, <1>3, <1>4, <1>5 DEF HandlerChecks

(* Nothing is checked before the first call and after the return.          *)
LEMMA ChecksEmpty ==
    ASSUME NEW t \in Thread, pc'[t] \in {"idle", "dispatch", "respond"}
    PROVE  HandlerChecks(t)'
  BY DEF HandlerChecks, PastNonce

(* A handler keeps its own checks and those of the others (HandlerChecks). *)
LEMMA HandlerStepChecks ==
    ASSUME TInv, ChecksInv, RowsGrow, NEW t \in Thread, HandlerStep(t)
    PROVE  ChecksInv'
<1> USE DEF TInv, ThreadInv, ThreadTypeOK, ChecksInv
<1>0. HandlerTypes(t) /\ HandlerChecks(t)
  OBVIOUS
<1>1. ASSUME NEW u \in Thread, u # t PROVE HandlerChecks(u)'
  <2>1. pc'[u] = pc[u] /\ req'[u] = req[u] /\ found'[u] = found[u]
    BY <1>1 DEF HandlerStep, Refuse, DbError, Respond, register,
         login_challenge, login_challenge_issue, login, login_verify, get_salt,
         get_user_pubkey, authenticate, check_nonce, upload, share_recipient,
         share_document, share, get_doc, get_doc_share, list_docs, list_docs_shared,
         change_password, Goto, Remember, Serve, Answer, Return
  <2> QED
    BY <1>1, <2>1, ChecksStable
<1>2. CASE \/ Refuse(t) \/ DbError(t) \/ Respond(t) \/ register(t) \/ login_challenge_issue(t)
           \/ login_verify(t) \/ get_salt(t) \/ get_user_pubkey(t) \/ upload(t) \/ share(t)
           \/ get_doc_share(t) \/ list_docs_shared(t) \/ change_password(t)
  <2>1. pc'[t] \in {"idle", "respond"}
    BY <1>2 DEF Refuse, DbError, Respond, register, login_challenge_issue, login_verify,
         get_salt, get_user_pubkey, upload, share, get_doc_share, list_docs_shared,
         change_password, Serve, Answer, Return
  <2> QED
    BY <1>1, <2>1, ChecksEmpty
<1>3. CASE login_challenge(t)
  <2>1. pc'[t] = "issue_challenge"
    BY <1>3 DEF login_challenge, Remember
  <2> QED
    BY <1>1, <2>1 DEF HandlerChecks, PastNonce
<1>4. CASE login(t)
  <2>1. /\ pc'[t] = "consume_challenge"
        /\ found'[t] = users[req[t].username]
        /\ req' = req
        /\ users' = users
    BY <1>4 DEF login, Remember, dbVars
  <2> QED
    BY <1>1, <2>1 DEF HandlerChecks, PastNonce, UserExists
<1>5. CASE authenticate(t)
  <2>1. CASE ~SignedByCaller(req[t])
    BY <1>1, <1>5, <2>1, ChecksEmpty DEF authenticate, Answer, Return
  <2>2. CASE SignedByCaller(req[t])
    <3>1. /\ pc'[t] = "consume_nonce"
          /\ req' = req
          /\ users' = users
      BY <1>5, <2>2 DEF authenticate, Goto, dbVars
    <3>2. /\ UserExists(req[t].username)
          /\ req[t].sig.payload = canonical(req[t])
      BY <2>2 DEF SignedByCaller, verify_request_signature
    <3>3. SignedByCaller(req[t])' /\ UserExists(req[t].username)'
      BY <2>2, <3>1, <3>2 DEF SignedByCaller, UserExists
    <3> QED
      BY <1>1, <3>1, <3>2, <3>3 DEF HandlerChecks, PastNonce
  <2> QED
    BY <2>1, <2>2
<1>6. CASE check_nonce(t)
  <2>1. CASE pc'[t] = "respond"
    BY <1>1, <2>1, ChecksEmpty
  <2>2. CASE pc'[t] # "respond"
    <3>1. /\ pc[t] = "consume_nonce"
          /\ pc'[t] = FirstCall[req[t].type]
          /\ req' = req
          /\ users' = users
      BY <1>6, <2>2 DEF check_nonce, At, Goto, Answer, Return, dbVars
    <3>2. pc'[t] \in {"create_document", "get_recipient", "read_document", "update_auth"}
      BY <1>0, <3>1 DEF HandlerTypes, ServesType, NonceTypes, FirstCall
    <3>3. /\ UserExists(req[t].username)
          /\ req[t].sig.payload = canonical(req[t])
          /\ req[t].type # "CHANGE_PASSWORD" => SignedByCaller(req[t])
      BY <1>0, <3>1 DEF HandlerChecks
    <3>4. /\ UserExists(req[t].username)'
          /\ (req[t].type # "CHANGE_PASSWORD" => SignedByCaller(req[t]))'
      BY <3>1, <3>3 DEF SignedByCaller, UserExists
    <3> QED
      BY <1>1, <3>1, <3>2, <3>3, <3>4 DEF HandlerChecks, PastNonce
  <2> QED
    BY <2>1, <2>2
<1>7. CASE share_recipient(t) \/ share_document(t)
  <2>1. CASE pc'[t] = "respond"
    BY <1>1, <2>1, ChecksEmpty
  <2>2. CASE pc'[t] # "respond"
    <3>1. /\ \/ pc[t] = "get_recipient" /\ pc'[t] = "get_document" /\ UserExists(req[t].recipient)
             \/ pc[t] = "get_document" /\ pc'[t] = "create_share" /\ DocumentExists(req[t].doc_id)
          /\ UNCHANGED <<req, users, documents>>
      BY <1>7, <2>2 DEF share_recipient, share_document, At, Goto, Answer, Return, dbVars
    <3>2. /\ UserExists(req[t].username)
          /\ req[t].sig.payload = canonical(req[t])
          /\ req[t].type # "CHANGE_PASSWORD" => SignedByCaller(req[t])
          /\ UserExists(req[t].recipient)
      BY <1>0, <3>1 DEF HandlerChecks, PastNonce
    <3>3. /\ UserExists(req[t].username)'
          /\ (req[t].type # "CHANGE_PASSWORD" => SignedByCaller(req[t]))'
          /\ UserExists(req[t].recipient)'
      BY <3>1, <3>2 DEF SignedByCaller, UserExists
    <3> QED
      BY <1>1, <3>1, <3>2, <3>3 DEF HandlerChecks, PastNonce, DocumentExists
  <2> QED
    BY <2>1, <2>2
<1>8. CASE get_doc(t)
  <2>1. CASE pc'[t] = "respond"
    BY <1>1, <2>1, ChecksEmpty
  <2>2. CASE pc'[t] # "respond"
    <3>1. /\ pc[t] = "read_document"
          /\ pc'[t] = "read_share"
          /\ found'[t] = documents[req[t].doc_id]
          /\ UNCHANGED <<req, users, documents>>
      BY <1>8, <2>2 DEF get_doc, At, Remember, Answer, Return, dbVars
    <3>2. /\ UserExists(req[t].username)
          /\ req[t].sig.payload = canonical(req[t])
          /\ req[t].type # "CHANGE_PASSWORD" => SignedByCaller(req[t])
      BY <1>0, <3>1 DEF HandlerChecks, PastNonce
    <3>3. /\ UserExists(req[t].username)'
          /\ (req[t].type # "CHANGE_PASSWORD" => SignedByCaller(req[t]))'
      BY <3>1, <3>2 DEF SignedByCaller, UserExists
    <3> QED
      BY <1>1, <3>1, <3>2, <3>3 DEF HandlerChecks, PastNonce
  <2> QED
    BY <2>1, <2>2
<1>9. CASE list_docs(t)
  <2>1. pc'[t] = "list_shares"
    BY <1>9 DEF list_docs, Remember
  <2> QED
    BY <1>1, <2>1 DEF HandlerChecks, PastNonce
<1> QED
  BY <1>2, <1>3, <1>4, <1>5, <1>6, <1>7, <1>8, <1>9 DEF HandlerStep

(* Every step of the server keeps the checks of all handlers.              *)
LEMMA NextChecks == TInv /\ ChecksInv /\ [Next]_vars => ChecksInv'
<1> SUFFICES ASSUME TInv, ChecksInv, [Next]_vars PROVE ChecksInv'
  OBVIOUS
<1>0. RowsGrow
  BY Permanence
<1>1. ASSUME NEW t \in Thread, HandlerStep(t) PROVE ChecksInv'
  BY <1>0, <1>1, HandlerStepChecks
<1>2. ASSUME NEW t \in Thread, NEW r \in Requests, Deliver(t, r) PROVE ChecksInv'
  <2>1. \A u \in Thread : u # t => pc'[u] = pc[u] /\ req'[u] = req[u] /\ found'[u] = found[u]
    BY <1>2 DEF Deliver, Accept, TInv, ThreadInv, ThreadTypeOK
  <2>2. pc'[t] = "dispatch"
    BY <1>2 DEF Deliver, Accept, TInv, ThreadInv, ThreadTypeOK
  <2> QED
    BY <1>0, <2>1, <2>2, ChecksStable, ChecksEmpty DEF ChecksInv
<1>3. CASE Restart
  BY <1>3, ChecksEmpty DEF Restart, ChecksInv
<1>4. CASE Tick \/ stop \/ StopListening \/ stop_db \/ UNCHANGED vars
  <2>1. UNCHANGED <<pc, req, found>>
    BY <1>4 DEF Tick, stop, StopListening, stop_db, vars, threadVars
  <2> QED
    BY <1>0, <2>1, ChecksStable DEF ChecksInv
<1> QED
  BY <1>1, <1>2, <1>3, <1>4 DEF Next

-----------------------------------------------------------------------------
(* Every nonce, challenge and primary key is spent once.                   *)

SpendInv ==
    /\ NonceInv
    /\ ChallengeInv
    /\ Durable
    /\ SpentOnce
    /\ \A r \in served : r.type \in OneShotTypes
    /\ \A r \in served \cup earlier : r.type \in NonceTypes => WellFormed(r)

(* A request past its nonce conflicts with nothing that was carried out.   *)
LEMMA NonceUnspent ==
    ASSUME TInv, SpendInv, NEW t \in Thread, pc[t] \in PastNonce,
           req[t].type = "UPLOAD" => ~DocumentExists(req[t].document.doc_id)
    PROVE  \A s \in served : ~Conflict(req[t], s)
<1>1. req[t] \in Requests /\ req[t].type \in NonceTypes
  BY DEF TInv, ThreadInv, HandlerTypes, ServesType, PastNonce, NonceTypes
<1>2. ASSUME NEW s \in served PROVE ~SameRow(req[t], s)
  BY <1>1 DEF SameRow, SpendInv, Durable, NonceTypes
<1> QED
  BY <1>1, <1>2 DEF Conflict, SpendInv, NonceInv, NonceTypes

(* Neither does the registration of a free name.                           *)
LEMMA NameUnspent ==
    ASSUME TInv, SpendInv, NEW r \in Requests, r.type = "REGISTER", ~UserExists(r.username)
    PROVE  \A s \in served : ~Conflict(r, s)
  BY DEF Conflict, SameRow, SpendInv, Durable, NonceTypes

(* Nor a login with the challenge that is cached for its user.             *)
LEMMA ChallengeUnspent ==
    ASSUME TInv, SpendInv, NEW r \in Requests, r.type = "LOGIN_RESPONSE",
           challenges[r.username] # NoChallenge,
           r.sig.payload = <<"challenge", challenges[r.username].value>>
    PROVE  \A s \in served : ~Conflict(r, s)
<1>1. r.username \in User
  BY RequestFields
<1>2. challenges[r.username].value \in Nat
  BY <1>1 DEF TInv, SessionTypeOK, Challenge
<1>3. ASSUME NEW s \in served, s.type = "LOGIN_RESPONSE" PROVE r.sig.payload # s.sig.payload
  <2>1. PICK c \in 0 .. nextChallenge - 1 :
          /\ s.sig.payload = <<"challenge", c>>
          /\ \A u \in User : challenges[u] # NoChallenge => challenges[u].value # c
    BY <1>3 DEF SpendInv, ChallengeInv
  <2> QED
    BY <1>1, <1>2, <2>1
<1> QED
  BY <1>3 DEF Conflict, SameRow, NonceTypes

(* Carrying out r, with what it takes for SpendInv to survive.             *)
Spends(t, r) ==
    /\ r.type \in OneShotTypes
    /\ r.type \in NonceTypes => WellFormed(r)
    /\ served' = served \cup {r}
    /\ repeated' = repeated \cup ({r} \cap served)
    /\ earlier' = earlier
    /\ \A s \in served : ~Conflict(r, s)
    /\ pc'[t] = "respond"

(* A handler either carries its request out, unspent so far, or leaves the *)
(* history alone.                                                          *)
LEMMA HandlerSpends ==
    ASSUME TInv, SpendInv, NEW t \in Thread, HandlerStep(t)
    PROVE  UNCHANGED historyVars \/ Spends(t, req[t])
<1> USE DEF historyVars
<1>0. HandlerTypes(t) /\ pc \in [Thread -> Labels]
  BY DEF TInv, ThreadInv, ThreadTypeOK
<1>1. CASE \/ Refuse(t) \/ DbError(t) \/ Respond(t) \/ login_challenge(t)
           \/ login_challenge_issue(t) \/ login(t) \/ get_salt(t) \/ get_user_pubkey(t)
           \/ authenticate(t) \/ check_nonce(t) \/ share_recipient(t) \/ share_document(t)
           \/ get_doc(t) \/ list_docs(t) \/ list_docs_shared(t)
  BY <1>1 DEF Refuse, DbError, Respond, login_challenge, login_challenge_issue, login,
       get_salt, get_user_pubkey, authenticate, check_nonce, share_recipient,
       share_document, get_doc, list_docs, list_docs_shared, Goto, Remember, Answer
<1>2. CASE register(t)
  <2>1. req[t] \in Requests /\ req[t].type = "REGISTER"
    BY <1>0, <1>2 DEF register, Routed, At, HandlerTypes
  <2>2. UNCHANGED historyVars \/ ~UserExists(req[t].username)
    BY <1>2 DEF register, create_user, Answer
  <2> QED
    BY <1>0, <1>2, <2>1, <2>2, NameUnspent
       DEF register, Serve, Answer, Return, Spends, OneShotTypes, NonceTypes
<1>3. CASE login_verify(t)
  <2>1. req[t] \in Requests /\ req[t].type = "LOGIN_RESPONSE"
    BY <1>0, <1>3 DEF login_verify, At, HandlerTypes, ServesType
  <2>2. \/ UNCHANGED historyVars
        \/ /\ Serve(t, OK)
           /\ consumed(req[t].username) # NoChallenge
           /\ req[t].sig.payload = <<"challenge", consumed(req[t].username)>>
    BY <1>3 DEF login_verify, Answer, verify_request_signature
  <2>3. consumed(req[t].username) # NoChallenge =>
          /\ challenges[req[t].username] # NoChallenge
          /\ consumed(req[t].username) = challenges[req[t].username].value
    BY DEF consumed
  <2> QED
    BY <1>0, <2>1, <2>2, <2>3, ChallengeUnspent
       DEF Serve, Return, Spends, OneShotTypes, NonceTypes
<1>4. CASE upload(t) \/ share(t) \/ get_doc_share(t) \/ change_password(t)
  <2>1. pc[t] \in PastNonce /\ req[t].type \in OneShotTypes /\ WellFormed(req[t])
    BY <1>0, <1>4 DEF upload, share, get_doc_share, change_password, At, PastNonce,
         HandlerTypes, ServesType, OneShotTypes, NonceTypes
  <2>2. UNCHANGED historyVars \/ (req[t].type = "UPLOAD" => ~DocumentExists(req[t].document.doc_id))
    BY <1>0, <1>4 DEF upload, share, get_doc_share, change_password, At, create_document,
         Answer, HandlerTypes, ServesType
  <2>3. UNCHANGED historyVars \/ \E response : Serve(t, response)
    BY <1>4 DEF upload, share, get_doc_share, change_password, Answer
  <2> QED
    BY <1>0, <2>1, <2>2, <2>3, NonceUnspent DEF Serve, Return, Spends
<1> QED
  BY <1>1, <1>2, <1>3, <1>4 DEF HandlerStep

(* Nonces through a step of a handler.                                     *)
LEMMA HandlerStepNonce ==
    ASSUME TInv, SpendInv, NEW t \in Thread, HandlerStep(t)
    PROVE  NonceInv'
<1> USE DEF historyVars
<1>0. /\ HandlerTypes(t)
      /\ pc \in [Thread -> Labels]
      /\ req \in [Thread -> Requests \cup {NoRequest}]
      /\ NonceInv
      /\ \A u \in Thread : HandlerTypes(u)
  BY DEF TInv, ThreadInv, ThreadTypeOK, SpendInv
<1>1. \A u \in Thread : u # t => pc'[u] = pc[u] /\ req'[u] = req[u]
  BY <1>0 DEF HandlerStep, Refuse, DbError, Respond, register,
       login_challenge, login_challenge_issue, login, login_verify, get_salt,
       get_user_pubkey, authenticate, check_nonce, upload, share_recipient,
       share_document, share, get_doc, get_doc_share, list_docs, list_docs_shared,
       change_password, Goto, Remember, Serve, Answer, Return
<1>2. CASE UNCHANGED <<usedNonces, historyVars>>
  <2>1. pc'[t] \in PastNonce => pc[t] \in PastNonce /\ req'[t] = req[t]
    BY <1>0, <1>2 DEF HandlerStep, Refuse, DbError, Respond, register,
         login_challenge, login_challenge_issue, login, login_verify, get_salt,
         get_user_pubkey, authenticate, check_nonce, consume_nonce, fresh, upload,
         share_recipient, share_document, share, get_doc, get_doc_share, list_docs,
         list_docs_shared, change_password, At, Goto, Remember, Serve, Answer, Return, PastNonce
  <2> QED
    BY <1>0, <1>1, <1>2, <2>1 DEF NonceInv
<1>3. CASE check_nonce(t) /\ usedNonces' # usedNonces
  <2>1. /\ pc[t] = "consume_nonce"
        /\ req[t].nonce \notin usedNonces
        /\ usedNonces' = usedNonces \cup {req[t].nonce}
        /\ UNCHANGED <<req, historyVars>>
    BY <1>3 DEF check_nonce, At, consume_nonce, fresh, sessionVars, Goto, Answer, Return
  <2> QED
    BY <1>0, <1>1, <2>1 DEF NonceInv
<1>4. CASE Spends(t, req[t]) /\ usedNonces' = usedNonces
  <2>1. req[t].type \in NonceTypes /\ pc'[t] = "respond" =>
          pc[t] \in PastNonce \/ UNCHANGED historyVars
    BY <1>0 DEF HandlerStep, Refuse, DbError, Respond, register,
         login_challenge, login_challenge_issue, login, login_verify, get_salt,
         get_user_pubkey, authenticate, check_nonce, upload, share_recipient,
         share_document, share, get_doc, get_doc_share, list_docs, list_docs_shared,
         change_password, At, Routed, Goto, Answer, Remember, PastNonce, HandlerTypes,
         ServesType, NonceTypes
  <2>2. CASE UNCHANGED historyVars
    BY <1>2, <1>4, <2>2
  <2>3. CASE req[t].type \in NonceTypes /\ pc[t] \in PastNonce
    BY <1>0, <1>1, <1>4, <2>3 DEF NonceInv, Spends, PastNonce
  <2>4. CASE req[t].type \notin NonceTypes
    BY <1>0, <1>1, <1>4, <2>4 DEF NonceInv, Spends, PastNonce
  <2> QED
    BY <1>4, <2>1, <2>2, <2>3, <2>4 DEF Spends
<1>5. check_nonce(t) \/ usedNonces' = usedNonces
  BY DEF HandlerStep, Refuse, DbError, Respond, register,
       login_challenge, login_challenge_issue, issue_challenge, login, login_verify,
       consume_challenge, get_salt, get_user_pubkey, authenticate, upload, share_recipient,
       share_document, share, get_doc, get_doc_share, list_docs, list_docs_shared,
       change_password, sessionVars
<1> QED
  BY <1>2, <1>3, <1>4, <1>5, HandlerSpends

(* Challenges through a step of a handler.                                 *)
LEMMA HandlerStepChallenge ==
    ASSUME TInv, SpendInv, NEW t \in Thread, HandlerStep(t)
    PROVE  ChallengeInv'
<1> USE DEF historyVars, Challenge
<1>0. /\ HandlerTypes(t)
      /\ challenges \in [User -> Challenge \cup {NoChallenge}]
      /\ nextChallenge \in Nat
      /\ ChallengeInv
  BY DEF TInv, ThreadInv, SessionTypeOK, SpendInv
<1>1. CASE login_challenge_issue(t)
  <2>1. req[t].username \in User
    BY <1>0, <1>1, RequestFields DEF login_challenge_issue, At, HandlerTypes, ServesType
  <2>2. /\ challenges' = [challenges EXCEPT ![req[t].username] =
                            [value |-> nextChallenge, issued_at |-> clock]]
        /\ nextChallenge' = nextChallenge + 1
        /\ served' = served
    BY <1>1 DEF login_challenge_issue, issue_challenge, Answer
  <2>3. [value |-> nextChallenge, issued_at |-> clock] # NoChallenge
    BY <1>0, NoChallengeAssumption DEF TInv, SessionTypeOK
  <2>4. ASSUME NEW r \in served, r.type = "LOGIN_RESPONSE"
        PROVE  \E c \in 0 .. nextChallenge' - 1 :
                  /\ r.sig.payload = <<"challenge", c>>
                  /\ \A u \in User : challenges'[u] # NoChallenge => challenges'[u].value # c
    <3>1. PICK c \in 0 .. nextChallenge - 1 :
            /\ r.sig.payload = <<"challenge", c>>
            /\ \A u \in User : challenges[u] # NoChallenge => challenges[u].value # c
      BY <1>0, <2>4 DEF ChallengeInv
    <3>2. c \in 0 .. nextChallenge' - 1
      BY <1>0, <2>2
    <3>3. \A u \in User : challenges'[u] # NoChallenge => challenges'[u].value # c
      BY <1>0, <2>1, <2>2, <3>1
    <3> QED
      BY <3>1, <3>2, <3>3
  <2>5. ASSUME NEW u \in User, challenges'[u] # NoChallenge
        PROVE  /\ challenges'[u].value < nextChallenge'
               /\ \A v \in User : challenges'[v] # NoChallenge
                     /\ challenges'[v].value = challenges'[u].value => v = u
    BY <1>0, <2>1, <2>2, <2>5 DEF ChallengeInv
  <2> QED
    BY <2>2, <2>4, <2>5 DEF ChallengeInv
<1>2. CASE login_verify(t)
  <2>1. /\ req[t] \in Requests
        /\ req[t].username \in User
    BY <1>0, <1>2, RequestFields DEF login_verify, At, HandlerTypes, ServesType
  <2>2. /\ challenges' = [challenges EXCEPT ![req[t].username] = NoChallenge]
        /\ nextChallenge' = nextChallenge
    BY <1>2 DEF login_verify, consume_challenge
  <2>3. \/ served' = served
        \/ /\ served' = served \cup {req[t]}
           /\ consumed(req[t].username) # NoChallenge
           /\ req[t].sig.payload = <<"challenge", consumed(req[t].username)>>
    BY <1>2 DEF login_verify, Serve, Answer, verify_request_signature
  <2>4. consumed(req[t].username) # NoChallenge =>
          /\ challenges[req[t].username] # NoChallenge
          /\ consumed(req[t].username) = challenges[req[t].username].value
    BY DEF consumed
  <2>5. ASSUME NEW r \in served', r.type = "LOGIN_RESPONSE"
        PROVE  \E c \in 0 .. nextChallenge' - 1 :
                  /\ r.sig.payload = <<"challenge", c>>
                  /\ \A u \in User : challenges'[u] # NoChallenge => challenges'[u].value # c
    <3>1. CASE r \in served
      BY <1>0, <2>1, <2>2, <2>5, <3>1 DEF ChallengeInv
    <3>2. CASE r \notin served
      <4>1. /\ r = req[t]
            /\ challenges[req[t].username] # NoChallenge
            /\ r.sig.payload = <<"challenge", challenges[req[t].username].value>>
        BY <2>3, <2>4, <2>5, <3>2
      <4>2. challenges[req[t].username].value \in 0 .. nextChallenge' - 1
        BY <1>0, <2>1, <2>2, <4>1 DEF ChallengeInv
      <4>3. \A u \in User : challenges'[u] # NoChallenge =>
              challenges'[u].value # challenges[req[t].username].value
        BY <1>0, <2>1, <2>2, <4>1 DEF ChallengeInv
      <4> QED
        BY <4>1, <4>2, <4>3
    <3> QED
      BY <3>1, <3>2
  <2>6. ASSUME NEW u \in User, challenges'[u] # NoChallenge
        PROVE  /\ challenges'[u].value < nextChallenge'
               /\ \A v \in User : challenges'[v] # NoChallenge
                     /\ challenges'[v].value = challenges'[u].value => v = u
    BY <1>0, <2>1, <2>2, <2>6 DEF ChallengeInv
  <2> QED
    BY <2>5, <2>6 DEF ChallengeInv
<1>3. CASE ~login_challenge_issue(t) /\ ~login_verify(t)
  <2>1. UNCHANGED <<challenges, nextChallenge>>
    BY <1>3 DEF HandlerStep, Refuse, DbError, Respond, register,
         login_challenge, login, get_salt, get_user_pubkey, authenticate, check_nonce,
         consume_nonce, upload, share_recipient, share_document, share, get_doc,
         get_doc_share, list_docs, list_docs_shared, change_password, sessionVars
  <2>2. served' = served \/ (served' = served \cup {req[t]} /\ req[t].type # "LOGIN_RESPONSE")
    BY <1>0, <1>3 DEF HandlerStep, Refuse, DbError, Respond, register,
         login_challenge, login, get_salt, get_user_pubkey, authenticate, check_nonce,
         upload, share_recipient, share_document, share, get_doc, get_doc_share, list_docs,
         list_docs_shared, change_password, Routed, At, Goto, Remember, Serve, Answer,
         HandlerTypes, ServesType
  <2> QED
    BY <1>0, <2>1, <2>2 DEF ChallengeInv
<1> QED
  BY <1>1, <1>2, <1>3

(* What Durable says of one request.                                       *)
Kept(r) ==
    /\ r.type = "REGISTER" =>
          /\ UserExists(r.username)
          /\ users[r.username].sig_pub = r.row.sig_pub
          /\ users[r.username].dh_pub = r.row.dh_pub
    /\ r.type = "UPLOAD" =>
          /\ DocumentExists(r.document.doc_id)
          /\ documents[r.document.doc_id].blob = r.document
    /\ r.type = "SHARE" => shares[<<r.doc_id, r.recipient>>] # NoRow

(* What a response has confirmed stays confirmed while rows are permanent. *)
LEMMA KeptStable ==
    ASSUME NEW r \in Requests, r.type \in NonceTypes => WellFormed(r), Kept(r), RowsGrow
    PROVE  Kept(r)'
<1>1. /\ r.type = "REGISTER" => r.username \in User
      /\ r.type = "UPLOAD" => r.document.doc_id \in DocId
      /\ r.type = "SHARE" => r.doc_id \in DocId /\ r.recipient \in User
  BY RequestFields DEF WellFormed, NonceTypes, DocBlob
<1> QED
  BY <1>1 DEF Kept, RowsGrow, UserExists, DocumentExists

(* A request is kept when it is carried out.                               *)
LEMMA KeptWhenServed ==
    ASSUME TInv, NEW t \in Thread, HandlerStep(t), ~UNCHANGED historyVars
    PROVE  req'[t] = req[t] /\ Kept(req[t])'
<1> USE DEF historyVars
<1>0. /\ HandlerTypes(t)
      /\ DBTypeOK
  BY DEF TInv, ThreadInv
<1>1. \/ register(t) /\ create_user(req[t].username, req[t].row)
      \/ upload(t) /\ create_document(req[t].document)
      \/ share(t)
      \/ login_verify(t) \/ get_doc_share(t) \/ change_password(t)
  BY DEF HandlerStep, Refuse, DbError, Respond, register, login_challenge,
       login_challenge_issue, login, get_salt, get_user_pubkey, authenticate, check_nonce,
       upload, share_recipient, share_document, get_doc, list_docs, list_docs_shared,
       Goto, Remember, Answer
<1>2. req'[t] = req[t]
  BY <1>1 DEF register, upload, share, login_verify, get_doc_share, change_password,
       Serve, Answer, Return
<1>3. CASE register(t) /\ create_user(req[t].username, req[t].row)
  <2>1. /\ req[t].type = "REGISTER"
        /\ req[t].username \in User
        /\ req[t].row \in UserRecord
        /\ req[t].row # NoRow
    BY <1>0, <1>3, RequestFields, NoRowAssumption DEF register, Routed, At, HandlerTypes
  <2> QED
    BY <1>0, <1>2, <1>3, <2>1 DEF create_user, Kept, UserExists, DBTypeOK
<1>4. CASE upload(t) /\ create_document(req[t].document)
  <2>1. req[t].type = "UPLOAD" /\ req[t].document \in DocBlob
    BY <1>0, <1>4, RequestFields
       DEF upload, At, HandlerTypes, ServesType, PastNonce, WellFormed
  <2> DEFINE row == [owner |-> req[t].document.owner, version |-> req[t].document.version,
                     blob |-> req[t].document]
  <2>2. row \in DocumentRecord /\ row # NoRow
    BY <2>1, NoRowAssumption DEF DocBlob, DocumentRecord
  <2>3. documents'[req[t].document.doc_id] = row
    BY <1>0, <1>4, <2>1 DEF create_document, DBTypeOK, DocBlob
  <2> QED
    BY <1>2, <2>1, <2>2, <2>3 DEF Kept, DocumentExists
<1>5. CASE share(t)
  <2>1. /\ req[t].type = "SHARE"
        /\ req[t].doc_id \in DocId
        /\ req[t].recipient \in User
        /\ req[t].share_blob \in ShareBlob
        /\ req[t].share_blob # NoRow
        /\ req[t].share_blob.doc_id = req[t].doc_id
        /\ req[t].share_blob.recipient = req[t].recipient
    BY <1>0, <1>5, RequestFields, NoRowAssumption
       DEF share, At, HandlerTypes, ServesType, PastNonce, WellFormed
  <2> QED
    BY <1>0, <1>2, <1>5, <2>1 DEF share, create_or_replace_share, Kept, DBTypeOK
<1>6. CASE login_verify(t) \/ get_doc_share(t) \/ change_password(t)
  <2>1. req[t].type \in {"LOGIN_RESPONSE", "GET_DOC", "CHANGE_PASSWORD"}
    BY <1>0, <1>6 DEF login_verify, get_doc_share, change_password, At, HandlerTypes, ServesType
  <2> QED
    BY <1>2, <2>1 DEF Kept
<1> QED
  BY <1>1, <1>2, <1>3, <1>4, <1>5, <1>6

(* A step of a handler spends each nonce, challenge and key at most once.  *)
LEMMA HandlerStepSpend ==
    ASSUME TInv, SpendInv, RowsGrow, NEW t \in Thread, HandlerStep(t)
    PROVE  SpendInv'
<1> USE DEF historyVars
<1>0. req[t] \in Requests \cup {NoRequest} /\ served \cup earlier \subseteq Requests
  BY DEF TInv, ThreadInv, ThreadTypeOK, HistoryTypeOK
<1>1. NonceInv' /\ ChallengeInv'
  BY HandlerStepNonce, HandlerStepChallenge
<1>2. \A r \in served \cup earlier : Kept(r)'
  <2>1. \A r \in served \cup earlier : Kept(r)
    BY DEF SpendInv, Durable, Kept
  <2> QED
    BY <1>0, <2>1, KeptStable DEF SpendInv
<1>3. CASE UNCHANGED historyVars
  <2>1. Durable'
    BY <1>2, <1>3 DEF Durable, Kept
  <2> QED
    BY <1>1, <1>3, <2>1 DEF SpendInv, SpentOnce, Conflict, SameRow, WellFormed
<1>4. CASE ~UNCHANGED historyVars
  <2>1. Spends(t, req[t])
    BY <1>4, HandlerSpends
  <2>2. Kept(req[t])' /\ req'[t] = req[t]
    BY <1>4, KeptWhenServed
  <2>3. Durable'
    BY <1>2, <2>1, <2>2 DEF Durable, Kept, Spends
  <2>4. Conflict(req[t], req[t])
    BY <2>1 DEF Spends, OneShotTypes, Conflict, SameRow
  <2>5. SpentOnce'
    <3>1. req[t] \notin served
      BY <2>1, <2>4 DEF Spends
    <3>2. repeated' = {}
      BY <2>1, <3>1 DEF Spends, SpendInv, SpentOnce
    <3>3. \A r1, r2 : Conflict(r1, r2) <=> Conflict(r2, r1)
      BY DEF Conflict, SameRow
    <3>4. \A r1, r2 \in served' : Conflict(r1, r2) => r1 = r2
      BY <2>1, <3>3 DEF Spends, SpendInv, SpentOnce
    <3> QED
      BY <3>2, <3>4 DEF SpentOnce, Conflict, SameRow
  <2>6. /\ \A r \in served' : r.type \in OneShotTypes
        /\ \A r \in served' \cup earlier' : r.type \in NonceTypes => WellFormed(r)
    BY <2>1 DEF Spends, SpendInv
  <2> QED
    BY <1>1, <2>3, <2>5, <2>6 DEF SpendInv, WellFormed
<1> QED
  BY <1>3, <1>4

(* Nothing is spent when the server is started for the first time.         *)
LEMMA InitSpend == Init => SpendInv
  BY DEF Init, ServerInit, SessionInit, SpendInv, NonceInv, ChallengeInv, Durable, SpentOnce, PastNonce

(* Every step of the server keeps SpendInv; a restart forgets nonces and   *)
(* challenges together with the requests that spent them.                  *)
LEMMA NextSpend == TInv /\ SpendInv /\ [Next]_vars => SpendInv'
<1> SUFFICES ASSUME TInv, SpendInv, [Next]_vars PROVE SpendInv'
  OBVIOUS
<1> USE DEF historyVars
<1>0. RowsGrow
  BY Permanence
<1>1. ASSUME NEW t \in Thread, HandlerStep(t) PROVE SpendInv'
  BY <1>0, <1>1, HandlerStepSpend
<1>2. /\ served \cup earlier \subseteq Requests
      /\ pc \in [Thread -> Labels]
      /\ req \in [Thread -> Requests \cup {NoRequest}]
  BY DEF TInv, ThreadInv, ThreadTypeOK, HistoryTypeOK
<1>3. \A r \in served \cup earlier : Kept(r)'
  <2>1. \A r \in served \cup earlier : Kept(r)
    BY DEF SpendInv, Durable, Kept
  <2> QED
    BY <1>0, <1>2, <2>1, KeptStable DEF SpendInv
<1>4. ASSUME UNCHANGED <<usedNonces, challenges, nextChallenge, historyVars>>,
             \A u \in Thread : pc'[u] \in PastNonce => pc'[u] = pc[u] /\ req'[u] = req[u]
      PROVE  SpendInv'
  <2>1. NonceInv'
    BY <1>2, <1>4 DEF SpendInv, NonceInv
  <2>2. ChallengeInv'
    BY <1>4 DEF SpendInv, ChallengeInv
  <2>3. Durable'
    BY <1>3, <1>4 DEF Durable, Kept
  <2> QED
    BY <1>4, <2>1, <2>2, <2>3 DEF SpendInv, SpentOnce, Conflict, SameRow, WellFormed
<1>5. ASSUME NEW t \in Thread, NEW r \in Requests, Deliver(t, r) PROVE SpendInv'
  <2>1. \A u \in Thread : pc'[u] \in PastNonce => pc'[u] = pc[u] /\ req'[u] = req[u]
    BY <1>2, <1>5 DEF Deliver, Accept, PastNonce
  <2> QED
    BY <1>4, <1>5, <2>1 DEF Deliver, Accept, sessionVars
<1>6. CASE Restart
  <2>1. NonceInv' /\ ChallengeInv'
    BY <1>6 DEF Restart, NonceInv, ChallengeInv, PastNonce
  <2>2. Durable'
    BY <1>3, <1>6 DEF Restart, Durable, Kept
  <2> QED
    BY <1>6, <2>1, <2>2 DEF Restart, SpendInv, SpentOnce, WellFormed
<1>7. CASE Tick \/ stop \/ StopListening \/ stop_db \/ UNCHANGED vars
  <2>1. UNCHANGED <<usedNonces, challenges, nextChallenge, historyVars, pc, req>>
    BY <1>7 DEF Tick, stop, StopListening, stop_db, vars, threadVars, sessionVars
  <2> QED
    BY <1>4, <2>1
<1> QED
  BY <1>1, <1>5, <1>6, <1>7 DEF Next

(* The inductive invariant of check_and_consume_nonce, consume_challenge   *)
(* and the primary keys.                                                   *)
THEOREM SpendInvariant == Spec => []SpendInv
  BY TypeInvariant, InitSpend, NextSpend, PTL DEF Spec

(* However requests are repeated and interleaved, a nonce, a challenge, a  *)
(* username and a doc_id are each spent by at most one request, once.      *)
THEOREM EachSpentOnce == Spec => []SpentOnce
<1>1. SpendInv => SpentOnce
  BY DEF SpendInv
<1> QED
  BY <1>1, SpendInvariant, PTL

(* What an OK of register, upload or share confirms is in the database     *)
(* ever after, across crashes and restarts.                                *)
THEOREM OkIsDurable == Spec => []Durable
<1>1. SpendInv => Durable
  BY DEF SpendInv
<1> QED
  BY <1>1, SpendInvariant, PTL

(* No handler has checked anything when the server is started.             *)
LEMMA InitChecks == Init => ChecksInv
  BY DEF Init, ServerInit, ChecksInv, HandlerChecks, PastNonce

(* What a handler of server.py has checked in one critical section is      *)
(* still true in its later ones.                                           *)
THEOREM ChecksInvariant == Spec => []ChecksInv
  BY TypeInvariant, InitChecks, NextChecks, PTL DEF Spec

(* What the handlers of server.py rely on between two of their calls: the  *)
(* rows they have checked, the nonce that is theirs alone and a challenge  *)
(* that is in nobody's slot once it was used.                              *)
THEOREM HandlersCanRely == Spec => []HandlersRely
<1>1. TInv /\ ChecksInv /\ SpendInv => HandlersRely
  BY DEF TInv, ThreadInv, ChecksInv, SpendInv, HandlersRely
<1> QED
  BY <1>1, TypeInvariant, ChecksInvariant, SpendInvariant, PTL

-----------------------------------------------------------------------------
(* Refinement: a handler takes effect in its last call, and at that moment *)
(* everything it has checked before holds.                                 *)

(* The definitions that AtomicVault and the server share.                  *)
LEMMA SharedDefinitions ==
    /\ \A r : Atomic!SignedByCaller(r) <=> SignedByCaller(r)
    /\ \A r : Atomic!WellFormed(r) <=> WellFormed(r)
    /\ \A r : Atomic!canonical(r) = canonical(r)
    /\ \A r, s : Atomic!Conflict(r, s) <=> Conflict(r, s)
    /\ \A u : Atomic!UserExists(u) <=> UserExists(u)
    /\ \A d : Atomic!DocumentExists(d) <=> DocumentExists(d)
<1>1. \A r : Atomic!canonical(r) = canonical(r)
  BY DEF Atomic!canonical, canonical, Atomic!payload_upload, payload_upload,
         Atomic!payload_share, payload_share, Atomic!payload_download, payload_download,
         Atomic!payload_change_password, payload_change_password
<1>2. \A u : Atomic!UserExists(u) <=> UserExists(u)
  BY DEF Atomic!UserExists, UserExists
<1>3. \A r : Atomic!SignedByCaller(r) <=> SignedByCaller(r)
  BY <1>1, <1>2 DEF Atomic!SignedByCaller, SignedByCaller, Atomic!CheckedKey, CheckedKey,
         Atomic!verify_request_signature, verify_request_signature
<1>4. \A r : Atomic!WellFormed(r) <=> WellFormed(r)
  BY DEF Atomic!WellFormed, WellFormed
<1>5. \A r, s : Atomic!Conflict(r, s) <=> Conflict(r, s)
  BY DEF Atomic!Conflict, Conflict, Atomic!SameRow, SameRow, Atomic!NonceTypes, NonceTypes
<1>6. \A d : Atomic!DocumentExists(d) <=> DocumentExists(d)
  BY DEF Atomic!DocumentExists, DocumentExists
<1> QED
  BY <1>1, <1>2, <1>3, <1>4, <1>5, <1>6

(* A step of a handler is an atomic request or changes nothing abstract.   *)
LEMMA HandlerStepRefines ==
    ASSUME TInv, ChecksInv, SpendInv, NEW t \in Thread, HandlerStep(t)
    PROVE  Atomic!AtomicNext \/ UNCHANGED Atomic!AtomicVars
<1> USE DEF historyVars, dbVars, Atomic!AtomicVars, Atomic!dbVars
<1>0. HandlerTypes(t) /\ HandlerChecks(t)
  BY DEF TInv, ThreadInv, ChecksInv
<1>1. CASE \/ Refuse(t) \/ DbError(t) \/ Respond(t) \/ login_challenge(t)
           \/ login_challenge_issue(t) \/ login(t) \/ get_salt(t) \/ get_user_pubkey(t)
           \/ authenticate(t) \/ check_nonce(t) \/ share_recipient(t) \/ share_document(t)
           \/ get_doc(t) \/ list_docs(t) \/ list_docs_shared(t)
  BY <1>1 DEF Refuse, DbError, Respond, login_challenge, login_challenge_issue, login,
       get_salt, get_user_pubkey, authenticate, check_nonce, share_recipient,
       share_document, get_doc, list_docs, list_docs_shared, Goto, Remember, Answer
<1>2. CASE register(t)
  <2>1. req[t] \in Requests /\ req[t].type = "REGISTER"
    BY <1>0, <1>2 DEF register, Routed, At, HandlerTypes
  <2>2. CASE create_user(req[t].username, req[t].row) /\ Serve(t, OK)
    <3>1. \A s \in served : ~Atomic!Conflict(req[t], s)
      BY <2>1, <2>2, NameUnspent, SharedDefinitions DEF create_user
    <3>2. Atomic!AtomicRegister(req[t])
      BY <2>1, <2>2, <3>1, SharedDefinitions
         DEF create_user, Serve, Atomic!AtomicRegister, Atomic!CarryOut, Atomic!Unspent,
             Atomic!create_user
    <3> QED
      BY <2>1, <3>2 DEF Atomic!AtomicNext
  <2> QED
    BY <1>2, <2>2 DEF register, Answer
<1>3. CASE login_verify(t)
  <2>1. req[t] \in Requests /\ req[t].type = "LOGIN_RESPONSE"
    BY <1>0, <1>3 DEF login_verify, At, HandlerTypes, ServesType
  <2>2. CASE Serve(t, OK) /\ found[t] # NoRow /\ consumed(req[t].username) # NoChallenge
             /\ req[t].sig.payload = <<"challenge", consumed(req[t].username)>>
    <3>1. /\ challenges[req[t].username] # NoChallenge
          /\ consumed(req[t].username) = challenges[req[t].username].value
      BY <2>2 DEF consumed
    <3>2. \A s \in served : ~Atomic!Conflict(req[t], s)
      BY <2>1, <2>2, <3>1, ChallengeUnspent, SharedDefinitions
    <3>3. UserExists(req[t].username)
      BY <1>0, <1>3, <2>2 DEF login_verify, At, HandlerChecks
    <3>4. Atomic!AtomicLogin(req[t])
      BY <1>3, <2>1, <2>2, <3>2, <3>3, SharedDefinitions
         DEF login_verify, Serve, Atomic!AtomicLogin, Atomic!CarryOut, Atomic!Unspent
    <3> QED
      BY <2>1, <3>4 DEF Atomic!AtomicNext
  <2> QED
    BY <1>3, <2>2 DEF login_verify, Answer, verify_request_signature
<1>4. CASE upload(t)
  <2>1. /\ pc[t] \in PastNonce
        /\ req[t] \in Requests
        /\ req[t].type = "UPLOAD"
        /\ WellFormed(req[t])
        /\ SignedByCaller(req[t])
    BY <1>0, <1>4 DEF upload, At, HandlerTypes, HandlerChecks, ServesType, PastNonce
  <2>2. CASE create_document(req[t].document) /\ Serve(t, OK)
    <3>1. \A s \in served : ~Atomic!Conflict(req[t], s)
      BY <2>1, <2>2, NonceUnspent, SharedDefinitions DEF create_document
    <3>2. Atomic!AtomicUpload(req[t])
      BY <2>1, <2>2, <3>1, SharedDefinitions
         DEF create_document, Serve, Atomic!AtomicUpload, Atomic!CarryOut, Atomic!Unspent,
             Atomic!create_document
    <3> QED
      BY <2>1, <3>2 DEF Atomic!AtomicNext
  <2> QED
    BY <1>4, <2>2 DEF upload, Answer
<1>5. CASE share(t)
  <2>1. /\ pc[t] \in PastNonce
        /\ req[t] \in Requests
        /\ req[t].type = "SHARE"
        /\ WellFormed(req[t])
        /\ SignedByCaller(req[t])
        /\ UserExists(req[t].recipient)
        /\ DocumentExists(req[t].doc_id)
    BY <1>0, <1>5 DEF share, At, HandlerTypes, HandlerChecks, ServesType, PastNonce
  <2>2. \A s \in served : ~Atomic!Conflict(req[t], s)
    BY <2>1, NonceUnspent, SharedDefinitions
  <2>3. Atomic!AtomicShare(req[t])
    BY <1>5, <2>1, <2>2, SharedDefinitions
       DEF share, create_or_replace_share, Serve, Atomic!AtomicShare, Atomic!CarryOut,
           Atomic!Unspent, Atomic!create_or_replace_share
  <2> QED
    BY <2>1, <2>3 DEF Atomic!AtomicNext
<1>6. CASE get_doc_share(t)
  <2>1. /\ pc[t] \in PastNonce
        /\ req[t] \in Requests
        /\ req[t].type = "GET_DOC"
        /\ WellFormed(req[t])
        /\ SignedByCaller(req[t])
        /\ found[t] = documents[req[t].doc_id]
        /\ found[t] # NoRow
    BY <1>0, <1>6, NoRowAssumption
       DEF get_doc_share, At, HandlerTypes, HandlerChecks, ServesType, PastNonce
  <2>2. \A s \in served : ~Atomic!Conflict(req[t], s)
    BY <2>1, NonceUnspent, SharedDefinitions
  <2>3. CASE /\ found[t].owner = req[t].username \/ shares[<<req[t].doc_id, req[t].username>>] # NoRow
             /\ served' = served \cup {req[t]}
    <3>1. Atomic!AtomicGetDoc(req[t])
      BY <1>6, <2>1, <2>2, <2>3, SharedDefinitions
         DEF get_doc_share, DocumentExists, Atomic!AtomicGetDoc, Atomic!CarryOut, Atomic!Unspent
    <3> QED
      BY <2>1, <3>1 DEF Atomic!AtomicNext
  <2> QED
    BY <1>6, <2>3 DEF get_doc_share, Serve, Answer
<1>7. CASE change_password(t)
  <2>1. /\ pc[t] \in PastNonce
        /\ req[t] \in Requests
        /\ req[t].type = "CHANGE_PASSWORD"
        /\ WellFormed(req[t])
        /\ req[t].sig.payload = canonical(req[t])
    BY <1>0, <1>7 DEF change_password, At, HandlerTypes, HandlerChecks, ServesType, PastNonce
  <2>2. \A s \in served : ~Atomic!Conflict(req[t], s)
    BY <2>1, NonceUnspent, SharedDefinitions
  <2>3. Atomic!AtomicChangePassword(req[t])
    BY <1>7, <2>1, <2>2, SharedDefinitions
       DEF change_password, update_user_auth, Serve, Atomic!AtomicChangePassword,
           Atomic!CarryOut, Atomic!Unspent, Atomic!update_user_auth
  <2> QED
    BY <2>1, <2>3 DEF Atomic!AtomicNext
<1> QED
  BY <1>1, <1>2, <1>3, <1>4, <1>5, <1>6, <1>7 DEF HandlerStep

(* Every step of the server is a step of AtomicVault or leaves its         *)
(* variables alone.                                                        *)
LEMMA NextRefines ==
    TInv /\ ChecksInv /\ SpendInv /\ [Next]_vars => [Atomic!AtomicNext]_(Atomic!AtomicVars)
<1> SUFFICES ASSUME TInv, ChecksInv, SpendInv, [Next]_vars
             PROVE  Atomic!AtomicNext \/ UNCHANGED Atomic!AtomicVars
  OBVIOUS
<1> USE DEF historyVars, dbVars, Atomic!AtomicVars, Atomic!dbVars
<1>1. ASSUME NEW t \in Thread, HandlerStep(t)
      PROVE  Atomic!AtomicNext \/ UNCHANGED Atomic!AtomicVars
  BY <1>1, HandlerStepRefines
<1>2. ASSUME NEW t \in Thread, NEW r \in Requests, Deliver(t, r)
      PROVE  UNCHANGED Atomic!AtomicVars
  BY <1>2 DEF Deliver, Accept
<1>3. Tick \/ stop \/ StopListening \/ UNCHANGED vars => UNCHANGED Atomic!AtomicVars
  BY DEF Tick, stop, StopListening, vars
<1>4. stop_db => Atomic!AtomicClose
  BY DEF stop_db, close, Atomic!AtomicClose, Atomic!close
<1>5. Restart => Atomic!AtomicRestart
  BY DEF Restart, reopen, Atomic!AtomicRestart, Atomic!reopen
<1> QED
  BY <1>1, <1>2, <1>3, <1>4, <1>5 DEF Next, Atomic!AtomicNext

(* The server, with its checks spread over several critical sections and   *)
(* its handlers interleaved at each of them, implements the atomic vault.  *)
THEOREM ServerIsAtomic == Spec => ImplementsAtomicVault
<1>1. Init => Atomic!AtomicInit
  BY DEF Init, ServerInit, DBInit, Atomic!AtomicInit, Atomic!DBInit
<1> QED
  BY <1>1, NextRefines, TypeInvariant, ChecksInvariant, SpendInvariant, PTL
     DEF Spec, ImplementsAtomicVault, Atomic!AtomicSpec

-----------------------------------------------------------------------------
(* The foreign keys of the schema.                                         *)

(* Every step keeps the references between the tables, which only the      *)
(* handlers check.                                                         *)
LEMMA NextIntegrity ==
    TInv /\ ChecksInv /\ ReferentialIntegrity /\ [Next]_vars => ReferentialIntegrity'
<1> SUFFICES ASSUME TInv, ChecksInv, ReferentialIntegrity, [Next]_vars
             PROVE  ReferentialIntegrity'
  OBVIOUS
<1> USE DEF ReferentialIntegrity, UserExists, DocumentExists
<1>0. DBTypeOK /\ RowsGrow
  BY Permanence DEF TInv
<1>1. CASE UNCHANGED <<users, documents, shares>>
  BY <1>1
<1>2. ASSUME NEW u \in User, users[u] # NoRow PROVE users'[u] # NoRow
  BY <1>0, <1>2 DEF RowsGrow
<1>3. ASSUME NEW d \in DocId, documents[d] # NoRow
      PROVE  documents[d].owner \in User /\ documents'[d] = documents[d]
  BY <1>0, <1>3 DEF RowsGrow, DBTypeOK, DocumentRecord
<1>4. ASSUME NEW d \in DocId, NEW u \in User, shares[<<d, u>>] # NoRow
      PROVE  shares[<<d, u>>].sender \in User
  BY <1>0, <1>4 DEF DBTypeOK, ShareBlob
<1>5. ASSUME NEW t \in Thread, register(t) \/ change_password(t) PROVE ReferentialIntegrity'
  <2>1. UNCHANGED <<documents, shares>>
    BY <1>5 DEF register, change_password, create_user, update_user_auth, dbVars
  <2> QED
    BY <1>2, <1>3, <1>4, <2>1
<1>6. ASSUME NEW t \in Thread, upload(t) PROVE ReferentialIntegrity'
  <2>0. HandlerTypes(t) /\ HandlerChecks(t)
    BY DEF TInv, ThreadInv, ChecksInv
  <2>1. /\ req[t].document \in DocBlob
        /\ req[t].document.owner = req[t].username
        /\ users[req[t].username] # NoRow
    BY <1>6, <2>0, RequestFields
       DEF upload, At, HandlerTypes, HandlerChecks, ServesType, PastNonce, WellFormed
  <2>2. CASE create_document(req[t].document)
    <3>1. /\ UNCHANGED <<users, shares>>
          /\ documents' = [documents EXCEPT ![req[t].document.doc_id] =
               [owner |-> req[t].document.owner, version |-> req[t].document.version,
                blob |-> req[t].document]]
      BY <2>2 DEF create_document
    <3>2. ASSUME NEW d \in DocId, documents'[d] # NoRow
          PROVE  /\ users'[documents'[d].owner] # NoRow
                 /\ documents'[d].blob.doc_id = d
                 /\ documents'[d].blob.owner = documents'[d].owner
                 /\ documents'[d].blob.version = documents'[d].version
      <4>1. CASE d = req[t].document.doc_id
        BY <1>0, <2>1, <3>1, <4>1 DEF DBTypeOK
      <4>2. CASE d # req[t].document.doc_id
        BY <1>0, <3>1, <3>2, <4>2 DEF DBTypeOK
      <4> QED
        BY <4>1, <4>2
    <3> QED
      BY <1>2, <1>3, <3>1, <3>2
  <2> QED
    BY <1>1, <1>6, <2>2 DEF upload, dbVars
<1>7. ASSUME NEW t \in Thread, share(t) PROVE ReferentialIntegrity'
  <2>0. HandlerTypes(t) /\ HandlerChecks(t)
    BY DEF TInv, ThreadInv, ChecksInv
  <2>1. /\ req[t].share_blob \in ShareBlob
        /\ req[t].share_blob.sender = req[t].username
        /\ req[t].share_blob.recipient = req[t].recipient
        /\ req[t].share_blob.doc_id = req[t].doc_id
        /\ users[req[t].username] # NoRow
        /\ users[req[t].recipient] # NoRow
        /\ documents[req[t].doc_id] # NoRow
    BY <1>7, <2>0, RequestFields
       DEF share, At, HandlerTypes, HandlerChecks, ServesType, PastNonce, WellFormed
  <2>2. /\ UNCHANGED <<users, documents>>
        /\ shares' = [shares EXCEPT ![<<req[t].doc_id, req[t].recipient>>] = req[t].share_blob]
    BY <1>7, <2>1 DEF share, create_or_replace_share
  <2>3. ASSUME NEW d \in DocId, NEW u \in User, shares'[<<d, u>>] # NoRow
        PROVE  /\ documents'[d] # NoRow
               /\ users'[u] # NoRow
               /\ users'[shares'[<<d, u>>].sender] # NoRow
               /\ shares'[<<d, u>>].doc_id = d
               /\ shares'[<<d, u>>].recipient = u
    <3>1. CASE d = req[t].doc_id /\ u = req[t].recipient
      BY <1>0, <2>1, <2>2, <3>1 DEF DBTypeOK
    <3>2. CASE ~(d = req[t].doc_id /\ u = req[t].recipient)
      BY <1>0, <2>2, <2>3, <3>2 DEF DBTypeOK
    <3> QED
      BY <3>1, <3>2
  <2> QED
    BY <2>2, <2>3
<1> QED
  BY <1>1, <1>5, <1>6, <1>7, StepKinds

(* Although the database does not enforce them, the foreign keys hold:     *)
(* documents have registered owners and shares have stored documents,      *)
(* registered recipients and registered senders.                           *)
THEOREM IntegrityHolds == Spec => []ReferentialIntegrity
<1>1. Init => ReferentialIntegrity
  BY DEF Init, ServerInit, DBInit, ReferentialIntegrity, DocumentExists
<1> QED
  BY <1>1, NextIntegrity, TypeInvariant, ChecksInvariant, PTL DEF Spec

-----------------------------------------------------------------------------
(* Across restarts.                                                        *)

(* Every step, a restart included, keeps CreatedOnce: rows outlive the     *)
(* process.                                                                *)
LEMMA NextCreated ==
    TInv /\ SpendInv /\ CreatedOnce /\ [Next]_vars => CreatedOnce'
<1> SUFFICES ASSUME TInv, SpendInv, CreatedOnce, [Next]_vars PROVE CreatedOnce'
  OBVIOUS
<1> USE DEF historyVars
<1>1. CASE UNCHANGED <<served, earlier>>
  BY <1>1 DEF CreatedOnce, SameRow
<1>2. CASE Restart
  <2>1. served' = {} /\ earlier' = earlier \cup served
    BY <1>2 DEF Restart
  <2>2. \A r1, r2 \in served : SameRow(r1, r2) => r1 = r2
    BY DEF SpendInv, SpentOnce, Conflict
  <2>3. \A r1, r2 : SameRow(r1, r2) <=> SameRow(r2, r1)
    BY DEF SameRow
  <2>4. \A r1, r2 \in earlier \cup served : SameRow(r1, r2) => r1 = r2
    BY <2>2, <2>3 DEF CreatedOnce
  <2> QED
    BY <2>1, <2>4 DEF CreatedOnce, SameRow
<1>3. ASSUME NEW t \in Thread, HandlerStep(t) PROVE CreatedOnce'
  <2>1. CASE Spends(t, req[t])
    <3>1. served' = served \cup {req[t]} /\ earlier' = earlier
      BY <2>1 DEF Spends
    <3>2. ASSUME NEW r \in earlier, SameRow(r, req[t]) PROVE FALSE
      <4>1. Kept(r)
        BY DEF SpendInv, Durable, Kept
      <4>2. CASE register(t) /\ create_user(req[t].username, req[t].row)
        BY <3>2, <4>1, <4>2 DEF register, Routed, create_user, SameRow, Kept
      <4>3. CASE upload(t) /\ create_document(req[t].document)
        <5>1. req[t].type = "UPLOAD"
          BY <4>3 DEF upload, At, TInv, ThreadInv, HandlerTypes, ServesType
        <5> QED
          BY <3>2, <4>1, <4>3, <5>1 DEF create_document, SameRow, Kept
      <4>4. req[t] \notin served
        BY <2>1 DEF Spends, OneShotTypes, Conflict, SameRow
      <4>5. req[t].type = "REGISTER" => register(t) /\ create_user(req[t].username, req[t].row)
        BY <1>3, <3>1, <4>4 DEF HandlerStep, Refuse, DbError, Respond, register,
             login_challenge, login_challenge_issue, login, login_verify, get_salt,
             get_user_pubkey, authenticate, check_nonce, upload, share_recipient,
             share_document, share, get_doc, get_doc_share, list_docs, list_docs_shared,
             change_password, Routed, At, Goto, Remember, Answer, TInv, ThreadInv,
             HandlerTypes, ServesType
      <4>6. req[t].type = "UPLOAD" => upload(t) /\ create_document(req[t].document)
        BY <1>3, <3>1, <4>4 DEF HandlerStep, Refuse, DbError, Respond, register,
             login_challenge, login_challenge_issue, login, login_verify, get_salt,
             get_user_pubkey, authenticate, check_nonce, upload, share_recipient,
             share_document, share, get_doc, get_doc_share, list_docs, list_docs_shared,
             change_password, Routed, At, Goto, Remember, Answer, TInv, ThreadInv,
             HandlerTypes, ServesType
      <4> QED
        BY <3>2, <4>2, <4>3, <4>5, <4>6 DEF SameRow
    <3> QED
      BY <3>1, <3>2 DEF CreatedOnce, SameRow
  <2> QED
    BY <1>1, <1>3, <2>1, HandlerSpends
<1>4. ASSUME NEW t \in Thread, NEW r \in Requests, Deliver(t, r) PROVE CreatedOnce'
  BY <1>1, <1>4 DEF Deliver, Accept
<1>5. CASE Tick \/ stop \/ StopListening \/ stop_db \/ UNCHANGED vars
  BY <1>1, <1>5 DEF Tick, stop, StopListening, stop_db, vars
<1> QED
  BY <1>2, <1>3, <1>4, <1>5 DEF Next

(* No account and no document is ever created a second time, however often *)
(* the server is restarted.                                                *)
THEOREM NothingCreatedTwice == Spec => []CreatedOnce
<1>1. Init => CreatedOnce
  BY DEF Init, ServerInit, CreatedOnce
<1> QED
  BY <1>1, NextCreated, TypeInvariant, SpendInvariant, PTL DEF Spec

-----------------------------------------------------------------------------
(* The cost of a nonce.                                                    *)

Earned(r, n) ==
    /\ r.type \in NonceTypes
    /\ r.nonce = n
    /\ r.sig.payload = canonical(r)
    /\ r.type # "CHANGE_PASSWORD" => SignedByCaller(r)

(* A nonce that was earned stays earned while identity keys are permanent. *)
LEMMA EarnedStable ==
    ASSUME RowsGrow, NEW r \in Requests, NEW n, Earned(r, n)
    PROVE  Earned(r, n)'
  BY SignatureStable DEF Earned, canonical

(* Every step keeps NoncesEarned: _authenticate verifies before it         *)
(* consumes.                                                               *)
LEMMA NextEarned ==
    TInv /\ ChecksInv /\ NoncesEarned /\ [Next]_vars => NoncesEarned'
<1> SUFFICES ASSUME TInv, ChecksInv, NoncesEarned, [Next]_vars PROVE NoncesEarned'
  OBVIOUS
<1>0. RowsGrow
  BY Permanence
<1>1. \A n \in usedNonces : \E r \in Requests : Earned(r, n)'
  <2>1. \A n \in usedNonces : \E r \in Requests : Earned(r, n)
    BY DEF NoncesEarned, Earned
  <2> QED
    BY <1>0, <2>1, EarnedStable
<1>2. CASE usedNonces' \subseteq usedNonces
  BY <1>1, <1>2 DEF NoncesEarned, Earned
<1>3. ASSUME NEW t \in Thread, check_nonce(t) PROVE NoncesEarned'
  <2>1. /\ pc[t] = "consume_nonce"
        /\ usedNonces' \subseteq usedNonces \cup {req[t].nonce}
    BY <1>3 DEF check_nonce, At, consume_nonce, sessionVars
  <2>2. req[t] \in Requests /\ req[t].type \in NonceTypes
    BY <2>1 DEF TInv, ThreadInv, HandlerTypes, ServesType
  <2>3. PICK r \in Requests : r = req[t]
    BY <2>2
  <2>4. Earned(r, r.nonce)
    BY <2>1, <2>2, <2>3 DEF ChecksInv, HandlerChecks, Earned
  <2>5. Earned(r, r.nonce)'
    BY <1>0, <2>4, EarnedStable
  <2> QED
    BY <1>1, <2>1, <2>3, <2>5 DEF NoncesEarned, Earned
<1>4. usedNonces' \subseteq usedNonces \/ \E t \in Thread : check_nonce(t)
  <2>1. ASSUME NEW t \in Thread, HandlerStep(t)
        PROVE  usedNonces' \subseteq usedNonces \/ check_nonce(t)
    BY <2>1 DEF HandlerStep, Refuse, DbError, Respond, register,
         login_challenge, login_challenge_issue, issue_challenge, login, login_verify,
         consume_challenge, get_salt, get_user_pubkey, authenticate, upload, share_recipient,
         share_document, share, get_doc, get_doc_share, list_docs, list_docs_shared,
         change_password, sessionVars
  <2>2. ASSUME NEW t \in Thread, NEW r \in Requests, Deliver(t, r)
        PROVE  usedNonces' \subseteq usedNonces
    BY <2>2 DEF Deliver, Accept, sessionVars
  <2>3. Tick \/ stop \/ StopListening \/ stop_db \/ Restart \/ UNCHANGED vars
        => usedNonces' \subseteq usedNonces
    BY DEF Tick, stop, StopListening, stop_db, Restart, vars, sessionVars
  <2> QED
    BY <2>1, <2>2, <2>3 DEF Next
<1> QED
  BY <1>2, <1>3, <1>4

(* A nonce is used up only by a request that its caller signed.            *)
THEOREM NoncesAreEarned == Spec => []NoncesEarned
<1>1. Init => NoncesEarned
  BY DEF Init, ServerInit, SessionInit, NoncesEarned
<1> QED
  BY <1>1, NextEarned, TypeInvariant, ChecksInvariant, PTL DEF Spec
=============================================================================
