------------------------ MODULE VaultSharing_proofs ------------------------
(***************************************************************************)
(* Documents end to end: downloads are faithful and shares open, for any   *)
(* number of users, threads, operations, cut-offs and restarts of the      *)
(* proxy in any of its modes.                                              *)
(***************************************************************************)
EXTENDS VaultSharing, SecureVaultServer_proofs

-----------------------------------------------------------------------------
(* The invariant.  g says who has begun which operation.                   *)

Past == {n \in Draw : n < draws}
Beginners == [Draw -> Registered \cup {NoEntry}]
Began(g) == \A n \in Past : g[n] \in Registered

DocOf(g, n) == pack_document(g[n], n)

(* The file key of document e, wrapped for the keys that the sender has    *)
(* of the recipient, with the hash of e; and e is the document of the      *)
(* share, unless the sender was given another one.                         *)
GoodShare(g, s) ==
    LET n == s.body.eph_pub
        v == s.recipient
    IN  /\ n \in Past /\ s.doc_id \in Draw /\ v \in Registered
        /\ \E e \in Past, p \in Party :
              /\ s = pack_share(g[n], v, dh_key(p), s.doc_id, doc_hash(DocOf(g, e)), FK(e), n)
              /\ IF v = g[n] THEN p = v
                 ELSE trust[g[n]][v] # NoEntry /\ trust[g[n]][v].dh_pub = dh_key(p)
              /\ e = s.doc_id \/ \E b \in BOOLEAN : <<n, b>> \in crossed

GoodRequest(g, r) ==
    /\ r \in SharingRequests
    /\ r.type = "UPLOAD" => r.document.doc_id \in Past /\ r.username = g[r.document.doc_id]
    /\ r.type = "SHARE" => GoodShare(g, r.share_blob)

(* The tables: accounts stay as they are.                                  *)
Accounts ==
    /\ dbOpen
    /\ \A u \in User :
          IF u \in Registered
          THEN users[u] # NoRow /\ users[u].sig_pub = sig_key(u) /\ users[u].dh_pub = dh_key(u)
          ELSE users[u] = NoRow

Tables(g) ==
    /\ \A d \in DocId : DocumentExists(d) => d \in Past /\ documents[d].blob = DocOf(g, d)
    /\ \A d \in DocId, u \in User : shares[<<d, u>>] # NoRow => GoodShare(g, shares[<<d, u>>])

(* What a thread is about to answer.                                       *)
GoodReply(g, t) ==
    /\ req[t].type = "SHARE" /\ reply[t].type = "OK" =>
          shares[<<req[t].doc_id, req[t].recipient>>] # NoRow
    /\ reply[t].type = "USER_PUBKEY" =>
          \E p \in Registered : reply[t].sig_pub = sig_key(p) /\ reply[t].dh_pub = dh_key(p)
    /\ reply[t].type = "DOC" =>
          /\ req[t].type = "GET_DOC"
          /\ DocumentExists(req[t].doc_id) /\ reply[t].document = documents[req[t].doc_id].blob
          /\ reply[t].share # NoRow =>
                GoodShare(g, reply[t].share) /\ reply[t].share.recipient = req[t].username

ThreadKnows(g, t) ==
    /\ pc[t] # "idle" => GoodRequest(g, req[t])
    /\ pc[t] \in {"read_document", "read_share", "respond"} /\ req[t].type = "GET_DOC" =>
          req[t].nonce \in usedNonces
    /\ pc[t] = "respond" => GoodReply(g, t)

ServerKnows(g) == Accounts /\ Tables(g) /\ \A t \in Thread : ThreadKnows(g, t)

(* What an operation knows at its label.                                   *)
KeyKnown(u) ==
    \E p \in Party :
        /\ job[u].dh_pub = dh_key(p)
        /\ IF job[u].recipient = u THEN p = u
           ELSE trust[u][job[u].recipient] # NoEntry /\ trust[u][job[u].recipient].dh_pub = dh_key(p)

(* d is the document asked for, as far as the client can tell.             *)
AskedFor(u, d) ==
    /\ d \in DocId /\ DocumentExists(d)
    /\ d = job[u].doc_id \/ <<job[u].n, TRUE>> \in crossed

TamperedWith(x, document) ==
    \/ x = document
    \/ x = [document EXCEPT !.body = flip(@)]
    \/ x = [document EXCEPT !.owner = Tampered]

StepKnows(g, u) ==
    /\ cpc[u] = "idle" => out[u] = NoRequest /\ conn[u] = NoConn
    /\ cpc[u] # "idle" =>
          job[u] \in Job /\ job[u].n \in Past /\ g[job[u].n] = u /\ GoodRequest(g, out[u])
    /\ cpc[u] = "upload" =>
          out[u].type = "UPLOAD" /\ job[u].doc_id = job[u].n /\ job[u].recipient = u
    /\ cpc[u] \in Lookups => out[u].type = "GET_USER_PUBKEY"
    /\ cpc[u] \in {"self_share", "share"} =>
          /\ out[u].type = "SHARE"
          /\ out[u].doc_id = job[u].doc_id /\ out[u].recipient = job[u].recipient
    /\ cpc[u] \in {"share_fetch", "fetch"} => out[u] = GET_DOC(u, job[u].doc_id, job[u].n)
    /\ cpc[u] = "share_fetch" => KeyKnown(u)
    /\ cpc[u] = "share_pubkey" => job[u].recipient # u
    /\ cpc[u] = "sender_key" => job[u].share \in ShareBlob /\
          \E d \in DocId : AskedFor(u, d) /\ TamperedWith(job[u].document, documents[d].blob)
    /\ cpc[u] = "owner_key" =>
          \E d \in DocId : AskedFor(u, d) /\ job[u].document = documents[d].blob

(* What is on the connections, and what becomes of a captured GET_DOC once *)
(* its own client has had an answer: its nonce is used, and a replay sent  *)
(* for the same user is refused.                                           *)
Linked ==
    /\ \A u \in Registered : conn[u] # NoConn =>
          /\ conn[u] \in Thread /\ pc[conn[u]] # "idle"
          /\ req[conn[u]] = IF mode = "replay" THEN captured ELSE out[u]
    /\ \A u, v \in Registered : conn[u] # NoConn /\ conn[v] = conn[u] => v = u

Refused(t) ==
    \/ pc[t] \in {"dispatch", "consume_nonce"}
    \/ pc[t] = "respond" /\ reply[t] = ERROR

Spent ==
    captured # NoRequest /\ captured.type = "GET_DOC" /\ ~abandoned =>
        LET u == captured.username
        IN  out[u] # captured =>
                captured.nonce \in usedNonces /\ (conn[u] # NoConn => Refused(conn[u]))

ProxyKnows(g) ==
    /\ captured # NoRequest => mode = "replay" /\ GoodRequest(g, captured)
    /\ Linked
    /\ Spent

Promises == DownloadsFaithful /\ \A k \in confirmed : shares[k] # NoRow

ClientKnows(g) ==
    SharingTypeOK /\ ProxyKnows(g) /\ Promises /\ \A u \in Registered : StepKnows(g, u)

ServerInv == TInv /\ ChecksInv /\ ReferentialIntegrity
Knows(g) == Began(g) /\ ServerKnows(g) /\ ClientKnows(g)
SInv == ServerInv /\ \E g \in Beginners : Knows(g)

-----------------------------------------------------------------------------
(* What the requests of the three operations are made of.                  *)
LEMMA ShareParts ==
    ASSUME NEW s \in SharingShares
    PROVE  /\ s \in ShareBlob
           /\ s.sender \in Registered /\ s.recipient \in Registered /\ s.doc_id \in Draw
           /\ s.body.eph_pub \in Draw
           /\ s.body.share_sig.key = sig_key(s.sender)
           /\ s.body.share_sig.signed = share_body(s)
<1>1. s.body \in Body
  BY SharingRequestsAssumption DEF SharingBody
<1> QED
  BY <1>1, SharingAssumption DEF SharingShares, pack_share, share_body, ecdsa_sign, ShareBlob

LEMMA RequestParts ==
    ASSUME NEW r \in SharingRequests
    PROVE  /\ r \in Requests /\ r # NoRequest /\ r.username \in User
           /\ r.type \in {"UPLOAD", "SHARE", "GET_DOC", "GET_USER_PUBKEY"}
           /\ r.type # "GET_USER_PUBKEY" =>
                 /\ r.username \in Registered /\ r.nonce \in SharingNonce
                 /\ r.sig.key = sig_key(r.username) /\ r.sig.payload = canonical(r)
           /\ r.type = "UPLOAD" =>
                 /\ r.document.doc_id \in Draw
                 /\ r.document = pack_document(r.username, r.document.doc_id)
           /\ r.type = "SHARE" =>
                 /\ r.share_blob \in SharingShares /\ r.share_blob.sender = r.username
                 /\ r.recipient = r.share_blob.recipient /\ r.doc_id = r.share_blob.doc_id
           /\ r.type = "GET_DOC" => r.doc_id \in Draw
<1>1. r \in Requests /\ r # NoRequest
  BY SharingRequestsAssumption, RequestsAssumption, NoRequestAssumption
<1>2. Registered \subseteq User
  BY SharingAssumption
<1>3. CASE \E u \in Registered, n \in Draw : r = UPLOAD(u, n)
  <2>1. PICK u \in Registered, n \in Draw : r = UPLOAD(u, n)
    BY <1>3
  <2> QED
    BY <1>1, <1>2, <2>1 DEF UPLOAD, pack_document, canonical, nonce, SharingNonce
<1>4. CASE \E s \in SharingShares : r = SHARE(s.sender, s.recipient, s.doc_id, s.body.eph_pub, s)
  <2>1. PICK s \in SharingShares : r = SHARE(s.sender, s.recipient, s.doc_id, s.body.eph_pub, s)
    BY <1>4
  <2>2. s.sender \in Registered /\ s.body.eph_pub \in Draw
    BY ShareParts
  <2> QED
    BY <1>1, <1>2, <2>1, <2>2 DEF SHARE, canonical, nonce, SharingNonce
<1>5. CASE \E u \in Registered, d, n \in Draw : r = GET_DOC(u, d, n)
  <2>1. PICK u \in Registered, d \in Draw, n \in Draw : r = GET_DOC(u, d, n)
    BY <1>5
  <2> QED
    BY <1>1, <1>2, <2>1 DEF GET_DOC, canonical, nonce, SharingNonce
<1>6. CASE \E u \in User : r = GET_USER_PUBKEY(u)
  BY <1>1, <1>6 DEF GET_USER_PUBKEY
<1> QED
  BY <1>3, <1>4, <1>5, <1>6 DEF SharingRequests

-----------------------------------------------------------------------------
(* What a step of a handler comes to, when it serves one of these requests.*)
Kept4(u) == pc'[u] = pc[u] /\ req'[u] = req[u] /\ found'[u] = found[u] /\ reply'[u] = reply[u]

EndsConnection(t) == pc[t] = "respond" /\ pc'[t] = "idle" /\ UNCHANGED <<documents, shares>>

Proceeds(t) == pc'[t] \notin {"idle", "respond"} /\ UNCHANGED <<documents, shares>>

Rejects(t) == pc'[t] = "respond" /\ reply'[t] = ERROR /\ UNCHANGED <<documents, shares>>

TellsKeys(t) ==
    /\ req[t].type = "GET_USER_PUBKEY" /\ UserExists(req[t].username)
    /\ pc'[t] = "respond" /\ UNCHANGED <<documents, shares>>
    /\ reply'[t] = [type |-> "USER_PUBKEY", sig_pub |-> users[req[t].username].sig_pub,
                    dh_pub |-> users[req[t].username].dh_pub]

Stores(t) ==
    /\ req[t].type = "UPLOAD" /\ pc'[t] = "respond" /\ reply'[t] = OK /\ shares' = shares
    /\ documents' = [documents EXCEPT ![req[t].document.doc_id] =
                        [owner |-> req[t].document.owner, version |-> req[t].document.version,
                         blob |-> req[t].document]]

Wraps(t) ==
    /\ req[t].type = "SHARE" /\ pc'[t] = "respond" /\ reply'[t] = OK /\ documents' = documents
    /\ shares' = [shares EXCEPT ![<<req[t].doc_id, req[t].recipient>>] = req[t].share_blob]

Delivers(t) ==
    /\ req[t].type = "GET_DOC" /\ pc[t] = "read_share"
    /\ pc'[t] = "respond" /\ UNCHANGED <<documents, shares>>
    /\ DocumentExists(req[t].doc_id)
    /\ reply'[t] = [type |-> "DOC", document |-> documents[req[t].doc_id].blob,
                    share |-> shares[<<req[t].doc_id, req[t].username>>]]

Effect(t) ==
    /\ pc[t] # "idle"
    /\ \A u \in Thread \ {t} : Kept4(u)
    /\ UNCHANGED <<users, dbOpen>> /\ usedNonces \subseteq usedNonces'
    /\ \/ EndsConnection(t)
       \/ /\ pc[t] # "respond" /\ req'[t] = req[t]
          /\ Proceeds(t) \/ Rejects(t) \/ TellsKeys(t) \/ Stores(t) \/ Wraps(t) \/ Delivers(t)
          /\ req[t].type = "GET_DOC" =>
                /\ pc'[t] \in {"read_document", "read_share", "respond"} =>
                      req[t].nonce \in usedNonces'
                /\ req[t].nonce \in usedNonces /\ Refused(t) => Refused(t)'

LEMMA HandlerEffect ==
    ASSUME TInv, Accounts, NEW g, NEW t \in Thread, HandlerChecks(t), ThreadKnows(g, t),
           HandlerStep(t)
    PROVE  Effect(t)
<1>1. /\ pc[t] # "idle" /\ HandlerTypes(t) /\ dbOpen
      /\ pc \in [Thread -> Labels] /\ req \in [Thread -> Requests \cup {NoRequest}]
      /\ DOMAIN found = Thread /\ DOMAIN reply = Thread
  BY DEF TInv, ThreadInv, ThreadTypeOK, HandlerTypes, Accounts, HandlerStep, Refuse, DbError, Respond,
         register, login_challenge, login_challenge_issue, login, login_verify, get_salt,
         get_user_pubkey, authenticate, check_nonce, upload, share_recipient,
         share_document, share, get_doc, get_doc_share, list_docs, list_docs_shared,
         change_password, Routed, At, DbCalls
<1>2. /\ req[t] \in SharingRequests
      /\ req[t].type \in {"UPLOAD", "SHARE", "GET_DOC", "GET_USER_PUBKEY"}
      /\ req[t].type # "GET_USER_PUBKEY" =>
            /\ SignedByCaller(req[t]) /\ req[t].nonce # EmptyNonce
      /\ req[t].type = "GET_DOC" => WellFormed(req[t])
  <2>1. req[t] \in SharingRequests
    BY <1>1 DEF ThreadKnows, GoodRequest
  <2>2. req[t].type # "GET_USER_PUBKEY" => SignedByCaller(req[t])
    BY <2>1, RequestParts
       DEF Accounts, SignedByCaller, UserExists, CheckedKey, verify_request_signature
  <2>3. req[t].type = "GET_DOC" => WellFormed(req[t])
    BY <2>1, RequestParts, SharingAssumption DEF WellFormed
  <2> QED
    BY <2>1, <2>2, <2>3, RequestParts, SharingRequestsAssumption
<1>3. \A u \in Thread \ {t} : Kept4(u)
  BY <1>1 DEF Kept4, HandlerStep, Refuse, DbError, Respond, register,
         login_challenge, login_challenge_issue, login, login_verify, get_salt,
         get_user_pubkey, authenticate, check_nonce, upload, share_recipient,
         share_document, share, get_doc, get_doc_share, list_docs, list_docs_shared,
         change_password, Goto, Remember, Serve, Answer, Return
<1> USE <1>1, <1>2 DEF dbVars, sessionVars, At, Routed, Answer, Serve, Return, Goto, Remember
<1>4. CASE Respond(t)
  BY <1>3, <1>4 DEF Effect, EndsConnection, Respond
<1>5. CASE Refuse(t) \/ DbError(t)
  BY <1>5 DEF Refuse, DbError
<1>6. CASE get_user_pubkey(t)
  BY <1>3, <1>6 DEF Effect, TellsKeys, Rejects, get_user_pubkey
<1>7. CASE authenticate(t)
  BY <1>3, <1>7 DEF Effect, Proceeds, Refused, authenticate, NonceTypes
<1>8. CASE check_nonce(t)
  <2>1. req[t].type \in {"UPLOAD", "SHARE", "GET_DOC"}
    BY <1>8 DEF check_nonce, HandlerTypes, ServesType, NonceTypes
  <2>2. CASE consume_nonce(req[t].nonce)
    BY <1>3, <1>8, <2>1, <2>2 DEF Effect, Proceeds, Rejects, Refused, check_nonce, consume_nonce, fresh,
                                FirstCall
  <2>3. CASE ~fresh(req[t].nonce) /\ Answer(t, ERROR) /\ UNCHANGED sessionVars
    BY <1>3, <1>8, <2>1, <2>3 DEF Effect, Rejects, Refused, check_nonce, fresh
  <2> QED
    BY <1>8, <2>2, <2>3 DEF check_nonce
<1>9. CASE upload(t)
  BY <1>3, <1>9 DEF Effect, Rejects, Stores, upload, create_document, HandlerTypes, ServesType
<1>10. CASE share_recipient(t) \/ share_document(t)
  BY <1>3, <1>10 DEF Effect, Rejects, Proceeds, share_recipient, share_document, HandlerTypes, ServesType
<1>11. CASE share(t)
  <2>1. req[t].share_blob.doc_id = req[t].doc_id /\ req[t].share_blob.recipient = req[t].recipient
    BY <1>2, <1>11, RequestParts DEF share, HandlerTypes, ServesType
  <2> QED
    BY <1>3, <1>11, <2>1 DEF Effect, Wraps, share, create_or_replace_share, HandlerTypes, ServesType
<1>12. CASE get_doc(t)
  BY <1>3, <1>12 DEF Effect, Rejects, Proceeds, Refused, get_doc, HandlerTypes, ServesType, ThreadKnows
<1>13. CASE get_doc_share(t)
  BY <1>3, <1>13, NoRowAssumption DEF Effect, Rejects, Delivers, Refused, get_doc_share, HandlerTypes, ServesType,
                     HandlerChecks, ThreadKnows, DocumentExists
<1>14. CASE \/ register(t) \/ login_challenge(t) \/ login(t) \/ get_salt(t) \/ list_docs(t)
            \/ login_challenge_issue(t) \/ login_verify(t) \/ list_docs_shared(t) \/ change_password(t)
  BY <1>14 DEF register, login_challenge, login, get_salt, list_docs, login_challenge_issue,
               login_verify, list_docs_shared, change_password, HandlerTypes, ServesType
<1> QED
  BY <1>4, <1>5, <1>6, <1>7, <1>8, <1>9, <1>10, <1>11, <1>12, <1>13, <1>14 DEF HandlerStep

-----------------------------------------------------------------------------
(* What is known stays known while operations begin, pins are added and    *)
(* documents are stored; h differs from g in operations yet to begin.      *)
TrustKept == \A u \in Registered, k \in User : trust[u][k] # NoEntry => trust'[u][k] = trust[u][k]

Moves(g, h) ==
    /\ draws \in Nat /\ draws' \in Nat /\ draws <= draws'
    /\ \A n \in Past : g[n] \in Registered /\ h[n] = g[n]
    /\ TrustKept
    /\ crossed \subseteq crossed'

LEMMA PastGrows ==
    ASSUME NEW g, NEW h, Moves(g, h)
    PROVE  Past \subseteq Past'
  BY DEF Moves, Past, Draw

LEMMA ShareStays ==
    ASSUME NEW g, NEW h, Moves(g, h), NEW s, GoodShare(g, s)
    PROVE  GoodShare(h, s)'
<1> DEFINE n == s.body.eph_pub
           v == s.recipient
<1>1. n \in Past /\ s.doc_id \in Draw /\ v \in Registered /\ v \in User
  BY SharingAssumption DEF GoodShare
<1>2. PICK e \in Past, p \in Party :
         /\ s = pack_share(g[n], v, dh_key(p), s.doc_id, doc_hash(DocOf(g, e)), FK(e), n)
         /\ IF v = g[n] THEN p = v
            ELSE trust[g[n]][v] # NoEntry /\ trust[g[n]][v].dh_pub = dh_key(p)
         /\ e = s.doc_id \/ \E b \in BOOLEAN : <<n, b>> \in crossed
  BY DEF GoodShare
<1>3. /\ g[n] \in Registered /\ h[n] = g[n] /\ DocOf(h, e) = DocOf(g, e)
      /\ n \in Past' /\ e \in Past' /\ crossed \subseteq crossed'
  BY <1>1, PastGrows DEF Moves, DocOf
<1>4. trust[g[n]][v] # NoEntry => trust'[g[n]][v] = trust[g[n]][v]
  BY <1>1, <1>3 DEF Moves, TrustKept
<1>5. /\ s = pack_share(h[n], v, dh_key(p), s.doc_id, doc_hash(DocOf(h, e)), FK(e), n)
      /\ IF v = h[n] THEN p = v
         ELSE trust'[h[n]][v] # NoEntry /\ trust'[h[n]][v].dh_pub = dh_key(p)
      /\ e = s.doc_id \/ \E b \in BOOLEAN : <<n, b>> \in crossed'
  BY <1>2, <1>3, <1>4
<1> QED
  BY <1>1, <1>3, <1>5 DEF GoodShare, DocOf

LEMMA RequestStays ==
    ASSUME NEW g, NEW h, Moves(g, h), NEW r, GoodRequest(g, r)
    PROVE  GoodRequest(h, r)'
<1>1. r \in SharingRequests
  BY DEF GoodRequest
<1>2. r.type = "SHARE" => GoodShare(h, r.share_blob)'
  BY ShareStays DEF GoodRequest
<1>3. r.type = "UPLOAD" => r.document.doc_id \in Past' /\ r.username = h[r.document.doc_id]
  BY PastGrows DEF GoodRequest, Moves
<1> QED
  BY <1>1, <1>2, <1>3 DEF GoodRequest

LEMMA ReplyStays ==
    ASSUME NEW g, NEW h, Moves(g, h), RowsGrow, NEW t \in Thread, GoodRequest(g, req[t]), GoodReply(g, t),
           req'[t] = req[t], reply'[t] = reply[t]
    PROVE  GoodReply(h, t)'
<1>1. /\ req[t].type \in {"SHARE", "GET_DOC"} => req[t].doc_id \in DocId
      /\ req[t].type = "SHARE" => req[t].recipient \in User
  BY RequestParts, ShareParts, SharingAssumption DEF GoodRequest
<1>2. req[t].type = "SHARE" /\ reply[t].type = "OK" => shares'[<<req[t].doc_id, req[t].recipient>>] # NoRow
  BY <1>1 DEF GoodReply, RowsGrow
<1>3. ASSUME reply[t].type = "DOC"
      PROVE  /\ req[t].type = "GET_DOC"
             /\ documents'[req[t].doc_id] # NoRow /\ reply[t].document = documents'[req[t].doc_id].blob
             /\ reply[t].share # NoRow =>
                   GoodShare(h, reply[t].share)' /\ reply[t].share.recipient = req[t].username
  <2>1. req[t].type = "GET_DOC" /\ documents'[req[t].doc_id] = documents[req[t].doc_id]
    BY <1>1, <1>3 DEF GoodReply, RowsGrow
  <2>2. reply[t].share # NoRow => GoodShare(h, reply[t].share)'
    BY <1>3, ShareStays DEF GoodReply
  <2> QED
    BY <1>3, <2>1, <2>2 DEF GoodReply, DocumentExists
<1> QED
  BY <1>2, <1>3 DEF GoodReply, DocumentExists

LEMMA ThreadStays ==
    ASSUME NEW g, NEW h, Moves(g, h), RowsGrow, usedNonces \subseteq usedNonces',
           NEW t \in Thread, ThreadKnows(g, t), Kept4(t)
    PROVE  ThreadKnows(h, t)'
<1>1. ASSUME pc[t] # "idle" PROVE GoodRequest(g, req[t]) /\ GoodRequest(h, req[t])'
  <2>1. PICK r \in SharingRequests : r = req[t]
    BY <1>1 DEF ThreadKnows, GoodRequest
  <2>2. GoodRequest(g, r) /\ req'[t] = r
    BY <1>1, <2>1 DEF ThreadKnows, Kept4
  <2>3. GoodRequest(h, r)'
    BY <2>2, RequestStays
  <2> QED
    BY <2>1, <2>2, <2>3
<1>2. pc[t] = "respond" => GoodReply(h, t)'
  BY <1>1, ReplyStays DEF ThreadKnows, Kept4
<1> QED
  BY <1>1, <1>2 DEF ThreadKnows, Kept4

LEMMA TablesStay ==
    ASSUME NEW g, NEW h, Moves(g, h), Tables(g), UNCHANGED <<documents, shares>>
    PROVE  Tables(h)'
<1>1. ASSUME NEW d \in DocId, documents[d] # NoRow
      PROVE  d \in Past' /\ documents[d].blob = DocOf(h, d)
  BY <1>1, PastGrows DEF Tables, Moves, DocumentExists, DocOf
<1>2. ASSUME NEW d \in DocId, NEW u \in User, shares[<<d, u>>] # NoRow
      PROVE  GoodShare(h, shares[<<d, u>>])'
  BY <1>2, ShareStays DEF Tables
<1> QED
  BY <1>1, <1>2 DEF Tables, DocumentExists, DocOf

(* A handler keeps what the server knows: it stores what it was sent.      *)
LEMMA EffectTables ==
    ASSUME TInv, NEW g, Tables(g), Moves(g, g), NEW t \in Thread, ThreadKnows(g, t), Effect(t)
    PROVE  Tables(g)'
<1>1. /\ documents \in [DocId -> DocumentRecord \cup {NoRow}]
      /\ shares \in [DocId \X User -> ShareBlob \cup {NoRow}]
  BY DEF TInv, DBTypeOK
<1>2. GoodRequest(g, req[t])
  BY DEF Effect, ThreadKnows
<1>3. CASE UNCHANGED <<documents, shares>>
  BY <1>3, TablesStay
<1>4. CASE Stores(t)
  <2>1. shares' = shares /\ req[t].type = "UPLOAD"
    BY <1>4 DEF Stores
  <2> DEFINE n == req[t].document.doc_id
  <2>2. /\ n \in Past /\ n \in Past' /\ n \in DocId /\ req[t].document = DocOf(g, n)
    BY <1>2, <2>1, RequestParts, PastGrows, SharingAssumption DEF GoodRequest, DocOf, Past
  <2>3. ASSUME NEW d \in DocId, documents'[d] # NoRow
        PROVE  d \in Past' /\ documents'[d].blob = DocOf(g, d)
    <3>1. CASE d = n
      BY <1>1, <1>4, <2>2, <3>1 DEF Stores
    <3>2. CASE d # n
      BY <1>1, <1>4, <2>2, <2>3, <3>2, PastGrows DEF Stores, Tables, DocumentExists
    <3> QED
      BY <3>1, <3>2
  <2>4. ASSUME NEW d \in DocId, NEW u \in User, shares'[<<d, u>>] # NoRow
        PROVE  GoodShare(g, shares[<<d, u>>])'
    BY <2>1, <2>4, ShareStays DEF Tables
  <2> QED
    BY <2>1, <2>3, <2>4 DEF Tables, DocumentExists, DocOf
<1>5. CASE Wraps(t)
  <2>1. PICK s \in SharingShares : s = req[t].share_blob /\ GoodShare(g, s)
    BY <1>2, <1>5, RequestParts DEF Wraps, GoodRequest
  <2>5. documents' = documents /\ GoodShare(g, s)'
    BY <1>5, <2>1, ShareStays DEF Wraps
  <2>2. req[t].doc_id \in DocId /\ req[t].recipient \in User
    BY <1>2, <1>5, RequestParts, ShareParts, SharingAssumption DEF Wraps, GoodRequest
  <2>3. ASSUME NEW d \in DocId, NEW u \in User, shares'[<<d, u>>] # NoRow
        PROVE  GoodShare(g, shares[<<d, u>>])'
    <3>1. CASE d = req[t].doc_id /\ u = req[t].recipient
      <4>1. shares'[<<d, u>>] = s
        BY <1>1, <1>5, <2>1, <3>1 DEF Wraps
      <4> QED
        BY <2>5, <4>1 DEF GoodShare
    <3>2. CASE ~(d = req[t].doc_id /\ u = req[t].recipient)
      <4>1. shares'[<<d, u>>] = shares[<<d, u>>]
        BY <1>1, <1>5, <2>2, <3>2 DEF Wraps
      <4>2. PICK x : x = shares[<<d, u>>]
        OBVIOUS
      <4>3. GoodShare(g, x)'
        BY <2>3, <4>1, <4>2, ShareStays DEF Tables
      <4> QED
        BY <4>1, <4>2, <4>3 DEF GoodShare
    <3> QED
      BY <3>1, <3>2
  <2>4. ASSUME NEW d \in DocId, documents'[d] # NoRow
        PROVE  d \in Past' /\ documents'[d].blob = DocOf(g, d)
    BY <2>4, <2>5, PastGrows DEF Tables, DocumentExists
  <2> QED
    BY <2>3, <2>4 DEF Tables, DocumentExists, DocOf
<1> QED
  BY <1>3, <1>4, <1>5 DEF Effect, EndsConnection, Proceeds, Rejects, TellsKeys, Delivers

LEMMA DeliveredReply ==
    ASSUME TInv, ReferentialIntegrity, NEW g, Tables(g), Moves(g, g), NEW t \in Thread,
           GoodRequest(g, req[t]), Delivers(t), req'[t] = req[t]
    PROVE  GoodReply(g, t)'
<1>1. /\ req[t].type = "GET_DOC" /\ req[t].doc_id \in DocId /\ req[t].username \in User
      /\ documents[req[t].doc_id] # NoRow /\ documents' = documents /\ shares' = shares
      /\ reply'[t] = [type |-> "DOC", document |-> documents[req[t].doc_id].blob,
                      share |-> shares[<<req[t].doc_id, req[t].username>>]]
  BY RequestParts, SharingAssumption DEF GoodRequest, Delivers, DocumentExists
<1>2. PICK s : s = shares[<<req[t].doc_id, req[t].username>>]
  OBVIOUS
<1>3. s # NoRow => GoodShare(g, s)' /\ s.recipient = req[t].username
  BY <1>1, <1>2, ShareStays DEF Tables, ReferentialIntegrity
<1>4. reply'[t].type = "DOC" /\ reply'[t].share = s
      /\ reply'[t].document = documents'[req'[t].doc_id].blob /\ req'[t] = req[t]
  BY <1>1, <1>2
<1>5. reply'[t].share # NoRow => GoodShare(g, reply[t].share)'
  BY <1>3, <1>4 DEF GoodShare
<1> QED
  BY <1>1, <1>3, <1>4, <1>5 DEF GoodReply, DocumentExists

LEMMA EffectServerKnows ==
    ASSUME TInv, ReferentialIntegrity, NEW g, ServerKnows(g), Moves(g, g), RowsGrow,
           NEW t \in Thread, Effect(t)
    PROVE  ServerKnows(g)'
<1>1. Accounts'
  BY DEF ServerKnows, Accounts, Effect
<1>2. Tables(g)'
  BY EffectTables DEF ServerKnows
<1>3. ASSUME NEW u \in Thread, u # t PROVE ThreadKnows(g, u)'
  BY <1>3, ThreadStays DEF ServerKnows, Effect
<1>4. ThreadKnows(g, t)'
  <2>1. CASE EndsConnection(t)
    BY <2>1 DEF EndsConnection, ThreadKnows
  <2>2. CASE ~EndsConnection(t)
    <3>1. /\ req'[t] = req[t]
          /\ Proceeds(t) \/ Rejects(t) \/ TellsKeys(t) \/ Stores(t) \/ Wraps(t) \/ Delivers(t)
          /\ req[t].type = "GET_DOC" /\ pc'[t] \in {"read_document", "read_share", "respond"} =>
                req[t].nonce \in usedNonces'
      BY <2>2 DEF Effect
    <3>2. PICK r \in SharingRequests : r = req[t] /\ GoodRequest(g, r)
      BY DEF Effect, ServerKnows, ThreadKnows, GoodRequest
    <3>3. GoodRequest(g, r)'
      BY <3>2, RequestStays
    <3>4. GoodRequest(g, req[t])'
      BY <3>1, <3>2, <3>3 DEF GoodRequest
    <3>5. ASSUME pc'[t] = "respond" PROVE GoodReply(g, t)'
      <4>1. CASE Proceeds(t)
        BY <3>5, <4>1 DEF Proceeds
      <4>2. CASE Rejects(t)
        BY <4>2 DEF Rejects, GoodReply, ERROR
      <4>3. CASE TellsKeys(t)
        <5>1. req[t].username \in Registered
          BY <3>2, <4>3, RequestParts DEF TellsKeys, UserExists, ServerKnows, Accounts
        <5> QED
          BY <3>1, <4>3, <5>1, SharingAssumption DEF TellsKeys, GoodReply, ServerKnows, Accounts
      <4>4. CASE Stores(t)
        BY <3>1, <4>4 DEF Stores, GoodReply, OK
      <4>5. CASE Wraps(t)
        <5>1. /\ req[t].doc_id \in DocId /\ req[t].recipient \in User
              /\ req[t].share_blob \in ShareBlob
          BY <3>2, <4>5, RequestParts, ShareParts, SharingAssumption DEF Wraps
        <5> QED
          BY <3>1, <4>5, <5>1, NoRowAssumption DEF Wraps, GoodReply, OK, TInv, DBTypeOK
      <4>6. CASE Delivers(t)
        BY <3>1, <3>2, <4>6, DeliveredReply DEF ServerKnows
      <4> QED
        BY <3>1, <4>1, <4>2, <4>3, <4>4, <4>5, <4>6
    <3> QED
      BY <3>1, <3>4, <3>5 DEF ThreadKnows
  <2> QED
    BY <2>1, <2>2
<1> QED
  BY <1>1, <1>2, <1>3, <1>4 DEF ServerKnows

(* The server has accepted a connection; its request is one of these.      *)
LEMMA DeliverServerKnows ==
    ASSUME NEW g, ServerKnows(g), Moves(g, g), RowsGrow, NEW t \in Thread, NEW r, GoodRequest(g, r),
           pc \in [Thread -> Labels], DOMAIN req = Thread, Deliver(t, r)
    PROVE  ServerKnows(g)'
<1>1. /\ UNCHANGED <<users, dbOpen, documents, shares, usedNonces>>
      /\ \A u \in Thread \ {t} : Kept4(u)
      /\ pc'[t] = "dispatch" /\ req'[t] = r
  BY DEF Deliver, Accept, dbVars, sessionVars, Kept4
<1>2. Accounts' /\ Tables(g)'
  BY <1>1, TablesStay DEF ServerKnows, Accounts
<1>3. ASSUME NEW u \in Thread, u # t PROVE ThreadKnows(g, u)'
  BY <1>1, <1>3, ThreadStays DEF ServerKnows
<1>4. ThreadKnows(g, t)'
  <2>1. GoodRequest(g, r)'
    BY RequestStays
  <2> QED
    BY <1>1, <2>1 DEF ThreadKnows, GoodRequest
<1> QED
  BY <1>2, <1>3, <1>4 DEF ServerKnows

LEMMA QuietServerKnows ==
    ASSUME NEW g, NEW h, ServerKnows(g), Moves(g, h), RowsGrow, UNCHANGED vars
    PROVE  ServerKnows(h)'
<1>1. /\ UNCHANGED <<users, dbOpen, documents, shares, usedNonces>>
      /\ \A u \in Thread : Kept4(u)
  BY DEF vars, dbVars, sessionVars, threadVars, Kept4
<1>2. Accounts' /\ Tables(h)'
  BY <1>1, TablesStay DEF ServerKnows, Accounts
<1>3. ASSUME NEW u \in Thread PROVE ThreadKnows(h, u)'
  BY <1>1, <1>3, ThreadStays DEF ServerKnows
<1> QED
  BY <1>2, <1>3 DEF ServerKnows

(* A client at whose operation nothing happens knows what it knew.         *)
LEMMA StepStays ==
    ASSUME NEW g, NEW h, Moves(g, h), RowsGrow, NEW u \in Registered, StepKnows(g, u),
           cpc'[u] = cpc[u], job'[u] = job[u], out'[u] = out[u],
           cpc[u] = "idle" => conn'[u] = conn[u]
    PROVE  StepKnows(h, u)'
<1>1. ASSUME cpc[u] # "idle"
      PROVE  /\ job'[u] \in Job /\ job'[u].n \in Past' /\ h[job'[u].n] = u
             /\ GoodRequest(h, out[u])'
  <2>1. PICK r : r = out[u] /\ GoodRequest(g, r)
    BY <1>1 DEF StepKnows
  <2>2. GoodRequest(h, r)' /\ r = out'[u]
    BY <2>1, RequestStays
  <2> QED
    BY <1>1, <2>2, PastGrows DEF StepKnows, Moves, GoodRequest
<1>2. ASSUME cpc[u] = "share_fetch" PROVE KeyKnown(u)'
  <2>1. job[u].recipient \in User
    BY <1>2, SharingAssumption DEF StepKnows, Job
  <2> QED
    BY <1>2, <2>1 DEF StepKnows, KeyKnown, Moves, TrustKept
<1>3. ASSUME NEW d \in DocId, AskedFor(u, d) PROVE AskedFor(u, d)' /\ documents'[d] = documents[d]
  BY <1>3 DEF AskedFor, RowsGrow, DocumentExists, Moves
<1>4. ASSUME cpc[u] = "sender_key"
      PROVE  \E d \in DocId : AskedFor(u, d)' /\ TamperedWith(job'[u].document, documents'[d].blob)
  BY <1>3, <1>4 DEF StepKnows
<1>5. ASSUME cpc[u] = "owner_key"
      PROVE  \E d \in DocId : AskedFor(u, d)' /\ job'[u].document = documents'[d].blob
  BY <1>3, <1>5 DEF StepKnows
<1> QED
  BY <1>1, <1>2, <1>4, <1>5 DEF StepKnows, TamperedWith

-----------------------------------------------------------------------------
(* The server here takes steps of its own specification only.              *)
LEMMA ServerInside == SharingTypeOK /\ [SharingNext]_sharingVars => [Next]_vars
<1> SUFFICES ASSUME SharingTypeOK, [SharingNext]_sharingVars PROVE [Next]_vars
  OBVIOUS
<1>1. CASE UNCHANGED sharingVars
  BY <1>1 DEF sharingVars
<1>2. ASSUME NEW u \in Registered, NEW t \in Thread, Send(u, t) PROVE [Next]_vars
  <2>1. PICK r \in SharingRequests : Deliver(t, r)
    BY <1>2 DEF Send, SharingTypeOK
  <2> QED
    BY <2>1, SharingRequestsAssumption DEF Next
<1>3. ASSUME NEW u \in Registered, Receive(u) PROVE [Next]_vars
  BY <1>3 DEF Receive, SharingTypeOK, Next
<1>4. ASSUME NEW t \in Thread, ServerStep(t) PROVE [Next]_vars
  BY <1>4 DEF ServerStep, Next
<1>5. ASSUME NEW u \in Registered, upload_op(u) PROVE UNCHANGED vars
  BY <1>5 DEF upload_op, Begin
<1>6. ASSUME NEW u \in Registered, NEW d, download_op(u, d) PROVE UNCHANGED vars
  BY <1>6 DEF download_op, Begin
<1>7. ASSUME NEW u \in Registered, NEW d, NEW v, share_op(u, d, v) PROVE UNCHANGED vars
  BY <1>7 DEF share_op, Begin
<1>8. ASSUME NEW u \in Registered, CutOff(u) PROVE UNCHANGED vars
  BY <1>8 DEF CutOff
<1>9. ASSUME NEW m, start_proxy(m) PROVE UNCHANGED vars
  BY <1>9 DEF start_proxy
<1> QED
  BY <1>1, <1>2, <1>3, <1>4, <1>5, <1>6, <1>7, <1>8, <1>9 DEF SharingNext

LEMMA ServerKeeps ==
    ASSUME ServerInv, [Next]_vars
    PROVE  ServerInv' /\ RowsGrow
  BY NextTypes, NextChecks, NextIntegrity, Permanence DEF ServerInv


(* An operation goes on, in the state of its client.                       *)
LEMMA CallEffect ==
    ASSUME SharingTypeOK, NEW u \in Registered, NEW label, NEW j, NEW r, Call(u, label, j, r)
    PROVE  /\ cpc'[u] = label /\ job'[u] = j /\ out'[u] = r /\ conn'[u] = NoConn
           /\ \A v \in Registered \ {u} :
                 cpc'[v] = cpc[v] /\ job'[v] = job[v] /\ out'[v] = out[v] /\ conn'[v] = conn[v]
           /\ DOMAIN cpc' = Registered /\ DOMAIN job' = Registered
           /\ DOMAIN out' = Registered /\ DOMAIN conn' = Registered
  BY DEF SharingTypeOK, Call

RpcTypeOK ==
    /\ cpc \in [Registered -> CpcLabels]
    /\ job \in [Registered -> Job \cup {NoJob}]
    /\ out \in [Registered -> SharingRequests \cup {NoRequest}]
    /\ conn \in [Registered -> Thread \cup {NoConn}]

LEMMA CallTypes ==
    ASSUME SharingTypeOK, NEW u \in Registered, NEW label \in CpcLabels, NEW j \in Job \cup {NoJob},
           NEW r \in SharingRequests \cup {NoRequest}, Call(u, label, j, r)
    PROVE  RpcTypeOK'
<1>1. RpcTypeOK
  BY DEF SharingTypeOK, RpcTypeOK
<1> QED
  BY <1>1 DEF RpcTypeOK, Call

(* What downloads have written stays faithful, and confirmed rows stay.    *)
LEMMA PromisesStay ==
    ASSUME SharingTypeOK, Promises, RowsGrow, saved' = saved, confirmed' = confirmed,
           crossed \subseteq crossed'
    PROVE  Promises'
<1>1. ASSUME NEW s \in saved
      PROVE  /\ documents'[s.content] # NoRow /\ s.owner = documents'[s.content].owner
             /\ s.doc_id = s.content \/ <<s.n, TRUE>> \in crossed'
  <2>1. s.content \in DocId
    BY <1>1, SharingAssumption DEF SharingTypeOK
  <2> QED
    BY <1>1, <2>1 DEF Promises, DownloadsFaithful, DocumentExists, RowsGrow
<1>2. ASSUME NEW k \in confirmed PROVE shares'[k] # NoRow
  <2>1. k \in DocId \X User
    BY <1>2, SharingAssumption DEF SharingTypeOK
  <2>2. PICK d \in DocId, u \in User : k = <<d, u>>
    BY <2>1
  <2> QED
    BY <1>2, <2>2 DEF Promises, RowsGrow
<1> QED
  BY <1>1, <1>2 DEF Promises, DownloadsFaithful, DocumentExists

LEMMA CapturedStays ==
    ASSUME NEW g, NEW h, Moves(g, h), GoodRequest(g, captured), captured' = captured
    PROVE  GoodRequest(h, captured)'
<1>1. PICK r : r = captured
  OBVIOUS
<1>2. GoodRequest(h, r)' /\ r = captured'
  BY <1>1, RequestStays
<1> QED
  BY <1>2 DEF GoodRequest

LEMMA MovesNothing ==
    ASSUME NEW g, Knows(g), UNCHANGED <<trust, draws, crossed>>
    PROVE  Moves(g, g)
  BY DEF Knows, Began, ClientKnows, SharingTypeOK, Moves, TrustKept

(* What a client that waits for a thread knows of it.                      *)
LEMMA EffectOnThreads ==
    ASSUME NEW t \in Thread, Effect(t), NEW c \in Thread, pc[c] # "idle",
           c = t => pc[t] # "respond"
    PROVE  /\ pc'[c] # "idle" /\ req'[c] = req[c] /\ usedNonces \subseteq usedNonces'
           /\ req[c].type = "GET_DOC" /\ req[c].nonce \in usedNonces /\ Refused(c) => Refused(c)'
<1>1. CASE c = t
  BY <1>1 DEF Effect, EndsConnection, Proceeds, Rejects, TellsKeys, Stores, Wraps, Delivers
<1>2. CASE c # t
  BY <1>2 DEF Effect, Kept4, Refused
<1> QED
  BY <1>1, <1>2

(* A handler goes on while its client waits, or has gone away.             *)
LEMMA ServerStepKnows ==
    ASSUME ServerInv, RowsGrow, NEW g, Knows(g), NEW t \in Thread, ServerStep(t)
    PROVE  Knows(g)'
<1>1. UNCHANGED clientVars /\ HandlerStep(t) /\ (pc[t] = "respond" => \A u \in Registered : conn[u] # t)
  BY DEF ServerStep, At
<1> USE DEF clientVars, rpcVars, proxyVars
<1>2. Moves(g, g) /\ Effect(t)
  BY <1>1, MovesNothing, HandlerEffect DEF Knows, ServerKnows, ServerInv, ChecksInv
<1>3. ServerKnows(g)'
  BY <1>2, EffectServerKnows DEF ServerInv, Knows
<1>4. Began(g)' /\ SharingTypeOK'
  BY <1>1 DEF Knows, Began, ClientKnows, SharingTypeOK, Past
<1>5. ASSUME NEW u \in Registered PROVE StepKnows(g, u)'
  BY <1>1, <1>2, <1>5, StepStays DEF Knows, ClientKnows
<1>6. Promises'
  BY <1>1, PromisesStay DEF Knows, ClientKnows
<1>7. captured # NoRequest => mode = "replay" /\ GoodRequest(g, captured)'
  BY <1>1, <1>2, CapturedStays DEF Knows, ClientKnows, ProxyKnows
<1>8. ASSUME NEW u \in Registered, conn[u] # NoConn
      PROVE  /\ conn[u] \in Thread /\ pc'[conn[u]] # "idle" /\ req'[conn[u]] = req[conn[u]]
             /\ req[conn[u]] = IF mode = "replay" THEN captured ELSE out[u]
             /\ req[conn[u]].type = "GET_DOC" /\ req[conn[u]].nonce \in usedNonces
                /\ Refused(conn[u]) => Refused(conn[u])'
  <2>1. PICK c \in Thread : /\ c = conn[u] /\ pc[c] # "idle"
                            /\ req[c] = IF mode = "replay" THEN captured ELSE out[u]
    BY <1>8 DEF Knows, ClientKnows, ProxyKnows, Linked
  <2>2. /\ pc'[c] # "idle" /\ req'[c] = req[c]
        /\ req[c].type = "GET_DOC" /\ req[c].nonce \in usedNonces /\ Refused(c) => Refused(c)'
    BY <1>1, <1>2, <2>1, EffectOnThreads
  <2>3. conn'[u] = c
    BY <1>1, <2>1
  <2> QED
    BY <2>1, <2>2, <2>3 DEF Refused
<1>9. Linked'
  BY <1>1, <1>8 DEF Linked, Knows, ClientKnows, ProxyKnows
<1>10. Spent'
  <2> SUFFICES ASSUME captured # NoRequest, captured.type = "GET_DOC", ~abandoned,
                      out[captured.username] # captured
               PROVE  /\ captured.nonce \in usedNonces'
                      /\ conn[captured.username] # NoConn => Refused(conn[captured.username])'
    BY <1>1 DEF Spent, Refused
  <2>1. PICK v \in Registered : v = captured.username /\ mode = "replay"
    BY RequestParts DEF Knows, ClientKnows, ProxyKnows, GoodRequest
  <2>2. captured.nonce \in usedNonces /\ (conn[v] # NoConn => Refused(conn[v]))
    BY <2>1 DEF Spent, Knows, ClientKnows, ProxyKnows
  <2>3. conn[v] # NoConn => Refused(conn[v])'
    BY <1>8, <2>1, <2>2
  <2> QED
    BY <1>1, <1>2, <2>1, <2>2, <2>3 DEF Effect, Refused
<1> QED
  BY <1>1, <1>3, <1>4, <1>5, <1>6, <1>7, <1>9, <1>10 DEF Knows, ClientKnows, ProxyKnows

-----------------------------------------------------------------------------
(* An operation begins: from here on draws is known to be of this client.  *)
LEMMA BeginKnows ==
    ASSUME RowsGrow, NEW g \in Beginners, Knows(g), NEW u \in Registered,
           NEW label \in CpcLabels \ {"idle"}, NEW j \in Job, NEW r \in SharingRequests,
           Begin(u, label, j, r), NEW h, h = [g EXCEPT ![draws] = u]
    PROVE  /\ h \in Beginners /\ Moves(g, h) /\ draws \in Past' /\ h[draws] = u
           /\ StepKnows(h, u)' => Knows(h)'
<1>1. /\ cpc[u] = "idle" /\ draws \in Draw /\ draws' = draws + 1 /\ draws \in Nat
      /\ UNCHANGED <<vars, trust, cutoffs, proxyVars, saved, confirmed, crossed>>
      /\ Call(u, label, j, r)
  BY SharingAssumption DEF Begin, Knows, ClientKnows, SharingTypeOK, Draw
<1>2. out[u] = NoRequest /\ conn[u] = NoConn
  BY <1>1 DEF Knows, ClientKnows, StepKnows
<1>3. h \in Beginners /\ h[draws] = u
  BY <1>1 DEF Beginners
<1>4. draws \in Past' /\ Past' = Past \cup {draws} /\ \A n \in Past : h[n] = g[n]
  BY <1>1 DEF Past, Draw, Beginners
<1>5. Moves(g, h)
  BY <1>1, <1>4 DEF Moves, TrustKept, Knows, Began
<1>6. Began(h)'
  BY <1>3, <1>4 DEF Knows, Began
<1>7. ServerKnows(h)'
  BY <1>1, <1>5, QuietServerKnows DEF Knows
<1>8. SharingTypeOK /\ RpcTypeOK'
  BY <1>1, CallTypes DEF Knows, ClientKnows
<1>9. SharingTypeOK'
  BY <1>1, <1>8, SharingAssumption DEF SharingTypeOK, RpcTypeOK, proxyVars, Draw
<1>10. Promises'
  BY <1>1, PromisesStay DEF Knows, ClientKnows
<1>11. /\ out'[u] = r /\ conn'[u] = NoConn
       /\ \A v \in Registered \ {u} :
             cpc'[v] = cpc[v] /\ job'[v] = job[v] /\ out'[v] = out[v] /\ conn'[v] = conn[v]
  BY <1>1, <1>8, CallEffect
<1>12. ASSUME NEW v \in Registered, v # u PROVE StepKnows(h, v)'
  BY <1>5, <1>11, <1>12, StepStays DEF Knows, ClientKnows
<1>13. captured # NoRequest => mode = "replay" /\ GoodRequest(h, captured)'
  BY <1>1, <1>5, CapturedStays DEF Knows, ClientKnows, ProxyKnows, proxyVars
<1>14. UNCHANGED <<pc, req, reply, usedNonces, captured, abandoned, mode>>
  BY <1>1 DEF vars, threadVars, sessionVars, proxyVars
<1>15. Linked'
  BY <1>2, <1>11, <1>14 DEF Linked, Knows, ClientKnows, ProxyKnows
<1>16. Spent'
  <2> SUFFICES ASSUME captured # NoRequest, captured.type = "GET_DOC", ~abandoned,
                      out'[captured.username] # captured
               PROVE  /\ captured.nonce \in usedNonces
                      /\ conn'[captured.username] # NoConn => Refused(conn[captured.username])'
    BY <1>14 DEF Spent
  <2>1. PICK v \in Registered : v = captured.username
    BY RequestParts DEF Knows, ClientKnows, ProxyKnows, GoodRequest
  <2>2. out[v] # captured /\ conn'[v] = conn[v]
    BY <1>2, <1>11, <2>1
  <2>3. captured.nonce \in usedNonces /\ (conn[v] # NoConn => Refused(conn[v]))
    BY <2>1, <2>2 DEF Spent, Knows, ClientKnows, ProxyKnows
  <2> QED
    BY <1>14, <2>1, <2>2, <2>3 DEF Refused
<1> QED
  BY <1>1, <1>3, <1>4, <1>5, <1>6, <1>7, <1>9, <1>10, <1>12, <1>13, <1>14, <1>15, <1>16
     DEF Knows, ClientKnows, ProxyKnows

(* GET_DOC and GET_USER_PUBKEY carry nothing to be good about.             *)
LEMMA PlainRequests ==
    ASSUME NEW g
    PROVE  /\ \A u \in Registered, d \in Draw, n \in Draw :
                 LET r == GET_DOC(u, d, n)
                 IN  r \in SharingRequests /\ r.type = "GET_DOC" /\ r.username = u
                     /\ r.doc_id = d /\ GoodRequest(g, r) /\ GoodRequest(g, r)'
           /\ \A u \in User :
                 LET r == GET_USER_PUBKEY(u)
                 IN  r \in SharingRequests /\ r.type = "GET_USER_PUBKEY"
                     /\ GoodRequest(g, r) /\ GoodRequest(g, r)'
<1>1. ASSUME NEW u \in Registered, NEW d \in Draw, NEW n \in Draw
      PROVE  /\ GET_DOC(u, d, n) \in SharingRequests
             /\ GET_DOC(u, d, n).type = "GET_DOC" /\ GET_DOC(u, d, n).username = u
             /\ GET_DOC(u, d, n).doc_id = d
  <2>1. GET_DOC(u, d, n) \in SharingRequests
    BY DEF SharingRequests
  <2> QED
    BY <2>1 DEF GET_DOC
<1>2. ASSUME NEW u \in User
      PROVE  /\ GET_USER_PUBKEY(u) \in SharingRequests
             /\ GET_USER_PUBKEY(u).type = "GET_USER_PUBKEY"
  <2>1. GET_USER_PUBKEY(u) \in SharingRequests
    BY DEF SharingRequests
  <2> QED
    BY <2>1 DEF GET_USER_PUBKEY
<1> QED
  BY <1>1, <1>2 DEF GoodRequest

LEMMA UploadFits ==
    ASSUME NEW g, NEW u \in Registered, NEW n \in Draw, n \in Past', g[n] = u,
           NEW r, r = UPLOAD(u, n)
    PROVE  r \in SharingRequests /\ r.type = "UPLOAD" /\ GoodRequest(g, r)'
<1>1. r \in SharingRequests
  BY DEF SharingRequests
<1>2. r.type = "UPLOAD" /\ r.username = u /\ r.document.doc_id = n
  BY DEF UPLOAD, pack_document
<1> QED
  BY <1>1, <1>2 DEF GoodRequest

LEMMA NewJobType ==
    ASSUME SharingTypeOK, draws < MaxDraws, NEW d \in Draw, NEW v \in Registered
    PROVE  /\ draws \in Draw /\ NewJob(d, v) \in Job
           /\ NewJob(d, v).n = draws /\ NewJob(d, v).doc_id = d /\ NewJob(d, v).recipient = v
  BY SharingAssumption DEF SharingTypeOK, NewJob, Job, Draw

LEMMA UploadOpKnows ==
    ASSUME RowsGrow, NEW g \in Beginners, Knows(g), NEW u \in Registered, upload_op(u)
    PROVE  \E h \in Beginners : Knows(h)'
<1>1. SharingTypeOK /\ draws < MaxDraws /\ Begin(u, "upload", NewJob(draws, u), UPLOAD(u, draws))
  BY DEF Knows, ClientKnows, upload_op, Begin
<1>2. PICK n \in Draw : n = draws
  BY <1>1, SharingAssumption DEF SharingTypeOK, Draw
<1>3. PICK j \in Job : j = NewJob(draws, u) /\ j.n = n /\ j.doc_id = n /\ j.recipient = u
  BY <1>1, <1>2, NewJobType
<1>4. PICK r \in SharingRequests : r = UPLOAD(u, n)
  BY DEF SharingRequests
<1>5. PICK h : h = [g EXCEPT ![draws] = u]
  OBVIOUS
<1>6. Begin(u, "upload", j, r) /\ Call(u, "upload", j, r) /\ "upload" \in CpcLabels \ {"idle"}
  BY <1>1, <1>2, <1>3, <1>4 DEF Begin, CpcLabels
<1>7. h \in Beginners /\ n \in Past' /\ h[n] = u /\ (StepKnows(h, u)' => Knows(h)')
  BY <1>2, <1>5, <1>6, BeginKnows
<1>8. cpc'[u] = "upload" /\ job'[u] = j /\ out'[u] = r
  BY <1>1, <1>6, CallEffect
<1>9. GoodRequest(h, r)' /\ r.type = "UPLOAD"
  BY <1>4, <1>7, UploadFits
<1>10. GoodRequest(h, out[u])'
  BY <1>8, <1>9 DEF GoodRequest
<1>11. StepKnows(h, u)'
  BY <1>3, <1>7, <1>8, <1>9, <1>10 DEF StepKnows, Lookups
<1> QED
  BY <1>7, <1>11

LEMMA DownloadOpKnows ==
    ASSUME RowsGrow, NEW g \in Beginners, Knows(g), NEW u \in Registered, NEW d \in Draw,
           download_op(u, d)
    PROVE  \E h \in Beginners : Knows(h)'
<1>1. SharingTypeOK /\ draws < MaxDraws /\ Begin(u, "fetch", NewJob(d, u), GET_DOC(u, d, draws))
  BY DEF Knows, ClientKnows, download_op, Begin
<1>2. PICK n \in Draw : n = draws
  BY <1>1, NewJobType
<1>3. PICK j \in Job : j = NewJob(d, u) /\ j.n = n /\ j.doc_id = d
  BY <1>1, <1>2, NewJobType
<1>4. PICK r \in SharingRequests : r = GET_DOC(u, d, n)
  BY PlainRequests
<1>5. PICK h : h = [g EXCEPT ![draws] = u]
  OBVIOUS
<1>6. Begin(u, "fetch", j, r) /\ Call(u, "fetch", j, r) /\ "fetch" \in CpcLabels \ {"idle"}
  BY <1>1, <1>2, <1>3, <1>4 DEF Begin, CpcLabels
<1>7. h \in Beginners /\ n \in Past' /\ h[n] = u /\ (StepKnows(h, u)' => Knows(h)')
  BY <1>2, <1>5, <1>6, BeginKnows
<1>8. cpc'[u] = "fetch" /\ job'[u] = j /\ out'[u] = r
  BY <1>1, <1>6, CallEffect
<1>9. GoodRequest(h, r)'
  BY <1>4, PlainRequests DEF GoodRequest
<1>10. GoodRequest(h, out[u])'
  BY <1>8, <1>9 DEF GoodRequest
<1>11. StepKnows(h, u)'
  BY <1>3, <1>4, <1>7, <1>8, <1>10 DEF StepKnows, Lookups
<1> QED
  BY <1>7, <1>11

LEMMA ShareOpKnows ==
    ASSUME RowsGrow, NEW g \in Beginners, Knows(g), NEW u \in Registered, NEW d \in Draw,
           NEW v \in Registered, share_op(u, d, v)
    PROVE  \E h \in Beginners : Knows(h)'
<1>1. /\ SharingTypeOK /\ draws < MaxDraws
      /\ IF v = u
         THEN Begin(u, "share_fetch", [NewJob(d, v) EXCEPT !.dh_pub = dh_key(u)], GET_DOC(u, d, draws))
         ELSE Begin(u, "share_pubkey", NewJob(d, v), GET_USER_PUBKEY(v))
  BY DEF Knows, ClientKnows, share_op, Begin
<1>2. PICK n \in Draw : n = draws
  BY <1>1, NewJobType
<1>3. dh_key(u) \in SharingKeys /\ u \in Party /\ v \in User
  BY SharingAssumption DEF SharingKeys, Party
<1>4. PICK i \in Job : i = NewJob(d, v) /\ i.n = n /\ i.doc_id = d /\ i.recipient = v
  BY <1>1, <1>2, NewJobType
<1>5. PICK h : h = [g EXCEPT ![draws] = u]
  OBVIOUS
<1>6. CASE v = u
  <2>1. PICK j \in Job : /\ j = [i EXCEPT !.dh_pub = dh_key(u)] /\ j.n = n /\ j.doc_id = d
                         /\ j.recipient = u /\ j.dh_pub = dh_key(u)
    <3> DEFINE j == [i EXCEPT !.dh_pub = dh_key(u)]
    <3>1. j \in Job /\ j.n = n /\ j.doc_id = d /\ j.recipient = u /\ j.dh_pub = dh_key(u)
      BY <1>3, <1>4, <1>6 DEF Job
    <3> QED
      BY <3>1
  <2>2. PICK r \in SharingRequests : r = GET_DOC(u, d, n)
    BY PlainRequests
  <2>3. /\ Begin(u, "share_fetch", j, r) /\ Call(u, "share_fetch", j, r)
        /\ "share_fetch" \in CpcLabels \ {"idle"}
    BY <1>1, <1>2, <1>4, <1>6, <2>1, <2>2 DEF Begin, CpcLabels
  <2>4. h \in Beginners /\ n \in Past' /\ h[n] = u /\ (StepKnows(h, u)' => Knows(h)')
    BY <1>2, <1>5, <2>3, BeginKnows
  <2>5. cpc'[u] = "share_fetch" /\ job'[u] = j /\ out'[u] = r
    BY <1>1, <2>3, CallEffect
  <2>6. GoodRequest(h, r)'
    BY <2>2, PlainRequests DEF GoodRequest
  <2>7. GoodRequest(h, out[u])'
    BY <2>5, <2>6 DEF GoodRequest
  <2>8. KeyKnown(u)'
    BY <1>3, <2>1, <2>5 DEF KeyKnown
  <2>9. StepKnows(h, u)'
    BY <2>1, <2>2, <2>4, <2>5, <2>7, <2>8 DEF StepKnows, Lookups
  <2> QED
    BY <2>4, <2>9
<1>7. CASE v # u
  <2>1. PICK r \in SharingRequests : r = GET_USER_PUBKEY(v) /\ r.type = "GET_USER_PUBKEY"
    BY <1>3, PlainRequests
  <2>2. /\ Begin(u, "share_pubkey", i, r) /\ Call(u, "share_pubkey", i, r)
        /\ "share_pubkey" \in CpcLabels \ {"idle"}
    BY <1>1, <1>4, <1>7, <2>1 DEF Begin, CpcLabels, Lookups
  <2>3. h \in Beginners /\ n \in Past' /\ h[n] = u /\ (StepKnows(h, u)' => Knows(h)')
    BY <1>2, <1>5, <2>2, BeginKnows
  <2>4. cpc'[u] = "share_pubkey" /\ job'[u] = i /\ out'[u] = r
    BY <1>1, <2>2, CallEffect
  <2>5. GoodRequest(h, r)'
    BY <1>3, <2>1, PlainRequests DEF GoodRequest
  <2>6. GoodRequest(h, out[u])'
    BY <2>4, <2>5 DEF GoodRequest
  <2>7. StepKnows(h, u)'
    BY <1>4, <1>7, <2>1, <2>3, <2>4, <2>6 DEF StepKnows, Lookups
  <2> QED
    BY <2>3, <2>7
<1> QED
  BY <1>6, <1>7

-----------------------------------------------------------------------------
(* A request goes out, the captured one in its place when it is replayed.  *)
LEMMA SendKnows ==
    ASSUME ServerInv, RowsGrow, NEW g, Knows(g), NEW u \in Registered, NEW t \in Thread, Send(u, t)
    PROVE  Knows(g)'
<1>1. PICK r : /\ r = IF mode = "replay" /\ captured # NoRequest THEN captured ELSE out[u]
               /\ Deliver(t, r) /\ captured' = IF mode = "replay" THEN r ELSE NoRequest
  BY DEF Send
<1>2. /\ out[u] # NoRequest /\ conn[u] = NoConn /\ conn' = [conn EXCEPT ![u] = t]
      /\ UNCHANGED <<trust, cpc, job, out, draws, cutoffs, mode, abandoned, saved, confirmed, crossed>>
  BY DEF Send
<1>3. /\ SharingTypeOK /\ Linked /\ Spent /\ StepKnows(g, u)
      /\ captured # NoRequest => mode = "replay" /\ GoodRequest(g, captured)
  BY DEF Knows, ClientKnows, ProxyKnows
<1>4. cpc[u] # "idle" /\ GoodRequest(g, out[u]) /\ (out[u].type = "GET_DOC" => out[u].username = u)
  <2>1. cpc[u] # "idle" /\ GoodRequest(g, out[u]) /\ cpc[u] \in CpcLabels
    BY <1>2, <1>3 DEF StepKnows, SharingTypeOK
  <2>2. ASSUME out[u].type = "GET_DOC" PROVE out[u] = GET_DOC(u, job[u].doc_id, job[u].n)
    BY <1>3, <2>1, <2>2 DEF StepKnows, CpcLabels, Lookups
  <2> QED
    BY <2>1, <2>2 DEF GET_DOC
<1>5. GoodRequest(g, r) /\ r \in SharingRequests /\ r # NoRequest
  BY <1>1, <1>3, <1>4, RequestParts DEF GoodRequest
<1>6. Moves(g, g)
  BY <1>2, MovesNothing
<1>7. /\ pc[t] = "idle" /\ pc'[t] = "dispatch" /\ req'[t] = r
      /\ \A c \in Thread \ {t} : Kept4(c)
      /\ pc \in [Thread -> Labels] /\ DOMAIN req = Thread /\ usedNonces' = usedNonces
  BY <1>1 DEF Deliver, Accept, At, Kept4, ServerInv, TInv, ThreadInv, ThreadTypeOK, sessionVars
<1>8. ServerKnows(g)'
  BY <1>1, <1>5, <1>6, <1>7, DeliverServerKnows DEF Knows
<1>9. Began(g)' /\ SharingTypeOK'
  BY <1>1, <1>2, <1>5 DEF Knows, Began, ClientKnows, SharingTypeOK, Past
<1>10. conn'[u] = t /\ \A v \in Registered \ {u} : conn'[v] = conn[v]
  BY <1>2, <1>3 DEF SharingTypeOK
<1>11. ASSUME NEW v \in Registered PROVE StepKnows(g, v)'
  BY <1>2, <1>4, <1>6, <1>10, <1>11, StepStays DEF Knows, ClientKnows
<1>12. Promises'
  BY <1>2, PromisesStay DEF Knows, ClientKnows
<1>13. captured' # NoRequest => mode' = "replay" /\ GoodRequest(g, captured)'
  <2>1. GoodRequest(g, r)'
    BY <1>5, <1>6, RequestStays
  <2> QED
    BY <1>1, <1>2, <2>1 DEF GoodRequest
<1>14. ASSUME NEW v \in Registered, v # u, conn[v] # NoConn
       PROVE  /\ conn[v] \in Thread \ {t} /\ pc'[conn[v]] # "idle" /\ Kept4(conn[v])
              /\ req'[conn[v]] = IF mode = "replay" THEN captured' ELSE out[v]
  <2>1. /\ conn[v] \in Thread /\ pc[conn[v]] # "idle"
        /\ req[conn[v]] = IF mode = "replay" THEN captured ELSE out[v]
    BY <1>3, <1>14 DEF Linked
  <2>2. conn[v] # t /\ Kept4(conn[v])
    BY <1>7, <2>1
  <2>3. req[conn[v]] # NoRequest
    BY <2>1, RequestParts DEF Knows, ServerKnows, ThreadKnows, GoodRequest
  <2> QED
    BY <1>1, <2>1, <2>2, <2>3 DEF Kept4
<1>15. Linked'
  BY <1>1, <1>2, <1>3, <1>7, <1>10, <1>14 DEF Linked
<1>16. Spent'
  <2> SUFFICES ASSUME captured' # NoRequest, captured'.type = "GET_DOC", ~abandoned,
                      out[captured'.username] # captured'
               PROVE  /\ captured'.nonce \in usedNonces
                      /\ conn'[captured'.username] # NoConn => Refused(conn[captured.username])'
    BY <1>2, <1>7 DEF Spent
  <2>1. captured' = r /\ captured = r /\ mode = "replay"
    BY <1>1, <1>3, <1>4
  <2>2. PICK v \in Registered : v = r.username
    BY <1>5, <2>1, RequestParts
  <2>3. r.nonce \in usedNonces /\ (conn[v] # NoConn => Refused(conn[v]))
    BY <1>3, <2>1, <2>2 DEF Spent
  <2>4. PICK c : c = conn'[v]
    OBVIOUS
  <2>5. c # NoConn => Refused(c)'
    <3>1. CASE v = u
      BY <1>7, <1>10, <2>4, <3>1 DEF Refused
    <3>2. CASE v # u
      <4>1. c = conn[v] /\ (c # NoConn => Kept4(c))
        BY <1>10, <1>14, <2>4, <3>2
      <4> QED
        BY <2>3, <4>1 DEF Refused, Kept4
    <3> QED
      BY <3>1, <3>2
  <2> QED
    BY <2>1, <2>2, <2>3, <2>4, <2>5 DEF Refused
<1> QED
  BY <1>8, <1>9, <1>11, <1>12, <1>13, <1>15, <1>16 DEF Knows, ClientKnows, ProxyKnows

(* An operation is cut off.                                                *)
LEMMA FinishKnows ==
    ASSUME SharingTypeOK, NEW u \in Registered, Finish(u), NEW g
    PROVE  RpcTypeOK' /\ StepKnows(g, u)'
<1>1. Call(u, "idle", NoJob, NoRequest)
  BY DEF Finish
<1>2. cpc'[u] = "idle" /\ out'[u] = NoRequest /\ conn'[u] = NoConn
  BY <1>1, CallEffect
<1>3. RpcTypeOK'
  BY <1>1, CallTypes DEF CpcLabels
<1> QED
  BY <1>2, <1>3 DEF StepKnows, Lookups

LEMMA CutOffKnows ==
    ASSUME RowsGrow, NEW g, Knows(g), NEW u \in Registered, CutOff(u)
    PROVE  Knows(g)'
<1>1. /\ UNCHANGED <<vars, trust, draws, mode, captured, saved, confirmed, crossed>>
      /\ cutoffs < MaxCutOffs /\ cutoffs' = cutoffs + 1 /\ Finish(u)
      /\ abandoned' = (abandoned \/ out[u] = captured)
  BY DEF CutOff
<1>2. UNCHANGED <<pc, req, reply, usedNonces>>
  BY <1>1 DEF vars, threadVars, sessionVars
<1>3. /\ SharingTypeOK /\ Linked /\ Spent /\ MaxCutOffs \in Nat
      /\ captured # NoRequest => mode = "replay" /\ GoodRequest(g, captured)
  BY SharingAssumption DEF Knows, ClientKnows, ProxyKnows
<1>4. Moves(g, g)
  BY <1>1, MovesNothing
<1>5. ServerKnows(g)'
  BY <1>1, <1>4, QuietServerKnows DEF Knows
<1>6. RpcTypeOK' /\ StepKnows(g, u)'
  BY <1>1, <1>3, FinishKnows
<1>7. Began(g)' /\ SharingTypeOK'
  BY <1>1, <1>3, <1>6 DEF Knows, Began, SharingTypeOK, RpcTypeOK, Past
<1>8. /\ out'[u] = NoRequest /\ conn'[u] = NoConn
      /\ \A v \in Registered \ {u} :
            cpc'[v] = cpc[v] /\ job'[v] = job[v] /\ out'[v] = out[v] /\ conn'[v] = conn[v]
  BY <1>1, <1>3, CallEffect DEF Finish
<1>9. ASSUME NEW v \in Registered PROVE StepKnows(g, v)'
  BY <1>4, <1>6, <1>8, <1>9, StepStays DEF Knows, ClientKnows
<1>10. Promises'
  BY <1>1, PromisesStay DEF Knows, ClientKnows
<1>11. captured # NoRequest => mode = "replay" /\ GoodRequest(g, captured)'
  BY <1>1, <1>3, <1>4, CapturedStays
<1>12. Linked'
  BY <1>1, <1>2, <1>3, <1>8 DEF Linked
<1>13. Spent'
  <2> SUFFICES ASSUME captured # NoRequest, captured.type = "GET_DOC", ~abandoned, out[u] # captured,
                      out'[captured.username] # captured
               PROVE  /\ captured.nonce \in usedNonces
                      /\ conn'[captured.username] # NoConn => Refused(conn[captured.username])'
    BY <1>1, <1>2 DEF Spent
  <2>1. PICK v \in Registered : v = captured.username
    BY <1>3, RequestParts DEF GoodRequest
  <2>2. out[v] # captured /\ (conn'[v] # NoConn => conn'[v] = conn[v])
    BY <1>8, <2>1
  <2>3. captured.nonce \in usedNonces /\ (conn[v] # NoConn => Refused(conn[v]))
    BY <1>3, <2>1, <2>2 DEF Spent
  <2> QED
    BY <1>1, <1>2, <2>1, <2>2, <2>3 DEF Refused
<1> QED
  BY <1>1, <1>5, <1>7, <1>9, <1>10, <1>11, <1>12, <1>13 DEF Knows, ClientKnows, ProxyKnows

LEMMA StartProxyKnows ==
    ASSUME RowsGrow, NEW g, Knows(g), NEW m \in Modes, start_proxy(m)
    PROVE  Knows(g)'
<1>1. /\ UNCHANGED <<vars, trust, cpc, job, out, conn, draws, cutoffs, saved, confirmed, crossed>>
      /\ \A u \in Registered : conn[u] = NoConn
      /\ mode' = m /\ captured' = NoRequest /\ abandoned' = FALSE
  BY DEF start_proxy, rpcVars
<1>2. Moves(g, g)
  BY <1>1, MovesNothing
<1>3. ServerKnows(g)'
  BY <1>1, <1>2, QuietServerKnows DEF Knows
<1>4. Began(g)' /\ SharingTypeOK'
  BY <1>1 DEF Knows, Began, ClientKnows, SharingTypeOK, Past
<1>5. ASSUME NEW u \in Registered PROVE StepKnows(g, u)'
  BY <1>1, <1>2, <1>5, StepStays DEF Knows, ClientKnows
<1>6. Promises'
  BY <1>1, PromisesStay DEF Knows, ClientKnows
<1>7. Linked' /\ Spent'
  BY <1>1 DEF Linked, Spent
<1> QED
  BY <1>1, <1>3, <1>4, <1>5, <1>6, <1>7 DEF Knows, ClientKnows, ProxyKnows

-----------------------------------------------------------------------------
(* What the answer of a server can be worth after the proxy has had it.    *)
LEMMA Attacked ==
    ASSUME NEW u, NEW x \in Reply, NEW y, y = attack_response(u, x)
    PROVE  /\ y.type = x.type
           /\ x.type = "DOC" =>
                 x.document \in DocBlob /\ y.share = x.share /\ TamperedWith(y.document, x.document)
           /\ x.type = "USER_PUBKEY" =>
                 \/ y = x
                 \/ y.sig_pub = sig_key(<<job[u].n, cpc[u]>>) /\ y.dh_pub = dh_key(<<job[u].n, cpc[u]>>)
<1>1. CASE x.type = "DOC"
  <2>1. x \in [type : {"DOC"}, document : DocBlob, share : ShareBlob \cup {NoRow}]
    BY <1>1 DEF Reply
  <2>2. CASE mode = "flip_ciphertext"
    <3>1. y = [x EXCEPT !.document = [x.document EXCEPT !.body = flip(@)]]
      BY <1>1, <2>1, <2>2 DEF attack_response
    <3> QED
      BY <1>1, <2>1, <3>1 DEF TamperedWith
  <2>3. CASE mode = "flip_metadata"
    <3>1. y = [x EXCEPT !.document = [x.document EXCEPT !.owner = Tampered]]
      BY <1>1, <2>1, <2>3 DEF attack_response
    <3> QED
      BY <1>1, <2>1, <3>1 DEF TamperedWith
  <2>4. CASE mode \notin {"flip_ciphertext", "flip_metadata"}
    BY <1>1, <2>1, <2>4 DEF attack_response, TamperedWith
  <2> QED
    BY <2>2, <2>3, <2>4
<1>2. CASE x.type = "USER_PUBKEY"
  <2>1. x \in [type : {"USER_PUBKEY"}, sig_pub : Key, dh_pub : Key]
    BY <1>2 DEF Reply
  <2> QED
    BY <1>2, <2>1 DEF attack_response
<1>3. CASE x.type \notin {"DOC", "USER_PUBKEY"}
  BY <1>3 DEF attack_response
<1> QED
  BY <1>1, <1>2, <1>3

(* A document as uploaded, and what the proxy can make of it.              *)
LEMMA DocParts ==
    ASSUME NEW g, NEW d \in Draw, g[d] \in Registered
    PROVE  /\ DocOf(g, d) \in DocBlob /\ DocOf(g, d).doc_id = d /\ DocOf(g, d).owner = g[d]
           /\ DocOf(g, d).version = 1
           /\ DocOf(g, d).body = [ct |-> <<FK(d), pack_payload(g[d], d)>>,
                                  tag |-> <<FK(d), <<FK(d), pack_payload(g[d], d)>>, <<d, g[d], 1>>>>]
<1>1. DocOf(g, d).body \in SharingBody
  BY DEF SharingBody, DocOf, pack_document
<1> QED
  BY <1>1, SharingRequestsAssumption, SharingAssumption
     DEF DocOf, pack_document, DocBlob, gcm_encrypt

LEMMA TamperedParts ==
    ASSUME NEW g, NEW d \in Draw, g[d] \in Registered, NEW x, TamperedWith(x, DocOf(g, d))
    PROVE  /\ x \in DocBlob
           /\ \A e \in Draw : g[e] \in Registered /\ doc_hash(x) = doc_hash(DocOf(g, e)) =>
                 e = d /\ (x = DocOf(g, d) \/ x.owner = Tampered)
           /\ \A k : gcm_opens(k, x.body, header_aad(x)) => x = DocOf(g, d)
<1> DEFINE doc == DocOf(g, d)
           ct == <<FK(d), pack_payload(g[d], d)>>
           flipped == [doc EXCEPT !.body = flip(@)]
           renamed == [doc EXCEPT !.owner = Tampered]
<1>1. /\ doc \in DocBlob /\ doc.doc_id = d /\ doc.owner = g[d] /\ doc.version = 1
      /\ doc.body = [ct |-> ct, tag |-> <<FK(d), ct, <<d, g[d], 1>>>>]
  BY DocParts
<1>2. ASSUME NEW e \in Draw, g[e] \in Registered
      PROVE  doc_hash(DocOf(g, e)) = <<FK(e), pack_payload(g[e], e)>>
  <2>1. DocOf(g, e).body = [ct |-> <<FK(e), pack_payload(g[e], e)>>,
                            tag |-> <<FK(e), <<FK(e), pack_payload(g[e], e)>>, <<e, g[e], 1>>>>]
    BY <1>2, DocParts
  <2> QED
    BY <2>1 DEF doc_hash
<1>3. flip(doc.body) \in Body
  <2>1. doc.body = pack_document(g[d], d).body
    BY DEF DocOf
  <2> QED
    BY <2>1, SharingRequestsAssumption DEF SharingBody
<1>4. CASE x = flipped
  <2>1. x \in DocBlob
    BY <1>1, <1>3, <1>4 DEF DocBlob
  <2>2. /\ x.body = flip(doc.body)
        /\ flip(doc.body) = [ct |-> <<<<"flipped", FK(d)>>, pack_payload(g[d], d)>>,
                             tag |-> <<FK(d), ct, <<d, g[d], 1>>>>]
    BY <1>1, <1>4 DEF flip, DocBlob
  <2>3. ASSUME NEW e PROVE FK(e) # <<"flipped", FK(d)>>
    BY DEF FK
  <2>4. doc_hash(x) = <<<<"flipped", FK(d)>>, pack_payload(g[d], d)>>
    BY <2>2 DEF doc_hash
  <2>5. ASSUME NEW k PROVE ~gcm_opens(k, x.body, header_aad(x))
    BY <2>2, <2>3 DEF gcm_opens
  <2> QED
    BY <1>2, <2>1, <2>3, <2>4, <2>5
<1>5. CASE x = renamed
  <2>1. x \in DocBlob /\ x.owner = Tampered /\ x.body = doc.body /\ x.doc_id = d /\ x.version = 1
    BY <1>1, <1>5, SharingAssumption DEF DocBlob
  <2>2. doc_hash(x) = ct
    BY <1>1, <2>1 DEF doc_hash
  <2>3. ASSUME NEW k PROVE ~gcm_opens(k, x.body, header_aad(x))
    BY <1>1, <2>1, SharingAssumption DEF gcm_opens, header_aad
  <2>4. ASSUME NEW e, FK(e) = FK(d) PROVE e = d
    BY <2>4 DEF FK
  <2> QED
    BY <1>2, <2>1, <2>2, <2>3, <2>4
<1>6. CASE x = doc
  <2>1. ASSUME NEW e, FK(e) = FK(d) PROVE e = d
    BY <2>1 DEF FK
  <2>2. doc_hash(x) = ct
    BY <1>1, <1>6 DEF doc_hash
  <2> QED
    BY <1>1, <1>2, <1>6, <2>1, <2>2
<1> QED
  BY <1>4, <1>5, <1>6 DEF TamperedWith

(* An answer that reaches a client: a document is the one asked for, or    *)
(* its arrival is recorded, and when it is one's own, the client whose     *)
(* request it answers did not wait for it.                                 *)
DocAnswer(g, u, response) ==
    fetched(response) =>
        \E d \in Past :
            /\ DocumentExists(d) /\ documents[d].blob = DocOf(g, d)
            /\ TamperedWith(response.document, DocOf(g, d))
            /\ GoodShare(g, response.share)
            /\ d = job[u].doc_id \/ \E b \in BOOLEAN : <<job[u].n, b>> \in crossed'
            /\ response.share.recipient = u => d = job[u].doc_id \/ <<job[u].n, TRUE>> \in crossed'

KeyAnswer(u, response) ==
    response.type = "USER_PUBKEY" =>
        \E p \in Party : response.sig_pub = sig_key(p) /\ response.dh_pub = dh_key(p)

OkAnswer(u, response) ==
    response.type = "OK" /\ req[conn[u]] = out[u] => shares[<<job[u].doc_id, job[u].recipient>>] # NoRow

Answered(g, u, response) ==
    /\ cpc[u] \in {"share_fetch", "fetch"} => DocAnswer(g, u, response)
    /\ cpc[u] \in Lookups => KeyAnswer(u, response)
    /\ cpc[u] \in {"self_share", "share"} => OkAnswer(u, response)

LEMMA AnswerKnown ==
    ASSUME ServerInv, NEW g, Knows(g), NEW u \in Registered, conn[u] # NoConn,
           pc[conn[u]] = "respond", NEW y, y = attack_response(u, reply[conn[u]]),
           crossed' = IF reply[conn[u]].type = "DOC" /\ req[conn[u]] # out[u]
                      THEN crossed \cup {<<job[u].n, abandoned>>} ELSE crossed
    PROVE  Answered(g, u, y)
<1>1. PICK t \in Thread : t = conn[u] /\ req[t] = IF mode = "replay" THEN captured ELSE out[u]
  BY DEF Knows, ClientKnows, ProxyKnows, Linked
<1>2. /\ StepKnows(g, u) /\ SharingTypeOK /\ cpc[u] # "idle"
      /\ job[u] \in Job /\ job[u].n \in Past
  BY DEF Knows, ClientKnows, StepKnows
<1>3. /\ GoodRequest(g, req[t]) /\ GoodReply(g, t)
      /\ req[t].type = "GET_DOC" => req[t].nonce \in usedNonces
  BY <1>1 DEF Knows, ServerKnows, ThreadKnows
<1>4. reply[t] \in Reply
  BY DEF ServerInv, TInv, ThreadInv, ThreadTypeOK
<1>5. /\ y.type = reply[t].type
      /\ reply[t].type = "DOC" =>
            y.share = reply[t].share /\ TamperedWith(y.document, reply[t].document)
      /\ reply[t].type = "USER_PUBKEY" =>
            \/ y = reply[t]
            \/ y.sig_pub = sig_key(<<job[u].n, cpc[u]>>) /\ y.dh_pub = dh_key(<<job[u].n, cpc[u]>>)
  BY <1>1, <1>4, Attacked
<1>6. ASSUME cpc[u] \in {"share_fetch", "fetch"}, fetched(y)
      PROVE  DocAnswer(g, u, y)
  <2>1. /\ reply[t].type = "DOC" /\ req[t].type = "GET_DOC" /\ y.share = reply[t].share
        /\ y.share # NoRow
    BY <1>3, <1>5, <1>6 DEF fetched, GoodReply
  <2>2. PICK d \in Draw : d = req[t].doc_id
    BY <1>3, <2>1, RequestParts DEF GoodRequest
  <2>3. /\ d \in Past /\ DocumentExists(d) /\ documents[d].blob = DocOf(g, d)
        /\ reply[t].document = DocOf(g, d)
    BY <1>3, <2>1, <2>2, SharingAssumption DEF GoodReply, Knows, ServerKnows, Tables
  <2>4. GoodShare(g, y.share) /\ y.share.recipient = req[t].username
    BY <1>3, <2>1 DEF GoodReply
  <2>5. out[u] = GET_DOC(u, job[u].doc_id, job[u].n)
    BY <1>2, <1>6 DEF StepKnows
  <2>6. CASE req[t] = out[u]
    <3>1. d = job[u].doc_id
      BY <2>2, <2>5, <2>6 DEF GET_DOC
    <3> QED
      BY <1>5, <2>1, <2>3, <2>4, <3>1 DEF DocAnswer
  <2>7. CASE req[t] # out[u]
    <3>1. <<job[u].n, abandoned>> \in crossed' /\ abandoned \in BOOLEAN
      BY <1>1, <1>2, <2>1, <2>7 DEF SharingTypeOK
    <3>2. mode = "replay" /\ req[t] = captured /\ captured # NoRequest
      BY <1>1, <1>3, <2>7, RequestParts DEF GoodRequest
    <3>3. reply[t] # ERROR
      BY <2>1 DEF ERROR
    <3>4. req[t].username = u => abandoned
      BY <1>1, <2>1, <2>7, <3>2, <3>3 DEF Knows, ClientKnows, ProxyKnows, Spent, Refused
    <3>5. req[t].username = u => <<job[u].n, TRUE>> \in crossed'
      BY <3>1, <3>4
    <3> QED
      BY <1>5, <2>1, <2>3, <2>4, <3>1, <3>5 DEF DocAnswer
  <2> QED
    BY <2>6, <2>7
<1>7. ASSUME cpc[u] \in Lookups, y.type = "USER_PUBKEY"
      PROVE  \E p \in Party : y.sig_pub = sig_key(p) /\ y.dh_pub = dh_key(p)
  <2>1. <<job[u].n, cpc[u]>> \in Party /\ Registered \subseteq Party
    BY <1>2, <1>7 DEF Party, Past
  <2>2. \E p \in Registered : reply[t].sig_pub = sig_key(p) /\ reply[t].dh_pub = dh_key(p)
    BY <1>3, <1>5, <1>7 DEF GoodReply
  <2> QED
    BY <1>5, <1>7, <2>1, <2>2
<1>8. ASSUME cpc[u] \in {"self_share", "share"}, y.type = "OK", req[t] = out[u]
      PROVE  shares[<<job[u].doc_id, job[u].recipient>>] # NoRow
  BY <1>2, <1>3, <1>5, <1>8 DEF GoodReply, StepKnows
<1> QED
  BY <1>1, <1>6, <1>7, <1>8 DEF Answered, DocAnswer, KeyAnswer, OkAnswer

-----------------------------------------------------------------------------
(* What a client does with an answer.                                      *)
Receives(g, u, response) ==
    /\ ServerInv /\ Knows(g) /\ Answered(g, u, response)
    /\ UNCHANGED <<documents, draws>> /\ crossed \subseteq crossed'

OthersWait(u) ==
    \A v \in Registered \ {u} :
        cpc'[v] = cpc[v] /\ job'[v] = job[v] /\ out'[v] = out[v] /\ conn'[v] = conn[v]

GoesOn(g, u) == RpcTypeOK' /\ conn'[u] = NoConn /\ OthersWait(u) /\ StepKnows(g, u)'

Saves(u) ==
    \A s \in saved' \ saved :
        /\ s \in [n : Draw, user : Registered, doc_id : Draw, owner : User, content : Draw]
        /\ DocumentExists(s.content) /\ s.owner = documents[s.content].owner
        /\ s.doc_id = s.content \/ <<s.n, TRUE>> \in crossed'

Confirms == \A k \in confirmed' \ confirmed : k \in Draw \X Registered /\ shares[k] # NoRow

Pins == trust' \in [Registered -> [User -> Bundle \cup {NoEntry}]] /\ TrustKept

Outcome(g, u) == GoesOn(g, u) /\ Saves(u) /\ Confirms /\ Pins

LEMMA FinishGoesOn ==
    ASSUME SharingTypeOK, NEW g, NEW u \in Registered, Finish(u)
    PROVE  GoesOn(g, u)
<1>1. RpcTypeOK' /\ StepKnows(g, u)'
  BY FinishKnows
<1> QED
  BY <1>1, CallEffect DEF Finish, GoesOn, OthersWait

LEMMA NothingPinned ==
    ASSUME SharingTypeOK, trust' = trust
    PROVE  Pins
  BY DEF SharingTypeOK, Pins, TrustKept

(* A share made of what the operation knows.                               *)
Fits(g, u, v, p, d, e, n) ==
    /\ u \in Registered /\ v \in Registered /\ p \in Party
    /\ d \in Draw /\ e \in Draw /\ n \in Draw
    /\ n \in Past' /\ e \in Past' /\ g[n] = u /\ g[e] \in Registered
    /\ IF v = u THEN p = v ELSE trust'[u][v] # NoEntry /\ trust'[u][v].dh_pub = dh_key(p)
    /\ e = d \/ \E b \in BOOLEAN : <<n, b>> \in crossed'

LEMMA ShareFits ==
    ASSUME NEW g, NEW u, NEW v, NEW p, NEW d, NEW e, NEW n, Fits(g, u, v, p, d, e, n),
           NEW s, s = pack_share(u, v, dh_key(p), d, doc_hash(DocOf(g, e)), FK(e), n),
           NEW r, r = SHARE(u, v, d, n, s)
    PROVE  /\ r \in SharingRequests /\ r.type = "SHARE" /\ r.doc_id = d /\ r.recipient = v
           /\ GoodRequest(g, r)'
<1> USE DEF Fits
<1>1. s.body.eph_pub = n /\ s.recipient = v /\ s.doc_id = d /\ s.sender = u
  BY DEF pack_share
<1>2. s \in SharingShares
  BY DEF SharingShares, DocOf
<1>3. r.type = "SHARE" /\ r.doc_id = d /\ r.recipient = v /\ r.share_blob = s
  BY DEF SHARE
<1>4. r \in SharingRequests
  BY <1>1, <1>2 DEF SharingRequests
<1>5. GoodShare(g, s)'
  BY <1>1 DEF GoodShare, DocOf
<1> QED
  BY <1>3, <1>4, <1>5 DEF GoodRequest

LEMMA UploadReplyKnows ==
    ASSUME NEW g, NEW u \in Registered, NEW y, Receives(g, u, y), upload_reply(u, y)
    PROVE  Outcome(g, u)
<1>1. /\ SharingTypeOK /\ StepKnows(g, u) /\ UNCHANGED <<trust, saved, confirmed>>
      /\ cpc[u] = "upload" /\ Past' = Past
  BY DEF Receives, Knows, ClientKnows, upload_reply, Past
<1>2. Saves(u) /\ Confirms /\ Pins
  BY <1>1, NothingPinned DEF Saves, Confirms
<1>3. CASE Finish(u)
  BY <1>1, <1>2, <1>3, FinishGoesOn DEF Outcome
<1>4. CASE ~Finish(u)
  <2>1. PICK j \in Job : j = job[u] /\ j.n \in Past /\ g[j.n] = u /\ j.doc_id = j.n /\ j.recipient = u
    BY <1>1 DEF StepKnows
  <2>2. PICK n \in Draw : n = j.n
    BY <2>1 DEF Past
  <2>3. PICK s : s = pack_share(u, u, dh_key(u), n, doc_hash(DocOf(g, n)), FK(n), n)
    OBVIOUS
  <2>4. PICK r : r = SHARE(u, u, n, n, s)
    OBVIOUS
  <2>5. Call(u, "self_share", j, r)
    BY <1>4, <2>1, <2>2, <2>3, <2>4 DEF upload_reply, DocOf
  <2>6. /\ r \in SharingRequests /\ r.type = "SHARE" /\ r.doc_id = n /\ r.recipient = u
        /\ GoodRequest(g, r)'
    <3>1. Fits(g, u, u, u, n, n, n)
      BY <1>1, <2>1, <2>2 DEF Fits, Party
    <3> QED
      BY <2>3, <2>4, <3>1, ShareFits
  <2>7. /\ cpc'[u] = "self_share" /\ job'[u] = j /\ out'[u] = r /\ conn'[u] = NoConn /\ OthersWait(u)
        /\ RpcTypeOK'
    BY <1>1, <2>5, <2>6, CallEffect, CallTypes DEF OthersWait, CpcLabels
  <2>8. GoodRequest(g, out[u])'
    BY <2>6, <2>7 DEF GoodRequest
  <2>9. StepKnows(g, u)'
    BY <1>1, <2>1, <2>2, <2>6, <2>7, <2>8 DEF StepKnows, Lookups
  <2> QED
    BY <1>2, <2>7, <2>9 DEF Outcome, GoesOn
<1> QED
  BY <1>3, <1>4

LEMMA ShareReplyKnows ==
    ASSUME NEW g, NEW u \in Registered, NEW y, Receives(g, u, y), share_reply(u, y)
    PROVE  Outcome(g, u)
<1>1. /\ SharingTypeOK /\ StepKnows(g, u) /\ UNCHANGED <<trust, saved>> /\ Finish(u)
      /\ cpc[u] \in {"self_share", "share"} /\ job[u] \in Job
      /\ confirmed' = IF y.type = "OK" /\ req[conn[u]] = out[u]
                      THEN confirmed \cup {<<job[u].doc_id, job[u].recipient>>} ELSE confirmed
  BY DEF Receives, Knows, ClientKnows, share_reply, StepKnows
<1>2. Confirms
  BY <1>1 DEF Receives, Answered, OkAnswer, Confirms, Job
<1> QED
  BY <1>1, <1>2, FinishGoesOn, NothingPinned DEF Outcome, Saves

(* share wraps the file key of the document it was given, since the hash   *)
(* in its own share agrees with it.                                        *)
LEMMA ShareFetchReplyKnows ==
    ASSUME NEW g, NEW u \in Registered, NEW y, Receives(g, u, y), share_fetch_reply(u, y)
    PROVE  Outcome(g, u)
<1>1. /\ SharingTypeOK /\ StepKnows(g, u) /\ UNCHANGED <<trust, saved, confirmed>>
      /\ cpc[u] = "share_fetch" /\ Past' = Past /\ DocAnswer(g, u, y) /\ Began(g)
  BY DEF Receives, Knows, ClientKnows, Answered, share_fetch_reply, Past
<1>2. Saves(u) /\ Confirms /\ Pins
  BY <1>1, NothingPinned DEF Saves, Confirms
<1>3. CASE Finish(u)
  BY <1>1, <1>2, <1>3, FinishGoesOn DEF Outcome
<1>4. CASE ~Finish(u)
  <2>1. /\ fetched(y) /\ doc_hash(y.document) = y.share.body.doc_hash
        /\ Call(u, "share", job[u], WrapFor(u, job[u], y))
    BY <1>4 DEF share_fetch_reply
  <2>2. PICK j \in Job : j = job[u] /\ j.n \in Past /\ g[j.n] = u /\ KeyKnown(u)
    BY <1>1 DEF StepKnows
  <2>3. PICK d \in Past : /\ TamperedWith(y.document, DocOf(g, d)) /\ GoodShare(g, y.share)
                          /\ d = j.doc_id \/ \E b \in BOOLEAN : <<j.n, b>> \in crossed'
    BY <1>1, <2>1, <2>2 DEF DocAnswer
  <2>4. PICK e \in Past : y.share.body.doc_hash = doc_hash(DocOf(g, e)) /\ unwrap_fk(y.share) = FK(e)
    <3>1. PICK e \in Past, p \in Party :
             y.share = pack_share(g[y.share.body.eph_pub], y.share.recipient, dh_key(p), y.share.doc_id,
                                  doc_hash(DocOf(g, e)), FK(e), y.share.body.eph_pub)
      BY <2>3 DEF GoodShare
    <3>2. y.share.body.doc_hash = doc_hash(DocOf(g, e)) /\ unwrap_fk(y.share) = FK(e)
      BY <3>1 DEF pack_share, unwrap_fk, plaintext_of, gcm_encrypt
    <3> QED
      BY <3>2
  <2>5. d \in Draw /\ e \in Draw /\ j.n \in Draw /\ g[d] \in Registered /\ g[e] \in Registered
    BY <1>1, <2>2 DEF Past, Began
  <2>6. e = d
    BY <2>1, <2>3, <2>4, <2>5, TamperedParts
  <2>7. PICK p \in Party :
           /\ j.dh_pub = dh_key(p)
           /\ IF j.recipient = u THEN p = u
              ELSE trust[u][j.recipient] # NoEntry /\ trust[u][j.recipient].dh_pub = dh_key(p)
    BY <2>2 DEF KeyKnown
  <2>8. PICK n \in Draw, v \in Registered, c \in Draw : n = j.n /\ v = j.recipient /\ c = j.doc_id
    BY DEF Job
  <2>9. PICK s : s = pack_share(u, v, dh_key(p), c, doc_hash(DocOf(g, d)), FK(d), n)
    OBVIOUS
  <2>10. PICK r : r = SHARE(u, v, c, n, s)
    OBVIOUS
  <2>11. Call(u, "share", j, r)
    BY <2>1, <2>2, <2>4, <2>6, <2>7, <2>8, <2>9, <2>10 DEF WrapFor
  <2>12. /\ r \in SharingRequests /\ r.type = "SHARE" /\ r.doc_id = c /\ r.recipient = v
         /\ GoodRequest(g, r)'
    <3>1. IF v = u THEN p = v ELSE trust'[u][v] # NoEntry /\ trust'[u][v].dh_pub = dh_key(p)
      BY <1>1, <2>7, <2>8
    <3>2. n \in Past' /\ d \in Past' /\ g[n] = u /\ (d = c \/ \E b \in BOOLEAN : <<n, b>> \in crossed')
      BY <1>1, <2>2, <2>3, <2>8
    <3>3. Fits(g, u, v, p, c, d, n)
      BY <2>5, <3>1, <3>2 DEF Fits
    <3> QED
      BY <2>9, <2>10, <3>3, ShareFits
  <2>13. /\ cpc'[u] = "share" /\ job'[u] = j /\ out'[u] = r /\ conn'[u] = NoConn /\ OthersWait(u)
         /\ RpcTypeOK'
    BY <1>1, <2>11, <2>12, CallEffect, CallTypes DEF OthersWait, CpcLabels
  <2>14. GoodRequest(g, out[u])'
    BY <2>12, <2>13 DEF GoodRequest
  <2>15. StepKnows(g, u)'
    BY <1>1, <2>2, <2>8, <2>12, <2>13, <2>14 DEF StepKnows, Lookups
  <2> QED
    BY <1>2, <2>13, <2>15 DEF Outcome, GoesOn
<1> QED
  BY <1>3, <1>4

(* The document of a download, at its last and last but one checks.        *)
Downloads(g, u, j, d) ==
    /\ j \in Job /\ j.n \in Past /\ g[j.n] = u
    /\ d \in Past /\ g[d] \in Registered /\ DocumentExists(d) /\ documents[d].blob = DocOf(g, d)
    /\ d = j.doc_id \/ <<j.n, TRUE>> \in crossed'

LEMMA CheckContentKnows ==
    ASSUME NEW g, NEW u \in Registered, NEW y, Receives(g, u, y), NEW j, NEW d, Downloads(g, u, j, d),
           j.document = DocOf(g, d), NEW k, CheckContent(u, j, k)
    PROVE  GoesOn(g, u) /\ Saves(u)
<1>1. SharingTypeOK /\ ReferentialIntegrity /\ d \in Draw /\ d \in DocId /\ j.n \in Draw /\ j.doc_id \in Draw
  BY SharingAssumption DEF Receives, Knows, ClientKnows, ServerInv, Downloads, Past, Job
<1>2. GoesOn(g, u)
  BY <1>1, FinishGoesOn DEF CheckContent
<1>3. plaintext_of(j.document.body).content = d
  <2>1. j.document.body.ct = <<FK(d), pack_payload(g[d], d)>>
    BY DEF DocOf, pack_document, gcm_encrypt
  <2> QED
    BY <2>1 DEF plaintext_of, pack_payload
<1>4. j.document.owner = documents[d].owner /\ j.document.owner \in User
  <2>1. j.document = documents[d].blob /\ DocumentExists(d)
    BY DEF Downloads
  <2>2. j.document.owner = g[d] /\ g[d] \in User
    BY SharingAssumption DEF Downloads, DocOf, pack_document
  <2> QED
    BY <1>1, <2>1, <2>2 DEF ReferentialIntegrity
<1>5. \A s \in saved' \ saved : s = [n |-> j.n, user |-> u, doc_id |-> j.doc_id,
                                     owner |-> j.document.owner, content |-> d]
  BY <1>3 DEF CheckContent
<1>6. ASSUME NEW s \in saved' \ saved
      PROVE  /\ s \in [n : Draw, user : Registered, doc_id : Draw, owner : User, content : Draw]
             /\ s.content = d /\ s.owner = documents[d].owner /\ s.doc_id = j.doc_id /\ s.n = j.n
  BY <1>1, <1>4, <1>5, <1>6
<1>7. Saves(u)
  BY <1>6 DEF Saves, Downloads
<1> QED
  BY <1>2, <1>7

LEMMA CheckShareKnows ==
    ASSUME NEW g, NEW u \in Registered, NEW y, Receives(g, u, y), NEW j, NEW d, Downloads(g, u, j, d),
           TamperedWith(j.document, DocOf(g, d)), NEW k, CheckShare(u, j, k)
    PROVE  GoesOn(g, u) /\ Saves(u)
<1>1. SharingTypeOK /\ d \in Draw /\ d \in DocId /\ Past' = Past /\ g[d] \in Registered /\ g[d] \in User
  BY SharingAssumption DEF Receives, Knows, ClientKnows, Downloads, Past
<1>2. CASE Finish(u) /\ UNCHANGED saved
  BY <1>1, <1>2, FinishGoesOn DEF Saves
<1>3. CASE ~(Finish(u) /\ UNCHANGED saved)
  <2>1. /\ gcm_opens(unwrap_fk(j.share), j.document.body, header_aad(j.document))
        /\ IF j.document.owner = u THEN CheckContent(u, j, sig_key(u))
           ELSE Call(u, "owner_key", j, GET_USER_PUBKEY(j.document.owner)) /\ UNCHANGED saved
    BY <1>3 DEF CheckShare
  <2>2. j.document = DocOf(g, d) /\ j.document.owner = g[d]
    <3>1. j.document = DocOf(g, d)
      BY <1>1, <2>1, TamperedParts
    <3> QED
      BY <3>1 DEF DocOf, pack_document
  <2>3. CASE CheckContent(u, j, sig_key(u))
    BY <2>2, <2>3, CheckContentKnows
  <2>4. CASE Call(u, "owner_key", j, GET_USER_PUBKEY(g[d])) /\ UNCHANGED saved
    <3>1. PICK r \in SharingRequests : /\ r = GET_USER_PUBKEY(g[d]) /\ r.type = "GET_USER_PUBKEY"
                                       /\ GoodRequest(g, r)'
      BY <1>1, PlainRequests
    <3>2. /\ cpc'[u] = "owner_key" /\ job'[u] = j /\ out'[u] = r /\ conn'[u] = NoConn /\ OthersWait(u)
          /\ RpcTypeOK'
      BY <1>1, <2>4, <3>1, CallEffect, CallTypes DEF OthersWait, CpcLabels, Lookups, Downloads
    <3>3. GoodRequest(g, out[u])'
      BY <3>1, <3>2 DEF GoodRequest
    <3>4. AskedFor(u, d)' /\ job'[u].document = documents'[d].blob
      BY <1>1, <2>2, <3>2 DEF AskedFor, Downloads, Receives, DocumentExists
    <3>5. StepKnows(g, u)'
      BY <1>1, <3>1, <3>2, <3>3, <3>4 DEF StepKnows, Lookups, Downloads
    <3> QED
      BY <2>4, <3>2, <3>5 DEF GoesOn, Saves
  <2> QED
    BY <2>1, <2>2, <2>3, <2>4
<1> QED
  BY <1>2, <1>3

LEMMA DownloadReplyKnows ==
    ASSUME NEW g, NEW u \in Registered, NEW y, Receives(g, u, y), download_reply(u, y)
    PROVE  Outcome(g, u)
<1>1. /\ SharingTypeOK /\ StepKnows(g, u) /\ UNCHANGED <<trust, confirmed>>
      /\ cpc[u] = "fetch" /\ Past' = Past /\ DocAnswer(g, u, y) /\ Began(g)
  BY DEF Receives, Knows, ClientKnows, Answered, download_reply, Past
<1>2. Confirms /\ Pins
  BY <1>1, NothingPinned DEF Confirms
<1>3. CASE Finish(u) /\ UNCHANGED saved
  BY <1>1, <1>2, <1>3, FinishGoesOn DEF Outcome, Saves
<1>4. CASE ~(Finish(u) /\ UNCHANGED saved)
  <2> DEFINE i == [job[u] EXCEPT !.document = y.document, !.share = y.share]
  <2>1. /\ fetched(y) /\ y.share.recipient = u
        /\ IF i.share.sender = u THEN CheckShare(u, i, sig_key(u))
           ELSE Call(u, "sender_key", i, GET_USER_PUBKEY(i.share.sender)) /\ UNCHANGED saved
    BY <1>4 DEF download_reply
  <2>2. PICK d \in Past : /\ DocumentExists(d) /\ documents[d].blob = DocOf(g, d)
                          /\ TamperedWith(y.document, DocOf(g, d)) /\ GoodShare(g, y.share)
                          /\ d = job[u].doc_id \/ <<job[u].n, TRUE>> \in crossed'
    BY <1>1, <2>1 DEF DocAnswer
  <2>3. y.share \in ShareBlob /\ y.share.sender \in User
    <3>1. PICK n \in Past, v \in Registered, c \in Draw, e \in Past, p \in Party :
             y.share = pack_share(g[n], v, dh_key(p), c, doc_hash(DocOf(g, e)), FK(e), n)
      BY <2>2 DEF GoodShare
    <3>2. n \in Draw /\ e \in Draw /\ g[n] \in Registered /\ g[e] \in Registered
      BY <1>1 DEF Past, Began
    <3>3. y.share \in SharingShares
      BY <3>1, <3>2 DEF SharingShares, DocOf
    <3> QED
      BY <3>3, ShareParts, SharingAssumption
  <2>4. d \in Draw /\ g[d] \in Registered /\ y.document \in DocBlob
    BY <1>1, <2>2, TamperedParts DEF Past, Began
  <2>5. job[u] \in Job /\ job[u].n \in Past /\ g[job[u].n] = u
    BY <1>1 DEF StepKnows
  <2>6. PICK j \in Job : /\ j = i /\ j.document = y.document /\ j.share = y.share
                         /\ j.n = job[u].n /\ j.doc_id = job[u].doc_id
    <3>1. i \in Job /\ i.document = y.document /\ i.share = y.share
          /\ i.n = job[u].n /\ i.doc_id = job[u].doc_id
      BY <2>3, <2>4, <2>5 DEF Job
    <3> QED
      BY <3>1
  <2>7. Downloads(g, u, j, d) /\ TamperedWith(j.document, DocOf(g, d))
    BY <2>2, <2>4, <2>5, <2>6 DEF Downloads
  <2>8. CASE CheckShare(u, j, sig_key(u))
    BY <1>2, <2>7, <2>8, CheckShareKnows DEF Outcome
  <2>9. CASE Call(u, "sender_key", j, GET_USER_PUBKEY(j.share.sender)) /\ UNCHANGED saved
    <3>1. PICK r \in SharingRequests : /\ r = GET_USER_PUBKEY(j.share.sender)
                                       /\ r.type = "GET_USER_PUBKEY" /\ GoodRequest(g, r)'
      BY <2>3, <2>6, PlainRequests
    <3>2. /\ cpc'[u] = "sender_key" /\ job'[u] = j /\ out'[u] = r /\ conn'[u] = NoConn /\ OthersWait(u)
          /\ RpcTypeOK'
      BY <1>1, <2>9, <3>1, CallEffect, CallTypes DEF OthersWait, CpcLabels, Lookups
    <3>3. GoodRequest(g, out[u])'
      BY <3>1, <3>2 DEF GoodRequest
    <3>4. d \in DocId /\ AskedFor(u, d)' /\ TamperedWith(job'[u].document, documents'[d].blob)
      BY <2>4, <2>7, <3>2, SharingAssumption DEF AskedFor, Downloads, Receives, DocumentExists
    <3>5. StepKnows(g, u)'
      BY <1>1, <2>3, <2>5, <2>6, <3>1, <3>2, <3>3, <3>4 DEF StepKnows, Lookups, TamperedWith
    <3> QED
      BY <1>2, <2>9, <3>2, <3>5 DEF Outcome, GoesOn, Saves
  <2> QED
    BY <2>1, <2>6, <2>8, <2>9
<1> QED
  BY <1>3, <1>4

(* _get_verified_pubkey pins a contact it has not met, and changes no pin. *)
LEMMA PinKeeps ==
    ASSUME NEW g, NEW u \in Registered, NEW y, Receives(g, u, y), verified_pubkey(u, y)
    PROVE  /\ Pins /\ keys_in(y) \in Bundle
           /\ contact(u) \in User => trust'[u][contact(u)] = keys_in(y)
<1>1. /\ trust \in [Registered -> [User -> Bundle \cup {NoEntry}]]
      /\ trust[u][contact(u)] \in {NoEntry, keys_in(y)} /\ KeyAnswer(u, y) /\ y.type = "USER_PUBKEY"
      /\ trust' = [trust EXCEPT ![u][contact(u)] = keys_in(y)]
  BY DEF Receives, Knows, ClientKnows, SharingTypeOK, Answered, verified_pubkey, pin
<1>2. PICK k, b : k = contact(u) /\ b = keys_in(y)
  OBVIOUS
<1>3. b \in Bundle
  BY <1>1, <1>2 DEF KeyAnswer, keys_in, Bundle, SharingKeys
<1>4. /\ trust' \in [Registered -> [User -> Bundle \cup {NoEntry}]]
      /\ \A v \in Registered, c \in User :
            trust'[v][c] = IF v = u /\ c = k THEN b ELSE trust[v][c]
  BY <1>1, <1>2, <1>3
<1> QED
  BY <1>1, <1>2, <1>3, <1>4 DEF Pins, TrustKept

LEMMA VerifiedKnows ==
    ASSUME NEW g, NEW u \in Registered, NEW y, Receives(g, u, y), verified_pubkey(u, y)
    PROVE  Outcome(g, u)
<1>1. /\ SharingTypeOK /\ StepKnows(g, u) /\ UNCHANGED confirmed
      /\ cpc[u] \in Lookups /\ Past' = Past /\ KeyAnswer(u, y) /\ y.type = "USER_PUBKEY"
      /\ Began(g) /\ Tables(g) /\ job[u] \in Job /\ job[u].n \in Past /\ g[job[u].n] = u
  BY DEF Receives, Knows, ServerKnows, ClientKnows, StepKnows, Answered, verified_pubkey, Past, Lookups
<1>2. Confirms /\ Pins /\ keys_in(y) \in Bundle
  BY <1>1, PinKeeps DEF Confirms
<1>3. CASE cpc[u] = "share_pubkey"
  <2> DEFINE i == [job[u] EXCEPT !.dh_pub = y.dh_pub]
  <2>1. /\ Call(u, "share_fetch", i, GET_DOC(u, job[u].doc_id, job[u].n)) /\ UNCHANGED saved
        /\ contact(u) = job[u].recipient
    BY <1>3 DEF verified_pubkey, contact
  <2>2. PICK p \in Party : y.dh_pub = dh_key(p)
    BY <1>1 DEF KeyAnswer
  <2>3. PICK n \in Draw, d \in Draw, v \in Registered :
           n = job[u].n /\ d = job[u].doc_id /\ v = job[u].recipient
    BY <1>1 DEF Job
  <2>4. PICK j \in Job : j = i /\ j.dh_pub = dh_key(p) /\ j.n = n /\ j.doc_id = d /\ j.recipient = v
    <3>1. dh_key(p) \in SharingKeys
      BY DEF SharingKeys
    <3>2. i \in Job /\ i.dh_pub = dh_key(p) /\ i.n = n /\ i.doc_id = d /\ i.recipient = v
      BY <1>1, <2>2, <2>3, <3>1 DEF Job
    <3> QED
      BY <3>2
  <2>5. PICK r \in SharingRequests : r = GET_DOC(u, d, n) /\ GoodRequest(g, r)'
    BY PlainRequests
  <2>6. /\ cpc'[u] = "share_fetch" /\ job'[u] = j /\ out'[u] = r /\ conn'[u] = NoConn /\ OthersWait(u)
        /\ RpcTypeOK'
    BY <1>1, <2>1, <2>3, <2>4, <2>5, CallEffect, CallTypes DEF OthersWait, CpcLabels
  <2>7. GoodRequest(g, out[u])'
    BY <2>5, <2>6 DEF GoodRequest
  <2>8. KeyKnown(u)'
    <3>1. v # u /\ v \in User /\ trust'[u][v] = keys_in(y)
      BY <1>1, <1>3, <2>1, <2>3, PinKeeps, SharingAssumption DEF StepKnows
    <3>2. trust'[u][v] # NoEntry /\ trust'[u][v].dh_pub = dh_key(p)
      BY <1>2, <2>2, <3>1, SharingRequestsAssumption DEF keys_in
    <3> QED
      BY <2>4, <2>6, <3>1, <3>2 DEF KeyKnown
  <2>9. StepKnows(g, u)'
    BY <1>1, <2>3, <2>4, <2>5, <2>6, <2>7, <2>8 DEF StepKnows, Lookups
  <2> QED
    BY <1>2, <2>1, <2>6, <2>9 DEF Outcome, GoesOn, Saves
<1>4. ASSUME NEW d \in DocId, AskedFor(u, d)
      PROVE  /\ d \in Past /\ documents[d].blob = DocOf(g, d) /\ Downloads(g, u, job[u], d)
  <2>1. d \in Past /\ documents[d].blob = DocOf(g, d) /\ g[d] \in Registered
    BY <1>1, <1>4 DEF AskedFor, Tables, Began
  <2> QED
    BY <1>1, <1>4, <2>1 DEF AskedFor, Downloads, Receives
<1>5. CASE cpc[u] = "sender_key"
  <2>1. PICK d \in DocId : AskedFor(u, d) /\ TamperedWith(job[u].document, documents[d].blob)
    BY <1>1, <1>5 DEF StepKnows
  <2>2. CheckShare(u, job[u], y.sig_pub)
    BY <1>5 DEF verified_pubkey
  <2>3. GoesOn(g, u) /\ Saves(u)
    BY <1>4, <2>1, <2>2, CheckShareKnows
  <2> QED
    BY <1>2, <2>3 DEF Outcome
<1>6. CASE cpc[u] = "owner_key"
  <2>1. PICK d \in DocId : AskedFor(u, d) /\ job[u].document = documents[d].blob
    BY <1>1, <1>6 DEF StepKnows
  <2>2. CheckContent(u, job[u], y.sig_pub)
    BY <1>6 DEF verified_pubkey
  <2>3. GoesOn(g, u) /\ Saves(u)
    BY <1>4, <2>1, <2>2, CheckContentKnows
  <2> QED
    BY <1>2, <2>3 DEF Outcome
<1> QED
  BY <1>1, <1>3, <1>5, <1>6 DEF Lookups

LEMMA RefusedKnows ==
    ASSUME NEW g, NEW u \in Registered, NEW y, Receives(g, u, y), pubkey_refused(u, y)
    PROVE  Outcome(g, u)
<1>1. SharingTypeOK /\ UNCHANGED <<trust, saved, confirmed>> /\ Finish(u)
  BY DEF Receives, Knows, ClientKnows, pubkey_refused
<1> QED
  BY <1>1, FinishGoesOn, NothingPinned DEF Outcome, Saves, Confirms

LEMMA ReceiveOutcome ==
    ASSUME ServerInv, NEW g, Knows(g), NEW u \in Registered, Receive(u), documents' = documents
    PROVE  Outcome(g, u)
<1>1. PICK y : y = attack_response(u, reply[conn[u]])
  OBVIOUS
<1>2. /\ conn[u] # NoConn /\ pc[conn[u]] = "respond" /\ draws' = draws
      /\ crossed' = IF reply[conn[u]].type = "DOC" /\ req[conn[u]] # out[u]
                    THEN crossed \cup {<<job[u].n, abandoned>>} ELSE crossed
      /\ \/ upload_reply(u, y) \/ share_reply(u, y) \/ share_fetch_reply(u, y)
         \/ download_reply(u, y) \/ verified_pubkey(u, y) \/ pubkey_refused(u, y)
  BY <1>1 DEF Receive, At
<1>3. Receives(g, u, y)
  <2>1. Answered(g, u, y)
    BY <1>1, <1>2, AnswerKnown
  <2> QED
    BY <1>2, <2>1 DEF Receives
<1> QED
  BY <1>2, <1>3, UploadReplyKnows, ShareReplyKnows, ShareFetchReplyKnows, DownloadReplyKnows,
     VerifiedKnows, RefusedKnows

LEMMA ReceiveKnows ==
    ASSUME ServerInv, RowsGrow, NEW g, Knows(g), NEW u \in Registered, Receive(u)
    PROVE  Knows(g)'
<1>1. PICK t \in Thread : /\ t = conn[u] /\ pc[t] = "respond" /\ HandlerStep(t)
                          /\ req[t] = IF mode = "replay" THEN captured ELSE out[u]
  BY DEF Receive, At, Knows, ClientKnows, ProxyKnows, Linked
<1>2. /\ SharingTypeOK /\ Linked /\ Spent /\ Promises
      /\ captured # NoRequest => mode = "replay" /\ GoodRequest(g, captured)
      /\ UNCHANGED <<draws, cutoffs, mode, captured, abandoned>>
      /\ crossed' = IF reply[conn[u]].type = "DOC" /\ req[conn[u]] # out[u]
                    THEN crossed \cup {<<job[u].n, abandoned>>} ELSE crossed
  BY DEF Receive, Knows, ClientKnows, ProxyKnows, proxyVars
<1>3. Effect(t)
  BY <1>1, HandlerEffect DEF Knows, ServerKnows, ServerInv, ChecksInv
<1>4. UNCHANGED <<documents, shares>> /\ usedNonces \subseteq usedNonces'
  BY <1>1, <1>3 DEF Effect, EndsConnection
<1>5. Outcome(g, u) /\ GoesOn(g, u) /\ OthersWait(u)
  BY <1>4, ReceiveOutcome DEF Outcome, GoesOn
<1>6. Moves(g, g)
  BY <1>2, <1>5 DEF Moves, Outcome, Pins, Knows, Began, SharingTypeOK
<1>7. ServerKnows(g)'
  BY <1>3, <1>6, EffectServerKnows DEF ServerInv, Knows
<1>8. Began(g)'
  BY <1>2 DEF Knows, Began, Past
<1>9. SharingTypeOK'
  <2>1. cpc[u] # "idle" /\ job[u].n \in Draw
    BY <1>1, <1>2, SharingAssumption DEF Knows, ClientKnows, StepKnows, Past
  <2>2. crossed' \subseteq Draw \X BOOLEAN
    BY <1>2, <2>1 DEF SharingTypeOK
  <2>3. /\ saved' \subseteq [n : Draw, user : Registered, doc_id : Draw, owner : User, content : Draw]
        /\ confirmed' \subseteq Draw \X Registered
    BY <1>2, <1>5 DEF SharingTypeOK, Outcome, Saves, Confirms
  <2> QED
    BY <1>2, <1>5, <2>2, <2>3 DEF SharingTypeOK, Outcome, GoesOn, RpcTypeOK, Pins
<1>10. ASSUME NEW v \in Registered PROVE StepKnows(g, v)'
  BY <1>5, <1>6, <1>10, StepStays DEF Knows, ClientKnows, GoesOn, OthersWait
<1>11. Promises'
  <2>1. crossed \subseteq crossed'
    BY <1>2
  <2>2. ASSUME NEW s \in saved'
        PROVE  /\ documents'[s.content] # NoRow /\ s.owner = documents'[s.content].owner
               /\ s.doc_id = s.content \/ <<s.n, TRUE>> \in crossed'
    BY <1>2, <1>4, <1>5, <2>1, <2>2
       DEF Promises, DownloadsFaithful, DocumentExists, Outcome, Saves
  <2>3. ASSUME NEW k \in confirmed' PROVE shares'[k] # NoRow
    BY <1>2, <1>4, <1>5, <2>3 DEF Promises, Outcome, Confirms
  <2> QED
    BY <2>2, <2>3 DEF Promises, DownloadsFaithful, DocumentExists
<1>12. captured # NoRequest => mode = "replay" /\ GoodRequest(g, captured)'
  BY <1>2, <1>6, CapturedStays
<1>13. ASSUME NEW v \in Registered, v # u, conn[v] # NoConn
       PROVE  /\ conn[v] \in Thread \ {t} /\ pc[conn[v]] # "idle" /\ Kept4(conn[v])
              /\ req[conn[v]] = IF mode = "replay" THEN captured ELSE out[v]
  BY <1>1, <1>2, <1>3, <1>13 DEF Linked, Effect
<1>14. Linked'
  <2>1. conn'[u] = NoConn /\ \A v \in Registered \ {u} : conn'[v] = conn[v] /\ out'[v] = out[v]
    BY <1>5 DEF GoesOn, OthersWait
  <2> QED
    BY <1>2, <1>13, <2>1 DEF Linked, Kept4
<1>15. Spent'
  <2> SUFFICES ASSUME captured # NoRequest, captured.type = "GET_DOC", ~abandoned,
                      out'[captured.username] # captured
               PROVE  /\ captured.nonce \in usedNonces
                      /\ conn'[captured.username] # NoConn => Refused(conn[captured.username])'
    BY <1>2, <1>4 DEF Spent
  <2>1. PICK v \in Registered : v = captured.username
    BY <1>2, RequestParts DEF GoodRequest
  <2>2. CASE v = u
    <3>1. conn'[v] = NoConn
      BY <1>5, <2>2 DEF GoesOn
    <3>2. CASE out[u] # captured
      BY <1>2, <2>1, <2>2, <3>1, <3>2 DEF Spent
    <3>3. CASE out[u] = captured
      <4>1. req[t] = captured
        BY <1>1, <3>3
      <4>2. captured.nonce \in usedNonces
        BY <1>1, <4>1 DEF Knows, ServerKnows, ThreadKnows
      <4> QED
        BY <1>2, <2>1, <3>1, <4>2
    <3> QED
      BY <3>2, <3>3
  <2>3. CASE v # u
    <3>1. out[v] # captured /\ conn'[v] = conn[v]
      BY <1>2, <1>5, <2>1, <2>3 DEF OthersWait
    <3>2. captured.nonce \in usedNonces /\ (conn[v] # NoConn => Refused(conn[v]))
      BY <1>2, <2>1, <3>1 DEF Spent
    <3> QED
      BY <1>2, <1>13, <2>1, <2>3, <3>1, <3>2 DEF Refused, Kept4
  <2> QED
    BY <2>2, <2>3
<1> QED
  BY <1>2, <1>7, <1>8, <1>9, <1>10, <1>11, <1>12, <1>14, <1>15 DEF Knows, ClientKnows, ProxyKnows

-----------------------------------------------------------------------------
(* The whole system.                                                       *)
LEMMA SharingInitInv == SharingInit => SInv
<1> SUFFICES ASSUME SharingInit PROVE SInv
  OBVIOUS
<1> USE DEF SharingInit
<1>1. Registered \subseteq User /\ FakeSalt \in Salt /\ MaxDraws \in Nat /\ MaxCutOffs \in Nat
  BY SharingAssumption, SharingRequestsAssumption
<1>2. ASSUME NEW u \in Registered PROVE sig_key(u) \in Key /\ dh_key(u) \in Key
  BY SharingRequestsAssumption DEF SharingKeys, Party
<1>3. DBTypeOK
  BY <1>1, <1>2 DEF DBTypeOK, UserRecord
<1>4. TInv
  BY <1>3, PlainReplies DEF TInv, SessionInit, SessionTypeOK, ServerInit, ThreadInv, ThreadTypeOK,
     HandlerTypes, HistoryTypeOK, Labels, PastNonce
<1>5. ChecksInv
  BY DEF ChecksInv, ServerInit, HandlerChecks, PastNonce
<1>6. ReferentialIntegrity
  BY DEF ReferentialIntegrity, DocumentExists
<1>7. SharingTypeOK
  <2>1. trust \in [Registered -> [User -> Bundle \cup {NoEntry}]] /\ cpc \in [Registered -> CpcLabels]
    BY DEF CpcLabels
  <2>2. /\ job \in [Registered -> Job \cup {NoJob}] /\ conn \in [Registered -> Thread \cup {NoConn}]
        /\ out \in [Registered -> SharingRequests \cup {NoRequest}]
    OBVIOUS
  <2>3. draws \in 0 .. MaxDraws /\ cutoffs \in 0 .. MaxCutOffs
    BY <1>1
  <2>4. mode \in Modes /\ abandoned \in BOOLEAN
    OBVIOUS
  <2> QED
    BY <2>1, <2>2, <2>3, <2>4 DEF SharingTypeOK
<1>8. PICK g \in Beginners : g = [n \in Draw |-> NoEntry]
  BY DEF Beginners
<1>9. Past = {} /\ Began(g)
  BY DEF Past, Draw, Began
<1>10. ServerKnows(g)
  <2>1. Accounts
    BY <1>1, <1>2, <1>3, NoRowAssumption DEF Accounts, DBTypeOK, UserRecord
  <2>2. Tables(g)
    BY DEF Tables, DocumentExists
  <2> QED
    BY <2>1, <2>2 DEF ServerKnows, ThreadKnows, ServerInit
<1>11. ClientKnows(g)
  <2>1. ProxyKnows(g)
    BY DEF ProxyKnows, Linked, Spent
  <2>2. ASSUME NEW u \in Registered PROVE StepKnows(g, u)
    <3>1. cpc[u] = "idle" /\ out[u] = NoRequest /\ conn[u] = NoConn
      OBVIOUS
    <3> HIDE DEF SharingInit
    <3> QED
      BY <3>1 DEF StepKnows, Lookups
  <2> QED
    BY <1>7, <2>1, <2>2 DEF ClientKnows, Promises, DownloadsFaithful
<1> QED
  BY <1>4, <1>5, <1>6, <1>8, <1>9, <1>10, <1>11 DEF SInv, ServerInv, Knows

LEMMA SharingNextInv == SInv /\ [SharingNext]_sharingVars => SInv'
<1> SUFFICES ASSUME SInv, [SharingNext]_sharingVars PROVE SInv'
  OBVIOUS
<1>1. PICK g \in Beginners : Knows(g)
  BY DEF SInv
<1>2. ServerInv
  BY DEF SInv
<1>3. [Next]_vars
  BY <1>1, ServerInside DEF Knows, ClientKnows
<1>4. ServerInv' /\ RowsGrow
  BY <1>2, <1>3, ServerKeeps
<1>5. CASE UNCHANGED sharingVars
  <2>1. UNCHANGED vars /\ UNCHANGED clientVars
    BY <1>5 DEF sharingVars
  <2>2. Moves(g, g)
    BY <1>1, <2>1, MovesNothing DEF clientVars
  <2>3. ServerKnows(g)'
    BY <1>1, <1>4, <2>1, <2>2, QuietServerKnows DEF Knows
  <2>4. ASSUME NEW u \in Registered PROVE StepKnows(g, u)'
    BY <1>1, <1>4, <2>1, <2>2, StepStays DEF Knows, ClientKnows, clientVars, rpcVars
  <2>5. Promises'
    BY <1>1, <1>4, <2>1, PromisesStay DEF Knows, ClientKnows, clientVars
  <2>6. captured # NoRequest => mode = "replay" /\ GoodRequest(g, captured)'
    BY <1>1, <2>1, <2>2, CapturedStays DEF Knows, ClientKnows, ProxyKnows, clientVars, proxyVars
  <2>7. Began(g)' /\ SharingTypeOK' /\ Linked' /\ Spent'
    BY <1>1, <2>1 DEF Knows, ClientKnows, ProxyKnows, Began, Past, SharingTypeOK, Linked, Spent, Refused,
       clientVars, rpcVars, proxyVars, vars, threadVars, sessionVars
  <2>8. Knows(g)'
    BY <2>1, <2>3, <2>4, <2>5, <2>6, <2>7 DEF Knows, ClientKnows, ProxyKnows, clientVars, proxyVars
  <2> QED
    BY <1>4, <2>8 DEF SInv
<1>6. ASSUME NEW u \in Registered, upload_op(u) PROVE SInv'
  BY <1>1, <1>4, <1>6, UploadOpKnows DEF SInv
<1>7. ASSUME NEW u \in Registered, NEW d \in Draw, download_op(u, d) PROVE SInv'
  BY <1>1, <1>4, <1>7, DownloadOpKnows DEF SInv
<1>8. ASSUME NEW u \in Registered, NEW d \in Draw, NEW v \in Registered, share_op(u, d, v) PROVE SInv'
  BY <1>1, <1>4, <1>8, ShareOpKnows DEF SInv
<1>9. ASSUME NEW u \in Registered, NEW t \in Thread, Send(u, t) PROVE SInv'
  BY <1>1, <1>2, <1>4, <1>9, SendKnows DEF SInv
<1>10. ASSUME NEW u \in Registered, Receive(u) PROVE SInv'
  BY <1>1, <1>2, <1>4, <1>10, ReceiveKnows DEF SInv
<1>11. ASSUME NEW u \in Registered, CutOff(u) PROVE SInv'
  BY <1>1, <1>4, <1>11, CutOffKnows DEF SInv
<1>12. ASSUME NEW t \in Thread, ServerStep(t) PROVE SInv'
  BY <1>1, <1>2, <1>4, <1>12, ServerStepKnows DEF SInv
<1>13. ASSUME NEW m \in Modes, start_proxy(m) PROVE SInv'
  BY <1>1, <1>4, <1>13, StartProxyKnows DEF SInv
<1> QED
  BY <1>5, <1>6, <1>7, <1>8, <1>9, <1>10, <1>11, <1>12, <1>13 DEF SharingNext

(* Clients, proxy and server keep the invariant, with any number of users, *)
(* connections, operations and cut-offs.                                   *)
THEOREM SharingInvariant == SharingSpec => []SInv
<1> QED
  BY SharingInitInv, SharingNextInv, PTL DEF SharingSpec

(* The state of clients and proxy, and the histories, are of their types.  *)
THEOREM SharingTypes == SharingSpec => []SharingTypeOK
<1>1. SInv => SharingTypeOK
  BY DEF SInv, Knows, ClientKnows
<1> QED
  BY <1>1, SharingInvariant, PTL

(* download writes and returns only documents as they were uploaded, with  *)
(* their owner, and the one it was asked for unless the answer to another  *)
(* GET_DOC of the same client, which it did not wait for, came in its place*)
(* (client.py download, attacker_proxy.py).                                *)
THEOREM DownloadsAreFaithful == SharingSpec => []DownloadsFaithful
<1>1. SInv => DownloadsFaithful
  BY DEF SInv, Knows, ClientKnows, Promises
<1> QED
  BY <1>1, SharingInvariant, PTL

LEMMA RowsOpen ==
    ASSUME SInv, NEW d \in DocId, NEW u \in Registered, NEW s, s = shares[<<d, u>>], s # NoRow,
           s.sender = u \/ trust[s.sender][u] = bundle(u),
           \A b \in BOOLEAN : <<s.body.eph_pub, b>> \notin crossed
    PROVE  CanOpen(d, u)
<1>1. PICK g \in Beginners : Knows(g)
  BY DEF SInv
<1>2. u \in User /\ s.doc_id = d /\ s.recipient = u /\ DocumentExists(d)
  BY SharingAssumption DEF SInv, ServerInv, ReferentialIntegrity
<1>3. d \in Past /\ documents[d].blob = DocOf(g, d) /\ GoodShare(g, s) /\ Began(g) /\ Accounts
  BY <1>1, <1>2 DEF Knows, ServerKnows, Tables
<1>4. PICK n \in Past, v \in Registered, p \in Party :
         /\ v = g[n]
         /\ s = pack_share(v, u, dh_key(p), d, doc_hash(DocOf(g, d)), FK(d), n)
         /\ IF u = v THEN p = u ELSE trust[v][u].dh_pub = dh_key(p)
  <2>1. PICK n \in Past, v \in Registered, e \in Past, p \in Party :
           /\ n = s.body.eph_pub /\ v = g[n]
           /\ s = pack_share(v, u, dh_key(p), d, doc_hash(DocOf(g, e)), FK(e), n)
           /\ IF u = v THEN p = u ELSE trust[v][u].dh_pub = dh_key(p)
           /\ e = d \/ \E b \in BOOLEAN : <<n, b>> \in crossed
    BY <1>2, <1>3 DEF GoodShare, Began
  <2>2. e = d
    <3>1. \A b \in BOOLEAN : <<n, b>> \notin crossed
      BY <2>1, Zenon
    <3> QED
      BY <2>1, <3>1, Zenon
  <2>3. s = pack_share(v, u, dh_key(p), d, doc_hash(DocOf(g, d)), FK(d), n)
    BY <2>1, <2>2, Zenon
  <2> QED
    BY <2>1, <2>3
<1>5. s.sender = v
  BY <1>4 DEF pack_share
<1>6. p = u
  BY <1>4, <1>5 DEF bundle, dh_key
<1>7. doc_hash(documents[d].blob) = s.body.doc_hash
  BY <1>3, <1>4 DEF pack_share
<1>8. ecdsa_verify(users[s.sender].sig_pub, share_body(s), s.body.share_sig)
  <2>1. users[v].sig_pub = sig_key(v)
    BY <1>3, SharingAssumption DEF Accounts
  <2> QED
    BY <1>4, <1>5, <2>1 DEF pack_share, share_body, ecdsa_verify, ecdsa_sign
<1>9. unwraps(u, s)
  BY <1>4, <1>6 DEF pack_share, unwraps, gcm_opens, gcm_encrypt
<1>10. unwrap_fk(s) = FK(d)
  BY <1>4 DEF pack_share, unwrap_fk, plaintext_of, gcm_encrypt
<1>11. gcm_opens(FK(d), documents[d].blob.body, header_aad(documents[d].blob))
  BY <1>3 DEF DocOf, pack_document, gcm_opens, gcm_encrypt, header_aad
<1> QED
  BY <1>7, <1>8, <1>9, <1>10, <1>11 DEF CanOpen

(* What upload and share have confirmed has its row, and every row opens   *)
(* for its recipient, unless its sender has pinned other keys for the      *)
(* recipient or was given another document by a replay (client.py upload   *)
(* and share, db.py create_or_replace_share).                              *)
THEOREM SharesCanBeOpened == SharingSpec => []SharesOpen
<1>1. ASSUME SInv PROVE SharesOpen
  <2>1. \A k \in confirmed : shares[k] # NoRow
    BY <1>1 DEF SInv, Knows, ClientKnows, Promises
  <2> QED
    BY <1>1, <2>1, RowsOpen DEF SharesOpen
<1> QED
  BY <1>1, SharingInvariant, PTL

(* Whatever clients and proxy do, the server takes steps of its own        *)
(* specification only: what is proved of SecureVaultServer step by step    *)
(* holds here too (server.py serves whatever arrives).                     *)
THEOREM SharedServerSteps == SharingSpec => [][Next]_vars
  BY SharingTypes, ServerInside, PTL DEF SharingSpec
=============================================================================
