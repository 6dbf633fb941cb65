---------------------------- MODULE VaultSharing ----------------------------
(***************************************************************************)
(* Documents end to end: upload, share and download of client/client.py,   *)
(* with their contact keys through trust on first use, against the server  *)
(* of module SecureVaultServer, over attacker/attacker_proxy.py.           *)
(*                                                                         *)
(* One client is logged in for each registered user.  Every _rpc is a      *)
(* connection of its own, with the steps of other clients in between, and  *)
(* an operation can be cut off at any point.                               *)
(*                                                                         *)
(* Ideal cryptography.  A key pair is named by its owner; a signature is   *)
(* the record of the key and of what was signed; a GCM tag is the triple   *)
(* of key, ciphertext and additional data; hashes have no collisions.      *)
(* os.urandom never repeats: the n-th operation draws n, which names its   *)
(* document, its content, file key, ephemeral key and nonces.              *)
(***************************************************************************)
EXTENDS SecureVaultServer

CONSTANTS Registered,  \* the users with an account and a client
          Tampered,    \* the owner name that flip_metadata writes
          Modes,       \* the modes the proxy is started in
          NoEntry,     \* a contact that is not in the trust store
          NoConn,      \* no connection is open
          NoJob,       \* no operation under way
          MaxDraws,    \* bound: operations begun
          MaxCutOffs   \* bound: operations cut off

Draw == 0 .. MaxDraws - 1

ASSUME SharingAssumption ==
    /\ Registered \subseteq User
    /\ Tampered \in User \ Registered
    /\ Modes \subseteq {"passthrough", "flip_ciphertext", "flip_metadata", "swap_pubkey", "replay"}
    /\ NoConn \notin Thread
    /\ MaxDraws \in Nat
    /\ MaxCutOffs \in Nat
    /\ Draw \subseteq DocId

Lookups == {"share_pubkey", "sender_key", "owner_key"}

-----------------------------------------------------------------------------
(* Keys, documents and shares.                                             *)

(* Whoever has keys: users, and the proxy anew for each answer it swaps.   *)
Party == Registered \cup (Draw \X Lookups)
sig_key(p) == <<"sig", p>>
dh_key(p)  == <<"dh", p>>
bundle(p)  == [sig_pub |-> sig_key(p), dh_pub |-> dh_key(p)]
SharingKeys == UNION {{sig_key(p), dh_key(p)} : p \in Party}
Bundle == [sig_pub : SharingKeys, dh_pub : SharingKeys]

ecdsa_sign(p, message) == [key |-> sig_key(p), signed |-> message]
ecdsa_verify(pub, message, sig) == sig.key = pub /\ sig.signed = message

gcm_encrypt(key, plaintext, aad) ==
    LET ct == <<key, plaintext>> IN [ct |-> ct, tag |-> <<key, ct, aad>>]

(* gcm_decrypt returns the plaintext, and not None.                        *)
gcm_opens(key, box, aad) == box.tag = <<key, box.ct, aad>>
plaintext_of(box) == box.ct[2]

FK(n) == <<"fk", n>>
header_aad(document) == <<document.doc_id, document.owner, document.version>>

pack_payload(u, content) == [content |-> content, content_sig |-> ecdsa_sign(u, content)]

pack_document(u, n) ==
    [doc_id |-> n, owner |-> u, version |-> 1,
     body |-> gcm_encrypt(FK(n), pack_payload(u, n), <<n, u, 1>>)]

(* shared_key of the ephemeral pair n and a key-agreement pair.            *)
wrap_key(n, dh_pub, doc_id, recipient, sender) ==
    <<"wrap", n, dh_pub, doc_id, recipient, sender>>

share_body(s) == <<s.doc_id, s.sender, s.recipient, s.body.doc_hash, s.body.eph_pub, s.body.wrapped>>

pack_share(sender, recipient, dh_pub, doc_id, hash, fk, n) ==
    LET wrapped == gcm_encrypt(wrap_key(n, dh_pub, doc_id, recipient, sender), fk, <<>>)
    IN  [doc_id |-> doc_id, sender |-> sender, recipient |-> recipient,
         body |-> [doc_hash |-> hash, eph_pub |-> n, wrapped |-> wrapped,
                   share_sig |-> ecdsa_sign(sender, <<doc_id, sender, recipient, hash, n, wrapped>>)]]

(* _unwrap_fk raises no ClientError for u.                                 *)
unwraps(u, s) ==
    gcm_opens(wrap_key(s.body.eph_pub, dh_key(u), s.doc_id, s.recipient, s.sender),
              s.body.wrapped, <<>>)
unwrap_fk(s) == plaintext_of(s.body.wrapped)

doc_hash(document) == document.body.ct

(* One byte of the ciphertext is flipped.                                  *)
flip(body) == [body EXCEPT !.ct = <<<<"flipped", @[1]>>, @[2]>>]

-----------------------------------------------------------------------------
(* The requests of the three operations.                                   *)

nonce(type, n) == <<type, n>>
SharingNonce == {"UPLOAD", "SHARE", "GET_DOC"} \X Draw

UPLOAD(u, n) ==
    LET id == nonce("UPLOAD", n)
    IN  [type |-> "UPLOAD", username |-> u, nonce |-> id,
         sig |-> [key |-> sig_key(u), payload |-> payload_upload(u, id)],
         document |-> pack_document(u, n)]

SHARE(u, recipient, doc_id, n, blob) ==
    LET id == nonce("SHARE", n)
    IN  [type |-> "SHARE", username |-> u, recipient |-> recipient, doc_id |-> doc_id,
         nonce |-> id, share_blob |-> blob,
         sig |-> [key |-> sig_key(u), payload |-> payload_share(u, doc_id, recipient, id)]]

GET_DOC(u, doc_id, n) ==
    LET id == nonce("GET_DOC", n)
    IN  [type |-> "GET_DOC", username |-> u, doc_id |-> doc_id, nonce |-> id,
         sig |-> [key |-> sig_key(u), payload |-> payload_download(u, doc_id, id)]]

GET_USER_PUBKEY(name) == [type |-> "GET_USER_PUBKEY", username |-> name]

SharingShares ==
    {pack_share(u, v, dh_key(p), d, doc_hash(pack_document(o, e)), FK(e), n) :
        u \in Registered, v \in Registered, p \in Party, o \in Registered,
        d \in Draw, e \in Draw, n \in Draw}

SharingBody ==
    LET sent == {pack_document(u, n).body : u \in Registered, n \in Draw}
    IN  sent \cup {flip(body) : body \in sent} \cup {s.body : s \in SharingShares}

SharingRequests ==
    {UPLOAD(u, n) : u \in Registered, n \in Draw}
    \cup {SHARE(s.sender, s.recipient, s.doc_id, s.body.eph_pub, s) : s \in SharingShares}
    \cup {GET_DOC(u, d, n) : u \in Registered, d \in Draw, n \in Draw}
    \cup {GET_USER_PUBKEY(u) : u \in User}

ASSUME SharingRequestsAssumption ==
    /\ SharingKeys \subseteq Key /\ SharingBody \subseteq Body
    /\ EmptyNonce \notin SharingNonce /\ NoEntry \notin Bundle
    /\ FakeSalt \in Salt  \* salts play no part here: this one stands for all
    /\ SharingRequests \subseteq Requests

-----------------------------------------------------------------------------
VARIABLES trust,     \* the trust store of each user: the bundle of a contact
          cpc,       \* where the operation of each client has got to
          job,       \* its arguments and local variables
          out,       \* the request of the _rpc under way
          conn,      \* the thread that serves it, once it is sent
          draws,     \* operations begun so far
          cutoffs,   \* operations cut off so far
          mode,      \* the mode of the proxy
          captured,  \* its _last_request, of which only replay makes use
          abandoned, \* history: the operation it was captured from was cut off
          saved,     \* history: what downloads have written and returned
          confirmed, \* history: who can open which document, by upload and share
          crossed    \* history: <<n, b>> if operation n got the document that another request
                     \* asked for, and b says whether that one's operation was cut off

rpcVars     == <<cpc, job, out, conn>>
proxyVars   == <<mode, captured, abandoned>>
clientVars  == <<trust, rpcVars, draws, cutoffs, proxyVars, saved, confirmed, crossed>>
sharingVars == <<vars, clientVars>>

Job == [n : Draw, doc_id : Draw, recipient : Registered, dh_pub : SharingKeys \cup {NoEntry},
        document : DocBlob \cup {NoRow}, share : ShareBlob \cup {NoRow}]
CpcLabels == {"idle", "upload", "self_share", "share_fetch", "share", "fetch"} \cup Lookups

SharingTypeOK ==
    /\ trust \in [Registered -> [User -> Bundle \cup {NoEntry}]]
    /\ cpc \in [Registered -> CpcLabels]
    /\ job \in [Registered -> Job \cup {NoJob}]
    /\ out \in [Registered -> SharingRequests \cup {NoRequest}]
    /\ conn \in [Registered -> Thread \cup {NoConn}]
    /\ draws \in 0 .. MaxDraws
    /\ cutoffs \in 0 .. MaxCutOffs
    /\ mode \in Modes
    /\ captured \in SharingRequests \cup {NoRequest}
    /\ saved \subseteq [n : Draw, user : Registered, doc_id : Draw, owner : User, content : Draw]
    /\ confirmed \subseteq Draw \X Registered
    /\ abandoned \in BOOLEAN
    /\ crossed \subseteq Draw \X BOOLEAN

(* Everybody has signed up and nothing has been uploaded.                  *)
SharingInit ==
    /\ users = [u \in User |->
                   IF u \in Registered
                   THEN [salt |-> FakeSalt, auth_pub |-> sig_key(u),
                         sig_pub |-> sig_key(u), dh_pub |-> dh_key(u)]
                   ELSE NoRow]
    /\ documents = [d \in DocId |-> NoRow]
    /\ shares = [k \in DocId \X User |-> NoRow]
    /\ dbOpen = TRUE
    /\ SessionInit
    /\ ServerInit
    /\ trust = [u \in Registered |-> [k \in User |-> NoEntry]]
    /\ cpc = [u \in Registered |-> "idle"]
    /\ job = [u \in Registered |-> NoJob]
    /\ out = [u \in Registered |-> NoRequest]
    /\ conn = [u \in Registered |-> NoConn]
    /\ draws = 0
    /\ cutoffs = 0
    /\ mode \in Modes
    /\ captured = NoRequest
    /\ saved = {}
    /\ confirmed = {}
    /\ abandoned = FALSE
    /\ crossed = {}

-----------------------------------------------------------------------------
(* How an operation goes on: with a next _rpc, or back to its caller.      *)

Call(u, label, j, r) ==
    /\ cpc' = [cpc EXCEPT ![u] = label]
    /\ job' = [job EXCEPT ![u] = j]
    /\ out' = [out EXCEPT ![u] = r]
    /\ conn' = [conn EXCEPT ![u] = NoConn]

Finish(u) == Call(u, "idle", NoJob, NoRequest)

NewJob(doc_id, recipient) ==
    [n |-> draws, doc_id |-> doc_id, recipient |-> recipient, dh_pub |-> NoEntry,
     document |-> NoRow, share |-> NoRow]

Begin(u, label, j, r) ==
    /\ cpc[u] = "idle"
    /\ draws < MaxDraws
    /\ draws' = draws + 1
    /\ Call(u, label, j, r)
    /\ UNCHANGED <<vars, trust, cutoffs, proxyVars, saved, confirmed, crossed>>

upload_op(u) == Begin(u, "upload", NewJob(draws, u), UPLOAD(u, draws))

(* The keys of the recipient come first; one's own are at hand.            *)
share_op(u, doc_id, recipient) ==
    /\ doc_id < draws
    /\ LET j == NewJob(doc_id, recipient)
       IN  IF recipient = u
           THEN Begin(u, "share_fetch", [j EXCEPT !.dh_pub = dh_key(u)], GET_DOC(u, doc_id, draws))
           ELSE Begin(u, "share_pubkey", j, GET_USER_PUBKEY(recipient))

download_op(u, doc_id) ==
    /\ doc_id < draws
    /\ Begin(u, "fetch", NewJob(doc_id, u), GET_DOC(u, doc_id, draws))

-----------------------------------------------------------------------------
(* What an operation does with a response.                                 *)

upload_reply(u, response) ==
    /\ cpc[u] = "upload"
    /\ IF response.type = "OK"
       THEN LET j == job[u]
                s == pack_share(u, u, dh_key(u), j.n, doc_hash(pack_document(u, j.n)), FK(j.n), j.n)
            IN  Call(u, "self_share", j, SHARE(u, u, j.n, j.n, s))
       ELSE Finish(u)
    /\ UNCHANGED <<trust, saved, confirmed>>

(* upload or share returns.  An OK that answers another request, which the *)
(* proxy has sent in the place of this one, confirms nothing.              *)
share_reply(u, response) ==
    /\ cpc[u] \in {"self_share", "share"}
    /\ Finish(u)
    /\ confirmed' = IF response.type = "OK" /\ req[conn[u]] = out[u]
                    THEN confirmed \cup {<<job[u].doc_id, job[u].recipient>>}
                    ELSE confirmed
    /\ UNCHANGED <<trust, saved>>

fetched(response) == response.type = "DOC" /\ response.share # NoRow

WrapFor(u, j, response) ==
    SHARE(u, j.recipient, j.doc_id, j.n,
          pack_share(u, j.recipient, j.dh_pub, j.doc_id,
                     doc_hash(response.document), unwrap_fk(response.share), j.n))

share_fetch_reply_unchecked(u, response) ==
    /\ cpc[u] = "share_fetch"
    /\ IF fetched(response) /\ unwraps(u, response.share)
       THEN Call(u, "share", job[u], WrapFor(u, job[u], response))
       ELSE Finish(u)
    /\ UNCHANGED <<trust, saved, confirmed>>

(* The sharer's own share must open and agree with the document.           *)
share_fetch_reply(u, response) ==
    /\ cpc[u] = "share_fetch"
    /\ IF /\ fetched(response)
          /\ unwraps(u, response.share)
          /\ doc_hash(response.document) = response.share.body.doc_hash
       THEN Call(u, "share", job[u], WrapFor(u, job[u], response))
       ELSE Finish(u)
    /\ UNCHANGED <<trust, saved, confirmed>>

(* The last check of download: the owner's signature of the content.       *)
CheckContent(u, j, owner_sig_pub) ==
    LET payload == plaintext_of(j.document.body)
    IN  /\ Finish(u)
        /\ saved' = IF ecdsa_verify(owner_sig_pub, payload.content, payload.content_sig)
                    THEN saved \cup {[n |-> j.n, user |-> u, doc_id |-> j.doc_id,
                                      owner |-> j.document.owner, content |-> payload.content]}
                    ELSE saved

(* The sender's signature, the wrapped file key, the document.             *)
CheckShare(u, j, sender_sig_pub) ==
    IF /\ ecdsa_verify(sender_sig_pub, share_body(j.share), j.share.body.share_sig)
       /\ unwraps(u, j.share)
       /\ gcm_opens(unwrap_fk(j.share), j.document.body, header_aad(j.document))
    THEN IF j.document.owner = u
         THEN CheckContent(u, j, sig_key(u))
         ELSE Call(u, "owner_key", j, GET_USER_PUBKEY(j.document.owner)) /\ UNCHANGED saved
    ELSE Finish(u) /\ UNCHANGED saved

download_reply(u, response) ==
    /\ cpc[u] = "fetch"
    /\ IF /\ fetched(response)
          /\ doc_hash(response.document) = response.share.body.doc_hash
          /\ response.share.recipient = u
       THEN LET j == [job[u] EXCEPT !.document = response.document, !.share = response.share]
            IN  IF j.share.sender = u
                THEN CheckShare(u, j, sig_key(u))
                ELSE Call(u, "sender_key", j, GET_USER_PUBKEY(j.share.sender)) /\ UNCHANGED saved
       ELSE Finish(u) /\ UNCHANGED saved
    /\ UNCHANGED <<trust, confirmed>>

contact(u) ==
    CASE cpc[u] = "share_pubkey" -> job[u].recipient
      [] cpc[u] = "sender_key"   -> job[u].share.sender
      [] cpc[u] = "owner_key"    -> job[u].document.owner

keys_in(response) == [sig_pub |-> response.sig_pub, dh_pub |-> response.dh_pub]

pin(u, response) == trust' = [trust EXCEPT ![u][contact(u)] = keys_in(response)]

(* _get_verified_pubkey returns: the contact is new and accepted, or its   *)
(* keys are the pinned ones.                                               *)
verified_pubkey(u, response) ==
    /\ cpc[u] \in Lookups
    /\ response.type = "USER_PUBKEY"
    /\ trust[u][contact(u)] \in {NoEntry, keys_in(response)}
    /\ pin(u, response)
    /\ \/ /\ cpc[u] = "share_pubkey"
          /\ Call(u, "share_fetch", [job[u] EXCEPT !.dh_pub = response.dh_pub],
                  GET_DOC(u, job[u].doc_id, job[u].n))
          /\ UNCHANGED saved
       \/ cpc[u] = "sender_key" /\ CheckShare(u, job[u], response.sig_pub)
       \/ cpc[u] = "owner_key" /\ CheckContent(u, job[u], response.sig_pub)
    /\ UNCHANGED confirmed

(* It raises: no such user, the user declines, or the keys have changed.   *)
pubkey_refused(u, response) ==
    /\ cpc[u] \in Lookups
    /\ response.type = "USER_PUBKEY" => trust[u][contact(u)] # keys_in(response)
    /\ Finish(u)
    /\ UNCHANGED <<trust, saved, confirmed>>

-----------------------------------------------------------------------------
(* The proxy.  It captures the first request it sees, and in the mode      *)
(* replay sends it again in the place of every later one.                  *)

start_proxy(m) ==
    /\ \A u \in Registered : conn[u] = NoConn
    /\ m # mode
    /\ mode' = m
    /\ captured' = NoRequest
    /\ abandoned' = FALSE
    /\ UNCHANGED <<vars, trust, rpcVars, draws, cutoffs, saved, confirmed, crossed>>

Send(u, t) ==
    /\ out[u] # NoRequest
    /\ conn[u] = NoConn
    /\ LET r == IF mode = "replay" /\ captured # NoRequest THEN captured ELSE out[u]
       IN  /\ Deliver(t, r)
           /\ captured' = IF mode = "replay" THEN r ELSE NoRequest
    /\ conn' = [conn EXCEPT ![u] = t]
    /\ UNCHANGED <<trust, cpc, job, out, draws, cutoffs, mode, abandoned, saved, confirmed, crossed>>

attack_response(u, response) ==
    CASE mode = "flip_ciphertext" /\ response.type = "DOC" ->
           [response EXCEPT !.document.body = flip(@)]
      [] mode = "flip_metadata" /\ response.type = "DOC" ->
           [response EXCEPT !.document.owner = Tampered]
      [] mode = "swap_pubkey" /\ response.type = "USER_PUBKEY" ->
           LET own == <<job[u].n, cpc[u]>>
           IN  [response EXCEPT !.sig_pub = sig_key(own), !.dh_pub = dh_key(own)]
      [] OTHER -> response

Receive(u) ==
    /\ conn[u] # NoConn
    /\ At(conn[u], "respond")
    /\ HandlerStep(conn[u])
    /\ LET response == attack_response(u, reply[conn[u]])
       IN  \/ upload_reply(u, response)
           \/ share_reply(u, response)
           \/ share_fetch_reply(u, response)
           \/ download_reply(u, response)
           \/ verified_pubkey(u, response)
           \/ pubkey_refused(u, response)
    /\ crossed' = IF reply[conn[u]].type = "DOC" /\ req[conn[u]] # out[u]
                  THEN crossed \cup {<<job[u].n, abandoned>>} ELSE crossed
    /\ UNCHANGED <<draws, cutoffs, proxyVars>>

(* The connection breaks or the client dies, before the request is sent,   *)
(* while it is served or before the response arrives.                      *)
CutOff(u) ==
    /\ cpc[u] # "idle"
    /\ cutoffs < MaxCutOffs
    /\ cutoffs' = cutoffs + 1
    /\ Finish(u)
    /\ abandoned' = (abandoned \/ out[u] = captured)
    /\ UNCHANGED <<vars, trust, draws, mode, captured, saved, confirmed, crossed>>

(* A step of the server that no client waits for.                          *)
ServerStep(t) ==
    /\ At(t, "respond") => \A u \in Registered : conn[u] # t
    /\ HandlerStep(t)
    /\ UNCHANGED clientVars

SharingNext ==
    \/ \E u \in Registered :
          \/ upload_op(u)
          \/ \E d \in Draw : download_op(u, d) \/ \E v \in Registered : share_op(u, d, v)
          \/ \E t \in Thread : Send(u, t)
          \/ Receive(u)
          \/ CutOff(u)
    \/ \E t \in Thread : ServerStep(t)
    \/ \E m \in Modes : start_proxy(m)

SharingSpec == SharingInit /\ [][SharingNext]_sharingVars

-----------------------------------------------------------------------------
(* Properties.                                                             *)

(* What download writes and returns is a document as uploaded, its content *)
(* and its owner, whatever the proxy does to requests and responses and    *)
(* however many contacts were met through it.  It is the one that was      *)
(* asked for, although the client compares no doc_id: it relies on the     *)
(* nonce of its GET_DOC.  Only the answer to an earlier GET_DOC that the   *)
(* client did not wait for can pass in its place.                          *)
DownloadsFaithful ==
    \A s \in saved : /\ DocumentExists(s.content)
                     /\ s.owner = documents[s.content].owner
                     /\ s.doc_id = s.content \/ <<s.n, TRUE>> \in crossed

(* u would get the document d out of the rows of the server.               *)
CanOpen(d, u) ==
    LET s == shares[<<d, u>>]
        document == documents[d].blob
    IN  /\ doc_hash(document) = s.body.doc_hash
        /\ ecdsa_verify(users[s.sender].sig_pub, share_body(s), s.body.share_sig)
        /\ unwraps(u, s)
        /\ gcm_opens(unwrap_fk(s), document.body, header_aad(document))

(* When upload or share has returned, its document can be opened by its    *)
(* owner or recipient ever after, although others share the same document  *)
(* and replace the row; and every row opens, also those of operations that *)
(* were cut off, unless its sender has met the recipient through a proxy   *)
(* that handed out other keys, or was given another document by a replay.  *)
SharesOpen ==
    /\ \A k \in confirmed : shares[k] # NoRow
    /\ \A d \in DocId, u \in Registered : shares[<<d, u>>] # NoRow =>
          LET s == shares[<<d, u>>]
          IN  /\ s.sender = u \/ trust[s.sender][u] = bundle(u)
              /\ \A b \in BOOLEAN : <<s.body.eph_pub, b>> \notin crossed
              => CanOpen(d, u)
=============================================================================
