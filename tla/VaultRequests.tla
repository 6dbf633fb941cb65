--------------------------- MODULE VaultRequests ---------------------------
(***************************************************************************)
(* The requests of the SecureVault protocol (enum MsgType of               *)
(* common/wire.py, the fields the handlers of server/server.py require)    *)
(* and what the server checks of one request against the database: its     *)
(* signature over a canonical payload (server/session.py) and its blobs.   *)
(*                                                                         *)
(* A signature is the record of the key pair that made it and of what was  *)
(* signed, so that verification is equality; a signature that does not     *)
(* decode is one of a key that nobody registers.                           *)
(***************************************************************************)
EXTENDS ServerDB

CONSTANTS BadSalt,  \* a new_salt whose new_argon2_params are no integers
          Requests  \* the requests that may reach the server

DocRef == DocId \cup {BadDocId}

(* What a signature of a request or of a login challenge covers.           *)
Payload ==
    ({"upload", "change_password"} \X User \X Nonce)
    \cup ({"share"} \X User \X DocRef \X User \X Nonce)
    \cup ({"download"} \X User \X DocRef \X Nonce)
    \cup ({"challenge"} \X Nat)

Signature == [key : Key, payload : Payload]

(* The requests that carry a signed nonce, by the handler they are routed  *)
(* to.  username is the field owner, sender or user of the code.           *)
NonceTypes == {"UPLOAD", "SHARE", "GET_DOC", "CHANGE_PASSWORD"}

RegisterRequest == [type : {"REGISTER"}, username : User, row : UserRecord]
QueryRequest    == [type : {"LOGIN_CHALLENGE_REQ", "GET_SALT", "GET_USER_PUBKEY", "LIST_DOCS"},
                    username : User]
LoginRequest    == [type : {"LOGIN_RESPONSE"}, username : User, sig : Signature]
UploadRequest   == [type : {"UPLOAD"}, username : User, nonce : Nonce, sig : Signature,
                    document : DocBlob \cup {Garbage}]
ShareRequest    == [type : {"SHARE"}, username : User, recipient : User, doc_id : DocRef,
                    nonce : Nonce, sig : Signature, share_blob : ShareBlob \cup {Garbage}]
GetDocRequest   == [type : {"GET_DOC"}, username : User, doc_id : DocRef,
                    nonce : Nonce, sig : Signature]
ChangeRequest   == [type : {"CHANGE_PASSWORD"}, username : User, nonce : Nonce, sig : Signature,
                    new_salt : Salt \cup {BadSalt}, new_auth_pub : Key]

(* A frame recv_message refuses, a message type without a handler, or a    *)
(* payload in which _require_str or _require_b64 misses a field.           *)
MalformedRequest == [type : {"MALFORMED"}]

Request == RegisterRequest \cup QueryRequest \cup LoginRequest \cup UploadRequest
           \cup ShareRequest \cup GetDocRequest \cup ChangeRequest \cup MalformedRequest

ASSUME RequestsAssumption == Requests \subseteq Request

-----------------------------------------------------------------------------
verify_request_signature(pub, canonical_payload, sig) ==
    sig.key = pub /\ sig.payload = canonical_payload

(* The canonical strings.  The parts are joined by colons in the code; the *)
(* tuple keeps them apart, which is faithful for names without a colon.    *)
payload_upload(owner, n) == <<"upload", owner, n>>
payload_share(sender, doc_id, recipient, n) == <<"share", sender, doc_id, recipient, n>>
payload_download(user, doc_id, n) == <<"download", user, doc_id, n>>
payload_change_password(username, n) == <<"change_password", username, n>>

canonical(r) ==
    CASE r.type = "UPLOAD"  -> payload_upload(r.username, r.nonce)
      [] r.type = "SHARE"   -> payload_share(r.username, r.doc_id, r.recipient, r.nonce)
      [] r.type = "GET_DOC" -> payload_download(r.username, r.doc_id, r.nonce)
      [] r.type = "CHANGE_PASSWORD" -> payload_change_password(r.username, r.nonce)

CheckedKey(r, row) == IF r.type = "CHANGE_PASSWORD" THEN row.auth_pub ELSE row.sig_pub

(* The signature of r verifies under the row its caller has now.           *)
SignedByCaller(r) ==
    /\ UserExists(r.username)
    /\ verify_request_signature(CheckedKey(r, users[r.username]), canonical(r), r.sig)

WellFormed_without_params(r) ==
    CASE r.type = "UPLOAD" -> r.document # Garbage /\ r.document.owner = r.username
      [] r.type # "UPLOAD" -> TRUE

(* What a handler checks once the nonce is consumed: the document or share *)
(* parses and agrees with the request, the doc_id and the new Argon2       *)
(* parameters convert.                                                     *)
WellFormed(r) ==
    CASE r.type = "UPLOAD"  -> r.document # Garbage /\ r.document.owner = r.username
      [] r.type = "SHARE"   -> /\ r.doc_id \in DocId
                               /\ r.share_blob # Garbage
                               /\ r.share_blob.sender = r.username
                               /\ r.share_blob.recipient = r.recipient
                               /\ r.share_blob.doc_id = r.doc_id
      [] r.type = "GET_DOC" -> r.doc_id \in DocId
      [] r.type = "CHANGE_PASSWORD" -> r.new_salt # BadSalt

-----------------------------------------------------------------------------
(* Two requests that create the same row.                                  *)
SameRow(r1, r2) ==
    \/ r1.type = "REGISTER" /\ r2.type = "REGISTER" /\ r1.username = r2.username
    \/ r1.type = "UPLOAD" /\ r2.type = "UPLOAD" /\ r1.document.doc_id = r2.document.doc_id

(* Two requests that spend the same nonce, the same login challenge or the *)
(* same primary key, of which the server may carry out only one.           *)
Conflict(r1, r2) ==
    \/ r1.type \in NonceTypes /\ r2.type \in NonceTypes /\ r1.nonce = r2.nonce
    \/ r1.type = "LOGIN_RESPONSE" /\ r2.type = "LOGIN_RESPONSE" /\ r1.sig.payload = r2.sig.payload
    \/ SameRow(r1, r2)
=============================================================================
