------------------------------ MODULE Formats ------------------------------
(***************************************************************************)
(* The names and the packed blobs of common/formats.py that the components *)
(* of SecureVault exchange.  A blob is the record of the fields that       *)
(* unpack_document and unpack_share read from it; body stands for the      *)
(* fields the server never looks into (nonce, ciphertext, tag, signature). *)
(* Garbage is any byte string the two parsers refuse.                      *)
(***************************************************************************)
EXTENDS Integers

CONSTANTS User,     \* account names
          DocId,    \* 16-byte document identifiers
          BadDocId, \* a doc_id field that is not the hex of 16 bytes
          Body,     \* the opaque remainders of blobs
          Nonce,    \* the request_nonce fields of requests
          Garbage   \* bytes that are no blob

DocBlob   == [doc_id : DocId, owner : User, version : Nat, body : Body]
ShareBlob == [sender : User, recipient : User, doc_id : DocId, body : Body]

ASSUME BlobAssumption ==
    /\ Garbage \notin DocBlob
    /\ Garbage \notin ShareBlob
    /\ BadDocId \notin DocId
=============================================================================
