----------------------------- MODULE Encodings -----------------------------
(***************************************************************************)
(* Whoever hashes, signs or encrypts bytes means what they stand for: the  *)
(* blobs of common/formats.py, the canonical strings of server/session.py, *)
(* the keys of crypto/kdf.py and the Sha256 object.  A behaviour is one    *)
(* call, or the life of one Sha256 object.  Blobs are packed and unpacked  *)
(* field by field, and what one of the two returns is given to the other.  *)
(***************************************************************************)
EXTENDS Codec, Sha256

CONSTANTS Name,          \* the strings in records
          Records,       \* layout name -> records to pack
          Blobs,         \* layout name -> byte strings to unpack
          Character,     \* of the parts of canonical strings
          SignedRequest, \* requests whose canonical string is signed
          Keys256        \* HMAC keys

ASSUME NameAssumption ==
    /\ \A s \in Name : encode_utf8(s) \in Seq(Byte) /\ decode_utf8(encode_utf8(s)) = s
    /\ Refused \notin Name /\ Refused \notin Seq(Byte)

FieldType(kind) ==
    CASE kind = "str" -> Name [] kind \in {"u32", "u64"} -> Int [] OTHER -> Seq(Byte)

ASSUME RecordAssumption ==
    \A t \in DOMAIN Layout :
        /\ \A d \in Records[t] :
              /\ d = [n \in FieldNames(t) |-> d[n]]
              /\ \A i \in DOMAIN Layout[t] : d[Layout[t][i].name] \in FieldType(Layout[t][i].kind)
        /\ \A N \in SUBSET FieldNames(t) : Refused \notin [N -> Name \cup Int \cup Seq(Byte)]
        /\ Blobs[t] \subseteq Seq(Byte)

(* Names and nonces are any strings.  A document id has no colon, for      *)
(* bytes.fromhex refuses one (server/server.py:294, 335).                  *)
String == Seq(Character)
HexString == Seq(Character \ {":"})

ASSUME RequestAssumption ==
    SignedRequest \subseteq
        [type : {"share"}, user : String, doc_id : HexString, recipient : String, nonce : String]
        \cup [type : {"download"}, user : String, doc_id : HexString, nonce : String]
        \cup [type : {"upload", "change_password"}, user : String, nonce : String]

ASSUME KeyAssumption == Keys256 \subseteq Seq(Byte256)

VARIABLES call,   \* the call made, or None
          result  \* what it returned, or has so far, or Refused

vars == <<call, result, h, buffer, length, finalized, fed, digested>>

None == [op |-> "none"]

Init == call = None /\ result = <<>> /\ StreamInit

Idle == call = None /\ fed = <<>> /\ ~finalized

Calls(input, output) ==
    /\ call' = input
    /\ result' = output
    /\ UNCHANGED streamVars

-----------------------------------------------------------------------------
(* A call of pack has its record, one of unpack its blob, and the second   *)
(* of two calls both; ends are where the fields so far end, and earlier is *)
(* what ends was when the first call returned.                             *)
Coding(op, t, record, blob) ==
    [op |-> op, layout |-> t, record |-> record, blob |-> blob, ends |-> <<>>, earlier |-> <<>>]

First == call.earlier = <<>>
Complete == Len(call.ends) = Len(Layout[call.layout])
Position == IF call.ends = <<>> THEN Len(Magic[call.layout]) ELSE Last(call.ends)
Current == Layout[call.layout][Len(call.ends) + 1]

(* pack_document_header, pack_document, pack_payload, pack_share_body and  *)
(* pack_share: the checks of all fields come before the first byte, which  *)
(* makes no difference to what is returned.                                *)
CallPack == Idle /\ \E t \in DOMAIN Layout : \E d \in Records[t] :
    Calls(Coding("pack", t, d, None), Magic[t])

PackField ==
    /\ call.op = "pack" /\ result # Refused /\ ~Complete
    /\ LET part == pack_field(Current.kind, call.record[Current.name])
       IN IF part = Refused THEN result' = Refused /\ call' = call
          ELSE /\ result' = result \o part
               /\ call' = [call EXCEPT !.ends = Append(@, Len(result'))]
    /\ UNCHANGED streamVars

UnpackPacked ==
    /\ call.op = "pack" /\ result # Refused /\ Complete /\ First
    /\ call' = [call EXCEPT !.op = "unpack", !.blob = result, !.ends = <<>>, !.earlier = call.ends]
    /\ result' = <<>>
    /\ UNCHANGED streamVars

(* unpack_document, unpack_payload and unpack_share.                       *)
CallUnpack == Idle /\ \E t \in DOMAIN Layout : \E b \in Blobs[t] :
    Calls(Coding("unpack", t, None, b), IF IsPrefix(Magic[t], b) THEN <<>> ELSE Refused)

UnpackField ==
    /\ call.op = "unpack" /\ result # Refused /\ ~Complete
    /\ LET r == read_field(call.blob, Position, Current.kind)
           last == Len(call.ends) + 1 = Len(Layout[call.layout])
       IN IF ~r.ok \/ (last /\ ~assert_done(call.blob, r.pos)) THEN result' = Refused /\ call' = call
          ELSE /\ result' = [n \in DOMAIN result \cup {Current.name} |->
                                IF n = Current.name THEN r.value ELSE result[n]]
               /\ call' = [call EXCEPT !.ends = Append(@, r.pos)]
    /\ UNCHANGED streamVars

PackUnpacked ==
    /\ call.op = "unpack" /\ result # Refused /\ Complete /\ First
    /\ call' = [call EXCEPT !.op = "pack", !.record = result, !.ends = <<>>, !.earlier = call.ends]
    /\ result' = Magic[call.layout]
    /\ UNCHANGED streamVars

CallCanonical == Idle /\ \E r \in SignedRequest :
    Calls([op |-> "canonical", request |-> r], canonical(r))
CallHmac == Idle /\ \E key \in Keys256 :
    Calls([op |-> "derive_both", key |-> key], <<derive_auth_key(Data(key)), derive_kek(Data(key))>>)

StreamStep == call = None /\ StreamNext /\ UNCHANGED <<call, result>>

EncodingNext ==
    \/ CallPack \/ PackField \/ UnpackPacked
    \/ CallUnpack \/ UnpackField \/ PackUnpacked
    \/ CallCanonical \/ CallHmac \/ StreamStep

EncodingSpec == Init /\ [][EncodingNext]_vars

-----------------------------------------------------------------------------
(* Numbers, names and contents that have a place in the layout.            *)
RefFits(kind, v) ==
    CASE kind = "str"     -> Len(encode_utf8(v)) <= MAX_STR_LEN
      [] kind = "u32"     -> v \in 0 .. Base ^ U32 - 1
      [] kind = "u64"     -> v \in 0 .. Base ^ U64 - 1
      [] kind = "content" -> Len(v) < Base ^ U32 /\ Len(v) <= MAX_CONTENT_LEN
      [] kind = "fixed"   -> Len(v) = FIXED
      [] OTHER            -> TRUE

(* pack_* of common/formats.py refuse what does not fit (a content longer  *)
(* than 32 bits can count although MAX_CONTENT_LEN allows it, a name that  *)
(* is too long in UTF-8) and never cut it; everything else comes back from *)
(* unpack_* unchanged, every field from the bytes it was packed to, so     *)
(* that the additional data which unpack_document cuts out of a blob is    *)
(* the header the sender packed.                                           *)
PackedUnpacks ==
    /\ call.op = "pack" /\ First =>
          IF result = Refused THEN ~RefFits(Current.kind, call.record[Current.name])
          ELSE \A i \in DOMAIN call.ends :
                   RefFits(Layout[call.layout][i].kind, call.record[Layout[call.layout][i].name])
    /\ call.op = "unpack" /\ ~First =>
          /\ result # Refused
          /\ IsPrefix(call.ends, call.earlier)
          /\ \A n \in DOMAIN result : result[n] = call.record[n]
          /\ Complete => result = call.record

(* A blob has one meaning and a meaning one blob: whatever bytes unpack_*  *)
(* accept are the ones pack_* make of the fields read.  So the hash, the   *)
(* signature and the additional data, which are computed over bytes, speak *)
(* of the fields; and a blob that was cut or has bytes after its end is    *)
(* refused, as is one of the other kind.                                   *)
BlobsCanonical ==
    /\ call.op = "pack" /\ ~First =>
          /\ result # Refused
          /\ IsPrefix(call.ends, call.earlier)
          /\ IsPrefix(result, call.blob)
          /\ Complete => result = call.blob
    /\ call.op = "unpack" /\ result # Refused /\ call.layout # "payload" =>
          \A t \in {"document", "share"} \ {call.layout} : ~IsPrefix(Magic[t], call.blob)

(* Packing and unpacking are inverse to each other.                        *)
CodecFaithful == PackedUnpacks /\ BlobsCanonical

(* Names and nonces may contain colons (server/session.py joins with them) *)
(* but for the key of one user a canonical string stands for one request:  *)
(* if a second reading of it exists, the share blob that is sent along,    *)
(* which names its recipient, does not fit it.                             *)
CanonicalBinds ==
    call.op = "canonical" =>
        \A r \in SignedRequest :
            r.user = call.request.user /\ canonical(r) = result =>
                \/ r = call.request
                \/ r.type = "share" /\ call.request.type = "share" /\ r.recipient # call.request.recipient

(* Different master keys of one length give different keys, and the key    *)
(* for the challenge is never the one that encrypts the keystore.          *)
DerivedKeysDiffer ==
    call.op = "derive_both" =>
        /\ result[1] # result[2]
        /\ \A key \in Keys256 : Len(key) = Len(call.key) /\ key # call.key =>
              {derive_auth_key(Data(key)), derive_kek(Data(key))} \cap {result[1], result[2]} = {}
=============================================================================
