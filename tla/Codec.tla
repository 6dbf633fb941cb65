------------------------------- MODULE Codec -------------------------------
(***************************************************************************)
(* The byte layouts of common/formats.py and the canonical strings of      *)
(* server/session.py, with every length scaled down: a byte has Base       *)
(* values and the fixed fields one or two bytes, but the limits are in the *)
(* order they have in the code (a u16 can exceed MAX_STR_LEN, and          *)
(* MAX_CONTENT_LEN exceeds a u32).                                         *)
(*                                                                         *)
(* A layout is the sequence of the fields that follow the magic bytes.     *)
(* Refused stands for the ValueError of packing and of unpacking.          *)
(***************************************************************************)
EXTENDS Integers, SequencesExt

CONSTANTS Base,            \* values of a byte
          U16, U32, U64,   \* bytes of the three kinds of numbers
          MAX_STR_LEN, MAX_CONTENT_LEN,
          Refused

ASSUME WidthAssumption ==
    /\ {Base, U16, U32, U64, MAX_STR_LEN, MAX_CONTENT_LEN} \subseteq Nat \ {0} /\ Base > 1
    /\ MAX_STR_LEN < Base ^ U16
    /\ MAX_CONTENT_LEN >= Base ^ U32

Byte == 0 .. Base - 1

from_bytes(b) == FoldLeft(LAMBDA n, x : n * Base + x, 0, b)
to_bytes(x, w) == [i \in 1 .. w |-> (x \div Base ^ (w - i)) % Base]

(* Each of the two is the inverse of the other.                            *)
ASSUME NumberAssumption ==
    \A w \in {U16, U32, U64} :
        /\ Base ^ w \in Nat
        /\ \A x \in 0 .. Base ^ w - 1 : to_bytes(x, w) \in [1 .. w -> Byte] /\ from_bytes(to_bytes(x, w)) = x
        /\ \A b \in [1 .. w -> Byte] : from_bytes(b) \in 0 .. Base ^ w - 1 /\ to_bytes(from_bytes(b), w) = b

-----------------------------------------------------------------------------
(* UTF-8, external: "e" is a character of two bytes, of which neither is   *)
(* the encoding of anything alone.                                         *)
Utf8 == [c \in {"a", "b", "e"} |-> CASE c = "a" -> <<0>> [] c = "b" -> <<1>> [] c = "e" -> <<2, 3>>]
encode_utf8(s) == FlattenSeq([i \in DOMAIN s |-> Utf8[s[i]]])
decode_utf8(b) ==
    LET S == {s \in BoundedSeq(DOMAIN Utf8, Len(b)) : encode_utf8(s) = b}
    IN IF S = {} THEN Refused ELSE CHOOSE s \in S : TRUE

(* _pack_u16, _pack_u32, _pack_u64                                         *)
pack_uint(x, w) == IF x \in 0 .. Base ^ w - 1 THEN to_bytes(x, w) ELSE Refused

pack_str(s) ==
    LET encoded == encode_utf8(s)
    IN IF Len(encoded) > MAX_STR_LEN THEN Refused
       ELSE pack_uint(Len(encoded), U16) \o encoded

(* A field of n bytes, whose length the pack functions check.              *)
pack_fixed(v, n) == IF Len(v) = n THEN v ELSE Refused

pack_content(v) ==
    IF Len(v) > MAX_CONTENT_LEN \/ pack_uint(Len(v), U32) = Refused THEN Refused
    ELSE pack_uint(Len(v), U32) \o v

-----------------------------------------------------------------------------
Field(name, kind) == [name |-> name, kind |-> kind]
FIXED == 1       \* DOC_ID_LEN, NONCE_LEN, TAG_LEN, SIG_LEN, ...

(* A document is its header and the three fields after it, and a share its *)
(* body and the signature.                                                 *)
Document == << Field("doc_id", "fixed"), Field("owner", "str"), Field("version", "u32"), Field("created_ms", "u64"),
               Field("nonce", "fixed"), Field("ciphertext", "rest"), Field("tag", "fixed") >>
Payload  == << Field("filename", "str"), Field("mime", "str"),
               Field("content", "content"), Field("content_sig", "fixed") >>
Share    == << Field("doc_id", "fixed"), Field("version", "u32"), Field("doc_hash", "fixed"),
               Field("sender", "str"), Field("recipient", "str"), Field("issued_ms", "u64"),
               Field("eph_pub", "fixed"), Field("nonce", "fixed"), Field("wrapped_fk", "fixed"), Field("tag", "fixed"),
               Field("share_sig", "fixed") >>

MAGIC_DOC == <<0>>
MAGIC_SHARE == <<1>>

pack_field(kind, v) ==
    CASE kind = "str"     -> pack_str(v)
      [] kind = "u32"     -> pack_uint(v, U32)
      [] kind = "u64"     -> pack_uint(v, U64)
      [] kind = "content" -> pack_content(v)
      [] kind = "rest"    -> v
      [] kind = "fixed"   -> pack_fixed(v, FIXED)

-----------------------------------------------------------------------------
Layout == [document |-> Document, payload |-> Payload, share |-> Share]
Magic == [document |-> MAGIC_DOC, payload |-> <<>>, share |-> MAGIC_SHARE]
FieldNames(t) == {Layout[t][i].name : i \in DOMAIN Layout[t]}

(* _Reader.read: n bytes of b from pos on; ok is FALSE where the code      *)
(* raises.                                                                 *)
read(b, pos, n) ==
    IF n < 0 \/ pos + n > Len(b) THEN [ok |-> FALSE, pos |-> pos, value |-> <<>>]
    ELSE [ok |-> TRUE, pos |-> pos + n, value |-> SubSeq(b, pos + 1, pos + n)]

read_uint(b, pos, w) ==
    LET r == read(b, pos, w) IN IF r.ok THEN [r EXCEPT !.value = from_bytes(@)] ELSE r

(* A length, if it is within the limit, and that many bytes.               *)
read_counted(b, pos, w, limit) ==
    LET l == read_uint(b, pos, w)
    IN IF ~l.ok \/ l.value > limit THEN [l EXCEPT !.ok = FALSE] ELSE read(b, l.pos, l.value)

read_str(b, pos) ==
    LET s == read_counted(b, pos, U16, MAX_STR_LEN)
    IN IF ~s.ok \/ decode_utf8(s.value) = Refused THEN [s EXCEPT !.ok = FALSE]
       ELSE [s EXCEPT !.value = decode_utf8(@)]

read_field(b, pos, kind) ==
    CASE kind = "str"     -> read_str(b, pos)
      [] kind = "u32"     -> read_uint(b, pos, U32)
      [] kind = "u64"     -> read_uint(b, pos, U64)
      [] kind = "content" -> read_counted(b, pos, U32, MAX_CONTENT_LEN)
      [] kind = "rest"    -> read(b, pos, Len(b) - pos - FIXED)
      [] kind = "fixed"   -> read(b, pos, FIXED)

(* Faulty variants, named after the bug, stand before the definition they  *)
(* are variants of; nothing else uses them.                                *)
nothing_asserted(b, pos) == TRUE

(* _Reader.assert_done: nothing remains.                                   *)
assert_done(b, pos) == Len(b) - pos = 0

-----------------------------------------------------------------------------
(* The canonical strings: parts joined with colons.  A name, a nonce and a *)
(* document id are sequences of characters.                                *)
Joined(part, parts) == part \o <<":">> \o parts

canonical_without_document(r) ==
    IF r.type = "share" THEN Joined(<<"share">>, Joined(r.user, Joined(r.recipient, r.nonce)))
    ELSE Joined(<<r.type>>, Joined(r.user, r.nonce))

(* payload_upload, payload_share, payload_download and                     *)
(* payload_change_password.                                                *)
canonical(r) ==
    Joined(<<r.type>>, Joined(r.user,
        CASE r.type = "share"    -> Joined(r.doc_id, Joined(r.recipient, r.nonce))
          [] r.type = "download" -> Joined(r.doc_id, r.nonce)
          [] OTHER               -> r.nonce))
=============================================================================
