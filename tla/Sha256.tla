------------------------------- MODULE Sha256 -------------------------------
(***************************************************************************)
(* The class Sha256 of crypto/sha256.py: a message comes in pieces, whole  *)
(* blocks are compressed as soon as they are there and the rest waits in   *)
(* _buffer.  _compress is a free function here: the hash state is the      *)
(* sequence of the bytes compressed so far, so that two states are equal   *)
(* when the same blocks were compressed in the same order.                 *)
(*                                                                         *)
(* A block has BLOCK bytes (64 in the code), of which the length takes the *)
(* last LENGTH (8 in the code).                                            *)
(***************************************************************************)
EXTENDS Integers, Sequences

CONSTANTS Byte256,  \* the bytes of messages
          Piece,    \* the pieces update() is called with
          BLOCK256, LENGTH,
          MaxFed    \* bound: bytes fed to one object

ASSUME BlockAssumption == BLOCK256 \in Nat /\ LENGTH \in 1 .. BLOCK256 - 1 /\ MaxFed \in Nat
ASSUME PieceAssumption == Piece \subseteq Seq(Byte256)

VARIABLES h,         \* _h
          buffer,    \* _buffer
          length,    \* _length
          finalized, \* _finalized
          fed,       \* history: everything update() was given
          digested   \* what digest() returned

streamVars == <<h, buffer, length, finalized, fed, digested>>

(* A byte of a message, the byte 0x80, a zero and a byte of the length.    *)
Data(s) == [i \in DOMAIN s |-> <<"data", s[i]>>]
Marker == << <<"data", "80">> >>
ZeroBytes(n) == [i \in 1 .. n |-> <<"data", "00">>]
LengthBytes(n) == [i \in 1 .. LENGTH |-> <<"length", n, i>>]

(* The loop that appends zeros until the length has room in the block.     *)
ZerosFor(n) == (2 * BLOCK256 - LENGTH - 1 - (n % BLOCK256)) % BLOCK256

(* The bytes that are left of a message of len bytes, and the padding.     *)
Padded(s, len) == s \o Marker \o ZeroBytes(ZerosFor(Len(s))) \o LengthBytes(len)

(* sha256: the padded message, block by block.                             *)
sha256(s) == Padded(s, Len(s))

-----------------------------------------------------------------------------
(* crypto/hmac.py and crypto/kdf.py.  A digest counts as one byte here.    *)
Digest(s) == << <<"digest", sha256(s)>> >>
XorPad(pad, key) == [i \in DOMAIN key |-> <<pad, key[i]>>]

(* Faulty variants, named after the bug, stand before the definition they  *)
(* are variants of; nothing else uses them.                                *)
block_key_cut(key) == SubSeq(key \o ZeroBytes(BLOCK256), 1, BLOCK256)

block_key(key) ==
    LET k == IF Len(key) > BLOCK256 THEN Digest(key) ELSE key
    IN k \o ZeroBytes(BLOCK256 - Len(k))

hmac_sha256(key, message) ==
    Digest(XorPad("opad", block_key(key)) \o Digest(XorPad("ipad", block_key(key)) \o message))

derive_auth_key(master) == hmac_sha256(master, << <<"data", "auth">> >>)
derive_kek(master) == hmac_sha256(master, << <<"data", "kek">> >>)

-----------------------------------------------------------------------------
StreamInit ==
    /\ h = <<>> /\ buffer = <<>> /\ length = 0 /\ finalized = FALSE
    /\ fed = <<>> /\ digested = <<>>

-----------------------------------------------------------------------------
update(data) ==
    /\ ~finalized
    /\ Len(fed) + Len(data) <= MaxFed
    /\ length' = length + Len(data)
    /\ fed' = fed \o data
    /\ LET buf == buffer \o Data(data)
           n_full == Len(buf) \div BLOCK256
       IN /\ h' = h \o SubSeq(buf, 1, n_full * BLOCK256)
          /\ buffer' = SubSeq(buf, n_full * BLOCK256 + 1, Len(buf))
    /\ UNCHANGED <<finalized, digested>>

digest_of_the_rest ==
    /\ ~finalized
    /\ finalized' = TRUE
    /\ digested' = h \o Padded(buffer, Len(buffer))
    /\ UNCHANGED <<h, buffer, length, fed>>

(* digest; the object refuses every later call.                            *)
digest ==
    /\ ~finalized
    /\ finalized' = TRUE
    /\ digested' = h \o Padded(buffer, length)
    /\ UNCHANGED <<h, buffer, length, fed>>

StreamNext == (\E data \in Piece : update(data)) \/ digest

StreamSpec == StreamInit /\ [][StreamNext]_streamVars

-----------------------------------------------------------------------------
(* Whatever the pieces were, digest() of the object is sha256 of their     *)
(* concatenation: the bytes compressed and the bytes that wait are the     *)
(* message, in order, and the padding is that of the whole message.        *)
StreamIsOneShot ==
    /\ h \o buffer = Data(fed)
    /\ finalized => digested = sha256(Data(fed))
=============================================================================
