-------------------------- MODULE Encodings_proofs --------------------------
(***************************************************************************)
(* Bytes mean one thing: the Sha256 object hashes pieces as their          *)
(* concatenation, different keys and labels give different keys, a         *)
(* canonical string stands for one request, and blobs are packed and       *)
(* unpacked without loss, for all pieces, keys, names, records and blobs   *)
(* and all widths and limits.                                              *)
(***************************************************************************)
EXTENDS Encodings, SequenceTheorems, TLAPS

(* The elements of padded messages.                                        *)
Element == ({"data"} \X (Byte256 \cup {"80", "00"})) \cup ({"length"} \X Nat \X (1 .. LENGTH))

-----------------------------------------------------------------------------
(* Whole blocks do not change the position in a block.                     *)
LEMMA WholeBlocks ==
    ASSUME NEW b \in Nat \ {0}, NEW x \in Nat, NEW n \in Nat
    PROVE  (n * b + x) % b = x % b
<1> DEFINE q == x \div b
           r == x % b
           p == (n * b + x) \div b
           s == (n * b + x) % b
<1>1. /\ q \in Int /\ r \in Int
      /\ x = b * q + r /\ 0 <= r /\ r < b
  OBVIOUS
<1>2. n * b \in Nat
  OBVIOUS
<1>3. n * b + x \in Nat
  BY <1>2
<1>4. /\ p \in Int /\ s \in Int
      /\ n * b + x = b * p + s /\ 0 <= s /\ s < b
  BY <1>3
<1> HIDE DEF q, r, p, s
<1>5. b * (p - (n + q)) = r - s
  BY <1>1, <1>4
<1> DEFINE d == p - (n + q)
<1>6. d \in Int
  BY <1>1, <1>4
<1> HIDE DEF d
<1>7. ASSUME d >= 1 PROVE FALSE
  <2>1. b * d >= b
    BY <1>6, <1>7
  <2> QED
    BY <1>1, <1>4, <1>5, <2>1 DEF d
<1>8. ASSUME d <= -1 PROVE FALSE
  <2>1. b * d <= -b
    BY <1>6, <1>8
  <2> QED
    BY <1>1, <1>4, <1>5, <2>1 DEF d
<1>9. d = 0
  BY <1>6, <1>7, <1>8
<1>10. r = s
  BY <1>1, <1>4, <1>5, <1>9 DEF d
<1> QED
  BY <1>10 DEF r, s
-----------------------------------------------------------------------------
LEMMA DataFacts ==
    ASSUME NEW s \in Seq(Byte256)
    PROVE  /\ Data(s) \in Seq(Element)
           /\ Len(Data(s)) = Len(s)
           /\ \A i \in 1 .. Len(s) : Data(s)[i] = <<"data", s[i]>>
<1>1. Len(s) \in Nat /\ DOMAIN s = 1 .. Len(s) /\ \A i \in 1 .. Len(s) : s[i] \in Byte256
  OBVIOUS
<1>2. Data(s) = [i \in 1 .. Len(s) |-> <<"data", s[i]>>]
  BY <1>1 DEF Data
<1>3. \A i \in 1 .. Len(s) : <<"data", s[i]>> \in Element
  BY <1>1 DEF Element
<1> DEFINE d == Data(s)
<1>4. d \in [1 .. Len(s) -> Element]
  BY <1>2, <1>3
<1>5. \A i \in 1 .. Len(s) : d[i] = <<"data", s[i]>>
  BY <1>2
<1> HIDE DEF d
<1>6. d \in Seq(Element) /\ Len(d) = Len(s)
  BY <1>1, <1>4
<1> QED
  BY <1>5, <1>6 DEF d

(* Concatenation is associative.                                           *)
LEMMA Associative ==
    \A a, b, c \in Seq(Element) : (a \o b) \o c = a \o (b \o c)
  BY ConcatAssociative

LEMMA ConcatType == \A a, b \in Seq(Element) : a \o b \in Seq(Element)
  BY ConcatProperties

(* What a concatenation is made of.                                        *)
LEMMA ConcatFacts ==
    ASSUME NEW S, NEW a \in Seq(S), NEW b \in Seq(S)
    PROVE  /\ a \o b \in Seq(S)
           /\ Len(a \o b) = Len(a) + Len(b)
           /\ \A i \in 1 .. Len(a) + Len(b) :
                 (a \o b)[i] = IF i <= Len(a) THEN a[i] ELSE b[i - Len(a)]
  BY ConcatProperties

LEMMA DataConcat ==
    ASSUME NEW s \in Seq(Byte256), NEW t \in Seq(Byte256)
    PROVE  Data(s \o t) = Data(s) \o Data(t)
<1>1. /\ s \o t \in Seq(Byte256)
      /\ Len(s \o t) = Len(s) + Len(t)
      /\ \A i \in 1 .. Len(s) + Len(t) : (s \o t)[i] = IF i <= Len(s) THEN s[i] ELSE t[i - Len(s)]
  BY ConcatProperties
<1>2. /\ Data(s \o t) \in Seq(Element) /\ Len(Data(s \o t)) = Len(s) + Len(t)
      /\ \A i \in 1 .. Len(s) + Len(t) : Data(s \o t)[i] = <<"data", (s \o t)[i]>>
  BY <1>1, DataFacts
<1>3. /\ Data(s) \in Seq(Element) /\ Len(Data(s)) = Len(s)
      /\ \A i \in 1 .. Len(s) : Data(s)[i] = <<"data", s[i]>>
  BY DataFacts
<1>4. /\ Data(t) \in Seq(Element) /\ Len(Data(t)) = Len(t)
      /\ \A i \in 1 .. Len(t) : Data(t)[i] = <<"data", t[i]>>
  BY DataFacts
<1>5. /\ Data(s) \o Data(t) \in Seq(Element)
      /\ Len(Data(s) \o Data(t)) = Len(s) + Len(t)
      /\ \A i \in 1 .. Len(s) + Len(t) :
            (Data(s) \o Data(t))[i] = IF i <= Len(s) THEN Data(s)[i] ELSE Data(t)[i - Len(s)]
  <2> DEFINE a == Data(s)
             b == Data(t)
  <2>1. a \in Seq(Element) /\ b \in Seq(Element) /\ Len(a) = Len(s) /\ Len(b) = Len(t)
    BY <1>3, <1>4
  <2> HIDE DEF a, b
  <2>2. /\ a \o b \in Seq(Element) /\ Len(a \o b) = Len(a) + Len(b)
        /\ \A i \in 1 .. Len(a) + Len(b) : (a \o b)[i] = IF i <= Len(a) THEN a[i] ELSE b[i - Len(a)]
    BY <2>1, ConcatFacts
  <2> QED
    BY <2>1, <2>2 DEF a, b
<1>6. \A i \in 1 .. Len(s) + Len(t) : Data(s \o t)[i] = (Data(s) \o Data(t))[i]
  <2> SUFFICES ASSUME NEW i \in 1 .. Len(s) + Len(t)
               PROVE  Data(s \o t)[i] = (Data(s) \o Data(t))[i]
    OBVIOUS
  <2>1. Len(s) \in Nat /\ Len(t) \in Nat
    OBVIOUS
  <2>2. CASE i <= Len(s)
    <3>1. i \in 1 .. Len(s)
      BY <2>1, <2>2
    <3> QED
      BY <1>1, <1>2, <1>3, <1>4, <1>5, <2>2, <3>1
  <2>3. CASE ~(i <= Len(s))
    <3>1. i - Len(s) \in 1 .. Len(t)
      BY <2>1, <2>3
    <3> QED
      BY <1>1, <1>2, <1>3, <1>4, <1>5, <2>3, <3>1
  <2> QED
    BY <2>2, <2>3
<1> QED
  BY <1>2, <1>5, <1>6, SeqEqual

(* The padding depends on the position in the block and on the length of   *)
(* the whole message only.                                                 *)
LEMMA PaddedTail ==
    ASSUME NEW s \in Seq(Element), NEW t \in Seq(Element), NEW n \in Nat,
           NEW q \in Nat, Len(s) = q * BLOCK256
    PROVE  s \o Padded(t, n) = Padded(s \o t, n)
<1>1. BLOCK256 \in Nat \ {0} /\ LENGTH \in 1 .. BLOCK256 - 1
  BY BlockAssumption
<1>2. Len(t) \in Nat /\ Len(s \o t) = q * BLOCK256 + Len(t)
  OBVIOUS
<1>3. (q * BLOCK256 + Len(t)) % BLOCK256 = Len(t) % BLOCK256
  BY <1>1, <1>2, WholeBlocks
<1>4. ZerosFor(Len(s \o t)) = ZerosFor(Len(t))
  BY <1>2, <1>3 DEF ZerosFor
<1>5. ZerosFor(Len(t)) \in Nat
  <2>1. Len(t) % BLOCK256 \in Int
    BY <1>1, <1>2
  <2>2. 2 * BLOCK256 - LENGTH - 1 - (Len(t) % BLOCK256) \in Int
    BY <1>1, <2>1
  <2> QED
    BY <1>1, <2>2 DEF ZerosFor
<1> DEFINE z == ZeroBytes(ZerosFor(Len(t)))
           l == LengthBytes(n)
<1>6. z \in Seq(Element)
  <2>1. <<"data", "00">> \in Element
    BY DEF Element
  <2>2. z \in [1 .. ZerosFor(Len(t)) -> Element]
    BY <2>1 DEF ZeroBytes
  <2> QED
    BY <1>5, <2>2
<1>7. l \in Seq(Element)
  <2>1. \A i \in 1 .. LENGTH : <<"length", n, i>> \in Element
    BY DEF Element
  <2>2. l \in [1 .. LENGTH -> Element]
    BY <2>1 DEF LengthBytes
  <2> QED
    BY <1>1, <2>2
<1>8. Marker \in Seq(Element)
  <2>1. <<"data", "80">> \in Element
    BY DEF Element
  <2> QED
    BY <2>1 DEF Marker
<1> HIDE DEF z, l
<1>9. Padded(t, n) = ((t \o Marker) \o z) \o l /\ Padded(s \o t, n) = (((s \o t) \o Marker) \o z) \o l
  BY <1>4 DEF Padded, z, l
<1>10. PICK mm, zz, ll : mm = Marker /\ zz = z /\ ll = l
  OBVIOUS
<1>11. mm \in Seq(Element) /\ zz \in Seq(Element) /\ ll \in Seq(Element)
  BY <1>6, <1>7, <1>8, <1>10
<1>12. s \o (((t \o mm) \o zz) \o ll) = (((s \o t) \o mm) \o zz) \o ll
  <2>1. PICK tm : tm = t \o mm
    OBVIOUS
  <2>2. PICK tmz : tmz = tm \o zz
    OBVIOUS
  <2>3. tm \in Seq(Element)
    BY <1>11, <2>1, ConcatType
  <2>4. tmz \in Seq(Element)
    BY <1>11, <2>2, <2>3, ConcatType
  <2>5. (s \o tmz) \o ll = s \o (tmz \o ll)
    BY <1>11, <2>4, Associative, Zenon
  <2>6. (s \o tm) \o zz = s \o (tm \o zz)
    BY <1>11, <2>3, Associative, Zenon
  <2>7. (s \o t) \o mm = s \o (t \o mm)
    BY <1>11, Associative, Zenon
  <2> QED
    BY <2>1, <2>2, <2>5, <2>6, <2>7
<1> QED
  BY <1>9, <1>10, <1>12

-----------------------------------------------------------------------------
(* The inductive invariant: what was compressed are whole blocks, _buffer  *)
(* is what follows them in the message, and _length counts all of it.      *)
StreamInv ==
    /\ fed \in Seq(Byte256)
    /\ h \in Seq(Element) /\ buffer \in Seq(Element)
    /\ \E q \in Nat : Len(h) = q * BLOCK256
    /\ h \o buffer = Data(fed)
    /\ length = Len(fed)
    /\ finalized \in BOOLEAN
    /\ finalized => digested = sha256(Data(fed))

LEMMA InitStreamInv == StreamInit => StreamInv
<1> SUFFICES ASSUME StreamInit PROVE StreamInv
  OBVIOUS
<1>1. <<>> \in Seq(Byte256) /\ <<>> \in Seq(Element) /\ <<>> \o <<>> = <<>>
  OBVIOUS
<1>2. Data(<<>>) = <<>>
  BY DEF Data
<1>3. Len(<<>>) = 0 * BLOCK256
  BY BlockAssumption
<1> QED
  BY <1>1, <1>2, <1>3 DEF StreamInit, StreamInv

LEMMA UpdateStreamInv ==
    ASSUME StreamInv, NEW data \in Piece, update(data)
    PROVE  StreamInv'
<1> DEFINE buf == buffer \o Data(data)
           n == (Len(buf) \div BLOCK256) * BLOCK256
<1>1. data \in Seq(Byte256)
  BY PieceAssumption
<1>2. /\ length' = length + Len(data) /\ fed' = fed \o data
      /\ h' = h \o SubSeq(buf, 1, n) /\ buffer' = SubSeq(buf, n + 1, Len(buf))
      /\ UNCHANGED <<finalized, digested>> /\ ~finalized
  BY DEF update
<1>3. /\ fed \in Seq(Byte256) /\ h \in Seq(Element) /\ buffer \in Seq(Element)
      /\ h \o buffer = Data(fed) /\ length = Len(fed) /\ finalized \in BOOLEAN
  BY DEF StreamInv
<1>4. PICK q \in Nat : Len(h) = q * BLOCK256
  BY DEF StreamInv
<1>5. Data(data) \in Seq(Element) /\ Data(fed) \in Seq(Element)
  BY <1>1, <1>3, DataFacts
<1>6. buf \in Seq(Element) /\ Len(buf) \in Nat
  BY <1>3, <1>5, ConcatProperties, LenProperties
<1> HIDE DEF buf
<1>7. /\ Len(buf) \div BLOCK256 \in Nat /\ n \in Nat /\ n <= Len(buf)
  <2>1. BLOCK256 \in Nat \ {0}
    BY BlockAssumption
  <2>2. /\ Len(buf) \div BLOCK256 \in Int /\ Len(buf) % BLOCK256 \in Int
        /\ Len(buf) = BLOCK256 * (Len(buf) \div BLOCK256) + (Len(buf) % BLOCK256)
        /\ 0 <= Len(buf) % BLOCK256
    BY <1>6, <2>1
  <2>3. Len(buf) \div BLOCK256 >= 0
    BY <1>6, <2>1
  <2> QED
    BY <1>6, <2>1, <2>2, <2>3
<1>8. n = (Len(buf) \div BLOCK256) * BLOCK256
  OBVIOUS
<1> HIDE DEF n
<1>9. /\ SubSeq(buf, 1, n) \in Seq(Element) /\ Len(SubSeq(buf, 1, n)) = n
      /\ SubSeq(buf, n + 1, Len(buf)) \in Seq(Element)
  <2>1. \A i \in 1 .. Len(buf) : buf[i] \in Element
    BY <1>6, ElementOfSeq
  <2>2. (\A i \in 1 .. n : buf[i] \in Element) /\ \A i \in n + 1 .. Len(buf) : buf[i] \in Element
    BY <1>6, <1>7, <2>1
  <2>3. n \in Int /\ n + 1 \in Int /\ Len(buf) \in Int /\ 1 \in Int
    BY <1>6, <1>7
  <2>4. SubSeq(buf, 1, n) \in Seq(Element) /\ Len(SubSeq(buf, 1, n)) = IF 1 <= n THEN n - 1 + 1 ELSE 0
    BY <2>2, <2>3, SubSeqProperties
  <2>5. SubSeq(buf, n + 1, Len(buf)) \in Seq(Element)
    BY <2>2, <2>3, SubSeqProperties
  <2> QED
    BY <1>7, <2>4, <2>5
<1>10. SubSeq(buf, 1, n) \o SubSeq(buf, n + 1, Len(buf)) = buf
  <2>1. 1 \in 1 .. Len(buf) + 1 /\ n \in 1 - 1 .. Len(buf) /\ Len(buf) \in n .. Len(buf)
    BY <1>6, <1>7
  <2>2. SubSeq(buf, 1, n) \o SubSeq(buf, n + 1, Len(buf)) = SubSeq(buf, 1, Len(buf))
    BY <1>6, <2>1, ConcatAdjacentSubSeq
  <2> QED
    BY <1>6, <2>2, SubSeqFull
<1>11. h' \o buffer' = Data(fed')
  <2>1. h' \o buffer' = h \o buf
    <3> DEFINE whole == SubSeq(buf, 1, n)
               rest == SubSeq(buf, n + 1, Len(buf))
    <3>1. whole \in Seq(Element) /\ rest \in Seq(Element) /\ h \in Seq(Element)
      BY <1>3, <1>9
    <3>2. whole \o rest = buf /\ h' = h \o whole /\ buffer' = rest
      BY <1>2, <1>10
    <3> HIDE DEF whole, rest
    <3>3. (h \o whole) \o rest = h \o (whole \o rest)
      BY <3>1, Associative, Zenon
    <3> QED
      BY <3>2, <3>3
  <2>2. h \o buf = (h \o buffer) \o Data(data)
    <3> DEFINE d == Data(data)
    <3>1. d \in Seq(Element) /\ h \in Seq(Element) /\ buffer \in Seq(Element)
      BY <1>3, <1>5
    <3> HIDE DEF d
    <3>2. (h \o buffer) \o d = h \o (buffer \o d)
      BY <3>1, Associative, Zenon
    <3> QED
      BY <3>2 DEF d, buf
  <2>3. Data(fed') = Data(fed) \o Data(data)
    BY <1>1, <1>2, <1>3, DataConcat
  <2> QED
    BY <1>3, <2>1, <2>2, <2>3
<1>12. \E p \in Nat : Len(h') = p * BLOCK256
  <2>1. Len(h') = Len(h) + n
    BY <1>2, <1>3, <1>9, ConcatProperties
  <2>2. Len(h') = (q + Len(buf) \div BLOCK256) * BLOCK256
    BY <1>4, <1>7, <1>8, <2>1, BlockAssumption
  <2>3. q + Len(buf) \div BLOCK256 \in Nat
    BY <1>4, <1>7
  <2> QED
    BY <2>2, <2>3
<1>13. fed' \in Seq(Byte256) /\ length' = Len(fed')
  BY <1>1, <1>2, <1>3, ConcatProperties
<1>14. h' \in Seq(Element) /\ buffer' \in Seq(Element)
  BY <1>2, <1>3, <1>9, ConcatProperties
<1> QED
  BY <1>2, <1>3, <1>11, <1>12, <1>13, <1>14 DEF StreamInv

LEMMA DigestStreamInv == StreamInv /\ digest => StreamInv'
<1> SUFFICES ASSUME StreamInv, digest PROVE StreamInv'
  OBVIOUS
<1>1. PICK q \in Nat : Len(h) = q * BLOCK256
  BY DEF StreamInv
<1>2. Len(fed) \in Nat /\ Len(h \o buffer) = Len(fed)
  BY DataFacts DEF StreamInv
<1>3. h \o Padded(buffer, length) = Padded(h \o buffer, Len(fed))
  BY <1>1, <1>2, PaddedTail DEF StreamInv
<1>4. digested' = sha256(Data(fed))
  BY <1>2, <1>3 DEF digest, sha256, StreamInv
<1> QED
  BY <1>4 DEF digest, StreamInv

LEMMA NextStreamInv == StreamInv /\ [StreamNext]_streamVars => StreamInv'
<1> SUFFICES ASSUME StreamInv, [StreamNext]_streamVars PROVE StreamInv'
  OBVIOUS
<1>1. CASE UNCHANGED streamVars
  BY <1>1 DEF streamVars, StreamInv
<1> QED
  BY <1>1, UpdateStreamInv, DigestStreamInv DEF StreamNext

(* However a message is cut into pieces, digest() is sha256 of the whole.  *)
THEOREM PiecesHashAsOne == StreamSpec => []StreamIsOneShot
<1>1. StreamInv => StreamIsOneShot
  BY DEF StreamInv, StreamIsOneShot
<1> QED
  BY <1>1, InitStreamInv, NextStreamInv, PTL DEF StreamSpec
-----------------------------------------------------------------------------
(* Strings joined with colons.                                             *)
LEMMA JoinedFacts ==
    ASSUME NEW S, ":" \in S, NEW a \in Seq(S), NEW b \in Seq(S)
    PROVE  /\ Joined(a, b) \in Seq(S)
           /\ Len(Joined(a, b)) = Len(a) + 1 + Len(b)
           /\ Joined(a, b)[Len(a) + 1] = ":"
           /\ \A i \in 1 .. Len(a) : Joined(a, b)[i] = a[i]
<1> DEFINE colon == <<":">>
<1>1. colon \in Seq(S) /\ Len(colon) = 1 /\ colon[1] = ":"
  OBVIOUS
<1> HIDE DEF colon
<1>2. PICK c : c = a \o colon
  OBVIOUS
<1>3. /\ c \in Seq(S) /\ Len(c) = Len(a) + 1
      /\ \A i \in 1 .. Len(a) + 1 : c[i] = IF i <= Len(a) THEN a[i] ELSE colon[i - Len(a)]
  <2>1. /\ c \in Seq(S) /\ Len(c) = Len(a) + Len(colon)
        /\ \A i \in 1 .. Len(a) + Len(colon) : c[i] = IF i <= Len(a) THEN a[i] ELSE colon[i - Len(a)]
    BY <1>1, <1>2, ConcatFacts, Zenon
  <2> QED
    BY <1>1, <2>1
<1>4. PICK j : j = c \o b
  OBVIOUS
<1>5. /\ j \in Seq(S) /\ Len(j) = Len(c) + Len(b)
      /\ \A i \in 1 .. Len(c) + Len(b) : j[i] = IF i <= Len(c) THEN c[i] ELSE b[i - Len(c)]
  BY <1>3, <1>4, ConcatFacts
<1>6. Joined(a, b) = j
  BY <1>2, <1>4 DEF Joined, colon
<1>7. Len(a) \in Nat /\ Len(b) \in Nat
  OBVIOUS
<1>8. j[Len(a) + 1] = ":"
  BY <1>1, <1>3, <1>5, <1>7
<1>9. \A i \in 1 .. Len(a) : j[i] = a[i]
  BY <1>3, <1>5, <1>7
<1> QED
  BY <1>3, <1>5, <1>6, <1>8, <1>9

LEMMA JoinedRest ==
    ASSUME NEW S, ":" \in S, NEW a \in Seq(S), NEW b \in Seq(S), NEW c \in Seq(S),
           Joined(a, b) = Joined(a, c)
    PROVE  b = c
<1> DEFINE d == a \o <<":">>
<1>1. d \in Seq(S)
  <2>1. <<":">> \in Seq(S)
    OBVIOUS
  <2> QED
    BY <2>1, ConcatProperties
<1>2. d \o b = d \o c
  BY DEF Joined
<1> HIDE DEF d
<1> QED
  BY <1>1, <1>2, ConcatSimplifications

(* A first part without a colon ends at the first colon.                   *)
LEMMA JoinedPart ==
    ASSUME NEW S, ":" \in S, NEW a \in Seq(S), NEW b \in Seq(S), NEW c \in Seq(S), NEW d \in Seq(S),
           \A i \in 1 .. Len(a) : a[i] # ":", \A i \in 1 .. Len(c) : c[i] # ":",
           Joined(a, b) = Joined(c, d)
    PROVE  a = c /\ b = d
<1>1. Len(a) \in Nat /\ Len(c) \in Nat
  OBVIOUS
<1>2. PICK j : j = Joined(a, b)
  OBVIOUS
<1>3. j[Len(a) + 1] = ":" /\ \A i \in 1 .. Len(a) : j[i] = a[i]
  BY <1>2, JoinedFacts
<1>4. j[Len(c) + 1] = ":" /\ \A i \in 1 .. Len(c) : j[i] = c[i]
  <2>1. j = Joined(c, d)
    BY <1>2
  <2> QED
    BY <2>1, JoinedFacts
<1>5. Len(a) = Len(c)
  <2>1. ASSUME Len(a) < Len(c) PROVE FALSE
    BY <1>1, <1>3, <1>4, <2>1, Len(a) + 1 \in 1 .. Len(c)
  <2>2. ASSUME Len(c) < Len(a) PROVE FALSE
    BY <1>1, <1>3, <1>4, <2>2, Len(c) + 1 \in 1 .. Len(a)
  <2> QED
    BY <1>1, <2>1, <2>2
<1>6. a = c
  BY <1>3, <1>4, <1>5, SeqEqual
<1> QED
  BY <1>6, JoinedRest

(* The types of requests and the characters of their other parts.          *)
Letter == Character \cup {":", "share", "download", "upload", "change_password"}
Shares == [type : {"share"}, user : String, doc_id : HexString, recipient : String, nonce : String]
Downloads == [type : {"download"}, user : String, doc_id : HexString, nonce : String]
Rest(r) ==
    CASE r.type = "share"    -> Joined(r.doc_id, Joined(r.recipient, r.nonce))
      [] r.type = "download" -> Joined(r.doc_id, r.nonce)
      [] OTHER               -> r.nonce

LEMMA RequestParts ==
    ASSUME NEW r \in SignedRequest
    PROVE  /\ r.type \in {"share", "download", "upload", "change_password"}
           /\ r.user \in Seq(Letter) /\ r.nonce \in Seq(Letter)
           /\ r.type \in {"share", "download"} => 
                 r.doc_id \in Seq(Letter) /\ \A i \in 1 .. Len(r.doc_id) : r.doc_id[i] # ":"
           /\ r.type = "share" => r.recipient \in Seq(Letter)
<1>1. \A s \in String : s \in Seq(Letter)
  BY DEF String, Letter
<1>2. ASSUME NEW s \in HexString
      PROVE  s \in Seq(Letter) /\ \A i \in 1 .. Len(s) : s[i] # ":"
  <2>1. s \in Seq(Character \ {":"})
    BY DEF HexString
  <2>2. \A i \in 1 .. Len(s) : s[i] \in Character \ {":"}
    BY <2>1, ElementOfSeq
  <2>3. s \in Seq(Letter)
    BY <2>1 DEF Letter
  <2> QED
    BY <2>2, <2>3
<1>3. CASE r \in [type : {"share"}, user : String, doc_id : HexString, recipient : String, nonce : String]
  BY <1>1, <1>2, <1>3
<1>4. CASE r \in [type : {"download"}, user : String, doc_id : HexString, nonce : String]
  BY <1>1, <1>2, <1>4
<1>5. CASE r \in [type : {"upload", "change_password"}, user : String, nonce : String]
  BY <1>1, <1>5
<1> QED
  BY <1>3, <1>4, <1>5, RequestAssumption

LEMMA DocumentParts ==
    ASSUME NEW r \in SignedRequest, NEW q \in SignedRequest,
           r.type \in {"share", "download"}, q.type \in {"share", "download"},
           NEW a \in Seq(Letter), NEW c \in Seq(Letter),
           Joined(r.doc_id, a) = Joined(q.doc_id, c)
    PROVE  r.doc_id = q.doc_id /\ a = c
<1>1. PICK d, e : d = r.doc_id /\ e = q.doc_id
  OBVIOUS
<1>2. d \in Seq(Letter) /\ \A i \in 1 .. Len(d) : d[i] # ":"
  BY <1>1, RequestParts
<1>3. e \in Seq(Letter) /\ \A i \in 1 .. Len(e) : e[i] # ":"
  BY <1>1, RequestParts
<1>4. ":" \in Letter
  BY DEF Letter
<1>5. Joined(d, a) = Joined(e, c)
  BY <1>1
<1>6. d = e /\ a = c
  BY <1>2, <1>3, <1>4, <1>5, JoinedPart
<1> QED
  BY <1>1, <1>6

LEMMA RestType == \A r \in SignedRequest : Rest(r) \in Seq(Letter)
<1> SUFFICES ASSUME NEW r \in SignedRequest PROVE Rest(r) \in Seq(Letter)
  OBVIOUS
<1>1. ":" \in Letter
  BY DEF Letter
<1>2. CASE r.type = "share"
  <2>1. Joined(r.recipient, r.nonce) \in Seq(Letter)
    BY <1>1, <1>2, RequestParts, JoinedFacts
  <2>2. Joined(r.doc_id, Joined(r.recipient, r.nonce)) \in Seq(Letter)
    BY <1>1, <1>2, <2>1, RequestParts, JoinedFacts
  <2> QED
    BY <1>2, <2>2 DEF Rest
<1>3. CASE r.type = "download"
  <2>1. Joined(r.doc_id, r.nonce) \in Seq(Letter)
    BY <1>1, <1>3, RequestParts, JoinedFacts
  <2> QED
    BY <1>3, <2>1 DEF Rest
<1>4. CASE r.type \notin {"share", "download"}
  BY <1>4, RequestParts DEF Rest
<1> QED
  BY <1>2, <1>3, <1>4

(* The first colon ends the type, the user is known, a document id has no  *)
(* colon; only between a recipient and a nonce the border is not marked.   *)
LEMMA CanonicalReadings ==
    ASSUME NEW r \in SignedRequest, NEW q \in SignedRequest,
           r.user = q.user, canonical(r) = canonical(q)
    PROVE  \/ r = q
           \/ r.type = "share" /\ q.type = "share" /\ r.recipient # q.recipient
<1>1. ":" \in Letter
  BY DEF Letter
<1>2. PICK x, y : x = Rest(r) /\ y = Rest(q)
  OBVIOUS
<1>3. x \in Seq(Letter) /\ y \in Seq(Letter)
  BY <1>2, RestType
<1>4. PICK u : u = r.user
  OBVIOUS
<1>5. u \in Seq(Letter)
  BY <1>4, RequestParts
<1>6. Joined(<<r.type>>, Joined(u, x)) = Joined(<<q.type>>, Joined(u, y))
  BY <1>2, <1>4 DEF canonical, Rest
<1>7. Joined(u, x) \in Seq(Letter) /\ Joined(u, y) \in Seq(Letter)
  BY <1>1, <1>3, <1>5, JoinedFacts
<1>8. r.type = q.type /\ Joined(u, x) = Joined(u, y)
  <2> DEFINE a == <<r.type>>
             c == <<q.type>>
  <2>1. /\ a \in Seq(Letter) /\ Len(a) = 1 /\ a[1] = r.type /\ a[1] # ":"
        /\ c \in Seq(Letter) /\ Len(c) = 1 /\ c[1] = q.type /\ c[1] # ":"
    BY RequestParts DEF Letter
  <2>2. Joined(a, Joined(u, x)) = Joined(c, Joined(u, y))
    BY <1>6
  <2> HIDE DEF a, c
  <2>3. (\A i \in 1 .. Len(a) : a[i] # ":") /\ \A i \in 1 .. Len(c) : c[i] # ":"
    BY <2>1
  <2>4. a = c /\ Joined(u, x) = Joined(u, y)
    BY <1>1, <1>7, <2>1, <2>2, <2>3, JoinedPart
  <2> QED
    BY <2>1, <2>4
<1>9. x = y
  BY <1>1, <1>3, <1>5, <1>8, JoinedRest
<1>10. CASE r.type \notin {"share", "download"}
  <2>1. r.nonce = q.nonce
    BY <1>2, <1>8, <1>9, <1>10 DEF Rest
  <2> QED
    BY <1>8, <1>10, <2>1, RequestAssumption
<1>11. CASE r.type = "download"
  <2>1. Joined(r.doc_id, r.nonce) = Joined(q.doc_id, q.nonce)
    BY <1>2, <1>8, <1>9, <1>11 DEF Rest
  <2>2. r.doc_id = q.doc_id /\ r.nonce = q.nonce
    <3>1. PICK a, c : a = r.nonce /\ c = q.nonce
      OBVIOUS
    <3>2. a \in Seq(Letter) /\ c \in Seq(Letter)
      BY <3>1, RequestParts
    <3>3. r.type \in {"share", "download"} /\ q.type \in {"share", "download"}
      BY <1>8, <1>11
    <3>4. Joined(r.doc_id, a) = Joined(q.doc_id, c)
      BY <2>1, <3>1
    <3>5. r.doc_id = q.doc_id /\ a = c
      BY <3>2, <3>3, <3>4, DocumentParts
    <3> QED
      BY <3>1, <3>5
  <2>3. r \in Downloads /\ q \in Downloads
    BY <1>8, <1>11, RequestAssumption DEF Downloads
  <2> QED
    BY <1>4, <1>8, <2>2, <2>3 DEF Downloads
<1>12. CASE r.type = "share" /\ r.recipient = q.recipient
  <2>1. PICK a, c : a = Joined(r.recipient, r.nonce) /\ c = Joined(q.recipient, q.nonce)
    OBVIOUS
  <2>2. a \in Seq(Letter) /\ c \in Seq(Letter)
    BY <1>1, <1>8, <1>12, <2>1, RequestParts, JoinedFacts
  <2>3. Joined(r.doc_id, a) = Joined(q.doc_id, c)
    BY <1>2, <1>8, <1>9, <1>12, <2>1 DEF Rest
  <2>4. r.doc_id = q.doc_id /\ a = c
    <3>1. r.type \in {"share", "download"} /\ q.type \in {"share", "download"}
      BY <1>8, <1>12
    <3> QED
      BY <2>2, <2>3, <3>1, DocumentParts
  <2>5. r.nonce = q.nonce
    BY <1>1, <1>8, <1>12, <2>1, <2>4, RequestParts, JoinedRest
  <2>6. r \in Shares /\ q \in Shares
    BY <1>8, <1>12, RequestAssumption DEF Shares
  <2> QED
    BY <1>8, <1>12, <2>4, <2>5, <2>6 DEF Shares
<1> QED
  BY <1>8, <1>10, <1>11, <1>12

-----------------------------------------------------------------------------
(* Different messages have different hashes: the last byte of the padding  *)
(* has the length of the message.                                          *)
LEMMA PaddedFacts ==
    ASSUME NEW S, NEW s \in Seq(S)
    PROVE  /\ Len(sha256(s)) \in Nat
           /\ sha256(s)[Len(sha256(s))] = <<"length", Len(s), LENGTH>>
           /\ \A i \in 1 .. Len(s) : sha256(s)[i] = s[i]
<1> DEFINE U == S \cup {<<"data", "80">>, <<"data", "00">>} \cup {<<"length", Len(s), i>> : i \in 1 .. LENGTH}
           n == ZerosFor(Len(s))
           z == ZeroBytes(n)
           l == LengthBytes(Len(s))
<1>1. BLOCK256 \in Nat \ {0} /\ LENGTH \in 1 .. BLOCK256 - 1
  BY BlockAssumption
<1>2. n \in Nat
  <2>1. Len(s) \in Nat
    OBVIOUS
  <2>2. Len(s) % BLOCK256 \in Int
    BY <1>1, <2>1
  <2>3. 2 * BLOCK256 - LENGTH - 1 - (Len(s) % BLOCK256) \in Int
    BY <1>1, <2>2
  <2> QED
    BY <1>1, <2>3 DEF ZerosFor
<1> HIDE DEF n
<1>3. z \in Seq(U) /\ Len(z) = n
  <2>1. z \in [1 .. n -> U]
    BY DEF ZeroBytes
  <2> HIDE DEF z, U
  <2> QED
    BY <1>2, <2>1
<1>4. l \in Seq(U) /\ Len(l) = LENGTH /\ l[LENGTH] = <<"length", Len(s), LENGTH>>
  <2>1. l \in [1 .. LENGTH -> U]
    BY DEF LengthBytes
  <2>2. l[LENGTH] = <<"length", Len(s), LENGTH>>
    BY <1>1 DEF LengthBytes
  <2> QED
    BY <1>1, <2>1, <2>2
<1>5. Marker \in Seq(U) /\ Len(Marker) = 1
  <2>1. <<"data", "80">> \in U
    OBVIOUS
  <2> HIDE DEF U
  <2> QED
    BY <2>1 DEF Marker
<1>6. s \in Seq(U) /\ Len(s) \in Nat
  <2>1. Len(s) \in Nat /\ s \in [1 .. Len(s) -> S]
    OBVIOUS
  <2>2. s \in [1 .. Len(s) -> U]
    BY <2>1
  <2> QED
    BY <2>1, <2>2
<1>7. sha256(s) = ((s \o Marker) \o z) \o l
  BY DEF sha256, Padded, n
<1> HIDE DEF U, z, l
<1>8. PICK a : a = s \o Marker
  OBVIOUS
<1>9. /\ a \in Seq(U) /\ Len(a) = Len(s) + 1
      /\ \A i \in 1 .. Len(s) : a[i] = s[i]
  <2>1. /\ a \in Seq(U) /\ Len(a) = Len(s) + Len(Marker)
        /\ \A i \in 1 .. Len(s) + Len(Marker) : a[i] = IF i <= Len(s) THEN s[i] ELSE Marker[i - Len(s)]
    BY <1>5, <1>6, <1>8, ConcatFacts, Zenon
  <2> QED
    BY <1>5, <1>6, <2>1
<1>10. PICK b : b = a \o z
  OBVIOUS
<1>11. /\ b \in Seq(U) /\ Len(b) = Len(s) + 1 + n
       /\ \A i \in 1 .. Len(s) + 1 : b[i] = a[i]
  <2>1. /\ b \in Seq(U) /\ Len(b) = Len(a) + Len(z)
        /\ \A i \in 1 .. Len(a) + Len(z) : b[i] = IF i <= Len(a) THEN a[i] ELSE z[i - Len(a)]
    <3>1. a \in Seq(U) /\ z \in Seq(U)
      BY <1>3, <1>9
    <3> QED
      BY <1>10, <3>1, ConcatFacts, Zenon
  <2> QED
    BY <1>2, <1>3, <1>6, <1>9, <2>1
<1>12. PICK p : p = b \o l
  OBVIOUS
<1>13. /\ Len(p) = Len(b) + LENGTH
       /\ \A i \in 1 .. Len(b) + LENGTH : p[i] = IF i <= Len(b) THEN b[i] ELSE l[i - Len(b)]
  BY <1>1, <1>4, <1>11, <1>12, ConcatProperties
<1>14. Len(p) \in Nat /\ p[Len(p)] = l[LENGTH]
  BY <1>1, <1>2, <1>6, <1>11, <1>13
<1>15. \A i \in 1 .. Len(s) : p[i] = s[i]
  BY <1>1, <1>2, <1>6, <1>9, <1>11, <1>13
<1> QED
  BY <1>4, <1>7, <1>8, <1>10, <1>12, <1>14, <1>15

LEMMA DigestInjective ==
    ASSUME NEW S, NEW s \in Seq(S), NEW t \in Seq(S), Digest(s) = Digest(t)
    PROVE  s = t
<1>1. sha256(s) = sha256(t)
  BY DEF Digest
<1>2. PICK p : p = sha256(s)
  OBVIOUS
<1>3. p[Len(p)] = <<"length", Len(s), LENGTH>> /\ \A i \in 1 .. Len(s) : p[i] = s[i]
  BY <1>2, PaddedFacts
<1>4. p = sha256(t)
  BY <1>1, <1>2
<1>5. p[Len(p)] = <<"length", Len(t), LENGTH>> /\ \A i \in 1 .. Len(t) : p[i] = t[i]
  BY <1>4, PaddedFacts
<1>6. Len(s) = Len(t)
  BY <1>3, <1>5
<1> QED
  BY <1>3, <1>5, <1>6, SeqEqual

-----------------------------------------------------------------------------
LEMMA ConcatParts ==
    ASSUME NEW S, NEW a \in Seq(S), NEW b \in Seq(S), NEW c \in Seq(S), NEW d \in Seq(S),
           Len(a) = Len(c), a \o b = c \o d
    PROVE  a = c /\ b = d
<1>1. PICK j : j = a \o b
  OBVIOUS
<1>2. Len(a) \in Nat /\ Len(b) \in Nat /\ Len(c) \in Nat /\ Len(d) \in Nat
  OBVIOUS
<1>3. \A i \in 1 .. Len(a) + Len(b) : j[i] = IF i <= Len(a) THEN a[i] ELSE b[i - Len(a)]
  BY <1>1, ConcatFacts
<1>4. j = c \o d
  BY <1>1
<1>5. \A i \in 1 .. Len(c) + Len(d) : j[i] = IF i <= Len(c) THEN c[i] ELSE d[i - Len(c)]
  BY <1>4, ConcatFacts
<1>6. \A i \in 1 .. Len(a) : a[i] = c[i]
  BY <1>2, <1>3, <1>5
<1>7. a = c
  BY <1>6, SeqEqual
<1> QED
  BY <1>7, ConcatSimplifications

LEMMA XorPadFacts ==
    ASSUME NEW S, NEW pad \in {"ipad", "opad"}, NEW key \in Seq(S)
    PROVE  /\ XorPad(pad, key) \in Seq({pad} \X S)
           /\ Len(XorPad(pad, key)) = Len(key)
           /\ \A i \in 1 .. Len(key) : XorPad(pad, key)[i] = <<pad, key[i]>>
<1>1. Len(key) \in Nat /\ DOMAIN key = 1 .. Len(key) /\ \A i \in 1 .. Len(key) : key[i] \in S
  OBVIOUS
<1>2. XorPad(pad, key) = [i \in 1 .. Len(key) |-> <<pad, key[i]>>]
  BY <1>1 DEF XorPad
<1> DEFINE x == XorPad(pad, key)
<1>3. x \in [1 .. Len(key) -> {pad} \X S]
  BY <1>1, <1>2
<1>4. \A i \in 1 .. Len(key) : x[i] = <<pad, key[i]>>
  BY <1>2
<1> HIDE DEF x
<1>5. x \in Seq({pad} \X S) /\ Len(x) = Len(key)
  BY <1>1, <1>3
<1> QED
  BY <1>4, <1>5 DEF x

(* The key padded, or hashed and padded, to a block.                       *)
LEMMA BlockKeyFacts ==
    ASSUME NEW S, NEW key \in Seq(S), NEW T, S \subseteq T,
           <<"data", "00">> \in T, <<"digest", sha256(key)>> \in T
    PROVE  block_key(key) \in Seq(T) /\ Len(block_key(key)) = BLOCK256
<1> DEFINE k == IF Len(key) > BLOCK256 THEN Digest(key) ELSE key
           n == BLOCK256 - Len(k)
           z == ZeroBytes(n)
<1>1. BLOCK256 \in Nat \ {0}
  BY BlockAssumption
<1>2. k \in Seq(T) /\ Len(k) \in Nat /\ Len(k) <= BLOCK256
  <2>1. CASE Len(key) > BLOCK256
    <3>1. PICK d : d = Digest(key)
      OBVIOUS
    <3>2. d \in Seq(T) /\ Len(d) = 1
      BY <3>1 DEF Digest
    <3>3. k = d
      BY <2>1, <3>1
    <3> HIDE DEF k
    <3>4. k \in Seq(T)
      BY <3>2, <3>3, Zenon
    <3>5. Len(k) = 1
      BY <3>2, <3>3, Zenon
    <3>6. 1 \in Nat /\ 1 <= BLOCK256
      BY <1>1
    <3> QED
      BY <3>4, <3>5, <3>6, Zenon
  <2>2. CASE ~(Len(key) > BLOCK256)
    <3>1. Len(key) \in Nat /\ key \in [1 .. Len(key) -> S]
      OBVIOUS
    <3>2. key \in [1 .. Len(key) -> T]
      BY <3>1
    <3>3. key \in Seq(T)
      BY <3>1, <3>2
    <3> QED
      BY <1>1, <2>2, <3>1, <3>3
  <2> QED
    BY <2>1, <2>2
<1>3. block_key(key) = k \o z
  BY DEF block_key
<1> HIDE DEF k
<1>4. n \in Nat
  BY <1>1, <1>2
<1>5. z \in Seq(T) /\ Len(z) = n
  <2>1. z \in [1 .. n -> T]
    BY DEF ZeroBytes
  <2> HIDE DEF z, n
  <2> QED
    BY <1>4, <2>1
<1> HIDE DEF z
<1>6. k \o z \in Seq(T) /\ Len(k \o z) = Len(k) + Len(z)
  BY <1>2, <1>5, ConcatProperties
<1> QED
  BY <1>1, <1>2, <1>3, <1>5, <1>6

LEMMA BlockKeyInjective ==
    ASSUME NEW S, NEW s \in Seq(S), NEW t \in Seq(S), Len(s) = Len(t), block_key(s) = block_key(t)
    PROVE  s = t
<1> DEFINE T == S \cup {<<"data", "00">>, <<"digest", sha256(s)>>, <<"digest", sha256(t)>>}
<1>1. BLOCK256 \in Nat \ {0} /\ Len(s) \in Nat
  BY BlockAssumption
<1>2. ASSUME NEW n \in Nat
      PROVE  ZeroBytes(n) \in Seq(T)
  <2>1. ZeroBytes(n) \in [1 .. n -> T]
    BY DEF ZeroBytes
  <2> HIDE DEF T
  <2> QED
    BY <2>1
<1>3. CASE Len(s) > BLOCK256
  <2>1. PICK a, c, z : a = Digest(s) /\ c = Digest(t) /\ z = ZeroBytes(BLOCK256 - 1)
    OBVIOUS
  <2>2. a \in Seq(T) /\ c \in Seq(T) /\ Len(a) = 1 /\ Len(c) = 1
    BY <2>1 DEF Digest
  <2>3. z \in Seq(T)
    BY <1>1, <1>2, <2>1
  <2>4. a \o z = c \o z
    BY <1>3, <2>1, <2>2 DEF block_key
  <2> HIDE DEF T
  <2>5. a = c
    BY <2>2, <2>3, <2>4, ConcatParts
  <2> QED
    BY <2>1, <2>5, DigestInjective
<1>4. CASE ~(Len(s) > BLOCK256)
  <2>1. PICK z : z = ZeroBytes(BLOCK256 - Len(s))
    OBVIOUS
  <2>2. z \in Seq(T)
    BY <1>1, <1>2, <1>4, <2>1
  <2>3. s \in [1 .. Len(s) -> T] /\ t \in [1 .. Len(s) -> T]
    OBVIOUS
  <2>4. s \o z = t \o z
    BY <1>4, <2>1 DEF block_key
  <2> HIDE DEF T
  <2>5. s \in Seq(T) /\ t \in Seq(T)
    BY <1>1, <2>3
  <2> QED
    BY <2>2, <2>4, <2>5, ConcatParts
<1> QED
  BY <1>3, <1>4

(* The inner and the outer hash of HMAC determine key and message.         *)
LEMMA PadsInjective ==
    ASSUME NEW S, NEW b \in Seq(S), NEW c \in Seq(S), Len(b) = Len(c),
           NEW M, NEW m \in Seq(M), NEW n \in Seq(M),
           Digest(XorPad("opad", b) \o Digest(XorPad("ipad", b) \o m))
             = Digest(XorPad("opad", c) \o Digest(XorPad("ipad", c) \o n))
    PROVE  b = c /\ m = n
<1>1. PICK bi, ci : bi = XorPad("ipad", b) /\ ci = XorPad("ipad", c)
  OBVIOUS
<1>2. PICK bo, co : bo = XorPad("opad", b) /\ co = XorPad("opad", c)
  OBVIOUS
<1>3. bi \in Seq({"ipad"} \X S) /\ ci \in Seq({"ipad"} \X S) /\ Len(bi) = Len(b) /\ Len(ci) = Len(c)
  <2>1. bi \in Seq({"ipad"} \X S) /\ Len(bi) = Len(b)
    BY <1>1, XorPadFacts
  <2>2. ci \in Seq({"ipad"} \X S) /\ Len(ci) = Len(c)
    BY <1>1, XorPadFacts
  <2> QED
    BY <2>1, <2>2, Zenon
<1>4. bo \in Seq({"opad"} \X S) /\ co \in Seq({"opad"} \X S) /\ Len(bo) = Len(b) /\ Len(co) = Len(c)
  <2>1. bo \in Seq({"opad"} \X S) /\ Len(bo) = Len(b)
    BY <1>2, XorPadFacts
  <2>2. co \in Seq({"opad"} \X S) /\ Len(co) = Len(c)
    BY <1>2, XorPadFacts
  <2> QED
    BY <2>1, <2>2, Zenon
<1>5. PICK u, v : u = bi \o m /\ v = ci \o n
  OBVIOUS
<1> DEFINE I == ({"ipad"} \X S) \cup M
           D == {<<"digest", sha256(u)>>, <<"digest", sha256(v)>>}
           O == ({"opad"} \X S) \cup D
<1>6. bi \in Seq(I) /\ ci \in Seq(I) /\ m \in Seq(I) /\ n \in Seq(I)
  BY <1>3, SeqMonotonic
<1>7. bo \in Seq(O) /\ co \in Seq(O)
  BY <1>4, SeqMonotonic
<1>8. PICK x, y : x = Digest(u) /\ y = Digest(v)
  OBVIOUS
<1>9. x \in Seq(O) /\ y \in Seq(O)
  <2>1. x \in Seq(D) /\ y \in Seq(D)
    BY <1>8 DEF Digest
  <2> HIDE DEF D
  <2> QED
    BY <2>1, SeqMonotonic
<1> HIDE DEF I, D, O
<1>10. Digest(bo \o x) = Digest(co \o y)
  BY <1>1, <1>2, <1>5, <1>8
<1>11. bo \o x \in Seq(O) /\ co \o y \in Seq(O)
  BY <1>7, <1>9, ConcatProperties
<1>12. bo \o x = co \o y
  BY <1>10, <1>11, DigestInjective
<1>13. x = y
  <2>1. Len(bo) = Len(co)
    BY <1>4
  <2> QED
    BY <1>7, <1>9, <1>12, <2>1, ConcatParts
<1>14. u \in Seq(I) /\ v \in Seq(I)
  BY <1>5, <1>6, ConcatProperties
<1>15. u = v
  BY <1>8, <1>13, <1>14, DigestInjective
<1>16. bi = ci /\ m = n
  <2>1. Len(bi) = Len(ci) /\ bi \o m = ci \o n
    BY <1>3, <1>5, <1>15
  <2> QED
    BY <1>6, <2>1, ConcatParts
<1>17. \A i \in 1 .. Len(b) : b[i] = c[i]
  <2>1. ASSUME NEW i \in 1 .. Len(b) PROVE b[i] = c[i]
    <3>1. bi[i] = <<"ipad", b[i]>>
      BY <1>1, XorPadFacts
    <3>2. ci[i] = <<"ipad", c[i]>>
      <4>1. i \in 1 .. Len(c)
        OBVIOUS
      <4> QED
        BY <1>1, <4>1, XorPadFacts
    <3> QED
      BY <1>16, <3>1, <3>2
  <2> QED
    BY <2>1
<1> QED
  BY <1>16, <1>17, SeqEqual

(* Keys of one length and messages give different keys.                    *)
Label == {<<"data", "auth">>, <<"data", "kek">>}

LEMMA HmacInjective ==
    ASSUME NEW s \in Seq(Byte256), NEW t \in Seq(Byte256), Len(s) = Len(t),
           NEW m \in Label, NEW n \in Label,
           hmac_sha256(Data(s), <<m>>) = hmac_sha256(Data(t), <<n>>)
    PROVE  s = t /\ m = n
<1>1. PICK x, y : x = Data(s) /\ y = Data(t)
  OBVIOUS
<1>2. /\ x \in Seq(Element) /\ Len(x) = Len(s) /\ \A i \in 1 .. Len(s) : x[i] = <<"data", s[i]>>
      /\ y \in Seq(Element) /\ Len(y) = Len(t) /\ \A i \in 1 .. Len(t) : y[i] = <<"data", t[i]>>
  BY <1>1, DataFacts, Zenon
<1>3. PICK b, c : b = block_key(x) /\ c = block_key(y)
  OBVIOUS
<1> DEFINE T == Element \cup {<<"data", "00">>, <<"digest", sha256(x)>>, <<"digest", sha256(y)>>}
<1>4. b \in Seq(T) /\ c \in Seq(T) /\ Len(b) = Len(c)
  <2>1. Element \subseteq T /\ <<"data", "00">> \in T /\ <<"digest", sha256(x)>> \in T /\ <<"digest", sha256(y)>> \in T
    BY Zenon
  <2> HIDE DEF T
  <2>2. b \in Seq(T) /\ Len(b) = BLOCK256
    BY <1>2, <1>3, <2>1, BlockKeyFacts, Zenon
  <2>3. c \in Seq(T) /\ Len(c) = BLOCK256
    BY <1>2, <1>3, <2>1, BlockKeyFacts, Zenon
  <2> QED
    BY <2>2, <2>3
<1> HIDE DEF T
<1>5. PICK u, v : u = <<m>> /\ v = <<n>>
  OBVIOUS
<1>6. u \in Seq(Label) /\ v \in Seq(Label)
  BY <1>5
<1>7. Digest(XorPad("opad", b) \o Digest(XorPad("ipad", b) \o u))
        = Digest(XorPad("opad", c) \o Digest(XorPad("ipad", c) \o v))
  BY <1>1, <1>3, <1>5, Zenon DEF hmac_sha256
<1>8. b = c /\ u = v
  <2>1. b \in Seq(T) /\ c \in Seq(T) /\ Len(b) = Len(c) /\ u \in Seq(Label) /\ v \in Seq(Label)
    BY <1>4, <1>6
  <2> QED
    BY <1>7, <2>1, PadsInjective
<1>9. m = n
  BY <1>5, <1>8
<1>10. x = y
  <2>1. Len(x) = Len(y) /\ block_key(x) = block_key(y)
    BY <1>2, <1>3, <1>8, Zenon
  <2> QED
    BY <1>2, <2>1, BlockKeyInjective, Zenon
<1>11. \A i \in 1 .. Len(s) : s[i] = t[i]
  BY <1>2, <1>10
<1> QED
  BY <1>9, <1>11, SeqEqual

-----------------------------------------------------------------------------
(* The bytes of a blob after position i up to position j.                  *)
Span(b, i, j) == SubSeq(b, i + 1, j)

LEMMA SpanFacts ==
    ASSUME NEW S, NEW b \in Seq(S), NEW i \in Nat, NEW j \in Nat, i <= j, j <= Len(b)
    PROVE  /\ Span(b, i, j) \in Seq(S)
           /\ Len(Span(b, i, j)) = j - i
           /\ \A k \in 1 .. j - i : Span(b, i, j)[k] = b[i + k]
<1>1. Len(b) \in Nat /\ \A k \in 1 .. Len(b) : b[k] \in S
  BY ElementOfSeq
<1>2. i + 1 \in Int /\ j \in Int /\ \A k \in i + 1 .. j : b[k] \in S
  BY <1>1
<1> DEFINE m == i + 1
<1>3. m \in Int /\ j \in Int /\ \A k \in m .. j : b[k] \in S
  BY <1>2
<1>4. /\ SubSeq(b, m, j) \in Seq(S)
      /\ Len(SubSeq(b, m, j)) = IF m <= j THEN j - m + 1 ELSE 0
      /\ \A k \in 1 .. j - m + 1 : SubSeq(b, m, j)[k] = b[m + k - 1]
  <2> HIDE DEF m
  <2> QED
    BY <1>3, SubSeqProperties
<1>5. Len(SubSeq(b, m, j)) = j - i
  BY <1>4
<1>6. \A k \in 1 .. j - i : SubSeq(b, m, j)[k] = b[i + k]
  <2>1. ASSUME NEW k \in 1 .. j - i PROVE SubSeq(b, m, j)[k] = b[i + k]
    <3>1. k \in 1 .. j - m + 1 /\ m + k - 1 = i + k
      OBVIOUS
    <3> QED
      BY <1>4, <3>1
  <2> QED
    BY <2>1
<1> QED
  BY <1>4, <1>5, <1>6 DEF Span

LEMMA SpanConcat ==
    ASSUME NEW S, NEW b \in Seq(S), NEW i \in Nat, NEW j \in Nat, NEW k \in Nat,
           i <= j, j <= k, k <= Len(b)
    PROVE  Span(b, i, j) \o Span(b, j, k) = Span(b, i, k)
<1>1. i + 1 \in 1 .. Len(b) + 1 /\ j \in (i + 1) - 1 .. Len(b) /\ k \in j .. Len(b)
  OBVIOUS
<1> QED
  BY <1>1, ConcatAdjacentSubSeq DEF Span

(* A span that is a concatenation is its parts, one after the other.       *)
Adjacent(b, i, j, k, p, q) ==
    j <= k /\ k - j = Len(q) /\ Span(b, i, j) = p /\ Span(b, j, k) = q

LEMMA SpanSplit ==
    ASSUME NEW S, NEW b \in Seq(S), NEW i \in Nat, NEW k \in Nat, i <= k, k <= Len(b),
           NEW p \in Seq(S), NEW q \in Seq(S), Span(b, i, k) = p \o q,
           NEW j \in Nat, j = i + Len(p)
    PROVE  Adjacent(b, i, j, k, p, q)
<1>1. Len(p) \in Nat /\ Len(q) \in Nat /\ Len(b) \in Nat
  OBVIOUS
<1>2. Len(Span(b, i, k)) = k - i
  BY SpanFacts
<1>3. Len(p \o q) = Len(p) + Len(q)
  BY ConcatProperties
<1>4. j = i + Len(p)
  OBVIOUS
<1>5. j \in Nat /\ i <= j /\ j <= k /\ k - i = Len(p) + Len(q)
  BY <1>1, <1>2, <1>3, <1>4
<1>6. PICK x, y : x = Span(b, i, j) /\ y = Span(b, j, k)
  OBVIOUS
<1>7. x \in Seq(S) /\ Len(x) = Len(p) /\ y \in Seq(S)
  <2>1. j <= Len(b) /\ j - i = Len(p)
    BY <1>1, <1>4, <1>5
  <2>2. x \in Seq(S) /\ Len(x) = j - i
    BY <1>5, <1>6, <2>1, SpanFacts
  <2>3. y \in Seq(S)
    BY <1>5, <1>6, SpanFacts
  <2> QED
    BY <2>1, <2>2, <2>3
<1>8. x \o y = p \o q
  BY <1>5, <1>6, SpanConcat
<1>9. x = p /\ y = q
  BY <1>7, <1>8, ConcatParts
<1> QED
  BY <1>1, <1>4, <1>5, <1>6, <1>9 DEF Adjacent

LEMMA SpanFull == 
    ASSUME NEW S, NEW b \in Seq(S)
    PROVE  Span(b, 0, Len(b)) = b
  BY SubSeqFull DEF Span

(* What is appended to a blob does not change what it has.                 *)
LEMMA SpanExtended ==
    ASSUME NEW S, NEW b \in Seq(S), NEW p \in Seq(S), NEW i \in Nat, NEW j \in Nat, i <= j, j <= Len(b)
    PROVE  Span(b \o p, i, j) = Span(b, i, j)
<1>1. PICK c : c = b \o p
  OBVIOUS
<1>2. c \in Seq(S) /\ Len(c) = Len(b) + Len(p) /\ \A k \in 1 .. Len(b) : c[k] = b[k]
  <2>1. /\ c \in Seq(S) /\ Len(c) = Len(b) + Len(p)
        /\ \A k \in 1 .. Len(b) + Len(p) : c[k] = IF k <= Len(b) THEN b[k] ELSE p[k - Len(b)]
    BY <1>1, ConcatFacts, Zenon
  <2> QED
    BY <2>1
<1>3. Len(b) \in Nat /\ Len(p) \in Nat /\ j <= Len(c)
  BY <1>2
<1>4. PICK x, y : x = Span(b, i, j) /\ y = Span(c, i, j)
  OBVIOUS
<1>5. x \in Seq(S) /\ Len(x) = j - i /\ \A k \in 1 .. j - i : x[k] = b[i + k]
  BY <1>4, SpanFacts
<1>6. y \in Seq(S) /\ Len(y) = j - i /\ \A k \in 1 .. j - i : y[k] = c[i + k]
  <2>1. c \in Seq(S) /\ j <= Len(c)
    BY <1>2, <1>3
  <2> QED
    BY <1>4, <2>1, SpanFacts
<1>7. \A k \in 1 .. Len(x) : x[k] = y[k]
  <2>1. ASSUME NEW k \in 1 .. j - i PROVE x[k] = y[k]
    <3>1. i + k \in 1 .. Len(b)
      BY <1>3
    <3> QED
      BY <1>2, <1>5, <1>6, <3>1
  <2> QED
    BY <1>5, <2>1
<1>8. x = y
  BY <1>5, <1>6, <1>7, SeqEqual
<1> QED
  BY <1>1, <1>4, <1>8

LEMMA SpanAppended ==
    ASSUME NEW S, NEW b \in Seq(S), NEW p \in Seq(S)
    PROVE  Span(b \o p, Len(b), Len(b \o p)) = p
<1>1. PICK c : c = b \o p
  OBVIOUS
<1>2. c \in Seq(S) /\ Len(c) = Len(b) + Len(p) /\ Len(b) \in Nat /\ Len(p) \in Nat
  BY <1>1, ConcatProperties
<1>3. PICK n, m : n = Len(b) /\ m = Len(c)
  OBVIOUS
<1>4. 0 \in Nat /\ n \in Nat /\ m \in Nat /\ 0 <= n /\ n <= m /\ m <= Len(c)
  BY <1>2, <1>3
<1>5. PICK x, y : x = Span(c, 0, n) /\ y = Span(c, n, m)
  OBVIOUS
<1>6. x \o y = b \o p
  <2>1. x \o y = Span(c, 0, m)
    BY <1>2, <1>4, <1>5, SpanConcat
  <2>2. Span(c, 0, m) = c
    BY <1>2, <1>3, SpanFull
  <2> QED
    BY <1>1, <2>1, <2>2
<1>7. x \in Seq(S) /\ Len(x) = Len(b)
  <2>1. x \in Seq(S) /\ Len(x) = n - 0
    <3>1. 0 \in Nat /\ n \in Nat /\ 0 <= n /\ n <= Len(c) /\ c \in Seq(S)
      BY <1>2, <1>4
    <3> QED
      BY <1>5, <3>1, SpanFacts
  <2> QED
    BY <1>3, <1>4, <2>1
<1>8. y \in Seq(S)
  <2>1. m <= Len(c) /\ n <= m /\ n \in Nat /\ m \in Nat /\ c \in Seq(S)
    BY <1>2, <1>4
  <2> QED
    BY <1>5, <2>1, SpanFacts
<1>9. y = p
  BY <1>6, <1>7, <1>8, ConcatParts
<1> QED
  BY <1>1, <1>3, <1>5, <1>9

-----------------------------------------------------------------------------
(* Fields: what a value must be to be packed, and what packing makes.      *)
Width == {U16, U32, U64}
Good(kind, v) ==
    CASE kind = "str" -> encode_utf8(v) \in Seq(Byte) /\ decode_utf8(encode_utf8(v)) = v /\ v # Refused
      [] kind \in {"u32", "u64"} -> v \in Int
      [] OTHER -> v \in Seq(Byte)
Kind == {"str", "u32", "u64", "content", "rest", "fixed"}

LEMMA Widths ==
    /\ \A w \in Width : w \in Nat \ {0} /\ Base ^ w \in Nat
    /\ MAX_STR_LEN \in Nat /\ MAX_CONTENT_LEN \in Nat /\ MAX_STR_LEN < Base ^ U16
  BY WidthAssumption, NumberAssumption DEF Width

LEMMA UintPacked ==
    ASSUME NEW w \in Width, NEW x \in Int
    PROVE  /\ pack_uint(x, w) = Refused <=> x \notin 0 .. Base ^ w - 1
           /\ x \in 0 .. Base ^ w - 1 =>
                 /\ pack_uint(x, w) \in Seq(Byte) /\ Len(pack_uint(x, w)) = w
                 /\ from_bytes(pack_uint(x, w)) = x
<1>1. CASE x \in 0 .. Base ^ w - 1
  <2>1. PICK y : y = to_bytes(x, w)
    OBVIOUS
  <2>2. y \in [1 .. w -> Byte] /\ from_bytes(y) = x
    BY <1>1, <2>1, NumberAssumption DEF Width
  <2>3. y \in Seq(Byte) /\ Len(y) = w
    BY <2>2, Widths
  <2>4. y # Refused
    BY <2>3, NameAssumption
  <2>5. pack_uint(x, w) = y
    BY <1>1, <2>1 DEF pack_uint
  <2> QED
    BY <1>1, <2>2, <2>3, <2>4, <2>5
<1>2. CASE x \notin 0 .. Base ^ w - 1
  BY <1>2 DEF pack_uint
<1> QED
  BY <1>1, <1>2

(* Bytes of a number are packed from the number they are read as.          *)
LEMMA UintRead ==
    ASSUME NEW w \in Width, NEW c \in Seq(Byte), Len(c) = w
    PROVE  /\ from_bytes(c) \in 0 .. Base ^ w - 1
           /\ pack_uint(from_bytes(c), w) = c
<1>1. c \in [1 .. w -> Byte]
  OBVIOUS
<1>2. from_bytes(c) \in 0 .. Base ^ w - 1 /\ to_bytes(from_bytes(c), w) = c
  BY <1>1, NumberAssumption DEF Width
<1> QED
  BY <1>2 DEF pack_uint

(* A string that decode accepts is encoded to the same bytes.              *)
LEMMA Decoded ==
    ASSUME NEW c \in Seq(Byte), decode_utf8(c) # Refused
    PROVE  encode_utf8(decode_utf8(c)) = c /\ Good("str", decode_utf8(c))
<1> DEFINE C == {s \in BoundedSeq(DOMAIN Utf8, Len(c)) : encode_utf8(s) = c}
<1>1. decode_utf8(c) = IF C = {} THEN Refused ELSE CHOOSE s \in C : TRUE
  BY DEF decode_utf8
<1>2. C # {}
  BY <1>1
<1>3. decode_utf8(c) \in C
  BY <1>1, <1>2
<1>4. encode_utf8(decode_utf8(c)) = c
  BY <1>3
<1> QED
  BY <1>4 DEF Good

Fits(w, e, limit) == Len(e) \in 0 .. Base ^ w - 1 /\ Len(e) <= limit

LEMMA StringPacked ==
    ASSUME NEW v, Good("str", v)
    PROVE  /\ pack_str(v) = Refused <=> ~RefFits("str", v)
           /\ RefFits("str", v) =>
                 /\ pack_str(v) \in Seq(Byte) /\ Fits(U16, encode_utf8(v), MAX_STR_LEN)
                 /\ pack_str(v) = pack_uint(Len(encode_utf8(v)), U16) \o encode_utf8(v)
<1>1. PICK e : e = encode_utf8(v)
  OBVIOUS
<1>2. e \in Seq(Byte) /\ Len(e) \in Nat
  BY <1>1 DEF Good
<1>3. pack_str(v) = IF Len(e) > MAX_STR_LEN THEN Refused ELSE pack_uint(Len(e), U16) \o e
  BY <1>1 DEF pack_str
<1>4. RefFits("str", v) <=> Len(e) <= MAX_STR_LEN
  BY <1>1 DEF RefFits
<1>5. ASSUME Len(e) <= MAX_STR_LEN
      PROVE  Len(e) \in 0 .. Base ^ U16 - 1 /\ pack_uint(Len(e), U16) \o e \in Seq(Byte)
  <2>1. U16 \in Width
    BY DEF Width
  <2>2. Len(e) \in 0 .. Base ^ U16 - 1
    BY <1>2, <1>5, <2>1, Widths
  <2>3. PICK p : p = pack_uint(Len(e), U16)
    OBVIOUS
  <2>4. p \in Seq(Byte)
    BY <1>2, <2>1, <2>2, <2>3, UintPacked
  <2>5. p \o e \in Seq(Byte)
    BY <1>2, <2>4, ConcatProperties
  <2> QED
    BY <2>2, <2>3, <2>5
<1>6. CASE Len(e) <= MAX_STR_LEN
  <2>1. PICK p : p = pack_uint(Len(e), U16) \o e
    OBVIOUS
  <2>2. p \in Seq(Byte) /\ pack_str(v) = p
    BY <1>2, <1>3, <1>5, <1>6, <2>1, Widths
  <2>3. p # Refused
    BY <2>2, NameAssumption
  <2> QED
    BY <1>1, <1>4, <1>5, <1>6, <2>1, <2>2, <2>3 DEF Fits
<1>7. CASE ~(Len(e) <= MAX_STR_LEN)
  BY <1>2, <1>3, <1>4, <1>7, Widths
<1> QED
  BY <1>6, <1>7

LEMMA ContentPacked ==
    ASSUME NEW v \in Seq(Byte)
    PROVE  /\ pack_content(v) = Refused <=> ~RefFits("content", v)
           /\ RefFits("content", v) =>
                 /\ pack_content(v) \in Seq(Byte) /\ Fits(U32, v, MAX_CONTENT_LEN)
                 /\ pack_content(v) = pack_uint(Len(v), U32) \o v
<1>1. U32 \in Width /\ Len(v) \in Nat
  BY DEF Width
<1>2. Base ^ U32 \in Nat /\ MAX_CONTENT_LEN \in Nat
  BY <1>1, Widths
<1>3. RefFits("content", v) <=> Len(v) < Base ^ U32 /\ Len(v) <= MAX_CONTENT_LEN
  BY DEF RefFits
<1>4. PICK p : p = pack_uint(Len(v), U32)
  OBVIOUS
<1>5. (p = Refused <=> Len(v) \notin 0 .. Base ^ U32 - 1) /\ (Len(v) \in 0 .. Base ^ U32 - 1 => p \in Seq(Byte))
  BY <1>1, <1>4, UintPacked
<1>6. Len(v) \in 0 .. Base ^ U32 - 1 <=> Len(v) < Base ^ U32
  BY <1>1, <1>2
<1>7. pack_content(v) = IF Len(v) > MAX_CONTENT_LEN \/ p = Refused THEN Refused ELSE p \o v
  BY <1>4 DEF pack_content
<1>8. CASE RefFits("content", v)
  <2>1. p \in Seq(Byte) /\ p # Refused /\ ~(Len(v) > MAX_CONTENT_LEN)
    BY <1>1, <1>2, <1>3, <1>5, <1>6, <1>8
  <2>2. PICK q : q = p \o v
    OBVIOUS
  <2>3. q \in Seq(Byte) /\ q # Refused
    BY <2>1, <2>2, ConcatProperties, NameAssumption
  <2>4. pack_content(v) = q
    BY <1>7, <2>1, <2>2
  <2>5. Fits(U32, v, MAX_CONTENT_LEN)
    BY <1>3, <1>6, <1>8 DEF Fits
  <2> QED
    BY <1>4, <1>8, <2>2, <2>3, <2>4, <2>5
<1>9. CASE ~RefFits("content", v)
  BY <1>1, <1>2, <1>3, <1>5, <1>6, <1>7, <1>9
<1> QED
  BY <1>8, <1>9

(* What fits is packed to bytes, the rest is refused.                      *)
LEMMA FieldPacked ==
    ASSUME NEW kind \in Kind, NEW v, Good(kind, v)
    PROVE  /\ pack_field(kind, v) = Refused <=> ~RefFits(kind, v)
           /\ RefFits(kind, v) => pack_field(kind, v) \in Seq(Byte)
<1>1. CASE kind = "str"
  BY <1>1, StringPacked DEF pack_field
<1>2. CASE kind = "u32"
  <2>1. v \in Int /\ U32 \in Width
    BY <1>2 DEF Good, Width
  <2> QED
    BY <1>2, <2>1, UintPacked DEF pack_field, RefFits
<1>3. CASE kind = "u64"
  <2>1. v \in Int /\ U64 \in Width
    BY <1>3 DEF Good, Width
  <2> QED
    BY <1>3, <2>1, UintPacked DEF pack_field, RefFits
<1>4. CASE kind = "content"
  <2>1. v \in Seq(Byte)
    BY <1>4 DEF Good
  <2> QED
    BY <1>4, <2>1, ContentPacked DEF pack_field
<1>5. CASE kind = "rest"
  <2>1. v \in Seq(Byte) /\ v # Refused
    BY <1>5, NameAssumption DEF Good
  <2> QED
    BY <1>5, <2>1 DEF pack_field, RefFits
<1>6. CASE kind = "fixed"
  <2>1. v \in Seq(Byte) /\ v # Refused
    BY <1>6, NameAssumption DEF Good
  <2> QED
    BY <1>6, <2>1 DEF pack_field, pack_fixed, RefFits
<1> QED
  BY <1>1, <1>2, <1>3, <1>4, <1>5, <1>6 DEF Kind

-----------------------------------------------------------------------------
(* The reader.                                                             *)
Read(p, v) == [ok |-> TRUE, pos |-> p, value |-> v]

LEMMA ReadBytes ==
    ASSUME NEW b \in Seq(Byte), NEW pos \in Nat, NEW n \in Int
    PROVE  IF n >= 0 /\ pos + n <= Len(b) THEN read(b, pos, n) = Read(pos + n, Span(b, pos, pos + n))
           ELSE ~read(b, pos, n).ok
<1>1. Len(b) \in Nat
  OBVIOUS
<1>2. CASE n >= 0 /\ pos + n <= Len(b)
  <2>1. ~(n < 0 \/ pos + n > Len(b))
    BY <1>1, <1>2
  <2> QED
    BY <1>2, <2>1, Zenon DEF read, Read, Span
<1>3. CASE ~(n >= 0 /\ pos + n <= Len(b))
  <2>1. n < 0 \/ pos + n > Len(b)
    BY <1>1, <1>3
  <2>2. read(b, pos, n) = [ok |-> FALSE, pos |-> pos, value |-> <<>>]
    BY <2>1, Zenon DEF read
  <2> QED
    BY <1>3, <2>2
<1> QED
  BY <1>2, <1>3

LEMMA ReadUpdated ==
    ASSUME NEW p, NEW v, NEW x
    PROVE  [Read(p, v) EXCEPT !.value = x] = Read(p, x)
<1> DEFINE r == Read(p, v)
<1>1. DOMAIN r = {"ok", "pos", "value"} /\ r = [f \in {"ok", "pos", "value"} |-> r[f]] /\ r.ok = TRUE /\ r.pos = p
  BY DEF Read
<1>2. [r EXCEPT !.value = x] = [f \in {"ok", "pos", "value"} |-> IF f = "value" THEN x ELSE r[f]]
  <2> HIDE DEF r
  <2> QED
    BY <1>1
<1>3. [f \in {"ok", "pos", "value"} |-> IF f = "value" THEN x ELSE r[f]] = Read(p, x)
  <2> HIDE DEF r
  <2>1. PICK y : y = [f \in {"ok", "pos", "value"} |-> IF f = "value" THEN x ELSE r[f]]
    OBVIOUS
  <2>2. y = [f \in {"ok", "pos", "value"} |-> y[f]]
    BY <2>1
  <2>3. y["value"] = x /\ y["pos"] = p
    BY <1>1, <2>1
  <2>4. y["ok"] = TRUE
    BY <1>1, <2>1
  <2>5. y = [ok |-> TRUE, pos |-> p, value |-> x]
    BY <2>2, <2>3, <2>4
  <2> QED
    BY <2>1, <2>5 DEF Read
<1> QED
  BY <1>2, <1>3

LEMMA ReadUint ==
    ASSUME NEW b \in Seq(Byte), NEW pos \in Nat, NEW w \in Width
    PROVE  IF pos + w <= Len(b)
           THEN read_uint(b, pos, w) = Read(pos + w, from_bytes(Span(b, pos, pos + w)))
           ELSE ~read_uint(b, pos, w).ok
<1>1. w \in Int /\ w >= 0
  BY Widths
<1>2. PICK r : r = read(b, pos, w)
  OBVIOUS
<1>3. read_uint(b, pos, w) = IF r.ok THEN [r EXCEPT !.value = from_bytes(@)] ELSE r
  BY <1>2 DEF read_uint
<1>4. CASE pos + w <= Len(b)
  <2>1. PICK s : s = Span(b, pos, pos + w)
    OBVIOUS
  <2>2. r = Read(pos + w, s)
    BY <1>1, <1>2, <1>4, <2>1, ReadBytes
  <2>3. r.ok
    BY <2>2 DEF Read
  <2>4. r.value = s
    BY <2>2 DEF Read
  <2>5. PICK x : x = from_bytes(s)
    OBVIOUS
  <2>6. [r EXCEPT !.value = x] = Read(pos + w, x)
    BY <2>2, ReadUpdated
  <2>7. read_uint(b, pos, w) = [r EXCEPT !.value = x]
    BY <1>3, <2>3, <2>4, <2>5
  <2> QED
    BY <1>4, <2>1, <2>5, <2>6, <2>7
<1>5. CASE ~(pos + w <= Len(b))
  <2>1. ~r.ok
    BY <1>1, <1>2, <1>5, ReadBytes
  <2> QED
    BY <1>3, <1>5, <2>1
<1> QED
  BY <1>4, <1>5

LEMMA ReadCounted ==
    ASSUME NEW b \in Seq(Byte), NEW pos \in Nat, NEW w \in Width, NEW limit \in Nat,
           NEW n, n = from_bytes(Span(b, pos, pos + w))
    PROVE  IF pos + w <= Len(b) /\ n <= limit /\ pos + w + n <= Len(b)
           THEN /\ n \in 0 .. Base ^ w - 1
                /\ read_counted(b, pos, w, limit) = Read(pos + w + n, Span(b, pos + w, pos + w + n))
           ELSE ~read_counted(b, pos, w, limit).ok
<1>1. w \in Nat /\ Base ^ w \in Nat /\ Len(b) \in Nat
  BY Widths
<1>2. PICK l : l = read_uint(b, pos, w)
  OBVIOUS
<1>3. read_counted(b, pos, w, limit) =
        IF ~l.ok \/ l.value > limit THEN [l EXCEPT !.ok = FALSE] ELSE read(b, l.pos, l.value)
  BY <1>2 DEF read_counted
<1>4. CASE pos + w <= Len(b)
  <2>1. l = Read(pos + w, n)
    BY <1>2, <1>4, ReadUint
  <2>2. PICK s : s = Span(b, pos, pos + w)
    OBVIOUS
  <2>3. s \in Seq(Byte) /\ Len(s) = w
    <3>1. pos + w \in Nat /\ pos <= pos + w /\ pos + w <= Len(b) /\ (pos + w) - pos = w
      BY <1>1, <1>4
    <3> QED
      BY <2>2, <3>1, SpanFacts
  <2>4. n \in 0 .. Base ^ w - 1
    BY <2>2, <2>3, UintRead
  <2>5. n \in Nat
    BY <1>1, <2>4
  <2>6. CASE n > limit
    <3>1. read_counted(b, pos, w, limit) = [l EXCEPT !.ok = FALSE]
      BY <1>3, <2>1, <2>6 DEF Read
    <3>2. ~[l EXCEPT !.ok = FALSE].ok
      BY <2>1 DEF Read
    <3>3. ~(n <= limit)
      BY <2>5, <2>6
    <3> QED
      BY <3>1, <3>2, <3>3
  <2>7. CASE ~(n > limit)
    <3>1. read_counted(b, pos, w, limit) = read(b, pos + w, n)
      BY <1>3, <2>1, <2>7 DEF Read
    <3>2. pos + w \in Nat /\ n \in Int /\ n >= 0 /\ n <= limit
      BY <1>1, <2>5, <2>7
    <3>3. IF pos + w + n <= Len(b) THEN read(b, pos + w, n) = Read(pos + w + n, Span(b, pos + w, pos + w + n))
          ELSE ~read(b, pos + w, n).ok
      BY <3>2, ReadBytes
    <3> QED
      BY <1>4, <2>4, <3>1, <3>2, <3>3
  <2> QED
    BY <2>6, <2>7
<1>5. CASE ~(pos + w <= Len(b))
  <2>1. ~l.ok
    BY <1>2, <1>5, ReadUint
  <2>2. l = read(b, pos, w)
    BY <1>2, <2>1, <1>1, <1>5, ReadBytes DEF read_uint
  <2>3. l = [ok |-> FALSE, pos |-> pos, value |-> <<>>]
    <3>1. pos + w > Len(b)
      BY <1>1, <1>5
    <3> QED
      BY <2>2, <3>1, Zenon DEF read
  <2>4. read_counted(b, pos, w, limit) = [l EXCEPT !.ok = FALSE]
    BY <1>3, <2>1
  <2>5. ~[l EXCEPT !.ok = FALSE].ok
    BY <2>3
  <2> QED
    BY <1>5, <2>4, <2>5
<1> QED
  BY <1>4, <1>5

(* A length and that many bytes are read as they were packed ...           *)
LEMMA CountedPacked ==
    ASSUME NEW b \in Seq(Byte), NEW pos \in Nat, NEW k \in Nat, pos <= k, k <= Len(b),
           NEW w \in Width, NEW limit \in Nat, NEW e \in Seq(Byte), Fits(w, e, limit),
           Span(b, pos, k) = pack_uint(Len(e), w) \o e
    PROVE  read_counted(b, pos, w, limit) = Read(k, e)
<1>1. Len(e) \in 0 .. Base ^ w - 1 /\ Len(e) <= limit /\ Len(e) \in Nat
  BY DEF Fits
<1>2. PICK p : p = pack_uint(Len(e), w)
  OBVIOUS
<1>3. p \in Seq(Byte) /\ Len(p) = w /\ from_bytes(p) = Len(e)
  BY <1>1, <1>2, UintPacked
<1>4. k = pos + w + Len(e) /\ Span(b, pos, pos + w) = p /\ Span(b, pos + w, k) = e
  <2>1. Span(b, pos, k) = p \o e
    BY <1>2
  <2>2. PICK j \in Nat : j = pos + Len(p)
    BY <1>3
  <2>3. p \in Seq(Byte)
    BY <1>3
  <2>4. Adjacent(b, pos, j, k, p, e)
    BY <2>1, <2>2, <2>3, SpanSplit
  <2>5. j <= k /\ k - j = Len(e) /\ Span(b, pos, j) = p /\ Span(b, j, k) = e
    BY <2>4 DEF Adjacent
  <2>6. j = pos + w /\ k = pos + w + Len(e)
    <3>1. Len(p) = w /\ j = pos + Len(p) /\ k - j = Len(e) /\ Len(e) \in Nat
      BY <1>1, <1>3, <2>2, <2>5
    <3>2. w \in Nat
      BY Widths
    <3>3. j = pos + w
      BY <3>1
    <3> QED
      BY <3>1, <3>2, <3>3
  <2> QED
    BY <2>5, <2>6
<1>5. pos + w <= Len(b) /\ Len(e) <= limit /\ pos + w + Len(e) <= Len(b)
  <2>1. w \in Nat /\ Len(b) \in Nat
    BY Widths
  <2> QED
    BY <1>1, <1>4, <2>1
<1>6. PICK n : n = from_bytes(Span(b, pos, pos + w))
  OBVIOUS
<1>7. n = Len(e)
  BY <1>3, <1>4, <1>6
<1>8. read_counted(b, pos, w, limit) = Read(pos + w + n, Span(b, pos + w, pos + w + n))
  BY <1>5, <1>6, <1>7, ReadCounted
<1> QED
  BY <1>4, <1>7, <1>8

(* ... and what is read is what packing makes of it.                       *)
LEMMA CountedRead ==
    ASSUME NEW b \in Seq(Byte), NEW pos \in Nat, NEW w \in Width, NEW limit \in Nat,
           read_counted(b, pos, w, limit).ok
    PROVE  \E k \in pos .. Len(b), e \in Seq(Byte) :
              /\ read_counted(b, pos, w, limit) = Read(k, e)
              /\ Fits(w, e, limit)
              /\ Span(b, pos, k) = pack_uint(Len(e), w) \o e
<1>1. PICK s, n : s = Span(b, pos, pos + w) /\ n = from_bytes(s)
  OBVIOUS
<1>2. /\ pos + w <= Len(b) /\ n <= limit /\ pos + w + n <= Len(b)
      /\ n \in 0 .. Base ^ w - 1
      /\ read_counted(b, pos, w, limit) = Read(pos + w + n, Span(b, pos + w, pos + w + n))
  <2>1. n = from_bytes(Span(b, pos, pos + w))
    BY <1>1
  <2> QED
    BY <2>1, ReadCounted
<1>3. w \in Nat /\ Base ^ w \in Nat /\ Len(b) \in Nat
  BY Widths
<1>4. PICK m, k : m = pos + w /\ k = pos + w + n
  OBVIOUS
<1>5. m \in Nat /\ k \in Nat /\ n \in Nat /\ pos <= m /\ m <= k /\ k <= Len(b) /\ m - pos = w /\ k - m = n /\ m <= Len(b)
  BY <1>2, <1>3, <1>4
<1>6. s \in Seq(Byte) /\ Len(s) = w
  <2>1. s = Span(b, pos, m)
    BY <1>1, <1>4
  <2>2. s \in Seq(Byte) /\ Len(s) = m - pos
    BY <1>5, <2>1, SpanFacts
  <2> QED
    BY <1>5, <2>2
<1>7. PICK e : e = Span(b, m, k)
  OBVIOUS
<1>8. e \in Seq(Byte) /\ Len(e) = n
  <2>1. e \in Seq(Byte) /\ Len(e) = k - m
    BY <1>5, <1>7, SpanFacts
  <2> QED
    BY <1>5, <2>1
<1>9. pack_uint(Len(e), w) = s
  BY <1>1, <1>6, <1>8, UintRead
<1>10. Span(b, pos, k) = s \o e
  <2>1. Span(b, pos, m) \o Span(b, m, k) = Span(b, pos, k)
    BY <1>5, SpanConcat
  <2> QED
    BY <1>1, <1>4, <1>7, <2>1
<1>11. Fits(w, e, limit)
  BY <1>2, <1>8 DEF Fits
<1>12. k \in pos .. Len(b)
  BY <1>3, <1>5
<1> QED
  BY <1>2, <1>4, <1>7, <1>8, <1>9, <1>10, <1>11, <1>12

LEMMA ReadDomain ==
    ASSUME NEW b, NEW pos, NEW w, NEW limit
    PROVE  "ok" \in DOMAIN read_counted(b, pos, w, limit)
<1>1. ASSUME NEW x, NEW n PROVE "ok" \in DOMAIN read(b, x, n)
  BY DEF read
<1>2. PICK l : l = read_uint(b, pos, w)
  OBVIOUS
<1>3. "ok" \in DOMAIN l
  <2>1. PICK r : r = read(b, pos, w)
    OBVIOUS
  <2>2. "ok" \in DOMAIN r
    BY <1>1, <2>1
  <2>3. l = IF r.ok THEN [r EXCEPT !.value = from_bytes(@)] ELSE r
    BY <1>2, <2>1 DEF read_uint
  <2>4. CASE r.ok
    <3>1. l = [r EXCEPT !.value = from_bytes(@)]
      BY <2>3, <2>4
    <3> QED
      BY <2>2, <3>1
  <2>5. CASE ~r.ok
    BY <2>2, <2>3, <2>5
  <2> QED
    BY <2>4, <2>5
<1>4. PICK c : c = read_counted(b, pos, w, limit)
  OBVIOUS
<1>5. c = IF ~l.ok \/ l.value > limit THEN [l EXCEPT !.ok = FALSE] ELSE read(b, l.pos, l.value)
  BY <1>2, <1>4 DEF read_counted
<1>6. CASE ~l.ok \/ l.value > limit
  <2>1. c = [l EXCEPT !.ok = FALSE]
    BY <1>5, <1>6
  <2> QED
    BY <1>3, <1>4, <2>1
<1>7. CASE ~(~l.ok \/ l.value > limit)
  <2>1. c = read(b, l.pos, l.value)
    BY <1>5, <1>7
  <2> QED
    BY <1>1, <1>4, <2>1
<1> QED
  BY <1>6, <1>7

(* The bytes of b from i to j are what a field of value v is packed to.    *)
Denotes(kind, v, b, i, j) == Good(kind, v) /\ RefFits(kind, v) /\ pack_field(kind, v) = Span(b, i, j)

LEMMA StringRead ==
    ASSUME NEW b \in Seq(Byte), NEW pos \in Nat
    PROVE  /\ \A k \in pos .. Len(b) : \A v : Denotes("str", v, b, pos, k) => read_str(b, pos) = Read(k, v)
           /\ read_str(b, pos).ok =>
                 \E k \in pos .. Len(b) : \E v : read_str(b, pos) = Read(k, v) /\ Denotes("str", v, b, pos, k)
<1>1. U16 \in Width /\ MAX_STR_LEN \in Nat /\ Len(b) \in Nat
  BY Widths DEF Width
<1>2. PICK s : s = read_counted(b, pos, U16, MAX_STR_LEN)
  OBVIOUS
<1>3. read_str(b, pos) = IF ~s.ok \/ decode_utf8(s.value) = Refused THEN [s EXCEPT !.ok = FALSE]
                         ELSE [s EXCEPT !.value = decode_utf8(@)]
  BY <1>2 DEF read_str
<1>4. ASSUME NEW k, NEW e, s = Read(k, e), decode_utf8(e) # Refused
      PROVE  read_str(b, pos) = Read(k, decode_utf8(e))
  <2>1. s.ok /\ s.value = e
    BY <1>4 DEF Read
  <2>2. PICK x : x = decode_utf8(e)
    OBVIOUS
  <2>3. read_str(b, pos) = [s EXCEPT !.value = x]
    BY <1>3, <1>4, <2>1, <2>2
  <2>4. [s EXCEPT !.value = x] = Read(k, x)
    BY <1>4, ReadUpdated
  <2> QED
    BY <2>2, <2>3, <2>4
<1>5. ASSUME NEW k \in pos .. Len(b), NEW v, Denotes("str", v, b, pos, k)
      PROVE  read_str(b, pos) = Read(k, v)
  <2>1. PICK e : e = encode_utf8(v)
    OBVIOUS
  <2>2. Good("str", v) /\ RefFits("str", v) /\ pack_str(v) = Span(b, pos, k)
    BY <1>5 DEF Denotes, pack_field
  <2>3. e \in Seq(Byte) /\ decode_utf8(e) = v /\ v # Refused
    BY <2>1, <2>2 DEF Good
  <2>4. Fits(U16, e, MAX_STR_LEN) /\ Span(b, pos, k) = pack_uint(Len(e), U16) \o e
    BY <2>1, <2>2, StringPacked
  <2>5. k \in Nat /\ pos <= k /\ k <= Len(b)
    BY <1>1
  <2>6. s = Read(k, e)
    <3>1. /\ k \in Nat /\ pos <= k /\ k <= Len(b) /\ U16 \in Width /\ MAX_STR_LEN \in Nat /\ e \in Seq(Byte)
          /\ Fits(U16, e, MAX_STR_LEN) /\ Span(b, pos, k) = pack_uint(Len(e), U16) \o e
      BY <1>1, <2>3, <2>4, <2>5
    <3>2. read_counted(b, pos, U16, MAX_STR_LEN) = Read(k, e)
      BY <3>1, CountedPacked
    <3> QED
      BY <1>2, <3>2
  <2> QED
    BY <1>4, <2>3, <2>6
<1>6. ASSUME read_str(b, pos).ok
      PROVE  \E k \in pos .. Len(b) : \E v : read_str(b, pos) = Read(k, v) /\ Denotes("str", v, b, pos, k)
  <2>1. s.ok /\ decode_utf8(s.value) # Refused
    <3>1. SUFFICES ASSUME ~s.ok \/ decode_utf8(s.value) = Refused PROVE FALSE
      OBVIOUS
    <3>2. read_str(b, pos) = [s EXCEPT !.ok = FALSE]
      BY <1>3, <3>1
    <3>3. "ok" \in DOMAIN s
      BY <1>2, ReadDomain
    <3>4. [s EXCEPT !.ok = FALSE].ok = FALSE
      BY <3>3
    <3> QED
      BY <1>6, <3>2, <3>4
  <2>2. PICK k \in pos .. Len(b), e \in Seq(Byte) :
              s = Read(k, e) /\ Fits(U16, e, MAX_STR_LEN) /\ Span(b, pos, k) = pack_uint(Len(e), U16) \o e
    BY <1>1, <1>2, <2>1, CountedRead
  <2>3. decode_utf8(e) # Refused
    BY <2>1, <2>2 DEF Read
  <2>4. PICK v : v = decode_utf8(e)
    OBVIOUS
  <2>5. Good("str", v) /\ encode_utf8(v) = e
    BY <2>3, <2>4, Decoded
  <2>6. RefFits("str", v)
    BY <2>2, <2>5 DEF RefFits, Fits
  <2>7. pack_str(v) = Span(b, pos, k)
    BY <2>2, <2>5, <2>6, StringPacked
  <2>8. Denotes("str", v, b, pos, k)
    BY <2>5, <2>6, <2>7 DEF Denotes, pack_field
  <2>9. read_str(b, pos) = Read(k, v)
    BY <1>4, <2>2, <2>3, <2>4
  <2> QED
    BY <2>8, <2>9
<1> QED
  BY <1>5, <1>6

LEMMA ContentRead ==
    ASSUME NEW b \in Seq(Byte), NEW pos \in Nat
    PROVE  /\ \A k \in pos .. Len(b) : \A v :
                 Denotes("content", v, b, pos, k) => read_field(b, pos, "content") = Read(k, v)
           /\ read_field(b, pos, "content").ok =>
                 \E k \in pos .. Len(b) : \E v :
                     read_field(b, pos, "content") = Read(k, v) /\ Denotes("content", v, b, pos, k)
<1>1. U32 \in Width /\ MAX_CONTENT_LEN \in Nat /\ Len(b) \in Nat
  BY Widths DEF Width
<1>2. read_field(b, pos, "content") = read_counted(b, pos, U32, MAX_CONTENT_LEN)
  BY DEF read_field
<1>3. ASSUME NEW k \in pos .. Len(b), NEW v, Denotes("content", v, b, pos, k)
      PROVE  read_field(b, pos, "content") = Read(k, v)
  <2>1. v \in Seq(Byte) /\ RefFits("content", v) /\ pack_content(v) = Span(b, pos, k)
    BY <1>3 DEF Denotes, Good, pack_field
  <2>2. Fits(U32, v, MAX_CONTENT_LEN) /\ Span(b, pos, k) = pack_uint(Len(v), U32) \o v
    BY <2>1, ContentPacked
  <2>3. /\ k \in Nat /\ pos <= k /\ k <= Len(b) /\ U32 \in Width /\ MAX_CONTENT_LEN \in Nat /\ v \in Seq(Byte)
        /\ Fits(U32, v, MAX_CONTENT_LEN) /\ Span(b, pos, k) = pack_uint(Len(v), U32) \o v
    BY <1>1, <2>1, <2>2
  <2>4. read_counted(b, pos, U32, MAX_CONTENT_LEN) = Read(k, v)
    BY <2>3, CountedPacked
  <2> QED
    BY <1>2, <2>4
<1>4. ASSUME read_field(b, pos, "content").ok
      PROVE  \E k \in pos .. Len(b) : \E v :
                 read_field(b, pos, "content") = Read(k, v) /\ Denotes("content", v, b, pos, k)
  <2>1. read_counted(b, pos, U32, MAX_CONTENT_LEN).ok
    BY <1>2, <1>4
  <2>2. PICK k \in pos .. Len(b), e \in Seq(Byte) :
              /\ read_counted(b, pos, U32, MAX_CONTENT_LEN) = Read(k, e)
              /\ Fits(U32, e, MAX_CONTENT_LEN) /\ Span(b, pos, k) = pack_uint(Len(e), U32) \o e
    BY <1>1, <2>1, CountedRead
  <2>3. RefFits("content", e)
    <3>1. Len(e) \in Nat /\ Base ^ U32 \in Nat
      BY <1>1, Widths
    <3>2. Len(e) < Base ^ U32 /\ Len(e) <= MAX_CONTENT_LEN
      BY <2>2, <3>1 DEF Fits
    <3> QED
      BY <3>2 DEF RefFits
  <2>4. pack_content(e) = Span(b, pos, k)
    BY <2>2, <2>3, ContentPacked
  <2>5. Denotes("content", e, b, pos, k)
    BY <2>3, <2>4 DEF Denotes, pack_field, Good
  <2> QED
    BY <1>2, <2>2, <2>5
<1> QED
  BY <1>3, <1>4

LEMMA NumberRead ==
    ASSUME NEW b \in Seq(Byte), NEW pos \in Nat, NEW kind \in {"u32", "u64"}
    PROVE  /\ \A k \in pos .. Len(b) : \A v : Denotes(kind, v, b, pos, k) => read_field(b, pos, kind) = Read(k, v)
           /\ read_field(b, pos, kind).ok =>
                 \E k \in pos .. Len(b) : \E v : read_field(b, pos, kind) = Read(k, v) /\ Denotes(kind, v, b, pos, k)
<1> DEFINE width == IF kind = "u32" THEN U32 ELSE U64
<1>1. PICK w : w = width
  OBVIOUS
<1>2. w \in Width /\ Len(b) \in Nat
  BY <1>1 DEF Width
<1>3. w \in Nat /\ Base ^ w \in Nat
  BY <1>2, Widths
<1>4. /\ read_field(b, pos, kind) = read_uint(b, pos, w)
      /\ \A v : pack_field(kind, v) = pack_uint(v, w) /\ (RefFits(kind, v) <=> v \in 0 .. Base ^ w - 1)
      /\ \A v : Good(kind, v) <=> v \in Int
  <2>1. CASE kind = "u32"
    BY <1>1, <2>1 DEF read_field, pack_field, RefFits, Good
  <2>2. CASE kind = "u64"
    BY <1>1, <2>2 DEF read_field, pack_field, RefFits, Good
  <2> QED
    BY <2>1, <2>2
<1> HIDE DEF width
<1>5. ASSUME NEW k \in pos .. Len(b), NEW v, Denotes(kind, v, b, pos, k)
      PROVE  read_field(b, pos, kind) = Read(k, v)
  <2>1. v \in Int /\ v \in 0 .. Base ^ w - 1 /\ pack_uint(v, w) = Span(b, pos, k)
    BY <1>4, <1>5 DEF Denotes
  <2>2. PICK s : s = Span(b, pos, k)
    OBVIOUS
  <2>3. Len(s) = w /\ from_bytes(s) = v
    BY <1>2, <2>1, <2>2, UintPacked
  <2>4. Len(s) = k - pos
    <3>1. k \in Nat /\ pos <= k /\ k <= Len(b)
      BY <1>2
    <3> QED
      BY <2>2, <3>1, SpanFacts
  <2>5. k = pos + w /\ pos + w <= Len(b)
    BY <1>2, <1>3, <2>3, <2>4
  <2>6. read_uint(b, pos, w) = Read(pos + w, from_bytes(Span(b, pos, pos + w)))
    BY <1>2, <2>5, ReadUint
  <2> QED
    BY <1>4, <2>2, <2>3, <2>5, <2>6
<1>6. ASSUME read_field(b, pos, kind).ok
      PROVE  \E k \in pos .. Len(b) : \E v : read_field(b, pos, kind) = Read(k, v) /\ Denotes(kind, v, b, pos, k)
  <2>1. read_uint(b, pos, w).ok
    BY <1>4, <1>6
  <2>2. pos + w <= Len(b) /\ read_uint(b, pos, w) = Read(pos + w, from_bytes(Span(b, pos, pos + w)))
    BY <1>2, <2>1, ReadUint
  <2>3. PICK k, s : k = pos + w /\ s = Span(b, pos, k)
    OBVIOUS
  <2>4. k \in pos .. Len(b) /\ k \in Nat /\ pos <= k /\ k <= Len(b) /\ k - pos = w
    BY <1>2, <1>3, <2>2, <2>3
  <2>5. s \in Seq(Byte) /\ Len(s) = w
    <3>1. s \in Seq(Byte) /\ Len(s) = k - pos
      BY <2>3, <2>4, SpanFacts
    <3> QED
      BY <2>4, <3>1
  <2>6. PICK v : v = from_bytes(s)
    OBVIOUS
  <2>7. v \in 0 .. Base ^ w - 1 /\ pack_uint(v, w) = s
    BY <1>2, <2>5, <2>6, UintRead
  <2>8. v \in Int
    BY <1>3, <2>7
  <2>9. Denotes(kind, v, b, pos, k)
    BY <1>4, <2>3, <2>7, <2>8 DEF Denotes
  <2>10. read_field(b, pos, kind) = Read(k, v)
    BY <1>4, <2>2, <2>3, <2>6
  <2> QED
    BY <2>4, <2>9, <2>10
<1> QED
  BY <1>5, <1>6

LEMMA FixedRead ==
    ASSUME NEW b \in Seq(Byte), NEW pos \in Nat
    PROVE  /\ \A k \in pos .. Len(b) : \A v :
                 Denotes("fixed", v, b, pos, k) => read_field(b, pos, "fixed") = Read(k, v)
           /\ read_field(b, pos, "fixed").ok =>
                 \E k \in pos .. Len(b) : \E v :
                     read_field(b, pos, "fixed") = Read(k, v) /\ Denotes("fixed", v, b, pos, k)
<1>1. FIXED \in Int /\ FIXED >= 0 /\ Len(b) \in Nat
  BY DEF FIXED
<1>2. read_field(b, pos, "fixed") = read(b, pos, FIXED)
  BY DEF read_field
<1>3. ASSUME NEW k \in pos .. Len(b), NEW v, Denotes("fixed", v, b, pos, k)
      PROVE  read_field(b, pos, "fixed") = Read(k, v)
  <2>1. Len(v) = FIXED /\ v = Span(b, pos, k)
    BY <1>3 DEF Denotes, RefFits, pack_field, pack_fixed
  <2>2. Len(v) = k - pos
    <3>1. k \in Nat /\ pos <= k /\ k <= Len(b)
      BY <1>1
    <3> QED
      BY <2>1, <3>1, SpanFacts
  <2>3. k = pos + FIXED /\ pos + FIXED <= Len(b)
    BY <1>1, <2>1, <2>2
  <2>4. read(b, pos, FIXED) = Read(pos + FIXED, Span(b, pos, pos + FIXED))
    BY <1>1, <2>3, ReadBytes
  <2> QED
    BY <1>2, <2>1, <2>3, <2>4
<1>4. ASSUME read_field(b, pos, "fixed").ok
      PROVE  \E k \in pos .. Len(b) : \E v :
                 read_field(b, pos, "fixed") = Read(k, v) /\ Denotes("fixed", v, b, pos, k)
  <2>1. read(b, pos, FIXED).ok
    BY <1>2, <1>4
  <2>2. pos + FIXED <= Len(b) /\ read(b, pos, FIXED) = Read(pos + FIXED, Span(b, pos, pos + FIXED))
    BY <1>1, <2>1, ReadBytes
  <2>3. PICK k, v : k = pos + FIXED /\ v = Span(b, pos, k)
    OBVIOUS
  <2>4. k \in pos .. Len(b) /\ k \in Nat /\ pos <= k /\ k <= Len(b) /\ k - pos = FIXED
    BY <1>1, <2>2, <2>3
  <2>5. v \in Seq(Byte) /\ Len(v) = FIXED
    <3>1. v \in Seq(Byte) /\ Len(v) = k - pos
      BY <2>3, <2>4, SpanFacts
    <3> QED
      BY <2>4, <3>1
  <2>6. Denotes("fixed", v, b, pos, k)
    BY <2>3, <2>5 DEF Denotes, Good, RefFits, pack_field, pack_fixed
  <2> QED
    BY <1>2, <2>2, <2>3, <2>4, <2>6
<1> QED
  BY <1>3, <1>4

(* The ciphertext is what is left before the tag.                          *)
LEMMA RestRead ==
    ASSUME NEW b \in Seq(Byte), NEW pos \in Nat
    PROVE  /\ \A k \in pos .. Len(b) : \A v :
                 k + FIXED = Len(b) /\ Denotes("rest", v, b, pos, k) => read_field(b, pos, "rest") = Read(k, v)
           /\ read_field(b, pos, "rest").ok =>
                 \E k \in pos .. Len(b) : \E v :
                     read_field(b, pos, "rest") = Read(k, v) /\ Denotes("rest", v, b, pos, k)
<1>1. FIXED \in Int /\ FIXED >= 0 /\ Len(b) \in Nat
  BY DEF FIXED
<1>2. PICK n : n = Len(b) - pos - FIXED
  OBVIOUS
<1>3. n \in Int /\ pos + n = Len(b) - FIXED /\ read_field(b, pos, "rest") = read(b, pos, n)
  BY <1>1, <1>2 DEF read_field
<1>4. ASSUME NEW k \in pos .. Len(b), NEW v, k + FIXED = Len(b), Denotes("rest", v, b, pos, k)
      PROVE  read_field(b, pos, "rest") = Read(k, v)
  <2>1. v = Span(b, pos, k)
    BY <1>4 DEF Denotes, pack_field
  <2>2. n >= 0 /\ pos + n <= Len(b) /\ pos + n = k
    BY <1>1, <1>3, <1>4
  <2>3. read(b, pos, n) = Read(pos + n, Span(b, pos, pos + n))
    BY <1>3, <2>2, ReadBytes
  <2> QED
    BY <1>3, <2>1, <2>2, <2>3
<1>5. ASSUME read_field(b, pos, "rest").ok
      PROVE  \E k \in pos .. Len(b) : \E v :
                 read_field(b, pos, "rest") = Read(k, v) /\ Denotes("rest", v, b, pos, k)
  <2>1. n >= 0 /\ pos + n <= Len(b) /\ read(b, pos, n) = Read(pos + n, Span(b, pos, pos + n))
    BY <1>3, <1>5, ReadBytes
  <2>2. PICK k, v : k = pos + n /\ v = Span(b, pos, k)
    OBVIOUS
  <2>3. k \in pos .. Len(b) /\ k \in Nat /\ pos <= k /\ k <= Len(b)
    BY <1>1, <1>3, <2>1, <2>2
  <2>4. v \in Seq(Byte)
    BY <2>2, <2>3, SpanFacts
  <2>5. Denotes("rest", v, b, pos, k)
    BY <2>2, <2>4 DEF Denotes, Good, RefFits, pack_field
  <2> QED
    BY <1>3, <2>1, <2>2, <2>3, <2>5
<1> QED
  BY <1>4, <1>5

(* A packed field is read as what it was packed from, and a field that is  *)
(* read is packed to the same bytes.                                       *)
LEMMA FieldRead ==
    ASSUME NEW b \in Seq(Byte), NEW pos \in Nat, NEW kind \in Kind
    PROVE  /\ \A k \in pos .. Len(b) : \A v :
                 (kind = "rest" => k + FIXED = Len(b)) /\ Denotes(kind, v, b, pos, k)
                    => read_field(b, pos, kind) = Read(k, v)
           /\ read_field(b, pos, kind).ok =>
                 \E k \in pos .. Len(b) : \E v : read_field(b, pos, kind) = Read(k, v) /\ Denotes(kind, v, b, pos, k)
<1>1. CASE kind = "str"
  <2>1. read_field(b, pos, kind) = read_str(b, pos)
    BY <1>1 DEF read_field
  <2> QED
    BY <1>1, <2>1, StringRead, Zenon
<1>2. CASE kind \in {"u32", "u64"}
  <2>1. kind \in {"u32", "u64"}
    BY <1>2
  <2>2. /\ \A k \in pos .. Len(b) : \A v : Denotes(kind, v, b, pos, k) => read_field(b, pos, kind) = Read(k, v)
        /\ read_field(b, pos, kind).ok =>
              \E k \in pos .. Len(b) : \E v : read_field(b, pos, kind) = Read(k, v) /\ Denotes(kind, v, b, pos, k)
    BY <2>1, NumberRead
  <2> QED
    BY <2>2, Zenon
<1>3. CASE kind = "content"
  BY <1>3, ContentRead, Zenon
<1>4. CASE kind = "fixed"
  BY <1>4, FixedRead, Zenon
<1>5. CASE kind = "rest"
  BY <1>5, RestRead, Zenon
<1> QED
  BY <1>1, <1>2, <1>3, <1>4, <1>5, Zenon DEF Kind

-----------------------------------------------------------------------------
(* The layouts.                                                            *)
LEMMA LayoutFacts ==
    ASSUME NEW t \in DOMAIN Layout, NEW n, n = Len(Layout[t])
    PROVE  /\ n \in Nat \ {0} /\ DOMAIN Layout[t] = 1 .. n
           /\ \A i \in 1 .. n : Layout[t][i].kind \in Kind
           /\ \A i, j \in 1 .. n : Layout[t][i].name = Layout[t][j].name => i = j
           /\ \A i \in 1 .. n : Layout[t][i].kind = "rest" => i + 1 = n /\ Layout[t][n].kind = "fixed"
<1>1. CASE t = "document"
  BY <1>1 DEF Layout, Document, Field, Kind
<1>2. CASE t = "payload"
  BY <1>2 DEF Layout, Payload, Field, Kind
<1>3. CASE t = "share"
  BY <1>3 DEF Layout, Share, Field, Kind
<1> QED
  BY <1>1, <1>2, <1>3 DEF Layout

LEMMA MagicFacts ==
    ASSUME NEW t \in DOMAIN Layout
    PROVE  Magic[t] \in Seq(Byte) /\ Len(Magic[t]) \in Nat
<1>1. 0 \in Byte /\ 1 \in Byte
  BY WidthAssumption DEF Byte
<1>2. <<0>> \in Seq(Byte) /\ <<1>> \in Seq(Byte) /\ <<>> \in Seq(Byte)
  BY <1>1
<1>3. Magic[t] = <<0>> \/ Magic[t] = <<1>> \/ Magic[t] = <<>>
  BY DEF Layout, Magic, MAGIC_DOC, MAGIC_SHARE
<1> QED
  BY <1>2, <1>3

(* Where the i-th field ends, if e says where fields end.                  *)
End(t, e, i) == IF i = 0 THEN Len(Magic[t]) ELSE e[i]

(* The i-th field of d is in b where e says.                               *)
FieldAt(t, b, d, e, i) ==
    /\ End(t, e, i - 1) \in Nat /\ e[i] \in Nat /\ End(t, e, i - 1) <= e[i] /\ e[i] <= Len(b)
    /\ Denotes(Layout[t][i].kind, d[Layout[t][i].name], b, End(t, e, i - 1), e[i])

(* b starts with the magic bytes and the fields of d that e has an end of. *)
Encodes(t, b, d, e) ==
    /\ b \in Seq(Byte) /\ e \in Seq(Nat) /\ Len(e) <= Len(Layout[t])
    /\ Len(Magic[t]) <= Len(b) /\ Span(b, 0, Len(Magic[t])) = Magic[t]
    /\ \A i \in 1 .. Len(e) : FieldAt(t, b, d, e, i)

LEMMA EndFacts ==
    ASSUME NEW t \in DOMAIN Layout, NEW b, NEW d, NEW e, Encodes(t, b, d, e), NEW i \in 0 .. Len(e)
    PROVE  End(t, e, i) \in Nat /\ End(t, e, i) <= Len(b)
<1>1. Len(e) \in Nat
  BY DEF Encodes
<1>2. CASE i = 0
  BY <1>2, MagicFacts DEF End, Encodes
<1>3. CASE i # 0
  <2>1. i \in 1 .. Len(e)
    BY <1>1, <1>3
  <2>2. FieldAt(t, b, d, e, i)
    BY <2>1 DEF Encodes
  <2> QED
    BY <1>3, <2>2 DEF FieldAt, End
<1> QED
  BY <1>2, <1>3

(* Blob c has what b has, and record x what d has.                         *)
Extends(c, b) ==
    /\ c \in Seq(Byte) /\ Len(b) <= Len(c)
    /\ \A i \in Nat, j \in Nat : i <= j /\ j <= Len(b) => Span(c, i, j) = Span(b, i, j)

Keeps(t, x, d, k) == \A i \in 1 .. k : x[Layout[t][i].name] = d[Layout[t][i].name]

(* One more field.                                                         *)
LEMMA EncodesMore ==
    ASSUME NEW t \in DOMAIN Layout, NEW b, NEW d, NEW e, Encodes(t, b, d, e), Len(e) < Len(Layout[t]),
           NEW c, Extends(c, b), NEW x, Keeps(t, x, d, Len(e)),
           NEW m, m = Len(e) + 1, NEW k \in Nat, End(t, e, Len(e)) <= k, k <= Len(c),
           Denotes(Layout[t][m].kind, x[Layout[t][m].name], c, End(t, e, Len(e)), k)
    PROVE  Encodes(t, c, x, Append(e, k))
<1>1. e \in Seq(Nat) /\ Len(e) \in Nat /\ b \in Seq(Byte) /\ c \in Seq(Byte) /\ Len(b) \in Nat /\ Len(c) \in Nat
  BY DEF Encodes, Extends
<1>2. PICK f : f = Append(e, k)
  OBVIOUS
<1>3. f \in Seq(Nat) /\ Len(f) = m /\ f[m] = k /\ \A i \in 1 .. Len(e) : f[i] = e[i]
  BY <1>1, <1>2
<1>4. \A i \in 0 .. Len(e) : End(t, f, i) = End(t, e, i)
  BY <1>1, <1>3 DEF End
<1>5. m <= Len(Layout[t])
  BY <1>1, LayoutFacts
<1>6. Len(Magic[t]) <= Len(c) /\ Span(c, 0, Len(Magic[t])) = Magic[t]
  <2>1. Len(Magic[t]) \in Nat /\ 0 <= Len(Magic[t]) /\ Len(Magic[t]) <= Len(b) /\ Span(b, 0, Len(Magic[t])) = Magic[t]
    BY MagicFacts DEF Encodes
  <2> QED
    BY <1>1, <2>1 DEF Extends
<1>7. ASSUME NEW i \in 1 .. m PROVE FieldAt(t, c, x, f, i)
  <2>1. CASE i = m
    <3>1. i - 1 = Len(e) /\ Len(e) \in 0 .. Len(e)
      BY <1>1, <2>1
    <3>2. End(t, f, i - 1) = End(t, e, Len(e)) /\ End(t, e, Len(e)) \in Nat
      BY <1>4, <3>1, EndFacts
    <3> QED
      BY <1>3, <2>1, <3>2 DEF FieldAt
  <2>2. CASE i # m
    <3>1. i \in 1 .. Len(e) /\ i - 1 \in 0 .. Len(e)
      BY <1>1, <2>2
    <3>2. FieldAt(t, b, d, e, i)
      BY <3>1 DEF Encodes
    <3>3. End(t, f, i - 1) = End(t, e, i - 1) /\ f[i] = e[i]
      BY <1>3, <1>4, <3>1
    <3>4. PICK u, w : u = End(t, e, i - 1) /\ w = e[i]
      OBVIOUS
    <3>5. u \in Nat /\ w \in Nat /\ u <= w /\ w <= Len(b) /\ Denotes(Layout[t][i].kind, d[Layout[t][i].name], b, u, w)
      BY <3>2, <3>4 DEF FieldAt
    <3>6. Span(c, u, w) = Span(b, u, w)
      BY <3>5 DEF Extends
    <3>7. x[Layout[t][i].name] = d[Layout[t][i].name]
      BY <3>1 DEF Keeps
    <3>8. Denotes(Layout[t][i].kind, x[Layout[t][i].name], c, u, w)
      BY <3>5, <3>6, <3>7, Zenon DEF Denotes
    <3>9. w <= Len(c)
      BY <1>1, <3>5 DEF Extends
    <3> QED
      BY <3>3, <3>4, <3>5, <3>8, <3>9 DEF FieldAt
  <2> QED
    BY <2>1, <2>2
<1>8. Encodes(t, c, x, f)
  BY <1>1, <1>3, <1>5, <1>6, <1>7 DEF Encodes
<1> QED
  BY <1>2, <1>8

LEMMA RecordGood ==
    ASSUME NEW t \in DOMAIN Layout, NEW d \in Records[t], NEW i \in 1 .. Len(Layout[t])
    PROVE  Good(Layout[t][i].kind, d[Layout[t][i].name])
<1>1. DOMAIN Layout[t] = 1 .. Len(Layout[t]) /\ Layout[t][i].kind \in Kind
  BY LayoutFacts
<1>2. d[Layout[t][i].name] \in FieldType(Layout[t][i].kind)
  BY <1>1, RecordAssumption
<1>3. PICK kind, v : kind \in Kind /\ kind = Layout[t][i].kind /\ v = d[Layout[t][i].name]
  BY <1>1
<1>4. v \in FieldType(kind)
  BY <1>2, <1>3
<1>5. Good(kind, v)
  <2>1. CASE kind = "str"
    BY <1>4, <2>1, NameAssumption DEF FieldType, Good
  <2>2. CASE kind \in {"u32", "u64"}
    BY <1>4, <2>2 DEF FieldType, Good
  <2>3. CASE kind \in {"content", "rest", "fixed"}
    BY <1>4, <2>3 DEF FieldType, Good
  <2> QED
    BY <1>3, <2>1, <2>2, <2>3 DEF Kind
<1> QED
  BY <1>3, <1>5

(* A first call of pack.                                                   *)
Packing(t, d, e, r) ==
    /\ d \in Records[t] /\ e \in Seq(Nat)
    /\ IF r = Refused
       THEN LET field == Layout[t][Len(e) + 1] IN ~RefFits(field.kind, d[field.name])
       ELSE Encodes(t, r, d, e) /\ Len(r) = End(t, e, Len(e))

LEMMA PackBegins ==
    ASSUME NEW t \in DOMAIN Layout, NEW d \in Records[t]
    PROVE  Packing(t, d, <<>>, Magic[t])
<1>1. Magic[t] \in Seq(Byte) /\ Len(Magic[t]) \in Nat /\ Span(Magic[t], 0, Len(Magic[t])) = Magic[t]
  BY MagicFacts, SpanFull
<1>2. Magic[t] # Refused
  BY <1>1, NameAssumption
<1>3. <<>> \in Seq(Nat) /\ Len(<<>>) = 0 /\ Len(<<>>) <= Len(Layout[t])
  BY LayoutFacts
<1>4. Encodes(t, Magic[t], d, <<>>)
  BY <1>1, <1>3 DEF Encodes
<1> QED
  BY <1>2, <1>3, <1>4 DEF Packing, End

LEMMA PackStep ==
    ASSUME NEW t \in DOMAIN Layout, NEW d, NEW e, NEW r, Packing(t, d, e, r), r # Refused,
           Len(e) < Len(Layout[t]), NEW m, m = Len(e) + 1,
           NEW part, part = pack_field(Layout[t][m].kind, d[Layout[t][m].name])
    PROVE  IF part = Refused THEN Packing(t, d, e, Refused)
           ELSE Packing(t, d, Append(e, Len(r \o part)), r \o part)
<1>1. /\ d \in Records[t] /\ e \in Seq(Nat) /\ Encodes(t, r, d, e) /\ Len(r) = End(t, e, Len(e))
      /\ r \in Seq(Byte) /\ Len(r) \in Nat /\ Len(e) \in Nat
  BY DEF Packing, Encodes
<1>2. PICK kind, v : kind = Layout[t][m].kind /\ v = d[Layout[t][m].name]
  OBVIOUS
<1>3. m \in 1 .. Len(Layout[t])
  BY <1>1, LayoutFacts
<1>4. kind \in Kind /\ Good(kind, v)
  BY <1>1, <1>2, <1>3, LayoutFacts, RecordGood
<1>5. (part = Refused <=> ~RefFits(kind, v)) /\ (RefFits(kind, v) => part \in Seq(Byte)) /\ part = pack_field(kind, v)
  BY <1>2, <1>4, FieldPacked
<1>6. CASE part = Refused
  BY <1>1, <1>2, <1>5, <1>6 DEF Packing
<1>7. CASE part # Refused
  <2>1. RefFits(kind, v) /\ part \in Seq(Byte)
    BY <1>5, <1>7
  <2>2. PICK c, k : c = r \o part /\ k = Len(c)
    OBVIOUS
  <2>3. c \in Seq(Byte) /\ k \in Nat /\ Len(c) = Len(r) + Len(part) /\ Len(part) \in Nat
    BY <1>1, <2>1, <2>2, ConcatProperties
  <2>4. Len(r) <= k /\ k <= Len(c)
    BY <1>1, <2>2, <2>3
  <2>5. Span(c, Len(r), k) = part
    BY <1>1, <2>1, <2>2, SpanAppended
  <2>6. Denotes(kind, v, c, Len(r), k)
    BY <1>4, <1>5, <2>1, <2>5 DEF Denotes
  <2>7. Extends(c, r)
    <3>1. ASSUME NEW i \in Nat, NEW j \in Nat, i <= j, j <= Len(r)
          PROVE  Span(c, i, j) = Span(r, i, j)
      BY <1>1, <2>1, <2>2, <3>1, SpanExtended
    <3> QED
      BY <2>2, <2>3, <2>4, <3>1 DEF Extends
  <2>8. Keeps(t, d, d, Len(e))
    BY DEF Keeps
  <2>9. Encodes(t, c, d, Append(e, k))
    <3>1. /\ Encodes(t, r, d, e) /\ Extends(c, r) /\ Keeps(t, d, d, Len(e)) /\ k \in Nat
          /\ End(t, e, Len(e)) <= k /\ k <= Len(c)
          /\ Denotes(Layout[t][m].kind, d[Layout[t][m].name], c, End(t, e, Len(e)), k)
      BY <1>1, <1>2, <2>3, <2>4, <2>6, <2>7, <2>8
    <3> QED
      BY <3>1, EncodesMore
  <2>10. c # Refused
    BY <2>3, NameAssumption
  <2>11. Append(e, k) \in Seq(Nat) /\ Len(Append(e, k)) = m /\ Append(e, k)[m] = k
    BY <1>1, <2>3
  <2>12. End(t, Append(e, k), m) = k
    BY <1>3, <2>11 DEF End
  <2>13. Packing(t, d, Append(e, k), c)
    BY <1>1, <2>2, <2>9, <2>10, <2>11, <2>12 DEF Packing
  <2> QED
    BY <1>7, <2>2, <2>13
<1> QED
  BY <1>6, <1>7

(* A first call of unpack.                                                 *)
Names(t, k) == {Layout[t][i].name : i \in 1 .. k}
With(r, name, v) == [n \in DOMAIN r \cup {name} |-> IF n = name THEN v ELSE r[n]]

Unpacking(t, b, e, r) ==
    /\ b \in Seq(Byte) /\ e \in Seq(Nat)
    /\ r # Refused =>
          /\ Encodes(t, b, r, e) /\ DOMAIN r = Names(t, Len(e))
          /\ Len(e) = Len(Layout[t]) => End(t, e, Len(e)) = Len(b)

(* x is r and a value of the field after the k-th.                         *)
Adds(t, x, r, k, v) ==
    /\ DOMAIN x = Names(t, k + 1) /\ x[Layout[t][k + 1].name] = v
    /\ Layout[t][k + 1].name \notin DOMAIN r
    /\ \A n \in DOMAIN r : x[n] = r[n]
    /\ Keeps(t, x, r, k)

LEMMA WithFacts ==
    ASSUME NEW t \in DOMAIN Layout, NEW k \in Nat, k < Len(Layout[t]), NEW r, DOMAIN r = Names(t, k),
           NEW m, m = k + 1, NEW v, NEW x, x = With(r, Layout[t][m].name, v)
    PROVE  Adds(t, x, r, k, v)
<1>1. PICK name : name = Layout[t][m].name
  OBVIOUS
<1>2. m \in 1 .. Len(Layout[t]) /\ \A i \in 1 .. k : i \in 1 .. Len(Layout[t]) /\ i # m
  BY LayoutFacts
<1>3. \A i \in 1 .. k : Layout[t][i].name # name
  BY <1>1, <1>2, LayoutFacts
<1>4. name \notin DOMAIN r
  BY <1>3 DEF Names
<1>5. \A i : i \in 1 .. m <=> i \in 1 .. k \/ i = m
  OBVIOUS
<1>6. Names(t, m) = DOMAIN r \cup {name}
  BY <1>1, <1>5, Zenon DEF Names
<1>7. DOMAIN x = DOMAIN r \cup {name} /\ x[name] = v /\ \A n \in DOMAIN r : x[n] = IF n = name THEN v ELSE r[n]
  BY <1>1 DEF With
<1>8. \A n \in DOMAIN r : x[n] = r[n]
  BY <1>4, <1>7
<1>9. Keeps(t, x, r, k)
  BY <1>8, Zenon DEF Keeps, Names
<1> QED
  BY <1>1, <1>4, <1>6, <1>7, <1>8, <1>9 DEF Adds

LEMMA UnpackBegins ==
    ASSUME NEW t \in DOMAIN Layout, NEW b \in Blobs[t]
    PROVE  Unpacking(t, b, <<>>, IF IsPrefix(Magic[t], b) THEN <<>> ELSE Refused)
<1>1. b \in Seq(Byte)
  BY RecordAssumption
<1>2. <<>> \in Seq(Nat) /\ Len(<<>>) = 0 /\ Len(Layout[t]) \in Nat \ {0}
  BY LayoutFacts
<1>3. CASE IsPrefix(Magic[t], b)
  <2>1. Magic[t] \in Seq(Byte) /\ Len(Magic[t]) \in Nat /\ Span(Magic[t], 0, Len(Magic[t])) = Magic[t]
    BY MagicFacts, SpanFull
  <2>2. Len(Magic[t]) <= Len(b) /\ Span(b, 0, Len(Magic[t])) = Magic[t]
    BY <1>3, <2>1 DEF IsPrefix, Span
  <2>3. Encodes(t, b, <<>>, <<>>)
    BY <1>1, <1>2, <2>2 DEF Encodes
  <2>4. DOMAIN <<>> = Names(t, 0)
    BY DEF Names
  <2> QED
    BY <1>1, <1>2, <1>3, <2>3, <2>4 DEF Unpacking
<1>4. CASE ~IsPrefix(Magic[t], b)
  BY <1>1, <1>2, <1>4 DEF Unpacking
<1> QED
  BY <1>3, <1>4

LEMMA UnpackStep ==
    ASSUME NEW t \in DOMAIN Layout, NEW b, NEW e, NEW r, Unpacking(t, b, e, r), r # Refused,
           Len(e) < Len(Layout[t]), NEW m, m = Len(e) + 1,
           NEW q, q = read_field(b, End(t, e, Len(e)), Layout[t][m].kind), q.ok,
           m = Len(Layout[t]) => assert_done(b, q.pos)
    PROVE  Unpacking(t, b, Append(e, q.pos), With(r, Layout[t][m].name, q.value))
<1>1. /\ b \in Seq(Byte) /\ e \in Seq(Nat) /\ Encodes(t, b, r, e) /\ DOMAIN r = Names(t, Len(e))
      /\ Len(e) \in Nat /\ Len(b) \in Nat
  BY DEF Unpacking
<1>2. PICK kind, name, pos : kind = Layout[t][m].kind /\ name = Layout[t][m].name /\ pos = End(t, e, Len(e))
  OBVIOUS
<1>3. m \in 1 .. Len(Layout[t])
  BY <1>1, LayoutFacts
<1>4. kind \in Kind
  BY <1>2, <1>3, LayoutFacts
<1>5. pos \in Nat
  BY <1>1, <1>2, EndFacts
<1>6. PICK k, v : k \in pos .. Len(b) /\ q = Read(k, v) /\ Denotes(kind, v, b, pos, k)
  <2>1. q = read_field(b, pos, kind)
    BY <1>2
  <2> QED
    BY <1>1, <1>4, <1>5, <2>1, FieldRead
<1>7. q.pos = k /\ q.value = v
  BY <1>6 DEF Read
<1>8. k \in Nat /\ pos <= k /\ k <= Len(b)
  BY <1>1, <1>5, <1>6
<1>9. PICK x : x = With(r, name, v)
  OBVIOUS
<1>10. DOMAIN x = Names(t, m) /\ x[name] = v /\ Keeps(t, x, r, Len(e))
  <2>1. /\ Len(e) \in Nat /\ Len(e) < Len(Layout[t]) /\ DOMAIN r = Names(t, Len(e)) /\ m = Len(e) + 1
        /\ x = With(r, Layout[t][m].name, v)
    BY <1>1, <1>2, <1>9
  <2>2. DOMAIN x = Names(t, m) /\ x[Layout[t][m].name] = v /\ Keeps(t, x, r, Len(e))
    <3>1. Adds(t, x, r, Len(e), v)
      BY <2>1, WithFacts
    <3> QED
      BY <2>1, <3>1 DEF Adds
  <2> QED
    BY <1>2, <2>2
<1>11. Extends(b, b)
  BY <1>1 DEF Extends
<1>12. Encodes(t, b, x, Append(e, k))
  <2>1. /\ Encodes(t, b, r, e) /\ Extends(b, b) /\ Keeps(t, x, r, Len(e)) /\ k \in Nat
        /\ End(t, e, Len(e)) <= k /\ k <= Len(b)
        /\ Denotes(Layout[t][m].kind, x[Layout[t][m].name], b, End(t, e, Len(e)), k)
    BY <1>1, <1>2, <1>6, <1>8, <1>10, <1>11
  <2> QED
    BY <2>1, EncodesMore
<1>13. Append(e, k) \in Seq(Nat) /\ Len(Append(e, k)) = m /\ Append(e, k)[m] = k
  BY <1>1, <1>8
<1>14. End(t, Append(e, k), m) = k
  BY <1>3, <1>13 DEF End
<1>15. m = Len(Layout[t]) => k = Len(b)
  BY <1>1, <1>7, <1>8 DEF assert_done
<1>16. Unpacking(t, b, Append(e, k), x)
  BY <1>1, <1>10, <1>12, <1>13, <1>14, <1>15 DEF Unpacking
<1> QED
  BY <1>2, <1>7, <1>9, <1>16

(* b is all that packing d makes, and f says where its fields end.         *)
Whole(t, b, d, f) ==
    Encodes(t, b, d, f) /\ Len(f) = Len(Layout[t]) /\ f[Len(f)] = Len(b)

Leads(e, f) == e \in Seq(Nat) /\ Len(e) <= Len(f) /\ \A i \in 1 .. Len(e) : e[i] = f[i]

(* A second call of pack, after b was unpacked to d.                       *)
Repacking(t, d, b, e, f, r) ==
    Whole(t, b, d, f) /\ Leads(e, f) /\ r = Span(b, 0, End(t, e, Len(e)))

(* A second call of unpack, after d was packed to b.                       *)
Reunpacking(t, d, b, e, f, r) ==
    /\ d \in Records[t] /\ Whole(t, b, d, f) /\ Leads(e, f)
    /\ r = [n \in Names(t, Len(e)) |-> d[n]]

LEMMA LeadsMore ==
    ASSUME NEW e, NEW f, Leads(e, f), f \in Seq(Nat), Len(e) < Len(f), NEW m, m = Len(e) + 1
    PROVE  Leads(Append(e, f[m]), f) /\ Len(Append(e, f[m])) = m /\ Append(e, f[m])[m] = f[m]
<1>1. e \in Seq(Nat) /\ Len(e) \in Nat /\ Len(f) \in Nat
  BY DEF Leads
<1>2. m \in 1 .. Len(f) /\ f[m] \in Nat
  BY <1>1
<1>3. PICK k, g : k \in Nat /\ k = f[m] /\ g = Append(e, k)
  BY <1>2
<1>4. g \in Seq(Nat) /\ Len(g) = m /\ g[m] = k /\ \A i \in 1 .. Len(e) : g[i] = e[i]
  BY <1>1, <1>3
<1>5. \A i \in 1 .. m : g[i] = f[i]
  <2>1. ASSUME NEW i \in 1 .. m PROVE g[i] = f[i]
    <3>1. CASE i = m
      BY <1>3, <1>4, <3>1
    <3>2. CASE i # m
      <4>1. i \in 1 .. Len(e)
        BY <1>1, <3>2
      <4> QED
        BY <1>4, <4>1 DEF Leads
    <3> QED
      BY <3>1, <3>2
  <2> QED
    BY <2>1
<1>6. Leads(g, f)
  BY <1>2, <1>4, <1>5 DEF Leads
<1> QED
  BY <1>3, <1>4, <1>6

(* The next field of a whole blob is read as it was packed, and nothing    *)
(* is left after the last.                                                 *)
LEMMA WholeField ==
    ASSUME NEW t \in DOMAIN Layout, NEW b, NEW d, NEW f, Whole(t, b, d, f),
           NEW e, Leads(e, f), Len(e) < Len(f), NEW m, m = Len(e) + 1
    PROVE  LET field == Layout[t][m]
               pos == End(t, e, Len(e))
           IN /\ m \in 1 .. Len(f) /\ field.kind \in Kind
              /\ pos \in Nat /\ f[m] \in Nat /\ pos <= f[m] /\ f[m] <= Len(b)
              /\ Denotes(field.kind, d[field.name], b, pos, f[m])
              /\ field.kind = "rest" => f[m] + FIXED = Len(b)
<1>1. /\ b \in Seq(Byte) /\ f \in Seq(Nat) /\ e \in Seq(Nat) /\ Len(f) = Len(Layout[t]) /\ f[Len(f)] = Len(b)
      /\ Len(e) \in Nat /\ Len(f) \in Nat /\ Len(b) \in Nat
  BY DEF Whole, Encodes, Leads
<1>2. m \in 1 .. Len(f)
  BY <1>1
<1>3. Layout[t][m].kind \in Kind
  BY <1>1, <1>2, LayoutFacts
<1>4. \A i \in 1 .. Len(f) : FieldAt(t, b, d, f, i)
  BY DEF Whole, Encodes
<1>5. End(t, f, m - 1) = End(t, e, Len(e))
  <2>1. m - 1 = Len(e)
    BY <1>1
  <2>2. CASE Len(e) = 0
    BY <2>1, <2>2 DEF End
  <2>3. CASE Len(e) # 0
    <3>1. Len(e) \in 1 .. Len(e)
      BY <1>1, <2>3
    <3> QED
      BY <2>1, <2>3, <3>1 DEF End, Leads
  <2> QED
    BY <2>2, <2>3
<1>6. /\ End(t, e, Len(e)) \in Nat /\ f[m] \in Nat /\ End(t, e, Len(e)) <= f[m] /\ f[m] <= Len(b)
      /\ Denotes(Layout[t][m].kind, d[Layout[t][m].name], b, End(t, e, Len(e)), f[m])
  BY <1>2, <1>4, <1>5 DEF FieldAt
<1>7. ASSUME Layout[t][m].kind = "rest" PROVE f[m] + FIXED = Len(b)
  <2>1. m + 1 = Len(f) /\ Layout[t][m + 1].kind = "fixed"
    <3>1. PICK n : n = Len(Layout[t])
      OBVIOUS
    <3>2. m \in 1 .. n /\ Layout[t][m].kind = "rest"
      BY <1>1, <1>2, <1>7, <3>1
    <3>3. m + 1 = n /\ Layout[t][n].kind = "fixed"
      BY <3>1, <3>2, LayoutFacts
    <3> QED
      BY <1>1, <3>1, <3>3
  <2>2. m + 1 \in 1 .. Len(f) /\ (m + 1) - 1 = m /\ m # 0
    BY <1>1, <1>2, <2>1
  <2>3. FieldAt(t, b, d, f, m + 1) /\ End(t, f, m) = f[m]
    BY <1>4, <2>2 DEF End
  <2>4. PICK u, w, v : u = f[m] /\ w = f[m + 1] /\ v = d[Layout[t][m + 1].name]
    OBVIOUS
  <2>5. u \in Nat /\ w \in Nat /\ u <= w /\ w <= Len(b) /\ Denotes("fixed", v, b, u, w)
    BY <2>1, <2>2, <2>3, <2>4 DEF FieldAt
  <2>6. Len(v) = FIXED /\ v = Span(b, u, w)
    BY <2>5 DEF Denotes, RefFits, pack_field, pack_fixed
  <2>7. Len(v) = w - u
    BY <1>1, <2>5, <2>6, SpanFacts
  <2>8. w = Len(b)
    BY <1>1, <2>1, <2>4
  <2>9. FIXED \in Nat
    BY DEF FIXED
  <2> QED
    BY <2>4, <2>5, <2>6, <2>7, <2>8, <2>9
<1> QED
  BY <1>2, <1>3, <1>6, <1>7

LEMMA RepackBegins ==
    ASSUME NEW t \in DOMAIN Layout, NEW b, NEW e, NEW r, Unpacking(t, b, e, r), r # Refused,
           Len(e) = Len(Layout[t])
    PROVE  Repacking(t, r, b, <<>>, e, Magic[t]) /\ e # <<>>
<1>1. Encodes(t, b, r, e) /\ End(t, e, Len(e)) = Len(b) /\ Len(e) \in Nat \ {0}
  BY LayoutFacts DEF Unpacking
<1>2. Whole(t, b, r, e)
  BY <1>1 DEF Whole, End
<1>3. Leads(<<>>, e)
  BY <1>1 DEF Leads
<1>4. Magic[t] = Span(b, 0, Len(Magic[t]))
  BY <1>1 DEF Encodes
<1>5. End(t, <<>>, Len(<<>>)) = Len(Magic[t])
  BY DEF End
<1> QED
  BY <1>1, <1>2, <1>3, <1>4, <1>5 DEF Repacking

LEMMA RepackStep ==
    ASSUME NEW t \in DOMAIN Layout, NEW d, NEW b, NEW e, NEW f, NEW r, Repacking(t, d, b, e, f, r),
           Len(e) < Len(Layout[t]), NEW m, m = Len(e) + 1,
           NEW part, part = pack_field(Layout[t][m].kind, d[Layout[t][m].name])
    PROVE  part # Refused /\ Repacking(t, d, b, Append(e, Len(r \o part)), f, r \o part)
<1>1. /\ Whole(t, b, d, f) /\ Leads(e, f) /\ r = Span(b, 0, End(t, e, Len(e))) /\ Len(f) = Len(Layout[t])
      /\ b \in Seq(Byte) /\ f \in Seq(Nat) /\ e \in Seq(Nat) /\ Len(e) \in Nat
  BY DEF Repacking, Whole, Encodes, Leads
<1>2. PICK kind, v, pos, k : /\ kind = Layout[t][m].kind /\ v = d[Layout[t][m].name]
                             /\ pos = End(t, e, Len(e)) /\ k = f[m]
  OBVIOUS
<1>3. /\ m \in 1 .. Len(f) /\ kind \in Kind /\ pos \in Nat /\ k \in Nat /\ pos <= k /\ k <= Len(b)
      /\ Denotes(kind, v, b, pos, k)
  <2>1. Len(e) < Len(f)
    BY <1>1
  <2> QED
    BY <1>1, <1>2, <2>1, WholeField
<1>4. part = Span(b, pos, k)
  BY <1>2, <1>3 DEF Denotes
<1>5. part \in Seq(Byte)
  BY <1>1, <1>3, <1>4, SpanFacts
<1>6. part # Refused
  BY <1>5, NameAssumption
<1>7. r \o part = Span(b, 0, k)
  <2>1. 0 \in Nat /\ 0 <= pos
    BY <1>3
  <2>2. Span(b, 0, pos) \o Span(b, pos, k) = Span(b, 0, k)
    BY <1>1, <1>3, <2>1, SpanConcat
  <2> QED
    BY <1>1, <1>2, <1>4, <2>2
<1>8. Len(r \o part) = k
  <2>1. 0 \in Nat /\ 0 <= k /\ k - 0 = k
    BY <1>3
  <2>2. Len(Span(b, 0, k)) = k - 0
    BY <1>1, <1>3, <2>1, SpanFacts
  <2> QED
    BY <1>7, <2>1, <2>2
<1>9. Leads(Append(e, k), f) /\ Len(Append(e, k)) = m /\ Append(e, k)[m] = k
  <2>1. Len(e) < Len(f)
    BY <1>1
  <2> QED
    BY <1>1, <1>2, <2>1, LeadsMore
<1>10. End(t, Append(e, k), m) = k
  BY <1>3, <1>9 DEF End
<1>11. Repacking(t, d, b, Append(e, k), f, r \o part)
  BY <1>1, <1>7, <1>9, <1>10 DEF Repacking
<1> QED
  BY <1>6, <1>8, <1>11

LEMMA ReunpackBegins ==
    ASSUME NEW t \in DOMAIN Layout, NEW d, NEW e, NEW r, Packing(t, d, e, r), r # Refused,
           Len(e) = Len(Layout[t])
    PROVE  Reunpacking(t, d, r, <<>>, e, <<>>) /\ e # <<>>
<1>1. d \in Records[t] /\ Encodes(t, r, d, e) /\ Len(r) = End(t, e, Len(e)) /\ Len(e) \in Nat \ {0}
  BY LayoutFacts DEF Packing
<1>2. Whole(t, r, d, e)
  BY <1>1 DEF Whole, End
<1>3. Leads(<<>>, e)
  BY <1>1 DEF Leads
<1>4. Names(t, 0) = {}
  BY DEF Names
<1>5. <<>> = [n \in {} |-> d[n]]
  OBVIOUS
<1>6. Len(<<>>) = 0
  OBVIOUS
<1> QED
  BY <1>1, <1>2, <1>3, <1>4, <1>5, <1>6 DEF Reunpacking

LEMMA ReunpackStep ==
    ASSUME NEW t \in DOMAIN Layout, NEW d, NEW b, NEW e, NEW f, NEW r, Reunpacking(t, d, b, e, f, r),
           Len(e) < Len(Layout[t]), NEW m, m = Len(e) + 1,
           NEW q, q = read_field(b, End(t, e, Len(e)), Layout[t][m].kind)
    PROVE  /\ q.ok = TRUE
           /\ m = Len(Layout[t]) => assert_done(b, q.pos)
           /\ Reunpacking(t, d, b, Append(e, q.pos), f, With(r, Layout[t][m].name, q.value))
<1>1. /\ d \in Records[t] /\ Whole(t, b, d, f) /\ Leads(e, f) /\ Len(f) = Len(Layout[t])
      /\ b \in Seq(Byte) /\ f \in Seq(Nat) /\ e \in Seq(Nat) /\ Len(e) \in Nat /\ f[Len(f)] = Len(b)
      /\ r = [n \in Names(t, Len(e)) |-> d[n]]
  BY DEF Reunpacking, Whole, Encodes, Leads
<1>2. PICK kind, name, pos, k : /\ kind = Layout[t][m].kind /\ name = Layout[t][m].name
                                /\ pos = End(t, e, Len(e)) /\ k = f[m]
  OBVIOUS
<1>3. /\ m \in 1 .. Len(f) /\ kind \in Kind /\ pos \in Nat /\ k \in Nat /\ pos <= k /\ k <= Len(b)
      /\ Denotes(kind, d[name], b, pos, k)
      /\ kind = "rest" => k + FIXED = Len(b)
  <2>1. Len(e) < Len(f)
    BY <1>1
  <2> QED
    BY <1>1, <1>2, <2>1, WholeField
<1>4. q = Read(k, d[name])
  <2>1. q = read_field(b, pos, kind) /\ k \in pos .. Len(b)
    BY <1>1, <1>2, <1>3
  <2> QED
    BY <1>1, <1>3, <2>1, FieldRead
<1>5. q.ok = TRUE /\ q.pos = k /\ q.value = d[name]
  BY <1>4 DEF Read
<1>6. m = Len(Layout[t]) => assert_done(b, k)
  BY <1>1, <1>2 DEF assert_done
<1>7. Leads(Append(e, k), f) /\ Len(Append(e, k)) = m
  <2>1. Len(e) < Len(f)
    BY <1>1
  <2> QED
    BY <1>1, <1>2, <2>1, LeadsMore
<1>8. PICK x : x = With(r, name, d[name])
  OBVIOUS
<1>9. x = [n \in Names(t, m) |-> d[n]]
  <2>1. DOMAIN r = Names(t, Len(e))
    BY <1>1
  <2>2. Adds(t, x, r, Len(e), d[name])
    BY <1>1, <1>2, <1>8, <2>1, WithFacts
  <2>3. DOMAIN x = Names(t, m) /\ x[name] = d[name] /\ Names(t, m) = Names(t, Len(e)) \cup {name}
    BY <1>2, <1>8, <2>1, <2>2 DEF Adds, With
  <2>4. \A n \in DOMAIN x : x[n] = d[n]
    BY <1>1, <2>1, <2>2, <2>3 DEF Adds
  <2>5. x = [n \in DOMAIN x |-> x[n]]
    BY <1>8 DEF With
  <2> QED
    BY <2>3, <2>4, <2>5
<1>10. Reunpacking(t, d, b, Append(e, k), f, x)
  BY <1>1, <1>7, <1>9 DEF Reunpacking
<1> QED
  BY <1>2, <1>5, <1>6, <1>8, <1>10

-----------------------------------------------------------------------------
(* The inductive invariant: which of the four a call of pack or unpack is. *)
Coded(op, t, d, b, e, f) ==
    [op |-> op, layout |-> t, record |-> d, blob |-> b, ends |-> e, earlier |-> f]

Stage(op, t, d, b, e, f, r) ==
    \/ op = "pack" /\ f = <<>> /\ Packing(t, d, e, r)
    \/ op = "pack" /\ f # <<>> /\ Repacking(t, d, b, e, f, r)
    \/ op = "unpack" /\ f = <<>> /\ Unpacking(t, b, e, r)
    \/ op = "unpack" /\ f # <<>> /\ Reunpacking(t, d, b, e, f, r)

CodingInv(c, r) ==
    c.op \in {"pack", "unpack"} =>
        /\ c = Coded(c.op, c.layout, c.record, c.blob, c.ends, c.earlier)
        /\ c.layout \in DOMAIN Layout
        /\ Stage(c.op, c.layout, c.record, c.blob, c.ends, c.earlier, r)

CanonicalInv(c, r) == c.op = "canonical" => c.request \in SignedRequest /\ r = canonical(c.request)

KeysInv(c, r) ==
    c.op = "derive_both" =>
        c.key \in Keys256 /\ r = <<derive_auth_key(Data(c.key)), derive_kek(Data(c.key))>>

CallInv(c, r) == CodingInv(c, r) /\ CanonicalInv(c, r) /\ KeysInv(c, r)

EncodingInv == CallInv(call, result)

LEMMA CodedInv ==
    ASSUME NEW op \in {"pack", "unpack"}, NEW t \in DOMAIN Layout, NEW d, NEW b, NEW e, NEW f, NEW r,
           Stage(op, t, d, b, e, f, r), NEW c, c = Coded(op, t, d, b, e, f)
    PROVE  CallInv(c, r)
<1>1. c.op = op /\ c.layout = t /\ c.record = d /\ c.blob = b /\ c.ends = e /\ c.earlier = f
  BY DEF Coded
<1>2. CodingInv(c, r)
  BY <1>1 DEF CodingInv
<1> QED
  BY <1>1, <1>2 DEF CallInv, CanonicalInv, KeysInv

(* The parts of a call of pack or unpack.                                  *)
LEMMA CodedCall ==
    ASSUME NEW c, NEW r, CallInv(c, r), c.op \in {"pack", "unpack"}
    PROVE  \E t, d, b, e, f :
              t \in DOMAIN Layout /\ c = Coded(c.op, t, d, b, e, f) /\ Stage(c.op, t, d, b, e, f, r)
  BY Zenon DEF CallInv, CodingInv

CodedFields == {"op", "layout", "record", "blob", "ends", "earlier"}

LEMMA CodedIs ==
    ASSUME NEW c, c = [x \in CodedFields |-> c[x]]
    PROVE  c = Coded(c.op, c.layout, c.record, c.blob, c.ends, c.earlier)
  BY DEF Coded, CodedFields

LEMMA FieldUpdated ==
    ASSUME NEW c, c = [x \in CodedFields |-> c[x]], NEW field \in CodedFields, NEW v, NEW z,
           z = [c EXCEPT ![field] = v]
    PROVE  /\ z = [x \in CodedFields |-> z[x]]
           /\ z[field] = v /\ \A x \in CodedFields \ {field} : z[x] = c[x]
<1>1. DOMAIN c = CodedFields
  OBVIOUS
<1>2. z = [x \in DOMAIN c |-> IF x = field THEN v ELSE c[x]]
  OBVIOUS
<1> QED
  BY <1>1, <1>2

LEMMA EndsUpdated ==
    ASSUME NEW op, NEW t, NEW d, NEW b, NEW e, NEW f, NEW c, c = Coded(op, t, d, b, e, f), NEW k
    PROVE  [c EXCEPT !.ends = Append(@, k)] = Coded(op, t, d, b, Append(e, k), f)
<1>1. /\ c = [x \in CodedFields |-> c[x]]
      /\ c.op = op /\ c.layout = t /\ c.record = d /\ c.blob = b /\ c.ends = e /\ c.earlier = f
  BY DEF Coded, CodedFields
<1>2. PICK v, z : v = Append(e, k) /\ z = [c EXCEPT !["ends"] = v]
  OBVIOUS
<1>3. "ends" \in CodedFields
  BY DEF CodedFields
<1>4. z = [x \in CodedFields |-> z[x]] /\ z.ends = v /\ \A x \in CodedFields \ {"ends"} : z[x] = c[x]
  BY <1>1, <1>2, <1>3, FieldUpdated
<1>5. z = Coded(z.op, z.layout, z.record, z.blob, z.ends, z.earlier)
  BY <1>4, CodedIs
<1>6. z.op = op /\ z.layout = t /\ z.record = d /\ z.blob = b /\ z.earlier = f
  BY <1>1, <1>4 DEF CodedFields
<1> QED
  BY <1>1, <1>2, <1>4, <1>5, <1>6, Zenon

UnpackNow(c, y) == [c EXCEPT !.op = "unpack", !.blob = y, !.ends = <<>>, !.earlier = c.ends]
PackNow(c, y) == [c EXCEPT !.op = "pack", !.record = y, !.ends = <<>>, !.earlier = c.ends]

LEMMA UnpackCalled ==
    ASSUME NEW op, NEW t, NEW d, NEW b, NEW e, NEW f, NEW c, c = Coded(op, t, d, b, e, f), NEW y
    PROVE  UnpackNow(c, y) = Coded("unpack", t, d, y, <<>>, e)
<1>1. /\ c = [x \in CodedFields |-> c[x]]
      /\ c.op = op /\ c.layout = t /\ c.record = d /\ c.blob = b /\ c.ends = e /\ c.earlier = f
  BY DEF Coded, CodedFields
<1>2. PICK z1 : z1 = [c EXCEPT !["op"] = "unpack"]
  OBVIOUS
<1>3. PICK z2 : z2 = [z1 EXCEPT !["blob"] = y]
  OBVIOUS
<1>4. PICK z3 : z3 = [z2 EXCEPT !["ends"] = <<>>]
  OBVIOUS
<1>5. PICK z : z = [z3 EXCEPT !["earlier"] = e]
  OBVIOUS
<1>6. z1 = [x \in CodedFields |-> z1[x]] /\ z1.op = "unpack" /\ \A x \in CodedFields \ {"op"} : z1[x] = c[x]
  BY <1>1, <1>2, FieldUpdated DEF CodedFields
<1>7. z2 = [x \in CodedFields |-> z2[x]] /\ z2.blob = y /\ \A x \in CodedFields \ {"blob"} : z2[x] = z1[x]
  BY <1>6, <1>3, FieldUpdated DEF CodedFields
<1>8. z3 = [x \in CodedFields |-> z3[x]] /\ z3.ends = <<>> /\ \A x \in CodedFields \ {"ends"} : z3[x] = z2[x]
  BY <1>7, <1>4, FieldUpdated DEF CodedFields
<1>9. z = [x \in CodedFields |-> z[x]] /\ z.earlier = e /\ \A x \in CodedFields \ {"earlier"} : z[x] = z3[x]
  BY <1>8, <1>5, FieldUpdated DEF CodedFields
<1>10. z = Coded(z.op, z.layout, z.record, z.blob, z.ends, z.earlier)
  BY <1>9, CodedIs
<1>11. z.op = "unpack" /\ z.layout = t /\ z.record = d /\ z.blob = y /\ z.ends = <<>> /\ z.earlier = e
  <2>1. z1.layout = c.layout /\ z1.record = c.record /\ z1.blob = c.blob /\ z1.ends = c.ends /\ z1.earlier = c.earlier
    BY <1>6 DEF CodedFields
  <2>2. z2.op = z1.op /\ z2.layout = z1.layout /\ z2.record = z1.record /\ z2.ends = z1.ends /\ z2.earlier = z1.earlier
    BY <1>7 DEF CodedFields
  <2>3. z3.op = z2.op /\ z3.layout = z2.layout /\ z3.record = z2.record /\ z3.blob = z2.blob /\ z3.earlier = z2.earlier
    BY <1>8 DEF CodedFields
  <2>4. z.op = z3.op /\ z.layout = z3.layout /\ z.record = z3.record /\ z.blob = z3.blob /\ z.ends = z3.ends
    BY <1>9 DEF CodedFields
  <2> QED
    BY <1>1, <1>6, <1>7, <1>8, <1>9, <2>1, <2>2, <2>3, <2>4
<1> QED
  BY <1>1, <1>2, <1>3, <1>4, <1>5, <1>10, <1>11, Zenon DEF UnpackNow

LEMMA PackCalled ==
    ASSUME NEW op, NEW t, NEW d, NEW b, NEW e, NEW f, NEW c, c = Coded(op, t, d, b, e, f), NEW y
    PROVE  PackNow(c, y) = Coded("pack", t, y, b, <<>>, e)
<1>1. /\ c = [x \in CodedFields |-> c[x]]
      /\ c.op = op /\ c.layout = t /\ c.record = d /\ c.blob = b /\ c.ends = e /\ c.earlier = f
  BY DEF Coded, CodedFields
<1>2. PICK z1 : z1 = [c EXCEPT !["op"] = "pack"]
  OBVIOUS
<1>3. PICK z2 : z2 = [z1 EXCEPT !["record"] = y]
  OBVIOUS
<1>4. PICK z3 : z3 = [z2 EXCEPT !["ends"] = <<>>]
  OBVIOUS
<1>5. PICK z : z = [z3 EXCEPT !["earlier"] = e]
  OBVIOUS
<1>6. z1 = [x \in CodedFields |-> z1[x]] /\ z1.op = "pack" /\ \A x \in CodedFields \ {"op"} : z1[x] = c[x]
  BY <1>1, <1>2, FieldUpdated DEF CodedFields
<1>7. z2 = [x \in CodedFields |-> z2[x]] /\ z2.record = y /\ \A x \in CodedFields \ {"record"} : z2[x] = z1[x]
  BY <1>6, <1>3, FieldUpdated DEF CodedFields
<1>8. z3 = [x \in CodedFields |-> z3[x]] /\ z3.ends = <<>> /\ \A x \in CodedFields \ {"ends"} : z3[x] = z2[x]
  BY <1>7, <1>4, FieldUpdated DEF CodedFields
<1>9. z = [x \in CodedFields |-> z[x]] /\ z.earlier = e /\ \A x \in CodedFields \ {"earlier"} : z[x] = z3[x]
  BY <1>8, <1>5, FieldUpdated DEF CodedFields
<1>10. z = Coded(z.op, z.layout, z.record, z.blob, z.ends, z.earlier)
  BY <1>9, CodedIs
<1>11. z.op = "pack" /\ z.layout = t /\ z.record = y /\ z.blob = b /\ z.ends = <<>> /\ z.earlier = e
  <2>1. z1.layout = c.layout /\ z1.record = c.record /\ z1.blob = c.blob /\ z1.ends = c.ends /\ z1.earlier = c.earlier
    BY <1>6 DEF CodedFields
  <2>2. z2.op = z1.op /\ z2.layout = z1.layout /\ z2.blob = z1.blob /\ z2.ends = z1.ends /\ z2.earlier = z1.earlier
    BY <1>7 DEF CodedFields
  <2>3. z3.op = z2.op /\ z3.layout = z2.layout /\ z3.record = z2.record /\ z3.blob = z2.blob /\ z3.earlier = z2.earlier
    BY <1>8 DEF CodedFields
  <2>4. z.op = z3.op /\ z.layout = z3.layout /\ z.record = z3.record /\ z.blob = z3.blob /\ z.ends = z3.ends
    BY <1>9 DEF CodedFields
  <2> QED
    BY <1>1, <1>6, <1>7, <1>8, <1>9, <2>1, <2>2, <2>3, <2>4
<1> QED
  BY <1>1, <1>2, <1>3, <1>4, <1>5, <1>10, <1>11, Zenon DEF PackNow

LEMMA LastEnd ==
    ASSUME NEW t, NEW e \in Seq(Nat)
    PROVE  (IF e = <<>> THEN Len(Magic[t]) ELSE Last(e)) = End(t, e, Len(e))
<1>1. CASE e = <<>>
  BY <1>1 DEF End
<1>2. CASE e # <<>>
  <2>1. Len(e) # 0
    BY <1>2
  <2> QED
    BY <1>2, <2>1 DEF End, Last
<1> QED
  BY <1>1, <1>2

(* Fewer fields than the layout has, unless all are done.                  *)
LEMMA StageEnds ==
    ASSUME NEW op, NEW t \in DOMAIN Layout, NEW d, NEW b, NEW e, NEW f, NEW r, Stage(op, t, d, b, e, f, r),
           r # Refused
    PROVE  e \in Seq(Nat) /\ Len(e) \in Nat /\ Len(e) <= Len(Layout[t])
  BY DEF Stage, Packing, Unpacking, Repacking, Reunpacking, Encodes, Leads, Whole

LEMMA PackFieldInv == ASSUME EncodingInv, PackField PROVE EncodingInv'
<1>1. PICK t, d, b, e, f :
            t \in DOMAIN Layout /\ call = Coded("pack", t, d, b, e, f) /\ Stage("pack", t, d, b, e, f, result)
  <2>1. CallInv(call, result) /\ call.op = "pack"
    BY DEF EncodingInv, PackField
  <2> QED
    BY <2>1, CodedCall
<1> t \in DOMAIN Layout
  BY <1>1
<1>2. call.layout = t /\ call.record = d /\ call.ends = e
  BY <1>1 DEF Coded
<1>3. PICK m, part, r : /\ m = Len(e) + 1 /\ part = pack_field(Layout[t][m].kind, d[Layout[t][m].name])
                        /\ r = result
  OBVIOUS
<1>4. /\ r # Refused /\ Len(e) # Len(Layout[t])
      /\ IF part = Refused THEN result' = Refused /\ call' = call
         ELSE result' = r \o part /\ call' = [call EXCEPT !.ends = Append(@, Len(r \o part))]
  BY <1>2, <1>3 DEF PackField, Complete, Current
<1>5. e \in Seq(Nat) /\ Len(e) < Len(Layout[t])
  <2>1. e \in Seq(Nat) /\ Len(e) \in Nat /\ Len(e) <= Len(Layout[t])
    BY <1>1, <1>3, <1>4, StageEnds
  <2>2. Len(Layout[t]) \in Nat
    BY LayoutFacts
  <2> QED
    BY <1>4, <2>1, <2>2
<1>6. CASE part = Refused
  <2>1. call' = Coded("pack", t, d, b, e, f) /\ result' = Refused
    BY <1>1, <1>4, <1>6
  <2>2. Stage("pack", t, d, b, e, f, Refused)
    <3>1. CASE f = <<>>
      <4>1. Packing(t, d, e, r)
        BY <1>1, <1>3, <3>1 DEF Stage
      <4>2. Packing(t, d, e, Refused)
        BY <1>3, <1>4, <1>5, <1>6, <4>1, PackStep
      <4> QED
        BY <3>1, <4>2 DEF Stage
    <3>2. CASE f # <<>>
      <4>1. Repacking(t, d, b, e, f, r)
        BY <1>1, <1>3, <3>2 DEF Stage
      <4>2. part # Refused
        BY <1>3, <1>5, <4>1, RepackStep
      <4> QED
        BY <1>6, <4>2
    <3> QED
      BY <3>1, <3>2
  <2> QED
    BY <2>1, <2>2, CodedInv DEF EncodingInv
<1>7. CASE part # Refused
  <2>1. PICK p, k : p = r \o part /\ k = Len(p)
    OBVIOUS
  <2>2. result' = p /\ call' = [call EXCEPT !.ends = Append(@, k)]
    BY <1>4, <1>7, <2>1
  <2>3. call' = Coded("pack", t, d, b, Append(e, k), f)
    BY <1>1, <2>2, EndsUpdated
  <2>4. Stage("pack", t, d, b, Append(e, k), f, p)
    <3>1. CASE f = <<>>
      <4>1. Packing(t, d, e, r)
        BY <1>1, <1>3, <3>1 DEF Stage
      <4>2. Packing(t, d, Append(e, k), p)
        BY <1>3, <1>4, <1>5, <1>7, <2>1, <4>1, PackStep
      <4> QED
        BY <3>1, <4>2 DEF Stage
    <3>2. CASE f # <<>>
      <4>1. Repacking(t, d, b, e, f, r)
        BY <1>1, <1>3, <3>2 DEF Stage
      <4>2. Repacking(t, d, b, Append(e, k), f, p)
        BY <1>3, <1>5, <2>1, <4>1, RepackStep
      <4> QED
        BY <3>2, <4>2 DEF Stage
    <3> QED
      BY <3>1, <3>2
  <2> QED
    BY <2>2, <2>3, <2>4, CodedInv DEF EncodingInv
<1> QED
  BY <1>6, <1>7

LEMMA UnpackFieldInv == ASSUME EncodingInv, UnpackField PROVE EncodingInv'
<1>1. PICK t, d, b, e, f :
            t \in DOMAIN Layout /\ call = Coded("unpack", t, d, b, e, f) /\ Stage("unpack", t, d, b, e, f, result)
  <2>1. CallInv(call, result) /\ call.op = "unpack"
    BY DEF EncodingInv, UnpackField
  <2> QED
    BY <2>1, CodedCall
<1> t \in DOMAIN Layout
  BY <1>1
<1>2. call.layout = t /\ call.blob = b /\ call.ends = e
  BY <1>1 DEF Coded
<1>3. PICK m, q, r : /\ m = Len(e) + 1 /\ q = read_field(b, End(t, e, Len(e)), Layout[t][m].kind)
                     /\ r = result
  OBVIOUS
<1>4. r # Refused /\ Len(e) # Len(Layout[t])
  BY <1>2, <1>3 DEF UnpackField, Complete
<1>5. e \in Seq(Nat) /\ Len(e) < Len(Layout[t])
  <2>1. e \in Seq(Nat) /\ Len(e) \in Nat /\ Len(e) <= Len(Layout[t])
    BY <1>1, <1>3, <1>4, StageEnds
  <2>2. Len(Layout[t]) \in Nat
    BY LayoutFacts
  <2> QED
    BY <1>4, <2>1, <2>2
<1>6. Position = End(t, e, Len(e))
  BY <1>2, <1>5, LastEnd DEF Position
<1>7. IF ~q.ok \/ (m = Len(Layout[t]) /\ ~assert_done(b, q.pos)) THEN result' = Refused /\ call' = call
      ELSE /\ result' = With(r, Layout[t][m].name, q.value)
           /\ call' = [call EXCEPT !.ends = Append(@, q.pos)]
  BY <1>2, <1>3, <1>6, Zenon DEF UnpackField, Current, With
<1>8. CASE ~q.ok \/ (m = Len(Layout[t]) /\ ~assert_done(b, q.pos))
  <2>1. call' = Coded("unpack", t, d, b, e, f) /\ result' = Refused
    BY <1>1, <1>7, <1>8
  <2>2. Stage("unpack", t, d, b, e, f, Refused)
    <3>1. CASE f = <<>>
      <4>1. Unpacking(t, b, e, r)
        BY <1>1, <1>3, <3>1 DEF Stage
      <4>2. Unpacking(t, b, e, Refused)
        BY <4>1 DEF Unpacking
      <4> QED
        BY <3>1, <4>2 DEF Stage
    <3>2. CASE f # <<>>
      <4>1. Reunpacking(t, d, b, e, f, r)
        BY <1>1, <1>3, <3>2 DEF Stage
      <4>2. q.ok = TRUE /\ (m = Len(Layout[t]) => assert_done(b, q.pos))
        BY <1>3, <1>5, <4>1, ReunpackStep
      <4> QED
        BY <1>8, <4>2
    <3> QED
      BY <3>1, <3>2
  <2> QED
    BY <2>1, <2>2, CodedInv DEF EncodingInv
<1>9. CASE q.ok /\ (m = Len(Layout[t]) => assert_done(b, q.pos))
  <2>1. PICK x, k : x = With(r, Layout[t][m].name, q.value) /\ k = q.pos
    OBVIOUS
  <2>2. result' = x /\ call' = [call EXCEPT !.ends = Append(@, k)]
    BY <1>7, <1>9, <2>1
  <2>3. call' = Coded("unpack", t, d, b, Append(e, k), f)
    BY <1>1, <2>2, EndsUpdated
  <2>4. Stage("unpack", t, d, b, Append(e, k), f, x)
    <3>1. CASE f = <<>>
      <4>1. Unpacking(t, b, e, r)
        BY <1>1, <1>3, <3>1 DEF Stage
      <4>2. Unpacking(t, b, Append(e, k), x)
        BY <1>3, <1>4, <1>5, <1>9, <2>1, <4>1, UnpackStep
      <4> QED
        BY <3>1, <4>2 DEF Stage
    <3>2. CASE f # <<>>
      <4>1. Reunpacking(t, d, b, e, f, r)
        BY <1>1, <1>3, <3>2 DEF Stage
      <4>2. Reunpacking(t, d, b, Append(e, k), f, x)
        BY <1>3, <1>5, <2>1, <4>1, ReunpackStep
      <4> QED
        BY <3>2, <4>2 DEF Stage
    <3> QED
      BY <3>1, <3>2
  <2> QED
    BY <2>2, <2>3, <2>4, CodedInv DEF EncodingInv
<1> QED
  BY <1>8, <1>9

LEMMA UnpackPackedInv == ASSUME EncodingInv, UnpackPacked PROVE EncodingInv'
<1>1. PICK t, d, b, e, f :
            t \in DOMAIN Layout /\ call = Coded("pack", t, d, b, e, f) /\ Stage("pack", t, d, b, e, f, result)
  <2>1. CallInv(call, result) /\ call.op = "pack"
    BY DEF EncodingInv, UnpackPacked
  <2> QED
    BY <2>1, CodedCall
<1> t \in DOMAIN Layout
  BY <1>1
<1>2. call.layout = t /\ call.ends = e /\ call.earlier = f
  BY <1>1 DEF Coded
<1>3. PICK r : r = result
  OBVIOUS
<1>4. r # Refused /\ Len(e) = Len(Layout[t]) /\ f = <<>> /\ result' = <<>>
  BY <1>2, <1>3 DEF UnpackPacked, Complete, First
<1>5. call' = Coded("unpack", t, d, r, <<>>, e)
  <2>1. call' = UnpackNow(call, r)
    BY <1>3 DEF UnpackPacked, UnpackNow
  <2>2. UnpackNow(call, r) = Coded("unpack", t, d, r, <<>>, e)
    BY <1>1, UnpackCalled
  <2> QED
    BY <2>1, <2>2
<1>6. Packing(t, d, e, r)
  BY <1>1, <1>3, <1>4 DEF Stage
<1>7. Reunpacking(t, d, r, <<>>, e, <<>>) /\ e # <<>>
  BY <1>4, <1>6, ReunpackBegins
<1>8. Stage("unpack", t, d, r, <<>>, e, <<>>)
  BY <1>7 DEF Stage
<1> QED
  BY <1>4, <1>5, <1>8, CodedInv DEF EncodingInv

LEMMA PackUnpackedInv == ASSUME EncodingInv, PackUnpacked PROVE EncodingInv'
<1>1. PICK t, d, b, e, f :
            t \in DOMAIN Layout /\ call = Coded("unpack", t, d, b, e, f) /\ Stage("unpack", t, d, b, e, f, result)
  <2>1. CallInv(call, result) /\ call.op = "unpack"
    BY DEF EncodingInv, PackUnpacked
  <2> QED
    BY <2>1, CodedCall
<1> t \in DOMAIN Layout
  BY <1>1
<1>2. call.layout = t /\ call.ends = e /\ call.earlier = f
  BY <1>1 DEF Coded
<1>3. PICK r : r = result
  OBVIOUS
<1>4. r # Refused /\ Len(e) = Len(Layout[t]) /\ f = <<>> /\ result' = Magic[t]
  BY <1>2, <1>3 DEF PackUnpacked, Complete, First
<1>5. call' = Coded("pack", t, r, b, <<>>, e)
  <2>1. call' = PackNow(call, r)
    BY <1>3 DEF PackUnpacked, PackNow
  <2>2. PackNow(call, r) = Coded("pack", t, r, b, <<>>, e)
    BY <1>1, PackCalled
  <2> QED
    BY <2>1, <2>2
<1>6. Unpacking(t, b, e, r)
  BY <1>1, <1>3, <1>4 DEF Stage
<1>7. Repacking(t, r, b, <<>>, e, Magic[t]) /\ e # <<>>
  BY <1>4, <1>6, RepackBegins
<1>8. Stage("pack", t, r, b, <<>>, e, Magic[t])
  BY <1>7 DEF Stage
<1> QED
  BY <1>4, <1>5, <1>8, CodedInv DEF EncodingInv

LEMMA CallPackInv == ASSUME CallPack PROVE EncodingInv'
<1>1. PICK t \in DOMAIN Layout : \E d \in Records[t] : call' = Coding("pack", t, d, None) /\ result' = Magic[t]
  BY Zenon DEF CallPack, Calls
<1> PICK d \in Records[t] : call' = Coding("pack", t, d, None) /\ result' = Magic[t]
  BY <1>1
<1>2. call' = Coded("pack", t, d, None, <<>>, <<>>)
  BY DEF Coding, Coded
<1>3. Packing(t, d, <<>>, Magic[t])
  BY PackBegins
<1>4. Stage("pack", t, d, None, <<>>, <<>>, Magic[t])
  BY <1>3 DEF Stage
<1> QED
  BY <1>2, <1>4, CodedInv DEF EncodingInv

LEMMA CallUnpackInv == ASSUME CallUnpack PROVE EncodingInv'
<1>1. PICK t \in DOMAIN Layout : \E b \in Blobs[t] :
            call' = Coding("unpack", t, None, b) /\ result' = IF IsPrefix(Magic[t], b) THEN <<>> ELSE Refused
  BY Zenon DEF CallUnpack, Calls
<1> PICK b \in Blobs[t] :
        call' = Coding("unpack", t, None, b) /\ result' = IF IsPrefix(Magic[t], b) THEN <<>> ELSE Refused
  BY <1>1
<1>2. call' = Coded("unpack", t, None, b, <<>>, <<>>)
  BY DEF Coding, Coded
<1>3. PICK r : r = IF IsPrefix(Magic[t], b) THEN <<>> ELSE Refused
  OBVIOUS
<1>4. Unpacking(t, b, <<>>, r)
  BY <1>3, UnpackBegins, Zenon
<1>5. Stage("unpack", t, None, b, <<>>, <<>>, r)
  BY <1>4 DEF Stage
<1>6. result' = r
  BY <1>3
<1> QED
  BY <1>2, <1>5, <1>6, CodedInv DEF EncodingInv

LEMMA CallCanonicalInv == ASSUME CallCanonical PROVE EncodingInv'
<1>1. PICK r \in SignedRequest : call' = [op |-> "canonical", request |-> r] /\ result' = canonical(r)
  BY Zenon DEF CallCanonical, Calls
<1>2. call'.op = "canonical" /\ call'.request = r
  BY <1>1
<1>3. CanonicalInv(call', result')
  BY <1>1, <1>2 DEF CanonicalInv
<1> QED
  BY <1>2, <1>3 DEF EncodingInv, CallInv, CodingInv, KeysInv

LEMMA CallHmacInv == ASSUME CallHmac PROVE EncodingInv'
<1>1. PICK key \in Keys256 : /\ call' = [op |-> "derive_both", key |-> key]
                             /\ result' = <<derive_auth_key(Data(key)), derive_kek(Data(key))>>
  BY Zenon DEF CallHmac, Calls
<1>2. call'.op = "derive_both" /\ call'.key = key
  BY <1>1
<1>3. KeysInv(call', result')
  BY <1>1, <1>2, Zenon DEF KeysInv
<1> QED
  BY <1>2, <1>3 DEF EncodingInv, CallInv, CodingInv, CanonicalInv

LEMMA EncodingInitInv == Init => EncodingInv
<1>1. ASSUME Init PROVE call.op = "none"
  BY <1>1 DEF Init, None
<1> QED
  BY <1>1 DEF EncodingInv, CallInv, CodingInv, CanonicalInv, KeysInv

LEMMA EncodingNextInv == EncodingInv /\ [EncodingNext]_vars => EncodingInv'
<1> SUFFICES ASSUME EncodingInv, [EncodingNext]_vars PROVE EncodingInv'
  OBVIOUS
<1>1. CASE CallPack \/ CallUnpack \/ CallCanonical \/ CallHmac
  BY <1>1, CallPackInv, CallUnpackInv, CallCanonicalInv, CallHmacInv
<1>2. CASE PackField
  BY <1>2, PackFieldInv
<1>3. CASE UnpackPacked
  BY <1>3, UnpackPackedInv
<1>4. CASE UnpackField
  BY <1>4, UnpackFieldInv
<1>5. CASE PackUnpacked
  BY <1>5, PackUnpackedInv
<1>6. CASE StreamStep \/ UNCHANGED vars
  BY <1>6 DEF StreamStep, vars, EncodingInv
<1> QED
  BY <1>1, <1>2, <1>3, <1>4, <1>5, <1>6 DEF EncodingNext

LEMMA EncodingInvariant == EncodingSpec => []EncodingInv
  BY EncodingInitInv, EncodingNextInv, PTL DEF EncodingSpec

-----------------------------------------------------------------------------
(* What the invariant says of a call that is under way.                    *)
LEMMA LeadsPrefix ==
    ASSUME NEW e, NEW f \in Seq(Nat), Leads(e, f)
    PROVE  IsPrefix(e, f)
<1>1. e \in Seq(Nat) /\ Len(e) \in Nat /\ Len(f) \in Nat /\ Len(e) <= Len(f) /\ \A i \in 1 .. Len(e) : e[i] = f[i]
  BY DEF Leads
<1>2. PICK n : n = Len(e)
  OBVIOUS
<1>3. PICK x, y : x = Span(e, 0, n) /\ y = Span(f, 0, n)
  OBVIOUS
<1>4. 0 \in Nat /\ n \in Nat /\ 0 <= n /\ n <= Len(e) /\ n <= Len(f)
  BY <1>1, <1>2
<1>5. x = e
  BY <1>1, <1>2, <1>3, SpanFull
<1>6. y \in Seq(Nat) /\ Len(y) = n - 0 /\ \A k \in 1 .. n - 0 : y[k] = f[0 + k]
  BY <1>3, <1>4, SpanFacts
<1>7. \A k \in 1 .. Len(e) : e[k] = y[k]
  BY <1>1, <1>2, <1>6
<1>8. e = y
  BY <1>1, <1>2, <1>6, <1>7, SeqEqual
<1> QED
  BY <1>1, <1>2, <1>3, <1>5, <1>8 DEF IsPrefix, Span

LEMMA SpanPrefix ==
    ASSUME NEW b \in Seq(Byte), NEW k \in Nat, k <= Len(b)
    PROVE  Span(b, 0, k) \in Seq(Byte) /\ IsPrefix(Span(b, 0, k), b)
<1>1. PICK s : s = Span(b, 0, k)
  OBVIOUS
<1>2. 0 \in Nat /\ 0 <= k
  OBVIOUS
<1>3. s \in Seq(Byte) /\ Len(s) = k - 0
  BY <1>1, <1>2, SpanFacts
<1>4. SubSeq(s, 1, Len(s)) = s
  BY <1>3, SpanFull DEF Span
<1>5. s = SubSeq(b, 1, Len(s))
  BY <1>1, <1>3 DEF Span
<1> QED
  BY <1>1, <1>3, <1>4, <1>5 DEF IsPrefix

LEMMA PackingFits ==
    ASSUME NEW t \in DOMAIN Layout, NEW d, NEW e, NEW r, Packing(t, d, e, r)
    PROVE  IF r = Refused THEN ~RefFits(Layout[t][Len(e) + 1].kind, d[Layout[t][Len(e) + 1].name])
           ELSE \A i \in DOMAIN e : RefFits(Layout[t][i].kind, d[Layout[t][i].name])
<1>1. CASE r = Refused
  BY <1>1 DEF Packing
<1>2. CASE r # Refused
  <2>1. e \in Seq(Nat) /\ \A i \in 1 .. Len(e) : FieldAt(t, r, d, e, i)
    BY <1>2 DEF Packing, Encodes
  <2>2. ASSUME NEW i \in DOMAIN e PROVE RefFits(Layout[t][i].kind, d[Layout[t][i].name])
    <3>1. i \in 1 .. Len(e)
      BY <2>1
    <3>2. FieldAt(t, r, d, e, i)
      BY <2>1, <3>1
    <3> QED
      BY <3>2, Zenon DEF FieldAt, Denotes
  <2> QED
    BY <1>2, <2>2
<1> QED
  BY <1>1, <1>2

LEMMA ReunpackingFaithful ==
    ASSUME NEW t \in DOMAIN Layout, NEW d, NEW b, NEW e, NEW f, NEW r, Reunpacking(t, d, b, e, f, r)
    PROVE  /\ r # Refused
           /\ IsPrefix(e, f)
           /\ \A n \in DOMAIN r : r[n] = d[n]
           /\ Len(e) = Len(Layout[t]) => r = d
<1>1. /\ d \in Records[t] /\ Leads(e, f) /\ f \in Seq(Nat) /\ r = [n \in Names(t, Len(e)) |-> d[n]]
      /\ Len(e) \in Nat /\ Len(e) <= Len(Layout[t]) /\ Len(Layout[t]) \in Nat /\ DOMAIN Layout[t] = 1 .. Len(Layout[t])
  BY LayoutFacts DEF Reunpacking, Whole, Encodes, Leads
<1>2. d = [n \in FieldNames(t) |-> d[n]]
  BY <1>1, RecordAssumption
<1>3. Names(t, Len(Layout[t])) = FieldNames(t)
  BY <1>1 DEF Names, FieldNames
<1>4. Names(t, Len(e)) \subseteq FieldNames(t)
  <2>1. \A i \in 1 .. Len(e) : i \in DOMAIN Layout[t]
    BY <1>1
  <2> QED
    BY <2>1 DEF Names, FieldNames
<1>5. r \in [Names(t, Len(e)) -> Name \cup Int \cup Seq(Byte)]
  <2>1. ASSUME NEW n \in Names(t, Len(e)) PROVE d[n] \in Name \cup Int \cup Seq(Byte)
    <3>1. PICK i \in DOMAIN Layout[t] : n = Layout[t][i].name
      BY <1>4 DEF FieldNames
    <3>2. d[n] \in FieldType(Layout[t][i].kind)
      BY <1>1, <3>1, RecordAssumption
    <3>3. PICK kind : kind = Layout[t][i].kind
      OBVIOUS
    <3>4. FieldType(kind) = Name \/ FieldType(kind) = Int \/ FieldType(kind) = Seq(Byte)
      <4>1. kind \in Kind
        BY <1>1, <3>3, LayoutFacts
      <4> QED
        BY <4>1 DEF FieldType, Kind
    <3>5. d[n] \in FieldType(kind)
      BY <3>2, <3>3
    <3> QED
      BY <3>4, <3>5
  <2> QED
    BY <1>1, <2>1
<1>6. r # Refused
  BY <1>4, <1>5, RecordAssumption
<1>7. IsPrefix(e, f)
  BY <1>1, LeadsPrefix
<1>8. \A n \in DOMAIN r : r[n] = d[n]
  BY <1>1
<1>9. Len(e) = Len(Layout[t]) => r = d
  BY <1>1, <1>2, <1>3
<1> QED
  BY <1>6, <1>7, <1>8, <1>9

LEMMA RepackingFaithful ==
    ASSUME NEW t \in DOMAIN Layout, NEW d, NEW b, NEW e, NEW f, NEW r, Repacking(t, d, b, e, f, r)
    PROVE  /\ r # Refused
           /\ IsPrefix(e, f)
           /\ IsPrefix(r, b)
           /\ Len(e) = Len(Layout[t]) => r = b
<1>1. /\ Encodes(t, b, d, f) /\ Leads(e, f) /\ r = Span(b, 0, End(t, e, Len(e))) /\ Len(f) = Len(Layout[t])
      /\ f[Len(f)] = Len(b) /\ b \in Seq(Byte) /\ f \in Seq(Nat) /\ Len(e) \in Nat /\ Len(e) <= Len(f)
  BY DEF Repacking, Whole, Encodes, Leads
<1>2. PICK k : k = End(t, e, Len(e))
  OBVIOUS
<1>3. End(t, f, Len(e)) = k
  <2>1. CASE Len(e) = 0
    BY <1>2, <2>1 DEF End
  <2>2. CASE Len(e) # 0
    <3>1. Len(e) \in 1 .. Len(e)
      BY <1>1, <2>2
    <3> QED
      BY <1>1, <1>2, <2>2, <3>1 DEF End, Leads
  <2> QED
    BY <2>1, <2>2
<1>4. k \in Nat /\ k <= Len(b)
  <2>1. Len(e) \in 0 .. Len(f)
    BY <1>1
  <2> QED
    BY <1>1, <1>3, <2>1, EndFacts
<1>5. r \in Seq(Byte) /\ IsPrefix(r, b)
  BY <1>1, <1>2, <1>4, SpanPrefix
<1>6. r # Refused
  BY <1>5, NameAssumption
<1>7. ASSUME Len(e) = Len(Layout[t]) PROVE r = b
  <2>1. Len(e) # 0
    BY <1>7, LayoutFacts
  <2>2. k = Len(b)
    BY <1>1, <1>3, <1>7, <2>1 DEF End
  <2> QED
    BY <1>1, <1>2, <2>2, SpanFull
<1>8. IsPrefix(e, f)
  BY <1>1, LeadsPrefix
<1> QED
  BY <1>5, <1>6, <1>7, <1>8

(* No blob has the magic bytes of two layouts.                             *)
LEMMA MagicTells ==
    ASSUME NEW t \in DOMAIN Layout, NEW b, NEW d, NEW e, Encodes(t, b, d, e), t # "payload",
           NEW u \in {"document", "share"}, u # t
    PROVE  ~IsPrefix(Magic[u], b)
<1>1. b \in Seq(Byte) /\ Len(Magic[t]) <= Len(b) /\ SubSeq(b, 1, Len(Magic[t])) = Magic[t]
  BY DEF Encodes, Span
<1>2. ASSUME NEW x, Len(<<x>>) <= Len(b), SubSeq(b, 1, Len(<<x>>)) = <<x>> PROVE b[1] = x
  <2>1. SubSeq(b, 1, 1) = <<x>>
    BY <1>2
  <2>2. 0 \in Nat /\ 1 \in Nat /\ 0 <= 1 /\ 1 <= Len(b)
    BY <1>2
  <2>3. \A k \in 1 .. 1 - 0 : Span(b, 0, 1)[k] = b[0 + k]
    BY <1>1, <2>2, SpanFacts
  <2>4. Span(b, 0, 1)[1] = b[1]
    BY <2>3
  <2>5. Span(b, 0, 1) = <<x>>
    <3>1. 0 + 1 = 1
      OBVIOUS
    <3> QED
      BY <2>1, <3>1, Zenon DEF Span
  <2> QED
    BY <2>4, <2>5
<1>3. SUFFICES ASSUME IsPrefix(Magic[u], b) PROVE FALSE
  OBVIOUS
<1>4. Len(Magic[u]) <= Len(b) /\ SubSeq(b, 1, Len(Magic[u])) = Magic[u]
  <2>1. Magic[u] \in Seq(Byte) /\ u \in DOMAIN Layout
    BY MagicFacts DEF Layout
  <2>2. SubSeq(Magic[u], 1, Len(Magic[u])) = Magic[u]
    BY <2>1, SpanFull DEF Span
  <2> QED
    BY <1>3, <2>2 DEF IsPrefix
<1>5. CASE t = "document" /\ u = "share"
  <2>1. Magic[t] = <<0>> /\ Magic[u] = <<1>>
    BY <1>5 DEF Magic, MAGIC_DOC, MAGIC_SHARE
  <2>2. b[1] = 0 /\ b[1] = 1
    BY <1>1, <1>2, <1>4, <2>1
  <2> QED
    BY <2>2
<1>6. CASE t = "share" /\ u = "document"
  <2>1. Magic[t] = <<1>> /\ Magic[u] = <<0>>
    BY <1>6 DEF Magic, MAGIC_DOC, MAGIC_SHARE
  <2>2. b[1] = 0 /\ b[1] = 1
    BY <1>1, <1>2, <1>4, <2>1
  <2> QED
    BY <2>2
<1> QED
  BY <1>5, <1>6 DEF Layout

LEMMA InvPacked == EncodingInv => PackedUnpacks
<1> SUFFICES ASSUME EncodingInv PROVE PackedUnpacks
  OBVIOUS
<1>1. ASSUME call.op = "pack", First
      PROVE  IF result = Refused THEN ~RefFits(Current.kind, call.record[Current.name])
             ELSE \A i \in DOMAIN call.ends :
                      RefFits(Layout[call.layout][i].kind, call.record[Layout[call.layout][i].name])
  <2>1. PICK t, d, b, e, f :
              t \in DOMAIN Layout /\ call = Coded("pack", t, d, b, e, f) /\ Stage("pack", t, d, b, e, f, result)
    <3>1. CallInv(call, result) /\ call.op = "pack"
      BY <1>1 DEF EncodingInv
    <3> QED
      BY <3>1, CodedCall
  <2> t \in DOMAIN Layout
    BY <2>1
  <2>2. call.layout = t /\ call.record = d /\ call.ends = e /\ call.earlier = f
    BY <2>1 DEF Coded
  <2>3. Packing(t, d, e, result)
    BY <1>1, <2>1, <2>2 DEF Stage, First
  <2>4. IF result = Refused THEN ~RefFits(Layout[t][Len(e) + 1].kind, d[Layout[t][Len(e) + 1].name])
        ELSE \A i \in DOMAIN e : RefFits(Layout[t][i].kind, d[Layout[t][i].name])
    BY <2>3, PackingFits
  <2> QED
    BY <2>2, <2>4, Zenon DEF Current
<1>2. ASSUME call.op = "unpack", ~First
      PROVE  /\ result # Refused
             /\ IsPrefix(call.ends, call.earlier)
             /\ \A n \in DOMAIN result : result[n] = call.record[n]
             /\ Complete => result = call.record
  <2>1. PICK t, d, b, e, f :
              t \in DOMAIN Layout /\ call = Coded("unpack", t, d, b, e, f) /\ Stage("unpack", t, d, b, e, f, result)
    <3>1. CallInv(call, result) /\ call.op = "unpack"
      BY <1>2 DEF EncodingInv
    <3> QED
      BY <3>1, CodedCall
  <2> t \in DOMAIN Layout
    BY <2>1
  <2>2. call.layout = t /\ call.record = d /\ call.ends = e /\ call.earlier = f
    BY <2>1 DEF Coded
  <2>3. Reunpacking(t, d, b, e, f, result)
    BY <1>2, <2>1, <2>2 DEF Stage, First
  <2>4. /\ result # Refused /\ IsPrefix(e, f) /\ \A n \in DOMAIN result : result[n] = d[n]
        /\ Len(e) = Len(Layout[t]) => result = d
    BY <2>3, ReunpackingFaithful
  <2> QED
    BY <2>2, <2>4, Zenon DEF Complete
<1> QED
  BY <1>1, <1>2 DEF PackedUnpacks

LEMMA InvCanonical == EncodingInv => BlobsCanonical
<1> SUFFICES ASSUME EncodingInv PROVE BlobsCanonical
  OBVIOUS
<1>1. ASSUME call.op = "pack", ~First
      PROVE  /\ result # Refused
             /\ IsPrefix(call.ends, call.earlier)
             /\ IsPrefix(result, call.blob)
             /\ Complete => result = call.blob
  <2>1. PICK t, d, b, e, f :
              t \in DOMAIN Layout /\ call = Coded("pack", t, d, b, e, f) /\ Stage("pack", t, d, b, e, f, result)
    <3>1. CallInv(call, result) /\ call.op = "pack"
      BY <1>1 DEF EncodingInv
    <3> QED
      BY <3>1, CodedCall
  <2> t \in DOMAIN Layout
    BY <2>1
  <2>2. call.layout = t /\ call.blob = b /\ call.ends = e /\ call.earlier = f
    BY <2>1 DEF Coded
  <2>3. Repacking(t, d, b, e, f, result)
    BY <1>1, <2>1, <2>2 DEF Stage, First
  <2>4. /\ result # Refused /\ IsPrefix(e, f) /\ IsPrefix(result, b)
        /\ Len(e) = Len(Layout[t]) => result = b
    BY <2>3, RepackingFaithful
  <2> QED
    BY <2>2, <2>4, Zenon DEF Complete
<1>2. ASSUME call.op = "unpack", result # Refused, call.layout # "payload",
             NEW u \in {"document", "share"} \ {call.layout}
      PROVE  ~IsPrefix(Magic[u], call.blob)
  <2>1. PICK t, d, b, e, f :
              t \in DOMAIN Layout /\ call = Coded("unpack", t, d, b, e, f) /\ Stage("unpack", t, d, b, e, f, result)
    <3>1. CallInv(call, result) /\ call.op = "unpack"
      BY <1>2 DEF EncodingInv
    <3> QED
      BY <3>1, CodedCall
  <2> t \in DOMAIN Layout
    BY <2>1
  <2>2. call.layout = t /\ call.blob = b
    BY <2>1 DEF Coded
  <2>3. \E x, y : Encodes(t, b, x, y)
    BY <1>2, <2>1 DEF Stage, Unpacking, Reunpacking, Whole
  <2>4. u \in {"document", "share"} /\ u # t /\ t # "payload"
    BY <1>2, <2>2
  <2> QED
    BY <2>2, <2>3, <2>4, MagicTells
<1> QED
  BY <1>1, <1>2 DEF BlobsCanonical

(* Packing and unpacking are inverse to each other, for every layout,      *)
(* every record of names, numbers and contents, and every blob: what does  *)
(* not fit is refused and never cut, what was packed comes back field by   *)
(* field, and what was unpacked is packed to the same bytes.               *)
THEOREM CodecIsFaithful == EncodingSpec => []CodecFaithful
<1>1. EncodingInv => CodecFaithful
  BY InvPacked, InvCanonical DEF CodecFaithful
<1> QED
  BY <1>1, EncodingInvariant, PTL

(* What a user signs is one request, whatever characters names and nonces  *)
(* have: of two requests of one user with the same canonical string both   *)
(* are shares, with different recipients, and only one fits the blob.      *)
THEOREM CanonicalStringsBind == EncodingSpec => []CanonicalBinds
<1>1. EncodingInv => CanonicalBinds
  <2> SUFFICES ASSUME EncodingInv, call.op = "canonical",
                      NEW r \in SignedRequest, r.user = call.request.user, canonical(r) = result
               PROVE  \/ r = call.request
                      \/ r.type = "share" /\ call.request.type = "share" /\ r.recipient # call.request.recipient
    BY DEF CanonicalBinds
  <2>1. call.request \in SignedRequest /\ result = canonical(call.request)
    BY DEF EncodingInv, CallInv, CanonicalInv
  <2>2. PICK q \in SignedRequest : q = call.request
    BY <2>1
  <2>3. r.user = q.user /\ canonical(r) = canonical(q)
    BY <2>1, <2>2
  <2> QED
    BY <2>2, <2>3, CanonicalReadings, Zenon
<1> QED
  BY <1>1, EncodingInvariant, PTL

(* Master keys of one length never share a derived key, and the key that   *)
(* answers the challenge is never the one that encrypts the keystore, if   *)
(* the hash tells any two inputs apart.                                    *)
THEOREM KeysDiffer == EncodingSpec => []DerivedKeysDiffer
<1>1. EncodingInv => DerivedKeysDiffer
  <2> SUFFICES ASSUME EncodingInv, call.op = "derive_both"
               PROVE  /\ result[1] # result[2]
                      /\ \A key \in Keys256 : Len(key) = Len(call.key) /\ key # call.key =>
                            {derive_auth_key(Data(key)), derive_kek(Data(key))} \cap {result[1], result[2]} = {}
    BY DEF DerivedKeysDiffer
  <2>1. PICK s \in Keys256 : s = call.key /\ result = <<derive_auth_key(Data(s)), derive_kek(Data(s))>>
    BY DEF EncodingInv, CallInv, KeysInv
  <2>2. PICK auth, kek : auth = <<"data", "auth">> /\ kek = <<"data", "kek">>
    OBVIOUS
  <2>3. auth \in Label /\ kek \in Label /\ auth # kek
    BY <2>2 DEF Label
  <2>4. \A key : derive_auth_key(Data(key)) = hmac_sha256(Data(key), <<auth>>)
                 /\ derive_kek(Data(key)) = hmac_sha256(Data(key), <<kek>>)
    BY <2>2 DEF derive_auth_key, derive_kek
  <2>5. ASSUME NEW key \in Keys256, Len(key) = Len(s), NEW m \in Label, NEW n \in Label,
               hmac_sha256(Data(key), <<m>>) = hmac_sha256(Data(s), <<n>>)
        PROVE  key = s /\ m = n
    <3>1. key \in Seq(Byte256) /\ s \in Seq(Byte256)
      BY KeyAssumption
    <3> QED
      BY <2>5, <3>1, HmacInjective
  <2>6. result[1] # result[2]
    <3>1. PICK x, y : x = hmac_sha256(Data(s), <<auth>>) /\ y = hmac_sha256(Data(s), <<kek>>)
      OBVIOUS
    <3>2. x # y
      <4>1. s \in Keys256 /\ Len(s) = Len(s)
        OBVIOUS
      <4> QED
        BY <2>3, <2>5, <3>1, <4>1, Zenon
    <3>3. result = <<x, y>>
      BY <2>1, <2>4, <3>1, Zenon
    <3> QED
      BY <3>2, <3>3
  <2>7. ASSUME NEW key \in Keys256, Len(key) = Len(s), key # s
        PROVE  {derive_auth_key(Data(key)), derive_kek(Data(key))} \cap {result[1], result[2]} = {}
    BY <2>1, <2>3, <2>4, <2>5, <2>7
  <2> QED
    BY <2>1, <2>6, <2>7
<1> QED
  BY <1>1, EncodingInvariant, PTL
=============================================================================
