---------------------------- MODULE Wire_proofs ----------------------------
(***************************************************************************)
(* Frames over TCP: however a stream cuts them into pieces, for any number *)
(* of clients and strangers, any messages, any sizes of a chunk, of the    *)
(* buffer and of the largest frame, an exchange is faithful and a request  *)
(* is answered while the server runs.                                      *)
(***************************************************************************)
EXTENDS Wire, SequenceTheorems, TLAPS

-----------------------------------------------------------------------------
(* The inductive invariant.                                                *)

Serving == {"queued", "recv", "send"}

Types ==
    /\ phase \in [Side -> [Conn -> {"idle", "queued", "send", "recv", "done", "failed", "closed"}]]
    /\ out \in [Side -> [Conn -> Seq(Byte)]]
    /\ pipe \in [Side -> [Conn -> Seq(Byte)]]
    /\ got \in [Side -> [Conn -> Seq(Byte)]]
    /\ open \in [Side -> [Conn -> BOOLEAN]]
    /\ asked \in [Conn -> Message \cup {NoMessage}]
    /\ handled \in [Conn -> Message \cup {NoMessage}]
    /\ answer \in [Conn -> Message \cup {NoMessage}]
    /\ result \in [Conn -> Message \cup {NoMessage}]
    /\ up \in BOOLEAN

(* The buffer of a stream and the bytes a reader has asked for.            *)
Bounded(c) ==
    \A s \in Side : Len(pipe[s][c]) <= BUFFER /\ Len(got[s][c]) <= HEADER + MAX_MESSAGE_LEN

(* The server's end is open exactly as long as its thread, or the backlog, *)
(* has the connection.                                                     *)
ServerEnd(c) ==
    /\ phase["server"][c] \in Serving \cup {"idle", "closed"}
    /\ open["server"][c] <=> phase["server"][c] \in Serving
    /\ phase["server"][c] \in Serving => up

(* What was received, what is on its way and what is still to be sent are  *)
(* together the frame, in each direction.                                  *)
Frame(m) == IF m = NoMessage THEN <<>> ELSE encode(m)

Streams(c) ==
    /\ got["server"][c] \o pipe["server"][c] \o out["client"][c] = Frame(asked[c])
    /\ got["client"][c] \o pipe["client"][c] \o out["server"][c] = Frame(answer[c])

(* How far the call of a client and the thread that serves it have got.    *)
Unasked(c) ==
    /\ phase["client"][c] = "idle" =>
          phase["server"][c] = "idle" /\ asked[c] = NoMessage /\ answer[c] = NoMessage
    /\ phase["client"][c] # "idle" => asked[c] \in Request
    /\ phase["client"][c] \in {"idle", "send", "recv", "done", "failed"}

Calling(c) ==
    /\ phase["client"][c] \in {"send", "recv"} =>
          open["client"][c] /\ encode(asked[c]) # <<>> /\ phase["server"][c] # "idle"
    /\ phase["client"][c] = "send" => out["client"][c] # <<>>
    /\ up /\ phase["client"][c] = "send" => phase["server"][c] \in {"queued", "recv"}
    /\ up /\ phase["client"][c] = "recv" /\ phase["server"][c] = "closed" =>
          out["server"][c] = <<>> /\ answer[c] # NoMessage

Served(c) ==
    /\ phase["server"][c] \in {"idle", "queued", "recv"} => answer[c] = NoMessage /\ handled[c] = NoMessage
    /\ phase["server"][c] = "send" => out["server"][c] # <<>>
    /\ answer[c] # NoMessage => encode(answer[c]) # <<>>
    /\ handled[c] \in {NoMessage, asked[c]}
    /\ answer[c] # NoMessage /\ handled[c] = NoMessage => phase["client"][c] = "failed"

Ended(c) ==
    /\ phase["client"][c] = "done" =>
          handled[c] = asked[c] /\ result[c] = answer[c] /\ phase["server"][c] = "closed"
    /\ phase["client"][c] = "failed" => ~up \/ Len(Body[asked[c]]) > MAX_MESSAGE_LEN

CallInv(c) == Streams(c) /\ Unasked(c) /\ Calling(c) /\ Served(c) /\ Ended(c)

IInv ==
    /\ Types
    /\ \A c \in Conn : Bounded(c) /\ ServerEnd(c)
    /\ \A c \in Client : CallInv(c)

-----------------------------------------------------------------------------
(* Frames and their prefixes.                                              *)

LEMMA Sizes ==
    /\ HEADER \in Nat /\ HEADER >= 1 /\ MAX_MESSAGE_LEN \in Nat /\ MAX_MESSAGE_LEN >= 1
    /\ CHUNK \in Nat /\ BUFFER \in Nat
  BY WireAssumption

LEMMA Bodies ==
    \A m \in Message : Body[m] \in Seq(Byte) /\ Len(Body[m]) \in Nat /\ Len(Body[m]) >= 1
  BY WireAssumption, LenProperties

LEMMA Encoded ==
    ASSUME NEW m \in Message, encode(m) # <<>>
    PROVE  /\ Len(Body[m]) <= MAX_MESSAGE_LEN
           /\ encode(m) = to_bytes(Len(Body[m]), HEADER) \o Body[m]
           /\ to_bytes(Len(Body[m]), HEADER) \in Seq(Byte)
           /\ Len(to_bytes(Len(Body[m]), HEADER)) = HEADER
           /\ from_bytes(to_bytes(Len(Body[m]), HEADER)) = Len(Body[m])
           /\ encode(m) \in Seq(Byte) /\ Len(encode(m)) = HEADER + Len(Body[m])
<1>1. Body[m] \in Seq(Byte) /\ Len(Body[m]) \in Nat /\ Len(Body[m]) >= 1
  BY Bodies
<1> DEFINE h == to_bytes(Len(Body[m]), HEADER)
<1>2. ~(Len(Body[m]) > MAX_MESSAGE_LEN) /\ encode(m) = h \o Body[m]
  BY DEF encode
<1>x. Len(Body[m]) \in 1 .. MAX_MESSAGE_LEN
  BY <1>1, <1>2, Sizes
<1>3. h \in Seq(Byte) /\ from_bytes(h) = Len(Body[m])
  BY <1>x, HeaderAssumption
<1>4. DOMAIN h = 1 .. HEADER
  BY DEF to_bytes
<1> HIDE DEF h
<1>5. Len(h) = HEADER
  BY <1>3, <1>4, Sizes, LenProperties
<1>6. h \o Body[m] \in Seq(Byte) /\ Len(h \o Body[m]) = Len(h) + Len(Body[m])
  BY <1>1, <1>3, ConcatProperties
<1> QED
  BY <1>2, <1>3, <1>5, <1>6, <1>x DEF h

LEMMA Refused == \A m \in Message : encode(m) = <<>> <=> Len(Body[m]) > MAX_MESSAGE_LEN
<1> SUFFICES ASSUME NEW m \in Message PROVE encode(m) = <<>> <=> Len(Body[m]) > MAX_MESSAGE_LEN
  OBVIOUS
<1>1. CASE encode(m) = <<>>
  <2>1. ASSUME ~(Len(Body[m]) > MAX_MESSAGE_LEN)
        PROVE  FALSE
    <3>1. Body[m] = <<>>
      <4>1. Len(Body[m]) \in 1 .. MAX_MESSAGE_LEN
        BY <2>1, Bodies, Sizes
      <4>2. to_bytes(Len(Body[m]), HEADER) \o Body[m] = <<>> /\ to_bytes(Len(Body[m]), HEADER) \in Seq(Byte)
        BY <1>1, <2>1, <4>1, HeaderAssumption DEF encode
      <4> HIDE DEF to_bytes
      <4> QED
        BY <4>2, Bodies, ConcatEqualIffEmpty
    <3> QED
      BY <3>1, Bodies
  <2> QED
    BY <1>1, <2>1
<1>2. CASE encode(m) # <<>>
  BY <1>2 DEF encode
<1> QED
  BY <1>1, <1>2

LEMMA Decoded == \A m \in Message : decode(Body[m]) = m
  BY WireAssumption DEF decode

LEMMA FrameType == \A m \in Message \cup {NoMessage} : Frame(m) \in Seq(Byte)
  BY Encoded, EmptySeq DEF Frame

LEMMA HeadOfConcat ==
    ASSUME NEW h \in Seq(Byte), NEW t \in Seq(Byte), NEW n \in 1 .. Len(h)
    PROVE  SubSeq(h \o t, 1, n) = SubSeq(h, 1, n)
<1>1. 1 \in 1 .. Len(h)
  BY LenProperties
<1> QED
  BY <1>1, SubSeqOfConcat1

LEMMA TailOfConcat ==
    ASSUME NEW h \in Seq(Byte), NEW t \in Seq(Byte), Len(t) >= 1
    PROVE  SubSeq(h \o t, Len(h) + 1, Len(h) + Len(t)) = t
<1>1. Len(h) \in Nat /\ Len(t) \in Nat
  BY LenProperties
<1>2. /\ Len(h) + 1 \in Len(h) + 1 .. Len(h) + Len(t)
      /\ Len(h) + Len(t) \in Len(h) + 1 .. Len(h) + Len(t)
  BY <1>1
<1>3. SubSeq(h \o t, Len(h) + 1, Len(h) + Len(t))
         = SubSeq(t, Len(h) + 1 - Len(h), Len(h) + Len(t) - Len(h))
  BY <1>2, SubSeqOfConcat2
<1>4. Len(h) + 1 - Len(h) = 1 /\ Len(h) + Len(t) - Len(h) = Len(t)
  BY <1>1
<1>5. SubSeq(t, 1, Len(t)) = t
  BY SubSeqFull
<1> QED
  BY <1>3, <1>4, <1>5

LEMMA Assoc == \A b, p, x \in Seq(Byte) : (b \o p) \o x = b \o (p \o x)
  BY ConcatAssociative

LEMMA ThreeParts ==
    ASSUME NEW b \in Seq(Byte), NEW p \in Seq(Byte), NEW x \in Seq(Byte)
    PROVE  /\ p \o x \in Seq(Byte)
           /\ Len(b) \in Nat /\ Len(b) <= Len(b \o (p \o x))
           /\ Len(b) = Len(b \o (p \o x)) <=> p = <<>> /\ x = <<>>
           /\ p = <<>> /\ x = <<>> => b \o (p \o x) = b
<1>1. p \o x \in Seq(Byte) /\ Len(p \o x) = Len(p) + Len(x)
  BY ConcatProperties
<1>2. Len(b \o (p \o x)) = Len(b) + Len(p \o x)
  BY <1>1, ConcatProperties
<1>3. Len(b) \in Nat /\ Len(p) \in Nat /\ Len(x) \in Nat
  BY LenProperties
<1>4. (p = <<>> <=> Len(p) = 0) /\ (x = <<>> <=> Len(x) = 0)
  <2>1. (p # <<>> => Len(p) \in Nat \ {0}) /\ (x # <<>> => Len(x) \in Nat \ {0}) /\ Len(<<>>) = 0
    BY EmptySeq
  <2> QED
    BY <2>1
<1>5. p = <<>> /\ x = <<>> => b \o (p \o x) = b
  <2>1. b \o <<>> = b /\ <<>> \o <<>> = <<>>
    BY ConcatEmptySeq, EmptySeq
  <2> QED
    BY <2>1
<1> QED
  BY <1>1, <1>2, <1>3, <1>4, <1>5

(* What was received of a frame announces its length: it is not refused,   *)
(* it counts as complete exactly when it is, and it decodes to the message.*)
LEMMA PartOfFrame ==
    \A m \in Message \cup {NoMessage}, b, p, x \in Seq(Byte) : b \o p \o x = Frame(m) =>
        /\ ~Malformed(b)
        /\ Complete(b) => p = <<>> /\ x = <<>> /\ m # NoMessage /\ Received(b) = m
        /\ p = <<>> /\ x = <<>> /\ Frame(m) # <<>> => Complete(b)
<1> SUFFICES ASSUME NEW m \in Message \cup {NoMessage},
                    NEW b \in Seq(Byte), NEW p \in Seq(Byte), NEW x \in Seq(Byte), b \o p \o x = Frame(m)
             PROVE  /\ ~Malformed(b)
                    /\ Complete(b) => p = <<>> /\ x = <<>> /\ m # NoMessage /\ Received(b) = m
                    /\ p = <<>> /\ x = <<>> /\ Frame(m) # <<>> => Complete(b)
  OBVIOUS
<1>0. Frame(m) = b \o (p \o x)
  BY Assoc, Zenon
<1>1. /\ Frame(m) = b \o (p \o x) /\ p \o x \in Seq(Byte)
      /\ Len(b) \in Nat /\ Len(b) <= Len(Frame(m))
      /\ Len(b) = Len(Frame(m)) <=> p = <<>> /\ x = <<>>
      /\ p = <<>> /\ x = <<>> => Frame(m) = b
  <2>1. /\ p \o x \in Seq(Byte)
        /\ Len(b) \in Nat /\ Len(b) <= Len(b \o (p \o x))
        /\ Len(b) = Len(b \o (p \o x)) <=> p = <<>> /\ x = <<>>
        /\ p = <<>> /\ x = <<>> => b \o (p \o x) = b
    BY ThreeParts
  <2> QED
    BY <1>0, <2>1
<1>2. CASE Frame(m) = <<>>
  <2>1. Len(b) = 0
    BY <1>1, <1>2
  <2> QED
    BY <1>2, <2>1, Sizes DEF Malformed, Complete
<1>3. CASE Frame(m) # <<>>
  <2>1. m \in Message /\ m # NoMessage /\ Frame(m) = encode(m)
    BY <1>3, WireAssumption DEF Frame
  <2> DEFINE h == to_bytes(Len(Body[m]), HEADER)
             t == Body[m]
             len == Len(Body[m])
  <2>2. /\ h \in Seq(Byte) /\ t \in Seq(Byte) /\ len \in 1 .. MAX_MESSAGE_LEN
        /\ Frame(m) = h \o t /\ t = Body[m] /\ Len(t) = len
        /\ Len(h) = HEADER /\ from_bytes(h) = len /\ Len(Frame(m)) = HEADER + len
    <3>1. encode(m) # <<>>
      BY <1>3, <2>1
    <3>2. /\ Len(Body[m]) <= MAX_MESSAGE_LEN /\ encode(m) = h \o Body[m]
          /\ h \in Seq(Byte) /\ Len(h) = HEADER /\ from_bytes(h) = Len(Body[m])
          /\ Len(encode(m)) = HEADER + Len(Body[m])
      BY <2>1, <3>1, Encoded
    <3>3. Body[m] \in Seq(Byte) /\ Len(Body[m]) \in 1 .. MAX_MESSAGE_LEN
      BY <2>1, <3>2, Bodies, Sizes
    <3> HIDE DEF h
    <3> QED
      BY <2>1, <3>2, <3>3
  <2> HIDE DEF h, t, len
  <2>3. ASSUME Len(b) >= HEADER
        PROVE  Announced(b) = len
    <3>1. HEADER \in 1 .. Len(b) /\ HEADER \in 1 .. Len(h)
      BY <1>1, <2>2, <2>3, Sizes
    <3>2. SubSeq(b \o (p \o x), 1, HEADER) = SubSeq(b, 1, HEADER)
      BY <1>1, <3>1, HeadOfConcat
    <3>3. SubSeq(h \o t, 1, HEADER) = SubSeq(h, 1, HEADER)
      BY <2>2, <3>1, HeadOfConcat
    <3>4. SubSeq(h, 1, HEADER) = h
      BY <2>2, SubSeqFull
    <3>5. b \o (p \o x) = h \o t
      BY <1>1, <2>2
    <3> QED
      BY <2>2, <3>2, <3>3, <3>4, <3>5 DEF Announced
  <2>4. ~Malformed(b)
    BY <2>2, <2>3 DEF Malformed
  <2>5. ASSUME Complete(b)
        PROVE  p = <<>> /\ x = <<>> /\ Received(b) = m
    <3>1. Len(b) > HEADER /\ Len(b) = Wanted(b)
      BY <2>5 DEF Complete
    <3>2. Announced(b) = len
      BY <1>1, <2>3, <3>1, Sizes
    <3>3. Len(b) = HEADER + len
      BY <1>1, <3>1, <3>2, Sizes DEF Wanted
    <3>4. p = <<>> /\ x = <<>> /\ b = h \o t
      BY <1>1, <2>2, <3>3
    <3>5. SubSeq(h \o t, Len(h) + 1, Len(h) + Len(t)) = t
      BY <2>2, TailOfConcat
    <3>6. Received(b) = decode(t)
      BY <2>2, <3>3, <3>4, <3>5 DEF Received
    <3> QED
      BY <2>1, <2>2, <3>4, <3>6, Decoded
  <2>6. ASSUME p = <<>>, x = <<>>
        PROVE  Complete(b)
    <3>1. Len(b) = HEADER + len
      BY <1>1, <2>2, <2>6
    <3>2. Announced(b) = len /\ Len(b) > HEADER
      BY <2>2, <2>3, <3>1, Sizes
    <3> QED
      BY <1>1, <2>4, <3>1, <3>2, Sizes DEF Complete, Wanted
  <2> QED
    BY <2>1, <2>4, <2>5, <2>6
<1> QED
  BY <1>2, <1>3

(* Bytes that move from one end of a concatenation to the other.           *)
LEMMA Cut ==
    ASSUME NEW s \in Seq(Byte), NEW n \in 1 .. Len(s)
    PROVE  /\ SubSeq(s, 1, n) \in Seq(Byte) /\ SubSeq(s, n + 1, Len(s)) \in Seq(Byte)
           /\ SubSeq(s, 1, n) \o SubSeq(s, n + 1, Len(s)) = s
           /\ Len(SubSeq(s, 1, n)) = n /\ Len(SubSeq(s, n + 1, Len(s))) = Len(s) - n
<1>1. Len(s) \in Nat /\ \A i \in 1 .. Len(s) : s[i] \in Byte
  BY LenProperties, ElementOfSeq
<1>2. SubSeq(s, 1, n) \in Seq(Byte) /\ Len(SubSeq(s, 1, n)) = n
  BY <1>1, SubSeqProperties
<1>3. SubSeq(s, n + 1, Len(s)) \in Seq(Byte) /\ Len(SubSeq(s, n + 1, Len(s))) = Len(s) - n
  BY <1>1, SubSeqProperties
<1>4. SubSeq(s, 1, n) \o SubSeq(s, n + 1, Len(s)) = s
  <2>1. 1 \in 1 .. Len(s) + 1 /\ n \in 1 - 1 .. Len(s) /\ Len(s) \in n .. Len(s)
    BY <1>1
  <2>2. SubSeq(s, 1, n) \o SubSeq(s, n + 1, Len(s)) = SubSeq(s, 1, Len(s))
    BY <2>1, ConcatAdjacentSubSeq
  <2> QED
    BY <2>2, SubSeqFull
<1> QED
  BY <1>2, <1>3, <1>4

LEMMA MovedIn ==
    \A g, p, x, y \in Seq(Byte) : (g \o p) \o x \o y = g \o (p \o x) \o y
  BY Assoc, Zenon

-----------------------------------------------------------------------------
(* A step of one connection: the others are as they were.                  *)
Local(c) == Bounded(c) /\ ServerEnd(c) /\ (c \in Client => CallInv(c))

Same(d) ==
    /\ \A s \in Side :
          /\ phase'[s][d] = phase[s][d] /\ out'[s][d] = out[s][d] /\ pipe'[s][d] = pipe[s][d]
          /\ got'[s][d] = got[s][d] /\ open'[s][d] = open[s][d]
    /\ asked'[d] = asked[d] /\ handled'[d] = handled[d]
    /\ answer'[d] = answer[d] /\ result'[d] = result[d]

OthersSame(c) == up' = up /\ \A d \in Conn \ {c} : Same(d)

LEMMA InOneConnection ==
    ASSUME NEW c \in Conn, IInv, Types', OthersSame(c), Local(c)'
    PROVE  IInv'
<1>1. ASSUME NEW d \in Conn, d # c
      PROVE  Bounded(d)' /\ ServerEnd(d)' /\ (d \in Client => CallInv(d)')
  <2>1. Same(d) /\ up' = up
    BY <1>1 DEF OthersSame
  <2>2. Bounded(d) /\ ServerEnd(d) /\ (d \in Client => CallInv(d))
    BY DEF IInv
  <2>3. Bounded(d)'
    BY <2>1, <2>2 DEF Bounded, Same
  <2>4. ServerEnd(d)'
    BY <2>1, <2>2 DEF ServerEnd, Same, Side
  <2>5. ASSUME CallInv(d)
        PROVE  CallInv(d)'
    <3>1. Streams(d)'
      BY <2>1, <2>5 DEF CallInv, Streams, Same, Side
    <3>2. Unasked(d)' /\ Calling(d)'
      BY <2>1, <2>5 DEF CallInv, Unasked, Calling, Same, Side
    <3>3. Served(d)' /\ Ended(d)'
      BY <2>1, <2>5 DEF CallInv, Served, Ended, Same, Side
    <3> QED
      BY <3>1, <3>2, <3>3 DEF CallInv
  <2> QED
    BY <2>2, <2>3, <2>4, <2>5
<1>2. Bounded(c)' /\ ServerEnd(c)' /\ (c \in Client => CallInv(c)')
  BY DEF Local
<1>3. \A d \in Conn : Bounded(d)' /\ ServerEnd(d)' /\ (d \in Client => CallInv(d)')
  BY <1>1, <1>2
<1> QED
  BY <1>3 DEF IInv, Conn

LEMMA HangUpKeeps ==
    ASSUME NEW c \in Stranger, IInv, hang_up(c)
    PROVE  IInv'
<1>1. c \in Conn /\ c \notin Client /\ "client" \in Side /\ "server" \in Side
  BY WireAssumption DEF Conn, Side
<1>2. Types /\ Bounded(c) /\ ServerEnd(c)
  BY <1>1 DEF IInv
<1>3. Types'
  BY <1>1, <1>2 DEF hang_up, Types, Conn, Side
<1>4. OthersSame(c)
  BY <1>1, <1>2 DEF hang_up, OthersSame, Same, Types, Side
<1>5. Bounded(c)' /\ ServerEnd(c)'
  BY <1>1, <1>2 DEF hang_up, Bounded, ServerEnd, Types, Side
<1> QED
  BY <1>1, <1>3, <1>4, <1>5, InOneConnection DEF Local

LEMMA DropKeeps ==
    ASSUME NEW c \in Conn, IInv, drop(c)
    PROVE  IInv'
<1>1. "client" \in Side /\ "server" \in Side
  BY DEF Side
<1>2. Types /\ Local(c)
  BY DEF IInv, Local
<1>3. Types'
  BY <1>1, <1>2 DEF drop, Types
<1>4. OthersSame(c)
  BY <1>1, <1>2 DEF drop, OthersSame, Same, Types, Side
<1>5. Bounded(c)' /\ ServerEnd(c)'
  BY <1>1, <1>2 DEF drop, Local, Bounded, ServerEnd, Types, Side
<1>6. ASSUME CallInv(c)
      PROVE  CallInv(c)'
  BY <1>1, <1>2, <1>6 DEF drop, CallInv, Streams, Unasked, Calling, Served, Ended, Types, Side
<1> QED
  BY <1>2, <1>3, <1>4, <1>5, <1>6, InOneConnection DEF Local

LEMMA AcceptKeeps ==
    ASSUME NEW c \in Conn, IInv, accept(c)
    PROVE  IInv'
<1>1. "client" \in Side /\ "server" \in Side
  BY DEF Side
<1>2. Types /\ Local(c)
  BY DEF IInv, Local
<1>3. Types'
  BY <1>1, <1>2 DEF accept, Types
<1>4. OthersSame(c)
  BY <1>1, <1>2 DEF accept, OthersSame, Same, Types, Side
<1>5. Bounded(c)' /\ ServerEnd(c)'
  BY <1>1, <1>2 DEF accept, Local, Bounded, ServerEnd, Serving, Types, Side
<1>6. ASSUME CallInv(c)
      PROVE  CallInv(c)'
  <2>1. phase'["client"][c] = phase["client"][c] /\ phase'["server"][c] = "recv" /\ phase["server"][c] = "queued"
    BY <1>1, <1>2 DEF accept, Types
  <2>2. UNCHANGED <<out, pipe, got, open, asked, handled, answer, result, up>>
    BY DEF accept
  <2> QED
    BY <1>6, <2>1, <2>2 DEF CallInv, Streams, Unasked, Calling, Served, Ended
<1> QED
  BY <1>2, <1>3, <1>4, <1>5, <1>6, InOneConnection DEF Local

LEMMA SendFailsKeeps ==
    ASSUME NEW c \in Conn, NEW side \in Side, IInv, send_fails(side, c)
    PROVE  IInv'
<1>1. "client" \in Side /\ "server" \in Side /\ side \in {"client", "server"}
  BY DEF Side
<1>2. Types /\ Local(c)
  BY DEF IInv, Local
<1>3. Types'
  BY <1>1, <1>2 DEF send_fails, Types
<1>4. OthersSame(c)
  BY <1>1, <1>2 DEF send_fails, OthersSame, Same, Types, Side
<1>5. UNCHANGED <<out, pipe, got, asked, handled, answer, result, up>> /\ open'["server"][c] = FALSE
      /\ open'["client"][c] = open["client"][c]
  BY <1>1, <1>2 DEF send_fails, Types
<1>6. CASE side = "client"
  <2>1. /\ phase["client"][c] = "send" /\ ~open["server"][c]
        /\ phase'["client"][c] = "failed" /\ phase'["server"][c] = phase["server"][c]
    BY <1>1, <1>2, <1>6 DEF send_fails, Types, Other
  <2>2. Bounded(c)' /\ ServerEnd(c)'
    BY <1>2, <1>5, <2>1 DEF Local, Bounded, ServerEnd
  <2>3. ASSUME CallInv(c)
        PROVE  CallInv(c)'
    <3>1. ~up
      BY <1>2, <2>1, <2>3 DEF Local, ServerEnd, Serving, CallInv, Calling
    <3> QED
      BY <1>5, <2>1, <2>3, <3>1 DEF CallInv, Streams, Unasked, Calling, Served, Ended
  <2> QED
    BY <1>2, <1>3, <1>4, <2>2, <2>3, InOneConnection DEF Local
<1>7. CASE side = "server"
  <2>1. /\ phase["server"][c] = "send" /\ ~open["client"][c]
        /\ phase'["server"][c] = "closed" /\ phase'["client"][c] = phase["client"][c]
    BY <1>1, <1>2, <1>7 DEF send_fails, Types, Other
  <2>2. Bounded(c)' /\ ServerEnd(c)'
    BY <1>2, <1>5, <2>1 DEF Local, Bounded, ServerEnd, Serving
  <2>3. ASSUME CallInv(c)
        PROVE  CallInv(c)'
    <3>1. phase["client"][c] = "failed"
      BY <2>1, <2>3 DEF CallInv, Unasked, Calling, Ended
    <3> QED
      BY <1>5, <2>1, <2>3, <3>1 DEF CallInv, Streams, Unasked, Calling, Served, Ended
  <2> QED
    BY <1>2, <1>3, <1>4, <2>2, <2>3, InOneConnection DEF Local
<1> QED
  BY <1>1, <1>6, <1>7

LEMMA EncodeType == \A m \in Message : encode(m) \in Seq(Byte)
  BY Encoded, EmptySeq

(* Nothing was sent while there is no frame to send.                       *)
LEMMA NothingSent ==
    ASSUME NEW b \in Seq(Byte), NEW p \in Seq(Byte), NEW x \in Seq(Byte), b \o p \o x = <<>>
    PROVE  b = <<>> /\ p = <<>> /\ x = <<>>
<1>1. b \o p \in Seq(Byte)
  BY ConcatProperties
<1>2. b \o p = <<>> /\ x = <<>>
  BY <1>1, ConcatEqualIffEmpty
<1> QED
  BY <1>2, ConcatEqualIffEmpty

LEMMA AllToSend == \A x \in Seq(Byte) : <<>> \o <<>> \o x = x
<1>1. \A x \in Seq(Byte) : <<>> \o x = x
  BY ConcatEmptySeq
<1> QED
  BY <1>1, EmptySeq

LEMMA ConnectKeeps ==
    ASSUME NEW c \in Client, NEW m \in Request, IInv, connect(c, m)
    PROVE  IInv'
<1>1. /\ "client" \in Side /\ "server" \in Side /\ c \in Conn /\ m \in Message /\ m # NoMessage
      /\ encode(m) \in Seq(Byte)
  BY EncodeType, WireAssumption DEF Side, Conn, Message
<1>2. Types /\ Local(c) /\ CallInv(c)
  BY <1>1 DEF IInv, Local
<1>3. Types'
  BY <1>1, <1>2 DEF connect, Types
<1>4. OthersSame(c)
  BY <1>1, <1>2 DEF connect, OthersSame, Same, Types, Side
<1>5. /\ phase["client"][c] = "idle" /\ UNCHANGED <<pipe, got, handled, answer, result, up>>
      /\ asked'[c] = m /\ out'["client"][c] = encode(m) /\ out'["server"][c] = out["server"][c]
      /\ open'["client"][c] = up /\ open'["server"][c] = up
      /\ phase'["client"][c] = IF up /\ encode(m) # <<>> THEN "send" ELSE "failed"
      /\ phase'["server"][c] = IF up THEN "queued" ELSE "closed"
  BY <1>1, <1>2 DEF connect, Types
<1>6. Bounded(c)' /\ ServerEnd(c)'
  BY <1>2, <1>5 DEF Local, Bounded, ServerEnd, Serving, Types
<1>7. phase["server"][c] = "idle" /\ asked[c] = NoMessage /\ answer[c] = NoMessage /\ handled[c] = NoMessage
  BY <1>2, <1>5 DEF CallInv, Unasked, Served
<1>8. Streams(c)'
  <2>1. got["server"][c] = <<>> /\ pipe["server"][c] = <<>>
    <3>1. got["server"][c] \o pipe["server"][c] \o out["client"][c] = <<>>
      BY <1>2, <1>7 DEF CallInv, Streams, Frame
    <3>2. /\ got["server"][c] \in Seq(Byte) /\ pipe["server"][c] \in Seq(Byte)
          /\ out["client"][c] \in Seq(Byte)
      BY <1>1, <1>2 DEF Types
    <3> QED
      BY <3>1, <3>2, NothingSent, Zenon
  <2>2. <<>> \o <<>> \o encode(m) = encode(m)
    BY <1>1, AllToSend, Zenon
  <2>3. (got["server"][c] \o pipe["server"][c] \o out["client"][c] = Frame(asked[c]))'
    BY <1>1, <1>5, <2>1, <2>2 DEF Frame
  <2>4. (got["client"][c] \o pipe["client"][c] \o out["server"][c] = Frame(answer[c]))'
    BY <1>2, <1>5 DEF CallInv, Streams
  <2> QED
    BY <2>3, <2>4 DEF Streams
<1>9. Unasked(c)' /\ Calling(c)' /\ Served(c)'
  BY <1>1, <1>2, <1>5, <1>7 DEF CallInv, Unasked, Calling, Served, Types
<1>10. Ended(c)'
  <2>1. encode(m) = <<>> => Len(Body[m]) > MAX_MESSAGE_LEN
    BY <1>1, Refused
  <2> QED
    BY <1>2, <1>5, <2>1 DEF Ended, Types
<1> QED
  BY <1>1, <1>3, <1>4, <1>6, <1>8, <1>9, <1>10, InOneConnection DEF Local, CallInv

LEMMA StrangerConnectsKeeps ==
    ASSUME NEW c \in Stranger, NEW bytes \in Noise, IInv, stranger_connects(c, bytes)
    PROVE  IInv'
<1>1. /\ c \in Conn /\ c \notin Client /\ "client" \in Side /\ "server" \in Side
      /\ bytes \in Seq(Byte)
  BY WireAssumption DEF Conn, Side
<1>2. Types /\ Bounded(c) /\ ServerEnd(c)
  BY <1>1 DEF IInv
<1>3. Types'
  BY <1>1, <1>2 DEF stranger_connects, Types
<1>4. OthersSame(c)
  BY <1>1, <1>2 DEF stranger_connects, OthersSame, Same, Types, Side
<1>5. Bounded(c)' /\ ServerEnd(c)'
  BY <1>1, <1>2 DEF stranger_connects, Bounded, ServerEnd, Serving, Types, Side
<1> QED
  BY <1>1, <1>3, <1>4, <1>5, InOneConnection DEF Local

LEMMA DieKeeps ==
    ASSUME IInv, die
    PROVE  IInv'
<1>1. "client" \in Side /\ "server" \in Side /\ \A c \in Client : c \in Conn
  BY DEF Side, Conn
<1>2. Types
  BY DEF IInv
<1>3. Types'
  BY <1>1, <1>2 DEF die, Types
<1>4. UNCHANGED <<out, pipe, got, asked, handled, answer, result>> /\ up' = FALSE
  BY DEF die
<1>5. ASSUME NEW c \in Conn
      PROVE  /\ phase'["client"][c] = phase["client"][c] /\ open'["client"][c] = open["client"][c]
             /\ phase'["server"][c] = IF phase["server"][c] = "idle" THEN "idle" ELSE "closed"
             /\ open'["server"][c] = FALSE
  BY <1>1, <1>2 DEF die, Types
<1>6. ASSUME NEW c \in Conn
      PROVE  Bounded(c)' /\ ServerEnd(c)'
  <2>1. Bounded(c)
    BY DEF IInv
  <2> QED
    BY <1>4, <1>5, <2>1 DEF Bounded, ServerEnd, Serving
<1>7. ASSUME NEW c \in Client
      PROVE  CallInv(c)'
  <2>1. CallInv(c) /\ c \in Conn
    BY <1>1 DEF IInv
  <2> QED
    BY <1>4, <1>5, <2>1 DEF CallInv, Streams, Unasked, Calling, Served, Ended
<1> QED
  BY <1>3, <1>6, <1>7 DEF IInv

LEMMA RecvKeeps ==
    ASSUME NEW c \in Conn, NEW side \in Side, IInv, recv(side, c)
    PROVE  IInv'
<1>1. /\ "client" \in Side /\ "server" \in Side /\ side \in {"client", "server"}
      /\ Other(side) \in Side /\ Other(side) # side
  BY DEF Side, Other
<1>2. Types /\ Local(c)
  BY DEF IInv, Local
<1> DEFINE g == got[side][c]
           p == pipe[side][c]
<1>3. PICK n \in 1 .. CHUNK :
          /\ n <= Wanted(g) - Len(g) /\ n <= Len(p)
          /\ got' = [got EXCEPT ![side][c] = @ \o SubSeq(p, 1, n)]
          /\ pipe' = [pipe EXCEPT ![side][c] = SubSeq(@, n + 1, Len(@))]
  BY DEF recv
<1>4. ~Malformed(g) /\ UNCHANGED <<phase, out, open, asked, handled, answer, result, up>>
  BY DEF recv
<1>5. PICK x, y : x = SubSeq(p, 1, n) /\ y = SubSeq(p, n + 1, Len(p))
  OBVIOUS
<1>6. g \in Seq(Byte) /\ p \in Seq(Byte) /\ Len(g) \in Nat /\ Len(p) \in Nat
  <2>1. g \in Seq(Byte) /\ p \in Seq(Byte)
    BY <1>2 DEF Types
  <2> HIDE DEF g, p
  <2> QED
    BY <2>1, LenProperties
<1>7. n \in 1 .. Len(p)
  BY <1>3, <1>6, Sizes
<1>8. x \in Seq(Byte) /\ y \in Seq(Byte) /\ x \o y = p /\ Len(x) = n /\ Len(y) = Len(p) - n
  <2> HIDE DEF g, p
  <2> QED
    BY <1>5, <1>6, <1>7, Cut
<1>9. g \o x \in Seq(Byte) /\ Len(g \o x) = Len(g) + n
  <2> HIDE DEF g, p
  <2> QED
    BY <1>6, <1>8, ConcatProperties
<1>10. got' = [got EXCEPT ![side][c] = g \o x] /\ pipe' = [pipe EXCEPT ![side][c] = y]
  BY <1>3, <1>5
<1>11. Types'
  BY <1>1, <1>2, <1>4, <1>8, <1>9, <1>10 DEF Types
<1>12. OthersSame(c)
  BY <1>1, <1>2, <1>4, <1>10 DEF OthersSame, Same, Types
<1>13. /\ got'[side][c] = g \o x /\ pipe'[side][c] = y
       /\ got'[Other(side)][c] = got[Other(side)][c] /\ pipe'[Other(side)][c] = pipe[Other(side)][c]
  BY <1>1, <1>2, <1>10 DEF Types
<1>14. Bounded(c)'
  <2>1. Len(g \o x) <= HEADER + MAX_MESSAGE_LEN
    <3>1. Wanted(g) \in Nat /\ Wanted(g) <= HEADER + MAX_MESSAGE_LEN
      BY <1>4, <1>6, Sizes DEF Wanted, Malformed
    <3>2. n <= Wanted(g) - Len(g)
      BY <1>3
    <3> HIDE DEF g, p
    <3> QED
      BY <1>6, <1>9, <3>1, <3>2, Sizes
  <2>2. Len(y) <= BUFFER
    <3>1. Len(p) <= BUFFER
      BY <1>1, <1>2 DEF Local, Bounded
    <3> HIDE DEF g, p
    <3> QED
      BY <1>6, <1>7, <1>8, <3>1, Sizes
  <2>3. \A s \in Side : s = side \/ s = Other(side)
    BY <1>1 DEF Side, Other
  <2>4. \A s \in Side : Len(pipe[s][c]) <= BUFFER /\ Len(got[s][c]) <= HEADER + MAX_MESSAGE_LEN
    BY <1>2 DEF Local, Bounded
  <2> QED
    BY <1>13, <2>1, <2>2, <2>3, <2>4 DEF Bounded
<1>15. ServerEnd(c)'
  BY <1>2, <1>4 DEF Local, ServerEnd
<1>16. ASSUME CallInv(c)
       PROVE  CallInv(c)'
  <2>1. ASSUME NEW z \in Seq(Byte)
        PROVE  (g \o x) \o y \o z = g \o p \o z
    <3> HIDE DEF g, p
    <3>1. g \in Seq(Byte) /\ x \in Seq(Byte) /\ y \in Seq(Byte)
      BY <1>6, <1>8
    <3>2. (g \o x) \o y \o z = g \o (x \o y) \o z
      BY <3>1, MovedIn
    <3> QED
      BY <1>8, <3>2
  <2>2. out["client"][c] \in Seq(Byte) /\ out["server"][c] \in Seq(Byte)
    BY <1>1, <1>2 DEF Types
  <2>3. Streams(c)'
    <3>1. CASE side = "server"
      <4>1. (g \o x) \o y \o out["client"][c] = Frame(asked[c])
        BY <1>16, <2>1, <2>2, <3>1 DEF CallInv, Streams
      <4>2. got["client"][c] \o pipe["client"][c] \o out["server"][c] = Frame(answer[c])
        BY <1>16 DEF CallInv, Streams
      <4> HIDE DEF g, p
      <4> QED
        BY <1>4, <1>13, <3>1, <4>1, <4>2 DEF Streams, Other
    <3>2. CASE side = "client"
      <4>1. (g \o x) \o y \o out["server"][c] = Frame(answer[c])
        BY <1>16, <2>1, <2>2, <3>2 DEF CallInv, Streams
      <4>2. got["server"][c] \o pipe["server"][c] \o out["client"][c] = Frame(asked[c])
        BY <1>16 DEF CallInv, Streams
      <4> HIDE DEF g, p
      <4> QED
        BY <1>4, <1>13, <3>2, <4>1, <4>2 DEF Streams, Other
    <3> QED
      BY <1>1, <3>1, <3>2
  <2> QED
    BY <1>4, <1>16, <2>3 DEF CallInv, Unasked, Calling, Served, Ended
<1> QED
  BY <1>2, <1>11, <1>12, <1>14, <1>15, <1>16, InOneConnection DEF Local

LEMMA SendKeeps ==
    ASSUME NEW c \in Conn, NEW side \in Side, IInv, send(side, c)
    PROVE  IInv'
<1> DEFINE s == Other(side)
           x == out[side][c]
           p == pipe[s][c]
<1>1. /\ "client" \in Side /\ "server" \in Side /\ side \in {"client", "server"}
      /\ s \in Side /\ s # side
  BY DEF Side, Other
<1>2. Types /\ Local(c)
  BY DEF IInv, Local
<1>3. PICK n \in 1 .. Len(x) :
          /\ Len(p) + n <= BUFFER
          /\ pipe' = [pipe EXCEPT ![s][c] = @ \o SubSeq(x, 1, n)]
          /\ out' = [out EXCEPT ![side][c] = SubSeq(@, n + 1, Len(@))]
          /\ IF n < Len(x) THEN UNCHANGED <<phase, open>>
             ELSE /\ phase' = [phase EXCEPT ![side][c] = IF side = "client" THEN "recv" ELSE "closed"]
                  /\ open' = [open EXCEPT !["server"][c] = side = "client"]
  BY DEF send
<1>4. /\ phase[side][c] = "send" /\ open[s][c]
      /\ UNCHANGED <<got, asked, handled, answer, result, up>>
  BY DEF send
<1>5. PICK y, z : y = SubSeq(x, 1, n) /\ z = SubSeq(x, n + 1, Len(x))
  OBVIOUS
<1>6. x \in Seq(Byte) /\ p \in Seq(Byte) /\ Len(x) \in Nat /\ Len(p) \in Nat
  <2>1. x \in Seq(Byte) /\ p \in Seq(Byte)
    BY <1>1, <1>2 DEF Types
  <2> HIDE DEF x, p
  <2> QED
    BY <2>1, LenProperties
<1>7. /\ y \in Seq(Byte) /\ z \in Seq(Byte) /\ y \o z = x /\ Len(y) = n
      /\ n < Len(x) <=> z # <<>>
  <2> HIDE DEF x, p
  <2>1. y \in Seq(Byte) /\ z \in Seq(Byte) /\ y \o z = x /\ Len(y) = n /\ Len(z) = Len(x) - n
    BY <1>5, <1>6, Cut
  <2>2. (z # <<>> => Len(z) \in Nat \ {0}) /\ Len(<<>>) = 0
    BY <2>1, EmptySeq
  <2> QED
    BY <1>6, <2>1, <2>2
<1>8. p \o y \in Seq(Byte) /\ Len(p \o y) <= BUFFER
  <2> HIDE DEF x, p, s
  <2>1. p \o y \in Seq(Byte) /\ Len(p \o y) = Len(p) + Len(y)
    BY <1>6, <1>7, ConcatProperties
  <2> QED
    BY <1>3, <1>7, <2>1
<1>9. pipe' = [pipe EXCEPT ![s][c] = p \o y] /\ out' = [out EXCEPT ![side][c] = z]
  BY <1>3, <1>5
<1>10. /\ pipe'[s][c] = p \o y /\ pipe'[side][c] = pipe[side][c]
       /\ out'[side][c] = z /\ out'[s][c] = out[s][c]
  BY <1>1, <1>2, <1>9 DEF Types
<1>11. Bounded(c)'
  <2>1. \A r \in Side : r = side \/ r = s
    BY <1>1 DEF Side, Other
  <2>2. \A r \in Side : Len(pipe[r][c]) <= BUFFER /\ Len(got[r][c]) <= HEADER + MAX_MESSAGE_LEN
    BY <1>2 DEF Local, Bounded
  <2> HIDE DEF s, p, x
  <2> QED
    BY <1>4, <1>8, <1>10, <2>1, <2>2 DEF Bounded
<1>12. ASSUME CallInv(c)
       PROVE  Streams(c)'
  <2>1. ASSUME NEW g \in Seq(Byte)
        PROVE  g \o (p \o y) \o z = g \o p \o x
    <3> HIDE DEF s, p, x
    <3>1. p \in Seq(Byte) /\ y \in Seq(Byte) /\ z \in Seq(Byte)
      BY <1>6, <1>7
    <3>2. g \o p \in Seq(Byte)
      BY <3>1, ConcatProperties
    <3>3. (g \o p) \o y = g \o (p \o y)
      BY <3>1, Assoc, Zenon
    <3>4. ((g \o p) \o y) \o z = (g \o p) \o (y \o z)
      BY <3>1, <3>2, Assoc, Zenon
    <3> QED
      BY <1>7, <3>3, <3>4
  <2>2. got["client"][c] \in Seq(Byte) /\ got["server"][c] \in Seq(Byte)
    BY <1>1, <1>2 DEF Types
  <2>3. CASE side = "client"
    <3>1. s = "server" /\ x = out["client"][c] /\ p = pipe["server"][c]
      BY <2>3 DEF Other
    <3>2. got["server"][c] \o (p \o y) \o z = Frame(asked[c])
      BY <1>12, <2>1, <2>2, <3>1 DEF CallInv, Streams
    <3>3. got["client"][c] \o pipe["client"][c] \o out["server"][c] = Frame(answer[c])
      BY <1>12 DEF CallInv, Streams
    <3> HIDE DEF s, p, x
    <3> QED
      BY <1>4, <1>10, <2>3, <3>1, <3>2, <3>3 DEF Streams
  <2>4. CASE side = "server"
    <3>1. s = "client" /\ x = out["server"][c] /\ p = pipe["client"][c]
      BY <2>4 DEF Other
    <3>2. got["client"][c] \o (p \o y) \o z = Frame(answer[c])
      BY <1>12, <2>1, <2>2, <3>1 DEF CallInv, Streams
    <3>3. got["server"][c] \o pipe["server"][c] \o out["client"][c] = Frame(asked[c])
      BY <1>12 DEF CallInv, Streams
    <3> HIDE DEF s, p, x
    <3> QED
      BY <1>4, <1>10, <2>4, <3>1, <3>2, <3>3 DEF Streams
  <2> QED
    BY <1>1, <2>3, <2>4
<1>13. CASE n < Len(x)
  <2>1. UNCHANGED <<phase, open>> /\ z # <<>>
    BY <1>3, <1>7, <1>13
  <2>2. Types'
    BY <1>1, <1>2, <1>4, <1>7, <1>8, <1>9, <2>1 DEF Types
  <2>3. OthersSame(c)
    BY <1>1, <1>2, <1>4, <1>9, <2>1 DEF OthersSame, Same, Types
  <2>4. ServerEnd(c)'
    BY <1>2, <1>4, <2>1 DEF Local, ServerEnd
  <2>5. ASSUME CallInv(c)
        PROVE  Unasked(c)' /\ Calling(c)' /\ Served(c)' /\ Ended(c)'
    <3> HIDE DEF x, p
    <3>1. Unasked(c)' /\ Ended(c)'
      BY <1>4, <2>1, <2>5 DEF CallInv, Unasked, Ended
    <3>2. CASE side = "client"
      BY <1>1, <1>4, <1>10, <2>1, <2>5, <3>1, <3>2 DEF CallInv, Calling, Served, Other
    <3>3. CASE side = "server"
      BY <1>1, <1>4, <1>10, <2>1, <2>5, <3>1, <3>3 DEF CallInv, Calling, Served, Other
    <3> QED
      BY <1>1, <3>2, <3>3
  <2> QED
    BY <1>2, <1>11, <1>12, <2>2, <2>3, <2>4, <2>5, InOneConnection DEF Local, CallInv
<1>14. CASE ~(n < Len(x))
  <2>1. /\ phase' = [phase EXCEPT ![side][c] = IF side = "client" THEN "recv" ELSE "closed"]
        /\ open' = [open EXCEPT !["server"][c] = side = "client"] /\ z = <<>>
    BY <1>3, <1>7, <1>14
  <2>2. Types'
    BY <1>1, <1>2, <1>4, <1>7, <1>8, <1>9, <2>1 DEF Types
  <2>3. OthersSame(c)
    BY <1>1, <1>2, <1>4, <1>9, <2>1 DEF OthersSame, Same, Types
  <2>4. CASE side = "client"
    <3>1. /\ phase["client"][c] = "send" /\ open["server"][c]
          /\ phase'["client"][c] = "recv" /\ phase'["server"][c] = phase["server"][c]
          /\ open'["server"][c] = TRUE /\ open'["client"][c] = open["client"][c]
          /\ out'["client"][c] = <<>> /\ out'["server"][c] = out["server"][c]
      BY <1>1, <1>2, <1>4, <1>10, <2>1, <2>4 DEF Types, Other
    <3>2. ServerEnd(c)'
      BY <1>2, <1>4, <3>1 DEF Local, ServerEnd
    <3>3. ASSUME CallInv(c)
          PROVE  Unasked(c)' /\ Calling(c)' /\ Served(c)' /\ Ended(c)'
      <4> HIDE DEF x, p
      <4>1. phase["server"][c] # "closed"
        BY <1>2, <3>1 DEF Local, ServerEnd, Serving
      <4> QED
        BY <1>4, <3>1, <3>3, <4>1 DEF CallInv, Unasked, Calling, Served, Ended
    <3> QED
      BY <1>2, <1>11, <1>12, <2>2, <2>3, <3>2, <3>3, InOneConnection DEF Local, CallInv
  <2>5. CASE side = "server"
    <3>1. /\ phase["server"][c] = "send"
          /\ phase'["server"][c] = "closed" /\ phase'["client"][c] = phase["client"][c]
          /\ open'["server"][c] = FALSE /\ open'["client"][c] = open["client"][c]
          /\ out'["server"][c] = <<>> /\ out'["client"][c] = out["client"][c]
      BY <1>1, <1>2, <1>4, <1>10, <2>1, <2>5 DEF Types, Other
    <3>2. ServerEnd(c)'
      BY <1>2, <1>4, <3>1 DEF Local, ServerEnd, Serving
    <3>3. ASSUME CallInv(c)
          PROVE  Unasked(c)' /\ Calling(c)' /\ Served(c)' /\ Ended(c)'
      <4>1. up
        BY <1>2, <3>1 DEF Local, ServerEnd, Serving
      <4>2. answer[c] # NoMessage
        <5>1. ASSUME answer[c] = NoMessage
              PROVE  out["server"][c] = <<>>
          <6>1. got["client"][c] \o pipe["client"][c] \o out["server"][c] = <<>>
            BY <3>3, <5>1 DEF CallInv, Streams, Frame
          <6>2. /\ got["client"][c] \in Seq(Byte) /\ pipe["client"][c] \in Seq(Byte)
                /\ out["server"][c] \in Seq(Byte)
            BY <1>1, <1>2 DEF Types
          <6> QED
            BY <6>1, <6>2, NothingSent, Zenon
        <5> QED
          BY <3>1, <3>3, <5>1 DEF CallInv, Served
      <4> HIDE DEF x, p
      <4> QED
        BY <1>4, <3>1, <3>3, <4>1, <4>2 DEF CallInv, Unasked, Calling, Served, Ended
    <3> QED
      BY <1>2, <1>11, <1>12, <2>2, <2>3, <3>2, <3>3, InOneConnection DEF Local, CallInv
  <2> QED
    BY <1>1, <2>4, <2>5
<1> QED
  BY <1>13, <1>14

LEMMA ReceivedType == \A b : Received(b) \in Message \cup {NoMessage}
<1>1. \A b : decode(b) \in Message \cup {NoMessage}
  BY DEF decode
<1> QED
  BY <1>1 DEF Received

(* What either end of a call has received is a part of a frame.            *)
LEMMA PartsOfCall ==
    ASSUME NEW c \in Client, Types, CallInv(c)
    PROVE  /\ ~Malformed(got["server"][c]) /\ ~Malformed(got["client"][c])
           /\ Complete(got["server"][c]) =>
                 out["client"][c] = <<>> /\ asked[c] # NoMessage /\ Received(got["server"][c]) = asked[c]
           /\ Complete(got["client"][c]) =>
                 out["server"][c] = <<>> /\ answer[c] # NoMessage /\ Received(got["client"][c]) = answer[c]
           /\ pipe["client"][c] = <<>> /\ out["server"][c] = <<>> /\ Frame(answer[c]) # <<>> =>
                 Complete(got["client"][c])
<1>1. "client" \in Side /\ "server" \in Side /\ c \in Conn
  BY DEF Side, Conn
<1>2. /\ \A s \in Side : got[s][c] \in Seq(Byte) /\ pipe[s][c] \in Seq(Byte) /\ out[s][c] \in Seq(Byte)
      /\ asked[c] \in Message \cup {NoMessage} /\ answer[c] \in Message \cup {NoMessage}
  BY <1>1 DEF Types
<1>3. /\ ~Malformed(got["server"][c])
      /\ Complete(got["server"][c]) =>
            out["client"][c] = <<>> /\ asked[c] # NoMessage /\ Received(got["server"][c]) = asked[c]
  <2>1. got["server"][c] \o pipe["server"][c] \o out["client"][c] = Frame(asked[c])
    BY DEF CallInv, Streams
  <2>2. /\ got["server"][c] \in Seq(Byte) /\ pipe["server"][c] \in Seq(Byte)
        /\ out["client"][c] \in Seq(Byte) /\ asked[c] \in Message \cup {NoMessage}
    BY <1>1, <1>2
  <2>3. PICK b, p, x, m :
           b = got["server"][c] /\ p = pipe["server"][c] /\ x = out["client"][c] /\ m = asked[c]
    OBVIOUS
  <2>4. b \o p \o x = Frame(m)
    BY <2>1, <2>3
  <2>5. b \in Seq(Byte) /\ p \in Seq(Byte) /\ x \in Seq(Byte) /\ m \in Message \cup {NoMessage}
    BY <2>2, <2>3
  <2>6. /\ ~Malformed(b)
        /\ Complete(b) => p = <<>> /\ x = <<>> /\ m # NoMessage /\ Received(b) = m
        /\ p = <<>> /\ x = <<>> /\ Frame(m) # <<>> => Complete(b)
    BY <2>4, <2>5, PartOfFrame, Zenon
  <2> QED
    BY <2>3, <2>6
<1>4. /\ ~Malformed(got["client"][c])
      /\ Complete(got["client"][c]) =>
            out["server"][c] = <<>> /\ answer[c] # NoMessage /\ Received(got["client"][c]) = answer[c]
      /\ pipe["client"][c] = <<>> /\ out["server"][c] = <<>> /\ Frame(answer[c]) # <<>> =>
            Complete(got["client"][c])
  <2>1. got["client"][c] \o pipe["client"][c] \o out["server"][c] = Frame(answer[c])
    BY DEF CallInv, Streams
  <2>2. /\ got["client"][c] \in Seq(Byte) /\ pipe["client"][c] \in Seq(Byte)
        /\ out["server"][c] \in Seq(Byte) /\ answer[c] \in Message \cup {NoMessage}
    BY <1>1, <1>2
  <2>3. PICK b, p, x, m :
           b = got["client"][c] /\ p = pipe["client"][c] /\ x = out["server"][c] /\ m = answer[c]
    OBVIOUS
  <2>4. b \o p \o x = Frame(m)
    BY <2>1, <2>3
  <2>5. b \in Seq(Byte) /\ p \in Seq(Byte) /\ x \in Seq(Byte) /\ m \in Message \cup {NoMessage}
    BY <2>2, <2>3
  <2>6. /\ ~Malformed(b)
        /\ Complete(b) => p = <<>> /\ x = <<>> /\ m # NoMessage /\ Received(b) = m
        /\ p = <<>> /\ x = <<>> /\ Frame(m) # <<>> => Complete(b)
    BY <2>4, <2>5, PartOfFrame, Zenon
  <2> QED
    BY <2>3, <2>6
<1> QED
  BY <1>3, <1>4

LEMMA RpcEndsKeeps ==
    ASSUME NEW c \in Conn, IInv, rpc_ends(c)
    PROVE  IInv'
<1> DEFINE b == got["client"][c]
           ok == Complete(b) /\ Received(b) # NoMessage
<1>1. "client" \in Side /\ "server" \in Side
  BY DEF Side
<1>2. Types /\ Local(c)
  BY DEF IInv, Local
<1>3. /\ phase["client"][c] = "recv"
      /\ Complete(b) \/ Malformed(b) \/ Eof("client", c)
      /\ phase' = [phase EXCEPT !["client"][c] = IF ok THEN "done" ELSE "failed"]
      /\ result' = [result EXCEPT ![c] = IF ok THEN Received(b) ELSE NoMessage]
      /\ open' = [open EXCEPT !["client"][c] = ~ok]
      /\ UNCHANGED <<out, pipe, got, asked, handled, answer, up>>
  BY DEF rpc_ends
<1>4. Received(b) \in Message \cup {NoMessage} /\ ok \in BOOLEAN
  BY ReceivedType
<1>5. Types'
  <2> HIDE DEF ok
  <2> QED
    BY <1>1, <1>2, <1>3, <1>4 DEF Types
<1>6. OthersSame(c)
  <2> HIDE DEF ok
  <2> QED
    BY <1>1, <1>2, <1>3 DEF OthersSame, Same, Types, Side
<1>7. /\ phase'["server"][c] = phase["server"][c] /\ open'["server"][c] = open["server"][c]
      /\ phase'["client"][c] = IF ok THEN "done" ELSE "failed"
      /\ result'[c] = IF ok THEN Received(b) ELSE NoMessage
  <2> HIDE DEF ok
  <2> QED
    BY <1>1, <1>2, <1>3 DEF Types
<1>8. Bounded(c)' /\ ServerEnd(c)'
  <2> HIDE DEF ok
  <2> QED
    BY <1>2, <1>3, <1>7 DEF Local, Bounded, ServerEnd
<1>9. ASSUME c \in Client, CallInv(c)
      PROVE  CallInv(c)'
  <2>1. phase["client"][c] = "recv" /\ phase["server"][c] # "idle"
    BY <1>3, <1>9 DEF CallInv, Calling
  <2>2. CASE ok
    <3>1. out["server"][c] = <<>> /\ answer[c] # NoMessage /\ Received(b) = answer[c]
      BY <1>2, <1>9, <2>2, PartsOfCall
    <3>2. handled[c] = asked[c]
      BY <1>9, <2>1, <3>1 DEF CallInv, Served
    <3>3. phase["server"][c] = "closed"
      BY <1>2, <1>9, <2>1, <3>1 DEF Local, ServerEnd, Serving, CallInv, Served
    <3>4. phase'["client"][c] = "done" /\ result'[c] = answer[c]
      BY <1>7, <2>2, <3>1
    <3> HIDE DEF ok, b
    <3> QED
      BY <1>3, <1>7, <1>9, <2>1, <3>1, <3>2, <3>3, <3>4
      DEF CallInv, Streams, Unasked, Calling, Served, Ended
  <2>3. CASE ~ok
    <3>1. ~up
      <4>1. Eof("client", c)
        BY <1>2, <1>3, <1>9, <2>3, PartsOfCall
      <4>2. pipe["client"][c] = <<>> /\ ~open["server"][c] /\ ~Complete(b)
        BY <4>1 DEF Eof, Other
      <4>3. phase["server"][c] = "closed"
        BY <1>2, <2>1, <4>2 DEF Local, ServerEnd, Serving
      <4>4. ASSUME up
            PROVE  FALSE
        <5>1. out["server"][c] = <<>> /\ answer[c] # NoMessage /\ encode(answer[c]) # <<>>
          BY <1>9, <2>1, <4>3, <4>4 DEF CallInv, Calling, Served
        <5>2. Frame(answer[c]) # <<>>
          BY <5>1 DEF Frame
        <5> QED
          BY <1>2, <1>9, <4>2, <5>1, <5>2, PartsOfCall
      <4> QED
        BY <4>4
    <3>2. phase'["client"][c] = "failed"
      BY <1>7, <2>3
    <3> HIDE DEF ok, b
    <3> QED
      BY <1>3, <1>7, <1>9, <2>1, <3>1, <3>2 DEF CallInv, Streams, Unasked, Calling, Served, Ended
  <2> QED
    BY <2>2, <2>3
<1> QED
  BY <1>2, <1>5, <1>6, <1>8, <1>9, InOneConnection DEF Local

LEMMA NoAnswerYet ==
    ASSUME NEW c \in Client, Types, CallInv(c), phase["server"][c] = "recv"
    PROVE  /\ got["client"][c] = <<>> /\ pipe["client"][c] = <<>>
           /\ answer[c] = NoMessage /\ handled[c] = NoMessage
           /\ phase["client"][c] \in {"send", "recv", "failed"} /\ asked[c] \in Request
<1>1. "client" \in Side /\ "server" \in Side /\ c \in Conn
  BY DEF Side, Conn
<1>2. answer[c] = NoMessage /\ handled[c] = NoMessage
  BY DEF CallInv, Served
<1>3. got["client"][c] \o pipe["client"][c] \o out["server"][c] = <<>>
  BY <1>2 DEF CallInv, Streams, Frame
<1>4. /\ got["client"][c] \in Seq(Byte) /\ pipe["client"][c] \in Seq(Byte)
      /\ out["server"][c] \in Seq(Byte)
  BY <1>1 DEF Types
<1>5. got["client"][c] = <<>> /\ pipe["client"][c] = <<>>
  BY <1>3, <1>4, NothingSent
<1>6. phase["client"][c] \in {"send", "recv", "failed"} /\ asked[c] \in Request
  BY DEF CallInv, Unasked, Ended
<1> QED
  BY <1>2, <1>5, <1>6

LEMMA ReplyKeeps ==
    ASSUME NEW c \in Conn, NEW m \in Message, NEW h \in Message \cup {NoMessage}, IInv,
           encode(m) # <<>>, Reply(c, m), handled' = [handled EXCEPT ![c] = h],
           c \in Client => \/ h = NoMessage /\ phase["client"][c] = "failed"
                           \/ h = asked[c] /\ h # NoMessage /\ phase["client"][c] # "send"
    PROVE  IInv'
<1>1. "client" \in Side /\ "server" \in Side /\ encode(m) \in Seq(Byte) /\ m # NoMessage
  BY EncodeType, WireAssumption DEF Side
<1>2. Types /\ Local(c)
  BY DEF IInv, Local
<1>3. Types'
  BY <1>1, <1>2 DEF Reply, Types
<1>4. OthersSame(c)
  BY <1>1, <1>2 DEF Reply, OthersSame, Same, Types, Side
<1>5. /\ phase["server"][c] = "recv" /\ UNCHANGED <<pipe, got, open, asked, result, up>>
      /\ answer'[c] = m /\ handled'[c] = h
      /\ out'["server"][c] = encode(m) /\ out'["client"][c] = out["client"][c]
      /\ phase'["server"][c] = "send" /\ phase'["client"][c] = phase["client"][c]
  BY <1>1, <1>2 DEF Reply, Types
<1>6. Bounded(c)' /\ ServerEnd(c)'
  BY <1>2, <1>5 DEF Local, Bounded, ServerEnd, Serving
<1>7. ASSUME c \in Client, CallInv(c)
      PROVE  CallInv(c)'
  <2>1. /\ got["client"][c] = <<>> /\ pipe["client"][c] = <<>>
        /\ phase["client"][c] \in {"send", "recv", "failed"}
    BY <1>2, <1>5, <1>7, NoAnswerYet
  <2>2. Streams(c)'
    <3>1. <<>> \o <<>> \o encode(m) = encode(m)
      BY <1>1, AllToSend, Zenon
    <3>2. (got["client"][c] \o pipe["client"][c] \o out["server"][c] = Frame(answer[c]))'
      BY <1>1, <1>5, <2>1, <3>1 DEF Frame
    <3>3. (got["server"][c] \o pipe["server"][c] \o out["client"][c] = Frame(asked[c]))'
      BY <1>5, <1>7 DEF CallInv, Streams
    <3> QED
      BY <3>2, <3>3 DEF Streams
  <2>3. CASE h = NoMessage /\ phase["client"][c] = "failed"
    BY <1>5, <1>7, <2>2, <2>3 DEF CallInv, Unasked, Calling, Served, Ended
  <2>4. CASE h = asked[c] /\ h # NoMessage /\ phase["client"][c] # "send"
    BY <1>5, <1>7, <2>1, <2>2, <2>4 DEF CallInv, Unasked, Calling, Served, Ended
  <2> QED
    BY <1>7, <2>3, <2>4
<1> QED
  BY <1>2, <1>3, <1>4, <1>6, <1>7, InOneConnection DEF Local

LEMMA ErrorIsSent == ERROR \in Message /\ encode(ERROR) # <<>>
<1>1. ERROR \in Message /\ Len(Body[ERROR]) <= MAX_MESSAGE_LEN
  BY WireAssumption DEF Message
<1>2. ~(Len(Body[ERROR]) > MAX_MESSAGE_LEN)
  BY <1>1, Bodies, Sizes
<1> QED
  BY <1>1, <1>2, Refused

LEMMA RefuseKeeps ==
    ASSUME NEW c \in Conn, IInv, refuse(c)
    PROVE  IInv'
<1>1. "client" \in Side /\ "server" \in Side /\ \A d \in Client : d \in Conn
  BY DEF Side, Conn
<1>2. Types /\ (c \in Client => CallInv(c))
  BY DEF IInv
<1>3. Reply(c, ERROR) /\ phase["server"][c] = "recv" /\ handled' = handled
  BY DEF refuse, Reply
<1>4. handled[c] \in Message \cup {NoMessage} /\ handled' = [handled EXCEPT ![c] = handled[c]]
  BY <1>2, <1>3 DEF Types
<1>5. ASSUME c \in Client
      PROVE  handled[c] = NoMessage /\ phase["client"][c] = "failed"
  <2>1. CallInv(c)
    BY <1>2, <1>5
  <2>2. /\ handled[c] = NoMessage /\ phase["client"][c] \in {"send", "recv", "failed"}
    BY <1>2, <1>3, <1>5, <2>1, NoAnswerYet
  <2>3. Eof("server", c)
    BY <1>2, <1>5, <2>1, PartsOfCall DEF refuse
  <2>4. ~open["client"][c]
    BY <2>3 DEF Eof, Other
  <2> QED
    BY <2>1, <2>2, <2>4 DEF CallInv, Calling
<1> QED
  BY <1>3, <1>4, <1>5, ErrorIsSent, ReplyKeeps

LEMMA DispatchKeeps ==
    ASSUME NEW c \in Conn, NEW m \in Response, IInv, dispatch(c, m)
    PROVE  IInv'
<1> DEFINE b == got["server"][c]
           r == IF Received(b) \in Request /\ encode(m) # <<>> THEN m ELSE ERROR
<1>1. Types /\ (c \in Client => CallInv(c))
  BY DEF IInv
<1>2. /\ Complete(b) /\ Received(b) # NoMessage /\ Received(b) \in Message \cup {NoMessage}
      /\ handled' = [handled EXCEPT ![c] = Received(b)] /\ Reply(c, r)
      /\ phase["server"][c] = "recv"
  BY ReceivedType DEF dispatch, Reply
<1>3. r \in Message /\ encode(r) # <<>>
  <2>1. m \in Message
    BY DEF Message
  <2>2. CASE Received(b) \in Request /\ encode(m) # <<>>
    BY <2>1, <2>2
  <2>3. CASE ~(Received(b) \in Request /\ encode(m) # <<>>)
    BY <2>3, ErrorIsSent
  <2> QED
    BY <2>2, <2>3
<1>4. ASSUME c \in Client
      PROVE  Received(b) = asked[c] /\ phase["client"][c] # "send"
  <2>1. CallInv(c)
    BY <1>1, <1>4
  <2>2. out["client"][c] = <<>> /\ Received(b) = asked[c]
    BY <1>1, <1>2, <1>4, <2>1, PartsOfCall
  <2> QED
    BY <2>1, <2>2 DEF CallInv, Calling
<1> HIDE DEF b, r
<1> QED
  BY <1>2, <1>3, <1>4, ReplyKeeps

-----------------------------------------------------------------------------
LEMMA InitHolds == Init => IInv
<1> SUFFICES ASSUME Init PROVE IInv
  OBVIOUS
<1>1. "client" \in Side /\ "server" \in Side /\ \A c \in Client : c \in Conn
  BY DEF Side, Conn
<1>2. <<>> \in Seq(Byte) /\ Len(<<>>) = 0 /\ <<>> \o <<>> \o <<>> = <<>>
  BY EmptySeq, AllToSend, Zenon
<1>3. Types
  BY <1>2 DEF Init, Types
<1>4. ASSUME NEW c \in Conn
      PROVE  Bounded(c) /\ ServerEnd(c)
  BY <1>1, <1>2, Sizes DEF Init, Bounded, ServerEnd, Serving, Side
<1>5. ASSUME NEW c \in Client
      PROVE  CallInv(c)
  <2>1. Streams(c)
    BY <1>1, <1>2 DEF Init, Streams, Frame
  <2> QED
    BY <1>1, <2>1 DEF Init, CallInv, Unasked, Calling, Served, Ended
<1> QED
  BY <1>3, <1>4, <1>5 DEF IInv

LEMMA StepKeeps == IInv /\ [Next]_vars => IInv'
<1> SUFFICES ASSUME IInv, [Next]_vars PROVE IInv'
  OBVIOUS
<1>1. ASSUME NEW c \in Client, NEW m \in Request, connect(c, m)
      PROVE  IInv'
  BY <1>1, ConnectKeeps
<1>2. ASSUME NEW c \in Stranger, NEW b \in Noise, stranger_connects(c, b)
      PROVE  IInv'
  BY <1>2, StrangerConnectsKeeps
<1>3. ASSUME NEW c \in Stranger, hang_up(c)
      PROVE  IInv'
  BY <1>3, HangUpKeeps
<1>4. ASSUME NEW c \in Conn, ClientStep(c)
      PROVE  IInv'
  <2>1. "client" \in Side
    BY DEF Side
  <2> QED
    BY <1>4, <2>1, SendKeeps, SendFailsKeeps, RecvKeeps, RpcEndsKeeps, DropKeeps DEF ClientStep
<1>5. ASSUME NEW c \in Conn, ThreadStep(c)
      PROVE  IInv'
  <2>1. "server" \in Side
    BY DEF Side
  <2>2. ASSUME NEW m \in Response, dispatch(c, m)
        PROVE  IInv'
    BY <2>2, DispatchKeeps
  <2> QED
    BY <1>5, <2>1, <2>2, AcceptKeeps, RefuseKeeps, SendKeeps, SendFailsKeeps, RecvKeeps DEF ThreadStep
<1>6. CASE die
  BY <1>6, DieKeeps
<1>7. CASE UNCHANGED vars
  BY <1>7 DEF vars, IInv, Types, Bounded, ServerEnd, CallInv, Streams, Unasked, Calling, Served, Ended
<1> QED
  BY <1>1, <1>2, <1>3, <1>4, <1>5, <1>6, <1>7 DEF Next

(* However TCP cuts the frames of either direction into pieces, and        *)
(* whatever strangers send, what an end has received, what is on its way   *)
(* and what is still to be sent make up the frame (sendall, _recv_exact),  *)
(* and the server's thread and the call are at matching points of it       *)
(* (_rpc, _handle_connection).                                             *)
THEOREM FramesAreSafe == Spec => []IInv
<1>1. Init => IInv
  BY InitHolds
<1>2. IInv /\ [Next]_vars => IInv'
  BY StepKeeps
<1> QED
  BY <1>1, <1>2, PTL DEF Spec

(* A reader never holds more than a header and the largest body            *)
(* (MAX_MESSAGE_LEN is checked before the body is read), for any number    *)
(* of peers and whatever they announce.                                    *)
THEOREM WireTypes == Spec => []TypeOK
<1>1. IInv => TypeOK
  BY DEF IInv, Types, Bounded, TypeOK
<1> QED
  BY <1>1, FramesAreSafe, PTL

(* What a client gets is the response the server made to this very         *)
(* request, entire, and the server dispatches only what a client has sent  *)
(* as a whole (recv_message, _rpc, _dispatch).                             *)
THEOREM ExchangesAreFaithful == Spec => []ExchangeFaithful
<1>1. IInv => ExchangeFaithful
  BY DEF IInv, CallInv, Served, Ended, ExchangeFaithful
<1> QED
  BY <1>1, FramesAreSafe, PTL

(* As long as the server runs, a request that fits a frame is answered by  *)
(* a frame (_handle_connection sends an ERROR when send_message raises).   *)
THEOREM RequestsAreAnswered == Spec => []AnsweredWhileUp
<1>1. IInv => AnsweredWhileUp
  BY DEF IInv, CallInv, Ended, AnsweredWhileUp
<1> QED
  BY <1>1, FramesAreSafe, PTL

=============================================================================
