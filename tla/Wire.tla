-------------------------------- MODULE Wire --------------------------------
(***************************************************************************)
(* Frames over TCP: common/wire.py, and the two ends that use it, _rpc of  *)
(* client/client.py and _handle_connection of server/server.py.  A frame   *)
(* is a length in HEADER bytes and a body, which is the type and the JSON  *)
(* of the payload; Body gives the body of every message.                   *)
(*                                                                         *)
(* TCP is external: a stream delivers the bytes in order and in pieces of  *)
(* any size, and holds at most BUFFER of them; after the last one the      *)
(* reader sees that the other end has closed.  A stranger is a peer that   *)
(* sends any bytes it likes, or none, and reads or hangs up when it likes. *)
(* Each connection is used for one exchange, as _rpc does.                 *)
(***************************************************************************)
EXTENDS Integers, SequencesExt

CONSTANTS Client, Stranger,
          Base, HEADER,     \* values of a byte, bytes of the length
          MAX_MESSAGE_LEN,
          CHUNK,            \* bytes one recv() asks for
          BUFFER,
          Request, Response, ERROR,
          Body,             \* message -> its type and payload as bytes
          Noise,            \* the byte strings of strangers
          NoMessage

Conn == Client \cup Stranger
Message == Request \cup Response \cup {ERROR}
Side == {"client", "server"}
Other(side) == IF side = "client" THEN "server" ELSE "client"
Byte == 0 .. Base - 1

ASSUME WireAssumption ==
    /\ Client \cap Stranger = {} /\ NoMessage \notin Message
    /\ {HEADER, MAX_MESSAGE_LEN, CHUNK, BUFFER} \subseteq Nat \ {0}
    /\ MAX_MESSAGE_LEN < Base ^ HEADER
    /\ \A m \in Message : Body[m] \in Seq(Byte) /\ Len(Body[m]) >= 1
    /\ Len(Body[ERROR]) <= MAX_MESSAGE_LEN
    /\ \A m, n \in Message : m # n => Body[m] # Body[n]
    /\ Noise \subseteq Seq(Byte)

VARIABLES phase,   \* what each end of each connection does
          out,     \* bytes an end has still to send
          pipe,    \* bytes on their way to an end
          got,     \* bytes recv_message has received, with the header
          open,    \* the end has not closed the connection
          asked,   \* the request a client makes
          handled, \* the request the server dispatched
          answer,  \* the response the server sends
          result,  \* what _rpc returned
          up       \* the server process runs

vars == <<phase, out, pipe, got, open, asked, handled, answer, result, up>>

from_bytes(b) == FoldLeft(LAMBDA n, x : n * Base + x, 0, b)
to_bytes(x, w) == [i \in 1 .. w |-> (x \div Base ^ (w - i)) % Base]

(* int.from_bytes is the inverse of int.to_bytes on the lengths in use.    *)
ASSUME HeaderAssumption ==
    \A x \in 1 .. MAX_MESSAGE_LEN :
        to_bytes(x, HEADER) \in Seq(Byte) /\ from_bytes(to_bytes(x, HEADER)) = x

-----------------------------------------------------------------------------
(* encode; <<>> is the ValueError for a message that is too large.         *)
encode(m) ==
    IF Len(Body[m]) > MAX_MESSAGE_LEN THEN <<>> ELSE to_bytes(Len(Body[m]), HEADER) \o Body[m]

(* decode; NoMessage is a ValueError: no known type, or no JSON object.    *)
decode(b) == IF \E m \in Message : Body[m] = b THEN CHOOSE m \in Message : Body[m] = b ELSE NoMessage

(* recv_message on the bytes received so far: the length they announce,    *)
(* whether it is refused, how many bytes are wanted in all, and the end.   *)
Announced(b) == from_bytes(SubSeq(b, 1, HEADER))

(* Faulty variants, named after the bug, stand before the definition they  *)
(* are variants of; nothing else uses them.                                *)
Malformed_without_cap(b) == Len(b) >= HEADER /\ Announced(b) < 1

Malformed(b) == Len(b) >= HEADER /\ Announced(b) \notin 1 .. MAX_MESSAGE_LEN
Wanted(b) == IF Len(b) < HEADER THEN HEADER ELSE HEADER + Announced(b)

Complete_after_one_chunk(b) == Len(b) > HEADER /\ ~Malformed(b)

Complete(b) == Len(b) > HEADER /\ ~Malformed(b) /\ Len(b) = Wanted(b)
Received(b) == decode(SubSeq(b, HEADER + 1, Len(b)))

-----------------------------------------------------------------------------
TypeOK ==
    /\ phase \in [Side -> [Conn -> {"idle", "queued", "send", "recv", "done", "failed", "closed"}]]
    /\ \A s \in Side, c \in Conn :
          /\ Len(pipe[s][c]) <= BUFFER
          /\ Len(got[s][c]) <= HEADER + MAX_MESSAGE_LEN
    /\ open \in [Side -> [Conn -> BOOLEAN]]
    /\ \A f \in {asked, handled, answer, result} : f \in [Conn -> Message \cup {NoMessage}]
    /\ up \in BOOLEAN

Init ==
    /\ phase = [s \in Side |-> [c \in Conn |-> "idle"]]
    /\ out = [s \in Side |-> [c \in Conn |-> <<>>]]
    /\ pipe = out /\ got = out
    /\ open = [s \in Side |-> [c \in Conn |-> FALSE]]
    /\ asked = [c \in Conn |-> NoMessage]
    /\ handled = asked /\ answer = asked /\ result = asked
    /\ up = TRUE

-----------------------------------------------------------------------------
(* _rpc: connect, and encode the request; without a server, or if it is    *)
(* too large, a ClientError.                                               *)
connect(c, m) ==
    /\ phase["client"][c] = "idle"
    /\ asked' = [asked EXCEPT ![c] = m]
    /\ out' = [out EXCEPT !["client"][c] = encode(m)]
    /\ open' = [s \in Side |-> [open[s] EXCEPT ![c] = up]]
    /\ phase' = [phase EXCEPT !["client"][c] = IF up /\ encode(m) # <<>> THEN "send" ELSE "failed",
                              !["server"][c] = IF up THEN "queued" ELSE "closed"]
    /\ UNCHANGED <<pipe, got, handled, answer, result, up>>

stranger_connects(c, bytes) ==
    /\ phase["client"][c] = "idle" /\ up
    /\ out' = [out EXCEPT !["client"][c] = bytes]
    /\ open' = [s \in Side |-> [open[s] EXCEPT ![c] = TRUE]]
    /\ phase' = [phase EXCEPT !["client"][c] = "send", !["server"][c] = "queued"]
    /\ UNCHANGED <<pipe, got, asked, handled, answer, result, up>>

hang_up(c) ==
    /\ phase["client"][c] \in {"send", "recv"}
    /\ phase' = [phase EXCEPT !["client"][c] = "done"]
    /\ open' = [open EXCEPT !["client"][c] = FALSE]
    /\ UNCHANGED <<out, pipe, got, asked, handled, answer, result, up>>

(* The socket of a call that failed is closed when its exception is gone.  *)
drop(c) ==
    /\ phase["client"][c] = "failed" /\ open["client"][c]
    /\ open' = [open EXCEPT !["client"][c] = FALSE]
    /\ UNCHANGED <<phase, out, pipe, got, asked, handled, answer, result, up>>

accept_one_at_a_time(c) ==
    /\ phase["server"][c] = "queued"
    /\ \A d \in Conn : phase["server"][d] \notin {"recv", "send"}
    /\ phase' = [phase EXCEPT !["server"][c] = "recv"]
    /\ UNCHANGED <<out, pipe, got, open, asked, handled, answer, result, up>>

(* start: accept, and a thread for the connection.                         *)
accept(c) ==
    /\ phase["server"][c] = "queued"
    /\ phase' = [phase EXCEPT !["server"][c] = "recv"]
    /\ UNCHANGED <<out, pipe, got, open, asked, handled, answer, result, up>>

-----------------------------------------------------------------------------
(* sendall, some bytes at a time.  A client goes on to recv_message, the   *)
(* server closes the connection.                                           *)
send(side, c) ==
    /\ phase[side][c] = "send" /\ open[Other(side)][c]
    /\ \E n \in 1 .. Len(out[side][c]) :
          /\ Len(pipe[Other(side)][c]) + n <= BUFFER
          /\ pipe' = [pipe EXCEPT ![Other(side)][c] = @ \o SubSeq(out[side][c], 1, n)]
          /\ out' = [out EXCEPT ![side][c] = SubSeq(@, n + 1, Len(@))]
          /\ IF n < Len(out[side][c]) THEN UNCHANGED <<phase, open>>
             ELSE /\ phase' = [phase EXCEPT ![side][c] = IF side = "client" THEN "recv" ELSE "closed"]
                  /\ open' = [open EXCEPT !["server"][c] = side = "client"]
    /\ UNCHANGED <<got, asked, handled, answer, result, up>>

(* The other end is gone: an OSError.  The server's second attempt, with   *)
(* the ERROR, fails as well.                                               *)
send_fails(side, c) ==
    /\ phase[side][c] = "send" /\ ~open[Other(side)][c]
    /\ phase' = [phase EXCEPT ![side][c] = IF side = "client" THEN "failed" ELSE "closed"]
    /\ open' = [open EXCEPT !["server"][c] = FALSE]
    /\ UNCHANGED <<out, pipe, got, asked, handled, answer, result, up>>

(* One recv() of _recv_exact: at most what is missing of the length or of  *)
(* the body, and at most CHUNK.                                            *)
recv(side, c) ==
    /\ phase[side][c] = "recv" /\ ~Malformed(got[side][c]) /\ ~Complete(got[side][c])
    /\ \E n \in 1 .. CHUNK :
          /\ n <= Wanted(got[side][c]) - Len(got[side][c]) /\ n <= Len(pipe[side][c])
          /\ got' = [got EXCEPT ![side][c] = @ \o SubSeq(pipe[side][c], 1, n)]
          /\ pipe' = [pipe EXCEPT ![side][c] = SubSeq(@, n + 1, Len(@))]
    /\ UNCHANGED <<phase, out, open, asked, handled, answer, result, up>>

Eof_before_the_header(side, c) ==
    pipe[side][c] = <<>> /\ ~open[Other(side)][c] /\ got[side][c] = <<>>

(* The peer has closed before the frame is complete.                       *)
Eof(side, c) == pipe[side][c] = <<>> /\ ~open[Other(side)][c] /\ ~Complete(got[side][c])

(* recv_message of the client returns or raises.                           *)
rpc_ends(c) ==
    LET b == got["client"][c]
        ok == Complete(b) /\ Received(b) # NoMessage
    IN /\ phase["client"][c] = "recv"
       /\ Complete(b) \/ Malformed(b) \/ Eof("client", c)
       /\ phase' = [phase EXCEPT !["client"][c] = IF ok THEN "done" ELSE "failed"]
       /\ result' = [result EXCEPT ![c] = IF ok THEN Received(b) ELSE NoMessage]
       /\ open' = [open EXCEPT !["client"][c] = ~ok]
       /\ UNCHANGED <<out, pipe, got, asked, handled, answer, up>>

Reply(c, m) ==
    /\ phase["server"][c] = "recv"
    /\ answer' = [answer EXCEPT ![c] = m]
    /\ out' = [out EXCEPT !["server"][c] = encode(m)]
    /\ phase' = [phase EXCEPT !["server"][c] = "send"]
    /\ UNCHANGED <<pipe, got, open, asked, result, up>>

(* recv_message of the server raises: an ERROR.                            *)
refuse(c) ==
    /\ \/ Malformed(got["server"][c]) \/ Eof("server", c)
       \/ Complete(got["server"][c]) /\ Received(got["server"][c]) = NoMessage
    /\ Reply(c, ERROR)
    /\ UNCHANGED handled

dispatch_giving_up(c, m) ==
    /\ Complete(got["server"][c]) /\ Received(got["server"][c]) # NoMessage
    /\ handled' = [handled EXCEPT ![c] = Received(got["server"][c])]
    /\ IF encode(m) # <<>> THEN Reply(c, m)
       ELSE /\ phase["server"][c] = "recv"
            /\ phase' = [phase EXCEPT !["server"][c] = "closed"]
            /\ open' = [open EXCEPT !["server"][c] = FALSE]
            /\ UNCHANGED <<out, pipe, got, asked, answer, result, up>>

(* _dispatch: the handler's response m, or an ERROR if there is no handler *)
(* for the type, if the handler raised or if send_message refuses m.       *)
dispatch(c, m) ==
    /\ Complete(got["server"][c]) /\ Received(got["server"][c]) # NoMessage
    /\ handled' = [handled EXCEPT ![c] = Received(got["server"][c])]
    /\ Reply(c, IF Received(got["server"][c]) \in Request /\ encode(m) # <<>> THEN m ELSE ERROR)

(* The server process dies, with all its threads.                          *)
die ==
    /\ up /\ up' = FALSE
    /\ phase' = [phase EXCEPT !["server"] = [c \in Conn |-> IF @[c] = "idle" THEN "idle" ELSE "closed"]]
    /\ open' = [open EXCEPT !["server"] = [c \in Conn |-> FALSE]]
    /\ UNCHANGED <<out, pipe, got, asked, handled, answer, result>>

ClientStep(c) == send("client", c) \/ send_fails("client", c) \/ recv("client", c) \/ rpc_ends(c) \/ drop(c)

ThreadStep(c) ==
    \/ accept(c) \/ refuse(c) \/ (\E m \in Response : dispatch(c, m))
    \/ send("server", c) \/ send_fails("server", c) \/ recv("server", c)

Next ==
    \/ \E c \in Client : \E m \in Request : connect(c, m)
    \/ \E c \in Stranger : (\E b \in Noise : stranger_connects(c, b)) \/ hang_up(c)
    \/ \E c \in Conn : ClientStep(c) \/ ThreadStep(c)
    \/ die

Spec ==
    /\ Init /\ [][Next]_vars
    /\ \A c \in Conn : WF_vars(ThreadStep(c))
    /\ \A c \in Client : WF_vars(ClientStep(c))

-----------------------------------------------------------------------------
(* What a client gets is the response the server made to this very         *)
(* request, entire: however the bytes are cut into pieces, nothing of a    *)
(* frame is lost, mixed with another one or taken for a shorter one        *)
(* (_recv_exact, recv_message), and the server dispatches only what a      *)
(* client has sent as a whole.                                             *)
ExchangeFaithful ==
    \A c \in Client :
        /\ handled[c] \in {NoMessage, asked[c]}
        /\ phase["client"][c] = "done" => handled[c] = asked[c] /\ result[c] = answer[c]

(* As long as the server runs, a request that fits a frame is answered by  *)
(* a frame: by an ERROR if the response does not fit one                   *)
(* (_handle_connection sends it when send_message raises), never by a      *)
(* connection that just ends.                                              *)
AnsweredWhileUp ==
    \A c \in Client :
        phase["client"][c] = "failed" => ~up \/ Len(Body[asked[c]]) > MAX_MESSAGE_LEN

(* Every _rpc returns or raises, although no socket has a timeout and      *)
(* although strangers may connect and send nothing: each connection has    *)
(* its own thread.                                                         *)
CallsEnd ==
    \A c \in Client : phase["client"][c] = "send" ~> phase["client"][c] \in {"done", "failed"}

(* A thread ends once its peer has closed the connection, in the middle of *)
(* a frame or of the answer as well; only a peer that stays keeps one.     *)
ThreadsReleased ==
    \A c \in Conn : phase["server"][c] # "idle" /\ ~open["client"][c] ~> phase["server"][c] = "closed"
=============================================================================
