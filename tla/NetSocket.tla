----------------------------- MODULE NetSocket ------------------------------
(***************************************************************************)
(* net.Socket of native-modules.js: connecting, the bytes out and in, the  *)
(* half-close and destroy(), with the poller's two watchers of its index.  *)
(*                                                                         *)
(* The Writable above hands over one chunk at a time (module Writable) and *)
(* calls _final after the last one; the Readable calls _read when it has   *)
(* room.  The loops of _flush and _readReady call the program, which may   *)
(* call the socket again; the host and the peer act at any time.           *)
(***************************************************************************)
EXTENDS Naturals

CONSTANTS
  MaxWrites,      \* bound: calls of write()
  Sizes,          \* the lengths a chunk may have
  HostRoom,       \* bytes the host buffers for sending
  MaxIncoming,    \* bound: bytes the peer sends
  HighWaterMark,  \* of the Readable
  Patient         \* the program starts no write between connectStart and 'connect'

ASSUME NetSocketAssumption ==
  /\ MaxWrites \in Nat /\ Sizes \subseteq Nat /\ Sizes # {} /\ HostRoom \in Nat \ {0}
  /\ MaxIncoming \in Nat /\ HighWaterMark \in Nat \ {0} /\ Patient \in BOOLEAN

VARIABLES
  sock,     \* the fields of Socket
  onRead,   \* the poller's handler for reading: none, connect's step, _readReady
  onWrite,  \* and for writing: none, connect's step, _flush
  out,      \* writes asked for, done, and the chunk in _queue
  loop,     \* which loops are running, the inner one first
  inp,      \* the Readable: its buffer, state.reading, whether it got the end
  host,     \* the connection in the host
  peer      \* bytes the peer may still send

socketVars == <<sock, onRead, onWrite, out, loop, inp, host, peer>>

SocketTypeOK ==
  /\ sock \in [id : BOOLEAN, dial : BOOLEAN, connecting : BOOLEAN, held : BOOLEAN, paused : BOOLEAN,
               ended : BOOLEAN, final : {"no", "waits", "done"}, linger : BOOLEAN, destroyed : BOOLEAN]
  /\ onRead \in {"none", "step", "read"} /\ onWrite \in {"none", "step", "flush"}
  /\ out \in [asked : 0..MaxWrites, done : 0..MaxWrites, queued : BOOLEAN, left : Nat]
  /\ loop \in [flush : BOOLEAN, read : BOOLEAN]
  /\ inp \in [buffer : 0..MaxIncoming, reading : BOOLEAN, end : BOOLEAN]
  /\ host \in [link : {"none", "trying", "up", "refused", "reset"}, room : 0..HostRoom,
               waiting : 0..MaxIncoming, fin : BOOLEAN, shut : BOOLEAN]
  /\ peer \in 0..MaxIncoming
  /\ out.done <= out.asked

\* connect(), or a socket accepted by a server.
SocketInit ==
  /\ \E accepted \in BOOLEAN :
       /\ sock = [id |-> accepted, dial |-> ~accepted, connecting |-> ~accepted, held |-> FALSE,
                  paused |-> FALSE, ended |-> FALSE, final |-> "no", linger |-> FALSE, destroyed |-> FALSE]
       /\ onRead = IF accepted THEN "read" ELSE "none"
       /\ host = [link |-> IF accepted THEN "up" ELSE "none", room |-> HostRoom,
                  waiting |-> 0, fin |-> FALSE, shut |-> FALSE]
  /\ onWrite = "none"
  /\ out = [asked |-> 0, done |-> 0, queued |-> FALSE, left |-> 0]
  /\ loop = [flush |-> FALSE, read |-> FALSE]
  /\ inp = [buffer |-> 0, reading |-> FALSE, end |-> FALSE]
  /\ peer = MaxIncoming

\* destroy() and _destroy: every write that is open is answered with an error.
DestroySocket(s0, o0) ==
  /\ sock' = [s0 EXCEPT !.id = FALSE, !.connecting = FALSE, !.held = FALSE, !.linger = FALSE, !.destroyed = TRUE]
  /\ out' = [o0 EXCEPT !.queued = FALSE, !.left = 0]
  /\ onRead' = "none" /\ onWrite' = "none"
  /\ host' = [host EXCEPT !.link = "none"]
  /\ UNCHANGED <<loop, inp, peer>>

Writing == sock.held \/ out.queued

------------------------------------------------------------------------------
(* Connecting.                                                             *)

\* A mistake: only the reading side is watched.
DialUnwatched ==
  /\ sock.dial
  /\ IF sock.destroyed
       THEN sock' = [sock EXCEPT !.dial = FALSE] /\ UNCHANGED <<onRead, host>>
       ELSE /\ sock' = [sock EXCEPT !.dial = FALSE, !.id = TRUE]
            /\ onRead' = "step"
            /\ host' = [host EXCEPT !.link = "trying"]
  /\ UNCHANGED <<onWrite, out, loop, inp, peer>>

\* The microtask of connect(): connectStart may fail at once.
Dial ==
  /\ sock.dial
  /\ \/ /\ sock.destroyed
        /\ sock' = [sock EXCEPT !.dial = FALSE]
        /\ UNCHANGED <<onRead, onWrite, out, loop, inp, host, peer>>
     \/ /\ ~sock.destroyed
        /\ DestroySocket([sock EXCEPT !.dial = FALSE], out)
     \/ /\ ~sock.destroyed
        /\ sock' = [sock EXCEPT !.dial = FALSE, !.id = TRUE]
        /\ onRead' = "step" /\ onWrite' = "step"
        /\ host' = [host EXCEPT !.link = "trying"]
        /\ UNCHANGED <<out, loop, inp, peer>>

\* step(): connectStatus() says whether the connection is up; then 'connect' is
\* emitted, a _final that waited goes on, and what was held is written.
Step ==
  \/ host.link \in {"refused", "reset"} /\ DestroySocket(sock, out)
  \/ /\ host.link = "up"
     /\ onRead' = "read" /\ onWrite' = "none"
     /\ sock' = [sock EXCEPT !.connecting = FALSE, !.held = FALSE, !.paused = FALSE,
                          !.final = IF @ = "waits" THEN "done" ELSE @]
     /\ host' = [host EXCEPT !.shut = @ \/ sock.final = "waits"]
     /\ \E n \in Sizes :
          out' = IF sock.held THEN [out EXCEPT !.queued = TRUE, !.left = n] ELSE out
     /\ loop' = [loop EXCEPT !.flush = @ \/ sock.held]
     /\ UNCHANGED <<inp, peer>>

------------------------------------------------------------------------------
(* The program, and the Writable above.                                    *)

\* write(), _write, _writeNow: a chunk waits in the Writable for the one before it,
\* or is held until the socket has an index, or goes to the loop of _flush.
Write ==
  /\ out.asked < MaxWrites /\ ~sock.ended /\ ~sock.destroyed
  /\ Patient => ~(sock.connecting /\ sock.id) \/ Writing
  /\ \/ /\ Writing
        /\ out' = [out EXCEPT !.asked = @ + 1]
        /\ UNCHANGED <<sock, loop>>
     \/ /\ ~Writing /\ sock.id
        /\ \E n \in Sizes : out' = [out EXCEPT !.asked = @ + 1, !.queued = TRUE, !.left = n]
        /\ loop' = [loop EXCEPT !.flush = TRUE]
        /\ UNCHANGED sock
     \/ /\ ~Writing /\ ~sock.id
        /\ out' = [out EXCEPT !.asked = @ + 1]
        /\ sock' = [sock EXCEPT !.held = TRUE]
        /\ UNCHANGED loop
  /\ UNCHANGED <<onRead, onWrite, inp, host, peer>>

\* end(), by the program or, after the peer's end was read, by the stream.
End ==
  /\ ~sock.ended /\ ~sock.destroyed
  /\ sock' = [sock EXCEPT !.ended = TRUE]
  /\ UNCHANGED <<onRead, onWrite, out, loop, inp, host, peer>>

\* A mistake: _final is called with writes open.
FinalEarly ==
  /\ sock.ended /\ sock.final = "no" /\ ~sock.destroyed
  /\ sock' = [sock EXCEPT !.final = IF sock.connecting THEN "waits" ELSE "done", !.linger = TRUE]
  /\ host' = [host EXCEPT !.shut = ~sock.connecting]
  /\ UNCHANGED <<onRead, onWrite, out, loop, inp, peer>>

\* _final, and its five seconds for a peer that never ends.
Final ==
  /\ sock.ended /\ sock.final = "no" /\ ~sock.destroyed
  /\ out.asked = out.done /\ ~Writing
  /\ sock' = [sock EXCEPT !.final = IF sock.connecting THEN "waits" ELSE "done", !.linger = TRUE]
  /\ host' = [host EXCEPT !.shut = ~sock.connecting]
  /\ UNCHANGED <<onRead, onWrite, out, loop, inp, peer>>

CallDestroy == ~sock.destroyed /\ DestroySocket(sock, out)

\* autoDestroy: both sides are done.
AutoDestroy == sock.final = "done" /\ inp.end /\ inp.buffer = 0 /\ ~sock.destroyed /\ DestroySocket(sock, out)

Linger == sock.linger /\ ~sock.destroyed /\ DestroySocket(sock, out)

------------------------------------------------------------------------------
(* The loops.                                                              *)

ServeWrite ==
  /\ loop = [flush |-> FALSE, read |-> FALSE]
  /\ host.link # "trying" /\ (host.link = "up" => host.room > 0)
  /\ \/ onWrite = "step" /\ Step
     \/ /\ onWrite = "flush" /\ loop' = [loop EXCEPT !.flush = TRUE]
        /\ UNCHANGED <<sock, onRead, onWrite, out, inp, host, peer>>

ServeRead ==
  /\ loop = [flush |-> FALSE, read |-> FALSE]
  /\ host.link # "trying" /\ (host.link = "up" => host.waiting > 0 \/ host.fin)
  /\ \/ onRead = "step" /\ Step
     \/ /\ onRead = "read" /\ loop' = [loop EXCEPT !.read = TRUE]
        /\ UNCHANGED <<sock, onRead, onWrite, out, inp, host, peer>>

FlushDone ==
  /\ loop.flush
  /\ ~out.queued \/ sock.destroyed \/ ~sock.id
  /\ loop' = [loop EXCEPT !.flush = FALSE]
  /\ onWrite' = "none"
  /\ UNCHANGED <<sock, onRead, out, inp, host, peer>>

\* A mistake: nobody waits for room.
FlushGivesUp ==
  /\ loop.flush /\ out.queued /\ sock.id
  /\ out.left = 0 \/ host.link = "trying" \/ (host.link = "up" /\ host.room = 0)
  /\ loop' = [loop EXCEPT !.flush = FALSE]
  /\ UNCHANGED <<sock, onRead, onWrite, out, inp, host, peer>>

\* native.send took nothing: there is no room, no connection yet, or nothing to send.
FlushWaits ==
  /\ loop.flush /\ out.queued /\ sock.id
  /\ out.left = 0 \/ host.link = "trying" \/ (host.link = "up" /\ host.room = 0)
  /\ loop' = [loop EXCEPT !.flush = FALSE]
  /\ onWrite' = "flush"
  /\ UNCHANGED <<sock, onRead, out, inp, host, peer>>

\* The callback is called when the last byte was taken; the Writable then hands
\* over the next chunk.
FlushSends ==
  /\ loop.flush /\ out.queued /\ sock.id /\ host.link = "up"
  /\ \E n \in 1..out.left :
       /\ n <= host.room
       /\ host' = [host EXCEPT !.room = @ - n]
       /\ \/ n < out.left /\ out' = [out EXCEPT !.left = @ - n]
          \/ /\ n = out.left /\ out.asked = out.done + 1
             /\ out' = [out EXCEPT !.left = 0, !.queued = FALSE, !.done = @ + 1]
          \/ /\ n = out.left /\ out.asked > out.done + 1
             /\ \E m \in Sizes : out' = [out EXCEPT !.left = m, !.done = @ + 1]
  /\ UNCHANGED <<sock, onRead, onWrite, loop, inp, peer>>

FlushFails ==
  /\ loop.flush /\ out.queued /\ sock.id /\ out.left > 0
  /\ host.link \in {"reset", "refused"}
  /\ DestroySocket(sock, out)

\* What ends the loop of _readReady without a byte.
ReadDone ==
  /\ loop.read /\ ~loop.flush
  /\ sock.destroyed \/ sock.paused \/ ~sock.id \/ (host.link = "up" /\ host.waiting = 0 /\ ~host.fin)
  /\ loop' = [loop EXCEPT !.read = FALSE]
  /\ UNCHANGED <<sock, onRead, onWrite, out, inp, host, peer>>

\* push(): a Readable that is full stops the reading.
ReadSome ==
  /\ loop.read /\ ~loop.flush /\ sock.id /\ ~sock.paused /\ host.link = "up"
  /\ \E n \in 1..host.waiting :
       /\ host' = [host EXCEPT !.waiting = @ - n]
       /\ inp' = [inp EXCEPT !.buffer = @ + n, !.reading = FALSE]
       /\ IF inp.buffer + n < HighWaterMark THEN UNCHANGED <<sock, onRead, loop>>
          ELSE sock' = [sock EXCEPT !.paused = TRUE] /\ onRead' = "none" /\ loop' = [loop EXCEPT !.read = FALSE]
  /\ UNCHANGED <<onWrite, out, peer>>

ReadEnd ==
  /\ loop.read /\ ~loop.flush /\ sock.id /\ ~sock.paused
  /\ host.link = "up" /\ host.waiting = 0 /\ host.fin
  /\ inp' = [inp EXCEPT !.end = TRUE]
  /\ onRead' = "none"
  /\ loop' = [loop EXCEPT !.read = FALSE]
  /\ UNCHANGED <<sock, onWrite, out, host, peer>>

ReadFails ==
  /\ loop.read /\ ~loop.flush /\ sock.id /\ ~sock.paused
  /\ host.link \in {"reset", "refused"}
  /\ DestroySocket(sock, out)

\* The program takes what is buffered, and the Readable calls _read.
Consume ==
  /\ inp.buffer > 0 \/ ~inp.reading
  /\ inp' = [inp EXCEPT !.buffer = 0, !.reading = ~inp.end]
  /\ IF sock.paused /\ sock.id /\ ~inp.reading /\ ~inp.end
       THEN sock' = [sock EXCEPT !.paused = FALSE] /\ onRead' = "read"
       ELSE UNCHANGED <<sock, onRead>>
  /\ UNCHANGED <<onWrite, out, loop, host, peer>>

------------------------------------------------------------------------------
(* The host and the peer.                                                  *)

HostDecides ==
  /\ host.link = "trying"
  /\ \E l \in {"up", "refused"} : host' = [host EXCEPT !.link = l]
  /\ UNCHANGED <<sock, onRead, onWrite, out, loop, inp, peer>>

PeerReads ==
  /\ host.link = "up" /\ host.room < HostRoom
  /\ host' = [host EXCEPT !.room = @ + 1]
  /\ UNCHANGED <<sock, onRead, onWrite, out, loop, inp, peer>>

PeerWrites ==
  /\ host.link = "up" /\ peer > 0 /\ ~host.fin
  /\ peer' = peer - 1
  /\ host' = [host EXCEPT !.waiting = @ + 1]
  /\ UNCHANGED <<sock, onRead, onWrite, out, loop, inp>>

PeerEnds ==
  /\ host.link = "up" /\ ~host.fin
  /\ host' = [host EXCEPT !.fin = TRUE]
  /\ UNCHANGED <<sock, onRead, onWrite, out, loop, inp, peer>>

PeerResets ==
  /\ host.link = "up"
  /\ host' = [host EXCEPT !.link = "reset"]
  /\ UNCHANGED <<sock, onRead, onWrite, out, loop, inp, peer>>

------------------------------------------------------------------------------

Loops == FlushDone \/ FlushWaits \/ FlushSends \/ FlushFails \/ ReadDone \/ ReadSome \/ ReadEnd \/ ReadFails

Streams == Dial \/ Final \/ AutoDestroy

SocketProgram == Write \/ End \/ CallDestroy

Peer == PeerWrites \/ PeerEnds \/ PeerResets

SocketNext ==
  \/ Loops \/ Streams \/ ServeWrite \/ ServeRead \/ Consume \/ Linger \/ SocketProgram
  \/ HostDecides \/ PeerReads \/ Peer

SocketSpec == SocketInit /\ [][SocketNext]_socketVars

\* Tasks run, the poller serves both watchers, the timer fires, the program reads;
\* the host decides about the connection and the peer reads.
FairSocketSpec ==
  /\ SocketSpec /\ WF_socketVars(Loops) /\ WF_socketVars(Streams) /\ WF_socketVars(ServeWrite)
  /\ WF_socketVars(ServeRead) /\ WF_socketVars(Linger) /\ WF_socketVars(Consume) /\ WF_socketVars(HostDecides) /\ WF_socketVars(PeerReads)

------------------------------------------------------------------------------
(* Properties.                                                             *)

\* No handler outlives the index: the host gives it to the next socket, whose
\* handlers they would be taken for.
NoHandlerLeft == ~sock.id => onRead = "none" /\ onWrite = "none"

\* The half-close follows the last byte: nobody takes a cut off stream for a whole one.
FinIsLast == host.shut => out.done = out.asked /\ ~Writing

\* connect() ends in 'connect' or in the end of the socket.
ConnectSettles == sock.connecting ~> ~sock.connecting

\* Every write is done, or fails with the socket.
WriteIsAnswered == \A i \in 1..MaxWrites : (out.asked >= i) ~> (out.done >= i \/ sock.destroyed)

\* What the peer sent is read, however often the reader was behind, and so is its end.
IncomingIsRead == (host.waiting > 0 \/ host.fin) ~> (sock.destroyed \/ (host.waiting = 0 /\ (host.fin => inp.end)))

\* Bytes go through in both directions, however often either side was behind.
TrafficFlows == WriteIsAnswered /\ IncomingIsRead

\* A socket that ended is destroyed in the end, also when the peer never ends.
EndCloses == sock.ended ~> sock.destroyed

\* A socket does not stay half made nor half closed.
SocketSettles == ConnectSettles /\ EndCloses

==============================================================================
