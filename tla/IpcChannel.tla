------------------------------ MODULE IpcChannel ------------------------------
(***************************************************************************)
(* The IPC channel of fork(): class Channel of node-child.js at both ends  *)
(* of a socket pair, and the part of the module's scheduler that serves it.*)
(*                                                                         *)
(* Each end writes a stream of lines of Width bytes; byte c of a stream    *)
(* belongs to message Number(c), and ends its line when EndsLine(c).  The  *)
(* socket takes and gives as many bytes as it can, so that a line may be   *)
(* written, read and kept in pieces.                                       *)
(*                                                                         *)
(* A process is single-threaded: `thread` says where it is.  Between two   *)
(* of its steps the other process may do anything, its end included.       *)
(* The program runs between turns ("idle") and inside its 'message'        *)
(* listeners ("listening"); callbacks and the 'disconnect' event wait in   *)
(* the nextTick queue until the turn is over.                              *)
(***************************************************************************)
EXTENDS Integers, Sequences, FiniteSets, FiniteSetsExt, Functions

CONSTANTS
  Parent, Child,   \* the ends: the process that forked, and the forked one
  Crowded,         \* ends whose scheduler also serves other children
  Fickle,          \* ends whose program comes and goes: it starts without
                   \* listeners, attaches and removes them, calls unref()
  Events,          \* events of the channel the programs listen to
  Throwing,        \* ends whose 'message' listeners may throw; the program
                   \* handles 'uncaughtException' and goes on
  Width,           \* bytes of a line, its newline included
  Capacity,        \* bytes the socket buffers in each direction
  Chunk,           \* bytes one pipeRead takes at most
  MaxSends         \* bound: messages each program sends

Ends == {Parent, Child}

ASSUME EndsAssumption ==
  /\ Parent # Child
  /\ Crowded \subseteq Ends /\ Fickle \subseteq Ends
  /\ Throwing \subseteq Ends
  /\ Events \subseteq {"message", "disconnect"}
ASSUME SizesAssumption ==
  /\ {Width, Capacity, Chunk} \subseteq Nat \ {0}
  /\ MaxSends \in Nat

VARIABLES
  up,        \* processes that run
  thread,    \* where the thread of a process is: idle, reading (readAvailable),
             \* splitting (split), listening (a 'message' listener), closing
  caller,    \* where Channel.close(false) was called from
  ended,     \* why connected is false: local, eof, epipe; no while it is true
  pending,   \* Channel.pending, as the bytes that are still to be written
  input,     \* Channel.input
  buffer,    \* split's own `buffer`
  wire,      \* bytes the socket holds for an end
  on,        \* events of the channel the program listens to
  ref,       \* Channel.ref
  ticks,     \* the nextTick queue
  \* ---- history
  sent,      \* how many messages an end's program sent: 1, 2, ...
  written,   \* how many of them the socket took whole
  got,       \* the 'message' events an end emitted
  threw,     \* ends with a listener that threw
  results,   \* the callbacks of send() that ran
  told       \* 'disconnect' events an end emitted

listeners == <<on, ref>>
history == <<sent, got, threw, results, told>>
channelVars ==
  <<up, thread, caller, ended, pending, input, buffer, wire, on, ref, ticks,
    sent, written, got, threw, results, told>>

Peer(e) == IF e = Parent THEN Child ELSE Parent

------------------------------------------------------------------------------
(* Bytes and lines.                                                        *)

Line(m) == [i \in 1..Width |-> (m - 1) * Width + i]
EndsLine(c) == c % Width = 0
Number(c) == c \div Width

\* What JSON.parse makes of a line: a message, or nothing.
Parsed(line) ==
  IF \E m \in 1..MaxSends : line = Line(m)
    THEN <<CHOOSE m \in 1..MaxSends : line = Line(m)>> ELSE <<>>

LineEnds(bytes) == {i \in DOMAIN bytes : EndsLine(bytes[i])}

\* A task of the nextTick queue: the callback of send(), or 'disconnect'.
Callback(m, ok) == [message |-> m, ok |-> ok]
DisconnectEvent == Callback(0, FALSE)

\* The callbacks of the messages whose last byte is among `bytes`, in order.
Callbacks(bytes, ok) ==
  LET Upto(n) == {i \in LineEnds(bytes) : i <= n}
      Last(k) == CHOOSE i \in LineEnds(bytes) : Cardinality(Upto(i)) = k
  IN [k \in 1..Cardinality(LineEnds(bytes)) |->
        Callback(Number(bytes[Last(k)]), ok)]

------------------------------------------------------------------------------
(* The state of an end.                                                    *)

Connected(e) == ended[e] = "no"

\* The descriptor of an end is open: nobody closed it and its process lives.
Open(e) == e \in up /\ Connected(e)

\* Channel.wants: the scheduler serves the channel on its own account.
ChannelWants(e) ==
  /\ Connected(e) /\ ref[e]
  /\ pending[e] # <<>> \/ e = Parent \/ on[e] # {}

\* The scheduler runs, and a run serves every channel of the process.
Served(e) == ChannelWants(e) \/ e \in Crowded

ChannelTypeOK ==
  /\ up \subseteq Ends
  /\ thread \in
       [Ends -> {"idle", "reading", "splitting", "listening", "closing"}]
  /\ caller \in [Ends -> {"idle", "listening"}]
  /\ ended \in [Ends -> {"no", "local", "eof", "epipe"}]
  /\ {pending, input, buffer, wire} \subseteq [Ends -> Seq(1..(Width * MaxSends))]
  /\ on \in [Ends -> SUBSET Events]
  /\ ref \in [Ends -> BOOLEAN]
  /\ {ticks, results} \subseteq
       [Ends -> Seq([message : 0..MaxSends, ok : BOOLEAN])]
  /\ {sent, written} \subseteq [Ends -> 0..MaxSends]
  /\ got \in [Ends -> Seq(1..MaxSends)]
  /\ told \in [Ends -> Nat]
  /\ threw \subseteq Throwing

ChannelInit ==
  /\ up = Ends
  /\ thread = [e \in Ends |-> "idle"]
  /\ caller = thread
  /\ ended = [e \in Ends |-> "no"]
  /\ pending = [e \in Ends |-> <<>>]
  /\ input = pending /\ buffer = pending /\ wire = pending
  /\ ticks = pending /\ got = pending /\ results = pending
  /\ on = [e \in Ends |-> IF e \in Fickle THEN {} ELSE Events]
  /\ ref = [e \in Ends |-> TRUE]
  /\ sent = [e \in Ends |-> 0] /\ written = sent /\ told = sent
  /\ threw = {}

------------------------------------------------------------------------------
(* flush and close.                                                        *)

\* A mistake: the callbacks of unwritten messages run without an error.
ClosedAsIfSent(e, bytes, why) ==
  /\ ended' = [ended EXCEPT ![e] = IF Connected(e) THEN why ELSE @]
  /\ ticks' = [ticks EXCEPT
                 ![e] = @ \o Callbacks(bytes, TRUE) \o <<DisconnectEvent>>]
  /\ pending' = [pending EXCEPT ![e] = <<>>]
  /\ wire' = [wire EXCEPT ![e] = <<>>]
  /\ UNCHANGED written

\* Channel.close(true), or the end of close(false), with `bytes` unwritten:
\* their callbacks fail and 'disconnect' is queued.  What the end had not
\* read is gone with its descriptor.
CloseWith(e, bytes, why) ==
  /\ ended' = [ended EXCEPT ![e] = IF Connected(e) THEN why ELSE @]
  /\ ticks' = [ticks EXCEPT
                 ![e] = @ \o Callbacks(bytes, FALSE) \o <<DisconnectEvent>>]
  /\ pending' = [pending EXCEPT ![e] = <<>>]
  /\ wire' = [wire EXCEPT ![e] = <<>>]
  /\ UNCHANGED written

\* pipeWrite takes what the socket has room for.
PipeWrite(e, bytes) ==
  LET n == Min({Len(bytes), Capacity - Len(wire[Peer(e)])})
      out == SubSeq(bytes, 1, n)
  IN /\ wire' = [wire EXCEPT ![Peer(e)] = @ \o out]
     /\ pending' = [pending EXCEPT ![e] = SubSeq(bytes, n + 1, Len(bytes))]
     /\ ticks' = [ticks EXCEPT ![e] = @ \o Callbacks(out, TRUE)]
     /\ written' = [written EXCEPT ![e] = @ + Cardinality(LineEnds(out))]
     /\ UNCHANGED ended

\* Channel.flush with `bytes` pending.
Flush(e, bytes) ==
  IF bytes # <<>> /\ ~Open(Peer(e))
    THEN CloseWith(e, bytes, "epipe")
    ELSE PipeWrite(e, bytes)

------------------------------------------------------------------------------
(* The program of an end.                                                  *)

ProgramRuns(e) == e \in up /\ thread[e] \in {"idle", "listening"}

\* send() on a connected channel.
Send(e) ==
  /\ ProgramRuns(e) /\ Connected(e)
  /\ sent[e] < MaxSends
  /\ sent' = [sent EXCEPT ![e] = @ + 1]
  /\ Flush(e, pending[e] \o Line(sent[e] + 1))
  /\ UNCHANGED <<up, thread, caller, input, buffer, listeners, got, threw,
                 results, told>>

\* disconnect(), its first attempt to get the pending bytes out included.
DisconnectOn(e) ==
  /\ ProgramRuns(e) /\ Connected(e)
  /\ caller' = [caller EXCEPT ![e] = thread[e]]
  /\ thread' = [thread EXCEPT ![e] = "closing"]
  /\ Flush(e, pending[e])
  /\ UNCHANGED <<up, input, buffer, listeners, history>>

\* One more attempt; how many fit in the 50 depends on the other end.
CloseAttempt(e) ==
  /\ e \in up /\ thread[e] = "closing" /\ pending[e] # <<>>
  /\ Flush(e, pending[e])
  /\ UNCHANGED <<up, thread, caller, input, buffer, listeners, history>>

\* Nothing is pending or the attempts are used up.  A flush that found the
\* other end gone has closed the channel already: it is closed again.
CloseDone(e) ==
  /\ e \in up /\ thread[e] = "closing"
  /\ thread' = [thread EXCEPT ![e] = caller[e]]
  /\ caller' = [caller EXCEPT ![e] = "idle"]
  /\ CloseWith(e, pending[e], "local")
  /\ UNCHANGED <<up, input, buffer, listeners, history>>

\* on(), once(), off(), and what a once() listener does when it has run.
SetListeners(e) ==
  /\ ProgramRuns(e) /\ e \in Fickle
  /\ \E events \in SUBSET Events \ {on[e]} : on' = [on EXCEPT ![e] = events]
  /\ UNCHANGED <<up, thread, caller, ended, pending, input, buffer, wire, ref,
                 ticks, written, history>>

\* ref() and unref().
ToggleChannelRef(e) ==
  /\ ProgramRuns(e) /\ e \in Fickle
  /\ ref' = [ref EXCEPT ![e] = ~@]
  /\ UNCHANGED <<up, thread, caller, ended, pending, input, buffer, wire, on,
                 ticks, written, history>>

\* The process exits or is killed: everything it had not written is lost.
Die(e) ==
  /\ e \in up
  /\ up' = up \ {e}
  /\ thread' = [thread EXCEPT ![e] = "idle"]
  /\ caller' = [caller EXCEPT ![e] = "idle"]
  /\ pending' = [pending EXCEPT ![e] = <<>>]
  /\ input' = [input EXCEPT ![e] = <<>>]
  /\ buffer' = [buffer EXCEPT ![e] = <<>>]
  /\ wire' = [wire EXCEPT ![e] = <<>>]
  /\ ticks' = [ticks EXCEPT ![e] = <<>>]
  /\ UNCHANGED <<ended, listeners, written, history>>

------------------------------------------------------------------------------
(* The event loop of an end.                                               *)

\* pipePoll reports bytes and the end of the stream alike.
Ready(e) == wire[e] # <<>> \/ ~Open(Peer(e))

\* A mistake: an end reads only when it has nothing left to write.
TickWritesFirst(e) ==
  /\ e \in up /\ thread[e] = "idle" /\ ticks[e] = <<>>
  /\ Connected(e) /\ Served(e)
  /\ Flush(e, pending[e])
  /\ thread' = [thread EXCEPT
                  ![e] = IF Ready(e) /\ ended'[e] = "no" /\ pending'[e] = <<>>
                           THEN "reading" ELSE @]
  /\ UNCHANGED <<up, caller, input, buffer, listeners, history>>

\* run() serves the channel: tick flushes, and reads if there is something.
ChannelTick(e) ==
  /\ e \in up /\ thread[e] = "idle" /\ ticks[e] = <<>>
  /\ Connected(e) /\ Served(e)
  /\ Flush(e, pending[e])
  /\ thread' = [thread EXCEPT
                  ![e] = IF Ready(e) /\ ended'[e] = "no" THEN "reading" ELSE @]
  /\ UNCHANGED <<up, caller, input, buffer, listeners, history>>

\* One pipeRead of readAvailable that returns bytes.
Read(e) ==
  LET n == Min({Chunk, Len(wire[e])})
      bytes == input[e] \o SubSeq(wire[e], 1, n)
  IN
  /\ e \in up /\ thread[e] = "reading" /\ wire[e] # <<>>
  /\ wire' = [wire EXCEPT ![e] = SubSeq(@, n + 1, Len(@))]
  /\ input' = [input EXCEPT ![e] = bytes]
  /\ buffer' = [buffer EXCEPT ![e] = bytes]
  /\ thread' = [thread EXCEPT ![e] = "splitting"]
  /\ UNCHANGED <<up, caller, ended, pending, listeners, ticks, written,
                 history>>

\* readAvailable finds nothing more to read.
ReadNothing(e) ==
  /\ e \in up /\ thread[e] = "reading" /\ wire[e] = <<>>
  /\ Open(Peer(e))
  /\ thread' = [thread EXCEPT ![e] = "idle"]
  /\ UNCHANGED <<up, caller, ended, pending, input, buffer, wire, listeners,
                 ticks, written, history>>

\* A mistake: a hang-up ends the channel before the rest of it is read.
HangUpFirst(e) ==
  /\ e \in up /\ thread[e] = "reading"
  /\ ~Open(Peer(e))
  /\ thread' = [thread EXCEPT ![e] = "idle"]
  /\ CloseWith(e, pending[e], "eof")
  /\ UNCHANGED <<up, caller, input, buffer, listeners, history>>

\* readAvailable finds the end of the stream.
ReadEnd(e) ==
  /\ e \in up /\ thread[e] = "reading" /\ wire[e] = <<>>
  /\ ~Open(Peer(e))
  /\ thread' = [thread EXCEPT ![e] = "idle"]
  /\ CloseWith(e, pending[e], "eof")
  /\ UNCHANGED <<up, caller, input, buffer, listeners, history>>

\* split cuts a line off its buffer and dispatches it.
Dispatch(e) ==
  LET n == Min(LineEnds(buffer[e]))
      message == Parsed(SubSeq(buffer[e], 1, n))
      heard == message # <<>> /\ "message" \in on[e]
  IN
  /\ e \in up /\ thread[e] = "splitting" /\ LineEnds(buffer[e]) # {}
  /\ buffer' = [buffer EXCEPT ![e] = SubSeq(@, n + 1, Len(@))]
  /\ got' = [got EXCEPT ![e] = @ \o message]
  /\ thread' = [thread EXCEPT ![e] = IF heard THEN "listening" ELSE @]
  /\ UNCHANGED <<up, caller, ended, pending, input, wire, listeners, ticks,
                 sent, written, threw, results, told>>

\* The listener returns to split.
Return(e) ==
  /\ e \in up /\ thread[e] = "listening"
  /\ thread' = [thread EXCEPT ![e] = "splitting"]
  /\ UNCHANGED <<up, caller, ended, pending, input, buffer, wire, listeners,
                 ticks, written, history>>

\* The listener throws: run() reports the exception, and split never gets to
\* store what is left of its buffer.
Throw(e) ==
  /\ e \in up /\ e \in Throwing /\ thread[e] = "listening"
  /\ thread' = [thread EXCEPT ![e] = "idle"]
  /\ buffer' = [buffer EXCEPT ![e] = <<>>]
  /\ threw' = threw \union {e}
  /\ UNCHANGED <<up, caller, ended, pending, input, wire, listeners, ticks,
                 sent, written, got, results, told>>

\* A mistake: input is replaced only when a piece of a line is left.
SplitKeeps(e) ==
  /\ e \in up /\ thread[e] = "splitting" /\ LineEnds(buffer[e]) = {}
  /\ input' = [input EXCEPT ![e] = IF buffer[e] = <<>> THEN @ ELSE buffer[e]]
  /\ buffer' = [buffer EXCEPT ![e] = <<>>]
  /\ thread' = [thread EXCEPT ![e] = IF Connected(e) THEN "reading" ELSE "idle"]
  /\ UNCHANGED <<up, caller, ended, pending, wire, listeners, ticks, written,
                 history>>

\* No line is left: the rest is kept, and readAvailable goes on reading
\* unless a listener closed the channel.
SplitDone(e) ==
  /\ e \in up /\ thread[e] = "splitting" /\ LineEnds(buffer[e]) = {}
  /\ input' = [input EXCEPT ![e] = buffer[e]]
  /\ buffer' = [buffer EXCEPT ![e] = <<>>]
  /\ thread' = [thread EXCEPT ![e] = IF Connected(e) THEN "reading" ELSE "idle"]
  /\ UNCHANGED <<up, caller, ended, pending, wire, listeners, ticks, written,
                 history>>

\* The turn is over: the nextTick queue runs.
RunTask(e) ==
  LET task == Head(ticks[e]) IN
  /\ e \in up /\ thread[e] = "idle" /\ ticks[e] # <<>>
  /\ ticks' = [ticks EXCEPT ![e] = Tail(@)]
  /\ \/ /\ task = DisconnectEvent
        /\ told' = [told EXCEPT ![e] = @ + 1]
        /\ UNCHANGED results
     \/ /\ task # DisconnectEvent
        /\ results' = [results EXCEPT ![e] = Append(@, task)]
        /\ UNCHANGED told
  /\ UNCHANGED <<up, thread, caller, ended, pending, input, buffer, wire,
                 listeners, sent, written, got, threw>>
------------------------------------------------------------------------------
ChannelProgram(e) ==
  \/ Send(e) \/ DisconnectOn(e)
  \/ SetListeners(e) \/ ToggleChannelRef(e) \/ Die(e)

\* What the thread of a process does without being asked.
ChannelLoop(e) ==
  \/ Read(e) \/ ReadNothing(e) \/ ReadEnd(e)
  \/ Dispatch(e) \/ Return(e) \/ Throw(e) \/ SplitDone(e)
  \/ CloseDone(e) \/ RunTask(e)

ChannelNext ==
  \E e \in Ends :
    ChannelProgram(e) \/ ChannelTick(e) \/ CloseAttempt(e) \/ ChannelLoop(e)

ChannelSpec == ChannelInit /\ [][ChannelNext]_channelVars

\* A turn that began ends, its nextTick queue runs, and the scheduler comes
\* back to a channel that wants it.  Programs owe nothing.
FairChannelSpec ==
  /\ ChannelSpec
  /\ \A e \in Ends : /\ WF_channelVars(ChannelLoop(e))
                     /\ WF_channelVars(ChannelWants(e) /\ ChannelTick(e))

------------------------------------------------------------------------------
(* Properties.                                                             *)

\* Bytes written, read and split in pieces, and listeners that send and
\* disconnect in the middle of a split, still give each end the messages of
\* the other in order, none skipped, none after 'disconnect'; a message is
\* repeated only to an end whose listener threw.
Promise ==
  INSTANCE IpcSpec WITH
    Opposite <- [e \in Ends |-> Peer(e)],
    over <- {e \in Ends : told[e] > 0}

DeliversInOrder == Promise!Spec

\* The callbacks of send() run in the order of the sends, each once, and tell
\* what happened: without an error exactly when the socket took the whole
\* message.  A message reported as failed was not received and never will be.
CallbacksTellTheTruth ==
  \A e \in Ends : \A i \in DOMAIN results[e] :
    /\ results[e][i].message = i
    /\ results[e][i].ok <=> i <= written[e]
    /\ ~results[e][i].ok => i \notin Range(got[Peer(e)])

\* An end that learns of the other's end from the stream itself has emitted
\* every message the other could write, however it ended: a crash does not
\* lose what the socket holds (unless a listener threw).
EofLosesNothing ==
  \A e \in up \ threw :
    ended[e] = "eof" => Range(got[e]) = 1..written[Peer(e)]

\* close() does its work once, whether the program, the stream or a failed
\* write calls it; only a disconnect() that itself found the other end gone
\* while flushing announces 'disconnect' twice.
DisconnectOnce ==
  \A e \in Ends : told[e] <= 1 \/ ended[e] = "epipe"

\* What an end's program is told of its sends and of the channel's end is true.
ReportsAreTrue == CallbacksTellTheTruth /\ DisconnectOnce

\* "Messages that arrived before the program listened are held by the pipe":
\* no 'message' event is emitted while nobody listens to it.
HeldUntilHeard ==
  [][\A e \in Ends : got'[e] # got[e] => "message" \in on[e]]_channelVars

\* While both ends live, stay connected and are served, a message that was
\* sent arrives: even when both sockets are full, and whatever was split.
EveryMessageArrives ==
  \A e \in Ends, m \in 1..MaxSends :
    sent[e] >= m ~> \/ m \in Range(got[Peer(e)])
                    \/ Peer(e) \in threw
                    \/ \E d \in Ends : ~Open(d) \/ ~ChannelWants(d)

\* An end whose peer is gone emits 'disconnect', unless its own process ends
\* or stops serving the channel.
DisconnectIsTold ==
  \A e \in Ends :
    ~Open(Peer(e)) ~> \/ told[e] > 0 \/ e \notin up
                      \/ Connected(e) /\ ~ChannelWants(e)

\* Neither a message nor the end of the other side stays unheard.
NothingStaysUnheard == EveryMessageArrives /\ DisconnectIsTold

==============================================================================
