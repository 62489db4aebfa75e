-------------------------------- MODULE Http2 --------------------------------
(***************************************************************************)
(* An HTTP/2 connection between two sessions of node-http2.js: flow        *)
(* control of the response bodies, SETTINGS, RST_STREAM, GOAWAY and the    *)
(* graceful end of both sessions.                                          *)
(*                                                                         *)
(* The client opens streams 1, 2, ... with a request that has no body; the *)
(* server writes a body on each.  A frame is sent whole and in order; the  *)
(* thresholds of the code (65535, 8192, 32768, 16384) are constants.  The  *)
(* loops of _pump are one task, whose frames leave when it is over: what   *)
(* the client does comes before or after it, callbacks of the server's     *)
(* program come within.                                                    *)
(***************************************************************************)
EXTENDS Naturals, Integers, Sequences, FiniteSets

CONSTANTS
  MaxStreams,   \* bound: streams the client opens
  Bodies,       \* lengths of a body
  Chunk,        \* bytes the program writes at once
  FrameSize,    \* SETTINGS_MAX_FRAME_SIZE
  Window,       \* initial window of a stream
  Batch, Low,   \* a reader's credit is sent from Batch on, or when the window is below Low
  ConnWindow, ConnBatch, ConnLow,  \* the same for the connection
  Wanted,       \* initial windows the client asks for with settings()
  MaxSettings,  \* bound: calls of settings()
  MaxUpsets,    \* bound: close(), goaway(), destroy() and resets
  Settled       \* the client's settings() and its streams do not overlap

ASSUME Http2Assumption ==
  /\ MaxStreams \in Nat /\ Bodies \subseteq Nat /\ Chunk \in Nat \ {0} /\ FrameSize \in Nat \ {0}
  /\ Window \in Nat /\ Batch \in Nat \ {0} /\ Low \in Nat \ {0}
  /\ ConnWindow \in Nat /\ ConnBatch \in Nat \ {0} /\ ConnLow \in Nat \ {0}
  /\ Wanted \subseteq Nat /\ MaxSettings \in Nat /\ MaxUpsets \in Nat /\ Settled \in BOOLEAN

Streams == 1..MaxStreams

VARIABLES
  out,        \* per stream at the server
  ss,         \* the server's session
  in,         \* per stream at the client
  cs,         \* the client's session
  toClient, toServer,
  body,       \* per stream: the length of its body
  upsets

http2Vars == <<out, ss, in, cs, toClient, toServer, body, upsets>>

Data(s, n, end) == [type |-> "data", of |-> s, n |-> n, end |-> end]

Frame(type, s, n) == [type |-> type, of |-> s, n |-> n, end |-> FALSE]

Frames == [type : {"data", "ack", "settings", "headers", "update", "rst", "refused", "goaway", "fin"},
           of : 0..MaxStreams, n : Nat, end : BOOLEAN]

Http2TypeOK ==
  /\ out \in [Streams -> [ph : {"none", "open", "closed"}, win : Int, todo : Nat, chunk : Nat,
                          end : BOOLEAN, local : BOOLEAN, queued : BOOLEAN]]
  /\ ss \in [win : Nat, initial : Nat, last : 0..MaxStreams, goaway : BOOLEAN, closing : BOOLEAN,
             gone : BOOLEAN, cut : BOOLEAN, pumping : BOOLEAN, drain : BOOLEAN]
  /\ in \in [Streams -> [ph : {"none", "open", "done", "reset", "cut", "overrun", "refused", "lost"},
                         win : Int, credit : Nat, unread : Nat, got : Nat]]
  /\ cs \in [win : Nat, unacked : Nat, local : Nat, pending : Seq(Nat), asked : 0..MaxSettings,
             opened : 0..MaxStreams, goaway : BOOLEAN, closing : BOOLEAN, gone : BOOLEAN]
  /\ toClient \in Seq(Frames) /\ toServer \in Seq(Frames)
  /\ body \in [Streams -> Bodies]
  /\ upsets \in 0..MaxUpsets

Http2Init ==
  /\ out = [s \in Streams |-> [ph |-> "none", win |-> 0, todo |-> 0, chunk |-> 0,
                               end |-> FALSE, local |-> FALSE, queued |-> FALSE]]
  /\ ss = [win |-> ConnWindow, initial |-> Window, last |-> 0, goaway |-> FALSE, closing |-> FALSE,
           gone |-> FALSE, cut |-> FALSE, pumping |-> FALSE, drain |-> FALSE]
  /\ in = [s \in Streams |-> [ph |-> "none", win |-> 0, credit |-> 0, unread |-> 0, got |-> 0]]
  /\ cs = [win |-> ConnWindow, unacked |-> 0, local |-> Window, pending |-> <<>>, asked |-> 0,
           opened |-> 0, goaway |-> FALSE, closing |-> FALSE, gone |-> FALSE]
  /\ toClient = <<>> /\ toServer = <<>>
  /\ body \in [Streams -> Bodies]
  /\ upsets = 0

------------------------------------------------------------------------------
(* The end of a session.                                                   *)

\* _maybeFinish of the server
ServerMayFinish(o, sv) ==
  sv.closing /\ ~sv.gone /\ \A s \in Streams : o[s].ph # "open" /\ ~o[s].queued

\* What the server does last in a task: it may be the end of the session.
ServerTurn(o, sv, frames) ==
  /\ out' = o
  /\ IF ServerMayFinish(o, sv)
       THEN ss' = [sv EXCEPT !.gone = TRUE] /\ toClient' = toClient \o Append(frames, Frame("fin", 0, 0))
       ELSE ss' = sv /\ toClient' = toClient \o frames

\* _maybeFinish of the client: its requests have no bodies to send.
ClientMayFinish(i, cl) == cl.closing /\ ~cl.gone /\ \A s \in Streams : i[s].ph # "open"

ClientTurn(i, cl, frames) ==
  /\ in' = i
  /\ IF ClientMayFinish(i, cl)
       THEN cs' = [cl EXCEPT !.gone = TRUE] /\ toServer' = toServer \o Append(frames, Frame("fin", 0, 0))
       ELSE cs' = cl /\ toServer' = toServer \o frames

\* destroy() ends the socket at once: what it had not sent yet is lost.
CutOff(frames) == {Append(SubSeq(frames, 1, k), Frame("fin", 0, 0)) : k \in 0..Len(frames)}

------------------------------------------------------------------------------
(* The server: its program, and the pump.                                  *)

Smallest(S) == CHOOSE n \in S : \A m \in S : n <= m

StreamUp(s) == out[s].ph = "open" /\ ~ss.gone

\* stream.write: the next chunk is handed over when the one before it is sent.
Write(s) ==
  /\ StreamUp(s) /\ out[s].todo > 0 /\ out[s].chunk = 0
  /\ LET n == Smallest({Chunk, out[s].todo})
     IN  out' = [out EXCEPT ![s].todo = @ - n, ![s].chunk = n, ![s].queued = TRUE]
  /\ ss' = [ss EXCEPT !.pumping = TRUE]
  /\ UNCHANGED <<in, cs, toClient, toServer, body, upsets>>

\* _final, when every write is done
End(s) ==
  /\ StreamUp(s) /\ out[s].todo = 0 /\ out[s].chunk = 0 /\ ~out[s].end /\ ~out[s].local
  /\ out' = [out EXCEPT ![s].end = TRUE, ![s].queued = TRUE]
  /\ ss' = [ss EXCEPT !.pumping = TRUE]
  /\ UNCHANGED <<in, cs, toClient, toServer, body, upsets>>

Room(s) == Smallest({out[s].win, ss.win})

\* A DATA frame; the socket may ask to wait for 'drain'.
PumpSends(s) ==
  /\ ss.pumping /\ out[s].queued /\ out[s].chunk > 0 /\ Room(s) > 0
  /\ LET n == Smallest({out[s].chunk, Room(s), FrameSize})
     IN  /\ out' = [out EXCEPT ![s].chunk = @ - n, ![s].win = @ - n]
         /\ \E full \in BOOLEAN :
              ss' = [ss EXCEPT !.win = @ - n, !.pumping = ~full, !.drain = @ \/ full]
         /\ toClient' = Append(toClient, Data(s, n, FALSE))
  /\ UNCHANGED <<in, cs, toServer, body, upsets>>

\* An empty DATA frame with END_STREAM: both directions are done.
PumpEndsStream(s) ==
  /\ ss.pumping /\ out[s].queued /\ out[s].chunk = 0 /\ out[s].end /\ ~out[s].local
  /\ out' = [out EXCEPT ![s].end = FALSE, ![s].local = TRUE, ![s].queued = FALSE, ![s].ph = "closed"]
  /\ toClient' = Append(toClient, Data(s, 0, TRUE))
  /\ UNCHANGED <<ss, in, cs, toServer, body, upsets>>

\* The loops find nothing more to send; what has nothing to send leaves the queue.
PumpDone ==
  /\ ss.pumping
  /\ \A s \in Streams : out[s].queued => /\ out[s].chunk > 0 => Room(s) <= 0
                                         /\ out[s].chunk = 0 /\ out[s].end => out[s].local
  /\ ServerTurn([s \in Streams |-> [out[s] EXCEPT !.queued = @ /\ (out[s].chunk > 0 \/ out[s].end)]],
                [ss EXCEPT !.pumping = FALSE], <<>>)
  /\ UNCHANGED <<in, cs, toServer, body, upsets>>

Drain ==
  /\ ss.drain /\ ~ss.pumping
  /\ ss' = [ss EXCEPT !.drain = FALSE, !.pumping = ~ss.gone]
  /\ UNCHANGED <<out, in, cs, toClient, toServer, body, upsets>>

\* _protocolClose; `end` and the place in the queue are left as they are.
Closed(o) == [o EXCEPT !.ph = "closed", !.local = TRUE, !.chunk = 0, !.todo = 0]

\* stream.close(code)
ServerResets(s) ==
  /\ upsets < MaxUpsets /\ upsets' = upsets + 1
  /\ StreamUp(s)
  /\ ServerTurn([out EXCEPT ![s] = Closed(@)], ss, <<Frame("rst", s, 0)>>)
  /\ UNCHANGED <<in, cs, toServer, body>>

\* session.goaway()
Goaway ==
  /\ upsets < MaxUpsets /\ upsets' = upsets + 1
  /\ ~ss.gone /\ ~ss.goaway
  /\ ss' = [ss EXCEPT !.goaway = TRUE]
  /\ toClient' = Append(toClient, Frame("goaway", ss.last, 0))
  /\ UNCHANGED <<out, in, cs, toServer, body>>

\* session.close()
ServerCloses ==
  /\ upsets < MaxUpsets /\ upsets' = upsets + 1
  /\ ~ss.gone /\ ~ss.closing
  /\ ServerTurn(out, [ss EXCEPT !.closing = TRUE, !.goaway = TRUE],
                IF ss.goaway THEN <<>> ELSE <<Frame("goaway", ss.last, 0)>>)
  /\ UNCHANGED <<in, cs, toServer, body>>

CloseAll == [s \in Streams |-> IF out[s].ph = "open" THEN Closed(out[s]) ELSE out[s]]

\* session.destroy()
ServerDestroys ==
  /\ upsets < MaxUpsets /\ upsets' = upsets + 1
  /\ ~ss.gone
  /\ out' = CloseAll
  /\ ss' = [ss EXCEPT !.gone = TRUE, !.cut = TRUE, !.goaway = TRUE]
  /\ toClient' \in CutOff(IF ss.goaway THEN toClient ELSE Append(toClient, Frame("goaway", ss.last, 0)))
  /\ UNCHANGED <<in, cs, toServer, body>>

------------------------------------------------------------------------------
(* The server reads a frame.                                               *)

Reading(type) ==
  /\ ~ss.gone /\ ~ss.pumping /\ toServer # <<>> /\ Head(toServer).type = type
  /\ toServer' = Tail(toServer)
  /\ UNCHANGED <<in, cs, body, upsets>>

\* A mistake: only close() is asked.
RefusesLate == ss.closing

Refuses == ss.closing \/ ss.goaway

OnHeaders ==
  /\ Reading("headers")
  /\ LET s == Head(toServer).of
     IN  IF Refuses
           THEN /\ ss' = [ss EXCEPT !.last = s] /\ toClient' = Append(toClient, Frame("refused", s, 0))
                /\ UNCHANGED out
           ELSE /\ ss' = [ss EXCEPT !.last = s] /\ UNCHANGED toClient
                /\ out' = [out EXCEPT ![s].ph = "open", ![s].win = ss.initial, ![s].todo = body[s]]

\* A SETTINGS frame moves the windows of the open streams, below zero if need be.
OnSettings ==
  /\ Reading("settings")
  /\ LET v == Head(toServer).n
     IN  /\ out' = [s \in Streams |-> IF out[s].ph = "open" THEN [out[s] EXCEPT !.win = @ + v - ss.initial] ELSE out[s]]
         /\ ss' = [ss EXCEPT !.initial = v, !.pumping = TRUE]
         /\ toClient' = Append(toClient, Frame("ack", 0, 0))

OnWindowUpdate ==
  /\ Reading("update")
  /\ LET s == Head(toServer).of
         n == Head(toServer).n
     IN  \/ s = 0 /\ ss' = [ss EXCEPT !.win = @ + n, !.pumping = TRUE] /\ UNCHANGED out
         \/ /\ s # 0 /\ out[s].ph = "open"
            /\ out' = [out EXCEPT ![s].win = @ + n] /\ ss' = [ss EXCEPT !.pumping = TRUE]
         \/ s # 0 /\ out[s].ph # "open" /\ UNCHANGED <<out, ss>>
  /\ UNCHANGED toClient

OnRst ==
  /\ Reading("rst")
  /\ LET s == Head(toServer).of
     IN  IF out[s].ph = "open" THEN ServerTurn([out EXCEPT ![s] = Closed(@)], ss, <<>>)
         ELSE UNCHANGED <<out, ss, toClient>>

OnGoaway ==
  /\ Reading("goaway")
  /\ ServerTurn(out, [ss EXCEPT !.closing = TRUE], <<>>)

\* _socketGone: the client ended the connection.
OnFin ==
  /\ Reading("fin")
  /\ out' = CloseAll
  /\ ss' = [ss EXCEPT !.gone = TRUE]
  /\ toClient' = Append(toClient, Frame("fin", 0, 0))

ServerReads == OnHeaders \/ OnSettings \/ OnWindowUpdate \/ OnRst \/ OnGoaway \/ OnFin

------------------------------------------------------------------------------
(* The client: its program.                                                *)

\* session.request()
Request ==
  /\ ~cs.gone /\ ~ss.pumping /\ ~cs.closing /\ cs.opened < MaxStreams
  /\ Settled => cs.pending = <<>>
  /\ LET s == cs.opened + 1
     IN  /\ cs' = [cs EXCEPT !.opened = s]
         /\ in' = [in EXCEPT ![s].ph = "open", ![s].win = cs.local]
         /\ toServer' = Append(toServer, Frame("headers", s, 0))
  /\ UNCHANGED <<out, ss, toClient, body, upsets>>

\* session.settings({ initialWindowSize })
Settings(v) ==
  /\ ~cs.gone /\ ~ss.pumping /\ cs.asked < MaxSettings
  /\ Settled => \A s \in Streams : in[s].ph # "open"
  /\ cs' = [cs EXCEPT !.asked = @ + 1, !.pending = Append(@, v)]
  /\ toServer' = Append(toServer, Frame("settings", 0, v))
  /\ UNCHANGED <<out, ss, in, toClient, body, upsets>>

\* A mistake: the batch alone decides.
CreditsInBatches(i) == i.credit >= Batch

\* _consumed
Credits(i) == i.credit >= Batch \/ i.win < Low

\* A reader takes what is buffered; an open stream's window follows it.
Read(s) ==
  /\ in[s].unread > 0 /\ ~ss.pumping
  /\ LET i == [in[s] EXCEPT !.unread = 0, !.credit = @ + in[s].unread]
     IN  IF i.ph = "open" /\ ~cs.gone /\ Credits(i)
           THEN /\ in' = [in EXCEPT ![s] = [i EXCEPT !.win = @ + i.credit, !.credit = 0]]
                /\ toServer' = Append(toServer, Frame("update", s, i.credit))
           ELSE in' = [in EXCEPT ![s] = i] /\ UNCHANGED toServer
  /\ UNCHANGED <<out, ss, cs, toClient, body, upsets>>

\* stream.close(code)
ClientResets(s) ==
  /\ upsets < MaxUpsets /\ upsets' = upsets + 1
  /\ in[s].ph = "open" /\ ~cs.gone /\ ~ss.pumping
  /\ ClientTurn([in EXCEPT ![s].ph = "reset"], cs, <<Frame("rst", s, 0)>>)
  /\ UNCHANGED <<out, ss, toClient, body>>

\* session.close()
ClientCloses ==
  /\ upsets < MaxUpsets /\ upsets' = upsets + 1
  /\ ~cs.gone /\ ~ss.pumping /\ ~cs.closing
  /\ ClientTurn(in, [cs EXCEPT !.closing = TRUE, !.goaway = TRUE], <<Frame("goaway", 0, 0)>>)
  /\ UNCHANGED <<out, ss, toClient, body>>

\* session.destroy()
ClientDestroys ==
  /\ upsets < MaxUpsets /\ upsets' = upsets + 1
  /\ ~cs.gone /\ ~ss.pumping
  /\ in' = [s \in Streams |-> IF in[s].ph = "open" THEN [in[s] EXCEPT !.ph = "reset"] ELSE in[s]]
  /\ cs' = [cs EXCEPT !.gone = TRUE, !.goaway = TRUE]
  /\ toServer' \in CutOff(IF cs.goaway THEN toServer ELSE Append(toServer, Frame("goaway", 0, 0)))
  /\ UNCHANGED <<out, ss, toClient, body>>

------------------------------------------------------------------------------
(* The client reads a frame.                                               *)

Hearing(type) ==
  /\ ~cs.gone /\ ~ss.pumping /\ toClient # <<>> /\ Head(toClient).type = type
  /\ toClient' = Tail(toClient)
  /\ UNCHANGED <<out, ss, body, upsets>>

\* A mistake: what arrives for a stream that is gone is not counted.
CreditOpen(cl, n, open) ==
  IF cl.unacked + n >= ConnBatch \/ cl.win - n < ConnLow
    THEN [win |-> cl.win + cl.unacked, unacked |-> 0, send |-> IF open THEN cl.unacked + n ELSE cl.unacked]
    ELSE [win |-> cl.win - n, unacked |-> cl.unacked + n, send |-> 0]

\* _creditConnection: the connection's window follows what arrives.
CreditConnection(cl, n, open) ==
  IF cl.unacked + n >= ConnBatch \/ cl.win - n < ConnLow
    THEN [win |-> cl.win + cl.unacked, unacked |-> 0, send |-> cl.unacked + n]
    ELSE [win |-> cl.win - n, unacked |-> cl.unacked + n, send |-> 0]

OnData ==
  /\ Hearing("data")
  /\ LET f    == Head(toClient)
         s    == f.of
         c    == CreditConnection(cs, f.n, in[s].ph = "open")
         cl   == [cs EXCEPT !.win = c.win, !.unacked = c.unacked]
         more == IF c.send > 0 THEN <<Frame("update", 0, c.send)>> ELSE <<>>
     IN  IF in[s].ph # "open"
           THEN ClientTurn(in, cl, <<Frame("rst", s, 0)>> \o more)
         ELSE IF f.n > in[s].win
           THEN ClientTurn([in EXCEPT ![s].ph = "overrun", ![s].win = @ - f.n], cl, <<Frame("rst", s, 0)>> \o more)
         ELSE ClientTurn([in EXCEPT ![s].win = @ - f.n, ![s].unread = @ + f.n, ![s].got = @ + f.n,
                                    ![s].ph = IF f.end THEN "done" ELSE @], cl, more)

\* The acknowledged settings hold; open streams keep their windows.
OnAck ==
  /\ Hearing("ack")
  /\ cs' = [cs EXCEPT !.local = Head(cs.pending), !.pending = Tail(@)]
  /\ UNCHANGED <<in, toServer>>

OnRefused ==
  /\ Hearing("refused")
  /\ LET s == Head(toClient).of
     IN  ClientTurn(IF in[s].ph = "open" THEN [in EXCEPT ![s].ph = "refused"] ELSE in, cs, <<>>)

OnServerRst ==
  /\ Hearing("rst")
  /\ LET s == Head(toClient).of
     IN  ClientTurn(IF in[s].ph = "open" THEN [in EXCEPT ![s].ph = "cut"] ELSE in, cs, <<>>)

\* Streams above the last one the server took are refused; the session closes.
OnServerGoaway ==
  /\ Hearing("goaway")
  /\ LET last == Head(toClient).of
     IN  ClientTurn([s \in Streams |-> IF in[s].ph = "open" /\ s > last THEN [in[s] EXCEPT !.ph = "refused"] ELSE in[s]],
                    [cs EXCEPT !.closing = TRUE], <<>>)

OnServerFin ==
  /\ Hearing("fin")
  /\ in' = [s \in Streams |-> IF in[s].ph = "open" THEN [in[s] EXCEPT !.ph = "lost"] ELSE in[s]]
  /\ cs' = [cs EXCEPT !.gone = TRUE]
  /\ toServer' = Append(toServer, Frame("fin", 0, 0))

ClientReads == OnData \/ OnAck \/ OnRefused \/ OnServerRst \/ OnServerGoaway \/ OnServerFin

------------------------------------------------------------------------------

Pump == PumpDone \/ \E s \in Streams : PumpSends(s) \/ PumpEndsStream(s)

Body(s) == Write(s) \/ End(s)

Http2Next ==
  \/ Pump \/ Drain \/ ServerReads \/ ClientReads
  \/ \E s \in Streams : Body(s) \/ Read(s) \/ ServerResets(s) \/ ClientResets(s)
  \/ \E v \in Wanted : Settings(v)
  \/ Request \/ Goaway \/ ServerCloses \/ ClientCloses \/ ServerDestroys \/ ClientDestroys

Http2Spec == Http2Init /\ [][Http2Next]_http2Vars

\* Frames arrive, the pump runs, the socket drains, bodies are written and read.
FairHttp2Spec ==
  /\ Http2Spec /\ WF_http2Vars(Pump) /\ WF_http2Vars(Drain)
  /\ WF_http2Vars(ServerReads) /\ WF_http2Vars(ClientReads)
  /\ \A s \in Streams : WF_http2Vars(Body(s)) /\ WF_http2Vars(Read(s))

------------------------------------------------------------------------------
(* Properties.                                                             *)

\* The sum of a sequence of numbers.
Total(w) == Cardinality(UNION {{i} \X (1..w[i]) : i \in DOMAIN w})

\* What the frames of a type carry for some streams: bytes of DATA, credit of WINDOW_UPDATE.
Carried(frames, type, S) ==
  Total([i \in DOMAIN frames |-> IF frames[i].type = type /\ frames[i].of \in S THEN frames[i].n ELSE 0])

\* What the sender may still send, what it has sent and what was credited to it add
\* up to what the receiver expects, for the connection and for every stream: no
\* credit is lost or given twice, whatever becomes of the streams.
ConnectionAgrees ==
  ~ss.gone /\ ~cs.gone =>
    cs.win = ss.win + Carried(toClient, "data", Streams) + Carried(toServer, "update", {0})

WindowsAgree ==
  /\ ConnectionAgrees
  /\ \A s \in Streams : in[s].ph = "open" /\ out[s].ph = "open" =>
       in[s].win = out[s].win + Carried(toClient, "data", {s}) + Carried(toServer, "update", {s})

\* A body whose end was received is whole.
EndIsWhole == \A s \in Streams : in[s].ph = "done" => in[s].got = body[s]

\* A request that was refused never reached the server's program: it can be sent again.
RefusedIsUnprocessed == \A s \in Streams : in[s].ph = "refused" => out[s].ph = "none"

\* close() and goaway() cut no stream, only destroy() does: otherwise the connection
\* ends when all are done.
NoStreamLost == \A s \in Streams : in[s].ph = "lost" => ss.cut

\* A stream is received whole or was refused unprocessed, whichever end closes when:
\* the client knows what to ask for again.
WholeOrRefused == EndIsWhole /\ RefusedIsUnprocessed /\ NoStreamLost

\* A request that is read ends: no window stays closed.
StreamEnds == \A s \in Streams : in[s].ph = "open" ~> in[s].ph # "open"

\* After close() or destroy() at either end both sessions end.
CloseCompletes == (ss.closing \/ cs.closing \/ ss.gone \/ cs.gone) ~> (ss.gone /\ cs.gone)

\* Streams end, and after close() or destroy() the sessions do.
EverythingEnds == StreamEnds /\ CloseCompletes

\* The receiver resets no stream of a peer that keeps to the settings it was sent.
NoOverrun == \A s \in Streams : in[s].ph # "overrun"

==============================================================================
