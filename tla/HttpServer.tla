----------------------------- MODULE HttpServer ------------------------------
(***************************************************************************)
(* One connection of an HTTP/1.1 server (ServerConnection, ServerResponse  *)
(* and HttpParser of node-http.js): pipelined requests, keep-alive, the    *)
(* idle timer, and the end of the connection by either side.               *)
(*                                                                         *)
(* A request is its head and, later or at once, the end of its body.  The  *)
(* program answers requests in any order; what it writes goes to the       *)
(* socket when the response has its turn and waits in _queued before.      *)
(***************************************************************************)
EXTENDS Naturals, Sequences, SequencesExt, FiniteSets

CONSTANTS
  MaxRequests,   \* bound: requests the peer sends on this connection
  MaxParts,      \* bound: writes of one response before its end
  EndsLate,      \* the peer ends its side only when nothing is owed to it
  WellFormed,    \* the peer sends garbage and upgrades only when nothing is owed to it
  ReadsFirst,    \* the program ends a response only after the body of its request
  Drained        \* an end() without bytes comes when what was written has been taken

ASSUME HttpServerAssumption ==
  /\ MaxRequests \in Nat /\ MaxParts \in Nat
  /\ EndsLate \in BOOLEAN /\ WellFormed \in BOOLEAN /\ ReadsFirst \in BOOLEAN
  /\ Drained \in BOOLEAN

Requests == 1..MaxRequests

VARIABLES
  conn,    \* ServerConnection, its server's _closing, and the socket's timeout
  res,     \* the ServerResponse of each request
  sock,    \* the socket: its writing side, the peer's, and whether the connection broke
  wire,    \* what was handed to the open socket
  flight,  \* writes whose callbacks are still to be called
  due      \* microtasks and ticks

vars == <<conn, res, sock, wire, flight, due>>

\* Writing: a part, the last part, or an end() that has no bytes left to write.
Parts == {"more", "last", "none"}

Entry(r, part) == [of |-> r, last |-> part = "last"]

Entries == [of : 0..MaxRequests, last : BOOLEAN]

Task(ev, r) == [ev |-> ev, of |-> r]

TypeOK ==
  /\ conn \in [responses : Seq(Requests), req : 0..MaxRequests, sent : 0..MaxRequests, attached : BOOLEAN,
               handed : BOOLEAN, closing : BOOLEAN, timeout : BOOLEAN, timer : BOOLEAN, hears : BOOLEAN]
  /\ res \in [Requests -> [keep : BOOLEAN, stored : BOOLEAN, after : BOOLEAN, parts : 0..(MaxParts + 1), over : BOOLEAN,
                           queued : Seq(Parts), turn : BOOLEAN, said : BOOLEAN, closes : Nat]]
  /\ sock \in [state : {"open", "ended", "destroyed", "gone"}, peer : BOOLEAN, broken : BOOLEAN]
  /\ wire \in Seq(Entries) /\ flight \in Seq(Entries)
  /\ due \subseteq [ev : {"done", "close", "end"}, of : 0..MaxRequests]

NoResponse == [keep |-> FALSE, stored |-> FALSE, after |-> FALSE, parts |-> 0, over |-> FALSE,
               queued |-> <<>>, turn |-> FALSE, said |-> FALSE, closes |-> 0]

\* A connection the server accepted: it is idle, and the timer runs.
Init ==
  /\ conn = [responses |-> <<>>, req |-> 0, sent |-> 0, attached |-> TRUE, handed |-> FALSE,
             closing |-> FALSE, timeout |-> TRUE, timer |-> TRUE, hears |-> TRUE]
  /\ res = [r \in Requests |-> NoResponse]
  /\ sock = [state |-> "open", peer |-> TRUE, broken |-> FALSE]
  /\ wire = <<>> /\ flight = <<>> /\ due = {}

Up == sock.state \in {"open", "ended"}

Idle == conn.responses = <<>> /\ conn.req = 0

Destroyed(s) == IF s.state \in {"open", "ended"} THEN [s EXCEPT !.state = "destroyed"] ELSE s

------------------------------------------------------------------------------
(* Writing to the socket.                                                  *)

\* socket.write: a write after end() destroys the socket; a write that fails calls
\* back all the same.
Hand(entries, fl, c, rs, d) ==
  /\ conn' = c /\ res' = rs /\ due' = d
  /\ flight' = fl \o entries
  /\ IF sock.state = "open" THEN wire' = wire \o entries /\ sock' = sock
     ELSE /\ wire' = wire
          /\ sock' = IF entries = <<>> THEN sock ELSE Destroyed(sock)

\* A mistake: a response is not asked whether it is its turn.
TurnOfAll(r) == TRUE

MyTurn(r) == res[r].turn \/ (conn.responses # <<>> /\ Head(conn.responses) = r)

Live(r) == r <= conn.sent /\ ~res[r].over

\* writeHead(): whether the connection ends after this response is settled here.
WriteHead(r) ==
  /\ Live(r) /\ ~res[r].stored
  /\ \E close \in BOOLEAN :
       res' = [res EXCEPT ![r].stored = TRUE, ![r].after = ~res[r].keep \/ conn.closing \/ close]
  /\ UNCHANGED <<conn, sock, wire, flight, due>>

\* write() and end(), with the head if it is not stored yet.
Send(r, part) ==
  /\ Live(r)
  /\ part = "more" => res[r].parts < MaxParts
  /\ part = "none" => res[r].stored /\ res[r].parts > 0 /\ (Drained => flight = <<>> /\ MyTurn(r))
  /\ ReadsFirst /\ part # "more" => conn.req # r
  /\ LET x == [res[r] EXCEPT !.stored = TRUE, !.after = IF res[r].stored THEN @ ELSE ~res[r].keep \/ conn.closing,
                             !.parts = IF part = "none" THEN @ ELSE @ + 1, !.over = part # "more"]
     IN  IF ~MyTurn(r)
           THEN /\ res' = [res EXCEPT ![r] = [x EXCEPT !.queued = Append(@, part)]]
                /\ UNCHANGED <<conn, sock, wire, flight, due>>
         ELSE IF part = "none"
           THEN Hand(<<>>, flight, conn, [res EXCEPT ![r] = x], due \cup {Task("done", r)})
           ELSE Hand(<<Entry(r, part)>>, flight, conn, [res EXCEPT ![r] = x], due)

\* A mistake: the timer that the request stopped is not started again.
Unarmed(c) == [c EXCEPT !.hears = TRUE]

\* armIdle
Armed(c) == [c EXCEPT !.timeout = TRUE, !.timer = TRUE, !.hears = TRUE]

\* A mistake: only a response that was ended is started.
StartsWhenOver(rest) == IF rest # <<>> /\ res[Head(rest)].over THEN rest ELSE <<>>

\* The response whose turn it is comes first.
Starts(rest) == rest

\* splice(): the sequence without r, if r is there.
Without(s, r) == IF r \in ToSet(s) THEN RemoveAt(s, CHOOSE i \in 1..Len(s) : s[i] = r) ELSE s

\* How many of the queued parts have bytes: an end() without bytes is the last one.
WithBytes(q) == IF q # <<>> /\ q[Len(q)] = "none" THEN Len(q) - 1 ELSE Len(q)

\* 'finish' of response r: _afterFinish, _responseDone, _startTurn.
Done(r, fl, d) ==
  LET rest == Without(conn.responses, r)
      go   == Starts(rest)
      c    == [conn EXCEPT !.responses = rest]
      told == IF res[r].said THEN d ELSE d \cup {Task("close", r)}
      said == [res EXCEPT ![r].said = TRUE]
  IN  IF go # <<>>
        THEN LET n       == Head(go)
                 q       == res[n].queued
                 entries == [i \in 1..WithBytes(q) |-> Entry(n, q[i])]
             IN  Hand(entries, fl, c, [said EXCEPT ![n].turn = TRUE, ![n].queued = <<>>],
                      told \cup (IF WithBytes(q) < Len(q) THEN {Task("done", n)} ELSE {}))
        ELSE /\ flight' = fl /\ wire' = wire /\ res' = said /\ due' = told
             /\ IF res[r].after \/ ~Up
                  THEN conn' = c /\ sock' = IF sock.state = "open" THEN [sock EXCEPT !.state = "ended"] ELSE sock
                  ELSE sock' = sock /\ conn' = Armed(c)

\* The host took a write, or it failed with the socket.
Written ==
  /\ flight # <<>>
  /\ IF Head(flight).last
       THEN Done(Head(flight).of, Tail(flight), due)
       ELSE flight' = Tail(flight) /\ UNCHANGED <<conn, res, sock, wire, due>>

DoneLater(r) ==
  /\ Task("done", r) \in due
  /\ Done(r, flight, due \ {Task("done", r)})

\* 'close' of a response
EmitClose(r) ==
  /\ Task("close", r) \in due
  /\ due' = due \ {Task("close", r)}
  /\ res' = [res EXCEPT ![r].closes = @ + 1]
  /\ UNCHANGED <<conn, sock, wire, flight>>

------------------------------------------------------------------------------
(* What the peer sends.                                                    *)

Hears == Up /\ sock.peer /\ conn.attached

Owed == conn.responses # <<>>

\* onHead: the head of the next request; the timer stops.
OnHead ==
  /\ Hears /\ conn.req = 0 /\ conn.sent < MaxRequests
  /\ LET r == conn.sent + 1
     IN  /\ conn' = [conn EXCEPT !.sent = r, !.req = r, !.responses = Append(@, r), !.timeout = FALSE, !.timer = FALSE]
         /\ \E keep \in BOOLEAN : res' = [res EXCEPT ![r].keep = keep /\ ~conn.closing]
  /\ UNCHANGED <<sock, wire, flight, due>>

\* onEnd: the body is whole; bytes start the timer again if there is a timeout.
OnEnd ==
  /\ Hears /\ conn.req # 0
  /\ conn' = [conn EXCEPT !.req = 0, !.timer = conn.timeout]
  /\ UNCHANGED <<res, sock, wire, flight, due>>

\* onUpgrade: the socket goes to the program, or, without a listener, is destroyed.
OnUpgrade ==
  /\ Hears /\ conn.req = 0 /\ conn.sent < MaxRequests
  /\ WellFormed => ~Owed
  /\ LET r == conn.sent + 1
     IN  /\ \E taken \in BOOLEAN :
              /\ conn' = [conn EXCEPT !.sent = r, !.req = r, !.attached = FALSE, !.handed = taken,
                                      !.timeout = FALSE, !.timer = FALSE]
              /\ sock' = IF taken THEN sock ELSE Destroyed(sock)
         /\ res' = [res EXCEPT ![r].over = TRUE, ![r].closes = @ + 1]
  /\ UNCHANGED <<wire, flight, due>>

\* onError: the 400 is written if the socket is writable, and the socket destroyed.
OnError ==
  /\ Hears
  /\ WellFormed => ~Owed
  /\ conn' = [conn EXCEPT !.attached = FALSE, !.timeout = FALSE, !.timer = FALSE]
  /\ wire' = IF sock.state = "open" THEN Append(wire, Entry(0, "last")) ELSE wire
  /\ sock' = Destroyed(sock)
  /\ UNCHANGED <<res, flight, due>>

\* onSocketEnd, and what the stream does by itself: end() in a tick (allowHalfOpen is false).
OnSocketEnd ==
  /\ Hears /\ conn.req = 0
  /\ EndsLate => ~Owed
  /\ sock' = [sock EXCEPT !.peer = FALSE, !.state = IF @ = "open" /\ ~Owed THEN "ended" ELSE @]
  /\ due' = due \cup {Task("end", 0)}
  /\ UNCHANGED <<conn, res, wire, flight>>

AutoEnd ==
  /\ Task("end", 0) \in due
  /\ due' = due \ {Task("end", 0)}
  /\ sock' = IF sock.state = "open" THEN [sock EXCEPT !.state = "ended"] ELSE sock
  /\ UNCHANGED <<conn, res, wire, flight>>

\* The connection breaks.
Reset ==
  /\ Up
  /\ sock' = [Destroyed(sock) EXCEPT !.broken = TRUE]
  /\ UNCHANGED <<conn, res, wire, flight, due>>

------------------------------------------------------------------------------
(* The end.                                                                *)

\* 'timeout': the listeners are called once.
Timeout ==
  /\ conn.timer /\ Up
  /\ conn' = [conn EXCEPT !.timer = FALSE, !.hears = FALSE]
  /\ sock' = IF conn.hears /\ Idle THEN Destroyed(sock) ELSE sock
  /\ UNCHANGED <<res, wire, flight, due>>

\* A mistake: a connection that is read from is taken for an idle one.
IdleResponses == conn.responses = <<>>

\* closeIdleConnections
IsIdle == Idle

\* server.close()
CloseServer ==
  /\ ~conn.closing
  /\ conn' = [conn EXCEPT !.closing = TRUE]
  /\ sock' = IF IsIdle THEN Destroyed(sock) ELSE sock
  /\ UNCHANGED <<res, wire, flight, due>>

\* A socket that ended is destroyed when the peer ends too, or after five seconds.
SocketEnds ==
  /\ sock.state = "ended" /\ flight = <<>>
  /\ sock' = Destroyed(sock)
  /\ UNCHANGED <<conn, res, wire, flight, due>>

\* onSocketClose: what is open is told.
OnSocketClose ==
  /\ sock.state = "destroyed"
  /\ sock' = [sock EXCEPT !.state = "gone"]
  /\ res' = IF ~conn.attached THEN res
            ELSE [r \in Requests |-> IF r \in ToSet(conn.responses) /\ ~res[r].said
                                       THEN [res[r] EXCEPT !.said = TRUE, !.closes = @ + 1] ELSE res[r]]
  /\ UNCHANGED <<conn, wire, flight, due>>

------------------------------------------------------------------------------

Program(r) == WriteHead(r) \/ \E part \in Parts : Send(r, part)

Tasks == Written \/ AutoEnd \/ \E r \in Requests : DoneLater(r) \/ EmitClose(r)

Peer == OnHead \/ OnUpgrade \/ OnError \/ OnSocketEnd \/ Reset

Next ==
  \/ Tasks \/ Peer \/ OnEnd \/ Timeout \/ CloseServer \/ SocketEnds \/ OnSocketClose
  \/ \E r \in Requests : Program(r)

Spec == Init /\ [][Next]_vars

Ends(r) == Send(r, "last")

\* Callbacks, ticks and timers come; the peer sends what it began, the program
\* ends its responses.
FairSpec ==
  /\ Spec /\ WF_vars(Tasks) /\ WF_vars(Timeout) /\ WF_vars(SocketEnds) /\ WF_vars(OnSocketClose)
  /\ WF_vars(OnEnd) /\ \A r \in Requests : WF_vars(Ends(r))

------------------------------------------------------------------------------
(* Properties.                                                             *)

Handed(r) == Cardinality({i \in 1..Len(wire) : wire[i].of = r})

Whole(r) == res[r].over /\ Handed(r) = res[r].parts

\* Responses are on the wire in the order of their requests, each one whole before
\* the next begins, whatever the order the program answers in.
ResponsesInOrder ==
  \A i, j \in 1..Len(wire) :
     i < j /\ wire[i].of # wire[j].of =>
        /\ wire[i].of # 0 /\ Whole(wire[i].of)
        /\ wire[i].of < wire[j].of \/ wire[j].of = 0

\* The idle timer and server.close() cut off no response that was begun, not even one
\* whose last bytes wait in the socket, and no request that is being received.
NothingIsCut ==
  [][(Timeout \/ CloseServer) /\ sock'.state # sock.state =>
       flight = <<>> /\ conn.req = 0 /\ \A r \in Requests : r <= conn.sent => res[r].over]_vars

EndedBefore(r) == \E q \in 1..(r - 1) : res[q].over /\ res[q].after

\* A response that the program ended is handed to the socket whole, unless the
\* connection broke or was to end with an earlier response.
OwedIsAnswered ==
  \A r \in Requests : res[r].over ~> (Whole(r) \/ sock.broken \/ EndedBefore(r))

\* Every response hears 'close', whether it was sent or not, and only once.
CloseIsHeard ==
  \A r \in Requests : r <= conn.sent /\ sock.state = "gone" ~> res[r].closes = 1

\* The program learns what became of every response it ended.
ResponsesSettle == OwedIsAnswered /\ CloseIsHeard

\* A connection that is idle does not stay: the timer destroys it, or a request comes.
IdleEnds == Idle /\ conn.attached ~> ~Idle \/ ~conn.attached \/ ~Up

==============================================================================
