-------------------------------- MODULE Dns ---------------------------------
(***************************************************************************)
(* Channel of node-dns.js: the questions in flight, the datagram socket    *)
(* they share per address family, the retries over the servers, and the    *)
(* fallback to TCP after a reply that was cut short.                       *)
(*                                                                         *)
(* One action is one callback.  The poller runs its handlers, the writing  *)
(* ones first, in one turn (native-modules.js:394-396); microtasks run     *)
(* after the turn, timers in turns of their own.  So a reply may be read   *)
(* while the microtask that goes on with the query still waits.            *)
(***************************************************************************)
EXTENDS Naturals, Sequences, FiniteSets

CONSTANTS
  MaxQueries,  \* bound: calls of query()
  Ids,         \* the ids of the wire
  N,           \* the number of servers
  Family,      \* the address family of each
  Tries,       \* rounds over the servers
  MaxUpsets,   \* bound: errors of sockets, of sends and of connections, calls of cancel()
  Apart        \* no query meets two errors of its socket in one turn of the poller

Queries == 1..MaxQueries
Servers == 1..N
Families == {Family[s] : s \in Servers}

ASSUME DnsAssumption ==
  /\ MaxQueries \in Nat /\ N \in Nat \ {0} /\ Tries \in Nat \ {0} /\ MaxUpsets \in Nat
  /\ Apart \in BOOLEAN /\ Family \in [Servers -> {4, 6}]

VARIABLES
  q,         \* the queries
  failures,  \* of each server since its last good reply
  net,       \* the open sockets, what waits in them to be sent, what reached a server
  turn,      \* the handlers a turn of the poller is at, with microtasks waiting
  upsets     \* of them so far

vars == <<q, failures, net, turn, upsets>>

Codes == {"ETIMEOUT", "ECONNREFUSED"}
Results == Codes \cup {"none", "answer", "EBADRESP", "ECANCELLED"}
Limit == Tries * N

NewQuery ==
  [st |-> "idle", id |-> 0, attempt |-> 0, made |-> 0, mode |-> "none", server |-> 0, sentTo |-> {}, timer |-> FALSE,
   tcp |-> 0, error |-> "none", result |-> "none", ticks |-> 0, cancel |-> FALSE]

Datagrams == [k : Queries, server : Servers, id : Ids \cup {0}]

Records ==
  [st : {"idle", "pending", "finished"}, id : Ids \cup {0}, attempt : Nat, made : Nat,
   mode : {"none", "udp", "tcp"}, server : 0..N, sentTo : SUBSET Servers, timer : BOOLEAN, tcp : 0..N,
   error : Codes \cup {"none"}, result : Results, ticks : Nat, cancel : BOOLEAN]

TypeOK ==
  /\ q \in [Queries -> Records]
  /\ failures \in [Servers -> Nat]
  /\ net \in [open : SUBSET Families,
              sends : [Families -> Seq(Datagrams)], asked : SUBSET Datagrams]
  /\ turn \in {"none", "write", "read"} /\ upsets \in 0..MaxUpsets

Init ==
  /\ q = [k \in Queries |-> NewQuery]
  /\ failures = [s \in Servers |-> 0]
  /\ net = [open |-> {}, sends |-> [f \in Families |-> <<>>], asked |-> {}]
  /\ turn = "none" /\ upsets = 0

Pending(k) == q[k].st = "pending"
Ticking(Q) == \E k \in Queries : Q[k].ticks > 0 \/ Q[k].cancel

\* q.families: filled with sentTo, emptied by _release.
FamiliesOf(k) == IF Pending(k) THEN {Family[s] : s \in q[k].sentTo} ELSE {}

\* The sockets of F are closed: what waited in them is gone, and no reply reaches them.
Closed(nt, F) ==
  [open |-> nt.open \ F,
   sends |-> [f \in Families |-> IF f \in F THEN <<>> ELSE nt.sends[f]],
   asked |-> {d \in nt.asked : Family[d.server] \notin F}]

Upset == upsets < MaxUpsets /\ upsets' = upsets + 1

\* _pick: the first of the servers that failed least.
Picked(s, fl) == \A t \in Servers : fl[s] < fl[t] \/ (fl[s] = fl[t] /\ s <= t)

------------------------------------------------------------------------------
(* The ends of a query, and its next attempt.                              *)

\* A mistake: the sockets are closed whoever else uses them.
ReleaseAll(k) == FamiliesOf(k)

\* _release: the families that no other query needs.
Release(k) == {f \in FamiliesOf(k) : \A p \in Queries \ {k} : f \notin FamiliesOf(p)}

\* _finish(q, code); a second call returns at once.
Finish(k, r, code) ==
  /\ q' = [q EXCEPT ![k] = [NewQuery EXCEPT !.st = "finished", !.result = code,
                                            !.made = IF code \in Codes THEN r.made ELSE 0,
                                            !.ticks = r.ticks, !.cancel = r.cancel]]
  /\ net' = Closed(net, Release(k))

\* A mistake: the microtask is left to the timer, which is cleared.
FailingSilently(r) ==
  [r EXCEPT !.timer = FALSE, !.tcp = 0, !.error = "ECONNREFUSED", !.attempt = @ + 1]

\* _connectionFailed: the timer is cleared, and a microtask makes the next attempt.
Failing(r) ==
  [r EXCEPT !.timer = FALSE, !.tcp = 0, !.error = "ECONNREFUSED", !.attempt = @ + 1, !.ticks = @ + 1]

Failed(fl, s) == [fl EXCEPT ![s] = @ + 1]

\* A mistake: the error of the last attempt ends the query.
AttemptsLeftShort(r) == r.attempt + 1 < Limit

AttemptsLeft(r) == r.attempt < Limit

\* _attempt with tries left: the socket of the server's family is there, or is made, or
\* cannot be bound; then the datagram is sent, or cannot be, or waits for room.
Send(k, s, r, fl) ==
  LET f == Family[s]
      d == [k |-> k, server |-> s, id |-> r.id]
      r1 == [r EXCEPT !.server = s, !.mode = "udp", !.timer = TRUE, !.made = @ + 1]
      r2 == [r1 EXCEPT !.sentTo = @ \cup {s}]
      there == [net EXCEPT !.open = @ \cup {f}]
      waits == net.sends[f] # <<>>
  IN
  \/ /\ f \notin net.open
     /\ Upset
     /\ q' = [q EXCEPT ![k] = Failing(r1)]
     /\ failures' = Failed(fl, s)
     /\ UNCHANGED net
  \/ /\ ~waits
     /\ q' = [q EXCEPT ![k] = r2]
     /\ failures' = fl
     /\ net' = [there EXCEPT !.asked = @ \cup {d}]
     /\ UNCHANGED upsets
  \/ /\ ~waits
     /\ Upset
     /\ q' = [q EXCEPT ![k] = Failing(r2)]
     /\ failures' = Failed(fl, s)
     /\ net' = there
  \/ /\ q' = [q EXCEPT ![k] = r2]
     /\ failures' = fl
     /\ net' = [there EXCEPT !.sends[f] = Append(@, d)]
     /\ UNCHANGED upsets

\* _attempt of a query that is not over.
Attempt(k, r, fl) ==
  \/ /\ AttemptsLeft(r)
     /\ \E s \in Servers : Picked(s, fl) /\ Send(k, s, r, fl)
  \/ /\ ~AttemptsLeft(r)
     /\ Finish(k, r, IF r.error = "none" THEN "ETIMEOUT" ELSE r.error)
     /\ failures' = fl
     /\ UNCHANGED upsets

------------------------------------------------------------------------------
(* The program.                                                            *)

\* query(): an id no pending query has; the first attempt is a microtask.
Query ==
  \E k \in Queries, id \in Ids :
    /\ q[k].st = "idle" /\ \A p \in Queries : p < k => q[p].st # "idle"
    /\ \A p \in Queries : Pending(p) => q[p].id # id
    /\ q' = [q EXCEPT ![k] = [NewQuery EXCEPT !.st = "pending", !.id = id, !.ticks = 1]]
    /\ UNCHANGED <<failures, net, turn, upsets>>

\* cancel(): one microtask for each pending query.
Cancel ==
  /\ \E k \in Queries : Pending(k) /\ ~q[k].cancel
  /\ Upset
  /\ q' = [k \in Queries |-> IF Pending(k) THEN [q[k] EXCEPT !.cancel = TRUE] ELSE q[k]]
  /\ UNCHANGED <<failures, net, turn>>

------------------------------------------------------------------------------
(* Microtasks and timers.                                                  *)

AttemptTick(k) ==
  /\ q[k].ticks > 0
  /\ LET r == [q[k] EXCEPT !.ticks = @ - 1] IN
     IF Pending(k)
       THEN Attempt(k, r, failures)
       ELSE q' = [q EXCEPT ![k] = r] /\ UNCHANGED <<failures, net, upsets>>
  /\ turn' = "none"

CancelTick(k) ==
  /\ q[k].cancel
  /\ LET r == [q[k] EXCEPT !.cancel = FALSE] IN
     IF Pending(k)
       THEN Finish(k, r, "ECANCELLED")
       ELSE q' = [q EXCEPT ![k] = r] /\ UNCHANGED net
  /\ turn' = "none"
  /\ UNCHANGED <<failures, upsets>>

\* _timedOut: the next attempt is made at once.
TimedOut(k) ==
  /\ Pending(k) /\ q[k].timer /\ ~Ticking(q)
  /\ Attempt(k, [q[k] EXCEPT !.timer = FALSE, !.error = "ETIMEOUT", !.tcp = 0, !.attempt = @ + 1],
             Failed(failures, q[k].server))
  /\ UNCHANGED turn

------------------------------------------------------------------------------
(* The poller's handlers.                                                  *)

\* A handler runs in a turn that has begun, or begins one: then no microtask waits.
Handler(mine, before) ==
  /\ Ticking(q) => turn \in before
  /\ turn' = IF Ticking(q') THEN mine ELSE "none"

\* _flush of the socket: a datagram that waited is sent, or fails, which counts when
\* the query still waits for that server.
Flush(f) ==
  /\ net.sends[f] # <<>>
  /\ LET d == Head(net.sends[f])
         rest == [net EXCEPT !.sends[f] = Tail(@)]
     IN
     \/ /\ net' = [rest EXCEPT !.asked = @ \cup {d}]
        /\ UNCHANGED <<q, failures, upsets>>
     \/ /\ net' = rest
        /\ Upset /\ (Apart => q[d.k].ticks = 0)
        /\ IF Pending(d.k) /\ q[d.k].server = d.server /\ q[d.k].mode = "udp"
             THEN /\ q' = [q EXCEPT ![d.k] = Failing(@)]
                  /\ failures' = Failed(failures, d.server)
             ELSE UNCHANGED <<q, failures>>
  /\ Handler("write", {"write"})

\* _response: a reply to some other question is no answer to this query.
SameQuestion(d, k) == d.k = k

\* _datagram and _response: a server that was asked replies, once or again, whole,
\* cut short, or in a form that cannot be read.
Datagram(d) ==
  \E k \in Queries :
    /\ Pending(k) /\ q[k].id = d.id /\ q[k].mode = "udp" /\ d.server \in q[k].sentTo
    /\ \/ /\ Finish(k, q[k], "EBADRESP")
          /\ UNCHANGED failures
       \/ /\ SameQuestion(d, k)
          /\ Finish(k, q[k], "answer")
          /\ failures' = [failures EXCEPT ![d.server] = 0]
       \/ /\ SameQuestion(d, k)
          /\ q' = [q EXCEPT ![k].mode = "tcp", ![k].tcp = d.server]
          /\ failures' = [failures EXCEPT ![d.server] = 0]
          /\ UNCHANGED net
    /\ Handler("read", {"write", "read"})
    /\ UNCHANGED upsets

\* The connection of _startTcp, which takes its first step in a microtask: its server's
\* answer, which may be unreadable.
TcpData(k) ==
  /\ q[k].tcp # 0 /\ q[k].ticks = 0
  /\ \/ /\ Finish(k, q[k], "EBADRESP")
        /\ UNCHANGED failures
     \/ /\ Finish(k, q[k], "answer")
        /\ failures' = [failures EXCEPT ![q[k].tcp] = 0]
  /\ Handler("read", {"write", "read"})
  /\ UNCHANGED upsets

\* 'error' or 'close' of the connection; the second of them finds q.tcp changed.
TcpFailed(k) ==
  /\ q[k].tcp # 0 /\ q[k].ticks = 0
  /\ Upset
  /\ q' = [q EXCEPT ![k] = Failing(@)]
  /\ failures' = Failed(failures, q[k].tcp)
  /\ Handler("read", {"write", "read"})
  /\ UNCHANGED net

OnSocket(k, f) == Pending(k) /\ q[k].mode = "udp" /\ q[k].server # 0 /\ Family[q[k].server] = f

\* _socketFailed: reading from the socket failed; every query that waits for it goes on.
SocketFailed(f) ==
  /\ f \in net.open
  /\ Upset /\ (Apart => \A k \in Queries : OnSocket(k, f) => q[k].ticks = 0)
  /\ net' = Closed(net, {f})
  /\ q' = [k \in Queries |-> IF OnSocket(k, f) THEN Failing(q[k]) ELSE q[k]]
  /\ failures' = [s \in Servers |-> failures[s] + Cardinality({k \in Queries : OnSocket(k, f) /\ q[k].server = s})]
  /\ Handler("read", {"write", "read"})

------------------------------------------------------------------------------
Next ==
  \/ Query \/ Cancel
  \/ \E k \in Queries : AttemptTick(k) \/ CancelTick(k) \/ TimedOut(k) \/ TcpData(k) \/ TcpFailed(k)
  \/ \E f \in Families : Flush(f) \/ SocketFailed(f)
  \/ \E d \in net.asked : Datagram(d)

Spec == Init /\ [][Next]_vars

\* Microtasks run before the loop waits, and a timer fires unless it is cleared; the
\* program, the servers and the network owe nothing.
Fairness ==
  \A k \in Queries : WF_vars(AttemptTick(k)) /\ WF_vars(CancelTick(k)) /\ WF_vars(TimedOut(k))

FairSpec == Spec /\ Fairness

------------------------------------------------------------------------------
(* Properties.                                                             *)

\* A socket is "closed once no query needs it" (968), and not before: each open socket is of a
\* family that a pending query has asked in, and a query that waits for a datagram, with no
\* microtask of its own to come, has the socket it would come through.
SocketsAreNeeded ==
  /\ \A f \in net.open : \E k \in Queries : f \in FamiliesOf(k)
  /\ \A k \in Queries :
       Pending(k) /\ q[k].mode = "udp" /\ q[k].ticks = 0 => Family[q[k].server] \in net.open

\* A query fails for a server's silence or refusal only after `tries` rounds over the servers
\* were really made: no failure is counted twice.
EveryTryIsMade == \A k \in Queries : q[k].result \in Codes => q[k].made >= Limit

\* Every query is answered: whatever is lost, refused or cut short, its timer, or the microtask
\* that makes its next attempt, is there until done() is called.
EveryQueryEnds == \A k \in Queries : (q[k].st = "pending") ~> (q[k].st = "finished")

\* A pending query always has something to come that goes on with it: its timer, or a
\* microtask that makes the next attempt.
NobodyWaitsForNothing == \A k \in Queries : Pending(k) => q[k].timer \/ q[k].ticks > 0
==============================================================================
