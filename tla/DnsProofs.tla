----------------------------- MODULE DnsProofs ------------------------------
(***************************************************************************)
(* Theorems about Dns, for every number of queries, servers and errors:    *)
(* the types, that no pending query is left without a timer or a           *)
(* microtask, that the shared sockets are open exactly as long as they are *)
(* needed, and that no query fails before all its tries were made.         *)
(***************************************************************************)
EXTENDS Dns, TLAPS, FiniteSetTheorems

\* What holds of one query, given the families with an open socket.
Goes(r, open) ==
  /\ r.tcp # 0 => r.st = "pending"
  /\ r.st = "pending" =>
       /\ r.timer \/ r.ticks > 0
       /\ r.mode = "udp" /\ r.ticks = 0 => r.server \in r.sentTo /\ Family[r.server] \in open

\* An open socket has a query that was sent through it.
Needed(Q, open) ==
  \A f \in open : \E k \in Queries : Q[k].st = "pending" /\ \E s \in Q[k].sentTo : Family[s] = f

IInv ==
  /\ TypeOK
  /\ \A k \in Queries : Goes(q[k], net.open)
  /\ Needed(q, net.open)

------------------------------------------------------------------------------
(* The operators of the model.                                             *)

LEMMA FailingType ==
  ASSUME NEW r \in Records
  PROVE  /\ Failing(r) \in Records
         /\ Failing(r).st = r.st /\ Failing(r).sentTo = r.sentTo
         /\ Failing(r).ticks > 0 /\ Failing(r).tcp = 0
<1>1. "ECONNREFUSED" \in Codes \cup {"none"} /\ 0 \in 0..N
  BY DnsAssumption DEF Codes
<1>2. r.attempt + 1 \in Nat /\ r.ticks + 1 \in Nat /\ r.ticks + 1 > 0
  BY DEF Records
<1>3. Failing(r) \in Records
  BY <1>1, <1>2 DEF Failing, Records
<1>4. Failing(r).st = r.st /\ Failing(r).sentTo = r.sentTo
  BY DEF Failing, Records
<1>5. Failing(r).ticks = r.ticks + 1 /\ Failing(r).tcp = 0
  BY DEF Failing, Records
<1> QED
  BY <1>2, <1>3, <1>4, <1>5

LEMMA FailedType ==
  ASSUME NEW fl \in [Servers -> Nat], NEW s
  PROVE  Failed(fl, s) \in [Servers -> Nat]
<1>1. Failed(fl, s) = [t \in Servers |-> IF t = s THEN fl[t] + 1 ELSE fl[t]]
  BY DEF Failed
<1>2. \A t \in Servers : fl[t] + 1 \in Nat /\ fl[t] \in Nat
  OBVIOUS
<1> QED
  BY <1>1, <1>2

LEMMA ClosedType ==
  ASSUME TypeOK, NEW F
  PROVE  /\ Closed(net, F) \in [open : SUBSET Families, sends : [Families -> Seq(Datagrams)], asked : SUBSET Datagrams]
         /\ Closed(net, F).open = net.open \ F
BY DEF Closed, TypeOK

\* A change of one query that, if it is pending, keeps it so and takes nothing from what
\* it was sent through.
LEMMA OneChanges ==
  ASSUME IInv, NEW k \in Queries, NEW r \in Records, q' = [q EXCEPT ![k] = r],
         q[k].st = "pending" => r.st = "pending" /\ q[k].sentTo \subseteq r.sentTo,
         net'.open \in SUBSET Families, net.open \subseteq net'.open,
         \A f \in net'.open \ net.open : r.st = "pending" /\ \E s \in r.sentTo : Family[s] = f,
         Goes(r, net'.open)
  PROVE  /\ q' \in [Queries -> Records]
         /\ \A p \in Queries : Goes(q'[p], net'.open)
         /\ Needed(q', net'.open)
<1>1. q' \in [Queries -> Records] /\ q'[k] = r /\ \A p \in Queries \ {k} : q'[p] = q[p]
  BY DEF IInv, TypeOK
<1>2. ASSUME NEW p \in Queries PROVE Goes(q'[p], net'.open)
  <2>1. CASE p = k
    BY <1>1, <2>1
  <2>2. CASE p # k
    <3>1. q'[p] = q[p] /\ Goes(q[p], net.open)
      BY <1>1, <2>2 DEF IInv
    <3> QED
      BY <3>1 DEF Goes
  <2> QED
    BY <2>1, <2>2
<1>3. ASSUME NEW f \in net'.open
      PROVE  \E p \in Queries : q'[p].st = "pending" /\ \E s \in q'[p].sentTo : Family[s] = f
  <2>1. CASE f \in net.open
    <3>1. PICK p \in Queries : q[p].st = "pending" /\ \E s \in q[p].sentTo : Family[s] = f
      BY <2>1 DEF IInv, Needed
    <3> QED
      BY <3>1, <1>1
  <2>2. CASE f \notin net.open
    BY <2>2, <1>1
  <2> QED
    BY <2>1, <2>2
<1> QED
  BY <1>1, <1>2, <1>3 DEF Needed

\* The end of a pending query: the sockets that are closed were needed by nobody else.
LEMMA FinishKeeps ==
  ASSUME IInv, NEW k \in Queries, Pending(k), NEW r \in Records, NEW code \in Results \ {"none"},
         Finish(k, r, code)
  PROVE  /\ q' \in [Queries -> Records]
         /\ net' \in [open : SUBSET Families, sends : [Families -> Seq(Datagrams)], asked : SUBSET Datagrams]
         /\ \A p \in Queries : Goes(q'[p], net'.open)
         /\ Needed(q', net'.open)
<1> DEFINE e == [NewQuery EXCEPT !.st = "finished", !.result = code,
                                 !.made = IF code \in Codes THEN r.made ELSE 0,
                                 !.ticks = r.ticks, !.cancel = r.cancel]
<1>1. e \in Records /\ e.st = "finished" /\ e.tcp = 0
  <2>1. (IF code \in Codes THEN r.made ELSE 0) \in Nat /\ r.ticks \in Nat /\ r.cancel \in BOOLEAN /\ code \in Results
    BY DEF Records
  <2>2. NewQuery \in Records /\ NewQuery.tcp = 0
    BY DnsAssumption DEF NewQuery, Records, Results
  <2>3. e \in Records
    <3> DEFINE e1 == [NewQuery EXCEPT !.st = "finished", !.result = code]
               m == IF code \in Codes THEN r.made ELSE 0
    <3>1. e1 \in Records
      BY <2>1, <2>2 DEF Records
    <3>2. e = [e1 EXCEPT !.made = m, !.ticks = r.ticks, !.cancel = r.cancel]
      OBVIOUS
    <3>3. m \in Nat
      BY <2>1
    <3> HIDE DEF e1, m, e
    <3> QED
      BY <2>1, <3>1, <3>2, <3>3 DEF Records
  <2>4. e.st = "finished"
    BY DEF NewQuery
  <2>5. e.tcp = NewQuery.tcp
    BY DEF NewQuery
  <2> QED
    BY <2>2, <2>3, <2>4, <2>5
<1>2. q' = [q EXCEPT ![k] = e] /\ net' = Closed(net, Release(k))
  BY DEF Finish
<1>3. q' \in [Queries -> Records] /\ q'[k] = e /\ \A p \in Queries \ {k} : q'[p] = q[p]
  BY <1>1, <1>2 DEF IInv, TypeOK
<1>4. net' \in [open : SUBSET Families, sends : [Families -> Seq(Datagrams)], asked : SUBSET Datagrams]
      /\ net'.open = net.open \ Release(k)
  BY <1>2, ClosedType DEF IInv
<1>5. ASSUME NEW p \in Queries PROVE Goes(q'[p], net'.open)
  <2>1. CASE p = k
    BY <1>1, <1>3, <2>1 DEF Goes
  <2>2. CASE p # k
    <3>1. q'[p] = q[p] /\ Goes(q[p], net.open)
      BY <1>3, <2>2 DEF IInv
    <3>2. q[p].st = "pending" /\ q[p].server \in q[p].sentTo => Family[q[p].server] \notin Release(k)
      BY <2>2 DEF Release, FamiliesOf, Pending
    <3> QED
      BY <3>1, <3>2, <1>4 DEF Goes
  <2> QED
    BY <2>1, <2>2
<1>6. ASSUME NEW f \in net'.open
      PROVE  \E p \in Queries : q'[p].st = "pending" /\ \E s \in q'[p].sentTo : Family[s] = f
  <2>1. f \in net.open /\ f \notin Release(k)
    BY <1>4
  <2>2. PICK p \in Queries : q[p].st = "pending" /\ \E s \in q[p].sentTo : Family[s] = f
    BY <2>1 DEF IInv, Needed
  <2>3. CASE p # k
    BY <2>2, <2>3, <1>3
  <2>4. CASE p = k
    <3>1. f \in FamiliesOf(k)
      BY <2>2, <2>4 DEF FamiliesOf, Pending
    <3>2. PICK o \in Queries \ {k} : f \in FamiliesOf(o)
      BY <3>1, <2>1 DEF Release
    <3>3. q[o].st = "pending" /\ \E s \in q[o].sentTo : Family[s] = f
      BY <3>2 DEF FamiliesOf, Pending
    <3> QED
      BY <3>2, <3>3, <1>3
  <2> QED
    BY <2>3, <2>4
<1> QED
  BY <1>3, <1>4, <1>5, <1>6 DEF Needed

------------------------------------------------------------------------------
(* An attempt.                                                             *)

LEMMA UpsetType ==
  ASSUME TypeOK, Upset \/ UNCHANGED upsets
  PROVE  upsets' \in 0..MaxUpsets
BY DnsAssumption DEF Upset, TypeOK

LEMMA SendKeeps ==
  ASSUME IInv, NEW k \in Queries, NEW s \in Servers, NEW r \in Records, NEW fl \in [Servers -> Nat],
         r.st = "pending", q[k].st = "pending", r.sentTo = q[k].sentTo, Send(k, s, r, fl)
  PROVE  /\ q' \in [Queries -> Records] /\ failures' \in [Servers -> Nat]
         /\ net' \in [open : SUBSET Families, sends : [Families -> Seq(Datagrams)], asked : SUBSET Datagrams]
         /\ \A p \in Queries : Goes(q'[p], net'.open)
         /\ Needed(q', net'.open)
         /\ upsets' \in 0..MaxUpsets
<1> DEFINE f == Family[s]
           d == [k |-> k, server |-> s, id |-> r.id]
           r1 == [r EXCEPT !.server = s, !.mode = "udp", !.timer = TRUE, !.made = @ + 1]
           r2 == [r1 EXCEPT !.sentTo = @ \cup {s}]
           there == [net EXCEPT !.open = @ \cup {f}]
           NetType == [open : SUBSET Families, sends : [Families -> Seq(Datagrams)], asked : SUBSET Datagrams]
<1>1. f \in Families /\ d \in Datagrams /\ s \in 0..N
  BY DnsAssumption DEF Families, Datagrams, Records, Servers
<1>2. /\ r1 \in Records /\ r1.st = "pending" /\ r1.sentTo = r.sentTo
      /\ r2 \in Records /\ r2.st = "pending" /\ r2.sentTo = r.sentTo \cup {s}
      /\ r2.server = s /\ r2.timer = TRUE
  <2>1. r1 \in Records /\ r1.st = "pending" /\ r1.sentTo = r.sentTo /\ r1.server = s /\ r1.timer = TRUE
    <3>1. r.made + 1 \in Nat
      BY DEF Records
    <3> QED
      BY <1>1, <3>1 DEF Records
  <2> HIDE DEF r1
  <2>2. r.sentTo \cup {s} \in SUBSET Servers
    BY DEF Records
  <2> QED
    BY <2>1, <2>2 DEF Records
<1>3. net \in NetType /\ there \in NetType /\ there.open = net.open \cup {f} /\ there.sends = net.sends
      /\ there.asked = net.asked
  BY <1>1 DEF IInv, TypeOK
<1>4. upsets' \in 0..MaxUpsets
  BY UpsetType DEF Send, IInv
<1>9. \/ q' = [q EXCEPT ![k] = Failing(r1)] /\ failures' = Failed(fl, s) /\ UNCHANGED net
      \/ q' = [q EXCEPT ![k] = r2] /\ failures' = fl /\ net' = [there EXCEPT !.asked = @ \cup {d}]
      \/ q' = [q EXCEPT ![k] = Failing(r2)] /\ failures' = Failed(fl, s) /\ net' = there
      \/ q' = [q EXCEPT ![k] = r2] /\ failures' = fl /\ net' = [there EXCEPT !.sends[f] = Append(@, d)]
  BY DEF Send
<1> HIDE DEF r1, r2, there, d, f, NetType
<1>5. Goes(r2, there.open)
  BY <1>2, <1>3 DEF Goes, f
<1>6. /\ Failing(r1) \in Records /\ Failing(r1).st = "pending" /\ Failing(r1).sentTo = r.sentTo /\ Failing(r1).ticks > 0
      /\ Failing(r2) \in Records /\ Failing(r2).st = "pending" /\ Failing(r2).sentTo = r.sentTo \cup {s} /\ Failing(r2).ticks > 0
      /\ Failed(fl, s) \in [Servers -> Nat]
  BY <1>2, FailingType, FailedType
<1>7. ASSUME NEW o PROVE Goes(Failing(r1), o) /\ Goes(Failing(r2), o)
  BY <1>6 DEF Goes
<1>8. \A g \in there.open \ net.open : r2.st = "pending" /\ \E t \in r2.sentTo : Family[t] = g
  BY <1>2, <1>3 DEF f
<1>a. CASE q' = [q EXCEPT ![k] = Failing(r1)] /\ failures' = Failed(fl, s) /\ UNCHANGED net
  <2>1. net' = net
    BY <1>a
  <2>2. \A g \in net'.open \ net.open : Failing(r1).st = "pending" /\ \E t \in Failing(r1).sentTo : Family[t] = g
    BY <2>1
  <2>3. net'.open \in SUBSET Families /\ net.open \subseteq net'.open
    BY <2>1, <1>3 DEF NetType
  <2>6. q[k].st = "pending" => Failing(r1).st = "pending" /\ q[k].sentTo \subseteq Failing(r1).sentTo
    BY <1>6
  <2>4. failures' \in [Servers -> Nat]
    BY <1>a, <1>6
  <2>5. /\ q' \in [Queries -> Records]
        /\ \A p \in Queries : Goes(q'[p], net'.open)
        /\ Needed(q', net'.open)
    BY <1>a, <2>2, <2>3, <2>6, <1>6, <1>7, OneChanges
  <2> QED
    BY <2>1, <2>4, <2>5, <1>3, <1>4 DEF NetType
<1>b. CASE q' = [q EXCEPT ![k] = r2] /\ failures' = fl /\ net' = [there EXCEPT !.asked = @ \cup {d}]
  <2>1. net' \in NetType /\ net'.open = there.open
    BY <1>b, <1>1, <1>3 DEF NetType
  <2>2. net'.open \in SUBSET Families /\ net.open \subseteq net'.open
    BY <2>1, <1>3 DEF NetType
  <2>3. Goes(r2, net'.open) /\ \A g \in net'.open \ net.open : r2.st = "pending" /\ \E t \in r2.sentTo : Family[t] = g
    BY <2>1, <1>5, <1>8
  <2>6. q[k].st = "pending" => r2.st = "pending" /\ q[k].sentTo \subseteq r2.sentTo
    BY <1>2
  <2>4. failures' \in [Servers -> Nat]
    BY <1>b, <1>6
  <2>5. /\ q' \in [Queries -> Records]
        /\ \A p \in Queries : Goes(q'[p], net'.open)
        /\ Needed(q', net'.open)
    BY <1>b, <2>2, <2>3, <2>6, <1>2, OneChanges
  <2> QED
    BY <2>1, <2>4, <2>5, <1>3, <1>4 DEF NetType
<1>c. CASE q' = [q EXCEPT ![k] = Failing(r2)] /\ failures' = Failed(fl, s) /\ net' = there
  <2>1. net'.open = net.open \cup {f} /\ net' \in NetType
    BY <1>c, <1>3
  <2>2. \A g \in net'.open \ net.open : Failing(r2).st = "pending" /\ \E t \in Failing(r2).sentTo : Family[t] = g
    BY <2>1, <1>6 DEF f
  <2>3. net'.open \in SUBSET Families /\ net.open \subseteq net'.open
    BY <2>1 DEF NetType
  <2>6. q[k].st = "pending" => Failing(r2).st = "pending" /\ q[k].sentTo \subseteq Failing(r2).sentTo
    BY <1>6
  <2>4. failures' \in [Servers -> Nat]
    BY <1>c, <1>6
  <2>5. /\ q' \in [Queries -> Records]
        /\ \A p \in Queries : Goes(q'[p], net'.open)
        /\ Needed(q', net'.open)
    BY <1>c, <2>2, <2>3, <2>6, <1>6, <1>7, OneChanges
  <2> QED
    BY <2>1, <2>4, <2>5, <1>3, <1>4 DEF NetType
<1>d. CASE q' = [q EXCEPT ![k] = r2] /\ failures' = fl /\ net' = [there EXCEPT !.sends[f] = Append(@, d)]
  <2>1. net' \in NetType /\ net'.open = there.open
    <3>1. Append(there.sends[f], d) \in Seq(Datagrams)
      BY <1>1, <1>3 DEF NetType
    <3> QED
      BY <1>d, <1>1, <1>3, <3>1 DEF NetType
  <2>2. net'.open \in SUBSET Families /\ net.open \subseteq net'.open
    BY <2>1, <1>3 DEF NetType
  <2>3. Goes(r2, net'.open) /\ \A g \in net'.open \ net.open : r2.st = "pending" /\ \E t \in r2.sentTo : Family[t] = g
    BY <2>1, <1>5, <1>8
  <2>6. q[k].st = "pending" => r2.st = "pending" /\ q[k].sentTo \subseteq r2.sentTo
    BY <1>2
  <2>4. failures' \in [Servers -> Nat]
    BY <1>d, <1>6
  <2>5. /\ q' \in [Queries -> Records]
        /\ \A p \in Queries : Goes(q'[p], net'.open)
        /\ Needed(q', net'.open)
    BY <1>d, <2>2, <2>3, <2>6, <1>2, OneChanges
  <2> QED
    BY <2>1, <2>4, <2>5, <1>3, <1>4 DEF NetType
<1> QED
  BY <1>9, <1>a, <1>b, <1>c, <1>d DEF NetType

LEMMA AttemptKeeps ==
  ASSUME IInv, NEW k \in Queries, NEW r \in Records, NEW fl \in [Servers -> Nat],
         r.st = "pending", q[k].st = "pending", r.sentTo = q[k].sentTo, Attempt(k, r, fl),
         turn' \in {"none", "write", "read"}
  PROVE  IInv'
<1>1. CASE \E s \in Servers : Send(k, s, r, fl)
  <2>1. PICK s \in Servers : Send(k, s, r, fl)
    BY <1>1
  <2> QED
    BY <2>1, SendKeeps DEF IInv, TypeOK
<1>2. CASE /\ Finish(k, r, IF r.error = "none" THEN "ETIMEOUT" ELSE r.error)
           /\ failures' = fl
           /\ UNCHANGED upsets
  <2>1. (IF r.error = "none" THEN "ETIMEOUT" ELSE r.error) \in Results \ {"none"}
    BY DEF Records, Results, Codes
  <2>2. Pending(k)
    BY DEF Pending
  <2>3. upsets' \in 0..MaxUpsets
    BY <1>2 DEF IInv, TypeOK
  <2> QED
    BY <1>2, <2>1, <2>2, <2>3, FinishKeeps DEF IInv, TypeOK
<1> QED
  BY <1>1, <1>2 DEF Attempt

------------------------------------------------------------------------------
(* The program, the microtasks and the timers.                             *)

LEMMA InitHolds == Init => IInv
<1> SUFFICES ASSUME Init PROVE IInv
  OBVIOUS
<1>1. NewQuery \in Records
  BY DnsAssumption DEF NewQuery, Records, Results
<1>2. q \in [Queries -> Records] /\ failures \in [Servers -> Nat]
  BY <1>1 DEF Init
<1>3. net \in [open : SUBSET Families, sends : [Families -> Seq(Datagrams)], asked : SUBSET Datagrams]
  BY DEF Init
<1>4. TypeOK
  BY <1>2, <1>3, DnsAssumption DEF Init, TypeOK
<1>5. \A k \in Queries : q[k].st # "pending" /\ q[k].tcp = 0
  BY DEF Init, NewQuery
<1> QED
  BY <1>4, <1>5 DEF IInv, Goes, Needed, Init

LEMMA QueryKeeps == ASSUME IInv, Query PROVE IInv'
<1>1. PICK k \in Queries, id \in Ids :
        /\ q[k].st = "idle"
        /\ q' = [q EXCEPT ![k] = [NewQuery EXCEPT !.st = "pending", !.id = id, !.ticks = 1]]
        /\ UNCHANGED <<failures, net, turn, upsets>>
  BY DEF Query
<1> DEFINE r == [NewQuery EXCEPT !.st = "pending", !.id = id, !.ticks = 1]
<1>2. NewQuery \in Records /\ NewQuery.mode = "none"
  BY DnsAssumption DEF NewQuery, Records, Results
<1>3. r \in Records /\ r.st = "pending" /\ r.ticks = 1
  BY <1>2 DEF Records
<1>4. q' = [q EXCEPT ![k] = r] /\ net' = net
  BY <1>1
<1> HIDE DEF r
<1>5. Goes(r, net'.open)
  BY <1>3 DEF Goes
<1>6. net'.open \in SUBSET Families
  BY <1>4 DEF IInv, TypeOK
<1>7. /\ q' \in [Queries -> Records]
      /\ \A p \in Queries : Goes(q'[p], net'.open)
      /\ Needed(q', net'.open)
  BY <1>1, <1>3, <1>4, <1>5, <1>6, OneChanges
<1> QED
  BY <1>1, <1>7 DEF IInv, TypeOK

\* Microtasks that find the query over, and cancel(), change neither what a query waits for
\* nor what it was sent through.
LEMMA CancelKeeps == ASSUME IInv, Cancel PROVE IInv'
<1>1. /\ q' = [k \in Queries |-> IF Pending(k) THEN [q[k] EXCEPT !.cancel = TRUE] ELSE q[k]]
      /\ UNCHANGED <<failures, net, turn>>
  BY DEF Cancel
<1>2. upsets' \in 0..MaxUpsets
  BY UpsetType DEF Cancel, IInv
<1>3. ASSUME NEW k \in Queries
      PROVE  /\ q'[k] \in Records /\ q'[k].st = q[k].st /\ q'[k].sentTo = q[k].sentTo
             /\ Goes(q'[k], net.open)
  <2>1. q[k] \in Records /\ Goes(q[k], net.open)
    BY DEF IInv, TypeOK
  <2>2. CASE Pending(k)
    <3>1. q'[k] = [q[k] EXCEPT !.cancel = TRUE]
      BY <1>1, <2>2
    <3>2. /\ q'[k] \in Records /\ q'[k].st = q[k].st /\ q'[k].sentTo = q[k].sentTo
          /\ q'[k].timer = q[k].timer /\ q'[k].tcp = q[k].tcp /\ q'[k].ticks = q[k].ticks
          /\ q'[k].mode = q[k].mode /\ q'[k].server = q[k].server
      BY <3>1, <2>1 DEF Records
    <3> QED
      BY <3>2, <2>1 DEF Goes
  <2>3. CASE ~Pending(k)
    BY <1>1, <2>1, <2>3
  <2> QED
    BY <2>2, <2>3
<1>4. q' \in [Queries -> Records]
  BY <1>1, <1>3
<1>5. Needed(q', net.open)
  BY <1>3 DEF IInv, Needed
<1>6. TypeOK'
  BY <1>1, <1>2, <1>4 DEF IInv, TypeOK
<1> QED
  BY <1>1, <1>3, <1>5, <1>6 DEF IInv

\* A query that is not pending changes, and is still not pending.
LEMMA OverChanges ==
  ASSUME IInv, NEW k \in Queries, ~Pending(k), NEW r \in Records, q' = [q EXCEPT ![k] = r],
         r.st = q[k].st, r.tcp = q[k].tcp, UNCHANGED <<failures, net, upsets>>, turn' = "none"
  PROVE  IInv'
<1>1. Goes(r, net'.open) /\ q[k].st # "pending"
  BY DEF Goes, Pending, IInv
<1>2. net'.open \in SUBSET Families /\ net'.open = net.open
  BY DEF IInv, TypeOK
<1>3. /\ q' \in [Queries -> Records]
      /\ \A p \in Queries : Goes(q'[p], net'.open)
      /\ Needed(q', net'.open)
  BY <1>1, <1>2, OneChanges
<1> QED
  BY <1>3 DEF IInv, TypeOK

LEMMA AttemptTickKeeps == ASSUME IInv, NEW k \in Queries, AttemptTick(k) PROVE IInv'
<1> DEFINE r == [q[k] EXCEPT !.ticks = @ - 1]
<1>1. q[k] \in Records /\ failures \in [Servers -> Nat] /\ q[k].ticks > 0
  BY DEF IInv, TypeOK, AttemptTick
<1>2. q[k].ticks - 1 \in Nat
  BY <1>1 DEF Records
<1>3. r \in Records /\ r.st = q[k].st /\ r.sentTo = q[k].sentTo /\ r.tcp = q[k].tcp
  BY <1>1, <1>2 DEF Records
<1>4. turn' = "none"
  BY DEF AttemptTick
<1>5. CASE Pending(k)
  <2>1. Attempt(k, r, failures)
    BY <1>5 DEF AttemptTick
  <2>2. q[k].st = "pending"
    BY <1>5 DEF Pending
  <2> HIDE DEF r
  <2> QED
    BY <1>1, <1>3, <1>4, <2>1, <2>2, AttemptKeeps
<1>6. CASE ~Pending(k)
  <2>1. q' = [q EXCEPT ![k] = r] /\ UNCHANGED <<failures, net, upsets>>
    BY <1>6 DEF AttemptTick
  <2> HIDE DEF r
  <2> QED
    BY <1>3, <1>4, <1>6, <2>1, OverChanges
<1> QED
  BY <1>5, <1>6

LEMMA CancelTickKeeps == ASSUME IInv, NEW k \in Queries, CancelTick(k) PROVE IInv'
<1> DEFINE r == [q[k] EXCEPT !.cancel = FALSE]
<1>1. q[k] \in Records /\ turn' = "none" /\ UNCHANGED <<failures, upsets>>
  BY DEF IInv, TypeOK, CancelTick
<1>2. r \in Records /\ r.st = q[k].st /\ r.tcp = q[k].tcp
  BY <1>1 DEF Records
<1>3. CASE Pending(k)
  <2>1. Finish(k, r, "ECANCELLED") /\ "ECANCELLED" \in Results \ {"none"}
    BY <1>3 DEF CancelTick, Results
  <2> HIDE DEF r
  <2>2. /\ q' \in [Queries -> Records]
        /\ net' \in [open : SUBSET Families, sends : [Families -> Seq(Datagrams)], asked : SUBSET Datagrams]
        /\ \A p \in Queries : Goes(q'[p], net'.open)
        /\ Needed(q', net'.open)
    BY <1>2, <1>3, <2>1, FinishKeeps
  <2> QED
    BY <1>1, <2>2 DEF IInv, TypeOK
<1>4. CASE ~Pending(k)
  <2>1. q' = [q EXCEPT ![k] = r] /\ UNCHANGED net
    BY <1>4 DEF CancelTick
  <2> HIDE DEF r
  <2> QED
    BY <1>1, <1>2, <1>4, <2>1, OverChanges
<1> QED
  BY <1>3, <1>4

LEMMA TimedOutKeeps == ASSUME IInv, NEW k \in Queries, TimedOut(k) PROVE IInv'
<1> DEFINE r == [q[k] EXCEPT !.timer = FALSE, !.error = "ETIMEOUT", !.tcp = 0, !.attempt = @ + 1]
<1>1. q[k] \in Records /\ failures \in [Servers -> Nat] /\ q[k].st = "pending"
  BY DEF IInv, TypeOK, TimedOut, Pending
<1>2. q[k].attempt + 1 \in Nat /\ "ETIMEOUT" \in Codes \cup {"none"} /\ 0 \in 0..N
  BY <1>1, DnsAssumption DEF Records, Codes
<1>3. r \in Records /\ r.st = "pending" /\ r.sentTo = q[k].sentTo
  BY <1>1, <1>2 DEF Records
<1>4. Failed(failures, q[k].server) \in [Servers -> Nat]
  BY <1>1, FailedType
<1>5. Attempt(k, r, Failed(failures, q[k].server)) /\ turn' \in {"none", "write", "read"}
  BY DEF TimedOut, IInv, TypeOK
<1> HIDE DEF r
<1> QED
  BY <1>1, <1>3, <1>4, <1>5, AttemptKeeps

------------------------------------------------------------------------------
(* The poller's handlers.                                                  *)

LEMMA HandlerType ==
  ASSUME NEW mine \in {"write", "read"}, NEW before, Handler(mine, before)
  PROVE  turn' \in {"none", "write", "read"}
BY DEF Handler

\* A query goes on to its next attempt; nothing is closed.
LEMMA FailingKeeps ==
  ASSUME IInv, NEW k \in Queries, q' = [q EXCEPT ![k] = Failing(q[k])], net'.open = net.open
  PROVE  /\ q' \in [Queries -> Records]
         /\ \A p \in Queries : Goes(q'[p], net'.open)
         /\ Needed(q', net'.open)
<1>1. q[k] \in Records /\ Goes(q[k], net.open) /\ net'.open \in SUBSET Families
  BY DEF IInv, TypeOK
<1>2. /\ Failing(q[k]) \in Records
      /\ Failing(q[k]).st = q[k].st /\ Failing(q[k]).sentTo = q[k].sentTo
      /\ Failing(q[k]).ticks > 0 /\ Failing(q[k]).tcp = 0
  BY <1>1, FailingType
<1>3. Goes(Failing(q[k]), net'.open) /\ 0 = 0
  <2>1. ~(Failing(q[k]).ticks = 0)
    BY <1>2 DEF Records
  <2> QED
    BY <1>2, <2>1 DEF Goes
<1> QED
  BY <1>1, <1>2, <1>3, OneChanges

LEMMA FlushKeeps == ASSUME IInv, NEW f \in Families, Flush(f) PROVE IInv'
<1> DEFINE d == Head(net.sends[f])
           rest == [net EXCEPT !.sends[f] = Tail(@)]
           NetType == [open : SUBSET Families, sends : [Families -> Seq(Datagrams)], asked : SUBSET Datagrams]
<1>1. d \in Datagrams /\ Tail(net.sends[f]) \in Seq(Datagrams)
  <2>1. net.sends[f] \in Seq(Datagrams) /\ net.sends[f] # <<>>
    BY DEF IInv, TypeOK, Flush
  <2> QED
    BY <2>1
<1>2. net \in NetType
  BY DEF IInv, TypeOK
<1>3. rest \in NetType /\ rest.open = net.open /\ rest.asked = net.asked /\ rest.sends = [net.sends EXCEPT ![f] = Tail(@)]
  BY <1>1, <1>2
<1>4. turn' \in {"none", "write", "read"}
  BY HandlerType DEF Flush
<1>5. upsets' \in 0..MaxUpsets
  BY UpsetType DEF Flush, IInv
<1>6. d.k \in Queries
  BY <1>1 DEF Datagrams
<1>7. \/ net' = [rest EXCEPT !.asked = @ \cup {d}] /\ UNCHANGED <<q, failures>>
      \/ net' = rest /\ q' = [q EXCEPT ![d.k] = Failing(q[d.k])] /\ failures' = Failed(failures, d.server)
      \/ net' = rest /\ UNCHANGED <<q, failures>>
  BY DEF Flush
<1> HIDE DEF d, rest, NetType
<1>8. net' \in NetType /\ net'.open = net.open
  <2>1. CASE net' = rest
    BY <2>1, <1>3
  <2>2. CASE net' = [rest EXCEPT !.asked = @ \cup {d}]
    BY <2>2, <1>1, <1>3 DEF NetType
  <2> QED
    BY <1>7, <2>1, <2>2
<1>9. CASE UNCHANGED <<q, failures>>
  BY <1>4, <1>5, <1>8, <1>9 DEF IInv, TypeOK, NetType
<1>10. CASE q' = [q EXCEPT ![d.k] = Failing(q[d.k])] /\ failures' = Failed(failures, d.server)
  <2>1. failures' \in [Servers -> Nat]
    BY <1>10, FailedType DEF IInv, TypeOK
  <2>2. /\ q' \in [Queries -> Records]
        /\ \A p \in Queries : Goes(q'[p], net'.open)
        /\ Needed(q', net'.open)
    BY <1>6, <1>8, <1>10, FailingKeeps
  <2> QED
    BY <1>4, <1>5, <1>8, <2>1, <2>2 DEF IInv, TypeOK, NetType
<1> QED
  BY <1>7, <1>9, <1>10

LEMMA DatagramKeeps == ASSUME IInv, NEW d \in net.asked, Datagram(d) PROVE IInv'
<1>1. PICK k \in Queries :
        /\ Pending(k)
        /\ \/ Finish(k, q[k], "EBADRESP") /\ UNCHANGED failures
           \/ Finish(k, q[k], "answer") /\ failures' = [failures EXCEPT ![d.server] = 0]
           \/ /\ q' = [q EXCEPT ![k].mode = "tcp", ![k].tcp = d.server]
              /\ failures' = [failures EXCEPT ![d.server] = 0]
              /\ UNCHANGED net
        /\ Handler("read", {"write", "read"})
        /\ UNCHANGED upsets
  BY DEF Datagram
<1>2. turn' \in {"none", "write", "read"} /\ upsets' \in 0..MaxUpsets
  BY <1>1, HandlerType DEF IInv, TypeOK
<1>3. failures' \in [Servers -> Nat]
  BY <1>1 DEF IInv, TypeOK
<1>4. q[k] \in Records /\ q[k].st = "pending" /\ Goes(q[k], net.open) /\ net.open \in SUBSET Families
  BY <1>1 DEF IInv, TypeOK, Pending
<1>5. CASE Finish(k, q[k], "EBADRESP") \/ Finish(k, q[k], "answer")
  <2>1. "EBADRESP" \in Results \ {"none"} /\ "answer" \in Results \ {"none"}
    BY DEF Results
  <2>2. /\ q' \in [Queries -> Records]
        /\ net' \in [open : SUBSET Families, sends : [Families -> Seq(Datagrams)], asked : SUBSET Datagrams]
        /\ \A p \in Queries : Goes(q'[p], net'.open)
        /\ Needed(q', net'.open)
    BY <1>1, <1>4, <1>5, <2>1, FinishKeeps
  <2> QED
    BY <1>2, <1>3, <2>2 DEF IInv, TypeOK
<1>6. CASE q' = [q EXCEPT ![k].mode = "tcp", ![k].tcp = d.server] /\ UNCHANGED net
  <2> DEFINE r == [q[k] EXCEPT !.mode = "tcp", !.tcp = d.server]
  <2>1. d.server \in 0..N
    BY DnsAssumption DEF IInv, TypeOK, Datagrams, Servers
  <2>2. /\ r \in Records /\ r.st = "pending" /\ r.sentTo = q[k].sentTo /\ r.mode = "tcp"
        /\ r.timer = q[k].timer /\ r.ticks = q[k].ticks
    BY <1>4, <2>1 DEF Records
  <2>3. q' = [q EXCEPT ![k] = r] /\ net'.open = net.open
    BY <1>6 DEF IInv, TypeOK
  <2> HIDE DEF r
  <2>4. Goes(r, net'.open)
    BY <1>4, <2>2 DEF Goes
  <2>5. /\ q' \in [Queries -> Records]
        /\ \A p \in Queries : Goes(q'[p], net'.open)
        /\ Needed(q', net'.open)
    BY <1>4, <2>2, <2>3, <2>4, OneChanges
  <2> QED
    BY <1>2, <1>3, <1>6, <2>5 DEF IInv, TypeOK
<1> QED
  BY <1>1, <1>5, <1>6

LEMMA TcpDataKeeps == ASSUME IInv, NEW k \in Queries, TcpData(k) PROVE IInv'
<1>1. Pending(k) /\ q[k] \in Records
  BY DEF TcpData, IInv, TypeOK, Goes, Pending
<1>2. turn' \in {"none", "write", "read"} /\ upsets' \in 0..MaxUpsets /\ failures' \in [Servers -> Nat]
  BY HandlerType DEF TcpData, IInv, TypeOK
<1>3. (Finish(k, q[k], "EBADRESP") \/ Finish(k, q[k], "answer"))
      /\ "EBADRESP" \in Results \ {"none"} /\ "answer" \in Results \ {"none"}
  BY DEF TcpData, Results
<1>4. /\ q' \in [Queries -> Records]
      /\ net' \in [open : SUBSET Families, sends : [Families -> Seq(Datagrams)], asked : SUBSET Datagrams]
      /\ \A p \in Queries : Goes(q'[p], net'.open)
      /\ Needed(q', net'.open)
  BY <1>1, <1>3, FinishKeeps
<1> QED
  BY <1>2, <1>4 DEF IInv, TypeOK

LEMMA TcpFailedKeeps == ASSUME IInv, NEW k \in Queries, TcpFailed(k) PROVE IInv'
<1>1. turn' \in {"none", "write", "read"}
  BY HandlerType DEF TcpFailed
<1>2. failures' \in [Servers -> Nat] /\ net' = net
  BY FailedType DEF TcpFailed, IInv, TypeOK
<1>3. upsets' \in 0..MaxUpsets
  BY UpsetType DEF TcpFailed, IInv
<1>4. q' = [q EXCEPT ![k] = Failing(q[k])]
  BY DEF TcpFailed
<1>5. /\ q' \in [Queries -> Records]
      /\ \A p \in Queries : Goes(q'[p], net'.open)
      /\ Needed(q', net'.open)
  BY <1>2, <1>4, FailingKeeps
<1> QED
  BY <1>1, <1>2, <1>3, <1>5 DEF IInv, TypeOK

\* The queries that wait for the socket that is closed are just those that go on.
LEMMA SocketFailedKeeps == ASSUME IInv, NEW f \in Families, SocketFailed(f) PROVE IInv'
<1>1. /\ net' = Closed(net, {f})
      /\ q' = [k \in Queries |-> IF OnSocket(k, f) THEN Failing(q[k]) ELSE q[k]]
  BY DEF SocketFailed
<1>2. net' \in [open : SUBSET Families, sends : [Families -> Seq(Datagrams)], asked : SUBSET Datagrams]
      /\ net'.open = net.open \ {f}
  BY <1>1, ClosedType DEF IInv
<1>3. turn' \in {"none", "write", "read"}
  BY HandlerType DEF SocketFailed
<1>4. upsets' \in 0..MaxUpsets
  BY UpsetType DEF SocketFailed, IInv
<1>5. failures' \in [Servers -> Nat]
  <2>1. ASSUME NEW s \in Servers
        PROVE  failures[s] + Cardinality({k \in Queries : OnSocket(k, f) /\ q[k].server = s}) \in Nat
    <3>1. IsFiniteSet(Queries)
      BY FS_Interval, DnsAssumption DEF Queries
    <3>2. IsFiniteSet({k \in Queries : OnSocket(k, f) /\ q[k].server = s})
      BY <3>1, FS_Subset
    <3>3. Cardinality({k \in Queries : OnSocket(k, f) /\ q[k].server = s}) \in Nat
      BY <3>2, FS_CardinalityType
    <3> QED
      BY <3>3 DEF IInv, TypeOK
  <2> QED
    BY <2>1 DEF SocketFailed
<1>6. ASSUME NEW k \in Queries
      PROVE  /\ q'[k] \in Records /\ q'[k].st = q[k].st /\ q'[k].sentTo = q[k].sentTo
             /\ Goes(q'[k], net'.open)
  <2>1. q[k] \in Records /\ Goes(q[k], net.open)
    BY DEF IInv, TypeOK
  <2>2. CASE OnSocket(k, f)
    <3>1. q'[k] = Failing(q[k]) /\ q[k].st = "pending"
      BY <1>1, <2>2 DEF OnSocket, Pending
    <3>2. /\ Failing(q[k]) \in Records
          /\ Failing(q[k]).st = q[k].st /\ Failing(q[k]).sentTo = q[k].sentTo
          /\ Failing(q[k]).ticks > 0 /\ Failing(q[k]).tcp = 0
      BY <2>1, FailingType
    <3>3. ~(Failing(q[k]).ticks = 0)
      BY <3>2 DEF Records
    <3> QED
      BY <3>1, <3>2, <3>3 DEF Goes
  <2>3. CASE ~OnSocket(k, f)
    <3>1. q'[k] = q[k]
      BY <1>1, <2>3
    <3>2. q[k].server \in q[k].sentTo => q[k].server # 0
      BY <2>1, DnsAssumption DEF Records, Servers
    <3>3. q[k].st = "pending" /\ q[k].mode = "udp" /\ q[k].server \in q[k].sentTo => Family[q[k].server] # f
      BY <2>3, <3>2 DEF OnSocket, Pending
    <3> QED
      BY <1>2, <2>1, <3>1, <3>3 DEF Goes
  <2> QED
    BY <2>2, <2>3
<1>7. q' \in [Queries -> Records]
  BY <1>1, <1>6
<1>8. Needed(q', net'.open)
  BY <1>2, <1>6 DEF IInv, Needed
<1> QED
  BY <1>2, <1>3, <1>4, <1>5, <1>6, <1>7, <1>8 DEF IInv, TypeOK

------------------------------------------------------------------------------
LEMMA StepKeeps == IInv /\ [Next]_vars => IInv'
<1> SUFFICES ASSUME IInv, [Next]_vars PROVE IInv'
  OBVIOUS
<1>1. CASE Query
  BY <1>1, QueryKeeps
<1>2. CASE Cancel
  BY <1>2, CancelKeeps
<1>3. ASSUME NEW k \in Queries, AttemptTick(k) \/ CancelTick(k) \/ TimedOut(k) \/ TcpData(k) \/ TcpFailed(k)
      PROVE  IInv'
  BY <1>3, AttemptTickKeeps, CancelTickKeeps, TimedOutKeeps, TcpDataKeeps, TcpFailedKeeps
<1>4. ASSUME NEW f \in Families, Flush(f) \/ SocketFailed(f)
      PROVE  IInv'
  BY <1>4, FlushKeeps, SocketFailedKeeps
<1>5. ASSUME NEW d \in net.asked, Datagram(d)
      PROVE  IInv'
  BY <1>5, DatagramKeeps
<1>6. CASE UNCHANGED vars
  BY <1>6 DEF vars, IInv, TypeOK
<1> QED
  BY <1>1, <1>2, <1>3, <1>4, <1>5, <1>6 DEF Next

LEMMA AlwaysIInv == Spec => []IInv
BY InitHolds, StepKeeps, PTL DEF Spec

\* The variables keep their types: in particular what waits in a socket is a datagram of a
\* query the channel knows, so that the completion of a send in _flush finds its query.
THEOREM TypeCorrect == Spec => []TypeOK
<1>1. IInv => TypeOK
  BY DEF IInv
<1> QED
  BY <1>1, AlwaysIInv, PTL

\* A pending query has its timer or a microtask that makes the next attempt, after every
\* failure, timeout, cut reply and cancellation: no path through _attempt, _connectionFailed,
\* _timedOut and _response leaves it without either.
THEOREM SomethingIsToCome == Spec => []NobodyWaitsForNothing
<1>1. IInv => NobodyWaitsForNothing
  BY DEF IInv, Goes, NobodyWaitsForNothing, Pending
<1> QED
  BY <1>1, AlwaysIInv, PTL

\* The socket of an address family is open exactly as long as some query needs it: _release
\* leaks none and closes none under a query that waits for its reply.
THEOREM NoSocketTooMany == Spec => []SocketsAreNeeded
<1>1. IInv => SocketsAreNeeded
  <2> SUFFICES ASSUME IInv PROVE SocketsAreNeeded
    OBVIOUS
  <2>1. ASSUME NEW f \in net.open PROVE \E k \in Queries : f \in FamiliesOf(k)
    BY DEF IInv, Needed, FamiliesOf, Pending
  <2>2. ASSUME NEW k \in Queries, Pending(k), q[k].mode = "udp", q[k].ticks = 0
        PROVE  Family[q[k].server] \in net.open
    BY <2>2 DEF IInv, Goes, Pending
  <2> QED
    BY <2>1, <2>2 DEF SocketsAreNeeded
<1> QED
  BY <1>1, AlwaysIInv, PTL

------------------------------------------------------------------------------
(* No failure is counted twice, as long as no query meets two errors of    *)
(* its socket in one turn of the poller.                                   *)

\* A failure counts against an attempt that was made, and against no attempt twice: while the
\* timer runs, the attempt under way is not counted yet.
Tried(r) ==
  /\ r.st = "pending" => r.result = "none" /\ r.attempt <= r.made /\ (r.timer => r.attempt < r.made)
  /\ r.result \in Codes => r.made >= Limit

Counted == \A k \in Queries : Tried(q[k])

LEMMA LimitIsNat == Limit \in Nat
BY DnsAssumption DEF Limit

LEMMA OneTried ==
  ASSUME TypeOK, Counted, NEW k \in Queries, NEW r, q' = [q EXCEPT ![k] = r], Tried(r)
  PROVE  Counted'
BY DEF TypeOK, Counted, Tried

\* A failure while the attempt under way is not counted yet.
LEMMA FailingTried ==
  ASSUME NEW r \in Records, Tried(r), r.st = "pending", r.attempt < r.made
  PROVE  Tried(Failing(r))
<1>1. /\ Failing(r).st = r.st /\ Failing(r).result = r.result /\ Failing(r).made = r.made
      /\ Failing(r).attempt = r.attempt + 1 /\ Failing(r).timer = FALSE
  BY DEF Failing, Records
<1>2. r.attempt \in Nat /\ r.made \in Nat /\ r.result = "none"
  BY DEF Records, Tried
<1>3. "none" \notin Codes
  BY DEF Codes
<1> HIDE DEF Failing
<1> QED
  BY <1>1, <1>2, <1>3 DEF Tried

LEMMA FinishTried ==
  ASSUME TypeOK, Counted, NEW k \in Queries, NEW r \in Records, NEW code \in Results,
         code \in Codes => r.made >= Limit, Finish(k, r, code)
  PROVE  Counted'
<1> DEFINE e == [NewQuery EXCEPT !.st = "finished", !.result = code,
                                 !.made = IF code \in Codes THEN r.made ELSE 0,
                                 !.ticks = r.ticks, !.cancel = r.cancel]
<1>1. e.st = "finished" /\ e.result = code /\ e.made = IF code \in Codes THEN r.made ELSE 0
  BY DEF NewQuery
<1>2. q' = [q EXCEPT ![k] = e]
  BY DEF Finish
<1> HIDE DEF e
<1>3. Tried(e)
  BY <1>1 DEF Tried
<1> QED
  BY <1>2, <1>3, OneTried

\* What the next attempt makes of a query none of whose failures is counted twice.
LEMMA AttemptTried ==
  ASSUME TypeOK, Counted, NEW k \in Queries, NEW r \in Records, NEW fl,
         r.st = "pending", r.result = "none", r.attempt <= r.made, Attempt(k, r, fl)
  PROVE  Counted'
<1>1. "none" \notin Codes /\ r.attempt \in Nat /\ r.made \in Nat
  BY DEF Codes, Records
<1>2. CASE \E s \in Servers : Send(k, s, r, fl)
  <2>1. PICK s \in Servers : Send(k, s, r, fl)
    BY <1>2
  <2> DEFINE r1 == [r EXCEPT !.server = s, !.mode = "udp", !.timer = TRUE, !.made = @ + 1]
             r2 == [r1 EXCEPT !.sentTo = @ \cup {s}]
  <2>2. /\ r1 \in Records /\ r1.st = "pending" /\ r1.result = "none"
        /\ r1.attempt = r.attempt /\ r1.made = r.made + 1
    <3>1. s \in 0..N /\ r.made + 1 \in Nat
      BY <1>1, DnsAssumption DEF Servers
    <3> QED
      BY <3>1 DEF Records
  <2>3. \/ q' = [q EXCEPT ![k] = Failing(r1)]
        \/ q' = [q EXCEPT ![k] = r2]
        \/ q' = [q EXCEPT ![k] = Failing(r2)]
    BY <2>1 DEF Send
  <2> HIDE DEF r1
  <2>4. /\ r2 \in Records /\ r2.st = "pending" /\ r2.result = "none"
        /\ r2.attempt = r.attempt /\ r2.made = r.made + 1
    <3>1. r1.sentTo \cup {s} \in SUBSET Servers
      BY <2>2 DEF Records
    <3> QED
      BY <2>2, <3>1 DEF Records
  <2> HIDE DEF r2
  <2>5. r1.attempt < r1.made /\ Tried(r1) /\ r2.attempt < r2.made /\ Tried(r2)
    BY <1>1, <2>2, <2>4 DEF Tried
  <2>6. Tried(Failing(r1)) /\ Tried(Failing(r2))
    BY <2>2, <2>4, <2>5, FailingTried
  <2> QED
    BY <2>3, <2>5, <2>6, OneTried
<1>3. CASE ~AttemptsLeft(r) /\ Finish(k, r, IF r.error = "none" THEN "ETIMEOUT" ELSE r.error)
  <2>1. (IF r.error = "none" THEN "ETIMEOUT" ELSE r.error) \in Results
    BY DEF Records, Results, Codes
  <2>2. r.made >= Limit
    BY <1>1, <1>3, LimitIsNat DEF AttemptsLeft
  <2> QED
    BY <1>3, <2>1, <2>2, FinishTried
<1> QED
  BY <1>2, <1>3 DEF Attempt

LEMMA TicksTried ==
  ASSUME IInv, Counted, NEW k \in Queries, AttemptTick(k) \/ CancelTick(k) \/ TimedOut(k)
  PROVE  Counted'
<1> DEFINE a == [q[k] EXCEPT !.ticks = @ - 1]
           c == [q[k] EXCEPT !.cancel = FALSE]
           t == [q[k] EXCEPT !.timer = FALSE, !.error = "ETIMEOUT", !.tcp = 0, !.attempt = @ + 1]
<1>1. q[k] \in Records /\ Tried(q[k]) /\ TypeOK
  BY DEF IInv, TypeOK, Counted
<1>2. q[k].attempt \in Nat /\ q[k].made \in Nat /\ q[k].ticks \in Nat
  BY <1>1 DEF Records
<1>3. CASE AttemptTick(k)
  <2>1. q[k].ticks > 0 /\ q[k].ticks - 1 \in Nat
    BY <1>2, <1>3 DEF AttemptTick
  <2>2. /\ a \in Records /\ a.st = q[k].st /\ a.result = q[k].result /\ a.attempt = q[k].attempt
        /\ a.made = q[k].made /\ a.timer = q[k].timer
    BY <1>1, <2>1 DEF Records
  <2>3. IF Pending(k) THEN Attempt(k, a, failures) ELSE q' = [q EXCEPT ![k] = a]
    BY <1>3 DEF AttemptTick
  <2> HIDE DEF a
  <2>4. CASE Pending(k)
    <3>1. a.st = "pending" /\ a.result = "none" /\ a.attempt <= a.made
      BY <1>1, <2>2, <2>4 DEF Pending, Tried
    <3> QED
      BY <1>1, <2>2, <2>3, <2>4, <3>1, AttemptTried
  <2>5. CASE ~Pending(k)
    <3>1. Tried(a)
      BY <1>1, <2>2 DEF Tried
    <3> QED
      BY <1>1, <2>3, <2>5, <3>1, OneTried
  <2> QED
    BY <2>4, <2>5
<1>4. CASE CancelTick(k)
  <2>1. /\ c \in Records /\ c.st = q[k].st /\ c.result = q[k].result /\ c.attempt = q[k].attempt
        /\ c.made = q[k].made /\ c.timer = q[k].timer
    BY <1>1 DEF Records
  <2>2. IF Pending(k) THEN Finish(k, c, "ECANCELLED") ELSE q' = [q EXCEPT ![k] = c]
    BY <1>4 DEF CancelTick
  <2> HIDE DEF c
  <2>3. "ECANCELLED" \in Results /\ "ECANCELLED" \notin Codes
    BY DEF Results, Codes
  <2>4. Tried(c)
    BY <1>1, <2>1 DEF Tried
  <2> QED
    BY <1>1, <2>1, <2>2, <2>3, <2>4, FinishTried, OneTried
<1>5. CASE TimedOut(k)
  <2>1. q[k].st = "pending" /\ q[k].timer
    BY <1>5 DEF TimedOut, Pending
  <2>2. q[k].attempt + 1 \in Nat /\ "ETIMEOUT" \in Codes \cup {"none"} /\ 0 \in 0..N
    BY <1>2, DnsAssumption DEF Codes
  <2>3. /\ t \in Records /\ t.st = q[k].st /\ t.result = q[k].result
        /\ t.attempt = q[k].attempt + 1 /\ t.made = q[k].made
    BY <1>1, <2>2 DEF Records
  <2>4. Attempt(k, t, Failed(failures, q[k].server))
    BY <1>5 DEF TimedOut
  <2> HIDE DEF t
  <2>5. t.st = "pending" /\ t.result = "none" /\ t.attempt <= t.made
    BY <1>1, <1>2, <2>1, <2>3 DEF Tried
  <2> QED
    BY <1>1, <2>3, <2>4, <2>5, AttemptTried
<1> QED
  BY <1>3, <1>4, <1>5

\* A query that waits with no microtask to come has its timer, so its attempt is not counted yet.
LEMMA WaitingTried ==
  ASSUME IInv, Counted, NEW k \in Queries, Pending(k), q[k].ticks = 0
  PROVE  Tried(Failing(q[k]))
<1>1. q[k] \in Records /\ Tried(q[k]) /\ Goes(q[k], net.open) /\ q[k].st = "pending"
  BY DEF IInv, TypeOK, Counted, Pending
<1>2. q[k].timer
  BY <1>1 DEF Goes
<1>3. q[k].attempt < q[k].made
  BY <1>1, <1>2 DEF Tried
<1> QED
  BY <1>1, <1>3, FailingTried

LEMMA HandlersTried ==
  ASSUME Apart, IInv, Counted,
         \/ \E k \in Queries : TcpData(k) \/ TcpFailed(k)
         \/ \E f \in Families : Flush(f) \/ SocketFailed(f)
         \/ \E d \in net.asked : Datagram(d)
  PROVE  Counted'
<1>1. TypeOK /\ \A k \in Queries : q[k] \in Records /\ Tried(q[k])
  BY DEF IInv, TypeOK, Counted
<1>2. {"EBADRESP", "answer"} \subseteq Results /\ "EBADRESP" \notin Codes /\ "answer" \notin Codes
  BY DEF Results, Codes
<1>3. ASSUME NEW k \in Queries, TcpData(k) PROVE Counted'
  <2>1. Finish(k, q[k], "EBADRESP") \/ Finish(k, q[k], "answer")
    BY <1>3 DEF TcpData
  <2> QED
    BY <1>1, <1>2, <2>1, FinishTried
<1>4. ASSUME NEW k \in Queries, TcpFailed(k) PROVE Counted'
  <2>1. Pending(k) /\ q[k].ticks = 0 /\ q' = [q EXCEPT ![k] = Failing(q[k])]
    BY <1>4 DEF TcpFailed, IInv, Goes, Pending
  <2> QED
    BY <1>1, <2>1, WaitingTried, OneTried
<1>5. ASSUME NEW f \in Families, Flush(f) PROVE Counted'
  <2> DEFINE d == Head(net.sends[f])
  <2>1. d \in Datagrams
    <3>1. net.sends[f] \in Seq(Datagrams) /\ net.sends[f] # <<>>
      BY <1>5 DEF IInv, TypeOK, Flush
    <3> QED
      BY <3>1
  <2>2. \/ q' = q
        \/ q[d.k].ticks = 0 /\ Pending(d.k) /\ q' = [q EXCEPT ![d.k] = Failing(q[d.k])]
    BY <1>5 DEF Flush
  <2>3. d.k \in Queries
    BY <2>1 DEF Datagrams
  <2> HIDE DEF d
  <2>4. CASE q' = q
    BY <2>4 DEF Counted
  <2>5. CASE q[d.k].ticks = 0 /\ Pending(d.k) /\ q' = [q EXCEPT ![d.k] = Failing(q[d.k])]
    BY <1>1, <2>3, <2>5, WaitingTried, OneTried
  <2> QED
    BY <2>2, <2>4, <2>5
<1>6. ASSUME NEW f \in Families, SocketFailed(f) PROVE Counted'
  <2>1. q' = [k \in Queries |-> IF OnSocket(k, f) THEN Failing(q[k]) ELSE q[k]]
    BY <1>6 DEF SocketFailed
  <2>2. ASSUME NEW k \in Queries PROVE Tried(q'[k])
    <3>1. CASE OnSocket(k, f)
      <4>1. Pending(k) /\ q[k].ticks = 0
        BY <1>6, <3>1 DEF SocketFailed, OnSocket
      <4> QED
        BY <2>1, <3>1, <4>1, WaitingTried
    <3>2. CASE ~OnSocket(k, f)
      BY <1>1, <2>1, <3>2
    <3> QED
      BY <3>1, <3>2
  <2> QED
    BY <2>2 DEF Counted, Tried
<1>7. ASSUME NEW d \in net.asked, Datagram(d) PROVE Counted'
  <2>1. PICK k \in Queries :
          \/ Finish(k, q[k], "EBADRESP") \/ Finish(k, q[k], "answer")
          \/ q' = [q EXCEPT ![k].mode = "tcp", ![k].tcp = d.server]
    BY <1>7 DEF Datagram
  <2>2. CASE Finish(k, q[k], "EBADRESP") \/ Finish(k, q[k], "answer")
    BY <1>1, <1>2, <2>2, FinishTried
  <2>3. CASE q' = [q EXCEPT ![k].mode = "tcp", ![k].tcp = d.server]
    <3> DEFINE r == [q[k] EXCEPT !.mode = "tcp", !.tcp = d.server]
    <3>1. /\ r.st = q[k].st /\ r.result = q[k].result /\ r.attempt = q[k].attempt
          /\ r.made = q[k].made /\ r.timer = q[k].timer
      BY <1>1 DEF Records
    <3>2. q' = [q EXCEPT ![k] = r]
      BY <1>1, <2>3 DEF TypeOK
    <3> HIDE DEF r
    <3>3. Tried(r)
      BY <1>1, <3>1 DEF Tried
    <3> QED
      BY <1>1, <3>2, <3>3, OneTried
  <2> QED
    BY <2>1, <2>2, <2>3
<1> QED
  BY <1>3, <1>4, <1>5, <1>6, <1>7

LEMMA ProgramTried == ASSUME IInv, Counted, Query \/ Cancel PROVE Counted'
<1>1. TypeOK /\ \A k \in Queries : q[k] \in Records /\ Tried(q[k])
  BY DEF IInv, TypeOK, Counted
<1>2. CASE Query
  <2>1. PICK k \in Queries, id \in Ids :
          q' = [q EXCEPT ![k] = [NewQuery EXCEPT !.st = "pending", !.id = id, !.ticks = 1]]
    BY <1>2 DEF Query
  <2> DEFINE r == [NewQuery EXCEPT !.st = "pending", !.id = id, !.ticks = 1]
  <2>2. Tried(r)
    BY DEF Tried, NewQuery, Codes
  <2> HIDE DEF r
  <2> QED
    BY <1>1, <2>1, <2>2, OneTried DEF r
<1>3. CASE Cancel
  <2>1. q' = [k \in Queries |-> IF Pending(k) THEN [q[k] EXCEPT !.cancel = TRUE] ELSE q[k]]
    BY <1>3 DEF Cancel
  <2>2. ASSUME NEW k \in Queries PROVE Tried(q'[k])
    <3> DEFINE r == [q[k] EXCEPT !.cancel = TRUE]
    <3>1. /\ r.st = q[k].st /\ r.result = q[k].result /\ r.attempt = q[k].attempt
          /\ r.made = q[k].made /\ r.timer = q[k].timer
      BY <1>1 DEF Records
    <3>2. q'[k] = r \/ q'[k] = q[k]
      BY <2>1
    <3> HIDE DEF r
    <3> QED
      BY <1>1, <3>1, <3>2 DEF Tried
  <2> QED
    BY <2>2 DEF Counted, Tried
<1> QED
  BY <1>2, <1>3

\* A query ends with ETIMEOUT or ECONNREFUSED only after all its tries were really made, when no
\* query meets two errors of its socket in one turn of the poller: neither a timer left running,
\* nor a failed send beside a failed connection, counts an attempt twice.
THEOREM NoFailureCountsTwice == ASSUME Apart PROVE Spec => []EveryTryIsMade
<1>1. Init => Counted
  BY DEF Init, Counted, Tried, NewQuery, Codes
<1>2. IInv /\ Counted /\ [Next]_vars => Counted'
  <2> SUFFICES ASSUME IInv, Counted, [Next]_vars PROVE Counted'
    OBVIOUS
  <2>1. CASE UNCHANGED vars
    BY <2>1 DEF vars, Counted
  <2>2. CASE Query \/ Cancel
    BY <2>2, ProgramTried
  <2>3. CASE \E k \in Queries : AttemptTick(k) \/ CancelTick(k) \/ TimedOut(k)
    BY <2>3, TicksTried
  <2>4. CASE \/ \E k \in Queries : TcpData(k) \/ TcpFailed(k)
             \/ \E f \in Families : Flush(f) \/ SocketFailed(f)
             \/ \E d \in net.asked : Datagram(d)
    BY <2>4, HandlersTried
  <2> QED
    BY <2>1, <2>2, <2>3, <2>4 DEF Next
<1>3. Counted => EveryTryIsMade
  BY DEF Counted, Tried, EveryTryIsMade
<1> QED
  BY <1>1, <1>2, <1>3, AlwaysIInv, PTL DEF Spec
=============================================================================
