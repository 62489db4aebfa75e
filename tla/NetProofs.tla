------------------------------ MODULE NetProofs -----------------------------
(***************************************************************************)
(* Theorems about NetServer, for every number of servers, clients and      *)
(* indexes: the types, that no object uses another's entry of the host's   *)
(* table, that the poller does not stop while something is watched, and    *)
(* for programs that use a server once, that 'close' comes last.  Then     *)
(* about NetSocket, for every bound: the types, that no handler is left    *)
(* with the poller, and that a socket is shut down after its last write.   *)
(***************************************************************************)
EXTENDS NetServer, NetSocket, TLAPS, FiniteSetTheorems, WellFoundedInduction

\* What holds of one client.
ClientGoes(c) ==
  /\ id[c] # None <=> phase[c] \in {"handshake", "open"}
  /\ phase[c] \in {"handshake", "open", "destroyed"} => owner[c] \in Servers
  /\ phase[c] = "handshake" => owner[c] \in Tls
  /\ owner[c] # None => phase[c] \notin {"new", "waiting"}

DueGoes ==
  \A e \in due : /\ e.ev = "gone" => e.of \in Conns /\ phase[e.of] = "destroyed"
                 /\ e.ev = "close" => e.of \in Servers /\ srv[e.of].closing

Types ==
  /\ table \in [Handles -> Objects \cup {None}]
  /\ id \in [Objects -> Handles \cup {None}]
  /\ poll \in [watch : [Handles -> Objects \cup {None}], timers : Nat, armed : BOOLEAN]
  /\ at \in [op : {"idle", "pass", "accept"}, ready : SUBSET Handles, who : Servers \cup {None}, heard : BOOLEAN]
  /\ srv \in [Servers -> [listening : BOOLEAN, closing : BOOLEAN, said : BOOLEAN, asked : BOOLEAN, emitted : BOOLEAN]]
  /\ phase \in [Conns -> {"new", "waiting", "handshake", "open", "destroyed", "gone"}]
  /\ home \in [Conns -> Servers \cup {None}] /\ owner \in [Conns -> Servers \cup {None}]
  /\ due \subseteq Events
  /\ at.op = "accept" <=> at.who # None

IInv ==
  /\ Types
  /\ HandlesArePrivate
  /\ \A c \in Conns : ClientGoes(c)
  /\ DueGoes

------------------------------------------------------------------------------
(* The table.                                                              *)

LEMMA LowestIsFree ==
  ASSUME Free # {}
  PROVE  Lowest \in Free
<1>1. Free \subseteq Nat
  BY NetServerAssumption DEF Free, Handles
<1> DEFINE R == OpToRel(<, Nat)
<1>4. IsWellFoundedOn(R, Nat)
  BY NatLessThanWellFounded
<1>2. PICK x \in Free : \A y \in Free : ~(<<y, x>> \in R)
  <2> HIDE DEF R
  <2> QED
    BY <1>1, <1>4, WFMin
<1>5. ASSUME NEW y \in Nat, NEW z \in Nat, y < z PROVE <<y, z>> \in R
  BY <1>5 DEF OpToRel
<1>3. ASSUME NEW y \in Free PROVE x <= y
  <2>1. x \in Nat /\ y \in Nat /\ ~(<<y, x>> \in R)
    BY <1>1, <1>2
  <2> HIDE DEF R
  <2> QED
    BY <2>1, <1>5
<1> QED
  BY <1>2, <1>3 DEF Lowest

LEMMA NoneIsNoHandle == None \notin Handles /\ None \notin Objects /\ Servers \subseteq Objects /\ Conns \subseteq Objects
BY NetServerAssumption DEF Handles, Objects

\* What a socket that is opened and watched changes.
LEMMA OpensKeeps ==
  ASSUME Types, HandlesArePrivate, NEW x \in Objects, id[x] = None, Free # {}, Opens(x, Lowest),
         NEW p, p = poll, poll' = Watch(p, Lowest, x)
  PROVE  /\ HandlesArePrivate'
         /\ table' \in [Handles -> Objects \cup {None}]
         /\ id' \in [Objects -> Handles \cup {None}]
         /\ id'[x] # None /\ \A y \in Objects \ {x} : id'[y] = id[y]
         /\ poll' \in [watch : [Handles -> Objects \cup {None}], timers : Nat, armed : BOOLEAN]
<1> DEFINE h == Lowest
<1>1. h \in Handles /\ table[h] = None
  BY LowestIsFree DEF Free
<1>2. table' = [table EXCEPT ![h] = x] /\ id' = [id EXCEPT ![x] = h]
  BY DEF Opens
<1>3. poll' = [watch |-> [poll.watch EXCEPT ![h] = x],
               timers |-> IF poll.armed THEN poll.timers ELSE poll.timers + 1, armed |-> TRUE]
  BY DEF Watch
<1>4. poll.timers \in Nat /\ poll.timers + 1 \in Nat /\ poll.watch \in [Handles -> Objects \cup {None}]
  BY DEF Types
<1>5. poll' \in [watch : [Handles -> Objects \cup {None}], timers : Nat, armed : BOOLEAN]
      /\ poll'.watch = [poll.watch EXCEPT ![h] = x]
  BY <1>1, <1>3, <1>4
<1> HIDE DEF h
<1>6. /\ table' \in [Handles -> Objects \cup {None}]
      /\ id' \in [Objects -> Handles \cup {None}]
      /\ id'[x] # None /\ \A y \in Objects \ {x} : id'[y] = id[y]
  BY <1>1, <1>2, NoneIsNoHandle DEF Types
<1>7. HandlesArePrivate'
  BY <1>1, <1>2, <1>4, <1>5, <1>6, NoneIsNoHandle DEF HandlesArePrivate, Types
<1> QED
  BY <1>5, <1>6, <1>7

\* What a socket that is closed and no longer watched changes.
LEMMA ClosesKeeps ==
  ASSUME Types, HandlesArePrivate, NEW x \in Objects, id[x] # None, Closes(x), poll' = Unwatch(poll, id[x])
  PROVE  /\ HandlesArePrivate'
         /\ table' \in [Handles -> Objects \cup {None}]
         /\ id' \in [Objects -> Handles \cup {None}]
         /\ id'[x] = None /\ \A y \in Objects \ {x} : id'[y] = id[y]
         /\ poll' \in [watch : [Handles -> Objects \cup {None}], timers : Nat, armed : BOOLEAN]
<1> DEFINE h == id[x]
<1>1. h \in Handles /\ table[h] = x
  BY DEF Types, HandlesArePrivate
<1>2. table' = [table EXCEPT ![h] = None] /\ id' = [id EXCEPT ![x] = None]
  BY DEF Closes
<1>3. poll' = [poll EXCEPT !.watch[h] = None]
  BY DEF Unwatch
<1>4. poll' \in [watch : [Handles -> Objects \cup {None}], timers : Nat, armed : BOOLEAN]
      /\ poll'.watch = [poll.watch EXCEPT ![h] = None]
  BY <1>1, <1>3 DEF Types
<1> HIDE DEF h
<1>5. /\ table' \in [Handles -> Objects \cup {None}]
      /\ id' \in [Objects -> Handles \cup {None}]
      /\ id'[x] = None /\ \A y \in Objects \ {x} : id'[y] = id[y]
  BY <1>1, <1>2 DEF Types
<1>6. HandlesArePrivate'
  <2>1. \A y \in Objects : id'[y] # None => table'[id'[y]] = y
    BY <1>1, <1>2, <1>5 DEF HandlesArePrivate, Types, h
  <2>2. \A g \in Handles : table'[g] # None => id'[table'[g]] = g
    BY <1>1, <1>2, <1>5 DEF HandlesArePrivate, Types, h
  <2>3. \A g \in Handles : poll'.watch[g] # None => poll'.watch[g] = table'[g]
    BY <1>1, <1>2, <1>4 DEF HandlesArePrivate, Types
  <2> QED
    BY <2>1, <2>2, <2>3 DEF HandlesArePrivate
<1> QED
  BY <1>4, <1>5, <1>6

\* A step that touches neither the table nor what is watched.
LEMMA SamePrivate ==
  ASSUME HandlesArePrivate, UNCHANGED <<table, id>>, poll'.watch = poll.watch
  PROVE  HandlesArePrivate'
BY DEF HandlesArePrivate

------------------------------------------------------------------------------
(* The program.                                                            *)

LEMMA InitHolds == Init => IInv
<1> SUFFICES ASSUME Init PROVE IInv
  OBVIOUS
<1>1. Types
  BY DEF Init, Types, Idle, Events
<1>2. HandlesArePrivate
  BY DEF Init, HandlesArePrivate
<1>3. (\A c \in Conns : ClientGoes(c)) /\ DueGoes
  BY NoneIsNoHandle DEF Init, ClientGoes, DueGoes
<1> QED
  BY <1>1, <1>2, <1>3 DEF IInv

LEMMA ListenKeeps == ASSUME IInv, NEW s \in Servers, Listen(s) PROVE IInv'
<1>1. /\ id[s] = None /\ Free # {} /\ Opens(s, Lowest) /\ poll' = Watch(poll, Lowest, s)
      /\ srv' = [srv EXCEPT ![s].listening = TRUE, ![s].emitted = FALSE]
      /\ UNCHANGED <<at, phase, home, owner, due>>
  BY DEF Listen
<1>2. /\ HandlesArePrivate'
      /\ table' \in [Handles -> Objects \cup {None}]
      /\ id' \in [Objects -> Handles \cup {None}]
      /\ \A y \in Objects \ {s} : id'[y] = id[y]
      /\ poll' \in [watch : [Handles -> Objects \cup {None}], timers : Nat, armed : BOOLEAN]
  BY <1>1, OpensKeeps, NoneIsNoHandle DEF IInv
<1>3. srv' \in [Servers -> [listening : BOOLEAN, closing : BOOLEAN, said : BOOLEAN, asked : BOOLEAN, emitted : BOOLEAN]]
      /\ \A x \in Servers : srv'[x].closing = srv[x].closing
  <2> DEFINE sv == [srv[s] EXCEPT !.listening = TRUE, !.emitted = FALSE]
  <2>1. srv[s] \in [listening : BOOLEAN, closing : BOOLEAN, said : BOOLEAN, asked : BOOLEAN, emitted : BOOLEAN]
    BY DEF IInv, Types
  <2>2. /\ sv \in [listening : BOOLEAN, closing : BOOLEAN, said : BOOLEAN, asked : BOOLEAN, emitted : BOOLEAN]
        /\ sv.closing = srv[s].closing
    BY <2>1
  <2>3. srv' = [srv EXCEPT ![s] = sv]
    BY <1>1
  <2> HIDE DEF sv
  <2> QED
    BY <2>2, <2>3 DEF IInv, Types
<1>4. Types'
  BY <1>1, <1>2, <1>3 DEF IInv, Types
<1>5. \A c \in Conns : ClientGoes(c)'
  <2>1. \A c \in Conns : id'[c] = id[c]
    BY <1>2, NetServerAssumption DEF Objects
  <2> QED
    BY <1>1, <2>1 DEF IInv, ClientGoes
<1>6. DueGoes'
  BY <1>1, <1>3 DEF IInv, DueGoes
<1> QED
  BY <1>2, <1>4, <1>5, <1>6 DEF IInv

\* The clients that wait have no index, and are not in what is due.
LEMMA WaitingHaveNone ==
  ASSUME IInv, NEW s, NEW c \in Backlog(s)
  PROVE  c \in Conns /\ phase[c] = "waiting" /\ id[c] = None
BY DEF IInv, ClientGoes, Backlog

LEMMA CloseKeeps == ASSUME IInv, NEW s \in Servers, Close(s) PROVE IInv'
<1> DEFINE sv == [srv[s] EXCEPT !.listening = FALSE, !.closing = TRUE, !.asked = TRUE]
           last == Closed(sv, Connections(s) = {})
<1>1. /\ srv' = [srv EXCEPT ![s] = [sv EXCEPT !.said = @ \/ last]]
      /\ due' = IF last THEN due \cup {Event("close", s)} ELSE due
      /\ UNCHANGED <<at, home, owner>>
  BY DEF Close
<1>2. last \in BOOLEAN
  BY DEF Closed, IInv, Types
<1>3. /\ srv' \in [Servers -> [listening : BOOLEAN, closing : BOOLEAN, said : BOOLEAN, asked : BOOLEAN, emitted : BOOLEAN]]
      /\ srv'[s].closing /\ \A x \in Servers \ {s} : srv'[x] = srv[x]
  <2>1. srv[s] \in [listening : BOOLEAN, closing : BOOLEAN, said : BOOLEAN, asked : BOOLEAN, emitted : BOOLEAN]
    BY DEF IInv, Types
  <2>2. sv \in [listening : BOOLEAN, closing : BOOLEAN, said : BOOLEAN, asked : BOOLEAN, emitted : BOOLEAN] /\ sv.closing = TRUE
    BY <2>1
  <2> HIDE DEF sv, last
  <2>3. [sv EXCEPT !.said = @ \/ last] \in [listening : BOOLEAN, closing : BOOLEAN, said : BOOLEAN, asked : BOOLEAN, emitted : BOOLEAN]
        /\ [sv EXCEPT !.said = @ \/ last].closing = TRUE
    BY <1>2, <2>2
  <2> QED
    BY <1>1, <2>3 DEF IInv, Types
<1>4. due' \subseteq Events /\ (due' = due \/ due' = due \cup {Event("close", s)})
  BY <1>1, NoneIsNoHandle DEF IInv, Types, Events, Event
<1>5. /\ phase' \in [Conns -> {"new", "waiting", "handshake", "open", "destroyed", "gone"}]
      /\ \A c \in Conns : phase'[c] = phase[c] \/ (phase[c] = "waiting" /\ phase'[c] = "gone")
  BY WaitingHaveNone DEF Close, IInv, Types
<1>6. /\ HandlesArePrivate'
      /\ table' \in [Handles -> Objects \cup {None}]
      /\ id' \in [Objects -> Handles \cup {None}]
      /\ \A y \in Objects \ {s} : id'[y] = id[y]
      /\ poll' \in [watch : [Handles -> Objects \cup {None}], timers : Nat, armed : BOOLEAN]
  <2>1. CASE id[s] = None
    BY <2>1, SamePrivate DEF Close, IInv, Types
  <2>2. CASE id[s] # None
    BY <2>2, ClosesKeeps, NoneIsNoHandle DEF Close, IInv
  <2> QED
    BY <2>1, <2>2
<1>7. Types'
  BY <1>1, <1>3, <1>4, <1>5, <1>6 DEF IInv, Types
<1>8. ASSUME NEW c \in Conns PROVE ClientGoes(c)'
  <2>1. id'[c] = id[c] /\ owner'[c] = owner[c]
    BY <1>1, <1>6, NetServerAssumption DEF Objects
  <2> QED
    BY <1>5, <2>1 DEF IInv, ClientGoes
<1>9. DueGoes'
  <2>1. \A c \in Conns : phase[c] = "destroyed" => phase'[c] = "destroyed"
    BY <1>5
  <2>2. \A x \in Servers : srv[x].closing => srv'[x].closing
    BY <1>3
  <2>3. ASSUME NEW e \in due'
        PROVE  /\ e.ev = "gone" => e.of \in Conns /\ phase'[e.of] = "destroyed"
               /\ e.ev = "close" => e.of \in Servers /\ srv'[e.of].closing
    <3>1. CASE e \in due
      BY <2>1, <2>2, <3>1 DEF IInv, DueGoes
    <3>2. CASE e = Event("close", s)
      BY <1>3, <3>2 DEF Event
    <3> QED
      BY <1>4, <3>1, <3>2
  <2> QED
    BY <2>3 DEF DueGoes
<1> QED
  BY <1>6, <1>7, <1>8, <1>9 DEF IInv

\* A connection that leaves what it was for "gone" or "destroyed", and what is due with it.
LEMMA DestroyKeeps == ASSUME IInv, NEW c \in Conns, Destroy(c) PROVE IInv'
<1>1. /\ phase[c] = "open" /\ Closes(c) /\ poll' = Unwatch(poll, id[c])
      /\ phase' = [phase EXCEPT ![c] = "destroyed"]
      /\ due' = due \cup {Event("gone", c)}
      /\ UNCHANGED <<at, srv, home, owner>>
  BY DEF Destroy
<1>2. id[c] # None /\ c \in Objects
  BY <1>1, NoneIsNoHandle DEF IInv, ClientGoes
<1>3. /\ HandlesArePrivate'
      /\ table' \in [Handles -> Objects \cup {None}]
      /\ id' \in [Objects -> Handles \cup {None}]
      /\ id'[c] = None /\ \A y \in Objects \ {c} : id'[y] = id[y]
      /\ poll' \in [watch : [Handles -> Objects \cup {None}], timers : Nat, armed : BOOLEAN]
  BY <1>1, <1>2, ClosesKeeps DEF IInv
<1>4. due' \subseteq Events
  BY <1>1, <1>2 DEF IInv, Types, Events, Event
<1>5. Types'
  BY <1>1, <1>3, <1>4 DEF IInv, Types
<1>6. ASSUME NEW x \in Conns PROVE ClientGoes(x)'
  <2>1. CASE x = c
    BY <1>1, <1>3, <2>1 DEF IInv, ClientGoes, Types
  <2>2. CASE x # c
    BY <1>1, <1>3, <2>2, NoneIsNoHandle DEF IInv, ClientGoes, Types
  <2> QED
    BY <2>1, <2>2
<1>7. DueGoes'
  <2>1. \A x \in Conns : phase[x] = "destroyed" => phase'[x] = "destroyed"
    BY <1>1 DEF IInv, Types
  <2>2. phase'[c] = "destroyed" /\ srv' = srv
    BY <1>1 DEF IInv, Types
  <2> QED
    BY <1>1, <2>1, <2>2 DEF IInv, DueGoes, Event
<1> QED
  BY <1>3, <1>5, <1>6, <1>7 DEF IInv

LEMMA CloseAllKeeps == ASSUME IInv, NEW s \in Servers, CloseAllConnections(s) PROVE IInv'
<1> DEFINE all == {c \in Connections(s) : phase[c] = "open"}
<1>1. /\ table' = [h \in Handles |-> IF table[h] \in all THEN None ELSE table[h]]
      /\ id' = [x \in Objects |-> IF x \in all THEN None ELSE id[x]]
      /\ poll' = [poll EXCEPT !.watch = [h \in Handles |-> IF @[h] \in all THEN None ELSE @[h]]]
      /\ phase' = [c \in Conns |-> IF c \in all THEN "destroyed" ELSE phase[c]]
      /\ due' = due \cup {Event("gone", c) : c \in all}
      /\ UNCHANGED <<at, srv, home, owner>>
  BY DEF CloseAllConnections
<1>2. all \subseteq Conns /\ (\A c \in all : phase[c] = "open") /\ None \notin all
  BY NoneIsNoHandle DEF Connections
<1> HIDE DEF all
<1>3. poll' \in [watch : [Handles -> Objects \cup {None}], timers : Nat, armed : BOOLEAN]
      /\ poll'.watch = [h \in Handles |-> IF poll.watch[h] \in all THEN None ELSE poll.watch[h]]
  BY <1>1 DEF IInv, Types
<1>4. HandlesArePrivate'
  <2>1. ASSUME NEW x \in Objects, id'[x] # None PROVE table'[id'[x]] = x
    <3>1. x \notin all /\ id'[x] = id[x] /\ id[x] \in Handles /\ table[id[x]] = x
      BY <1>1, <2>1 DEF IInv, Types, HandlesArePrivate
    <3> QED
      BY <1>1, <3>1
  <2>2. ASSUME NEW h \in Handles, table'[h] # None PROVE id'[table'[h]] = h
    <3>1. table[h] \notin all /\ table'[h] = table[h] /\ table[h] \in Objects /\ id[table[h]] = h
      BY <1>1, <2>2 DEF IInv, Types, HandlesArePrivate
    <3> QED
      BY <1>1, <3>1
  <2>3. ASSUME NEW h \in Handles, poll'.watch[h] # None PROVE poll'.watch[h] = table'[h]
    <3>1. poll.watch[h] \notin all /\ poll'.watch[h] = poll.watch[h] /\ poll.watch[h] = table[h]
      BY <1>3, <2>3 DEF IInv, HandlesArePrivate
    <3> QED
      BY <1>1, <3>1
  <2> QED
    BY <2>1, <2>2, <2>3 DEF HandlesArePrivate
<1>5. due' \subseteq Events
  BY <1>1, <1>2, NoneIsNoHandle DEF IInv, Types, Events, Event
<1>6. Types'
  BY <1>1, <1>3, <1>5 DEF IInv, Types
<1>7. ASSUME NEW x \in Conns PROVE ClientGoes(x)'
  <2>1. CASE x \in all
    BY <1>1, <1>2, <2>1, NoneIsNoHandle DEF IInv, ClientGoes
  <2>2. CASE x \notin all
    BY <1>1, <2>2, NoneIsNoHandle DEF IInv, ClientGoes
  <2> QED
    BY <2>1, <2>2
<1>8. DueGoes'
  <2>1. \A x \in Conns : phase[x] = "destroyed" \/ x \in all => phase'[x] = "destroyed"
    BY <1>1
  <2>2. srv' = srv
    BY <1>1
  <2>3. ASSUME NEW e \in due'
        PROVE  /\ e.ev = "gone" => e.of \in Conns /\ phase'[e.of] = "destroyed"
               /\ e.ev = "close" => e.of \in Servers /\ srv'[e.of].closing
    <3>1. CASE e \in due
      BY <2>1, <2>2, <3>1 DEF IInv, DueGoes
    <3>2. CASE e \in {Event("gone", c) : c \in all}
      BY <1>2, <2>1, <3>2 DEF Event
    <3> QED
      BY <1>1, <3>1, <3>2
  <2> QED
    BY <2>3 DEF DueGoes
<1> QED
  BY <1>4, <1>6, <1>7, <1>8 DEF IInv

LEMMA ConnectKeeps == ASSUME IInv, NEW c \in Conns, NEW s \in Servers, Connect(c, s) PROVE IInv'
<1>1. /\ phase[c] = "new"
      /\ phase' = [phase EXCEPT ![c] = "waiting"]
      /\ home' = [home EXCEPT ![c] = s]
      /\ UNCHANGED <<table, id, poll, at, srv, owner, due>>
  BY DEF Connect
<1>2. Types'
  BY <1>1 DEF IInv, Types
<1>3. HandlesArePrivate'
  BY <1>1, SamePrivate DEF IInv
<1>4. \A x \in Conns : ClientGoes(x)'
  BY <1>1 DEF IInv, ClientGoes, Types
<1>5. DueGoes'
  BY <1>1 DEF IInv, DueGoes, Types
<1> QED
  BY <1>2, <1>3, <1>4, <1>5 DEF IInv

------------------------------------------------------------------------------
(* The poller and the loop of _accept.                                     *)

\* A step that changes where the thread is, and nothing that it serves.
LEMMA AtKeeps ==
  ASSUME IInv, UNCHANGED <<table, id, srv, phase, home, owner, due>>,
         poll' \in [watch : [Handles -> Objects \cup {None}], timers : Nat, armed : BOOLEAN],
         poll'.watch = poll.watch,
         at' \in [op : {"idle", "pass", "accept"}, ready : SUBSET Handles, who : Servers \cup {None}, heard : BOOLEAN],
         at'.op = "accept" <=> at'.who # None
  PROVE  IInv'
<1>1. Types'
  BY DEF IInv, Types
<1>2. HandlesArePrivate'
  BY SamePrivate DEF IInv
<1>3. (\A c \in Conns : ClientGoes(c)') /\ DueGoes'
  BY DEF IInv, ClientGoes, DueGoes
<1> QED
  BY <1>1, <1>2, <1>3 DEF IInv

LEMMA PollTickKeeps == ASSUME IInv, PollTick PROVE IInv'
<1>1. /\ at = Idle /\ poll.timers > 0
      /\ poll' = [poll EXCEPT !.timers = @ - 1, !.armed = FALSE]
      /\ UNCHANGED <<table, id, srv, phase, home, owner, due>>
  BY DEF PollTick
<1>2. poll' \in [watch : [Handles -> Objects \cup {None}], timers : Nat, armed : BOOLEAN] /\ poll'.watch = poll.watch
  <2>1. poll.timers - 1 \in Nat
    BY <1>1 DEF IInv, Types
  <2> QED
    BY <1>1, <2>1 DEF IInv, Types
<1>3. /\ at' \in [op : {"idle", "pass", "accept"}, ready : SUBSET Handles, who : Servers \cup {None}, heard : BOOLEAN]
      /\ at'.op = "accept" <=> at'.who # None
  <2>1. CASE UNCHANGED at
    BY <2>1 DEF IInv, Types
  <2>2. CASE \E some \in SUBSET Unfinished : at' = [at EXCEPT !.op = "pass", !.ready = Ready \cup some]
    BY <1>1, <2>2 DEF Unfinished, Ready, Idle
  <2> QED
    BY <2>1, <2>2 DEF PollTick
<1> QED
  BY <1>1, <1>2, <1>3, AtKeeps

LEMMA ServeServerKeeps == ASSUME IInv, NEW h \in Handles, ServeServer(h) PROVE IInv'
<1>1. /\ UNCHANGED <<table, id, poll, srv, phase, home, owner, due>> /\ at.op = "pass"
      /\ at' = IF poll.watch[h] \in Servers
                 THEN [at EXCEPT !.op = "accept", !.ready = @ \ {h}, !.who = poll.watch[h]]
                 ELSE [at EXCEPT !.ready = @ \ {h}]
  BY DEF ServeServer
<1>2. /\ at' \in [op : {"idle", "pass", "accept"}, ready : SUBSET Handles, who : Servers \cup {None}, heard : BOOLEAN]
      /\ at'.op = "accept" <=> at'.who # None
  BY <1>1, NoneIsNoHandle DEF IInv, Types
<1> QED
  BY <1>1, <1>2, AtKeeps DEF IInv, Types

LEMMA ReturnKeeps == ASSUME IInv, PassEnds \/ ListenerReturns \/ AcceptNobody \/ AcceptFails PROVE IInv'
<1>1. UNCHANGED <<table, id, srv, phase, home, owner, due>>
  BY DEF PassEnds, ListenerReturns, AcceptNobody, AcceptFails
<1>2. /\ at' \in [op : {"idle", "pass", "accept"}, ready : SUBSET Handles, who : Servers \cup {None}, heard : BOOLEAN]
      /\ at'.op = "accept" <=> at'.who # None
  <2>1. CASE PassEnds
    BY <2>1 DEF PassEnds, Idle
  <2>2. CASE ListenerReturns
    BY <2>2 DEF ListenerReturns, IInv, Types
  <2>3. CASE AcceptNobody
    BY <2>3 DEF AcceptNobody, IInv, Types
  <2>4. CASE AcceptFails
    BY <2>4 DEF AcceptFails, IInv, Types
  <2> QED
    BY <2>1, <2>2, <2>3, <2>4
<1>3. poll' \in [watch : [Handles -> Objects \cup {None}], timers : Nat, armed : BOOLEAN] /\ poll'.watch = poll.watch
  <2>1. poll.timers + 1 \in Nat
    BY DEF IInv, Types
  <2> QED
    BY <2>1 DEF PassEnds, ListenerReturns, AcceptNobody, AcceptFails, IInv, Types
<1> QED
  BY <1>1, <1>2, <1>3, AtKeeps

\* One client changes its phase and its owner, in keeping with its index; nothing is due.
LEMMA ClientKeeps ==
  ASSUME IInv, NEW c \in Conns, UNCHANGED <<srv, home, due>>,
         phase[c] \in {"waiting", "handshake"}, NEW ph \in {"handshake", "open", "gone"},
         phase' = [phase EXCEPT ![c] = ph],
         owner' \in [Conns -> Servers \cup {None}], \A x \in Conns \ {c} : owner'[x] = owner[x],
         ph \in {"handshake", "open"} => owner'[c] \in Servers,
         ph = "handshake" => owner'[c] \in Tls,
         table' \in [Handles -> Objects \cup {None}], id' \in [Objects -> Handles \cup {None}],
         id'[c] # None <=> ph \in {"handshake", "open"},
         \A x \in Objects \ {c} : id'[x] = id[x],
         poll' \in [watch : [Handles -> Objects \cup {None}], timers : Nat, armed : BOOLEAN],
         at' \in [op : {"idle", "pass", "accept"}, ready : SUBSET Handles, who : Servers \cup {None}, heard : BOOLEAN],
         at'.op = "accept" <=> at'.who # None,
         HandlesArePrivate'
  PROVE  IInv'
<1>1. phase' \in [Conns -> {"new", "waiting", "handshake", "open", "destroyed", "gone"}]
      /\ phase'[c] = ph /\ \A x \in Conns \ {c} : phase'[x] = phase[x]
  BY DEF IInv, Types
<1>2. Types'
  BY <1>1 DEF IInv, Types
<1>3. ASSUME NEW x \in Conns PROVE ClientGoes(x)'
  <2>1. CASE x = c
    BY <1>1, <2>1 DEF ClientGoes
  <2>2. CASE x # c
    BY <1>1, <2>2, NoneIsNoHandle DEF IInv, ClientGoes
  <2> QED
    BY <2>1, <2>2
<1>4. DueGoes'
  BY <1>1 DEF IInv, DueGoes
<1> QED
  BY <1>2, <1>3, <1>4 DEF IInv

LEMMA HandshakeKeeps == ASSUME IInv, NEW h \in Handles, ServeHandshake(h) PROVE IInv'
<1> DEFINE c == poll.watch[h]
<1>1. c \in Conns /\ phase[c] = "handshake" /\ table[h] = c /\ id[c] = h /\ h # None /\ c # None /\ c \in Objects
  BY NoneIsNoHandle DEF ServeHandshake, Shaking, IInv, HandlesArePrivate
<1>2. UNCHANGED <<srv, home, owner, due>> /\ at.op = "pass" /\ owner[c] \in Servers
  BY <1>1 DEF ServeHandshake, IInv, ClientGoes
<1>3. CASE at' = [at EXCEPT !.ready = @ \ {h}] /\ UNCHANGED <<table, id, poll, phase>>
  <2>1. /\ at' \in [op : {"idle", "pass", "accept"}, ready : SUBSET Handles, who : Servers \cup {None}, heard : BOOLEAN]
        /\ at'.op = "accept" <=> at'.who # None
    BY <1>3 DEF IInv, Types
  <2> QED
    BY <1>2, <1>3, <2>1, AtKeeps DEF IInv, Types
<1>4. ASSUME at' = [at EXCEPT !.ready = @ \ {h}, !.heard = TRUE]
      PROVE  /\ at' \in [op : {"idle", "pass", "accept"}, ready : SUBSET Handles, who : Servers \cup {None}, heard : BOOLEAN]
             /\ at'.op = "accept" <=> at'.who # None
  BY <1>4 DEF IInv, Types
<1>5. CASE /\ at' = [at EXCEPT !.ready = @ \ {h}, !.heard = TRUE]
           /\ phase' = [phase EXCEPT ![c] = "open"]
           /\ poll' = Watch(Unwatch(poll, h), h, c)
           /\ UNCHANGED <<table, id>>
  <2>1. poll' = [watch |-> [[poll.watch EXCEPT ![h] = None] EXCEPT ![h] = c],
                 timers |-> IF poll.armed THEN poll.timers ELSE poll.timers + 1, armed |-> TRUE]
    BY <1>5 DEF Watch, Unwatch, IInv, Types
  <2>2. poll.timers \in Nat /\ poll.timers + 1 \in Nat /\ poll.watch \in [Handles -> Objects \cup {None}]
    BY DEF IInv, Types
  <2>3. poll'.watch = poll.watch
    BY <2>1, <2>2
  <2>4. poll' \in [watch : [Handles -> Objects \cup {None}], timers : Nat, armed : BOOLEAN]
    BY <1>1, <2>1, <2>2
  <2>5. HandlesArePrivate'
    BY <1>5, <2>3, SamePrivate DEF IInv
  <2> HIDE DEF c
  <2> QED
    BY <1>1, <1>2, <1>4, <1>5, <2>4, <2>5, ClientKeeps DEF IInv, Types, ClientGoes
<1>6. CASE /\ at' = [at EXCEPT !.ready = @ \ {h}, !.heard = TRUE]
           /\ phase' = [phase EXCEPT ![c] = "gone"]
           /\ Closes(c)
           /\ poll' = Unwatch(poll, h)
  <2> HIDE DEF c
  <2>1. /\ HandlesArePrivate'
        /\ table' \in [Handles -> Objects \cup {None}]
        /\ id' \in [Objects -> Handles \cup {None}]
        /\ id'[c] = None /\ \A y \in Objects \ {c} : id'[y] = id[y]
        /\ poll' \in [watch : [Handles -> Objects \cup {None}], timers : Nat, armed : BOOLEAN]
    BY <1>1, <1>6, ClosesKeeps DEF IInv
  <2> QED
    BY <1>1, <1>2, <1>4, <1>6, <2>1, ClientKeeps DEF IInv, Types
<1> QED
  BY <1>3, <1>5, <1>6 DEF ServeHandshake

LEMMA AcceptKeeps == ASSUME IInv, NEW c \in Conns, Accept(c) PROVE IInv'
<1>1. /\ at.op = "accept" /\ at.who \in Servers /\ Free # {} /\ phase[c] = "waiting" /\ id[c] = None /\ c \in Objects
      /\ UNCHANGED <<srv, home, due>>
  BY WaitingHaveNone, NoneIsNoHandle DEF Accept, IInv, Types
<1>2. ASSUME at' = at \/ \E done \in BOOLEAN : at' = [at EXCEPT !.heard = done]
      PROVE  /\ at' \in [op : {"idle", "pass", "accept"}, ready : SUBSET Handles, who : Servers \cup {None}, heard : BOOLEAN]
             /\ at'.op = "accept" <=> at'.who # None
  BY <1>2 DEF IInv, Types
<1>3. CASE phase' = [phase EXCEPT ![c] = "gone"] /\ UNCHANGED <<table, id, poll, at, owner>>
  <2>1. HandlesArePrivate'
    BY <1>3, SamePrivate DEF IInv
  <2> QED
    BY <1>1, <1>2, <1>3, <2>1, ClientKeeps DEF IInv, Types
<1>4. ASSUME owner' = [owner EXCEPT ![c] = at.who]
      PROVE  /\ owner' \in [Conns -> Servers \cup {None}] /\ owner'[c] = at.who
             /\ \A x \in Conns \ {c} : owner'[x] = owner[x]
  BY <1>1, <1>4 DEF IInv, Types
<1>5. ASSUME owner' = [owner EXCEPT ![c] = at.who],
             Opens(c, Lowest), poll' = Watch(poll, Lowest, c),
             NEW done \in IF at.who \in Tls THEN BOOLEAN ELSE {TRUE},
             phase' = [phase EXCEPT ![c] = IF done THEN "open" ELSE "handshake"],
             at' = [at EXCEPT !.heard = done]
      PROVE  IInv'
  <2>1. /\ HandlesArePrivate'
        /\ table' \in [Handles -> Objects \cup {None}]
        /\ id' \in [Objects -> Handles \cup {None}]
        /\ id'[c] # None /\ \A y \in Objects \ {c} : id'[y] = id[y]
        /\ poll' \in [watch : [Handles -> Objects \cup {None}], timers : Nat, armed : BOOLEAN]
    BY <1>1, <1>5, OpensKeeps DEF IInv
  <2>2. done \in BOOLEAN /\ (~done => at.who \in Tls)
    BY <1>5
  <2>3. (IF done THEN "open" ELSE "handshake") \in {"handshake", "open", "gone"}
    OBVIOUS
  <2> QED
    BY <1>1, <1>2, <1>4, <1>5, <2>1, <2>2, <2>3, ClientKeeps
<1>6. CASE /\ owner' = [owner EXCEPT ![c] = at.who]
           /\ phase' = [phase EXCEPT ![c] = "gone"]
           /\ poll' = Unwatch(Watch(poll, Lowest, c), Lowest)
           /\ at' = [at EXCEPT !.heard = TRUE]
           /\ UNCHANGED <<table, id>>
  <2>1. Lowest \in Handles /\ table[Lowest] = None /\ poll.watch[Lowest] = None
    BY <1>1, LowestIsFree DEF Free, IInv, HandlesArePrivate
  <2>2. poll.timers \in Nat /\ poll.timers + 1 \in Nat /\ poll.watch \in [Handles -> Objects \cup {None}]
    BY DEF IInv, Types
  <2> DEFINE g == Lowest
  <2>3. poll' = [watch |-> [[poll.watch EXCEPT ![g] = c] EXCEPT ![g] = None],
                 timers |-> IF poll.armed THEN poll.timers ELSE poll.timers + 1, armed |-> TRUE]
    BY <1>6 DEF Watch, Unwatch
  <2> HIDE DEF g
  <2>4. poll'.watch = poll.watch
    BY <2>1, <2>2, <2>3 DEF g
  <2>5. poll' \in [watch : [Handles -> Objects \cup {None}], timers : Nat, armed : BOOLEAN]
    BY <2>2, <2>3, <2>4
  <2>6. HandlesArePrivate'
    BY <1>6, <2>4, SamePrivate DEF IInv
  <2> QED
    BY <1>1, <1>2, <1>4, <1>6, <2>5, <2>6, ClientKeeps DEF IInv, Types
<1> QED
  BY <1>3, <1>5, <1>6 DEF Accept

------------------------------------------------------------------------------
(* Ticks.                                                                  *)

LEMMA GoneKeeps == ASSUME IInv, NEW e \in due, ConnectionGone(e) PROVE IInv'
<1> DEFINE c == e.of
           s == owner[c]
           last == Closed(srv[s], Connections(s) = {c})
<1>1. /\ e.ev = "gone" /\ c \in Conns /\ phase[c] = "destroyed" /\ s \in Servers
  BY DEF ConnectionGone, IInv, DueGoes, ClientGoes
<1>2. /\ phase' = [phase EXCEPT ![c] = "gone"]
      /\ srv' = [srv EXCEPT ![s].said = @ \/ last]
      /\ due' = IF last THEN (due \ {e}) \cup {Event("close", s)} ELSE due \ {e}
      /\ UNCHANGED <<table, id, poll, at, home, owner>>
  BY DEF ConnectionGone
<1>3. last \in BOOLEAN /\ (last => srv[s].closing)
  BY <1>1 DEF Closed, IInv, Types
<1>4. s \in Objects
  BY <1>1, NoneIsNoHandle
<1> HIDE DEF c, s, last
<1>5. /\ srv' \in [Servers -> [listening : BOOLEAN, closing : BOOLEAN, said : BOOLEAN, asked : BOOLEAN, emitted : BOOLEAN]]
      /\ \A x \in Servers : srv'[x].closing = srv[x].closing
  <2> DEFINE sv == [srv[s] EXCEPT !.said = @ \/ last]
  <2>1. srv[s] \in [listening : BOOLEAN, closing : BOOLEAN, said : BOOLEAN, asked : BOOLEAN, emitted : BOOLEAN]
    BY <1>1 DEF IInv, Types
  <2>2. /\ sv \in [listening : BOOLEAN, closing : BOOLEAN, said : BOOLEAN, asked : BOOLEAN, emitted : BOOLEAN]
        /\ sv.closing = srv[s].closing
    BY <1>3, <2>1
  <2>3. srv' = [srv EXCEPT ![s] = sv]
    BY <1>2
  <2> HIDE DEF sv
  <2> QED
    BY <1>1, <2>2, <2>3 DEF IInv, Types
<1>6. due' \subseteq (due \ {e}) \cup {Event("close", s)} /\ (Event("close", s) \in due' => Event("close", s) \in due \/ last)
  BY <1>2
<1>7. due' \subseteq Events
  BY <1>4, <1>6 DEF IInv, Types, Events, Event
<1>8. phase' \in [Conns -> {"new", "waiting", "handshake", "open", "destroyed", "gone"}]
      /\ phase'[c] = "gone" /\ \A x \in Conns \ {c} : phase'[x] = phase[x]
  BY <1>1, <1>2 DEF IInv, Types
<1>9. Types'
  BY <1>2, <1>5, <1>7, <1>8 DEF IInv, Types
<1>10. HandlesArePrivate'
  BY <1>2, SamePrivate DEF IInv
<1>11. ASSUME NEW x \in Conns PROVE ClientGoes(x)'
  <2>1. CASE x = c
    BY <1>1, <1>2, <1>8, <2>1 DEF IInv, ClientGoes
  <2>2. CASE x # c
    BY <1>2, <1>8, <2>2 DEF IInv, ClientGoes
  <2> QED
    BY <2>1, <2>2
<1>12. ASSUME NEW d \in due'
       PROVE  /\ d.ev = "gone" => d.of \in Conns /\ phase'[d.of] = "destroyed"
              /\ d.ev = "close" => d.of \in Servers /\ srv'[d.of].closing
  <2>1. CASE d \in due /\ d # e
    <3>1. d.ev = "gone" => d.of # c
      <4>1. d \in Events /\ e \in Events
        BY <2>1 DEF IInv, Types
      <4> QED
        BY <1>1, <2>1, <4>1 DEF Events, c
    <3> QED
      BY <1>5, <1>8, <2>1, <3>1 DEF IInv, DueGoes
  <2>2. CASE d = Event("close", s) /\ last
    BY <1>1, <1>3, <1>5, <2>2 DEF Event
  <2> QED
    BY <1>2, <2>1, <2>2
<1> QED
  BY <1>9, <1>10, <1>11, <1>12 DEF IInv, DueGoes

LEMMA ServerClosedKeeps == ASSUME IInv, NEW e \in due, ServerClosed(e) PROVE IInv'
<1> DEFINE s == e.of
<1>1. s \in Servers
  BY DEF ServerClosed, IInv, DueGoes
<1>2. /\ srv' = [srv EXCEPT ![s].asked = FALSE, ![s].emitted = TRUE]
      /\ due' = due \ {e}
      /\ UNCHANGED <<table, id, poll, at, phase, home, owner>>
  BY DEF ServerClosed
<1> HIDE DEF s
<1>3. /\ srv' \in [Servers -> [listening : BOOLEAN, closing : BOOLEAN, said : BOOLEAN, asked : BOOLEAN, emitted : BOOLEAN]]
      /\ \A x \in Servers : srv'[x].closing = srv[x].closing
  <2> DEFINE sv == [srv[s] EXCEPT !.asked = FALSE, !.emitted = TRUE]
  <2>1. srv[s] \in [listening : BOOLEAN, closing : BOOLEAN, said : BOOLEAN, asked : BOOLEAN, emitted : BOOLEAN]
    BY <1>1 DEF IInv, Types
  <2>2. /\ sv \in [listening : BOOLEAN, closing : BOOLEAN, said : BOOLEAN, asked : BOOLEAN, emitted : BOOLEAN]
        /\ sv.closing = srv[s].closing
    BY <2>1
  <2>3. srv' = [srv EXCEPT ![s] = sv]
    BY <1>2
  <2> HIDE DEF sv
  <2> QED
    BY <1>1, <2>2, <2>3 DEF IInv, Types
<1>4. Types'
  BY <1>2, <1>3 DEF IInv, Types
<1>5. HandlesArePrivate'
  BY <1>2, SamePrivate DEF IInv
<1>6. (\A c \in Conns : ClientGoes(c)') /\ DueGoes'
  BY <1>2, <1>3 DEF IInv, ClientGoes, DueGoes
<1> QED
  BY <1>4, <1>5, <1>6 DEF IInv

------------------------------------------------------------------------------
(* The theorems.                                                           *)

LEMMA StepKeeps == IInv /\ [Next]_vars => IInv'
<1> SUFFICES ASSUME IInv, [Next]_vars PROVE IInv'
  OBVIOUS
<1>1. CASE Program
  BY <1>1, ListenKeeps, CloseKeeps, CloseAllKeeps, DestroyKeeps DEF Program
<1>2. CASE Pass
  BY <1>2, ServeServerKeeps, HandshakeKeeps, ReturnKeeps, AcceptKeeps DEF Pass
<1>3. CASE Ticks
  BY <1>3, GoneKeeps, ServerClosedKeeps DEF Ticks, Tick
<1>4. CASE PollTick
  BY <1>4, PollTickKeeps
<1>5. CASE \E c \in Conns, s \in Servers : Connect(c, s)
  BY <1>5, ConnectKeeps
<1>6. CASE UNCHANGED vars
  BY <1>6 DEF vars, IInv, Types, HandlesArePrivate, ClientGoes, DueGoes
<1> QED
  BY <1>1, <1>2, <1>3, <1>4, <1>5, <1>6 DEF Next

LEMMA AlwaysIInv == Spec => []IInv
BY InitHolds, StepKeeps, PTL DEF Spec

\* The table, the poller's map, the servers and the clients keep their types; what is due for
\* a server is due for one that is closing.
THEOREM TypeCorrect == Spec => []TypeOK
<1>1. IInv => TypeOK
  BY DEF IInv, Types, DueGoes, TypeOK
<1> QED
  BY <1>1, AlwaysIInv, PTL

\* For any table size and whatever listeners do within a pass of the poller: an object uses
\* the entry the host gave it, no entry is left behind, and the handler of an index is that of
\* the socket that is there.
THEOREM HandlesStayPrivate == Spec => []HandlesArePrivate
<1>1. IInv => HandlesArePrivate
  BY DEF IInv
<1> QED
  BY <1>1, AlwaysIInv, PTL

------------------------------------------------------------------------------
(* The poller goes on.                                                     *)

\* pollTimer is one of the timers that are outstanding; the thread is at rest or in a pass.
PollInv ==
  /\ poll.armed => poll.timers > 0
  /\ at.op = "idle" => at = Idle
  /\ PollerRuns

LEMMA PollKeeps == IInv /\ PollInv /\ [Next]_vars => PollInv'
<1> SUFFICES ASSUME IInv, PollInv, [Next]_vars PROVE PollInv'
  OBVIOUS
<1>1. poll.timers \in Nat /\ poll.watch \in [Handles -> Objects \cup {None}] /\ Idle.op = "idle"
  BY DEF IInv, Types, Idle
<1>2. ASSUME NEW p, p.timers \in Nat, p.armed => p.timers > 0, NEW h, NEW x, poll' = Watch(p, h, x),
             at'.op = "idle" => at' = Idle
      PROVE  PollInv'
  <2>1. poll'.timers > 0
    BY <1>2 DEF Watch
  <2> QED
    BY <1>2, <2>1 DEF PollInv, PollerRuns
<1>3. ASSUME poll'.timers = poll.timers, poll'.armed = poll.armed,
             \A h \in Handles : poll'.watch[h] # None => poll.watch[h] # None,
             at' = at \/ at'.op # "idle"
      PROVE  PollInv'
  BY <1>1, <1>3 DEF PollInv, PollerRuns, Watched
<1>4. ASSUME NEW h \in Handles
      PROVE  /\ Unwatch(poll, h).timers = poll.timers /\ Unwatch(poll, h).armed = poll.armed
             /\ \A g \in Handles : Unwatch(poll, h).watch[g] # None => poll.watch[g] # None
  BY <1>1 DEF Unwatch, IInv, Types
<1>5. ASSUME UNCHANGED poll, at' = at \/ at'.op # "idle" PROVE PollInv'
  BY <1>3, <1>5
<1>6. ASSUME NEW s \in Servers, Listen(s) PROVE PollInv'
  BY <1>1, <1>2, <1>6 DEF Listen, PollInv
<1>7. ASSUME NEW s \in Servers, Close(s) PROVE PollInv'
  <2>1. CASE id[s] = None
    BY <1>5, <1>7, <2>1 DEF Close
  <2>2. CASE id[s] # None
    <3>1. id[s] \in Handles
      BY <2>2, NoneIsNoHandle DEF IInv, Types
    <3> QED
      BY <1>3, <1>4, <1>7, <2>2, <3>1 DEF Close
  <2> QED
    BY <2>1, <2>2
<1>8. ASSUME NEW s \in Servers, CloseAllConnections(s) PROVE PollInv'
  BY <1>1, <1>3, <1>8 DEF CloseAllConnections, IInv, Types
<1>9. ASSUME NEW c \in Conns, Destroy(c) PROVE PollInv'
  <2>1. id[c] \in Handles
    BY <1>9, NoneIsNoHandle DEF Destroy, IInv, Types, ClientGoes
  <2> QED
    BY <1>3, <1>4, <1>9, <2>1 DEF Destroy
<1>10. ASSUME NEW h \in Handles, ServeServer(h) PROVE PollInv'
  BY <1>5, <1>10 DEF ServeServer, IInv, Types
<1>11. ASSUME NEW h \in Handles, ServeHandshake(h) PROVE PollInv'
  <2>1. at'.op = "pass"
    BY <1>11 DEF ServeHandshake, IInv, Types
  <2>2. CASE UNCHANGED poll
    BY <1>5, <2>1, <2>2
  <2>3. CASE poll' = Unwatch(poll, h)
    BY <1>3, <1>4, <2>1, <2>3
  <2>4. CASE poll' = Watch(Unwatch(poll, h), h, poll.watch[h])
    BY <1>1, <1>2, <1>4, <2>1, <2>4 DEF PollInv
  <2> QED
    BY <1>11, <2>2, <2>3, <2>4 DEF ServeHandshake
<1>12. CASE PassEnds
  <2>1. CASE Watched = {}
    BY <1>1, <1>12, <2>1 DEF PassEnds, PollInv, PollerRuns, Watched
  <2>2. CASE Watched # {}
    <3>1. poll' = [poll EXCEPT !.timers = @ + 1, !.armed = TRUE] /\ at' = Idle
      BY <1>12, <2>2 DEF PassEnds
    <3>2. poll'.timers > 0
      BY <1>1, <3>1 DEF IInv, Types
    <3> QED
      BY <3>1, <3>2 DEF PollInv, PollerRuns
  <2> QED
    BY <2>1, <2>2
<1>13. CASE ListenerReturns
  BY <1>5, <1>13 DEF ListenerReturns, IInv, Types, PollInv, Idle
<1>14. CASE AcceptNobody \/ AcceptFails
  BY <1>5, <1>14 DEF AcceptNobody, AcceptFails, IInv, Types
<1>15. ASSUME NEW c \in Conns, Accept(c) PROVE PollInv'
  <2>1. at'.op = "accept"
    BY <1>15 DEF Accept, IInv, Types
  <2>2. CASE UNCHANGED poll
    BY <1>5, <2>1, <2>2
  <2>3. CASE poll' = Watch(poll, Lowest, c)
    BY <1>1, <1>2, <2>1, <2>3 DEF PollInv
  <2>4. CASE poll' = Unwatch(Watch(poll, Lowest, c), Lowest)
    <3>1. poll'.timers > 0
      <4>1. Watch(poll, Lowest, c).timers > 0
        BY <1>1 DEF Watch, PollInv
      <4> QED
        BY <2>4, <4>1 DEF Unwatch, Watch
    <3> QED
      BY <2>1, <3>1 DEF PollInv, PollerRuns
  <2> QED
    BY <1>15, <2>2, <2>3, <2>4 DEF Accept
<1>16. CASE Ticks
  BY <1>5, <1>16 DEF Ticks, Tick, ConnectionGone, ServerClosed
<1>17. CASE PollTick
  <2>1. poll' = [poll EXCEPT !.timers = @ - 1, !.armed = FALSE] /\ at = Idle
    BY <1>17 DEF PollTick
  <2>2. poll'.armed = FALSE /\ poll'.watch = poll.watch
    BY <2>1 DEF IInv, Types
  <2>3. CASE Watched = {}
    BY <1>17, <2>1, <2>2, <2>3 DEF PollTick, PollInv, PollerRuns, Watched
  <2>4. CASE Watched # {}
    <3>1. at'.op = "pass"
      BY <1>17, <2>1, <2>4 DEF PollTick, Idle
    <3> QED
      BY <1>1, <2>2, <3>1 DEF PollInv, PollerRuns
  <2> QED
    BY <2>3, <2>4
<1>18. ASSUME NEW c \in Conns, NEW s \in Servers, Connect(c, s) PROVE PollInv'
  BY <1>5, <1>18 DEF Connect
<1>19. CASE UNCHANGED vars
  BY <1>5, <1>19 DEF vars
<1> QED
  BY <1>6, <1>7, <1>8, <1>9, <1>10, <1>11, <1>12, <1>13, <1>14, <1>15, <1>16, <1>17, <1>18, <1>19 DEF Next, Program, Pass

\* pollTick: whatever its handlers open, close and watch, a timer that runs it again is
\* outstanding whenever the thread is at rest and something is watched.
THEOREM PollerNeverStops == Spec => []PollerRuns
<1>1. Init => PollInv
  BY DEF Init, PollInv, PollerRuns, Watched, Idle
<1>2. PollInv => PollerRuns
  BY DEF PollInv
<1> QED
  BY <1>1, <1>2, AlwaysIInv, PollKeeps, PTL DEF Spec

------------------------------------------------------------------------------
(* Programs that do not close a server whose clients are being accepted.   *)

HomeInv ==
  /\ at.op = "accept" => id[at.who] # None
  /\ ConnectionsStayHome

LEMMA HomeKeeps ==
  ASSUME Careful
  PROVE  IInv /\ HomeInv /\ [Next]_vars => HomeInv'
<1> SUFFICES ASSUME IInv, HomeInv, [Next]_vars PROVE HomeInv'
  OBVIOUS
<1>1. at.who \in Servers => at.who \in Objects /\ at.who \notin Conns
  BY NetServerAssumption DEF Objects
<1>2. at.op = "accept" => at.who \in Servers
  BY DEF IInv, Types
<1>3. ASSUME \A s \in Servers : id[s] # None => id'[s] # None \/ at.who # s,
             at'.op = "accept" => at.op = "accept" /\ at'.who = at.who,
             UNCHANGED <<home, owner>>
      PROVE  HomeInv'
  BY <1>2, <1>3 DEF HomeInv, ConnectionsStayHome
<1>4. ASSUME NEW c \in Objects, \A y \in Objects \ {c} : id'[y] = id[y], id'[c] # None \/ c \in Conns
      PROVE  \A s \in Servers : id[s] # None => id'[s] # None \/ at.who # s
  BY <1>4, NetServerAssumption DEF Objects
<1>5. ASSUME NEW s \in Servers, Listen(s) PROVE HomeInv'
  <2>1. \A y \in Objects \ {s} : id'[y] = id[y]
    BY <1>5 DEF Listen, Opens, IInv, Types
  <2>2. id[s] = None
    BY <1>5 DEF Listen
  <2>3. \A x \in Servers : id[x] # None => id'[x] # None
    BY <2>1, <2>2, NoneIsNoHandle
  <2> QED
    BY <1>3, <1>5, <2>3 DEF Listen
<1>6. ASSUME NEW s \in Servers, Close(s) PROVE HomeInv'
  <2>1. at.who # s
    BY <1>6 DEF Close
  <2>2. \A y \in Objects \ {s} : id'[y] = id[y]
    BY <1>6 DEF Close, Closes, IInv, Types
  <2>3. \A x \in Servers : id[x] # None => id'[x] # None \/ at.who # x
    BY <2>1, <2>2, NoneIsNoHandle
  <2> QED
    BY <1>3, <1>6, <2>3 DEF Close
<1>7. ASSUME NEW s \in Servers, CloseAllConnections(s) PROVE HomeInv'
  <2>1. \A x \in Servers : id'[x] = id[x]
    BY <1>7, NetServerAssumption, NoneIsNoHandle DEF CloseAllConnections, Connections, Objects
  <2> QED
    BY <1>3, <1>7, <2>1 DEF CloseAllConnections
<1>8. ASSUME NEW c \in Conns, Destroy(c) PROVE HomeInv'
  <2>1. \A y \in Objects \ {c} : id'[y] = id[y]
    BY <1>8 DEF Destroy, Closes, IInv, Types
  <2> QED
    BY <1>3, <1>4, <1>8, <2>1, NoneIsNoHandle DEF Destroy
<1>9. ASSUME NEW h \in Handles, ServeServer(h) PROVE HomeInv'
  <2>1. poll.watch[h] \in Servers => id[poll.watch[h]] # None
    BY NoneIsNoHandle DEF IInv, HandlesArePrivate
  <2>2. at'.op = "accept" => at'.who = poll.watch[h] /\ poll.watch[h] \in Servers
    BY <1>9 DEF ServeServer, IInv, Types
  <2> QED
    BY <1>9, <2>1, <2>2 DEF ServeServer, HomeInv, ConnectionsStayHome
<1>10. ASSUME NEW h \in Handles, ServeHandshake(h) PROVE HomeInv'
  <2>1. at'.op = "pass" /\ UNCHANGED <<home, owner>>
    BY <1>10 DEF ServeHandshake, IInv, Types
  <2> QED
    BY <2>1 DEF HomeInv, ConnectionsStayHome
<1>11. CASE PassEnds \/ ListenerReturns \/ AcceptNobody \/ AcceptFails
  <2>1. UNCHANGED <<id, home, owner>>
    BY <1>11 DEF PassEnds, ListenerReturns, AcceptNobody, AcceptFails
  <2>2. at'.op = "accept" => at.op = "accept" /\ at'.who = at.who
    <3>1. CASE PassEnds
      BY <3>1 DEF PassEnds, Idle
    <3>2. CASE ListenerReturns
      BY <3>2 DEF ListenerReturns, IInv, Types
    <3>3. CASE AcceptNobody \/ AcceptFails
      <4>1. at'.op = "pass"
        BY <3>3 DEF AcceptNobody, AcceptFails, IInv, Types
      <4> QED
        BY <4>1
    <3> QED
      BY <1>11, <3>1, <3>2, <3>3
  <2> QED
    BY <1>3, <2>1, <2>2
<1>12. ASSUME NEW c \in Conns, Accept(c) PROVE HomeInv'
  <2>1. at.op = "accept" /\ at.who \in Servers /\ id[at.who] # None /\ at'.op = "accept" /\ at'.who = at.who /\ UNCHANGED home
    BY <1>2, <1>12 DEF Accept, HomeInv, IInv, Types
  <2>2. home[c] = at.who
    <3>1. table[id[at.who]] = at.who
      BY <1>1, <2>1 DEF IInv, HandlesArePrivate
    <3> QED
      BY <1>12, <2>1, <3>1 DEF Accept, Accepting, Backlog
  <2>3. id'[at.who] # None
    <3>1. UNCHANGED id \/ Opens(c, Lowest)
      BY <1>12 DEF Accept
    <3> QED
      BY <1>1, <2>1, <3>1 DEF Opens, IInv, Types
  <2>4. \A x \in Conns : owner'[x] = owner[x] \/ (x = c /\ owner'[x] = at.who)
    BY <1>12 DEF Accept, IInv, Types
  <2>5. ASSUME NEW x \in Conns, owner'[x] # None PROVE owner'[x] = home'[x]
    BY <2>1, <2>2, <2>4, <2>5 DEF HomeInv, ConnectionsStayHome
  <2> QED
    BY <2>1, <2>3, <2>5 DEF HomeInv, ConnectionsStayHome
<1>13. CASE Ticks
  BY <1>3, <1>13 DEF Ticks, Tick, ConnectionGone, ServerClosed
<1>14. CASE PollTick
  <2>1. UNCHANGED <<home, owner>>
    BY <1>14 DEF PollTick
  <2>2. CASE UNCHANGED at
    BY <1>14, <2>1, <2>2 DEF PollTick, Idle, HomeInv, ConnectionsStayHome
  <2>3. CASE \E some \in SUBSET Unfinished : at' = [at EXCEPT !.op = "pass", !.ready = Ready \cup some]
    <3>1. at'.op = "pass"
      BY <2>3 DEF IInv, Types
    <3> QED
      BY <2>1, <3>1 DEF HomeInv, ConnectionsStayHome
  <2> QED
    BY <1>14, <2>2, <2>3 DEF PollTick
<1>15. ASSUME NEW c \in Conns, NEW s \in Servers, Connect(c, s) PROVE HomeInv'
  <2>1. owner[c] = None
    BY <1>15 DEF Connect, IInv, ClientGoes, Types
  <2>2. UNCHANGED <<at, id, owner>> /\ \A x \in Conns \ {c} : home'[x] = home[x]
    BY <1>15 DEF Connect, IInv, Types
  <2> QED
    BY <2>1, <2>2 DEF HomeInv, ConnectionsStayHome
<1>16. CASE UNCHANGED vars
  BY <1>3, <1>16 DEF vars
<1> QED
  BY <1>5, <1>6, <1>7, <1>8, <1>9, <1>10, <1>11, <1>12, <1>13, <1>14, <1>15, <1>16 DEF Next, Program, Pass

LEMMA AlwaysHome ==
  ASSUME Careful
  PROVE  Spec => []HomeInv
<1>1. Init => HomeInv
  BY DEF Init, HomeInv, ConnectionsStayHome, Idle
<1> QED
  BY <1>1, AlwaysIInv, HomeKeeps, PTL DEF Spec

\* The loop of _accept takes its own clients only, when no listener closes the server it
\* is accepting for.
THEOREM ConnectionsComeHome ==
  ASSUME Careful
  PROVE  Spec => []ConnectionsStayHome
<1>1. HomeInv => ConnectionsStayHome
  BY DEF HomeInv
<1> QED
  BY <1>1, AlwaysHome, PTL

------------------------------------------------------------------------------
(* Programs that, besides, use a server once.                              *)

CloseInv ==
  /\ \A s \in Servers :
       /\ srv[s].emitted => srv[s].said
       /\ srv[s].said => srv[s].closing /\ (s \notin Tls => Connections(s) = {})
       /\ srv[s].closing => id[s] = None /\ ~srv[s].listening
  /\ \A e \in due : e.ev = "close" => srv[e.of].said

LEMMA CloseInvKeeps ==
  ASSUME Careful, Once
  PROVE  IInv /\ HomeInv /\ CloseInv /\ [Next]_vars => CloseInv'
<1> SUFFICES ASSUME IInv, HomeInv, CloseInv, [Next]_vars PROVE CloseInv'
  OBVIOUS
<1>a. \A e \in due : e.ev = "close" => e.of \in Servers
  BY DEF IInv, DueGoes
\* Steps after which no server, of those that are closing, has an index or one more connection.
<1>1. ASSUME UNCHANGED srv, \A s \in Servers : id[s] = None => id'[s] = None,
             \A s \in Servers \ Tls : srv[s].said => Connections(s)' \subseteq Connections(s),
             \A e \in due' : e.ev = "close" => e \in due
      PROVE  CloseInv'
  BY <1>1, <1>a DEF CloseInv
<1>2. ASSUME NEW c \in Conns, UNCHANGED owner, \A x \in Conns \ {c} : phase'[x] = phase[x],
             phase[c] \in {"open", "destroyed"} \/ owner[c] \in Tls \/ phase'[c] \notin {"open", "destroyed"}
      PROVE  \A s \in Servers \ Tls : Connections(s)' \subseteq Connections(s)
  BY <1>2 DEF Connections
<1>3. UNCHANGED <<owner, phase>> => \A s \in Servers \ Tls : Connections(s)' \subseteq Connections(s)
  BY DEF Connections
<1>4. ASSUME NEW s \in Servers, Listen(s) PROVE CloseInv'
  <2>1. /\ ~srv[s].closing /\ UNCHANGED <<owner, phase, due>>
        /\ \A x \in Servers \ {s} : srv'[x] = srv[x] /\ id'[x] = id[x]
        /\ srv'[s].emitted = FALSE /\ srv'[s].closing = srv[s].closing /\ srv'[s].said = srv[s].said
    BY <1>4, NoneIsNoHandle DEF Listen, Opens, IInv, Types
  <2>2. ~srv[s].said
    BY <2>1 DEF CloseInv
  <2>3. \A x \in Servers : Connections(x)' = Connections(x)
    BY <2>1 DEF Connections
  <2> QED
    BY <1>a, <2>1, <2>2, <2>3 DEF CloseInv
<1>5. ASSUME NEW s \in Servers, Close(s) PROVE CloseInv'
  <2> DEFINE sv == [srv[s] EXCEPT !.listening = FALSE, !.closing = TRUE, !.asked = TRUE]
             last == Closed(sv, Connections(s) = {})
  <2>1. /\ ~srv[s].closing
        /\ srv' = [srv EXCEPT ![s] = [sv EXCEPT !.said = @ \/ last]]
        /\ due' = IF last THEN due \cup {Event("close", s)} ELSE due
        /\ UNCHANGED owner
    BY <1>5 DEF Close
  <2>2. ~srv[s].said /\ ~srv[s].emitted
    BY <2>1 DEF CloseInv
  <2>3. last => Connections(s) = {}
    BY DEF Closed
  <2>4. last \in BOOLEAN
    BY DEF Closed, IInv, Types
  <2>5. sv.said = srv[s].said /\ sv.emitted = srv[s].emitted /\ sv.closing = TRUE /\ sv.listening = FALSE
        /\ sv \in [listening : BOOLEAN, closing : BOOLEAN, said : BOOLEAN, asked : BOOLEAN, emitted : BOOLEAN]
    <3>1. srv[s] \in [listening : BOOLEAN, closing : BOOLEAN, said : BOOLEAN, asked : BOOLEAN, emitted : BOOLEAN]
      BY DEF IInv, Types
    <3> QED
      BY <3>1
  <2>6. \A x \in Servers : Connections(x)' = Connections(x)
    BY <1>5, <2>1, WaitingHaveNone DEF Connections, Close, IInv, Types
  <2>7. id'[s] = None /\ \A x \in Servers \ {s} : id'[x] = id[x]
    BY <1>5, NoneIsNoHandle DEF Close, Closes, IInv, Types
  <2> HIDE DEF sv, last
  <2>8. /\ srv'[s].said = last /\ srv'[s].emitted = FALSE /\ srv'[s].closing = TRUE /\ srv'[s].listening = FALSE
        /\ \A x \in Servers \ {s} : srv'[x] = srv[x]
    <3>1. srv'[s] = [sv EXCEPT !.said = @ \/ last] /\ \A x \in Servers \ {s} : srv'[x] = srv[x]
      BY <2>1 DEF IInv, Types
    <3>2. srv[s].said = FALSE /\ srv[s].emitted = FALSE
      BY <2>2 DEF IInv, Types
    <3> QED
      BY <2>4, <2>5, <3>1, <3>2
  <2>9. \A e \in due' : e \in due \/ (e = Event("close", s) /\ last)
    BY <2>1
  <2>10. \A x \in Servers :
           /\ srv'[x].emitted => srv'[x].said
           /\ srv'[x].said => srv'[x].closing /\ (x \notin Tls => Connections(x)' = {})
           /\ srv'[x].closing => id'[x] = None /\ ~srv'[x].listening
    BY <2>3, <2>6, <2>7, <2>8 DEF CloseInv
  <2>11. ASSUME NEW e \in due', e.ev = "close" PROVE srv'[e.of].said
    <3>1. CASE e \in due
      BY <1>a, <2>2, <2>8, <2>11, <3>1 DEF CloseInv
    <3>2. CASE e = Event("close", s) /\ last
      BY <2>8, <3>2 DEF Event
    <3> QED
      BY <2>9, <3>1, <3>2
  <2> QED
    BY <2>10, <2>11 DEF CloseInv
<1>6. ASSUME NEW s \in Servers, CloseAllConnections(s) PROVE CloseInv'
  <2>1. \A x \in Servers : id[x] = None => id'[x] = None
    BY <1>6, NoneIsNoHandle DEF CloseAllConnections
  <2>2. \A x \in Servers : Connections(x)' \subseteq Connections(x)
    BY <1>6 DEF CloseAllConnections, Connections
  <2>3. \A e \in due' : e.ev = "close" => e \in due
    BY <1>6 DEF CloseAllConnections, Event
  <2> QED
    BY <1>1, <1>6, <2>1, <2>2, <2>3 DEF CloseAllConnections
<1>7. ASSUME NEW c \in Conns, Destroy(c) PROVE CloseInv'
  <2>1. \A x \in Servers : id[x] = None => id'[x] = None
    BY <1>7, NoneIsNoHandle DEF Destroy, Closes, IInv, Types
  <2>2. \A s \in Servers \ Tls : Connections(s)' \subseteq Connections(s)
    BY <1>2, <1>7 DEF Destroy, IInv, Types
  <2>3. \A e \in due' : e.ev = "close" => e \in due
    BY <1>7 DEF Destroy, Event
  <2> QED
    BY <1>1, <1>7, <2>1, <2>2, <2>3 DEF Destroy
<1>8. ASSUME NEW h \in Handles, ServeServer(h) PROVE CloseInv'
  BY <1>1, <1>3, <1>8 DEF ServeServer
<1>9. ASSUME NEW h \in Handles, ServeHandshake(h) PROVE CloseInv'
  <2> DEFINE c == poll.watch[h]
  <2>1. c \in Conns /\ phase[c] = "handshake" /\ owner[c] \in Tls /\ UNCHANGED <<srv, owner, due>>
    BY <1>9 DEF ServeHandshake, Shaking, IInv, ClientGoes
  <2>2. UNCHANGED id \/ Closes(c)
    BY <1>9 DEF ServeHandshake
  <2>3. \A x \in Conns \ {c} : phase'[x] = phase[x]
    BY <1>9 DEF ServeHandshake, IInv, Types
  <2> HIDE DEF c
  <2>4. \A x \in Servers : id[x] = None => id'[x] = None
    BY <2>2, NoneIsNoHandle DEF Closes, IInv, Types
  <2>5. \A s \in Servers \ Tls : Connections(s)' \subseteq Connections(s)
    BY <1>2, <2>1, <2>3
  <2> QED
    BY <1>1, <2>1, <2>4, <2>5
<1>10. CASE PassEnds \/ ListenerReturns \/ AcceptNobody \/ AcceptFails
  BY <1>1, <1>3, <1>10 DEF PassEnds, ListenerReturns, AcceptNobody, AcceptFails
<1>11. ASSUME NEW c \in Conns, Accept(c) PROVE CloseInv'
  <2>1. at.op = "accept" /\ at.who \in Servers /\ id[at.who] # None /\ UNCHANGED <<srv, due>>
    BY <1>11 DEF Accept, HomeInv, IInv, Types
  <2>2. ~srv[at.who].said
    BY <2>1 DEF CloseInv
  <2>3. \A x \in Conns \ {c} : phase'[x] = phase[x] /\ owner'[x] = owner[x]
    BY <1>11 DEF Accept, IInv, Types
  <2>4. UNCHANGED id \/ Opens(c, Lowest)
    BY <1>11 DEF Accept
  <2>5. \A x \in Servers : id'[x] = id[x]
    BY <2>4, NetServerAssumption, NoneIsNoHandle DEF Opens, IInv, Types
  <2>6. owner'[c] = at.who \/ phase'[c] = "gone"
    BY <1>11 DEF Accept, IInv, Types
  <2>7. \A s \in Servers \ Tls : srv[s].said => Connections(s)' \subseteq Connections(s)
    BY <2>2, <2>3, <2>6 DEF Connections
  <2> QED
    BY <1>1, <2>1, <2>5, <2>7
<1>12. ASSUME NEW e \in due, ConnectionGone(e) PROVE CloseInv'
  <2> DEFINE c == e.of
             s == owner[c]
             last == Closed(srv[s], Connections(s) = {c})
  <2>1. /\ e.ev = "gone" /\ c \in Conns /\ phase[c] = "destroyed" /\ s \in Servers
    BY <1>12 DEF ConnectionGone, IInv, DueGoes, ClientGoes
  <2>2. /\ phase' = [phase EXCEPT ![c] = "gone"]
        /\ srv' = [srv EXCEPT ![s].said = @ \/ last]
        /\ due' = IF last THEN (due \ {e}) \cup {Event("close", s)} ELSE due \ {e}
        /\ UNCHANGED <<id, owner>>
    BY <1>12 DEF ConnectionGone
  <2>3. last => srv[s].closing /\ Connections(s) = {c}
    BY DEF Closed
  <2>4. last \in BOOLEAN
    BY <2>1 DEF Closed, IInv, Types
  <2> HIDE DEF c, s, last
  <2>5. /\ \A x \in Servers : /\ srv'[x].emitted = srv[x].emitted /\ srv'[x].closing = srv[x].closing
                              /\ srv'[x].listening = srv[x].listening
        /\ \A x \in Servers \ {s} : srv'[x].said = srv[x].said
        /\ srv'[s].said = (srv[s].said \/ last)
    <3> DEFINE sv == [srv[s] EXCEPT !.said = @ \/ last]
    <3>1. srv' = [srv EXCEPT ![s] = sv]
      BY <2>2
    <3>2. sv.said = (srv[s].said \/ last) /\ sv.emitted = srv[s].emitted /\ sv.closing = srv[s].closing
          /\ sv.listening = srv[s].listening
      BY <2>1 DEF IInv, Types
    <3> HIDE DEF sv
    <3> QED
      BY <2>1, <3>1, <3>2 DEF IInv, Types
  <2>6. \A x \in Servers : Connections(x)' \subseteq Connections(x) \ {c}
    BY <2>1, <2>2 DEF Connections, IInv, Types
  <2>7. \A x \in Servers : srv[x].said => srv'[x].said
    BY <2>5
  <2>8. ASSUME NEW x \in Servers
        PROVE  /\ srv'[x].emitted => srv'[x].said
               /\ srv'[x].said => srv'[x].closing /\ (x \notin Tls => Connections(x)' = {})
               /\ srv'[x].closing => id'[x] = None /\ ~srv'[x].listening
    <3>1. srv'[x].emitted => srv'[x].said
      BY <2>5, <2>7 DEF CloseInv
    <3>2. srv'[x].closing => id'[x] = None /\ ~srv'[x].listening
      BY <2>2, <2>5 DEF CloseInv
    <3>3. CASE srv[x].said
      BY <2>5, <2>6, <3>1, <3>2, <3>3 DEF CloseInv
    <3>4. CASE ~srv[x].said /\ srv'[x].said
      <4>1. x = s /\ last
        BY <2>5, <3>4
      <4>2. srv'[x].closing /\ Connections(x)' = {}
        BY <2>3, <2>5, <2>6, <4>1
      <4> QED
        BY <3>1, <3>2, <4>2
    <3> QED
      BY <3>1, <3>2, <3>3, <3>4
  <2>9. ASSUME NEW d \in due', d.ev = "close" PROVE srv'[d.of].said
    <3>1. CASE d \in due
      BY <1>a, <2>7, <2>9, <3>1 DEF CloseInv
    <3>2. CASE d = Event("close", s) /\ last
      BY <2>5, <3>2 DEF Event
    <3> QED
      BY <2>2, <3>1, <3>2
  <2> QED
    BY <2>8, <2>9 DEF CloseInv
<1>13. ASSUME NEW e \in due, ServerClosed(e) PROVE CloseInv'
  <2> DEFINE s == e.of
  <2>1. s \in Servers /\ srv[s].said /\ e.ev = "close"
    BY <1>13, <1>a DEF ServerClosed, CloseInv
  <2>2. /\ srv' = [srv EXCEPT ![s].asked = FALSE, ![s].emitted = TRUE]
        /\ due' = due \ {e} /\ UNCHANGED <<id, phase, owner>>
    BY <1>13 DEF ServerClosed
  <2> HIDE DEF s
  <2>3. /\ \A x \in Servers : /\ srv'[x].said = srv[x].said /\ srv'[x].closing = srv[x].closing
                              /\ srv'[x].listening = srv[x].listening
        /\ \A x \in Servers \ {s} : srv'[x].emitted = srv[x].emitted
    <3> DEFINE sv == [srv[s] EXCEPT !.asked = FALSE, !.emitted = TRUE]
    <3>1. srv' = [srv EXCEPT ![s] = sv]
      BY <2>2
    <3>2. sv.said = srv[s].said /\ sv.closing = srv[s].closing /\ sv.listening = srv[s].listening
      BY <2>1 DEF IInv, Types
    <3> HIDE DEF sv
    <3> QED
      BY <2>1, <3>1, <3>2 DEF IInv, Types
  <2>4. \A x \in Servers : Connections(x)' = Connections(x)
    BY <2>2 DEF Connections
  <2>5. ASSUME NEW x \in Servers
        PROVE  /\ srv'[x].emitted => srv'[x].said
               /\ srv'[x].said => srv'[x].closing /\ (x \notin Tls => Connections(x)' = {})
               /\ srv'[x].closing => id'[x] = None /\ ~srv'[x].listening
    <3>1. srv'[x].emitted => srv'[x].said
      BY <2>1, <2>3 DEF CloseInv
    <3>2. srv'[x].said => srv'[x].closing /\ (x \notin Tls => Connections(x)' = {})
      BY <2>3, <2>4 DEF CloseInv
    <3>3. srv'[x].closing => id'[x] = None /\ ~srv'[x].listening
      BY <2>2, <2>3 DEF CloseInv
    <3> QED
      BY <3>1, <3>2, <3>3
  <2>6. ASSUME NEW d \in due', d.ev = "close" PROVE srv'[d.of].said
    <3>1. d \in due
      BY <2>2
    <3>2. d.of \in Servers /\ srv[d.of].said
      BY <1>a, <2>6, <3>1 DEF CloseInv
    <3> QED
      BY <2>3, <3>2
  <2> QED
    BY <2>5, <2>6 DEF CloseInv
<1>14. CASE PollTick
  BY <1>1, <1>3, <1>14 DEF PollTick
<1>15. ASSUME NEW c \in Conns, NEW s \in Servers, Connect(c, s) PROVE CloseInv'
  <2>1. \A x \in Servers \ Tls : Connections(x)' \subseteq Connections(x)
    BY <1>2, <1>15 DEF Connect, IInv, Types
  <2> QED
    BY <1>1, <1>15, <2>1 DEF Connect
<1>16. CASE UNCHANGED vars
  BY <1>1, <1>3, <1>16 DEF vars
<1> QED
  BY <1>4, <1>5, <1>6, <1>7, <1>8, <1>9, <1>10, <1>11, <1>12, <1>13, <1>14, <1>15, <1>16
     DEF Next, Program, Pass, Ticks, Tick

\* _track and _maybeClosed count the connections right, for any number of them: when a plain
\* server emits 'close' none is left, and it does not listen.
THEOREM CloseComesLast ==
  ASSUME Careful, Once
  PROVE  Spec => []CloseIsLast
<1>1. Init => CloseInv
  BY DEF Init, CloseInv
<1>2. CloseInv => CloseIsLast
  BY DEF CloseInv, CloseIsLast
<1> QED
  BY <1>1, <1>2, AlwaysIInv, AlwaysHome, CloseInvKeeps, PTL DEF Spec

------------------------------------------------------------------------------
(* NetSocket.                                                              *)

\* A chunk is held or queued, not both, and counts as not done; _final came after the last
\* one, and the host was told only when it was done; what comes in is counted once.
Ordered ==
  /\ ~(sock.held /\ out.queued)
  /\ Writing => out.done < out.asked
  /\ sock.final # "no" => sock.ended /\ out.done = out.asked
  /\ host.shut => sock.final = "done"
  /\ host.waiting + inp.buffer + peer <= MaxIncoming

SocketInv == SocketTypeOK /\ NoHandlerLeft /\ Ordered

SType ==
  [id : BOOLEAN, dial : BOOLEAN, connecting : BOOLEAN, held : BOOLEAN, paused : BOOLEAN,
   ended : BOOLEAN, final : {"no", "waits", "done"}, linger : BOOLEAN, destroyed : BOOLEAN]

OutType == [asked : 0..MaxWrites, done : 0..MaxWrites, queued : BOOLEAN, left : Nat]

HostType ==
  [link : {"none", "trying", "up", "refused", "reset"}, room : 0..HostRoom,
   waiting : 0..MaxIncoming, fin : BOOLEAN, shut : BOOLEAN]

InType == [buffer : 0..MaxIncoming, reading : BOOLEAN, end : BOOLEAN]

LoopType == [flush : BOOLEAN, read : BOOLEAN]

LEMMA SocketTypes ==
  ASSUME SocketTypeOK
  PROVE  /\ sock \in SType /\ out \in OutType /\ host \in HostType /\ inp \in InType /\ loop \in LoopType
         /\ onRead \in {"none", "step", "read"} /\ onWrite \in {"none", "step", "flush"}
         /\ peer \in 0..MaxIncoming /\ out.done <= out.asked
BY DEF SocketTypeOK, SType, OutType, HostType, InType, LoopType

LEMMA TypesAgain ==
  ASSUME sock' \in SType, out' \in OutType, host' \in HostType, inp' \in InType, loop' \in LoopType,
         onRead' \in {"none", "step", "read"}, onWrite' \in {"none", "step", "flush"},
         peer' \in 0..MaxIncoming, out'.done <= out'.asked
  PROVE  SocketTypeOK'
BY DEF SocketTypeOK, SType, OutType, HostType, InType, LoopType

\* destroy() takes the handlers, the chunks and the index together.
LEMMA SocketDestroyKeeps ==
  ASSUME SocketInv, NEW s0 \in SType, s0.final = sock.final, s0.ended = sock.ended, DestroySocket(s0, out)
  PROVE  SocketInv'
<1>1. /\ sock' = [s0 EXCEPT !.id = FALSE, !.connecting = FALSE, !.held = FALSE, !.linger = FALSE, !.destroyed = TRUE]
      /\ out' = [out EXCEPT !.queued = FALSE, !.left = 0]
      /\ onRead' = "none" /\ onWrite' = "none"
      /\ host' = [host EXCEPT !.link = "none"]
      /\ UNCHANGED <<loop, inp, peer>>
  BY DEF DestroySocket
<1>2. sock' \in SType /\ sock'.id = FALSE /\ sock'.held = FALSE /\ sock'.final = sock.final /\ sock'.ended = sock.ended
  BY <1>1 DEF SType
<1>3. out' \in OutType /\ out'.queued = FALSE /\ out'.done = out.done /\ out'.asked = out.asked
  BY <1>1, SocketTypes DEF SocketInv, OutType
<1>4. host' \in HostType /\ host'.shut = host.shut /\ host'.waiting = host.waiting
  BY <1>1, SocketTypes DEF SocketInv, HostType
<1>5. SocketTypeOK'
  BY <1>1, <1>2, <1>3, <1>4, SocketTypes, TypesAgain DEF SocketInv
<1>6. NoHandlerLeft'
  BY <1>1 DEF NoHandlerLeft
<1>7. Ordered'
  BY <1>1, <1>2, <1>3, <1>4 DEF SocketInv, Ordered, Writing
<1> QED
  BY <1>5, <1>6, <1>7 DEF SocketInv

LEMMA DestroyHere ==
  ASSUME SocketInv, DestroySocket(sock, out)
  PROVE  SocketInv'
BY SocketDestroyKeeps, SocketTypes DEF SocketInv

\* A step that leaves the writing side as it is.
LEMMA InKeeps ==
  ASSUME SocketInv, sock' \in SType, sock'.id = sock.id, sock'.held = sock.held, sock'.final = sock.final, sock.ended => sock'.ended,
         UNCHANGED out, host' \in HostType, host'.shut = host.shut, inp' \in InType, loop' \in LoopType,
         onRead' \in {"none", "step", "read"}, onWrite' \in {"none", "step", "flush"},
         onRead' # "none" => sock.id, onWrite' # "none" => sock.id,
         peer' \in 0..MaxIncoming, host'.waiting + inp'.buffer + peer' <= MaxIncoming
  PROVE  SocketInv'
<1>1. SocketTypeOK'
  BY SocketTypes, TypesAgain DEF SocketInv
<1>2. NoHandlerLeft'
  BY DEF NoHandlerLeft
<1>3. Ordered'
  BY DEF SocketInv, Ordered, Writing
<1> QED
  BY <1>1, <1>2, <1>3 DEF SocketInv

\* A step that only the loops notice.
LEMMA LoopKeeps ==
  ASSUME SocketInv, loop' \in LoopType, UNCHANGED <<sock, onRead, out, inp, host, peer>>,
         onWrite' \in {"none", onWrite} \/ (onWrite' = "flush" /\ sock.id)
  PROVE  SocketInv'
<1>1. onWrite' \in {"none", "step", "flush"} /\ (onWrite' # "none" => sock.id)
  BY SocketTypes DEF SocketInv, NoHandlerLeft
<1>2. onRead' # "none" => sock.id
  BY DEF SocketInv, NoHandlerLeft
<1>3. host'.waiting + inp'.buffer + peer' <= MaxIncoming
  BY DEF SocketInv, Ordered
<1> QED
  BY <1>1, <1>2, <1>3, SocketTypes, InKeeps DEF SocketInv

\* What the host and the peer do on the reading side.
LEMMA HostKeeps ==
  ASSUME SocketInv, host' \in HostType, host'.shut = host.shut, UNCHANGED <<sock, onRead, onWrite, out, loop, inp>>,
         peer' \in 0..MaxIncoming, host'.waiting + inp.buffer + peer' <= MaxIncoming
  PROVE  SocketInv'
<1>1. (onRead' # "none" => sock.id) /\ (onWrite' # "none" => sock.id)
  BY DEF SocketInv, NoHandlerLeft
<1>2. sock' \in SType /\ inp' \in InType /\ loop' \in LoopType
      /\ onRead' \in {"none", "step", "read"} /\ onWrite' \in {"none", "step", "flush"}
  BY SocketTypes DEF SocketInv
<1> QED
  BY <1>1, <1>2, InKeeps

\* A step of the writing side.
LEMMA OutKeeps ==
  ASSUME SocketInv, sock' \in SType, sock'.id = sock.id, out' \in OutType, out'.done <= out'.asked,
         host' \in HostType, host'.waiting = host.waiting, loop' \in LoopType,
         UNCHANGED <<onRead, onWrite, inp, peer>>,
         ~(sock'.held /\ out'.queued), sock'.held \/ out'.queued => out'.done < out'.asked,
         sock'.final # "no" => sock'.ended /\ out'.done = out'.asked, host'.shut => sock'.final = "done"
  PROVE  SocketInv'
<1>1. SocketTypeOK'
  BY SocketTypes, TypesAgain DEF SocketInv
<1>2. NoHandlerLeft'
  BY DEF SocketInv, NoHandlerLeft
<1>3. Ordered'
  BY DEF SocketInv, Ordered, Writing
<1> QED
  BY <1>1, <1>2, <1>3 DEF SocketInv

------------------------------------------------------------------------------
(* Connecting.                                                             *)

LEMMA SocketInitHolds == SocketInit => SocketInv
<1> SUFFICES ASSUME SocketInit PROVE SocketInv
  OBVIOUS
<1>1. SocketTypeOK
  BY NetSocketAssumption DEF SocketInit, SocketTypeOK
<1>2. NoHandlerLeft
  BY DEF SocketInit, NoHandlerLeft
<1>3. Ordered
  BY NetSocketAssumption DEF SocketInit, Ordered, Writing
<1> QED
  BY <1>1, <1>2, <1>3 DEF SocketInv

LEMMA DialKeeps == ASSUME SocketInv, Dial PROVE SocketInv'
<1>1. CASE sock' = [sock EXCEPT !.dial = FALSE] /\ UNCHANGED <<onRead, onWrite, out, loop, inp, host, peer>>
  <2>1. sock' \in SType /\ sock'.id = sock.id /\ sock'.held = sock.held /\ sock'.final = sock.final /\ sock'.ended = sock.ended
    BY <1>1, SocketTypes DEF SocketInv, SType
  <2>2. host'.waiting + inp'.buffer + peer' <= MaxIncoming /\ (onRead' # "none" => sock.id) /\ (onWrite' # "none" => sock.id)
    BY <1>1 DEF SocketInv, Ordered, NoHandlerLeft
  <2> QED
    BY <1>1, <2>1, <2>2, SocketTypes, InKeeps DEF SocketInv
<1>2. CASE DestroySocket([sock EXCEPT !.dial = FALSE], out)
  <2> DEFINE s0 == [sock EXCEPT !.dial = FALSE]
  <2>1. s0 \in SType /\ s0.final = sock.final /\ s0.ended = sock.ended
    BY SocketTypes DEF SocketInv, SType
  <2> HIDE DEF s0
  <2>2. DestroySocket(s0, out)
    BY <1>2 DEF s0
  <2> QED
    BY <2>1, <2>2, SocketDestroyKeeps
<1>3. CASE /\ sock' = [sock EXCEPT !.dial = FALSE, !.id = TRUE]
           /\ onRead' = "step" /\ onWrite' = "step"
           /\ host' = [host EXCEPT !.link = "trying"]
           /\ UNCHANGED <<out, loop, inp, peer>>
  <2>1. sock' \in SType /\ sock'.id = TRUE /\ sock'.held = sock.held /\ sock'.final = sock.final /\ sock'.ended = sock.ended
    BY <1>3, SocketTypes DEF SocketInv, SType
  <2>2. host' \in HostType /\ host'.shut = host.shut /\ host'.waiting = host.waiting
    BY <1>3, SocketTypes DEF SocketInv, HostType
  <2>3. SocketTypeOK'
    BY <1>3, <2>1, <2>2, SocketTypes, TypesAgain DEF SocketInv
  <2>4. Ordered'
    BY <1>3, <2>1, <2>2 DEF SocketInv, Ordered, Writing
  <2> QED
    BY <2>1, <2>3, <2>4 DEF SocketInv, NoHandlerLeft
<1> QED
  BY <1>1, <1>2, <1>3 DEF Dial

\* 'connect': what was held is queued, and a _final that waited tells the host.
LEMMA DialStepKeeps == ASSUME SocketInv, sock.id, Step PROVE SocketInv'
<1>1. CASE DestroySocket(sock, out)
  BY <1>1, DestroyHere
<1>2. CASE /\ onRead' = "read" /\ onWrite' = "none"
           /\ sock' = [sock EXCEPT !.connecting = FALSE, !.held = FALSE, !.paused = FALSE,
                             !.final = IF @ = "waits" THEN "done" ELSE @]
           /\ host' = [host EXCEPT !.shut = @ \/ sock.final = "waits"]
           /\ \E n \in Sizes :
                out' = IF sock.held THEN [out EXCEPT !.queued = TRUE, !.left = n] ELSE out
           /\ loop' = [loop EXCEPT !.flush = @ \/ sock.held]
           /\ UNCHANGED <<inp, peer>>
  <2>1. /\ sock' \in SType /\ sock'.id = TRUE /\ sock'.held = FALSE /\ sock'.ended = sock.ended
        /\ sock'.final = IF sock.final = "waits" THEN "done" ELSE sock.final
    BY <1>2, SocketTypes DEF SocketInv, SType
  <2>2. host' \in HostType /\ host'.shut = (host.shut \/ sock.final = "waits") /\ host'.waiting = host.waiting
    BY <1>2, SocketTypes DEF SocketInv, HostType
  <2>3. out' \in OutType /\ out'.done = out.done /\ out'.asked = out.asked /\ (out'.queued => out.queued \/ sock.held)
    BY <1>2, SocketTypes, NetSocketAssumption DEF SocketInv, OutType
  <2>4. loop' \in LoopType
    BY <1>2, SocketTypes DEF SocketInv, LoopType, SType
  <2>5. SocketTypeOK'
    BY <1>2, <2>1, <2>2, <2>3, <2>4, SocketTypes, TypesAgain DEF SocketInv
  <2>6. Ordered'
    BY <1>2, <2>1, <2>2, <2>3 DEF SocketInv, Ordered, Writing
  <2>7. NoHandlerLeft'
    BY <2>1 DEF NoHandlerLeft
  <2> QED
    BY <2>5, <2>6, <2>7 DEF SocketInv
<1> QED
  BY <1>1, <1>2 DEF Step

------------------------------------------------------------------------------
(* The program and the Writable above.                                     *)

LEMMA WriteKeeps == ASSUME SocketInv, Write PROVE SocketInv'
<1>1. out.asked < MaxWrites /\ ~sock.ended /\ UNCHANGED <<onRead, onWrite, inp, host, peer>>
  BY DEF Write
<1>2. /\ out.asked \in Nat /\ out.done \in Nat /\ out.asked + 1 \in 0..MaxWrites /\ out.done <= out.asked
      /\ out \in OutType /\ sock \in SType /\ host \in HostType /\ loop \in LoopType
  BY <1>1, SocketTypes, NetSocketAssumption DEF SocketInv, OutType
<1>3. sock.final = "no" /\ ~host.shut
  BY <1>1 DEF SocketInv, Ordered
<1>4. CASE Writing /\ out' = [out EXCEPT !.asked = @ + 1] /\ UNCHANGED <<sock, loop>>
  <2>1. out' \in OutType /\ out'.asked = out.asked + 1 /\ out'.done = out.done /\ out'.queued = out.queued
    BY <1>2, <1>4 DEF OutType
  <2>2. ~(sock'.held /\ out'.queued)
    BY <1>4, <2>1 DEF SocketInv, Ordered
  <2> QED
    BY <1>1, <1>2, <1>3, <1>4, <2>1, <2>2, OutKeeps
<1>5. ASSUME NEW n \in Sizes, ~Writing,
             out' = [out EXCEPT !.asked = @ + 1, !.queued = TRUE, !.left = n],
             loop' = [loop EXCEPT !.flush = TRUE], UNCHANGED sock
      PROVE  SocketInv'
  <2>1. out' \in OutType /\ out'.asked = out.asked + 1 /\ out'.done = out.done
    BY <1>2, <1>5, NetSocketAssumption DEF OutType
  <2>2. loop' \in LoopType /\ ~sock'.held
    BY <1>2, <1>5 DEF LoopType, Writing
  <2> QED
    BY <1>1, <1>2, <1>3, <1>5, <2>1, <2>2, OutKeeps
<1>6. CASE ~Writing /\ out' = [out EXCEPT !.asked = @ + 1] /\ sock' = [sock EXCEPT !.held = TRUE] /\ UNCHANGED loop
  <2>1. out' \in OutType /\ out'.asked = out.asked + 1 /\ out'.done = out.done /\ ~out'.queued
    BY <1>2, <1>6 DEF OutType, Writing
  <2>2. sock' \in SType /\ sock'.id = sock.id /\ sock'.final = sock.final
    BY <1>2, <1>6 DEF SType
  <2> QED
    BY <1>1, <1>2, <1>3, <1>6, <2>1, <2>2, OutKeeps
<1> QED
  BY <1>4, <1>5, <1>6 DEF Write

LEMMA EndKeeps == ASSUME SocketInv, End PROVE SocketInv'
<1>1. sock' \in SType /\ sock'.id = sock.id /\ sock'.held = sock.held /\ sock'.final = sock.final /\ sock'.ended = TRUE
  BY SocketTypes DEF End, SocketInv, SType
<1>2. UNCHANGED <<onRead, onWrite, out, loop, inp, host, peer>>
  BY DEF End
<1>3. ~(sock'.held /\ out'.queued) /\ (sock'.held \/ out'.queued => out'.done < out'.asked)
      /\ (sock'.final # "no" => sock'.ended /\ out'.done = out'.asked) /\ (host'.shut => sock'.final = "done")
  BY <1>1, <1>2 DEF SocketInv, Ordered, Writing
<1> QED
  BY <1>1, <1>2, <1>3, SocketTypes, OutKeeps DEF SocketInv

LEMMA FinalKeeps == ASSUME SocketInv, Final PROVE SocketInv'
<1>1. /\ sock.ended /\ out.asked = out.done /\ ~Writing
      /\ sock' = [sock EXCEPT !.final = IF sock.connecting THEN "waits" ELSE "done", !.linger = TRUE]
      /\ host' = [host EXCEPT !.shut = ~sock.connecting]
      /\ UNCHANGED <<onRead, onWrite, out, loop, inp, peer>>
  BY DEF Final
<1>2. /\ sock' \in SType /\ sock'.id = sock.id /\ sock'.held = sock.held /\ sock'.ended = sock.ended
      /\ sock'.final = IF sock.connecting THEN "waits" ELSE "done"
  BY <1>1, SocketTypes DEF SocketInv, SType
<1>3. host' \in HostType /\ host'.shut = ~sock.connecting /\ host'.waiting = host.waiting
  BY <1>1, SocketTypes DEF SocketInv, HostType
<1>4. ~(sock'.held /\ out'.queued) /\ (sock'.held \/ out'.queued => out'.done < out'.asked)
      /\ (sock'.final # "no" => sock'.ended /\ out'.done = out'.asked) /\ (host'.shut => sock'.final = "done")
  BY <1>1, <1>2, <1>3 DEF Writing
<1> QED
  BY <1>1, <1>2, <1>3, <1>4, SocketTypes, OutKeeps DEF SocketInv

------------------------------------------------------------------------------
(* The loops.                                                              *)

LEMMA ServeKeeps == ASSUME SocketInv, ServeWrite \/ ServeRead PROVE SocketInv'
<1>1. CASE Step /\ (onWrite = "step" \/ onRead = "step")
  BY <1>1, DialStepKeeps DEF SocketInv, NoHandlerLeft
<1>2. CASE /\ loop' = [loop EXCEPT !.flush = TRUE] \/ loop' = [loop EXCEPT !.read = TRUE]
           /\ UNCHANGED <<sock, onRead, onWrite, out, inp, host, peer>>
  <2>1. loop' \in LoopType
    BY <1>2, SocketTypes DEF SocketInv, LoopType
  <2> QED
    BY <1>2, <2>1, LoopKeeps
<1> QED
  BY <1>1, <1>2 DEF ServeWrite, ServeRead

LEMMA FlushEndsKeeps == ASSUME SocketInv, FlushDone \/ FlushWaits \/ ReadDone PROVE SocketInv'
<1>1. loop' \in LoopType
  BY SocketTypes DEF FlushDone, FlushWaits, ReadDone, SocketInv, LoopType
<1>2. UNCHANGED <<sock, onRead, out, inp, host, peer>>
  BY DEF FlushDone, FlushWaits, ReadDone
<1>3. onWrite' \in {"none", onWrite} \/ (onWrite' = "flush" /\ sock.id)
  BY DEF FlushDone, FlushWaits, ReadDone
<1> QED
  BY <1>1, <1>2, <1>3, LoopKeeps

\* A chunk that was taken whole makes room for the next one; it was one of those not done.
LEMMA FlushSendsKeeps == ASSUME SocketInv, FlushSends PROVE SocketInv'
<1>1. out.queued /\ UNCHANGED <<sock, onRead, onWrite, loop, inp, peer>>
  BY DEF FlushSends
<1>2. /\ sock.held = FALSE /\ out.done < out.asked /\ sock.final = "no" /\ ~host.shut
      /\ out \in OutType /\ sock \in SType /\ host \in HostType /\ loop \in LoopType
  <2>1. out \in OutType /\ sock \in SType /\ host \in HostType /\ loop \in LoopType
    BY SocketTypes DEF SocketInv
  <2>2. ~sock.held /\ out.done < out.asked
    BY <1>1 DEF SocketInv, Ordered, Writing
  <2>3. sock.held \in BOOLEAN
    BY <2>1 DEF SType
  <2>4. out.done \in Nat /\ out.asked \in Nat
    BY <2>1, NetSocketAssumption DEF OutType
  <2>5. ~(out.done = out.asked)
    BY <2>2, <2>4
  <2>6. sock.final = "no" /\ ~host.shut
    BY <2>5 DEF SocketInv, Ordered
  <2> QED
    BY <2>1, <2>2, <2>3, <2>6
<1>3. out.left \in Nat /\ out.done \in 0..MaxWrites /\ out.asked \in 0..MaxWrites /\ host.room \in 0..HostRoom
  BY <1>2 DEF OutType, HostType
<1>4. PICK n \in 1..out.left :
        /\ n <= host.room
        /\ host' = [host EXCEPT !.room = @ - n]
        /\ \/ n < out.left /\ out' = [out EXCEPT !.left = @ - n]
           \/ /\ n = out.left /\ out.asked = out.done + 1
              /\ out' = [out EXCEPT !.left = 0, !.queued = FALSE, !.done = @ + 1]
           \/ /\ n = out.left /\ out.asked > out.done + 1
              /\ \E m \in Sizes : out' = [out EXCEPT !.left = m, !.done = @ + 1]
  BY DEF FlushSends
<1>4a. n \in Nat /\ n <= host.room
  <2>1. n \in 1..out.left
    OBVIOUS
  <2>2. n \in Nat
    BY <1>3, <2>1
  <2> QED
    BY <1>4, <2>2, Zenon
<1>5. host' \in HostType /\ host'.waiting = host.waiting /\ host'.shut = host.shut
  <2>1. host.room - n \in 0..HostRoom
    BY <1>3, <1>4a, NetSocketAssumption
  <2> QED
    BY <1>2, <1>4, <2>1 DEF HostType
<1>6. out.done + 1 \in 0..MaxWrites
  BY <1>2, <1>3, NetSocketAssumption
<1>7. CASE n < out.left /\ out' = [out EXCEPT !.left = @ - n]
  <2>1. out.left - n \in Nat
    BY <1>3, <1>7
  <2>2. out' \in OutType /\ out'.done = out.done /\ out'.asked = out.asked
    BY <1>2, <1>7, <2>1 DEF OutType
  <2> QED
    BY <1>1, <1>2, <1>3, <1>5, <2>2, OutKeeps
<1>8. CASE out.asked = out.done + 1 /\ out' = [out EXCEPT !.left = 0, !.queued = FALSE, !.done = @ + 1]
  <2>1. out' \in OutType /\ out'.done = out.done + 1 /\ out'.asked = out.asked /\ ~out'.queued
    BY <1>2, <1>6, <1>8 DEF OutType
  <2> QED
    BY <1>1, <1>2, <1>3, <1>5, <1>8, <2>1, OutKeeps
<1>9. ASSUME out.asked > out.done + 1, NEW m \in Sizes, out' = [out EXCEPT !.left = m, !.done = @ + 1]
      PROVE  SocketInv'
  <2>1. out' \in OutType /\ out'.done = out.done + 1 /\ out'.asked = out.asked
    BY <1>2, <1>6, <1>9, NetSocketAssumption DEF OutType
  <2> QED
    BY <1>1, <1>2, <1>3, <1>5, <1>9, <2>1, OutKeeps
<1> QED
  BY <1>4, <1>7, <1>8, <1>9

\* push(): what is read leaves the host for the Readable's buffer.
LEMMA ReadSomeKeeps == ASSUME SocketInv, ReadSome PROVE SocketInv'
<1>1. PICK n \in 1..host.waiting :
        /\ host' = [host EXCEPT !.waiting = @ - n]
        /\ inp' = [inp EXCEPT !.buffer = @ + n, !.reading = FALSE]
        /\ IF inp.buffer + n < HighWaterMark THEN UNCHANGED <<sock, onRead, loop>>
           ELSE sock' = [sock EXCEPT !.paused = TRUE] /\ onRead' = "none" /\ loop' = [loop EXCEPT !.read = FALSE]
  BY DEF ReadSome
<1>2. UNCHANGED <<onWrite, out, peer>>
  BY DEF ReadSome
<1>3. /\ host \in HostType /\ inp \in InType /\ sock \in SType /\ loop \in LoopType /\ peer \in 0..MaxIncoming
      /\ host.waiting \in 0..MaxIncoming /\ inp.buffer \in 0..MaxIncoming
      /\ host.waiting + inp.buffer + peer <= MaxIncoming
  BY SocketTypes DEF SocketInv, HostType, InType, Ordered
<1>4. host.waiting - n \in 0..MaxIncoming /\ inp.buffer + n \in 0..MaxIncoming
      /\ (host.waiting - n) + (inp.buffer + n) + peer <= MaxIncoming
  BY <1>3, NetSocketAssumption
<1>5. host' \in HostType /\ host'.shut = host.shut /\ host'.waiting = host.waiting - n
  BY <1>1, <1>3, <1>4 DEF HostType
<1>6. inp' \in InType /\ inp'.buffer = inp.buffer + n
  BY <1>1, <1>3, <1>4 DEF InType
<1>7. sock' \in SType /\ sock'.id = sock.id /\ sock'.held = sock.held /\ sock'.final = sock.final /\ sock'.ended = sock.ended
  BY <1>1, <1>3 DEF SType
<1>8. loop' \in LoopType /\ onRead' \in {"none", onRead}
  BY <1>1, <1>3 DEF LoopType
<1>9. onRead' \in {"none", "step", "read"} /\ onWrite' \in {"none", "step", "flush"}
      /\ (onRead' # "none" => sock.id) /\ (onWrite' # "none" => sock.id)
  BY <1>2, <1>8, SocketTypes DEF SocketInv, NoHandlerLeft
<1> QED
  BY <1>2, <1>3, <1>4, <1>5, <1>6, <1>7, <1>8, <1>9, InKeeps

LEMMA ReadEndKeeps == ASSUME SocketInv, ReadEnd PROVE SocketInv'
<1>1. /\ inp' = [inp EXCEPT !.end = TRUE] /\ onRead' = "none" /\ loop' = [loop EXCEPT !.read = FALSE]
      /\ UNCHANGED <<sock, onWrite, out, host, peer>>
  BY DEF ReadEnd
<1>2. inp' \in InType /\ inp'.buffer = inp.buffer /\ loop' \in LoopType
  BY <1>1, SocketTypes DEF SocketInv, InType, LoopType
<1>3. host'.waiting + inp'.buffer + peer' <= MaxIncoming /\ (onWrite' # "none" => sock.id)
  BY <1>1, <1>2 DEF SocketInv, Ordered, NoHandlerLeft
<1> QED
  BY <1>1, <1>2, <1>3, SocketTypes, InKeeps DEF SocketInv

LEMMA ConsumeKeeps == ASSUME SocketInv, Consume PROVE SocketInv'
<1>1. /\ inp' = [inp EXCEPT !.buffer = 0, !.reading = ~inp.end]
      /\ IF sock.paused /\ sock.id /\ ~inp.reading /\ ~inp.end
           THEN sock' = [sock EXCEPT !.paused = FALSE] /\ onRead' = "read"
           ELSE UNCHANGED <<sock, onRead>>
      /\ UNCHANGED <<onWrite, out, loop, host, peer>>
  BY DEF Consume
<1>2. inp' \in InType /\ inp'.buffer = 0 /\ inp.buffer \in Nat
  <2>1. inp \in InType /\ 0 \in 0..MaxIncoming
    BY SocketTypes, NetSocketAssumption DEF SocketInv
  <2>2. inp' \in InType /\ inp'.buffer = 0
    BY <1>1, <2>1 DEF InType
  <2>3. inp.buffer \in Nat
    BY <2>1, NetSocketAssumption DEF InType
  <2> QED
    BY <2>2, <2>3
<1>3. sock' \in SType /\ sock'.id = sock.id /\ sock'.held = sock.held /\ sock'.final = sock.final /\ sock'.ended = sock.ended
  BY <1>1, SocketTypes DEF SocketInv, SType
<1>4. /\ onRead' \in {"none", "step", "read"} /\ onWrite' \in {"none", "step", "flush"}
      /\ (onRead' # "none" => sock.id) /\ (onWrite' # "none" => sock.id)
  BY <1>1, SocketTypes DEF SocketInv, NoHandlerLeft
<1>5. host'.waiting + inp'.buffer + peer' <= MaxIncoming
  <2>1. host.waiting \in Nat /\ peer \in Nat /\ host.waiting + inp.buffer + peer <= MaxIncoming
    BY SocketTypes, NetSocketAssumption DEF SocketInv, HostType, Ordered
  <2> QED
    BY <1>1, <1>2, <2>1, NetSocketAssumption
<1> QED
  BY <1>1, <1>2, <1>3, <1>4, <1>5, SocketTypes, InKeeps DEF SocketInv

------------------------------------------------------------------------------
(* The host and the peer, and the theorems.                                *)

LEMMA PeerKeeps == ASSUME SocketInv, HostDecides \/ PeerReads \/ PeerWrites \/ PeerEnds \/ PeerResets PROVE SocketInv'
<1>1. UNCHANGED <<sock, onRead, onWrite, out, loop, inp>>
  BY DEF HostDecides, PeerReads, PeerWrites, PeerEnds, PeerResets
<1>2. /\ host \in HostType /\ inp \in InType /\ peer \in 0..MaxIncoming /\ host.room \in 0..HostRoom
      /\ host.waiting \in 0..MaxIncoming /\ inp.buffer \in 0..MaxIncoming
      /\ host.waiting + inp.buffer + peer <= MaxIncoming
  BY SocketTypes DEF SocketInv, HostType, InType, Ordered
<1>3. CASE \E l \in {"up", "refused", "reset"} : host' = [host EXCEPT !.link = l] /\ UNCHANGED peer
  <2>1. host' \in HostType /\ host'.shut = host.shut /\ host'.waiting = host.waiting
    BY <1>2, <1>3 DEF HostType
  <2> QED
    BY <1>1, <1>2, <1>3, <2>1, HostKeeps
<1>4. CASE PeerReads
  <2>1. host.room + 1 \in 0..HostRoom
    BY <1>2, <1>4, NetSocketAssumption DEF PeerReads
  <2>2. host' \in HostType /\ host'.shut = host.shut /\ host'.waiting = host.waiting
    BY <1>2, <1>4, <2>1 DEF PeerReads, HostType
  <2> QED
    BY <1>1, <1>2, <1>4, <2>2, HostKeeps DEF PeerReads
<1>5. CASE PeerWrites
  <2>1. host.waiting + 1 \in 0..MaxIncoming /\ peer - 1 \in 0..MaxIncoming
        /\ (host.waiting + 1) + inp.buffer + (peer - 1) <= MaxIncoming
    BY <1>2, <1>5, NetSocketAssumption DEF PeerWrites
  <2>2. host' \in HostType /\ host'.shut = host.shut /\ host'.waiting = host.waiting + 1
    BY <1>2, <1>5, <2>1 DEF PeerWrites, HostType
  <2>3. peer' = peer - 1
    BY <1>5 DEF PeerWrites
  <2> QED
    BY <1>1, <2>1, <2>2, <2>3, HostKeeps
<1>6. CASE PeerEnds
  <2>1. host' \in HostType /\ host'.shut = host.shut /\ host'.waiting = host.waiting
    BY <1>2, <1>6 DEF PeerEnds, HostType
  <2> QED
    BY <1>1, <1>2, <1>6, <2>1, HostKeeps DEF PeerEnds
<1> QED
  BY <1>3, <1>4, <1>5, <1>6 DEF HostDecides, PeerResets

LEMMA SocketStepInv == SocketInv /\ [SocketNext]_socketVars => SocketInv'
<1> SUFFICES ASSUME SocketInv, [SocketNext]_socketVars PROVE SocketInv'
  OBVIOUS
<1>1. CASE Loops
  BY <1>1, DestroyHere, FlushEndsKeeps, FlushSendsKeeps, ReadSomeKeeps, ReadEndKeeps DEF Loops, FlushFails, ReadFails
<1>2. CASE Streams
  BY <1>2, DestroyHere, DialKeeps, FinalKeeps DEF Streams, AutoDestroy
<1>3. CASE ServeWrite \/ ServeRead
  BY <1>3, ServeKeeps
<1>4. CASE Consume
  BY <1>4, ConsumeKeeps
<1>5. CASE Linger
  BY <1>5, DestroyHere DEF Linger
<1>6. CASE SocketProgram
  BY <1>6, DestroyHere, WriteKeeps, EndKeeps DEF SocketProgram, CallDestroy
<1>7. CASE HostDecides \/ PeerReads \/ Peer
  BY <1>7, PeerKeeps DEF Peer
<1>8. CASE UNCHANGED socketVars
  BY <1>8 DEF socketVars, SocketInv, SocketTypeOK, NoHandlerLeft, Ordered, Writing
<1> QED
  BY <1>1, <1>2, <1>3, <1>4, <1>5, <1>6, <1>7, <1>8 DEF SocketNext

LEMMA AlwaysSocketInv == SocketSpec => []SocketInv
BY SocketInitHolds, SocketStepInv, PTL DEF SocketSpec

\* The fields of the socket, its chunks, its handlers and the host's connection keep their
\* types, for any size of writes: no more is done than was asked, no more is read than came.
THEOREM SocketTypeCorrect == SocketSpec => []SocketTypeOK
<1>1. SocketInv => SocketTypeOK
  BY DEF SocketInv
<1> QED
  BY <1>1, AlwaysSocketInv, PTL

\* destroy() on every path, also from within a loop, a listener or connect's step: the poller
\* keeps no handler of an index the socket gave back.
THEOREM HandlersGoWithTheIndex == SocketSpec => []NoHandlerLeft
<1>1. SocketInv => NoHandlerLeft
  BY DEF SocketInv
<1> QED
  BY <1>1, AlwaysSocketInv, PTL

\* The half-close of _final, at once or by connect's step, follows the last byte of the last
\* write, for any number of writes and any room in the host.
THEOREM FinComesLast == SocketSpec => []FinIsLast
<1>1. SocketInv => FinIsLast
  BY SocketTypes DEF SocketInv, Ordered, FinIsLast, Writing, OutType
<1> QED
  BY <1>1, AlwaysSocketInv, PTL

==============================================================================
