------------------------------ MODULE NetServer -----------------------------
(***************************************************************************)
(* net.Server and tls.Server of native-modules.js, the poller they share,  *)
(* and the host's table of sockets (graak_native.c).                       *)
(*                                                                         *)
(* A JavaScript object keeps the index of its socket in the host's table;  *)
(* a free index goes to the next socket that is opened, lowest first.  One *)
(* pass of the poller asks the host which watched indexes are ready and    *)
(* runs their handlers one after the other; listeners of the program run   *)
(* within the pass and may open, close and destroy what is being served.   *)
(***************************************************************************)
EXTENDS Naturals, FiniteSets

CONSTANTS
  Servers,          \* the server objects
  Tls,              \* those of tls.createServer()
  Conns,            \* the clients that may connect, each once
  MaxHandles,       \* bound: FG_MAX_SOCKETS
  MaxConnections,   \* server.maxConnections
  Careful,          \* no listener closes the server whose connections are being accepted
  Once,             \* a server is neither closed nor listened on again after close()
  None

Handles == 0..(MaxHandles - 1)

Objects == Servers \cup Conns

ASSUME NetServerAssumption ==
  /\ MaxHandles \in Nat \ {0} /\ MaxConnections \in Nat
  /\ Tls \subseteq Servers /\ Servers \cap Conns = {}
  /\ None \notin Objects /\ Objects \cap Nat = {} /\ None \notin Nat
  /\ Careful \in BOOLEAN /\ Once \in BOOLEAN

VARIABLES
  table,    \* the host: which object's socket an index holds
  id,       \* the index an object holds
  poll,     \* the poller: watchers, outstanding timers, and pollTimer
  at,       \* where the thread is
  srv,      \* per server: listening, _closing, _closedEmitted, callers of close(), 'close'
  phase,    \* per client
  home,     \* the server whose address the client connected to
  owner,    \* the server that took the client
  due       \* microtasks and ticks that change something, in any order

vars == <<table, id, poll, at, srv, phase, home, owner, due>>

Event(ev, of) == [ev |-> ev, of |-> of]

Events == [ev : {"close", "gone"}, of : Objects]

TypeOK ==
  /\ table \in [Handles -> Objects \cup {None}]
  /\ id \in [Objects -> Handles \cup {None}]
  /\ poll \in [watch : [Handles -> Objects \cup {None}], timers : Nat, armed : BOOLEAN]
  /\ at \in [op : {"idle", "pass", "accept"}, ready : SUBSET Handles, who : Servers \cup {None}, heard : BOOLEAN]
  /\ srv \in [Servers -> [listening : BOOLEAN, closing : BOOLEAN, said : BOOLEAN, asked : BOOLEAN, emitted : BOOLEAN]]
  /\ phase \in [Conns -> {"new", "waiting", "handshake", "open", "destroyed", "gone"}]
  /\ home \in [Conns -> Servers \cup {None}] /\ owner \in [Conns -> Servers \cup {None}]
  /\ due \subseteq Events
  /\ \A e \in due : e.ev = "close" => srv[e.of].closing

Idle == [op |-> "idle", ready |-> {}, who |-> None, heard |-> FALSE]

Init ==
  /\ table = [h \in Handles |-> None]
  /\ id = [x \in Objects |-> None]
  /\ poll = [watch |-> [h \in Handles |-> None], timers |-> 0, armed |-> FALSE]
  /\ at = Idle
  /\ srv = [s \in Servers |-> [listening |-> FALSE, closing |-> FALSE, said |-> FALSE, asked |-> FALSE, emitted |-> FALSE]]
  /\ phase = [c \in Conns |-> "new"]
  /\ home = [c \in Conns |-> None] /\ owner = [c \in Conns |-> None]
  /\ due = {}

------------------------------------------------------------------------------
(* The host's table and the poller's map.                                  *)

Free == {h \in Handles : table[h] = None}

Lowest == CHOOSE h \in Free : \A g \in Free : h <= g

Backlog(s) == {c \in Conns : home[c] = s /\ phase[c] = "waiting"}

\* server._connections
Connections(s) == {c \in Conns : owner[c] = s /\ phase[c] \in {"open", "destroyed"}}

\* A mistake: nothing makes the poller run.
WatchOnly(p, h, x) == [p EXCEPT !.watch[h] = x]

Watch(p, h, x) ==
  [watch |-> [p.watch EXCEPT ![h] = x], timers |-> IF p.armed THEN p.timers ELSE p.timers + 1, armed |-> TRUE]

\* A mistake: the handler stays in the map.
UnwatchLater(p, h) == p

Unwatch(p, h) == [p EXCEPT !.watch[h] = None]

Opens(x, h) == table' = [table EXCEPT ![h] = x] /\ id' = [id EXCEPT ![x] = h]

Closes(x) == table' = [table EXCEPT ![id[x]] = None] /\ id' = [id EXCEPT ![x] = None]

\* A mistake: the connections are not asked.
ClosedAtOnce(sv, empty) == sv.closing /\ ~sv.said

\* _maybeClosed
Closed(sv, empty) == sv.closing /\ empty /\ ~sv.said

------------------------------------------------------------------------------
(* The program: between tasks, or in a listener.                           *)

MayAct == at.op = "idle" \/ at.heard

\* listen(); when the host refuses, nothing changes and 'error' is emitted.
Listen(s) ==
  /\ MayAct /\ id[s] = None
  /\ Once => ~srv[s].closing
  /\ Free # {}
  /\ Opens(s, Lowest)
  /\ poll' = Watch(poll, Lowest, s)
  /\ srv' = [srv EXCEPT ![s].listening = TRUE, ![s].emitted = FALSE]
  /\ UNCHANGED <<at, phase, home, owner, due>>

\* close(callback); the host drops the clients that wait.
Close(s) ==
  /\ MayAct
  /\ Careful => at.who # s
  /\ Once => ~srv[s].closing
  /\ IF id[s] = None THEN UNCHANGED <<table, id, poll, phase>>
     ELSE /\ Closes(s)
          /\ poll' = Unwatch(poll, id[s])
          /\ phase' = [c \in Conns |-> IF c \in Backlog(s) THEN "gone" ELSE phase[c]]
  /\ LET sv   == [srv[s] EXCEPT !.listening = FALSE, !.closing = TRUE, !.asked = TRUE]
         last == Closed(sv, Connections(s) = {})
     IN  /\ srv' = [srv EXCEPT ![s] = [sv EXCEPT !.said = @ \/ last]]
         /\ due' = IF last THEN due \cup {Event("close", s)} ELSE due
  /\ UNCHANGED <<at, home, owner>>

\* socket.destroy(), for whatever reason; its 'close' comes in a tick.
Destroy(c) ==
  /\ MayAct /\ phase[c] = "open"
  /\ Closes(c)
  /\ poll' = Unwatch(poll, id[c])
  /\ phase' = [phase EXCEPT ![c] = "destroyed"]
  /\ due' = due \cup {Event("gone", c)}
  /\ UNCHANGED <<at, srv, home, owner>>

CloseAllConnections(s) ==
  LET all == {c \in Connections(s) : phase[c] = "open"}
  IN  /\ MayAct /\ all # {}
      /\ table' = [h \in Handles |-> IF table[h] \in all THEN None ELSE table[h]]
      /\ id' = [x \in Objects |-> IF x \in all THEN None ELSE id[x]]
      /\ poll' = [poll EXCEPT !.watch = [h \in Handles |-> IF @[h] \in all THEN None ELSE @[h]]]
      /\ phase' = [c \in Conns |-> IF c \in all THEN "destroyed" ELSE phase[c]]
      /\ due' = due \cup {Event("gone", c) : c \in all}
      /\ UNCHANGED <<at, srv, home, owner>>

------------------------------------------------------------------------------
(* The clients.                                                            *)

Connect(c, s) ==
  /\ phase[c] = "new" /\ id[s] # None
  /\ phase' = [phase EXCEPT ![c] = "waiting"]
  /\ home' = [home EXCEPT ![c] = s]
  /\ UNCHANGED <<table, id, poll, at, srv, owner, due>>

------------------------------------------------------------------------------
(* The poller.                                                             *)

\* What native.poll reports: every listener with a client, any open handshake.
Ready ==
  {h \in Handles : poll.watch[h] # None /\ table[h] \in Servers /\ Backlog(table[h]) # {}}

Shaking(h) == poll.watch[h] \in Conns /\ phase[poll.watch[h]] = "handshake"

Unfinished == {h \in Handles : Shaking(h)}

Watched == {h \in Handles : poll.watch[h] # None}

PollTick ==
  /\ at = Idle /\ due = {} /\ poll.timers > 0
  /\ poll' = [poll EXCEPT !.timers = @ - 1, !.armed = FALSE]
  /\ IF Watched = {} THEN UNCHANGED at
     ELSE \E some \in SUBSET Unfinished : at' = [at EXCEPT !.op = "pass", !.ready = Ready \cup some]
  /\ UNCHANGED <<table, id, srv, phase, home, owner, due>>

\* A handler that was removed since poll() is not run.
ServeServer(h) ==
  /\ at.op = "pass" /\ ~at.heard /\ h \in at.ready /\ ~Shaking(h)
  /\ at' = IF poll.watch[h] \in Servers
             THEN [at EXCEPT !.op = "accept", !.ready = @ \ {h}, !.who = poll.watch[h]]
             ELSE [at EXCEPT !.ready = @ \ {h}]
  /\ UNCHANGED <<table, id, poll, srv, phase, home, owner, due>>

\* One step of a TLS handshake: not done, done, or failed or timed out.
ServeHandshake(h) ==
  /\ at.op = "pass" /\ ~at.heard /\ h \in at.ready /\ Shaking(h)
  /\ LET c == poll.watch[h]
     IN  \/ /\ at' = [at EXCEPT !.ready = @ \ {h}]
            /\ UNCHANGED <<table, id, poll, phase>>
         \/ /\ at' = [at EXCEPT !.ready = @ \ {h}, !.heard = TRUE]
            /\ phase' = [phase EXCEPT ![c] = "open"]
            /\ poll' = Watch(Unwatch(poll, h), h, c)
            /\ UNCHANGED <<table, id>>
         \/ /\ at' = [at EXCEPT !.ready = @ \ {h}, !.heard = TRUE]
            /\ phase' = [phase EXCEPT ![c] = "gone"]
            /\ Closes(c)
            /\ poll' = Unwatch(poll, h)
  /\ UNCHANGED <<srv, home, owner, due>>

PassEnds ==
  /\ at.op = "pass" /\ ~at.heard /\ at.ready = {}
  /\ at' = Idle
  /\ poll' = IF Watched = {} THEN poll ELSE [poll EXCEPT !.timers = @ + 1, !.armed = TRUE]
  /\ UNCHANGED <<table, id, srv, phase, home, owner, due>>

ListenerReturns ==
  /\ at.heard
  /\ at' = [at EXCEPT !.heard = FALSE]
  /\ UNCHANGED <<table, id, poll, srv, phase, home, owner, due>>

------------------------------------------------------------------------------
(* server._accept, one turn of its loop at a time.                         *)

\* native.accept(this.id); the host reads null as 0.
Accepting == IF id[at.who] = None THEN 0 ELSE id[at.who]

AcceptNobody ==
  /\ at.op = "accept" /\ ~at.heard
  /\ table[Accepting] \in Servers /\ Free # {} /\ Backlog(table[Accepting]) = {}
  /\ at' = [at EXCEPT !.op = "pass", !.who = None]
  /\ UNCHANGED <<table, id, poll, srv, phase, home, owner, due>>

\* No listener at that index, or no room in the table: 'error'.
AcceptFails ==
  /\ at.op = "accept" /\ ~at.heard
  /\ table[Accepting] \notin Servers \/ Free = {}
  /\ at' = [at EXCEPT !.op = "pass", !.who = None, !.heard = TRUE]
  /\ UNCHANGED <<table, id, poll, srv, phase, home, owner, due>>

Full(s) == Cardinality(Connections(s)) >= MaxConnections

Accept(c) ==
  /\ at.op = "accept" /\ ~at.heard
  /\ table[Accepting] \in Servers /\ Free # {} /\ c \in Backlog(table[Accepting])
  /\ IF Full(at.who)
       THEN phase' = [phase EXCEPT ![c] = "gone"] /\ UNCHANGED <<table, id, poll, at, owner>>
       ELSE /\ owner' = [owner EXCEPT ![c] = at.who]
            /\ \/ /\ Opens(c, Lowest) /\ poll' = Watch(poll, Lowest, c)
                  /\ \E done \in IF at.who \in Tls THEN BOOLEAN ELSE {TRUE} :
                       /\ phase' = [phase EXCEPT ![c] = IF done THEN "open" ELSE "handshake"]
                       /\ at' = [at EXCEPT !.heard = done]
               \/ /\ at.who \in Tls
                  /\ phase' = [phase EXCEPT ![c] = "gone"]
                  /\ poll' = Unwatch(Watch(poll, Lowest, c), Lowest)
                  /\ at' = [at EXCEPT !.heard = TRUE]
                  /\ UNCHANGED <<table, id>>
  /\ UNCHANGED <<srv, home, due>>

------------------------------------------------------------------------------
(* Microtasks and ticks.                                                   *)

\* A mistake: the server is not told that the connection is gone.
ForgetConnection(e) ==
  /\ at = Idle /\ e \in due /\ e.ev = "gone"
  /\ phase' = [phase EXCEPT ![e.of] = "gone"]
  /\ due' = due \ {e}
  /\ UNCHANGED <<table, id, poll, at, srv, home, owner>>

\* 'close' of a connection
ConnectionGone(e) ==
  /\ at = Idle /\ e \in due /\ e.ev = "gone"
  /\ phase' = [phase EXCEPT ![e.of] = "gone"]
  /\ LET s    == owner[e.of]
         last == Closed(srv[s], Connections(s) = {e.of})
     IN  /\ srv' = [srv EXCEPT ![s].said = @ \/ last]
         /\ due' = IF last THEN (due \ {e}) \cup {Event("close", s)} ELSE due \ {e}
  /\ UNCHANGED <<table, id, poll, at, home, owner>>

\* 'close' of a server: whoever called close(callback) is answered.
ServerClosed(e) ==
  /\ at = Idle /\ e \in due /\ e.ev = "close"
  /\ srv' = [srv EXCEPT ![e.of].asked = FALSE, ![e.of].emitted = TRUE]
  /\ due' = due \ {e}
  /\ UNCHANGED <<table, id, poll, at, phase, home, owner>>

------------------------------------------------------------------------------

Program ==
  \/ \E s \in Servers : Listen(s) \/ Close(s) \/ CloseAllConnections(s)
  \/ \E c \in Conns : Destroy(c)

Pass ==
  \/ \E h \in Handles : ServeServer(h) \/ ServeHandshake(h)
  \/ PassEnds \/ ListenerReturns \/ AcceptNobody \/ AcceptFails
  \/ \E c \in Conns : Accept(c)

Tick(e) == ConnectionGone(e) \/ ServerClosed(e)

Ticks == \E e \in due : Tick(e)

Next == Program \/ Pass \/ Ticks \/ PollTick \/ \E c \in Conns, s \in Servers : Connect(c, s)

Spec == Init /\ [][Next]_vars

\* Timers fire, a pass runs to its end, ticks and microtasks run.
FairSpec == Spec /\ WF_vars(Pass) /\ WF_vars(Ticks) /\ WF_vars(PollTick)

------------------------------------------------------------------------------
(* Properties.                                                             *)

\* An object uses its own entry of the host's table and no entry is left behind;
\* the poller's handler of an index is that of the socket that is there now.
HandlesArePrivate ==
  /\ \A x \in Objects : id[x] # None => table[id[x]] = x
  /\ \A h \in Handles : table[h] # None => id[table[h]] = h
  /\ \A h \in Handles : poll.watch[h] # None => poll.watch[h] = table[h]

\* Whatever handlers did to the watched sockets, the poller goes on while one is
\* watched: otherwise every socket of the process would hang.
PollerRuns == at = Idle /\ Watched # {} => poll.timers > 0

\* 'close' of a plain server comes after the 'close' of its last connection and
\* with no listening socket (_track, _maybeClosed).
CloseIsLast ==
  \A s \in Servers \ Tls : srv[s].emitted => Connections(s) = {} /\ ~srv[s].listening

\* close(callback) is answered once the connections are gone.
CloseIsAnswered ==
  \A s \in Servers : srv[s].asked ~> (~srv[s].asked \/ Connections(s) # {})

\* A client that waits at an open server is taken or refused, unless the host's
\* table stays full.
BacklogServed == \A c \in Conns : phase[c] = "waiting" ~> (phase[c] # "waiting" \/ Free = {})

\* A connection belongs to the server its client connected to.
ConnectionsStayHome == \A c \in Conns : owner[c] # None => owner[c] = home[c]

\* "One poller serves every open socket and listener."
OnePoller == poll.timers <= 1

==============================================================================
