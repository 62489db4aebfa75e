------------------------------- MODULE Cluster -------------------------------
(***************************************************************************)
(* node:cluster (quickjs/runtime/node-cluster.js): one primary, its forked *)
(* workers, and the IPC channel between the primary and each worker.       *)
(*                                                                         *)
(* A worker that calls server.listen(address) binds a private server and   *)
(* asks the primary ("queryServer") to accept on the real address; the     *)
(* primary keeps one entry per address with the workers that share it.     *)
(*                                                                         *)
(* A channel is a pair of FIFO queues of whole messages: how bytes become  *)
(* messages is the subject of IpcChannel.  Each end of a channel is a      *)
(* descriptor of its own: what an end wrote before it closed can still be  *)
(* read, a write to a closed end fails (EPIPE), and an end that closes     *)
(* from inside a 'message' listener still dispatches the lines it had      *)
(* already read (Channel.split runs to the end of its buffer).             *)
(*                                                                         *)
(* A server is named by the address it listens on: each worker listens at  *)
(* most once per address.  The order of an entry's workers is left out:    *)
(* route() may pick any of them.                                           *)
(***************************************************************************)
EXTENDS Naturals, Sequences, FiniteSets

CONSTANTS
  Workers,     \* worker ids that cluster.fork() may hand out
  Keys,        \* addresses ("host:port") the workers' programs listen on
  Taken,       \* addresses another process may hold: listen() may fail
  Attentive,   \* workers whose program has a 'message' or 'disconnect' listener
  EarlyClose,  \* may a program close a server before it saw 'listening'?
  MaxUpsets,   \* bound: how many times the programs or the system end, close
               \*        or disconnect something (see Upset)
  None         \* the key of a message that concerns no server

ASSUME KeysAssumption == IsFiniteSet(Keys) /\ None \notin Keys
ASSUME TakenAssumption == Taken \subseteq Keys /\ Attentive \subseteq Workers
ASSUME BoundAssumption == EarlyClose \in BOOLEAN /\ MaxUpsets \in Nat

VARIABLES
  \* ---- the primary
  up,        \* the primary's process runs
  pconn,     \* worker.isConnected() as the primary sees it
  listed,    \* cluster.workers
  pstate,    \* worker.state
  pvol,      \* worker.exitedAfterDisconnect
  killing,   \* workers whose 'disconnect' event will be followed by a kill
  discEv,    \* the child's 'disconnect' event: no, queued (nextTick), done
  exitEv,    \* the child's 'exit' event
  phase,     \* of the entry of each key: none, binding, failing, bound
  members,   \* entry.workers
  waiters,   \* entry.waiters
  late,      \* waiters of entries dropped before their listen() settled
  waitFor,   \* workers cluster.disconnect() still waits for
  allGone,   \* cluster.disconnect(): idle, waiting, called (the callback)
  \* ---- the channels
  toPrimary, toWorker,
  \* ---- the workers
  proc,      \* unborn, booting, running, dead, errored (an 'error' event of
             \* process nobody handles), faulted (a TypeError of the module)
  wconn,     \* process.connected in the worker
  wdisc,     \* the worker's own 'disconnect' event
  srv,       \* the server of each key
  busy,      \* keys whose private server has a connection open
  waits,     \* per disconnectWorker() call: servers it waits to see closed
  wvol,      \* cluster.worker.exitedAfterDisconnect
  dying,     \* worker.kill() was called in the worker
  \* ---- the bound
  upsets     \* upsets so far

primaryVars == <<up, pconn, listed, pstate, pvol, killing, discEv, exitEv,
                 phase, members, waiters, late, waitFor, allGone>>
entryVars   == <<phase, members, waiters, late>>
workerVars  == <<proc, wconn, wdisc, srv, busy, waits, wvol, dying>>
stateVars   == <<primaryVars, toPrimary, toWorker, workerVars>>
vars        == <<stateVars, upsets>>

------------------------------------------------------------------------------
(* Messages.                                                               *)

Up(act, k)  == [act |-> act, key |-> k]
Down(act, k, result) == [act |-> act, key |-> k, result |-> result]

UpMsg == [act : {"queryServer", "listening", "closeServer"}, key : Keys]
         \cup [act : {"online", "exitedAfterDisconnect"}, key : {None}]

DownMsg == [act : {"queryServerReply"}, key : Keys, result : {"ok", "error", "null"}]
           \cup [act : {"disconnect"}, key : {None}, result : {"none"}]

\* What an entry dropped before its listen() settled still owes its waiters.
Orphan  == [key : Keys, waiters : SUBSET Workers, result : {"error", "null"}]

TypeOK ==
  /\ up \in BOOLEAN
  /\ pconn \in [Workers -> BOOLEAN]
  /\ listed \subseteq Workers
  /\ pstate \in [Workers -> {"none", "online", "listening", "disconnected", "dead"}]
  /\ pvol \in [Workers -> {"undefined", "true", "false"}]
  /\ killing \subseteq Workers
  /\ discEv \in [Workers -> {"no", "queued", "done"}]
  /\ exitEv \in [Workers -> {"no", "queued", "done"}]
  /\ phase \in [Keys -> {"none", "binding", "failing", "bound"}]
  /\ members \in [Keys -> SUBSET Workers]
  /\ waiters \in [Keys -> SUBSET Workers]
  /\ late \subseteq Orphan
  /\ waitFor \subseteq Workers
  /\ allGone \in {"idle", "waiting", "called"}
  /\ toPrimary \in [Workers -> Seq(UpMsg)]
  /\ toWorker \in [Workers -> Seq(DownMsg)]
  /\ proc \in [Workers -> {"unborn", "booting", "running", "dead", "errored", "faulted"}]
  /\ wconn \in [Workers -> BOOLEAN]
  /\ wdisc \in [Workers -> {"no", "queued", "done"}]
  /\ srv \in [Workers -> [Keys -> {"none", "starting", "aborted", "querying",
                                   "listening", "closing", "closed"}]]
  /\ busy \in [Workers -> SUBSET Keys]
  /\ waits \in [Workers -> SUBSET SUBSET Keys]
  /\ wvol \in [Workers -> BOOLEAN]
  /\ dying \in [Workers -> BOOLEAN]
  /\ upsets \in 0..MaxUpsets

Init ==
  /\ up = TRUE
  /\ pconn = [w \in Workers |-> FALSE]
  /\ listed = {}
  /\ pstate = [w \in Workers |-> "none"]
  /\ pvol = [w \in Workers |-> "undefined"]
  /\ killing = {}
  /\ discEv = [w \in Workers |-> "no"]
  /\ exitEv = [w \in Workers |-> "no"]
  /\ phase = [k \in Keys |-> "none"]
  /\ members = [k \in Keys |-> {}]
  /\ waiters = [k \in Keys |-> {}]
  /\ late = {}
  /\ waitFor = {}
  /\ allGone = "idle"
  /\ toPrimary = [w \in Workers |-> <<>>]
  /\ toWorker = [w \in Workers |-> <<>>]
  /\ proc = [w \in Workers |-> "unborn"]
  /\ wconn = [w \in Workers |-> FALSE]
  /\ wdisc = [w \in Workers |-> "no"]
  /\ srv = [w \in Workers |-> [k \in Keys |-> "none"]]
  /\ busy = [w \in Workers |-> {}]
  /\ waits = [w \in Workers |-> {}]
  /\ wvol = [w \in Workers |-> FALSE]
  /\ dying = [w \in Workers |-> FALSE]
  /\ upsets = 0

------------------------------------------------------------------------------
(* The primary's table of entries.                                         *)

\* worker.isDead(): the exit status has been read.
IsDead(w) == exitEv[w] # "no"

\* removeHandlesForWorker of the workers in T, or closeServer for one key: an
\* entry that loses its last worker is dropped and its server closed.  A
\* listen() still unsettled answers its waiters all the same: with its error,
\* or with the address of a closed server, which is null.
\* (Mutant of Dropped: an entry goes with the first of its workers.)
DroppedWithOthers(T, ks) == {k \in ks : phase[k] # "none" /\ members[k] \cap T # {}}

Dropped(T, ks) == {k \in ks : phase[k] # "none" /\ members[k] \subseteq T}

Unsettled(k) == [key |-> k, waiters |-> waiters[k],
                 result |-> IF phase[k] = "failing" THEN "error" ELSE "null"]

\* (Mutant of DropMembers: forgets the entries whose listen() is unsettled.)
DropSettledMembers(T, ks) ==
  LET settled == {k \in ks : phase[k] = "bound"} IN
  /\ members' = [k \in Keys |-> IF k \in settled THEN members[k] \ T ELSE members[k]]
  /\ phase' = [k \in Keys |-> IF k \in Dropped(T, settled) THEN "none" ELSE phase[k]]
  /\ UNCHANGED <<waiters, late>>

DropMembers(T, ks) ==
  /\ members' = [k \in Keys |-> IF k \in ks THEN members[k] \ T ELSE members[k]]
  /\ phase' = [k \in Keys |-> IF k \in Dropped(T, ks) THEN "none" ELSE phase[k]]
  /\ waiters' = [k \in Keys |-> IF k \in Dropped(T, ks) THEN {} ELSE waiters[k]]
  /\ late' = late \cup {Unsettled(k) : k \in
                 {j \in Dropped(T, ks) : phase[j] \in {"binding", "failing"}}}

------------------------------------------------------------------------------
(* The primary's end of the channels.                                      *)

\* Of the workers in T, those whose write succeeds and those that answer EPIPE.
Reached(T) == {w \in T : pconn[w] /\ wconn[w]}
Broken(T)  == {w \in T : pconn[w] /\ ~wconn[w]}

\* Channel.close on the primary's side, for the workers in H.
HangUp(H) ==
  /\ pconn' = [w \in Workers |-> pconn[w] /\ w \notin H]
  /\ discEv' = [w \in Workers |-> IF w \in H THEN "queued" ELSE discEv[w]]

\* Sends m to every worker in T that is still connected; `read` is what the
\* handler left of the primary's inboxes.  An end that a failed write closes
\* keeps the lines of its current dispatch (`kept`) and loses the unread ones.
SendTo(T, m, read) ==
  \E kept \in SUBSET Broken(T) :
    /\ toWorker' = [w \in Workers |->
         IF w \in Reached(T) THEN Append(toWorker[w], m) ELSE toWorker[w]]
    /\ toPrimary' = [w \in Workers |->
         IF w \in Broken(T) \ kept THEN <<>> ELSE read[w]]
    /\ HangUp(Broken(T))

\* The end of a worker's process: its descriptors close.
End(w, how) ==
  /\ proc' = [proc EXCEPT ![w] = how]
  /\ wconn' = [wconn EXCEPT ![w] = FALSE]
  /\ toWorker' = [toWorker EXCEPT ![w] = <<>>]
  /\ busy' = [busy EXCEPT ![w] = {}]
  /\ UNCHANGED <<wdisc, srv, waits, wvol, dying>>

Alive(w) == proc[w] = "running"
Gone(w)  == proc[w] \in {"dead", "errored", "faulted"}

------------------------------------------------------------------------------
(* The primary: fork() and the internal messages of a worker.              *)

Fork(w) ==
  /\ up /\ proc[w] = "unborn"
  /\ proc' = [proc EXCEPT ![w] = "booting"]
  /\ pconn' = [pconn EXCEPT ![w] = TRUE]
  /\ wconn' = [wconn EXCEPT ![w] = TRUE]
  /\ listed' = listed \cup {w}
  /\ UNCHANGED <<up, pstate, pvol, killing, discEv, exitEv, entryVars, waitFor,
                 allGone, toPrimary, toWorker, wdisc, srv, busy, waits, wvol, dying>>

\* A line of w's channel may be dispatched: the end is open, or it closed
\* during a dispatch and its 'disconnect' event has not run yet.
Dispatching(w, act) ==
  /\ up
  /\ pconn[w] \/ discEv[w] = "queued"
  /\ toPrimary[w] # <<>> /\ Head(toPrimary[w]).act = act

Rest(w) == [toPrimary EXCEPT ![w] = Tail(@)]

OnOnline(w) ==
  /\ Dispatching(w, "online")
  /\ toPrimary' = Rest(w)
  /\ pstate' = [pstate EXCEPT ![w] = "online"]
  /\ UNCHANGED <<up, pconn, listed, pvol, killing, discEv, exitEv, entryVars,
                 waitFor, allGone, toWorker, workerVars>>

OnListening(w) ==
  /\ Dispatching(w, "listening")
  /\ toPrimary' = Rest(w)
  /\ pstate' = [pstate EXCEPT ![w] = "listening"]
  /\ UNCHANGED <<up, pconn, listed, pvol, killing, discEv, exitEv, entryVars,
                 waitFor, allGone, toWorker, workerVars>>

OnExitedAfterDisconnect(w) ==
  /\ Dispatching(w, "exitedAfterDisconnect")
  /\ toPrimary' = Rest(w)
  /\ pvol' = [pvol EXCEPT ![w] = "true"]
  /\ UNCHANGED <<up, pconn, listed, pstate, killing, discEv, exitEv, entryVars,
                 waitFor, allGone, toWorker, workerVars>>

OnCloseServer(w) ==
  /\ Dispatching(w, "closeServer")
  /\ toPrimary' = Rest(w)
  /\ DropMembers({w}, {Head(toPrimary[w]).key})
  /\ UNCHANGED <<up, pconn, listed, pstate, pvol, killing, discEv, exitEv,
                 waitFor, allGone, toWorker, workerVars>>

\* queryServer for an address that has no entry: listen() binds at once, its
\* 'listening' or 'error' follows as a microtask.
QueryFirst(w) ==
  /\ Dispatching(w, "queryServer")
  /\ LET k == Head(toPrimary[w]).key IN
     /\ phase[k] = "none"
     /\ \E fails \in IF k \in Taken THEN BOOLEAN ELSE {FALSE} :
          phase' = [phase EXCEPT ![k] = IF fails THEN "failing" ELSE "binding"]
     /\ members' = [members EXCEPT ![k] = {w}]
     /\ waiters' = [waiters EXCEPT ![k] = {w}]
  /\ toPrimary' = Rest(w)
  /\ UNCHANGED <<up, pconn, listed, pstate, pvol, killing, discEv, exitEv, late,
                 waitFor, allGone, toWorker, workerVars>>

\* queryServer while the entry's listen() is unsettled.
QueryWaiting(w) ==
  /\ Dispatching(w, "queryServer")
  /\ LET k == Head(toPrimary[w]).key IN
     /\ phase[k] \in {"binding", "failing"}
     /\ members' = [members EXCEPT ![k] = @ \cup {w}]
     /\ waiters' = [waiters EXCEPT ![k] = @ \cup {w}]
  /\ toPrimary' = Rest(w)
  /\ UNCHANGED <<up, pconn, listed, pstate, pvol, killing, discEv, exitEv, phase,
                 late, waitFor, allGone, toWorker, workerVars>>

\* queryServer for an address the primary listens on: answered at once.
QueryBound(w) ==
  /\ Dispatching(w, "queryServer")
  /\ LET k == Head(toPrimary[w]).key IN
     /\ phase[k] = "bound"
     /\ members' = [members EXCEPT ![k] = @ \cup {w}]
     /\ SendTo({w}, Down("queryServerReply", k, "ok"), Rest(w))
  /\ UNCHANGED <<up, listed, pstate, pvol, killing, exitEv, phase, waiters, late,
                 waitFor, allGone, workerVars>>

\* The microtask after listen() succeeded: 'listening'.
ListenDone(k) ==
  /\ up /\ phase[k] = "binding"
  /\ phase' = [phase EXCEPT ![k] = "bound"]
  /\ waiters' = [waiters EXCEPT ![k] = {}]
  /\ SendTo(waiters[k], Down("queryServerReply", k, "ok"), toPrimary)
  /\ UNCHANGED <<up, listed, pstate, pvol, killing, exitEv, members, late,
                 waitFor, allGone, workerVars>>

\* (Mutant of ListenFailed: the error is kept to itself.)
ListenFailedSilently(k) ==
  /\ up /\ phase[k] = "failing"
  /\ phase' = [phase EXCEPT ![k] = "none"]
  /\ members' = [members EXCEPT ![k] = {}]
  /\ waiters' = [waiters EXCEPT ![k] = {}]
  /\ UNCHANGED <<up, pconn, listed, pstate, pvol, killing, discEv, exitEv, late,
                 waitFor, allGone, toPrimary, toWorker, workerVars>>

\* The microtask after listen() failed: 'error', the entry is forgotten.
ListenFailed(k) ==
  /\ up /\ phase[k] = "failing"
  /\ phase' = [phase EXCEPT ![k] = "none"]
  /\ members' = [members EXCEPT ![k] = {}]
  /\ waiters' = [waiters EXCEPT ![k] = {}]
  /\ SendTo(waiters[k], Down("queryServerReply", k, "error"), toPrimary)
  /\ UNCHANGED <<up, listed, pstate, pvol, killing, exitEv, late, waitFor,
                 allGone, workerVars>>

\* The same microtask for an entry that was dropped in the meantime.
ListenSettledLate(o) ==
  /\ up /\ o \in late
  /\ late' = late \ {o}
  /\ SendTo(o.waiters, Down("queryServerReply", o.key, o.result), toPrimary)
  /\ UNCHANGED <<up, listed, pstate, pvol, killing, exitEv, phase, members,
                 waiters, waitFor, allGone, workerVars>>

------------------------------------------------------------------------------
(* The primary: the end of a worker.                                       *)

\* The worker closed its end and everything it wrote has been read.
PrimaryEOF(w) ==
  /\ up /\ pconn[w] /\ ~wconn[w] /\ toPrimary[w] = <<>>
  /\ HangUp({w})
  /\ UNCHANGED <<up, listed, pstate, pvol, killing, exitEv, entryVars, waitFor,
                 allGone, toPrimary, toWorker, workerVars>>

\* ChildProcess._onExit: the exit status is read, the channel drained and
\* closed; 'disconnect' is queued before 'exit'.
Reap(w) ==
  /\ up /\ Gone(w) /\ exitEv[w] = "no" /\ toPrimary[w] = <<>>
  /\ exitEv' = [exitEv EXCEPT ![w] = "queued"]
  /\ HangUp({w} \cap Broken(Workers))
  /\ UNCHANGED <<up, listed, pstate, pvol, killing, entryVars, waitFor, allGone,
                 toPrimary, toWorker, workerVars>>

Known(w) == IF pvol[w] = "undefined" THEN "false" ELSE pvol[w]

\* child.once("disconnect"), then the once-listeners of the worker: the kill
\* that worker.kill() postponed, and the count of cluster.disconnect().
DisconnectEvent(w) ==
  /\ up /\ discEv[w] = "queued" /\ toPrimary[w] = <<>>
  /\ discEv' = [discEv EXCEPT ![w] = "done"]
  /\ DropMembers({w}, Keys)
  /\ listed' = IF IsDead(w) THEN listed \ {w} ELSE listed
  /\ pvol' = [pvol EXCEPT ![w] = Known(w)]
  /\ pstate' = [pstate EXCEPT ![w] = "disconnected"]
  /\ waitFor' = waitFor \ {w}
  /\ allGone' = IF waitFor = {w} THEN "called" ELSE allGone
  /\ killing' = killing \ {w}
  /\ IF w \in killing /\ ~Gone(w) THEN End(w, "dead")
                                  ELSE UNCHANGED <<workerVars, toWorker>>
  /\ UNCHANGED <<up, pconn, exitEv, toPrimary>>

\* child.once("exit").
ExitEvent(w) ==
  /\ up /\ exitEv[w] = "queued" /\ discEv[w] # "queued"
  /\ exitEv' = [exitEv EXCEPT ![w] = "done"]
  /\ IF ~pconn[w] THEN DropMembers({w}, Keys) /\ listed' = listed \ {w}
                  ELSE UNCHANGED <<entryVars, listed>>
  /\ pvol' = [pvol EXCEPT ![w] = Known(w)]
  /\ pstate' = [pstate EXCEPT ![w] = "dead"]
  /\ UNCHANGED <<up, pconn, killing, discEv, waitFor, allGone, toPrimary,
                 toWorker, workerVars>>

------------------------------------------------------------------------------
(* The primary's program.                                                  *)

Forked(w) == proc[w] # "unborn"

\* Worker.prototype.disconnect.
AskDisconnect(w) ==
  /\ up /\ Forked(w)
  /\ pvol' = [pvol EXCEPT ![w] = "true"]
  /\ SendTo({w}, Down("disconnect", None, "none"), toPrimary)
  /\ DropMembers({w}, Keys)
  /\ listed' = listed \ {w}
  /\ UNCHANGED <<up, pstate, killing, exitEv, waitFor, allGone, workerVars>>

\* Worker.prototype.kill of a connected worker: disconnect, kill afterwards.
AskKill(w) ==
  /\ up /\ pconn[w]
  /\ killing' = killing \cup {w}
  /\ pvol' = [pvol EXCEPT ![w] = "true"]
  /\ SendTo({w}, Down("disconnect", None, "none"), toPrimary)
  /\ DropMembers({w}, Keys)
  /\ listed' = listed \ {w}
  /\ UNCHANGED <<up, pstate, exitEv, waitFor, allGone, workerVars>>

\* cluster.disconnect(callback), called once.
DisconnectAll ==
  LET all == {w \in listed : pconn[w]} IN
  /\ up /\ allGone = "idle"
  /\ waitFor' = all
  /\ allGone' = IF all = {} THEN "called" ELSE "waiting"
  /\ pvol' = [w \in Workers |-> IF w \in all THEN "true" ELSE pvol[w]]
  /\ SendTo(all, Down("disconnect", None, "none"), toPrimary)
  /\ DropMembers(all, Keys)
  /\ listed' = listed \ all
  /\ UNCHANGED <<up, pstate, killing, exitEv, workerVars>>

\* worker.process.disconnect(): the primary's program closes the channel itself.
ProcessDisconnect(w) ==
  /\ up /\ pconn[w]
  /\ HangUp({w})
  /\ \E read \in {toPrimary[w], <<>>} : toPrimary' = [toPrimary EXCEPT ![w] = read]
  /\ UNCHANGED <<up, listed, pstate, pvol, killing, exitEv, entryVars, waitFor,
                 allGone, toWorker, workerVars>>

\* The primary's process ends.
PrimaryExit ==
  /\ up
  /\ up' = FALSE
  /\ UNCHANGED <<pconn, listed, pstate, pvol, killing, discEv, exitEv, entryVars,
                 waitFor, allGone, toPrimary, toWorker, workerVars>>

------------------------------------------------------------------------------
(* A worker's end of the channel.                                          *)

\* `servers` of the worker side: what was listened on and not closed since.
Serving(w) == {k \in Keys : srv[w][k] \in {"querying", "listening"}}

\* Channel.wants() in the worker: something keeps its channel polled.
Polled(w) == w \in Attentive \/ Serving(w) # {} \/ dying[w]

PrimaryEnd(w) == up /\ pconn[w]

\* The messages ms leave worker w, whose inbox becomes `inbox`; then, if `leave`,
\* it calls process.disconnect().  A write to a closed end closes this one; a
\* send on a closed channel is an 'error' event of process nobody listens to.
Report(w, ms, inbox, leave) ==
  LET cut  == ms # <<>> /\ ~PrimaryEnd(w)
      hung == wconn[w] /\ (leave \/ cut)
      lost == ~dying[w] /\ (IF wconn[w] THEN cut /\ Len(ms) > 1 ELSE ms # <<>>)
  IN /\ toPrimary' = IF wconn[w] /\ PrimaryEnd(w)
                     THEN [toPrimary EXCEPT ![w] = @ \o ms] ELSE toPrimary
     /\ wconn' = [wconn EXCEPT ![w] = @ /\ ~hung]
     /\ wdisc' = [wdisc EXCEPT ![w] = IF hung THEN "queued" ELSE @]
     /\ \E kept \in {inbox, <<>>} :
          toWorker' = [toWorker EXCEPT ![w] = IF hung THEN kept ELSE inbox]
     /\ proc' = [proc EXCEPT ![w] = IF lost THEN "errored" ELSE @]

Boot(w) ==
  /\ proc[w] = "booting"
  /\ proc' = [proc EXCEPT ![w] = "running"]
  /\ IF PrimaryEnd(w)
     THEN /\ toPrimary' = [toPrimary EXCEPT ![w] = Append(@, Up("online", None))]
          /\ UNCHANGED <<wconn, wdisc>>
     ELSE /\ wconn' = [wconn EXCEPT ![w] = FALSE]
          /\ wdisc' = [wdisc EXCEPT ![w] = "queued"]
          /\ UNCHANGED toPrimary
  /\ UNCHANGED <<primaryVars, toWorker, srv, busy, waits, wvol, dying>>

Inbox(w, act) ==
  /\ Alive(w)
  /\ wconn[w] \/ wdisc[w] = "queued"
  /\ toWorker[w] # <<>> /\ Head(toWorker[w]).act = act

\* queryServerReply: the private server is announced, or closed again.  The
\* address of a dropped entry is null, and reading its family throws.
OnReply(w) ==
  /\ Inbox(w, "queryServerReply")
  /\ LET k == Head(toWorker[w]).key
         result == Head(toWorker[w]).result
         waiting == srv[w][k] = "querying" IN
     CASE result = "ok" ->
            /\ srv' = [srv EXCEPT ![w][k] = IF waiting THEN "listening" ELSE @]
            /\ Report(w, <<Up("listening", k)>>, Tail(toWorker[w]), FALSE)
       [] result = "error" ->
            /\ srv' = [srv EXCEPT ![w][k] = IF waiting THEN "closing" ELSE @]
            /\ Report(w, <<>>, Tail(toWorker[w]), FALSE)
       [] OTHER ->
            /\ proc' = [proc EXCEPT ![w] = "faulted"]
            /\ wconn' = [wconn EXCEPT ![w] = FALSE]
            /\ toWorker' = [toWorker EXCEPT ![w] = <<>>]
            /\ UNCHANGED <<srv, toPrimary, wdisc>>
  /\ UNCHANGED <<primaryVars, busy, waits, wvol, dying>>

\* The closeServer messages of the servers in S, in some order.
CloseOrders(S) ==
  {ms \in [1..Cardinality(S) -> {Up("closeServer", k) : k \in S}] :
     \A k \in S : \E i \in DOMAIN ms : ms[i].key = k}

\* disconnectWorker(): close every server, leave once all of them are closed.
DisconnectWorker(w, inbox) ==
  LET S == Serving(w) IN
  /\ wvol' = [wvol EXCEPT ![w] = TRUE]
  /\ srv' = [srv EXCEPT ![w] = [k \in Keys |-> IF k \in S THEN "closing" ELSE @[k]]]
  /\ waits' = [waits EXCEPT ![w] = IF S = {} THEN @ ELSE @ \cup {S}]
  /\ \E ms \in CloseOrders(S) : Report(w, ms, inbox, S = {})
  /\ UNCHANGED <<primaryVars, busy, dying>>

OnDisconnect(w) ==
  Inbox(w, "disconnect") /\ DisconnectWorker(w, Tail(toWorker[w]))

\* The primary closed its end, or died, and everything it sent has been read.
WorkerEOF(w) ==
  /\ Alive(w) /\ wconn[w] /\ ~PrimaryEnd(w) /\ toWorker[w] = <<>>
  /\ wconn' = [wconn EXCEPT ![w] = FALSE]
  /\ wdisc' = [wdisc EXCEPT ![w] = "queued"]
  /\ UNCHANGED <<primaryVars, toPrimary, toWorker, proc, srv, busy, waits, wvol, dying>>

\* (Mutant of WorkerDiscEvent: only worker.kill() ends the worker.)
WorkerDiscEventStays(w) ==
  /\ Alive(w) /\ wdisc[w] = "queued" /\ toWorker[w] = <<>>
  /\ wdisc' = [wdisc EXCEPT ![w] = "done"]
  /\ IF dying[w]
     THEN /\ proc' = [proc EXCEPT ![w] = "dead"]
          /\ busy' = [busy EXCEPT ![w] = {}]
     ELSE UNCHANGED <<proc, busy>>
  /\ UNCHANGED <<primaryVars, toPrimary, toWorker, wconn, srv, waits, wvol, dying>>

\* process 'disconnect' in the worker: onPrimaryGone is attached only while a
\* server is open; worker.kill() exits in any case.
WorkerDiscEvent(w) ==
  /\ Alive(w) /\ wdisc[w] = "queued" /\ toWorker[w] = <<>>
  /\ wdisc' = [wdisc EXCEPT ![w] = "done"]
  /\ IF dying[w] \/ (Serving(w) # {} /\ ~wvol[w])
     THEN /\ proc' = [proc EXCEPT ![w] = "dead"]
          /\ busy' = [busy EXCEPT ![w] = {}]
     ELSE UNCHANGED <<proc, busy>>
  /\ UNCHANGED <<primaryVars, toPrimary, toWorker, wconn, srv, waits, wvol, dying>>

------------------------------------------------------------------------------
(* A worker's program.                                                     *)

\* server.listen(): the private server is bound, 'listening' is a microtask.
Listen(w, k) ==
  /\ Alive(w) /\ wconn[w] /\ srv[w][k] = "none"
  /\ srv' = [srv EXCEPT ![w][k] = "starting"]
  /\ UNCHANGED <<primaryVars, toPrimary, toWorker, proc, wconn, wdisc, busy, waits, wvol, dying>>

\* That microtask: _clusterBegin.  A server closed meanwhile has no address.
Begin(w, k) ==
  /\ Alive(w) /\ srv[w][k] = "starting"
  /\ srv' = [srv EXCEPT ![w][k] = "querying"]
  /\ Report(w, <<Up("queryServer", k)>>, toWorker[w], FALSE)
  /\ UNCHANGED <<primaryVars, busy, waits, wvol, dying>>

BeginAborted(w, k) ==
  /\ Alive(w) /\ srv[w][k] = "aborted"
  /\ End(w, "faulted")
  /\ UNCHANGED <<primaryVars, toPrimary>>

\* server.close() before the microtask of listen().
CloseStarting(w, k) ==
  /\ EarlyClose /\ Alive(w) /\ srv[w][k] = "starting"
  /\ srv' = [srv EXCEPT ![w][k] = "aborted"]
  /\ UNCHANGED <<primaryVars, toPrimary, toWorker, proc, wconn, wdisc, busy, waits, wvol, dying>>

\* server.close() of a server the primary knows of.
Close(w, k) ==
  /\ Alive(w) /\ k \in Serving(w)
  /\ EarlyClose \/ srv[w][k] = "listening"
  /\ srv' = [srv EXCEPT ![w][k] = "closing"]
  /\ Report(w, <<Up("closeServer", k)>>, toWorker[w], FALSE)
  /\ UNCHANGED <<primaryVars, busy, waits, wvol, dying>>

\* (Mutant of ServerClosed: the disconnect that waits for it does not go on.)
ServerClosedUnheard(w, k) ==
  /\ Alive(w) /\ srv[w][k] = "closing" /\ k \notin busy[w]
  /\ srv' = [srv EXCEPT ![w][k] = "closed"]
  /\ UNCHANGED <<primaryVars, toPrimary, toWorker, proc, wconn, wdisc, busy,
                 waits, wvol, dying>>

\* The server's 'close' event: its connections have ended.
ServerClosed(w, k) ==
  /\ Alive(w) /\ srv[w][k] = "closing" /\ k \notin busy[w]
  /\ srv' = [srv EXCEPT ![w][k] = "closed"]
  /\ waits' = [waits EXCEPT ![w] = {S \ {k} : S \in @} \ {{}}]
  /\ Report(w, <<>>, toWorker[w], {k} \in waits[w])
  /\ UNCHANGED <<primaryVars, busy, wvol, dying>>

\* cluster.worker.disconnect().
CallDisconnect(w) == Alive(w) /\ ~wvol[w] /\ DisconnectWorker(w, toWorker[w])

\* cluster.worker.kill(): tells the primary first when it still can.
CallKill(w) ==
  /\ Alive(w) /\ ~dying[w]
  /\ IF wconn[w]
     THEN /\ wvol' = [wvol EXCEPT ![w] = TRUE]
          /\ dying' = [dying EXCEPT ![w] = TRUE]
          /\ Report(w, <<Up("exitedAfterDisconnect", None)>>, toWorker[w], FALSE)
          /\ UNCHANGED <<srv, busy, waits>>
     ELSE /\ proc' = [proc EXCEPT ![w] = "dead"]
          /\ busy' = [busy EXCEPT ![w] = {}]
          /\ UNCHANGED <<toPrimary, toWorker, wconn, wdisc, srv, waits, wvol, dying>>
  /\ UNCHANGED primaryVars

\* The callback of that message: process.disconnect().
KillSent(w) ==
  /\ Alive(w) /\ dying[w] /\ wconn[w]
  /\ Report(w, <<>>, toWorker[w], TRUE)
  /\ UNCHANGED <<primaryVars, srv, busy, waits, wvol, dying>>

\* The process ends: exit(), a crash, a signal (kill() of a worker that is not
\* connected is one), or nothing left to do.
Exit(w) ==
  /\ proc[w] \in {"booting", "running"}
  /\ End(w, "dead")
  /\ UNCHANGED <<primaryVars, toPrimary>>

------------------------------------------------------------------------------
(* Clients.                                                                *)

\* route(): the primary connects a client to a worker of the entry.  A worker
\* whose private server is closed refuses, and the client is dropped.
Route(w, k) ==
  /\ up /\ phase[k] = "bound" /\ w \in members[k]
  /\ Alive(w) /\ k \in Serving(w) /\ k \notin busy[w]
  /\ busy' = [busy EXCEPT ![w] = @ \cup {k}]
  /\ UNCHANGED <<primaryVars, toPrimary, toWorker, proc, wconn, wdisc, srv, waits, wvol, dying>>

ConnectionEnds(w, k) ==
  /\ k \in busy[w]
  /\ busy' = [busy EXCEPT ![w] = @ \ {k}]
  /\ UNCHANGED <<primaryVars, toPrimary, toWorker, proc, wconn, wdisc, srv, waits, wvol, dying>>

------------------------------------------------------------------------------

OnInternal(w) ==
  \/ OnOnline(w) \/ OnListening(w) \/ OnExitedAfterDisconnect(w)
  \/ OnCloseServer(w) \/ QueryFirst(w) \/ QueryWaiting(w) \/ QueryBound(w)

PrimaryEvents(w) == PrimaryEOF(w) \/ Reap(w) \/ DisconnectEvent(w) \/ ExitEvent(w)

WorkerReads(w) == OnReply(w) \/ OnDisconnect(w) \/ WorkerEOF(w)

ServerSteps(w, k) == Begin(w, k) \/ BeginAborted(w, k) \/ ServerClosed(w, k)

\* What the event loops do by themselves.
Loops ==
  \/ \E k \in Keys : ListenDone(k) \/ ListenFailed(k)
  \/ \E o \in late : ListenSettledLate(o)
  \/ \E w \in Workers :
       \/ OnInternal(w) \/ PrimaryEvents(w)
       \/ Boot(w) \/ WorkerReads(w) \/ WorkerDiscEvent(w) \/ KillSent(w)
       \/ \E k \in Keys : ServerSteps(w, k)

\* What programs and clients do, without limit: the state they use up is finite.
Uses ==
  \E w \in Workers :
    \/ Fork(w)
    \/ \E k \in Keys : Listen(w, k) \/ Route(w, k) \/ ConnectionEnds(w, k)

\* What programs and the system do to end, close or disconnect something.
Upset ==
  \/ PrimaryExit \/ DisconnectAll
  \/ \E w \in Workers :
       \/ AskDisconnect(w) \/ AskKill(w) \/ ProcessDisconnect(w)
       \/ CallDisconnect(w) \/ CallKill(w) \/ Exit(w)
       \/ \E k \in Keys : CloseStarting(w, k) \/ Close(w, k)

Next ==
  \/ (Loops \/ Uses) /\ UNCHANGED upsets
  \/ Upset /\ upsets < MaxUpsets /\ upsets' = upsets + 1

Spec == Init /\ [][Next]_vars

\* Fairness.  The primary's scheduler polls as long as it has a child; a worker's
\* polls only while Channel.wants() says so, although a tick that something else
\* caused reads the channel too.  Clients end their connections.  What programs
\* do is theirs to choose.
Fairness ==
  /\ \A k \in Keys : WF_stateVars(ListenDone(k) \/ ListenFailed(k))
  /\ WF_stateVars(\E o \in late : ListenSettledLate(o))
  /\ \A w \in Workers :
       /\ WF_stateVars(OnInternal(w)) /\ WF_stateVars(PrimaryEvents(w))
       /\ WF_stateVars(Boot(w)) /\ WF_stateVars(WorkerDiscEvent(w)) /\ WF_stateVars(KillSent(w))
       /\ WF_stateVars(Polled(w) /\ WorkerReads(w))
       /\ \A k \in Keys : WF_stateVars(ServerSteps(w, k)) /\ WF_stateVars(ConnectionEnds(w, k))

FairSpec == Spec /\ Fairness

------------------------------------------------------------------------------
(* Properties.                                                             *)

\* Once a worker's 'disconnect' event has run (node-cluster.js:156), no address
\* lists the worker any more, whatever it or the primary's program had in flight.
NoHandleForGoneWorker ==
  \A w \in Workers : discEv[w] = "done" => \A k \in Keys : w \notin members[k]

\* A worker the primary routes to although its server is closed is one the
\* primary is about to hear of: closeServer is on its way, or the channel ended.
StaleMemberIsTransient ==
  up => \A k \in Keys : \A w \in members[k] :
          \/ Alive(w) /\ k \in Serving(w)
          \/ \E i \in DOMAIN toPrimary[w] : toPrimary[w][i] = Up("closeServer", k)
          \/ discEv[w] = "queued" \/ ~wconn[w]

\* A worker that was told it listens gets connections: the primary has a bound
\* entry that lists it, unless a disconnect is on its way to the worker.
AcknowledgedIsRouted ==
  \A w \in Workers, k \in Keys :
    Alive(w) /\ wconn[w] /\ PrimaryEnd(w) /\ srv[w][k] = "listening"
      => \/ phase[k] = "bound" /\ w \in members[k]
         \/ \E i \in DOMAIN toWorker[w] : toWorker[w][i].act = "disconnect"

\* The primary's tables and the workers' servers agree, but for what is on the way:
\* clients go to workers that listen, and workers that listen get clients.
RoutingAgrees == StaleMemberIsTransient /\ AcknowledgedIsRouted

\* 'disconnect' precedes 'exit', and a worker that exited is in no list.
ExitIsLast ==
  \A w \in Workers : exitEv[w] = "done" => discEv[w] = "done" /\ w \notin listed

\* What a worker leaves behind: 'disconnect', then 'exit', and then it is in no table.
WorkerLeavesCleanly == NoHandleForGoneWorker /\ ExitIsLast

\* How a worker ends, as the primary sees it: the connection, the process, the
\* 'disconnect' and 'exit' events and worker.state move together.  Inductive.
EndsOf(w) ==
  /\ pconn[w] => discEv[w] = "no" /\ proc[w] # "unborn"
  /\ proc[w] = "unborn" => discEv[w] = "no" /\ exitEv[w] = "no" /\ wdisc[w] = "no"
  /\ ~pconn[w] /\ proc[w] # "unborn" => discEv[w] # "no"
  /\ Gone(w) \/ wdisc[w] # "no" => ~wconn[w]
  /\ exitEv[w] # "no" => Gone(w) /\ ~pconn[w]
  /\ exitEv[w] = "done" => discEv[w] = "done" /\ w \notin listed
  /\ discEv[w] = "done" => \A k \in Keys : w \notin members[k]
  /\ pstate[w] = "disconnected" => discEv[w] = "done"
  /\ pstate[w] = "dead" <=> exitEv[w] = "done"

WorkerEnds == \A w \in Workers : EndsOf(w)

\* worker.state: after 'disconnect' only 'exit' changes it, and "dead" is final.
StateNeverRegresses ==
  [][\A w \in Workers : pstate'[w] # pstate[w] =>
       /\ pstate[w] # "dead"
       /\ pstate[w] = "disconnected" => pstate'[w] = "dead"]_pstate

\* Every queryServer is answered: a connected worker's server that asked (its
\* listen() has no other outcome to report) stops waiting.
Asking(w, k) == Alive(w) /\ wconn[w] /\ srv[w][k] = "querying"

QueryIsAnswered == \A w \in Workers, k \in Keys : Asking(w, k) ~> ~Asking(w, k)

\* cluster.disconnect(callback) calls back while the primary lives.
DisconnectCompletes == (allGone = "waiting") ~> (allGone = "called" \/ ~up)

\* worker.kill() ends the worker while the primary lives.
KillCompletes == \A w \in Workers : (w \in killing) ~> (Gone(w) \/ ~up)

\* What the primary asked of its workers is done, whatever they do meanwhile.
LeavingCompletes == DisconnectCompletes /\ KillCompletes

\* A worker that serves, and was not told to stop, does not outlive its primary.
Orphaned(w) == ~up /\ Alive(w) /\ Serving(w) # {} /\ ~wvol[w]

NoOrphanServes == \A w \in Workers : Orphaned(w) ~> ~Orphaned(w)

\* No message of the cluster's own machinery makes a worker throw.
NoInternalFault == \A w \in Workers : proc[w] # "faulted"

==============================================================================
