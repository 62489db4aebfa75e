------------------------------- MODULE KvQueue -------------------------------
(***************************************************************************)
(* Deno KV over SQLite (deno-kv.js): commits with checks, queue messages   *)
(* and their retries, and watch(), by several processes on one file.       *)
(*                                                                         *)
(* A process here is one Kv object.  What SQLite runs as one statement or  *)
(* one BEGIN IMMEDIATE ... COMMIT is one step; other processes come between *)
(* two of them, the same process only where JavaScript yields.  One key    *)
(* stands for the keys: set, deleted, watched and written when a message   *)
(* could not be delivered.                                                 *)
(***************************************************************************)
EXTENDS Naturals, Sequences, FiniteSets

CONSTANTS
  Procs,
  Msgs,         \* messages, each enqueued once
  Retries,      \* length of the backoff schedule
  Listeners,    \* processes that may call listenQueue
  Writers,      \* processes that may set and delete the key
  Readers,      \* processes that may watch it
  Mortal,       \* processes that may close, or crash, and open again
  MaxVersion,   \* bound: commits
  MaxCrashes    \* bound: crashes

ASSUME KvQueueAssumption ==
  /\ Listeners \subseteq Procs /\ Writers \subseteq Procs
  /\ Readers \subseteq Procs /\ Mortal \subseteq Procs
  /\ Retries \in Nat /\ MaxVersion \in Nat /\ MaxCrashes \in Nat

VARIABLES
  db,        \* the file: the version, the key's stamp (0: no key), the highest so far
  queue,     \* the file: the table of messages
  proc,      \* per process
  watch,     \* per process: last, and the snapshots that are on their way
  fate,      \* per message
  tries,     \* per message: handlers started
  crashes

vars == <<db, queue, proc, watch, fate, tries, crashes>>

\* `keyed`: enqueued with keysIfUndelivered
Rows == [msg : Msgs, attempts : 0..Retries, keyed : BOOLEAN]

TypeOK ==
  /\ db \in [version : Nat, key : Nat, top : Nat]
  /\ db.key <= db.top /\ db.top <= db.version
  /\ queue \subseteq [row : Rows, ready : BOOLEAN]
  /\ proc \in [Procs -> [open : BOOLEAN, listening : BOOLEAN, timer : BOOLEAN, calls : Nat,
                         at : {"idle", "pump", "delete", "bump", "version", "put"},
                         row : SUBSET Rows, stamp : Nat, running : SUBSET Rows]]
  /\ \A p \in Procs : proc[p].timer => proc[p].listening /\ proc[p].open
  /\ watch \in [Procs -> [on : BOOLEAN, told : BOOLEAN, last : Nat, flight : Seq(Nat)]]
  /\ fate \in [Msgs -> {"new", "queued", "handled", "undelivered", "cut"}]
  /\ tries \in [Msgs -> Nat]
  /\ crashes \in 0..MaxCrashes

Fresh == [open |-> TRUE, listening |-> FALSE, timer |-> FALSE, calls |-> 0, at |-> "idle",
          row |-> {}, stamp |-> 0, running |-> {}]

Unwatched == [on |-> FALSE, told |-> FALSE, last |-> 0, flight |-> <<>>]

Init ==
  /\ db = [version |-> 0, key |-> 0, top |-> 0]
  /\ queue = {}
  /\ proc = [p \in Procs |-> Fresh]
  /\ watch = [p \in Procs |-> Unwatched]
  /\ fate = [m \in Msgs |-> "new"] /\ tries = [m \in Msgs |-> 0]
  /\ crashes = 0

Idle(p) == proc[p].open /\ proc[p].at = "idle"

Put(d, vs) == [d EXCEPT !.key = vs, !.top = IF vs > @ THEN vs ELSE @]

Queued(m) == \E q \in queue : q.row.msg = m

------------------------------------------------------------------------------
(* Committing.                                                             *)

\* A mistake: the version is not counted up.
Unbumped(d) == d

Bumped(d) == [d EXCEPT !.version = @ + 1]

\* _commit of a mutation or a message or both; a check that fails leaves everything
\* as it was.  The microtask of a commit calls _changed.
Commit(p) ==
  /\ Idle(p) /\ db.version < MaxVersion
  /\ \/ db' = Bumped(db)
     \/ p \in Writers /\ db' = [Bumped(db) EXCEPT !.key = 0]
     \/ p \in Writers /\ db' = Put(Bumped(db), Bumped(db).version)
  /\ \/ p \in Writers /\ UNCHANGED <<queue, fate>>
     \/ \E m \in Msgs, keyed \in BOOLEAN, ready \in BOOLEAN :
          /\ fate[m] = "new"
          /\ queue' = queue \cup {[row |-> [msg |-> m, attempts |-> 0, keyed |-> keyed], ready |-> ready]}
          /\ fate' = [fate EXCEPT ![m] = "queued"]
  /\ proc' = [proc EXCEPT ![p].calls = IF proc[p].listening \/ watch[p].on THEN @ + 1 ELSE @]
  /\ UNCHANGED <<watch, tries, crashes>>

------------------------------------------------------------------------------
(* Queues.                                                                 *)

\* listenQueue, which pumps at once
Listen(p) ==
  /\ Idle(p) /\ p \in Listeners /\ ~proc[p].listening
  /\ proc' = [proc EXCEPT ![p].listening = TRUE, ![p].at = "pump"]
  /\ UNCHANGED <<db, queue, watch, fate, tries, crashes>>

\* _changed: every watcher looks, and the queue is pumped.
Changed(p) ==
  /\ Idle(p) /\ proc[p].calls > 0
  /\ proc' = [proc EXCEPT ![p].calls = @ - 1, ![p].at = IF proc[p].listening THEN "pump" ELSE "idle"]
  /\ watch' = [watch EXCEPT ![p].flight = IF watch[p].on THEN Append(@, db.key) ELSE @]
  /\ UNCHANGED <<db, queue, fate, tries, crashes>>

\* A timer that finds nothing is set again, which changes nothing.
Timer(p) ==
  /\ Idle(p) /\ proc[p].timer /\ \E q \in queue : q.ready
  /\ proc' = [proc EXCEPT ![p].timer = FALSE, ![p].at = "pump"]
  /\ UNCHANGED <<db, queue, watch, fate, tries, crashes>>

\* A mistake: only a message sets the timer.
WaitsForCommit(p) ==
  /\ proc[p].at = "pump" /\ ~\E q \in queue : q.ready
  /\ proc' = [proc EXCEPT ![p].at = "idle", ![p].timer = queue # {}]
  /\ UNCHANGED <<db, queue, watch, fate, tries, crashes>>

\* _pump with nothing to hand out
PumpWaits(p) ==
  /\ proc[p].at = "pump" /\ ~\E q \in queue : q.ready
  /\ proc' = [proc EXCEPT ![p].at = "idle", ![p].timer = TRUE]
  /\ UNCHANGED <<db, queue, watch, fate, tries, crashes>>

\* _pump: SELECT
PumpSelects(p) ==
  /\ proc[p].at = "pump"
  /\ \E q \in queue :
       /\ q.ready
       /\ proc' = [proc EXCEPT ![p].at = "delete", ![p].row = {q.row}, ![p].timer = FALSE]
  /\ UNCHANGED <<db, queue, watch, fate, tries, crashes>>

\* _pump: DELETE, and the handler starts.
PumpDeletes(p) ==
  /\ proc[p].at = "delete"
  /\ queue' = {q \in queue : q.row \notin proc[p].row}
  /\ proc' = [proc EXCEPT ![p].at = "idle", ![p].row = {}, ![p].running = @ \cup proc[p].row]
  /\ tries' = [m \in Msgs |-> IF \E r \in proc[p].row : r.msg = m THEN tries[m] + 1 ELSE tries[m]]
  /\ UNCHANGED <<db, watch, fate, crashes>>

HandlerOk(p, r) ==
  /\ r \in proc[p].running /\ proc[p].at = "idle"
  /\ fate' = [fate EXCEPT ![r.msg] = "handled"]
  /\ proc' = [proc EXCEPT ![p].running = @ \ {r}, ![p].at = IF proc[p].listening THEN "pump" ELSE "idle"]
  /\ UNCHANGED <<db, queue, watch, tries, crashes>>

Exhausted(r) == r.attempts >= Retries

\* The handler threw: once more later, or the keys, or nothing but a line on
\* stderr.  After close() the statement cannot be prepared.
HandlerFails(p, r) ==
  /\ r \in proc[p].running /\ proc[p].at = "idle"
  /\ IF ~proc[p].open
       THEN /\ proc' = [proc EXCEPT ![p].running = @ \ {r}]
            /\ fate' = [fate EXCEPT ![r.msg] = IF Exhausted(r) /\ ~r.keyed THEN "undelivered" ELSE "cut"]
            /\ UNCHANGED queue
     ELSE IF ~Exhausted(r)
       THEN /\ queue' = queue \cup {[row |-> [r EXCEPT !.attempts = @ + 1], ready |-> FALSE]}
            /\ proc' = [proc EXCEPT ![p].running = @ \ {r}, ![p].at = "pump"]
            /\ UNCHANGED fate
     ELSE IF r.keyed
       THEN /\ proc' = [proc EXCEPT ![p].running = @ \ {r}, ![p].row = {r}, ![p].at = "bump"]
            /\ UNCHANGED <<queue, fate>>
     ELSE /\ fate' = [fate EXCEPT ![r.msg] = "undelivered"]
          /\ proc' = [proc EXCEPT ![p].running = @ \ {r}, ![p].at = "pump"]
          /\ UNCHANGED queue
  /\ UNCHANGED <<db, watch, tries, crashes>>

\* _bumpVersion and put: three statements, no transaction, and no _changed.
Bump(p) ==
  /\ proc[p].at = "bump"
  /\ db' = Bumped(db)
  /\ proc' = [proc EXCEPT ![p].at = "version"]
  /\ UNCHANGED <<queue, watch, fate, tries, crashes>>

ReadVersion(p) ==
  /\ proc[p].at = "version"
  /\ proc' = [proc EXCEPT ![p].at = "put", ![p].stamp = db.version]
  /\ UNCHANGED <<db, queue, watch, fate, tries, crashes>>

\* A mistake: nothing is written.
PutNothing(p) ==
  /\ proc[p].at = "put"
  /\ proc' = [proc EXCEPT ![p].at = "pump", ![p].row = {}, ![p].stamp = 0]
  /\ UNCHANGED <<db, queue, watch, fate, tries, crashes>>

PutUndelivered(p) ==
  /\ proc[p].at = "put"
  /\ db' = Put(db, proc[p].stamp)
  /\ fate' = [m \in Msgs |-> IF \E r \in proc[p].row : r.msg = m THEN "undelivered" ELSE fate[m]]
  /\ proc' = [proc EXCEPT ![p].at = "pump", ![p].row = {}, ![p].stamp = 0]
  /\ UNCHANGED <<queue, watch, tries, crashes>>

\* Time passes: a delay is over.
Clock(q) ==
  /\ q \in queue /\ ~q.ready
  /\ queue' = (queue \ {q}) \cup {[q EXCEPT !.ready = TRUE]}
  /\ UNCHANGED <<db, proc, watch, fate, tries, crashes>>

------------------------------------------------------------------------------
(* watch().                                                                *)

\* watch() and its interval: a snapshot reads now and is compared when it resolves.
Look(p) ==
  /\ Idle(p) /\ p \in Readers /\ watch[p].flight = <<>>
  /\ watch' = [watch EXCEPT ![p].on = TRUE, ![p].flight = <<db.key>>]
  /\ UNCHANGED <<db, queue, proc, fate, tries, crashes>>

\* A mistake: only the first snapshot is compared.
TellOnce(p) ==
  /\ watch[p].flight # <<>>
  /\ watch' = [watch EXCEPT ![p].told = TRUE, ![p].flight = Tail(@),
                            ![p].last = IF watch[p].told THEN @ ELSE Head(watch[p].flight)]
  /\ UNCHANGED <<db, queue, proc, fate, tries, crashes>>

Tell(p) ==
  /\ watch[p].flight # <<>>
  /\ watch' = [watch EXCEPT ![p].told = TRUE, ![p].flight = Tail(@), ![p].last = Head(watch[p].flight)]
  /\ UNCHANGED <<db, queue, proc, fate, tries, crashes>>

------------------------------------------------------------------------------
(* The end of a process, and the next one.                                 *)

Held(p) == proc[p].running \cup (IF proc[p].at = "delete" THEN {} ELSE proc[p].row)

\* close(): handlers that run go on, watchers and the queue do not.
Close(p) ==
  /\ Idle(p) /\ p \in Mortal
  /\ proc' = [proc EXCEPT ![p] = [Fresh EXCEPT !.open = FALSE, !.running = proc[p].running]]
  /\ watch' = [watch EXCEPT ![p] = Unwatched]
  /\ UNCHANGED <<db, queue, fate, tries, crashes>>

\* The process dies between two statements: what it had taken is gone.
Crash(p) ==
  /\ proc[p].open /\ p \in Mortal /\ crashes < MaxCrashes
  /\ crashes' = crashes + 1
  /\ proc' = [proc EXCEPT ![p] = [Fresh EXCEPT !.open = FALSE]]
  /\ watch' = [watch EXCEPT ![p] = Unwatched]
  /\ fate' = [m \in Msgs |-> IF \E r \in Held(p) : r.msg = m THEN "cut" ELSE fate[m]]
  /\ UNCHANGED <<db, queue, tries>>

Open(p) ==
  /\ ~proc[p].open /\ proc[p].running = {}
  /\ proc' = [proc EXCEPT ![p] = Fresh]
  /\ UNCHANGED <<db, queue, watch, fate, tries, crashes>>

------------------------------------------------------------------------------

Pump(p) == PumpWaits(p) \/ PumpSelects(p) \/ PumpDeletes(p) \/ Bump(p) \/ ReadVersion(p) \/ PutUndelivered(p)

Handler(p) == \E r \in Rows : HandlerOk(p, r) \/ HandlerFails(p, r)

Program(p) == Commit(p) \/ Listen(p) \/ Close(p) \/ Open(p)

Next ==
  \/ \E p \in Procs : Program(p) \/ Pump(p) \/ Handler(p) \/ Changed(p) \/ Timer(p) \/ Look(p) \/ Tell(p) \/ Crash(p)
  \/ \E q \in queue : Clock(q)

Spec == Init /\ [][Next]_vars

\* Started steps go on, handlers settle, microtasks run, timers and intervals fire
\* and delays end.
FairSpec ==
  /\ Spec
  /\ \A p \in Procs : WF_vars(Pump(p) \/ Handler(p) \/ Changed(p) \/ Timer(p))
  /\ \A p \in Readers : WF_vars(Tell(p) \/ (watch[p].on /\ Look(p)))
  /\ WF_vars(\E q \in queue : Clock(q))

------------------------------------------------------------------------------
(* Properties.                                                             *)

\* Somebody has the message: it is running, or has failed and is being written.
Holders(m) == {p \in Procs : \E r \in Held(p) : r.msg = m}

\* A committed message is in the table, or in the hands of a process, until its
\* handler is done, its retries and its keys are, or the process that took it ends.
NothingLost == \A m \in Msgs : fate[m] = "queued" => Queued(m) \/ Holders(m) # {}

\* With one listener no message is in two places: not handled twice at a time,
\* nor while it waits for its next try.
HandledOnceAtATime ==
  \A m \in Msgs : /\ Cardinality({q \in queue : q.row.msg = m}) + Cardinality(Holders(m)) <= 1
                  /\ fate[m] # "queued" => ~Queued(m)

\* A message is in exactly one place until it is dealt with.
MessageIsInOnePlace == NothingLost /\ HandledOnceAtATime

\* A message is given up after the whole schedule and not earlier, and the number
\* of tries is kept over retries and restarts.
TriedAsScheduled ==
  \A m \in Msgs : /\ tries[m] <= Retries + 1
                  /\ fate[m] = "undelivered" => tries[m] = Retries + 1

\* The versionstamp a process is about to write a message's keys under is above all
\* that values were given before: a reader's `check` cannot take one for another.
StampIsFresh == \A p \in Procs : proc[p].at = "put" => proc[p].stamp > db.top

\* A message is delivered or given up while somebody listens.
DeliveredAtLast ==
  \A m \in Msgs : Queued(m) ~> (fate[m] # "queued" \/ \A p \in Procs : ~proc[p].listening)

\* A watcher is told the key's present state, also when another process changed it.
WatchCatchesUp ==
  \A p \in Readers, v \in 0..MaxVersion :
    (watch[p].on /\ db.key = v) ~> (~watch[p].on \/ db.key # v \/ (watch[p].told /\ watch[p].last = v))

==============================================================================
