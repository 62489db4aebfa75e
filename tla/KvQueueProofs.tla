---------------------------- MODULE KvQueueProofs ----------------------------
(***************************************************************************)
(* Proofs about KvQueue.                                                   *)
(***************************************************************************)
EXTENDS KvQueue, TLAPS, FiniteSetTheorems

ProcType == [open : BOOLEAN, listening : BOOLEAN, timer : BOOLEAN, calls : Nat,
             at : {"idle", "pump", "delete", "bump", "version", "put"},
             row : SUBSET Rows, stamp : Nat, running : SUBSET Rows]

WatchType == [on : BOOLEAN, told : BOOLEAN, last : Nat, flight : Seq(Nat)]

\* What the position of a process says of the rest of it: only a listener pumps and
\* has handlers, and a row is in its hands from SELECT to DELETE and while the keys
\* of an undelivered message are written.
Placed(p, r) ==
  /\ r.at # "idle" => r.listening
  /\ r.timer => r.listening
  /\ r.listening => r.open /\ p \in Listeners
  /\ r.running # {} => p \in Listeners /\ (r.open => r.listening)
  /\ r.at \in {"idle", "pump"} => r.row = {}
  /\ r.at \notin {"idle", "pump"} => \E x \in Rows : r.row = {x}

IInv ==
  /\ TypeOK
  /\ \A p \in Procs : Placed(p, proc[p])
  /\ \A p \in Procs : proc[p].at = "put" => proc[p].stamp <= db.version

------------------------------------------------------------------------------
(* A step of one process.                                                  *)

\* The queue's part of what becomes of a process; nobody else's changes.
Becomes(p, at, row, running) ==
  /\ \A o \in Procs : o # p => proc'[o] = proc[o]
  /\ proc'[p].at = at /\ proc'[p].row = row /\ proc'[p].running = running

DbKept == /\ db' \in [version : Nat, key : Nat, top : Nat]
          /\ db'.key <= db'.top /\ db'.top <= db'.version /\ db.version <= db'.version

RestKept ==
  /\ queue' \subseteq [row : Rows, ready : BOOLEAN]
  /\ watch' \in [Procs -> WatchType]
  /\ fate' \in [Msgs -> {"new", "queued", "handled", "undelivered", "cut"}]
  /\ tries' \in [Msgs -> Nat]
  /\ crashes' \in 0..MaxCrashes

LEMMA DbType == ASSUME IInv PROVE /\ db \in [version : Nat, key : Nat, top : Nat]
                                  /\ db.key \in Nat /\ db.top \in Nat /\ db.version \in Nat
                                  /\ db.key <= db.top /\ db.top <= db.version
<1>1. db \in [version : Nat, key : Nat, top : Nat] /\ db.key <= db.top /\ db.top <= db.version
  BY DEF IInv, TypeOK
<1> QED
  BY <1>1

LEMMA RestType == ASSUME IInv PROVE /\ queue \subseteq [row : Rows, ready : BOOLEAN]
                                    /\ watch \in [Procs -> WatchType]
                                    /\ fate \in [Msgs -> {"new", "queued", "handled", "undelivered", "cut"}]
                                    /\ tries \in [Msgs -> Nat]
                                    /\ crashes \in 0..MaxCrashes
<1>1. TypeOK
  BY DEF IInv
<1>2. queue \subseteq [row : Rows, ready : BOOLEAN]
  BY <1>1, Zenon DEF TypeOK
<1>3. watch \in [Procs -> WatchType]
  BY <1>1, Zenon DEF TypeOK, WatchType
<1>4. fate \in [Msgs -> {"new", "queued", "handled", "undelivered", "cut"}] /\ tries \in [Msgs -> Nat]
  BY <1>1, Zenon DEF TypeOK
<1>5. crashes \in 0..MaxCrashes
  BY <1>1, Zenon DEF TypeOK
<1> QED
  BY <1>2, <1>3, <1>4, <1>5, Zenon

\* What is the same in any step keeps its type.
LEMMA SameDb == ASSUME IInv, db' = db PROVE DbKept
BY DbType DEF DbKept

LEMMA BumpedDb == ASSUME IInv PROVE /\ Bumped(db) \in [version : Nat, key : Nat, top : Nat]
                                     /\ Bumped(db).version = db.version + 1
                                     /\ Bumped(db).key = db.key /\ Bumped(db).top = db.top
<1>1. db.version + 1 \in Nat
  BY DbType
<1> QED
  BY <1>1, DbType DEF Bumped

\* A step that changes the record of one process keeps the invariant if the new
\* record agrees with itself.
LEMMA OneProc ==
  ASSUME IInv, NEW p \in Procs, NEW r \in ProcType, proc' = [proc EXCEPT ![p] = r],
         Placed(p, r), r.at = "put" => r.stamp <= db'.version, DbKept, RestKept
  PROVE  /\ IInv'
         /\ Becomes(p, r.at, r.row, r.running)
<1>1. proc \in [Procs -> ProcType] /\ db.version \in Nat
  BY DEF IInv, TypeOK, ProcType
<1>2. proc'[p] = r /\ (\A o \in Procs : o # p => proc'[o] = proc[o]) /\ proc' \in [Procs -> ProcType]
  BY <1>1
<1>3. \A o \in Procs : Placed(o, proc'[o])
  BY <1>2 DEF IInv
<1>4. ASSUME NEW o \in Procs, proc'[o].at = "put" PROVE proc'[o].stamp <= db'.version
  <2>1. CASE o = p
    BY <1>2, <1>4, <2>1
  <2>2. CASE o # p
    <3>1. proc'[o] = proc[o] /\ proc[o].stamp \in Nat
      BY <1>1, <1>2, <2>2 DEF ProcType
    <3>2. proc[o].stamp <= db.version
      BY <1>4, <3>1 DEF IInv
    <3>3. db.version <= db'.version /\ db'.version \in Nat
      BY DEF DbKept
    <3> QED
      BY <1>1, <3>1, <3>2, <3>3
  <2> QED
    BY <2>1, <2>2
<1>5. \A o \in Procs : proc'[o].timer => proc'[o].listening /\ proc'[o].open
  BY <1>3 DEF Placed
<1>6. TypeOK'
  BY <1>2, <1>5 DEF TypeOK, DbKept, RestKept, ProcType, WatchType
<1> QED
  BY <1>2, <1>3, <1>4, <1>6, Zenon DEF IInv, Becomes

------------------------------------------------------------------------------
(* The actions.                                                            *)

LEMMA CommitKeeps ==
  ASSUME IInv, NEW p \in Procs, Commit(p)
  PROVE  /\ IInv'
         /\ Becomes(p, "idle", {}, proc[p].running)
<1> DEFINE r == [proc[p] EXCEPT !.calls = IF proc[p].listening \/ watch[p].on THEN @ + 1 ELSE @]
<1>1. proc \in [Procs -> ProcType] /\ Placed(p, proc[p]) /\ proc[p].at = "idle"
  BY DEF IInv, TypeOK, ProcType, Commit, Idle
<1>2. proc' = [proc EXCEPT ![p] = r]
  BY DEF Commit
<1>3. r \in ProcType /\ r.at = "idle" /\ r.row = proc[p].row /\ r.running = proc[p].running
      /\ r.listening = proc[p].listening /\ r.timer = proc[p].timer /\ r.open = proc[p].open
  BY <1>1 DEF ProcType
<1>4. Placed(p, r) /\ r.row = {}
  BY <1>1, <1>3 DEF Placed
<1>5. DbKept
  <2>1. \/ db' = Bumped(db)
        \/ db' = [Bumped(db) EXCEPT !.key = 0]
        \/ db' = [Bumped(db) EXCEPT !.key = Bumped(db).version,
                                    !.top = IF Bumped(db).version > @ THEN Bumped(db).version ELSE @]
    BY DEF Commit, Put
  <2>2. db.key \in Nat /\ db.top \in Nat /\ db.version \in Nat /\ db.key <= db.top /\ db.top <= db.version
    BY DbType
  <2>3. CASE db' = Bumped(db)
    BY <2>2, <2>3, BumpedDb DEF DbKept
  <2>4. CASE db' = [Bumped(db) EXCEPT !.key = 0]
    BY <2>2, <2>4, BumpedDb DEF DbKept
  <2>5. CASE db' = [Bumped(db) EXCEPT !.key = Bumped(db).version,
                                      !.top = IF Bumped(db).version > @ THEN Bumped(db).version ELSE @]
    <3> DEFINE b == Bumped(db)
    <3>1. b \in [version : Nat, key : Nat, top : Nat] /\ b.version = db.version + 1 /\ b.top = db.top
      BY BumpedDb
    <3>2. db' = [b EXCEPT !.key = b.version, !.top = IF b.version > b.top THEN b.version ELSE b.top]
      BY <2>5
    <3> HIDE DEF b
    <3>3. b.version > b.top
      BY <2>2, <3>1
    <3>4. db' = [b EXCEPT !.key = b.version, !.top = b.version]
      BY <3>2, <3>3
    <3>5. db' \in [version : Nat, key : Nat, top : Nat]
      BY <2>2, <3>1, <3>4
    <3>6. db'.version = b.version /\ db'.key = b.version /\ db'.top = b.version
      BY <3>1, <3>4
    <3>7. b.version \in Nat /\ b.version <= b.version /\ db.version <= b.version
      BY <2>2, <3>1
    <3> QED
      BY <3>5, <3>6, <3>7 DEF DbKept
  <2> QED
    BY <2>1, <2>3, <2>4, <2>5
<1>6. RestKept
  <2>1. \/ UNCHANGED <<queue, fate>>
        \/ \E m \in Msgs, keyed \in BOOLEAN, ready \in BOOLEAN :
             /\ queue' = queue \cup {[row |-> [msg |-> m, attempts |-> 0, keyed |-> keyed], ready |-> ready]}
             /\ fate' = [fate EXCEPT ![m] = "queued"]
    BY DEF Commit
  <2>2. \A m \in Msgs, keyed \in BOOLEAN : [msg |-> m, attempts |-> 0, keyed |-> keyed] \in Rows
    BY KvQueueAssumption DEF Rows
  <2>3. UNCHANGED <<watch, tries, crashes>>
    BY DEF Commit
  <2>4. queue' \subseteq [row : Rows, ready : BOOLEAN]
    BY <2>1, <2>2, RestType
  <2>5. fate' \in [Msgs -> {"new", "queued", "handled", "undelivered", "cut"}]
    BY <2>1, RestType
  <2> QED
    BY <2>3, <2>4, <2>5, RestType DEF RestKept
<1> HIDE DEF r
<1> QED
  BY <1>2, <1>3, <1>4, <1>5, <1>6, OneProc

\* A step of a process that leaves its rows alone.
LEMMA RestSame ==
  ASSUME IInv, UNCHANGED <<queue, watch, fate, tries, crashes>>
  PROVE  RestKept
BY RestType DEF RestKept

LEMMA ListenKeeps ==
  ASSUME IInv, NEW p \in Procs, Listen(p)
  PROVE  /\ IInv'
         /\ Becomes(p, "pump", {}, proc[p].running)
<1> DEFINE r == [proc[p] EXCEPT !.listening = TRUE, !.at = "pump"]
<1>1. proc \in [Procs -> ProcType] /\ Placed(p, proc[p]) /\ proc[p].at = "idle" /\ proc[p].open /\ p \in Listeners
  BY DEF IInv, TypeOK, ProcType, Listen, Idle
<1>2. proc' = [proc EXCEPT ![p] = r]
  BY DEF Listen
<1>3. r \in ProcType /\ r.at = "pump" /\ r.row = proc[p].row /\ r.running = proc[p].running
      /\ r.listening /\ r.open
  BY <1>1 DEF ProcType
<1>4. Placed(p, r) /\ r.row = {}
  BY <1>1, <1>3 DEF Placed
<1>5. DbKept /\ RestKept
  BY SameDb, RestSame DEF Listen
<1> HIDE DEF r
<1> QED
  BY <1>2, <1>3, <1>4, <1>5, OneProc

LEMMA ChangedKeeps ==
  ASSUME IInv, NEW p \in Procs, Changed(p)
  PROVE  /\ IInv'
         /\ Becomes(p, IF proc[p].listening THEN "pump" ELSE "idle", {}, proc[p].running)
<1> DEFINE r == [proc[p] EXCEPT !.calls = @ - 1, !.at = IF proc[p].listening THEN "pump" ELSE "idle"]
<1>1. proc \in [Procs -> ProcType] /\ Placed(p, proc[p]) /\ proc[p].at = "idle" /\ proc[p].calls > 0
  BY DEF IInv, TypeOK, ProcType, Changed, Idle
<1>2. proc' = [proc EXCEPT ![p] = r]
  BY DEF Changed
<1>2a. proc[p].calls - 1 \in Nat
  <2>1. proc[p].calls \in Nat
    BY <1>1 DEF ProcType
  <2> QED
    BY <1>1, <2>1
<1>3. r \in ProcType /\ r.at = (IF proc[p].listening THEN "pump" ELSE "idle")
      /\ r.row = proc[p].row /\ r.running = proc[p].running
      /\ r.listening = proc[p].listening /\ r.timer = proc[p].timer /\ r.open = proc[p].open
  BY <1>1, <1>2a DEF ProcType
<1>4. Placed(p, r) /\ r.row = {}
  BY <1>1, <1>3 DEF Placed
<1>5. DbKept
  BY SameDb DEF Changed
<1>6. RestKept
  <2>1. watch \in [Procs -> WatchType] /\ db.key \in Nat
    BY RestType, DbType
  <2>1a. watch[p].flight \in Seq(Nat) /\ Append(watch[p].flight, db.key) \in Seq(Nat)
    BY <2>1 DEF WatchType
  <2> DEFINE w == [watch[p] EXCEPT !.flight = IF watch[p].on THEN Append(@, db.key) ELSE @]
  <2>2. w \in WatchType
    BY <2>1, <2>1a DEF WatchType
  <2>3. watch' = [watch EXCEPT ![p] = w]
    BY DEF Changed
  <2> HIDE DEF w
  <2>4. watch' \in [Procs -> WatchType]
    BY <2>1, <2>2, <2>3
  <2> QED
    BY <2>4, RestType DEF Changed, RestKept
<1> HIDE DEF r
<1> QED
  BY <1>2, <1>3, <1>4, <1>5, <1>6, OneProc

LEMMA TimerKeeps ==
  ASSUME IInv, NEW p \in Procs, Timer(p)
  PROVE  /\ IInv'
         /\ Becomes(p, "pump", {}, proc[p].running)
<1> DEFINE r == [proc[p] EXCEPT !.timer = FALSE, !.at = "pump"]
<1>1. proc \in [Procs -> ProcType] /\ Placed(p, proc[p]) /\ proc[p].at = "idle" /\ proc[p].timer
  BY DEF IInv, TypeOK, ProcType, Timer, Idle
<1>2. proc' = [proc EXCEPT ![p] = r]
  BY DEF Timer
<1>3. r \in ProcType /\ r.at = "pump" /\ r.row = proc[p].row /\ r.running = proc[p].running
      /\ r.listening = proc[p].listening /\ ~r.timer /\ r.open = proc[p].open
  BY <1>1 DEF ProcType
<1>4. Placed(p, r) /\ r.row = {}
  BY <1>1, <1>3 DEF Placed
<1>5. DbKept /\ RestKept
  BY SameDb, RestSame DEF Timer
<1> HIDE DEF r
<1> QED
  BY <1>2, <1>3, <1>4, <1>5, OneProc

LEMMA PumpWaitsKeeps ==
  ASSUME IInv, NEW p \in Procs, PumpWaits(p)
  PROVE  /\ IInv'
         /\ Becomes(p, "idle", {}, proc[p].running)
<1> DEFINE r == [proc[p] EXCEPT !.at = "idle", !.timer = TRUE]
<1>1. proc \in [Procs -> ProcType] /\ Placed(p, proc[p]) /\ proc[p].at = "pump"
  BY DEF IInv, TypeOK, ProcType, PumpWaits
<1>2. proc' = [proc EXCEPT ![p] = r]
  BY DEF PumpWaits
<1>3. r \in ProcType /\ r.at = "idle" /\ r.row = proc[p].row /\ r.running = proc[p].running
      /\ r.listening = proc[p].listening /\ r.open = proc[p].open
  BY <1>1 DEF ProcType
<1>4. Placed(p, r) /\ r.row = {}
  BY <1>1, <1>3 DEF Placed
<1>5. DbKept /\ RestKept
  BY SameDb, RestSame DEF PumpWaits
<1> HIDE DEF r
<1> QED
  BY <1>2, <1>3, <1>4, <1>5, OneProc

LEMMA PumpSelectsKeeps ==
  ASSUME IInv, NEW p \in Procs, PumpSelects(p)
  PROVE  /\ IInv'
         /\ \E q \in queue : Becomes(p, "delete", {q.row}, proc[p].running)
<1>0. PICK q \in queue : proc' = [proc EXCEPT ![p].at = "delete", ![p].row = {q.row}, ![p].timer = FALSE]
  BY DEF PumpSelects
<1> DEFINE r == [proc[p] EXCEPT !.at = "delete", !.row = {q.row}, !.timer = FALSE]
<1>1. proc \in [Procs -> ProcType] /\ Placed(p, proc[p]) /\ proc[p].at = "pump" /\ q.row \in Rows
  BY DEF IInv, TypeOK, ProcType, PumpSelects
<1>2. proc' = [proc EXCEPT ![p] = r]
  BY <1>0
<1>3. r \in ProcType /\ r.at = "delete" /\ r.row = {q.row} /\ r.running = proc[p].running
      /\ r.listening = proc[p].listening /\ ~r.timer /\ r.open = proc[p].open
  BY <1>1 DEF ProcType
<1>4. Placed(p, r)
  BY <1>1, <1>3 DEF Placed
<1>5. DbKept /\ RestKept
  BY SameDb, RestSame DEF PumpSelects
<1> HIDE DEF r
<1> QED
  BY <1>2, <1>3, <1>4, <1>5, OneProc

LEMMA PumpDeletesKeeps ==
  ASSUME IInv, NEW p \in Procs, PumpDeletes(p)
  PROVE  /\ IInv'
         /\ Becomes(p, "idle", {}, proc[p].running \cup proc[p].row)
<1> DEFINE r == [proc[p] EXCEPT !.at = "idle", !.row = {}, !.running = @ \cup proc[p].row]
<1>1. proc \in [Procs -> ProcType] /\ Placed(p, proc[p]) /\ proc[p].at = "delete"
  BY DEF IInv, TypeOK, ProcType, PumpDeletes
<1>2. proc' = [proc EXCEPT ![p] = r]
  BY DEF PumpDeletes
<1>3. r \in ProcType /\ r.at = "idle" /\ r.row = {} /\ r.running = proc[p].running \cup proc[p].row
      /\ r.listening = proc[p].listening /\ r.timer = proc[p].timer /\ r.open = proc[p].open
  BY <1>1 DEF ProcType
<1>4. Placed(p, r)
  BY <1>1, <1>3 DEF Placed
<1>5. DbKept
  BY SameDb DEF PumpDeletes
<1>6. RestKept
  <2>1. tries' \in [Msgs -> Nat]
    BY RestType DEF PumpDeletes
  <2>2. queue' \subseteq [row : Rows, ready : BOOLEAN]
    BY RestType DEF PumpDeletes
  <2> QED
    BY <2>1, <2>2, RestType DEF PumpDeletes, RestKept
<1> HIDE DEF r
<1> QED
  BY <1>2, <1>3, <1>4, <1>5, <1>6, OneProc

LEMMA HandlerOkKeeps ==
  ASSUME IInv, NEW p \in Procs, NEW x \in Rows, HandlerOk(p, x)
  PROVE  /\ IInv'
         /\ Becomes(p, IF proc[p].listening THEN "pump" ELSE "idle", {}, proc[p].running \ {x})
<1> DEFINE r == [proc[p] EXCEPT !.running = @ \ {x}, !.at = IF proc[p].listening THEN "pump" ELSE "idle"]
<1>1. proc \in [Procs -> ProcType] /\ Placed(p, proc[p]) /\ proc[p].at = "idle" /\ x \in proc[p].running
  BY DEF IInv, TypeOK, ProcType, HandlerOk
<1>2. proc' = [proc EXCEPT ![p] = r]
  BY DEF HandlerOk
<1>3. r \in ProcType /\ r.at = (IF proc[p].listening THEN "pump" ELSE "idle")
      /\ r.row = proc[p].row /\ r.running = proc[p].running \ {x}
      /\ r.listening = proc[p].listening /\ r.timer = proc[p].timer /\ r.open = proc[p].open
  BY <1>1 DEF ProcType
<1>4. Placed(p, r) /\ r.row = {}
  BY <1>1, <1>3 DEF Placed
<1>5. DbKept
  BY SameDb DEF HandlerOk
<1>6. RestKept
  BY RestType DEF HandlerOk, RestKept
<1> HIDE DEF r
<1> QED
  BY <1>2, <1>3, <1>4, <1>5, <1>6, OneProc

\* The four ways of a handler that failed: after close(), with a retry left, with
\* keys to write, and with nothing left.
LEMMA HandlerFailsKeeps ==
  ASSUME IInv, NEW p \in Procs, NEW x \in Rows, HandlerFails(p, x)
  PROVE  /\ IInv'
         /\ \/ /\ ~proc[p].open /\ fate'[x.msg] \in {"undelivered", "cut"}
               /\ \A m \in Msgs : m # x.msg => fate'[m] = fate[m]
               /\ queue' = queue /\ Becomes(p, "idle", {}, proc[p].running \ {x})
            \/ /\ queue' = queue \cup {[row |-> [x EXCEPT !.attempts = @ + 1], ready |-> FALSE]}
               /\ fate' = fate /\ Becomes(p, "pump", {}, proc[p].running \ {x})
            \/ /\ queue' = queue /\ fate' = fate /\ proc[p].row = {}
               /\ Becomes(p, "bump", {x}, proc[p].running \ {x})
            \/ /\ fate' = [fate EXCEPT ![x.msg] = "undelivered"]
               /\ queue' = queue /\ Becomes(p, "pump", {}, proc[p].running \ {x})
<1> DEFINE gone == [proc[p] EXCEPT !.running = @ \ {x}]
           pump == [proc[p] EXCEPT !.running = @ \ {x}, !.at = "pump"]
           bump == [proc[p] EXCEPT !.running = @ \ {x}, !.row = {x}, !.at = "bump"]
<1>1. proc \in [Procs -> ProcType] /\ Placed(p, proc[p]) /\ proc[p].at = "idle" /\ x \in proc[p].running
  BY DEF IInv, TypeOK, ProcType, HandlerFails
<1>2. proc[p].row = {} /\ (proc[p].open => proc[p].listening) /\ p \in Listeners
  BY <1>1 DEF Placed
<1>3. x.msg \in Msgs /\ x.attempts \in 0..Retries /\ x.keyed \in BOOLEAN
  BY DEF Rows
<1>4. gone \in ProcType /\ gone.at = "idle" /\ gone.row = {} /\ gone.running = proc[p].running \ {x}
      /\ gone.listening = proc[p].listening /\ gone.timer = proc[p].timer /\ gone.open = proc[p].open
  BY <1>1, <1>2 DEF ProcType
<1>5. pump \in ProcType /\ pump.at = "pump" /\ pump.row = {} /\ pump.running = proc[p].running \ {x}
      /\ pump.listening = proc[p].listening /\ pump.timer = proc[p].timer /\ pump.open = proc[p].open
  BY <1>1, <1>2 DEF ProcType
<1>6. bump \in ProcType /\ bump.at = "bump" /\ bump.row = {x} /\ bump.running = proc[p].running \ {x}
      /\ bump.listening = proc[p].listening /\ bump.timer = proc[p].timer /\ bump.open = proc[p].open
  BY <1>1, <1>2 DEF ProcType
<1>7. DbKept
  BY SameDb DEF HandlerFails
<1>8. CASE ~proc[p].open
  <2>1. proc' = [proc EXCEPT ![p] = gone] /\ queue' = queue
    BY <1>8 DEF HandlerFails
  <2>2. fate' = [fate EXCEPT ![x.msg] = IF Exhausted(x) /\ ~x.keyed THEN "undelivered" ELSE "cut"]
    BY <1>8 DEF HandlerFails
  <2>3. RestKept /\ fate'[x.msg] \in {"undelivered", "cut"} /\ \A m \in Msgs : m # x.msg => fate'[m] = fate[m]
    BY <1>3, <2>1, <2>2, RestType DEF HandlerFails, RestKept
  <2>4. Placed(p, gone)
    BY <1>1, <1>4 DEF Placed
  <2> HIDE DEF gone
  <2>5. IInv' /\ Becomes(p, "idle", {}, proc[p].running \ {x})
    BY <1>4, <1>7, <2>1, <2>3, <2>4, OneProc
  <2> QED
    BY <1>8, <2>1, <2>3, <2>5
<1>9. CASE proc[p].open /\ ~Exhausted(x)
  <2>1. proc' = [proc EXCEPT ![p] = pump] /\ fate' = fate
    BY <1>9 DEF HandlerFails
  <2>2. queue' = queue \cup {[row |-> [x EXCEPT !.attempts = @ + 1], ready |-> FALSE]}
    BY <1>9 DEF HandlerFails
  <2>3. x.attempts + 1 \in 0..Retries
    BY <1>3, <1>9, KvQueueAssumption DEF Exhausted
  <2>4. [x EXCEPT !.attempts = @ + 1] \in Rows
    <3> DEFINE n == x.attempts + 1
    <3>1. n \in 0..Retries
      BY <2>3
    <3> HIDE DEF n
    <3>2. [x EXCEPT !.attempts = n] \in Rows
      BY <3>1, Zenon DEF Rows
    <3> QED
      BY <3>2 DEF n
  <2>5. RestKept
    <3>1. queue' \subseteq [row : Rows, ready : BOOLEAN]
      <4> DEFINE y == [x EXCEPT !.attempts = @ + 1]
      <4>1. y \in Rows /\ queue' = queue \cup {[row |-> y, ready |-> FALSE]}
        BY <2>2, <2>4
      <4> HIDE DEF y
      <4>2. [row |-> y, ready |-> FALSE] \in [row : Rows, ready : BOOLEAN]
        BY <4>1
      <4>3. queue \subseteq [row : Rows, ready : BOOLEAN]
        BY RestType
      <4> QED
        BY <4>1, <4>2, <4>3, Zenon
    <3>2. UNCHANGED <<watch, tries, crashes>>
      BY DEF HandlerFails
    <3> QED
      BY <2>1, <3>1, <3>2, RestType DEF RestKept
  <2>6. Placed(p, pump)
    BY <1>2, <1>5, <1>9, <1>1 DEF Placed
  <2> HIDE DEF pump
  <2>7. IInv' /\ Becomes(p, "pump", {}, proc[p].running \ {x})
    BY <1>5, <1>7, <2>1, <2>5, <2>6, OneProc
  <2> QED
    BY <2>1, <2>2, <2>7
<1>10. CASE proc[p].open /\ Exhausted(x) /\ x.keyed
  <2>1. proc' = [proc EXCEPT ![p] = bump] /\ fate' = fate /\ queue' = queue
    BY <1>10 DEF HandlerFails
  <2>2. RestKept
    BY <2>1, RestType DEF HandlerFails, RestKept
  <2>3. Placed(p, bump)
    BY <1>2, <1>6, <1>10, <1>1 DEF Placed
  <2> HIDE DEF bump
  <2>4. IInv' /\ Becomes(p, "bump", {x}, proc[p].running \ {x})
    BY <1>6, <1>7, <2>1, <2>2, <2>3, OneProc
  <2> QED
    BY <1>2, <2>1, <2>4
<1>11. CASE proc[p].open /\ Exhausted(x) /\ ~x.keyed
  <2>1. proc' = [proc EXCEPT ![p] = pump] /\ queue' = queue
    BY <1>11 DEF HandlerFails
  <2>2. fate' = [fate EXCEPT ![x.msg] = "undelivered"]
    BY <1>11 DEF HandlerFails
  <2>3. RestKept
    BY <2>1, <2>2, RestType DEF HandlerFails, RestKept
  <2>4. Placed(p, pump)
    BY <1>2, <1>5, <1>11, <1>1 DEF Placed
  <2> HIDE DEF pump
  <2>5. IInv' /\ Becomes(p, "pump", {}, proc[p].running \ {x})
    BY <1>5, <1>7, <2>1, <2>3, <2>4, OneProc
  <2> QED
    BY <2>1, <2>2, <2>5
<1> QED
  BY <1>8, <1>9, <1>10, <1>11, Zenon

LEMMA BumpKeeps ==
  ASSUME IInv, NEW p \in Procs, Bump(p)
  PROVE  /\ IInv'
         /\ Becomes(p, "version", proc[p].row, proc[p].running)
<1> DEFINE r == [proc[p] EXCEPT !.at = "version"]
<1>1. proc \in [Procs -> ProcType] /\ Placed(p, proc[p]) /\ proc[p].at = "bump"
  BY DEF IInv, TypeOK, ProcType, Bump
<1>2. proc' = [proc EXCEPT ![p] = r]
  BY DEF Bump
<1>3. r \in ProcType /\ r.at = "version" /\ r.row = proc[p].row /\ r.running = proc[p].running
      /\ r.listening = proc[p].listening /\ r.timer = proc[p].timer /\ r.open = proc[p].open
  BY <1>1 DEF ProcType
<1>4. Placed(p, r)
  BY <1>1, <1>3 DEF Placed
<1>5. DbKept
  BY DbType, BumpedDb DEF Bump, DbKept
<1>6. RestKept
  BY RestSame DEF Bump
<1> HIDE DEF r
<1> QED
  BY <1>2, <1>3, <1>4, <1>5, <1>6, OneProc

LEMMA ReadVersionKeeps ==
  ASSUME IInv, NEW p \in Procs, ReadVersion(p)
  PROVE  /\ IInv'
         /\ Becomes(p, "put", proc[p].row, proc[p].running)
<1> DEFINE r == [proc[p] EXCEPT !.at = "put", !.stamp = db.version]
<1>1. proc \in [Procs -> ProcType] /\ Placed(p, proc[p]) /\ proc[p].at = "version"
  BY DEF IInv, TypeOK, ProcType, ReadVersion
<1>2. proc' = [proc EXCEPT ![p] = r] /\ db' = db
  BY DEF ReadVersion
<1>3. r \in ProcType /\ r.at = "put" /\ r.row = proc[p].row /\ r.running = proc[p].running /\ r.stamp = db.version
      /\ r.listening = proc[p].listening /\ r.timer = proc[p].timer /\ r.open = proc[p].open
  BY <1>1, DbType DEF ProcType
<1>4. Placed(p, r)
  BY <1>1, <1>3 DEF Placed
<1>5. DbKept /\ RestKept
  BY SameDb, RestSame DEF ReadVersion
<1>6. r.stamp <= db'.version
  BY <1>2, <1>3, DbType
<1> HIDE DEF r
<1> QED
  BY <1>2, <1>3, <1>4, <1>5, <1>6, OneProc

LEMMA PutUndeliveredKeeps ==
  ASSUME IInv, NEW p \in Procs, PutUndelivered(p)
  PROVE  /\ IInv'
         /\ Becomes(p, "pump", {}, proc[p].running)
<1> DEFINE r == [proc[p] EXCEPT !.at = "pump", !.row = {}, !.stamp = 0]
<1>1. proc \in [Procs -> ProcType] /\ Placed(p, proc[p]) /\ proc[p].at = "put" /\ proc[p].stamp <= db.version
  BY DEF IInv, TypeOK, ProcType, PutUndelivered
<1>2. proc' = [proc EXCEPT ![p] = r]
  BY DEF PutUndelivered
<1>3. r \in ProcType /\ r.at = "pump" /\ r.row = {} /\ r.running = proc[p].running
      /\ r.listening = proc[p].listening /\ r.timer = proc[p].timer /\ r.open = proc[p].open
  BY <1>1 DEF ProcType
<1>4. Placed(p, r)
  BY <1>1, <1>3 DEF Placed
<1>5. DbKept
  <2> DEFINE v == proc[p].stamp
             t == IF v > db.top THEN v ELSE db.top
  <2>1. db' = [db EXCEPT !.key = v, !.top = t]
    BY DEF PutUndelivered, Put
  <2>2. v \in Nat /\ v <= db.version
    BY <1>1 DEF ProcType
  <2> HIDE DEF v
  <2>3. t \in Nat /\ v <= t /\ t <= db.version
    BY <2>2, DbType
  <2> HIDE DEF t
  <2>4. db' \in [version : Nat, key : Nat, top : Nat] /\ db'.key = v /\ db'.top = t /\ db'.version = db.version
    BY <2>1, <2>2, <2>3, DbType
  <2> QED
    BY <2>2, <2>3, <2>4, DbType DEF DbKept
<1>6. RestKept
  <2>1. fate' \in [Msgs -> {"new", "queued", "handled", "undelivered", "cut"}]
    BY RestType DEF PutUndelivered
  <2> QED
    BY <2>1, RestType DEF PutUndelivered, RestKept
<1> HIDE DEF r
<1> QED
  BY <1>2, <1>3, <1>4, <1>5, <1>6, OneProc

LEMMA FreshType ==
  /\ Fresh \in ProcType /\ [Fresh EXCEPT !.open = FALSE] \in ProcType
  /\ \A run \in SUBSET Rows : [Fresh EXCEPT !.open = FALSE, !.running = run] \in ProcType
BY DEF Fresh, ProcType

LEMMA CloseKeeps ==
  ASSUME IInv, NEW p \in Procs, Close(p)
  PROVE  /\ IInv'
         /\ Becomes(p, "idle", {}, proc[p].running)
<1> DEFINE r == [Fresh EXCEPT !.open = FALSE, !.running = proc[p].running]
<1>1. proc \in [Procs -> ProcType] /\ Placed(p, proc[p])
  BY DEF IInv, TypeOK, ProcType
<1>2. proc' = [proc EXCEPT ![p] = r]
  BY DEF Close
<1>3. r \in ProcType /\ r.at = "idle" /\ r.row = {} /\ r.running = proc[p].running
      /\ ~r.listening /\ ~r.timer /\ ~r.open
  BY <1>1, FreshType DEF ProcType, Fresh
<1>4. Placed(p, r)
  BY <1>1, <1>3 DEF Placed
<1>5. DbKept
  BY SameDb DEF Close
<1>6. RestKept
  <2>1. watch' \in [Procs -> WatchType]
    BY RestType DEF Close, Unwatched, WatchType
  <2> QED
    BY <2>1, RestType DEF Close, RestKept
<1> HIDE DEF r
<1> QED
  BY <1>2, <1>3, <1>4, <1>5, <1>6, OneProc

LEMMA CrashKeeps ==
  ASSUME IInv, NEW p \in Procs, Crash(p)
  PROVE  /\ IInv'
         /\ Becomes(p, "idle", {}, {})
<1> DEFINE r == [Fresh EXCEPT !.open = FALSE]
<1>1. proc \in [Procs -> ProcType]
  BY DEF IInv, TypeOK, ProcType
<1>2. proc' = [proc EXCEPT ![p] = r]
  BY DEF Crash
<1>3. r \in ProcType /\ r.at = "idle" /\ r.row = {} /\ r.running = {} /\ ~r.listening /\ ~r.timer /\ ~r.open
  BY FreshType DEF Fresh
<1>4. Placed(p, r)
  BY <1>3 DEF Placed
<1>5. DbKept
  BY SameDb DEF Crash
<1>6. RestKept
  <2>1. watch' \in [Procs -> WatchType]
    BY RestType DEF Crash, Unwatched, WatchType
  <2>2. fate' \in [Msgs -> {"new", "queued", "handled", "undelivered", "cut"}]
    BY RestType DEF Crash
  <2>3. crashes' \in 0..MaxCrashes
    BY RestType, KvQueueAssumption DEF Crash
  <2> QED
    BY <2>1, <2>2, <2>3, RestType DEF Crash, RestKept
<1> HIDE DEF r
<1> QED
  BY <1>2, <1>3, <1>4, <1>5, <1>6, OneProc

LEMMA OpenKeeps ==
  ASSUME IInv, NEW p \in Procs, Open(p)
  PROVE  /\ IInv'
         /\ Becomes(p, "idle", {}, {})
<1>1. proc' = [proc EXCEPT ![p] = Fresh]
  BY DEF Open
<1>2. Fresh.at = "idle" /\ Fresh.row = {} /\ Fresh.running = {} /\ ~Fresh.listening /\ ~Fresh.timer
  BY DEF Fresh
<1>3. Placed(p, Fresh)
  BY <1>2 DEF Placed
<1>4. DbKept /\ RestKept
  BY SameDb, RestSame DEF Open
<1> HIDE DEF Fresh
<1> QED
  BY <1>1, <1>2, <1>3, <1>4, FreshType, OneProc

\* The steps that change no process.
LEMMA NoProc ==
  ASSUME IInv, proc' = proc, db' = db, RestKept
  PROVE  IInv'
<1>1. TypeOK'
  BY DEF IInv, TypeOK, RestKept, WatchType
<1> QED
  BY <1>1 DEF IInv

LEMMA LookKeeps ==
  ASSUME IInv, NEW p \in Procs, Look(p)
  PROVE  IInv'
<1>1. watch \in [Procs -> WatchType] /\ <<db.key>> \in Seq(Nat)
  BY RestType, DbType
<1> DEFINE w == [watch[p] EXCEPT !.on = TRUE, !.flight = <<db.key>>]
<1>2. w \in WatchType
  BY <1>1 DEF WatchType
<1>3. watch' = [watch EXCEPT ![p] = w]
  BY DEF Look
<1> HIDE DEF w
<1>4. watch' \in [Procs -> WatchType]
  BY <1>1, <1>2, <1>3
<1> QED
  BY <1>4, RestType, NoProc DEF Look, RestKept

LEMMA TellKeeps ==
  ASSUME IInv, NEW p \in Procs, Tell(p)
  PROVE  IInv'
<1>1. watch \in [Procs -> WatchType] /\ watch[p].flight \in Seq(Nat) /\ watch[p].flight # <<>>
  BY RestType DEF Tell, WatchType
<1>2. Tail(watch[p].flight) \in Seq(Nat) /\ Head(watch[p].flight) \in Nat
  BY <1>1
<1> DEFINE w == [watch[p] EXCEPT !.told = TRUE, !.flight = Tail(@), !.last = Head(watch[p].flight)]
<1>3. w \in WatchType
  BY <1>1, <1>2 DEF WatchType
<1>4. watch' = [watch EXCEPT ![p] = w]
  BY DEF Tell
<1> HIDE DEF w
<1>5. watch' \in [Procs -> WatchType]
  BY <1>1, <1>3, <1>4
<1> QED
  BY <1>5, RestType, NoProc DEF Tell, RestKept

LEMMA ClockKeeps ==
  ASSUME IInv, NEW q \in queue, Clock(q)
  PROVE  IInv'
<1>1. queue \subseteq [row : Rows, ready : BOOLEAN]
  BY RestType
<1>2. [q EXCEPT !.ready = TRUE] \in [row : Rows, ready : BOOLEAN]
  BY <1>1
<1>3. queue' \subseteq [row : Rows, ready : BOOLEAN]
  BY <1>1, <1>2 DEF Clock
<1> QED
  BY <1>3, RestType, NoProc DEF Clock, RestKept

LEMMA InitHolds == Init => IInv
<1> SUFFICES ASSUME Init PROVE IInv
  OBVIOUS
<1>1. proc \in [Procs -> ProcType] /\ \A p \in Procs : proc[p] = Fresh
  BY FreshType DEF Init
<1>2. \A p \in Procs : ~proc[p].timer /\ proc[p].at = "idle" /\ proc[p].row = {} /\ proc[p].running = {}
                         /\ ~proc[p].listening
  BY <1>1 DEF Fresh
<1>3. watch \in [Procs -> WatchType]
  BY DEF Init, Unwatched, WatchType
<1>4. TypeOK
  BY <1>1, <1>2, <1>3, KvQueueAssumption DEF Init, TypeOK, ProcType, WatchType
<1> QED
  BY <1>2, <1>4 DEF IInv, Placed

LEMMA StepKeeps == IInv /\ [Next]_vars => IInv'
<1> SUFFICES ASSUME IInv, [Next]_vars PROVE IInv'
  OBVIOUS
<1>1. ASSUME NEW p \in Procs, Program(p) PROVE IInv'
  BY <1>1, CommitKeeps, ListenKeeps, CloseKeeps, OpenKeeps DEF Program
<1>2. ASSUME NEW p \in Procs, Pump(p) PROVE IInv'
  BY <1>2, PumpWaitsKeeps, PumpSelectsKeeps, PumpDeletesKeeps, BumpKeeps, ReadVersionKeeps, PutUndeliveredKeeps
  DEF Pump
<1>3. ASSUME NEW p \in Procs, Handler(p) PROVE IInv'
  BY <1>3, HandlerOkKeeps, HandlerFailsKeeps DEF Handler
<1>4. ASSUME NEW p \in Procs, Changed(p) \/ Timer(p) \/ Look(p) \/ Tell(p) \/ Crash(p) PROVE IInv'
  BY <1>4, ChangedKeeps, TimerKeeps, LookKeeps, TellKeeps, CrashKeeps
<1>5. CASE \E q \in queue : Clock(q)
  BY <1>5, ClockKeeps
<1>6. CASE UNCHANGED vars
  BY <1>6, RestSame, NoProc DEF vars
<1> QED
  BY <1>1, <1>2, <1>3, <1>4, <1>5, <1>6 DEF Next

LEMMA IInvHolds == Spec => []IInv
BY InitHolds, StepKeeps, PTL DEF Spec

\* Every reachable state of the file and of the processes has its types: a stamp
\* never exceeds the version, and a timer belongs to a process that listens.
THEOREM TypeCorrect == Spec => []TypeOK
<1>1. IInv => TypeOK
  BY DEF IInv
<1> QED
  BY <1>1, IInvHolds, PTL

------------------------------------------------------------------------------
(* Where a message is, with one listener.                                  *)

LEMMA HeldAfter ==
  ASSUME NEW p \in Procs, NEW at, NEW row, NEW running, Becomes(p, at, row, running)
  PROVE  /\ \A o \in Procs : o # p => Held(o)' = Held(o) /\ proc'[o] = proc[o]
         /\ at # "delete" => Held(p)' = running \cup row
         /\ at = "delete" \/ row = {} => Held(p)' = running
BY DEF Becomes, Held

LEMMA HeldBefore ==
  ASSUME NEW p \in Procs
  PROVE  /\ proc[p].at # "delete" => Held(p) = proc[p].running \cup proc[p].row
         /\ proc[p].at = "delete" => Held(p) = proc[p].running
BY DEF Held

\* A process that may not listen has no message in its hands and does nothing but
\* commit, watch, close, crash and open.
LEMMA OnlyListenersHold ==
  ASSUME IInv, NEW p \in Procs, p \notin Listeners
  PROVE  /\ proc[p].at = "idle" /\ Held(p) = {} /\ ~proc[p].listening
         /\ ~Pump(p) /\ ~Handler(p) /\ ~Timer(p) /\ ~Listen(p)
<1>1. Placed(p, proc[p])
  BY DEF IInv
<1>2. ~proc[p].listening /\ ~proc[p].timer /\ proc[p].at = "idle" /\ proc[p].running = {} /\ proc[p].row = {}
  BY <1>1 DEF Placed
<1>3. Held(p) = {}
  BY <1>2 DEF Held
<1>4. ~Pump(p)
  BY <1>2 DEF Pump, PumpWaits, PumpSelects, PumpDeletes, Bump, ReadVersion, PutUndelivered
<1>5. ~Handler(p)
  BY <1>2 DEF Handler, HandlerOk, HandlerFails
<1>6. ~Timer(p) /\ ~Listen(p)
  BY <1>2 DEF Timer, Listen
<1> QED
  BY <1>2, <1>3, <1>4, <1>5, <1>6

\* The messages of the table and of the listener are all different and undecided,
\* and the row that was selected is still in the table.
Once(l) ==
  /\ \A a, b \in queue : a.row.msg = b.row.msg => a = b
  /\ \A r \in Held(l), q \in queue : r.msg # q.row.msg
  /\ \A a, b \in Held(l) : a.msg = b.msg => a = b
  /\ \A r \in Held(l) : fate[r.msg] = "queued"
  /\ \A q \in queue : fate[q.row.msg] = "queued"
  /\ proc[l].at = "delete" => \E q \in queue : proc[l].row = {q.row}
  /\ proc[l].at # "delete" => proc[l].row \cap proc[l].running = {}

\* Every message whose fate is open is somewhere: the one that is lost would be
\* queued, in no table and in nobody's hands.
LEMMA Somewhere ==
  ASSUME NothingLost,
         \A m \in Msgs : fate'[m] = "queued" =>
            \/ fate[m] = "queued" /\ Queued(m) /\ Queued(m)'
            \/ Queued(m)'
            \/ \E p \in Procs : \E r \in Held(p)' : r.msg = m
            \/ fate[m] = "queued" /\ ~Queued(m)
               /\ \A p \in Procs : \A r \in Held(p) : r.msg = m => r \in Held(p)'
  PROVE  NothingLost'
<1> SUFFICES ASSUME NEW m \in Msgs, fate'[m] = "queued"
             PROVE  Queued(m)' \/ Holders(m)' # {}
  BY DEF NothingLost
<1>1. ASSUME NEW p \in Procs, NEW r \in Held(p)', r.msg = m PROVE Holders(m)' # {}
  BY <1>1 DEF Holders
<1>2. CASE fate[m] = "queued" /\ ~Queued(m) /\ \A p \in Procs : \A r \in Held(p) : r.msg = m => r \in Held(p)'
  <2>1. PICK p \in Procs : \E r \in Held(p) : r.msg = m
    BY <1>2 DEF NothingLost, Holders
  <2> QED
    BY <1>1, <1>2, <2>1
<1> QED
  BY <1>1, <1>2

\* The steps that take nothing out of anybody's hands or out of the table.
LEMMA NothingTaken ==
  ASSUME NothingLost, \A q \in queue : \E x \in queue' : x.row = q.row,
         \A o \in Procs : Held(o) \subseteq Held(o)',
         \A m \in Msgs : fate'[m] = "queued" => fate[m] = "queued" \/ Queued(m)'
  PROVE  NothingLost'
<1>1. \A m \in Msgs : Queued(m) => Queued(m)'
  BY DEF Queued
<1> QED
  BY <1>1, Somewhere

LEMMA IdleRow ==
  ASSUME IInv, NEW p \in Procs, proc[p].at \in {"idle", "pump"}
  PROVE  proc[p].row = {} /\ Held(p) = proc[p].running
<1>1. Placed(p, proc[p])
  BY DEF IInv
<1> QED
  BY <1>1 DEF Placed, Held

\* What Commit does to the table and to the fates.
LEMMA CommitQueues ==
  ASSUME NEW p \in Procs, Commit(p)
  PROVE  \/ UNCHANGED <<queue, fate>>
         \/ \E q : /\ queue' = queue \cup {q} /\ q.row.msg \in Msgs /\ fate[q.row.msg] = "new"
                   /\ fate' = [fate EXCEPT ![q.row.msg] = "queued"]
<1>1. CASE UNCHANGED <<queue, fate>>
  BY <1>1
<1>2. ASSUME NEW m \in Msgs, NEW keyed \in BOOLEAN, NEW ready \in BOOLEAN, fate[m] = "new",
             queue' = queue \cup {[row |-> [msg |-> m, attempts |-> 0, keyed |-> keyed], ready |-> ready]},
             fate' = [fate EXCEPT ![m] = "queued"]
      PROVE  \E q : /\ queue' = queue \cup {q} /\ q.row.msg \in Msgs /\ fate[q.row.msg] = "new"
                    /\ fate' = [fate EXCEPT ![q.row.msg] = "queued"]
  <2> DEFINE q == [row |-> [msg |-> m, attempts |-> 0, keyed |-> keyed], ready |-> ready]
  <2>1. q.row.msg = m /\ queue' = queue \cup {q}
    BY <1>2
  <2> HIDE DEF q
  <2> QED
    BY <1>2, <2>1
<1> QED
  BY <1>1, <1>2 DEF Commit

LEMMA NothingLostKeeps ==
  ASSUME IInv, NothingLost, [Next]_vars
  PROVE  NothingLost'
<1>0. fate \in [Msgs -> {"new", "queued", "handled", "undelivered", "cut"}]
  BY RestType
<1>1. ASSUME NEW p \in Procs, Commit(p) PROVE NothingLost'
  <2>1. \A o \in Procs : Held(o)' = Held(o)
    <3>1. proc[p].at = "idle"
      BY <1>1 DEF Commit, Idle
    <3> QED
      BY <1>1, <3>1, CommitKeeps, HeldAfter, IdleRow
  <2>2. CASE UNCHANGED <<queue, fate>>
    BY <2>1, <2>2, NothingTaken
  <2>3. ASSUME NEW q, queue' = queue \cup {q}, q.row.msg \in Msgs, fate' = [fate EXCEPT ![q.row.msg] = "queued"]
        PROVE  NothingLost'
    <3>1. \A m \in Msgs : fate'[m] = "queued" => fate[m] = "queued" \/ m = q.row.msg
      BY <1>0, <2>3
    <3>2. Queued(q.row.msg)'
      BY <2>3 DEF Queued
    <3> QED
      BY <2>1, <2>3, <3>1, <3>2, NothingTaken
  <2> QED
    BY <1>1, <2>2, <2>3, CommitQueues
<1>2. ASSUME NEW p \in Procs, Listen(p) \/ Changed(p) \/ Timer(p) \/ PumpWaits(p) \/ Close(p) PROVE NothingLost'
  <2>1. proc[p].at \in {"idle", "pump"} /\ UNCHANGED <<queue, fate>>
    BY <1>2 DEF Listen, Changed, Timer, PumpWaits, Close, Idle
  <2>2. PICK at \in {"idle", "pump"} : Becomes(p, at, {}, proc[p].running)
    BY <1>2, ListenKeeps, ChangedKeeps, TimerKeeps, PumpWaitsKeeps, CloseKeeps
  <2>3. \A o \in Procs : Held(o)' = Held(o)
    BY <2>1, <2>2, IdleRow, HeldAfter
  <2> QED
    BY <2>1, <2>3, NothingTaken
<1>3. ASSUME NEW p \in Procs, PumpSelects(p) PROVE NothingLost'
  <2>1. proc[p].at = "pump" /\ UNCHANGED <<queue, fate>>
    BY <1>3 DEF PumpSelects
  <2>2. PICK q \in queue : Becomes(p, "delete", {q.row}, proc[p].running)
    BY <1>3, PumpSelectsKeeps
  <2>3. \A o \in Procs : Held(o)' = Held(o)
    BY <2>1, <2>2, IdleRow, HeldAfter
  <2> QED
    BY <2>1, <2>3, NothingTaken
<1>4. ASSUME NEW p \in Procs, PumpDeletes(p) PROVE NothingLost'
  <2>1. proc[p].at = "delete" /\ queue' = {q \in queue : q.row \notin proc[p].row} /\ fate' = fate
    BY <1>4 DEF PumpDeletes
  <2>2. (\A o \in Procs : o # p => Held(o)' = Held(o)) /\ Held(p)' = Held(p) \cup proc[p].row
    <3> DEFINE all == proc[p].running \cup proc[p].row
    <3>1. Becomes(p, "idle", {}, all)
      BY <1>4, PumpDeletesKeeps
    <3> HIDE DEF all
    <3>2. (\A o \in Procs : o # p => Held(o)' = Held(o)) /\ Held(p)' = all
      BY <3>1, HeldAfter
    <3> QED
      BY <2>1, <3>2, HeldBefore DEF all
  <2>3. ASSUME NEW m \in Msgs, Queued(m), ~Queued(m)' PROVE \E r \in Held(p)' : r.msg = m
    BY <2>1, <2>2, <2>3 DEF Queued
  <2>4. \A o \in Procs : \A r \in Held(o) : r \in Held(o)'
    BY <2>2
  <2> QED
    BY <2>1, <2>3, <2>4, Somewhere
<1>5. ASSUME NEW p \in Procs, NEW x \in Rows, HandlerOk(p, x) PROVE NothingLost'
  <2>1. proc[p].at = "idle" /\ queue' = queue /\ fate' = [fate EXCEPT ![x.msg] = "handled"]
    BY <1>5 DEF HandlerOk
  <2>2. (\A o \in Procs : o # p => Held(o)' = Held(o)) /\ Held(p)' = Held(p) \ {x}
    <3> DEFINE rest == proc[p].running \ {x}
               next == IF proc[p].listening THEN "pump" ELSE "idle"
    <3>1. Becomes(p, next, {}, rest)
      BY <1>5, HandlerOkKeeps
    <3> HIDE DEF rest, next
    <3>2. (\A o \in Procs : o # p => Held(o)' = Held(o)) /\ Held(p)' = rest
      BY <3>1, HeldAfter
    <3> QED
      BY <2>1, <3>2, IdleRow DEF rest
  <2>3. \A m \in Msgs : fate'[m] = "queued" => fate[m] = "queued" /\ m # x.msg
    BY <1>0, <2>1
  <2>4. \A m \in Msgs : m # x.msg => \A o \in Procs : \A r \in Held(o) : r.msg = m => r \in Held(o)'
    BY <2>2
  <2>5. \A m \in Msgs : Queued(m) => Queued(m)'
    BY <2>1 DEF Queued
  <2> QED
    BY <2>3, <2>4, <2>5, Somewhere
<1>6. ASSUME NEW p \in Procs, NEW x \in Rows, HandlerFails(p, x) PROVE NothingLost'
  <2>1. proc[p].at = "idle" /\ x.msg \in Msgs /\ Held(p) = proc[p].running
    BY <1>6, IdleRow DEF HandlerFails, Rows
  <2>3. CASE /\ fate'[x.msg] \in {"undelivered", "cut"} /\ \A m \in Msgs : m # x.msg => fate'[m] = fate[m]
             /\ queue' = queue
             /\ \E at \in {"idle", "pump"} : Becomes(p, at, {}, proc[p].running \ {x})
    <3>1. (\A o \in Procs : o # p => Held(o)' = Held(o)) /\ Held(p)' = Held(p) \ {x}
      BY <2>1, <2>3, HeldAfter
    <3>2. \A m \in Msgs : fate'[m] = "queued" => fate[m] = "queued" /\ m # x.msg
      BY <2>3
    <3>3. \A m \in Msgs : m # x.msg => \A o \in Procs : \A r \in Held(o) : r.msg = m => r \in Held(o)'
      BY <3>1
    <3>4. \A m \in Msgs : Queued(m) => Queued(m)'
      BY <2>3 DEF Queued
    <3> QED
      BY <3>2, <3>3, <3>4, Somewhere
  <2>4. CASE /\ queue' = queue \cup {[row |-> [x EXCEPT !.attempts = @ + 1], ready |-> FALSE]}
             /\ fate' = fate /\ Becomes(p, "pump", {}, proc[p].running \ {x})
    <3> DEFINE y == [row |-> [x EXCEPT !.attempts = @ + 1], ready |-> FALSE]
    <3>1. (\A o \in Procs : o # p => Held(o)' = Held(o)) /\ Held(p)' = Held(p) \ {x}
      BY <2>1, <2>4, HeldAfter
    <3>2. y.row.msg = x.msg /\ queue' = queue \cup {y}
      BY <2>4 DEF Rows
    <3> HIDE DEF y
    <3>3. Queued(x.msg)' /\ \A m \in Msgs : Queued(m) => Queued(m)'
      BY <3>2 DEF Queued
    <3>4. \A m \in Msgs : m # x.msg => \A o \in Procs : \A r \in Held(o) : r.msg = m => r \in Held(o)'
      BY <3>1
    <3> QED
      BY <2>4, <3>3, <3>4, Somewhere
  <2>5. CASE /\ queue' = queue /\ fate' = fate /\ proc[p].row = {}
             /\ Becomes(p, "bump", {x}, proc[p].running \ {x})
    <3>1. (\A o \in Procs : o # p => Held(o)' = Held(o)) /\ Held(p)' = (proc[p].running \ {x}) \cup {x}
      BY <2>5, HeldAfter
    <3>2. \A o \in Procs : Held(o) \subseteq Held(o)'
      BY <2>1, <3>1
    <3> QED
      BY <2>5, <3>2, NothingTaken
  <2>6. CASE /\ fate' = [fate EXCEPT ![x.msg] = "undelivered"]
             /\ queue' = queue /\ Becomes(p, "pump", {}, proc[p].running \ {x})
    <3>1. fate'[x.msg] \in {"undelivered", "cut"} /\ \A m \in Msgs : m # x.msg => fate'[m] = fate[m]
      BY <1>0, <2>1, <2>6
    <3> QED
      BY <2>3, <2>6, <3>1
  <2> QED
    BY <1>6, <2>3, <2>4, <2>5, <2>6, HandlerFailsKeeps
<1>7. ASSUME NEW p \in Procs, Bump(p) \/ ReadVersion(p) PROVE NothingLost'
  <2>1. proc[p].at \in {"bump", "version"} /\ UNCHANGED <<queue, fate>>
    BY <1>7 DEF Bump, ReadVersion
  <2>2. PICK at \in {"version", "put"} : Becomes(p, at, proc[p].row, proc[p].running)
    BY <1>7, BumpKeeps, ReadVersionKeeps
  <2>3. (\A o \in Procs : o # p => Held(o)' = Held(o)) /\ Held(p)' = proc[p].running \cup proc[p].row
    <3>1. at # "delete"
      BY <2>2
    <3> QED
      BY <2>2, <3>1, HeldAfter
  <2>4. Held(p) = proc[p].running \cup proc[p].row
    BY <2>1, HeldBefore
  <2> QED
    BY <2>1, <2>3, <2>4, NothingTaken
<1>8. ASSUME NEW p \in Procs, PutUndelivered(p) PROVE NothingLost'
  <2>1. proc[p].at = "put" /\ queue' = queue
        /\ fate' = [m \in Msgs |-> IF \E r \in proc[p].row : r.msg = m THEN "undelivered" ELSE fate[m]]
    BY <1>8 DEF PutUndelivered
  <2>2. (\A o \in Procs : o # p => Held(o)' = Held(o)) /\ Held(p)' = proc[p].running
        /\ Held(p) = proc[p].running \cup proc[p].row
    <3>1. Becomes(p, "pump", {}, proc[p].running)
      BY <1>8, PutUndeliveredKeeps
    <3>2. (\A o \in Procs : o # p => Held(o)' = Held(o)) /\ Held(p)' = proc[p].running
      BY <3>1, HeldAfter
    <3>3. Held(p) = proc[p].running \cup proc[p].row
      BY <2>1, HeldBefore
    <3> QED
      BY <3>2, <3>3
  <2>3. \A m \in Msgs : fate'[m] = "queued" => fate[m] = "queued" /\ ~\E r \in proc[p].row : r.msg = m
    BY <2>1
  <2>4. \A m \in Msgs : (~\E r \in proc[p].row : r.msg = m) =>
           \A o \in Procs : \A r \in Held(o) : r.msg = m => r \in Held(o)'
    BY <2>2
  <2>5. \A m \in Msgs : Queued(m) => Queued(m)'
    BY <2>1 DEF Queued
  <2> QED
    BY <2>3, <2>4, <2>5, Somewhere
<1>9. ASSUME NEW p \in Procs, Crash(p) PROVE NothingLost'
  <2>1. queue' = queue /\ fate' = [m \in Msgs |-> IF \E r \in Held(p) : r.msg = m THEN "cut" ELSE fate[m]]
    BY <1>9 DEF Crash
  <2>2. \A o \in Procs : o # p => Held(o)' = Held(o)
    BY <1>9, CrashKeeps, HeldAfter
  <2>3. \A m \in Msgs : fate'[m] = "queued" => fate[m] = "queued" /\ ~\E r \in Held(p) : r.msg = m
    BY <2>1
  <2>4. \A m \in Msgs : (~\E r \in Held(p) : r.msg = m) =>
           \A o \in Procs : \A r \in Held(o) : r.msg = m => r \in Held(o)'
    BY <2>2
  <2>5. \A m \in Msgs : Queued(m) => Queued(m)'
    BY <2>1 DEF Queued
  <2> QED
    BY <2>3, <2>4, <2>5, Somewhere
<1>10. ASSUME NEW p \in Procs, Open(p) PROVE NothingLost'
  <2>1. proc[p].running = {} /\ ~proc[p].open /\ UNCHANGED <<queue, fate>>
    BY <1>10 DEF Open
  <2>2. Placed(p, proc[p])
    BY DEF IInv
  <2>3. Held(p) = {}
    BY <2>1, <2>2 DEF Placed, Held
  <2>4. \A o \in Procs : o # p => Held(o)' = Held(o)
    BY <1>10, OpenKeeps, HeldAfter
  <2> QED
    BY <2>1, <2>3, <2>4, NothingTaken
<1>11. ASSUME NEW q \in queue, Clock(q) PROVE NothingLost'
  <2>1. queue' = (queue \ {q}) \cup {[q EXCEPT !.ready = TRUE]} /\ fate' = fate /\ proc' = proc
    BY <1>11 DEF Clock
  <2>2. q \in [row : Rows, ready : BOOLEAN]
    BY RestType
  <2>3. \A o \in Procs : Held(o)' = Held(o)
    BY <2>1 DEF Held
  <2>4. \A x \in queue : \E z \in queue' : z.row = x.row
    <3> DEFINE y == [q EXCEPT !.ready = TRUE]
    <3>1. y.row = q.row /\ queue' = (queue \ {q}) \cup {y}
      BY <2>1, <2>2
    <3> HIDE DEF y
    <3> QED
      BY <3>1
  <2> QED
    BY <2>1, <2>3, <2>4, NothingTaken
<1>12. ASSUME UNCHANGED <<queue, fate, proc>> PROVE NothingLost'
  <2>1. \A o \in Procs : Held(o)' = Held(o)
    BY <1>12 DEF Held
  <2> QED
    BY <1>12, <2>1, NothingTaken
<1>13. ASSUME NEW p \in Procs, Look(p) \/ Tell(p) PROVE NothingLost'
  BY <1>12, <1>13 DEF Look, Tell
<1>14. CASE UNCHANGED vars
  BY <1>12, <1>14 DEF vars
<1> QED
  BY <1>1, <1>2, <1>3, <1>4, <1>5, <1>6, <1>7, <1>8, <1>9, <1>10, <1>11, <1>13, <1>14
  DEF Next, Program, Pump, Handler

\* A message that was committed is in the table or in the hands of a process until
\* its handler is done, its retries and keys are, or the process that took it ends:
\* for any number of processes that listen, close and crash.
THEOREM NoMessageVanishes == Spec => []NothingLost
<1>1. Init => NothingLost
  BY DEF Init, NothingLost
<1> QED
  BY <1>1, IInvHolds, NothingLostKeeps, PTL DEF Spec

------------------------------------------------------------------------------
(* One listener.                                                           *)

\* A step that moves nothing.
LEMMA OnceSame ==
  ASSUME NEW l \in Procs, Once(l), Held(l)' = Held(l), queue' = queue, fate' = fate,
         \/ proc'[l] = proc[l]
         \/ proc'[l].at # "delete" /\ proc'[l].row \cap proc'[l].running = {}
  PROVE  Once(l)'
BY DEF Once

\* A step that takes the row x out of the listener's hands and decides its message.
LEMMA OnceDecided ==
  ASSUME NEW l \in Procs, Once(l), NEW x \in Held(l), Held(l)' = Held(l) \ {x}, queue' = queue,
         \A m \in Msgs : m # x.msg => fate'[m] = fate[m],
         \A r \in Held(l) : r.msg \in Msgs, \A q \in queue : q.row.msg \in Msgs,
         proc'[l].at # "delete", proc'[l].row = {}
  PROVE  Once(l)'
<1>1. \A r \in Held(l)' : r \in Held(l) /\ r.msg # x.msg
  BY DEF Once
<1>2. \A r \in Held(l)' : fate'[r.msg] = "queued"
  BY <1>1 DEF Once
<1>3. \A q \in queue' : q \in queue /\ q.row.msg # x.msg
  BY DEF Once
<1>4. \A q \in queue' : fate'[q.row.msg] = "queued"
  BY <1>3 DEF Once
<1>5. \A a, b \in queue' : a.row.msg = b.row.msg => a = b
  BY DEF Once
<1>6. \A r \in Held(l)', q \in queue' : r.msg # q.row.msg
  BY <1>1, <1>3 DEF Once
<1>7. \A a, b \in Held(l)' : a.msg = b.msg => a = b
  BY <1>1 DEF Once
<1> QED
  BY <1>2, <1>4, <1>5, <1>6, <1>7 DEF Once

LEMMA RowMsgs == ASSUME IInv, NEW l \in Procs
                 PROVE  (\A r \in Held(l) : r \in Rows /\ r.msg \in Msgs) /\ \A q \in queue : q.row.msg \in Msgs
<1>1. proc[l].row \subseteq Rows /\ proc[l].running \subseteq Rows
  <2>1. proc \in [Procs -> ProcType]
    BY DEF IInv, TypeOK, ProcType
  <2> QED
    BY <2>1 DEF ProcType
<1>2. \A r \in Rows : r.msg \in Msgs
  BY DEF Rows
<1>3. \A r \in Held(l) : r \in Rows
  BY <1>1 DEF Held
<1>4. \A q \in queue : q.row \in Rows
  BY RestType
<1> QED
  BY <1>2, <1>3, <1>4

LEMMA OnceCommit ==
  ASSUME IInv, NEW l \in Procs, Once(l), NEW p \in Procs, Commit(p)
  PROVE  Once(l)'
<1>1. proc[p].at = "idle" /\ Becomes(p, "idle", {}, proc[p].running)
  BY CommitKeeps DEF Commit, Idle
<1>2. proc'[l].at = proc[l].at /\ proc'[l].row = proc[l].row /\ proc'[l].running = proc[l].running
  BY <1>1, IdleRow DEF Becomes
<1>3. Held(l)' = Held(l)
  BY <1>2 DEF Held
<1>4. CASE UNCHANGED <<queue, fate>>
  BY <1>2, <1>3, <1>4 DEF Once
<1>5. ASSUME NEW n, queue' = queue \cup {n}, n.row.msg \in Msgs, fate[n.row.msg] = "new",
             fate' = [fate EXCEPT ![n.row.msg] = "queued"]
      PROVE  Once(l)'
  <2>0. /\ fate'[n.row.msg] = "queued"
        /\ \A m \in Msgs : m # n.row.msg => fate'[m] = fate[m]
    BY <1>5, RestType
  <2>1. \A q \in queue : q.row.msg # n.row.msg
    BY <1>5 DEF Once
  <2>2. \A r \in Held(l) : r.msg # n.row.msg
    BY <1>5 DEF Once
  <2>3. \A a, b \in queue' : a.row.msg = b.row.msg => a = b
    BY <1>5, <2>1 DEF Once
  <2>4. \A r \in Held(l)', q \in queue' : r.msg # q.row.msg
    BY <1>3, <1>5, <2>2 DEF Once
  <2>5. (\A r \in Held(l)' : fate'[r.msg] = "queued") /\ \A q \in queue' : fate'[q.row.msg] = "queued"
    BY <1>3, <1>5, <2>0, <2>1, <2>2, RowMsgs DEF Once
  <2>6. \A a, b \in Held(l)' : a.msg = b.msg => a = b
    BY <1>3 DEF Once
  <2>7. proc'[l].at = "delete" => \E q \in queue' : proc'[l].row = {q.row}
    BY <1>2, <1>5 DEF Once
  <2>8. proc'[l].at # "delete" => proc'[l].row \cap proc'[l].running = {}
    BY <1>2 DEF Once
  <2> QED
    BY <2>3, <2>4, <2>5, <2>6, <2>7, <2>8 DEF Once
<1> QED
  BY <1>4, <1>5, CommitQueues

\* A process that is not the listener.
LEMMA OnceOthers ==
  ASSUME IInv, NEW l \in Procs, Once(l), NEW p \in Procs, p # l, p \notin Listeners,
         Program(p) \/ Pump(p) \/ Handler(p) \/ Changed(p) \/ Timer(p) \/ Look(p) \/ Tell(p) \/ Crash(p)
  PROVE  Once(l)'
<1>1. ASSUME proc'[l] = proc[l], queue' = queue, fate' = fate PROVE Once(l)'
  <2>1. Held(l)' = Held(l)
    BY <1>1 DEF Held
  <2> QED
    BY <1>1, <2>1, OnceSame
<1>2. ASSUME Close(p) \/ Open(p) \/ Changed(p) PROVE Once(l)'
  <2>1. proc'[l] = proc[l]
    BY <1>2, CloseKeeps, OpenKeeps, ChangedKeeps DEF Becomes
  <2> QED
    BY <1>1, <1>2, <2>1 DEF Close, Open, Changed
<1>3. ASSUME Crash(p) PROVE Once(l)'
  <2>1. proc'[l] = proc[l] /\ queue' = queue
    BY <1>3, CrashKeeps DEF Becomes, Crash
  <2>2. fate' = [m \in Msgs |-> fate[m]]
    BY <1>3, OnlyListenersHold DEF Crash
  <2>3. fate' = fate
    BY <2>2, RestType
  <2> QED
    BY <1>1, <2>1, <2>3
<1>4. ASSUME Look(p) \/ Tell(p) PROVE Once(l)'
  BY <1>1, <1>4 DEF Look, Tell
<1> QED
  BY <1>2, <1>3, <1>4, OnceCommit, OnlyListenersHold DEF Program

LEMMA OncePumpDeletes ==
  ASSUME IInv, NEW l \in Procs, Once(l), PumpDeletes(l)
  PROVE  Once(l)'
<1>1. proc[l].at = "delete" /\ queue' = {q \in queue : q.row \notin proc[l].row} /\ fate' = fate
  BY DEF PumpDeletes
<1>2. PICK s \in queue : proc[l].row = {s.row}
  BY <1>1 DEF Once
<1> DEFINE all == proc[l].running \cup proc[l].row
<1>3. Becomes(l, "idle", {}, all)
  BY PumpDeletesKeeps
<1> HIDE DEF all
<1>4. Held(l)' = all /\ proc'[l].at = "idle" /\ proc'[l].row = {}
  BY <1>3, HeldAfter DEF Becomes
<1>5. Held(l)' = Held(l) \cup {s.row}
  BY <1>1, <1>2, <1>4, HeldBefore DEF all
<1>6. \A q \in queue' : q \in queue /\ q.row.msg # s.row.msg
  BY <1>1, <1>2 DEF Once
<1>7. \A a, b \in queue' : a.row.msg = b.row.msg => a = b
  BY <1>6 DEF Once
<1>8. \A r \in Held(l)', q \in queue' : r.msg # q.row.msg
  BY <1>5, <1>6 DEF Once
<1>9. \A a, b \in Held(l)' : a.msg = b.msg => a = b
  BY <1>2, <1>5 DEF Once
<1>10. (\A r \in Held(l)' : fate'[r.msg] = "queued") /\ \A q \in queue' : fate'[q.row.msg] = "queued"
  BY <1>1, <1>2, <1>5, <1>6 DEF Once
<1> QED
  BY <1>4, <1>7, <1>8, <1>9, <1>10 DEF Once

LEMMA OncePumpSelects ==
  ASSUME IInv, NEW l \in Procs, Once(l), PumpSelects(l)
  PROVE  Once(l)'
<1>1. proc[l].at = "pump" /\ queue' = queue /\ fate' = fate
  BY DEF PumpSelects
<1>2. PICK q \in queue : Becomes(l, "delete", {q.row}, proc[l].running)
  BY PumpSelectsKeeps
<1>3. Held(l)' = Held(l) /\ proc'[l].at = "delete" /\ proc'[l].row = {q.row}
  BY <1>1, <1>2, HeldAfter, IdleRow DEF Becomes
<1> QED
  BY <1>1, <1>3 DEF Once

LEMMA OnceHandlerOk ==
  ASSUME IInv, NEW l \in Procs, Once(l), NEW x \in Rows, HandlerOk(l, x)
  PROVE  Once(l)'
<1> DEFINE rest == proc[l].running \ {x}
           next == IF proc[l].listening THEN "pump" ELSE "idle"
<1>1. proc[l].at = "idle" /\ x \in proc[l].running /\ queue' = queue /\ fate' = [fate EXCEPT ![x.msg] = "handled"]
  BY DEF HandlerOk
<1>2. Becomes(l, next, {}, rest) /\ next # "delete"
  BY HandlerOkKeeps
<1> HIDE DEF rest, next
<1>3. Held(l)' = rest /\ proc'[l].at # "delete" /\ proc'[l].row = {}
  BY <1>2, HeldAfter DEF Becomes
<1>4. x \in Held(l) /\ Held(l)' = Held(l) \ {x}
  BY <1>1, <1>3, IdleRow DEF rest
<1>5. \A m \in Msgs : m # x.msg => fate'[m] = fate[m]
  BY <1>1, RestType
<1> QED
  BY <1>1, <1>3, <1>4, <1>5, RowMsgs, OnceDecided

LEMMA OnceHandlerFails ==
  ASSUME IInv, NEW l \in Procs, Once(l), NEW x \in Rows, HandlerFails(l, x)
  PROVE  Once(l)'
<1> DEFINE rest == proc[l].running \ {x}
<1>1. proc[l].at = "idle" /\ x \in proc[l].running
  BY DEF HandlerFails
<1>2. x \in Held(l) /\ rest = Held(l) \ {x}
  BY <1>1, IdleRow
<1>3. \/ /\ \A m \in Msgs : m # x.msg => fate'[m] = fate[m]
         /\ queue' = queue /\ \E at \in {"idle", "pump"} : Becomes(l, at, {}, rest)
      \/ /\ queue' = queue \cup {[row |-> [x EXCEPT !.attempts = @ + 1], ready |-> FALSE]}
         /\ fate' = fate /\ Becomes(l, "pump", {}, rest)
      \/ /\ queue' = queue /\ fate' = fate
         /\ Becomes(l, "bump", {x}, rest)
  BY HandlerFailsKeeps, RestType
<1> HIDE DEF rest
<1>4. CASE /\ \A m \in Msgs : m # x.msg => fate'[m] = fate[m]
           /\ queue' = queue /\ \E at \in {"idle", "pump"} : Becomes(l, at, {}, rest)
  <2>1. PICK at \in {"idle", "pump"} : Becomes(l, at, {}, rest)
    BY <1>4
  <2>2. Held(l)' = Held(l) \ {x} /\ proc'[l].at # "delete" /\ proc'[l].row = {}
    BY <1>2, <2>1, HeldAfter DEF Becomes
  <2> QED
    BY <1>2, <1>4, <2>2, RowMsgs, OnceDecided
<1>5. CASE /\ queue' = queue \cup {[row |-> [x EXCEPT !.attempts = @ + 1], ready |-> FALSE]}
           /\ fate' = fate /\ Becomes(l, "pump", {}, rest)
  <2> DEFINE y == [row |-> [x EXCEPT !.attempts = @ + 1], ready |-> FALSE]
  <2>1. y.row.msg = x.msg /\ queue' = queue \cup {y}
    BY <1>5 DEF Rows
  <2> HIDE DEF y
  <2>2. Held(l)' = Held(l) \ {x} /\ proc'[l].at = "pump" /\ proc'[l].row = {}
    BY <1>2, <1>5, HeldAfter DEF Becomes
  <2>3. \A q \in queue : q.row.msg # x.msg
    BY <1>2 DEF Once
  <2>4. \A r \in Held(l)' : r \in Held(l) /\ r.msg # x.msg
    BY <1>2, <2>2 DEF Once
  <2>5. \A a, b \in queue' : a.row.msg = b.row.msg => a = b
    BY <2>1, <2>3 DEF Once
  <2>6. \A r \in Held(l)', q \in queue' : r.msg # q.row.msg
    BY <2>1, <2>4 DEF Once
  <2>7. (\A r \in Held(l)' : fate'[r.msg] = "queued") /\ \A q \in queue' : fate'[q.row.msg] = "queued"
    BY <1>2, <1>5, <2>1, <2>4 DEF Once
  <2>8. \A a, b \in Held(l)' : a.msg = b.msg => a = b
    BY <2>4 DEF Once
  <2> QED
    BY <2>2, <2>5, <2>6, <2>7, <2>8 DEF Once
<1>6. CASE queue' = queue /\ fate' = fate /\ Becomes(l, "bump", {x}, rest)
  <2>1. Held(l)' = rest \cup {x} /\ proc'[l].at = "bump" /\ proc'[l].row = {x} /\ proc'[l].running = rest
    BY <1>6, HeldAfter DEF Becomes
  <2>2. Held(l)' = Held(l) /\ proc'[l].row \cap proc'[l].running = {}
    BY <1>2, <2>1 DEF rest
  <2> QED
    BY <1>6, <2>1, <2>2, OnceSame
<1> QED
  BY <1>3, <1>4, <1>5, <1>6

LEMMA OncePut ==
  ASSUME IInv, NEW l \in Procs, Once(l), PutUndelivered(l)
  PROVE  Once(l)'
<1>1. proc[l].at = "put" /\ queue' = queue
      /\ fate' = [m \in Msgs |-> IF \E r \in proc[l].row : r.msg = m THEN "undelivered" ELSE fate[m]]
  BY DEF PutUndelivered
<1>2. PICK x \in Rows : proc[l].row = {x}
  BY <1>1 DEF IInv, Placed
<1>3. Becomes(l, "pump", {}, proc[l].running)
  BY PutUndeliveredKeeps
<1>4. Held(l)' = proc[l].running /\ proc'[l].at = "pump" /\ proc'[l].row = {}
  BY <1>3, HeldAfter DEF Becomes
<1>5. Held(l) = proc[l].running \cup {x} /\ x \notin proc[l].running
  BY <1>1, <1>2, HeldBefore DEF Once
<1>6. x \in Held(l) /\ Held(l)' = Held(l) \ {x}
  BY <1>4, <1>5
<1>7. \A m \in Msgs : m # x.msg => fate'[m] = fate[m]
  BY <1>1, <1>2
<1> QED
  BY <1>1, <1>4, <1>6, <1>7, RowMsgs, OnceDecided

LEMMA OnceCrash ==
  ASSUME IInv, NEW l \in Procs, Once(l), Crash(l)
  PROVE  Once(l)'
<1>1. queue' = queue /\ fate' = [m \in Msgs |-> IF \E r \in Held(l) : r.msg = m THEN "cut" ELSE fate[m]]
  BY DEF Crash
<1>2. Becomes(l, "idle", {}, {})
  BY CrashKeeps
<1>3. Held(l)' = {} /\ proc'[l].at = "idle" /\ proc'[l].row = {}
  BY <1>2, HeldAfter DEF Becomes
<1>4. \A q \in queue : fate'[q.row.msg] = fate[q.row.msg]
  BY <1>1, RowMsgs DEF Once
<1> QED
  BY <1>1, <1>3, <1>4 DEF Once

LEMMA OnceClock ==
  ASSUME IInv, NEW l \in Procs, Once(l), NEW q \in queue, Clock(q)
  PROVE  Once(l)'
<1> DEFINE y == [q EXCEPT !.ready = TRUE]
<1>1. y.row = q.row /\ queue' = (queue \ {q}) \cup {y} /\ fate' = fate /\ proc' = proc
  BY RestType DEF Clock
<1> HIDE DEF y
<1>2. Held(l)' = Held(l)
  BY <1>1 DEF Held
<1>3. \A x \in queue' : \E z \in queue : z.row = x.row
  BY <1>1
<1>4. \A x \in queue : \E z \in queue' : z.row = x.row
  BY <1>1
<1>5. \A a, b \in queue' : a.row.msg = b.row.msg => a = b
  BY <1>1 DEF Once
<1>6. \A r \in Held(l)', x \in queue' : r.msg # x.row.msg
  BY <1>2, <1>3 DEF Once
<1>7. (\A r \in Held(l)' : fate'[r.msg] = "queued") /\ \A x \in queue' : fate'[x.row.msg] = "queued"
  BY <1>1, <1>2, <1>3 DEF Once
<1>8. proc'[l].at = "delete" => \E x \in queue' : proc'[l].row = {x.row}
  BY <1>1, <1>4 DEF Once
<1> QED
  BY <1>1, <1>2, <1>5, <1>6, <1>7, <1>8 DEF Once

LEMMA OnceOwn ==
  ASSUME IInv, NEW l \in Procs, Once(l),
         Program(l) \/ Pump(l) \/ Changed(l) \/ Timer(l) \/ Look(l) \/ Tell(l)
  PROVE  Once(l)'
<1>1. ASSUME Listen(l) \/ Changed(l) \/ Timer(l) \/ PumpWaits(l) \/ Close(l) PROVE Once(l)'
  <2>1. proc[l].at \in {"idle", "pump"} /\ UNCHANGED <<queue, fate>>
    BY <1>1 DEF Listen, Changed, Timer, PumpWaits, Close, Idle
  <2>2. PICK at \in {"idle", "pump"} : Becomes(l, at, {}, proc[l].running)
    BY <1>1, ListenKeeps, ChangedKeeps, TimerKeeps, PumpWaitsKeeps, CloseKeeps
  <2>3. Held(l)' = Held(l) /\ proc'[l].at # "delete" /\ proc'[l].row = {}
    BY <2>1, <2>2, IdleRow, HeldAfter DEF Becomes
  <2> QED
    BY <2>1, <2>3, OnceSame
<1>2. ASSUME Bump(l) \/ ReadVersion(l) PROVE Once(l)'
  <2>1. proc[l].at \in {"bump", "version"} /\ UNCHANGED <<queue, fate>>
    BY <1>2 DEF Bump, ReadVersion
  <2>2. PICK at \in {"version", "put"} : Becomes(l, at, proc[l].row, proc[l].running)
    BY <1>2, BumpKeeps, ReadVersionKeeps
  <2>3. proc'[l].at # "delete" /\ proc'[l].row = proc[l].row /\ proc'[l].running = proc[l].running
    BY <2>2 DEF Becomes
  <2>4. Held(l)' = Held(l)
    BY <2>1, <2>3 DEF Held
  <2>5. proc[l].row \cap proc[l].running = {}
    BY <2>1 DEF Once
  <2> QED
    BY <2>1, <2>3, <2>4, <2>5, OnceSame
<1>3. ASSUME Open(l) PROVE Once(l)'
  <2>1. proc[l].running = {} /\ ~proc[l].open /\ UNCHANGED <<queue, fate>>
    BY <1>3 DEF Open
  <2>2. Held(l) = {}
    BY <2>1 DEF IInv, Placed, Held
  <2>3. Becomes(l, "idle", {}, {})
    BY <1>3, OpenKeeps
  <2>4. Held(l)' = {} /\ proc'[l].at # "delete" /\ proc'[l].row = {}
    BY <2>3, HeldAfter DEF Becomes
  <2> QED
    BY <2>1, <2>2, <2>4, OnceSame
<1>4. ASSUME Look(l) \/ Tell(l) PROVE Once(l)'
  <2>1. UNCHANGED <<proc, queue, fate>>
    BY <1>4 DEF Look, Tell
  <2> QED
    BY <2>1, OnceSame DEF Held
<1> QED
  BY <1>1, <1>2, <1>3, <1>4, OnceCommit, OncePumpSelects, OncePumpDeletes, OncePut DEF Program, Pump

LEMMA OnceKeeps ==
  ASSUME IInv, NEW l \in Procs, Listeners = {l}, Once(l), [Next]_vars
  PROVE  Once(l)'
<1>1. ASSUME NEW p \in Procs,
             Program(p) \/ Pump(p) \/ Handler(p) \/ Changed(p) \/ Timer(p) \/ Look(p) \/ Tell(p) \/ Crash(p)
      PROVE  Once(l)'
  <2>1. CASE p # l
    BY <1>1, <2>1, OnceOthers
  <2>2. CASE p = l /\ Handler(l)
    BY <2>2, OnceHandlerOk, OnceHandlerFails DEF Handler
  <2>3. CASE p = l /\ ~Handler(l)
    BY <1>1, <2>3, OnceOwn, OnceCrash
  <2> QED
    BY <2>1, <2>2, <2>3
<1>2. CASE \E q \in queue : Clock(q)
  BY <1>2, OnceClock
<1>3. CASE UNCHANGED vars
  BY <1>3, OnceSame DEF vars, Held
<1> QED
  BY <1>1, <1>2, <1>3 DEF Next

\* The counts of HandledOnceAtATime, from the invariant.
LEMMA OnceCounts ==
  ASSUME IInv, NEW l \in Procs, Listeners = {l}, Once(l)
  PROVE  HandledOnceAtATime
<1> SUFFICES ASSUME NEW m \in Msgs
             PROVE  /\ Cardinality({q \in queue : q.row.msg = m}) + Cardinality(Holders(m)) <= 1
                    /\ fate[m] # "queued" => ~Queued(m)
  BY DEF HandledOnceAtATime
<1> DEFINE Q == {q \in queue : q.row.msg = m}
<1>1. fate[m] # "queued" => ~Queued(m)
  BY DEF Once, Queued
<1>2. Q = {} \/ \E q : Q = {q}
  BY DEF Once
<1>3. Holders(m) = {} \/ Holders(m) = {l}
  BY OnlyListenersHold DEF Holders
<1>4. Q = {} \/ Holders(m) = {}
  BY <1>3 DEF Once, Holders
<1>5. Cardinality(Q) \in {0, 1} /\ (Q = {} => Cardinality(Q) = 0)
  BY <1>2, FS_EmptySet, FS_Singleton
<1>6. Cardinality(Holders(m)) \in {0, 1} /\ (Holders(m) = {} => Cardinality(Holders(m)) = 0)
  BY <1>3, FS_EmptySet, FS_Singleton
<1> HIDE DEF Q
<1>7. Cardinality(Q) + Cardinality(Holders(m)) <= 1
  BY <1>4, <1>5, <1>6
<1> QED
  BY <1>1, <1>7 DEF Q

\* With one process that listens, whatever the others do to the file, a message is
\* in exactly one place until it is dealt with: neither lost nor handled twice.
THEOREM MessageStaysInOnePlace ==
  ASSUME NEW l \in Procs, Listeners = {l}
  PROVE  Spec => []MessageIsInOnePlace
<1>1. Init => Once(l)
  BY DEF Init, Once, Held, Fresh
<1>2. IInv /\ Once(l) /\ [Next]_vars => Once(l)'
  BY OnceKeeps
<1>3. IInv /\ Once(l) /\ NothingLost => MessageIsInOnePlace
  BY OnceCounts DEF MessageIsInOnePlace
<1> QED
  BY <1>1, <1>2, <1>3, IInvHolds, NoMessageVanishes, PTL DEF Spec

------------------------------------------------------------------------------
(* The stamp of keys that are written late.                                *)

\* Between _bumpVersion and put, nothing has been written under the new version.
Ahead(l) ==
  /\ proc[l].at = "version" => db.top < db.version
  /\ proc[l].at = "put" => db.top < proc[l].stamp

LEMMA AheadKeeps ==
  ASSUME IInv, NEW l \in Procs, Listeners = {l}, Writers \subseteq {l}, Ahead(l), [Next]_vars
  PROVE  Ahead(l)'
<1>0. db.key \in Nat /\ db.top \in Nat /\ db.version \in Nat /\ db.top <= db.version
  BY DbType
<1>1. ASSUME proc'[l].at \notin {"version", "put"} PROVE Ahead(l)'
  BY <1>1 DEF Ahead
<1>2. ASSUME proc'[l] = proc[l], db' = db PROVE Ahead(l)'
  BY <1>2 DEF Ahead
<1>3. ASSUME NEW p \in Procs, Commit(p) PROVE Ahead(l)'
  <2>1. CASE p = l
    BY <1>1, <1>3, <2>1, CommitKeeps DEF Becomes
  <2>2. CASE p # l
    <3>1. proc'[l] = proc[l]
      BY <1>3, <2>2, CommitKeeps DEF Becomes
    <3>2. db' = Bumped(db)
      BY <1>3, <2>2 DEF Commit
    <3>3. db'.top = db.top /\ db'.version = db.version + 1
      BY <3>2, BumpedDb
    <3> QED
      BY <1>0, <3>1, <3>3 DEF Ahead
  <2> QED
    BY <2>1, <2>2
<1>4. ASSUME NEW p \in Procs, Listen(p) \/ Changed(p) \/ Timer(p) \/ PumpWaits(p) \/ Close(p) \/ Open(p) \/ Crash(p)
      PROVE  Ahead(l)'
  <2>1. db' = db
    BY <1>4 DEF Listen, Changed, Timer, PumpWaits, Close, Open, Crash
  <2>2. \E at \in {"idle", "pump"} : \E running : Becomes(p, at, {}, running)
    BY <1>4, ListenKeeps, ChangedKeeps, TimerKeeps, PumpWaitsKeeps, CloseKeeps, OpenKeeps, CrashKeeps
  <2>3. proc'[l] = proc[l] \/ proc'[l].at \in {"idle", "pump"}
    BY <2>2 DEF Becomes
  <2> QED
    BY <1>1, <1>2, <2>1, <2>3
<1>5. ASSUME NEW p \in Procs, PumpSelects(p) \/ PumpDeletes(p) PROVE Ahead(l)'
  <2>1. db' = db
    BY <1>5 DEF PumpSelects, PumpDeletes
  <2>2. proc'[l] = proc[l] \/ proc'[l].at \in {"delete", "idle"}
    BY <1>5, PumpSelectsKeeps, PumpDeletesKeeps DEF Becomes
  <2> QED
    BY <1>1, <1>2, <2>1, <2>2
<1>6. ASSUME NEW p \in Procs, NEW x \in Rows, HandlerOk(p, x) \/ HandlerFails(p, x) PROVE Ahead(l)'
  <2>1. db' = db
    BY <1>6 DEF HandlerOk, HandlerFails
  <2>2. proc'[l] = proc[l] \/ proc'[l].at \in {"bump", "idle", "pump"}
    BY <1>6, HandlerOkKeeps, HandlerFailsKeeps DEF Becomes
  <2> QED
    BY <1>1, <1>2, <2>1, <2>2
<1>7. ASSUME NEW p \in Procs, Bump(p) \/ ReadVersion(p) \/ PutUndelivered(p) PROVE p = l
  BY <1>7, OnlyListenersHold DEF Pump
<1>8. ASSUME Bump(l) PROVE Ahead(l)'
  <2>1. proc'[l].at = "version"
    BY <1>8, BumpKeeps DEF Becomes
  <2>2. db'.top = db.top /\ db'.version = db.version + 1
    BY <1>8, BumpedDb DEF Bump
  <2> QED
    BY <1>0, <2>1, <2>2 DEF Ahead
<1>9. ASSUME ReadVersion(l) PROVE Ahead(l)'
  <2>1. proc[l].at = "version" /\ db' = db /\ proc' = [proc EXCEPT ![l].at = "put", ![l].stamp = db.version]
    BY <1>9 DEF ReadVersion
  <2>2. proc \in [Procs -> ProcType]
    BY DEF IInv, TypeOK, ProcType
  <2>3. proc'[l].at = "put" /\ proc'[l].stamp = db.version
    BY <2>1, <2>2 DEF ProcType
  <2> QED
    BY <2>1, <2>3 DEF Ahead
<1>10. ASSUME PutUndelivered(l) PROVE Ahead(l)'
  BY <1>1, <1>10, PutUndeliveredKeeps DEF Becomes
<1>11. ASSUME NEW p \in Procs, Look(p) \/ Tell(p) PROVE Ahead(l)'
  BY <1>2, <1>11 DEF Look, Tell
<1>12. CASE \E q \in queue : Clock(q)
  BY <1>2, <1>12 DEF Clock
<1>13. CASE UNCHANGED vars
  BY <1>2, <1>13 DEF vars
<1> QED
  BY <1>3, <1>4, <1>5, <1>6, <1>7, <1>8, <1>9, <1>10, <1>11, <1>12, <1>13 DEF Next, Program, Pump, Handler

\* The keys of a message that could not be delivered are written under a stamp above
\* every one a value had, if the process that listens is the only one that writes.
THEOREM LateStampIsFresh ==
  ASSUME NEW l \in Procs, Listeners = {l}, Writers \subseteq {l}
  PROVE  Spec => []StampIsFresh
<1>1. Init => Ahead(l)
  BY DEF Init, Ahead, Fresh
<1>2. IInv /\ Ahead(l) /\ [Next]_vars => Ahead(l)'
  BY AheadKeeps
<1>3. IInv /\ Ahead(l) => StampIsFresh
  <2> SUFFICES ASSUME IInv, Ahead(l), NEW p \in Procs, proc[p].at = "put" PROVE proc[p].stamp > db.top
    BY DEF StampIsFresh
  <2>1. p = l
    BY OnlyListenersHold
  <2>2. proc[l].stamp \in Nat
    BY DEF IInv, TypeOK
  <2> QED
    BY <2>1, <2>2, DbType DEF Ahead
<1> QED
  BY <1>1, <1>2, <1>3, IInvHolds, PTL DEF Spec

==============================================================================
