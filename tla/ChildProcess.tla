----------------------------- MODULE ChildProcess -----------------------------
(***************************************************************************)
(* spawn(): class ChildProcess and the scheduler of node-child.js over the *)
(* pipe and process tables of fg_proc.c.                                   *)
(*                                                                         *)
(* A pipe of a child is named by an index of the host's table; an index is *)
(* free, and handed out again, when both halves of its entry are closed.   *)
(* The objects of the program keep the index they were given.              *)
(*                                                                         *)
(* stdout stands for stdout and stderr alike.  What is written to stdin    *)
(* either fits into its pipe or fills it and waits for the child.  The     *)
(* turns between the end of a stream and its 'close' event are one task.   *)
(***************************************************************************)
EXTENDS Integers, Sequences, FiniteSets, FiniteSetsExt

CONSTANTS
  Children,   \* children the program may spawn, each once
  Pipes,      \* what each child is spawned with: a set of "in", "out", "ipc"
  Unrefs,     \* children the program calls unref() and ref() on
  MaxPipes,   \* entries of the pipe table
  MaxOut,     \* bound: chunks a child and its descendants print
  MaxCalls,   \* bound: calls the program makes besides its spawns
  Early,      \* may the program spawn between stdin.end() and the 'close' of
              \* that stdin (in the same turn, or in end's callback)?
  Nobody      \* the owner of a free entry

ASSUME ChildrenAssumption ==
  /\ Pipes \in [Children -> SUBSET {"in", "out", "ipc"}]
  /\ Unrefs \subseteq Children /\ Nobody \notin Children
ASSUME BoundsAssumption ==
  {MaxPipes, MaxOut, MaxCalls} \subseteq Nat /\ Early \in BOOLEAN

VARIABLES
  \* ---- the host
  table,     \* fg_pipes: whose pipe an entry is, and its open halves
  proc,      \* unborn, running, ended (a zombie), reaped, missing (no such
             \* program)
  outOpen,   \* the child or a descendant holds the writing end of stdout
  full,      \* the stdin pipe is full
  printed,   \* chunks the child and its descendants printed
  unread,    \* those of them that are in the stdout pipe
  \* ---- the objects of the program
  id,        \* the index of a child's pipe, -1 when it has none
  stdin,     \* none, open, ending (end() waits for a write), finished (final
             \* closed the pipe), destroyed
  writer,    \* ChildProcess._writer: a write waits for room
  reader,    \* none, open, done (it read the end), cut (stdout was destroyed)
  stdout,    \* none, open, ended (null was pushed), closing, closed
  flowing,   \* stdout is read by the program or was resumed
  pushed,    \* chunks pushed into stdout
  channel,   \* none, open, closed
  exited,    \* ChildProcess._exited
  refd,      \* ChildProcess._refed
  event,     \* children's events: no, queued, done
  active,    \* the scheduler's items
  \* ---- the thread
  at,        \* idle, or the step of run() and the child it is at
  todo,      \* items run() has not come to
  ready,     \* what pipePoll reported to run()
  listener,  \* the step that just ended ran listeners of the program
  tasks,     \* the nextTick queue
  calls      \* bound: calls made so far

host == <<table, proc, outOpen, full, printed, unread>>
ends == <<id, stdin, writer, reader, stdout, flowing, pushed, channel>>
life == <<exited, refd, event, active>>
turn == <<at, todo, ready, listener, tasks>>
vars == <<host, ends, life, turn, calls>>

Ids == 0..(MaxPipes - 1)
Kinds == {"in", "out", "ipc"}
Free == [of |-> Nobody, kind |-> "in", half |-> {}]
Idle == [step |-> "idle", child |-> Nobody]
Steps == {"next", "write", "drain", "poll", "settle"}

Entry == [of : Children \union {Nobody}, kind : Kinds, half : SUBSET {"r", "w"}]
Names == {"disconnect", "exit", "close"}
AnyTask == [name : Names \union {"finish", "streamClose", "spawnError"},
            child : Children]

TypeOK ==
  /\ table \in [Ids -> Entry]
  /\ proc \in [Children -> {"unborn", "running", "ended", "reaped",
                             "missing"}]
  /\ {outOpen, full, writer, flowing, exited, refd}
       \subseteq [Children -> BOOLEAN]
  /\ {printed, unread, pushed} \subseteq [Children -> 0..MaxOut]
  /\ id \in [Children -> [Kinds -> Ids \union {-1}]]
  /\ stdin \in [Children -> {"none", "open", "ending", "finished", "destroyed"}]
  /\ reader \in [Children -> {"none", "open", "done", "cut"}]
  /\ stdout \in [Children -> {"none", "open", "ended", "closing", "closed"}]
  /\ channel \in [Children -> {"none", "open", "closed"}]
  /\ event \in [Children -> [Names -> {"no", "queued", "done"}]]
  /\ active \subseteq Children /\ todo \subseteq Children
  /\ at \in {Idle} \union [step : Steps, child : Children \union {Nobody}]
  /\ ready \subseteq Ids /\ listener \in BOOLEAN
  /\ tasks \in Seq(AnyTask)

Init ==
  /\ table = [i \in Ids |-> Free]
  /\ proc = [c \in Children |-> "unborn"]
  /\ outOpen = [c \in Children |-> FALSE]
  /\ full = outOpen /\ writer = outOpen /\ flowing = outOpen /\ exited = outOpen
  /\ refd = [c \in Children |-> TRUE]
  /\ printed = [c \in Children |-> 0] /\ unread = printed /\ pushed = printed
  /\ id = [c \in Children |-> [k \in Kinds |-> -1]]
  /\ stdin = [c \in Children |-> "none"]
  /\ reader = stdin /\ stdout = stdin /\ channel = stdin
  /\ event = [c \in Children |-> [e \in Names |-> "no"]]
  /\ active = {} /\ at = Idle /\ todo = {} /\ ready = {}
  /\ listener = FALSE /\ tasks = <<>> /\ calls = 0

------------------------------------------------------------------------------
(* The tables of the host.                                                 *)

\* fg_pipe_close: an entry without open halves is free.
Closed(t, i, halves) ==
  IF i \notin Ids \/ t[i].half \subseteq halves
    THEN [j \in Ids |-> IF j = i THEN Free ELSE t[j]]
    ELSE [t EXCEPT ![i].half = @ \ halves]

\* fg_pipe_alloc takes the first free entry, and -1 when there is none.
Lowest(t) ==
  LET free == {i \in Ids : t[i].half = {}} IN
  IF free = {} THEN -1 ELSE Min(free)

Halves(kind) == CASE kind = "in" -> {"w"} [] kind = "out" -> {"r"}
                  [] kind = "ipc" -> {"r", "w"}

\* One allocation of a spawn, on a table and the indexes handed out so far.
Alloc(a, c, kind) ==
  LET i == Lowest(a.table) IN
  IF kind \notin Pipes[c] \/ i = -1 THEN a
  ELSE [table |-> [a.table EXCEPT
                     ![i] = [of |-> c, kind |-> kind, half |-> Halves(kind)]],
        id |-> [a.id EXCEPT ![kind] = i]]

Allocated(c) ==
  LET none == [table |-> table, id |-> [k \in Kinds |-> -1]]
  IN Alloc(Alloc(Alloc(none, c, "in"), c, "out"), c, "ipc")

\* The entry behind an index is still the pipe it was given for.
Owns(c, kind) ==
  /\ id[c][kind] \in Ids
  /\ table[id[c][kind]] = [of |-> c, kind |-> kind, half |-> Halves(kind)]

\* A read of the pipe behind an index returns bytes or its end.
Readable(i) ==
  LET p == table[i] IN
  \/ p.kind = "out" /\ p.half # {} /\ (unread[p.of] > 0 \/ ~outOpen[p.of])
  \/ p.kind = "ipc" /\ p.half # {} /\ proc[p.of] # "running"

Task(name, c) == [name |-> name, child |-> c]

------------------------------------------------------------------------------
(* Endings.                                                                *)

\* A mistake: 'close' does not wait for stdout.
LastCloseAtExit(c, over, out) == over /\ event[c].close = "no"

\* A mistake: 'close' also waits for stdin.
LastCloseWithStdin(c, over, out) ==
  /\ over /\ event[c].close = "no" /\ out \in {"none", "closed"}
  /\ stdin[c] \in {"none", "destroyed"}

\* _maybeClose, once _exited is `over` and stdout is `out`.
LastClose(c, over, out) ==
  over /\ event[c].close = "no" /\ out \in {"none", "closed"}

\* _maybeClose and the tasks that were queued before it.
MaybeClose(c, over, out, queue) ==
  LET last == LastClose(c, over, out) IN
  /\ active' = IF last THEN active \ {c} ELSE active
  /\ tasks' = queue \o (IF last THEN <<Task("close", c)>> ELSE <<>>)

\* The final callback of stdin: its pipe is closed, 'finish' comes later.
Final(c) ==
  /\ stdin' = [stdin EXCEPT ![c] = "finished"]
  /\ table' = Closed(table, id[c]["in"], {"w"})
  /\ tasks' = Append(tasks, Task("finish", c))

\* The destroy callback of stdin: its pipe is closed, whoever closed it before.
DestroyIn(c) ==
  /\ stdin' = [stdin EXCEPT ![c] = "destroyed"]
  /\ writer' = [writer EXCEPT ![c] = FALSE]
  /\ table' = Closed(table, id[c]["in"], {"w"})

------------------------------------------------------------------------------
(* The program.                                                            *)

InProgram == at = Idle \/ listener

\* Settling(c): stdin.end() ran and the stream is not destroyed yet.
Settling(c) == stdin[c] = "finished"

\* spawn() of a program that exists.
Spawn(c) ==
  LET granted == Allocated(c) IN
  /\ InProgram /\ proc[c] = "unborn"
  /\ Early \/ ~\E d \in Children : Settling(d)
  /\ proc' = [proc EXCEPT ![c] = "running"]
  /\ outOpen' = [outOpen EXCEPT ![c] = TRUE]
  /\ table' = granted.table
  /\ id' = [id EXCEPT ![c] = granted.id]
  /\ stdin' = [stdin EXCEPT ![c] = IF granted.id["in"] >= 0 THEN "open" ELSE @]
  /\ reader' = [reader EXCEPT ![c] = IF granted.id["out"] >= 0 THEN "open" ELSE @]
  /\ stdout' = [stdout EXCEPT ![c] = IF "out" \in Pipes[c] THEN "open" ELSE @]
  /\ channel' = [channel EXCEPT ![c] = IF granted.id["ipc"] >= 0 THEN "open" ELSE @]
  /\ active' = active \union {c}
  /\ UNCHANGED <<full, printed, unread, writer, flowing, pushed, exited, refd,
                 event, turn>>

\* stdin.write(): the pipe takes the chunk, or the rest of it waits for room,
\* or EPIPE.
Write(c) ==
  /\ InProgram /\ stdin[c] = "open" /\ ~writer[c]
  /\ \/ /\ Owns(c, "in") /\ proc[c] = "running" /\ ~full[c]
        /\ UNCHANGED <<stdin, full, writer, table>>
     \/ /\ Owns(c, "in") /\ proc[c] = "running"
        /\ full' = [full EXCEPT ![c] = TRUE]
        /\ writer' = [writer EXCEPT ![c] = TRUE]
        /\ UNCHANGED <<stdin, table>>
     \/ /\ ~Owns(c, "in") \/ proc[c] # "running"
        /\ DestroyIn(c)
        /\ UNCHANGED full
  /\ UNCHANGED <<proc, outOpen, printed, unread, id, reader, stdout, flowing,
                 pushed, channel, life, turn>>

\* stdin.end(): with nothing left to write, final runs at once.
EndStdin(c) ==
  /\ InProgram /\ stdin[c] = "open"
  /\ \/ /\ ~writer[c]
        /\ Final(c)
     \/ /\ writer[c]
        /\ stdin' = [stdin EXCEPT ![c] = "ending"]
        /\ UNCHANGED <<table, tasks>>
  /\ UNCHANGED <<proc, outOpen, full, printed, unread, id, writer, reader, stdout,
                 flowing, pushed, channel, life, at, todo, ready, listener>>

\* stdin.destroy().
DestroyStdin(c) ==
  /\ InProgram /\ stdin[c] \in {"open", "ending", "finished"}
  /\ DestroyIn(c)
  /\ UNCHANGED <<proc, outOpen, full, printed, unread, id, reader, stdout,
                 flowing, pushed, channel, life, turn>>

\* stdout.destroy().
DestroyStdout(c) ==
  /\ InProgram /\ stdout[c] \in {"open", "ended"}
  /\ stdout' = [stdout EXCEPT ![c] = "closing"]
  /\ reader' = [reader EXCEPT ![c] = IF @ = "open" THEN "cut" ELSE @]
  /\ table' = IF reader[c] = "open" THEN Closed(table, id[c]["out"], {"r"})
              ELSE table
  /\ unread' = [unread EXCEPT ![c] = 0]
  /\ tasks' = Append(tasks, Task("streamClose", c))
  /\ UNCHANGED <<proc, outOpen, full, printed, id, stdin, writer, flowing, pushed,
                 channel, life, at, todo, ready, listener>>

\* A 'data' listener or resume().
Consume(c) ==
  /\ InProgram /\ stdout[c] \in {"open", "ended"} /\ ~flowing[c]
  /\ flowing' = [flowing EXCEPT ![c] = TRUE]
  /\ stdout' = [stdout EXCEPT ![c] = IF @ = "ended" THEN "closing" ELSE @]
  /\ tasks' = IF stdout[c] = "ended" THEN Append(tasks, Task("streamClose", c))
              ELSE tasks
  /\ UNCHANGED <<host, id, stdin, writer, reader, pushed, channel, life, at,
                 todo, ready, listener>>

\* A mistake: only the reading half of the channel is closed.
CloseReadingHalf(c) ==
  /\ channel' = [channel EXCEPT ![c] = "closed"]
  /\ table' = Closed(table, id[c]["ipc"], {"r"})
  /\ event' = [event EXCEPT ![c].disconnect = "queued"]
  /\ tasks' = Append(tasks, Task("disconnect", c))

\* disconnect(), or the end of the channel found by the scheduler.
CloseChannel(c) ==
  /\ channel' = [channel EXCEPT ![c] = "closed"]
  /\ table' = Closed(table, id[c]["ipc"], {"r", "w"})
  /\ event' = [event EXCEPT ![c].disconnect = "queued"]
  /\ tasks' = Append(tasks, Task("disconnect", c))

Disconnect(c) ==
  /\ InProgram /\ channel[c] = "open"
  /\ CloseChannel(c)
  /\ UNCHANGED <<proc, outOpen, full, printed, unread, id, stdin, writer, reader,
                 stdout, flowing, pushed, exited, refd, active, at, todo,
                 ready, listener>>

\* ref() and unref().
ToggleRef(c) ==
  /\ InProgram /\ c \in Unrefs /\ proc[c] \notin {"unborn", "missing"}
  /\ refd' = [refd EXCEPT ![c] = ~@]
  /\ UNCHANGED <<host, ends, exited, event, active, turn>>

\* spawn() of a program that does not exist: the error is told by a task.
SpawnFails(c) ==
  /\ InProgram /\ proc[c] = "unborn"
  /\ proc' = [proc EXCEPT ![c] = "missing"]
  /\ stdout' = [stdout EXCEPT ![c] = IF "out" \in Pipes[c] THEN "open" ELSE @]
  /\ tasks' = Append(tasks, Task("spawnError", c))
  /\ UNCHANGED <<table, outOpen, full, printed, unread, id, stdin, writer, reader,
                 flowing, pushed, channel, life, at, todo, ready, listener>>

------------------------------------------------------------------------------
(* The children.                                                           *)

Output(c) ==
  /\ outOpen[c] /\ Owns(c, "out") /\ printed[c] < MaxOut
  /\ printed' = [printed EXCEPT ![c] = @ + 1]
  /\ unread' = [unread EXCEPT ![c] = @ + 1]
  /\ UNCHANGED <<table, proc, outOpen, full, ends, life, turn>>

ReadStdin(c) ==
  /\ proc[c] = "running" /\ full[c]
  /\ full' = [full EXCEPT ![c] = FALSE]
  /\ UNCHANGED <<table, proc, outOpen, printed, unread, ends, life, turn>>

\* The child ends; a process it started may keep its stdout.
Exit(c) ==
  /\ proc[c] = "running"
  /\ proc' = [proc EXCEPT ![c] = "ended"]
  /\ outOpen' \in {outOpen, [outOpen EXCEPT ![c] = FALSE]}
  /\ UNCHANGED <<table, full, printed, unread, ends, life, turn>>

\* kill() of a child whose end was not reported yet.
Kill(c) == InProgram /\ Exit(c)

\* The last holder of stdout closes it, which the child may do as it runs.
LetGo(c) ==
  /\ outOpen[c]
  /\ outOpen' = [outOpen EXCEPT ![c] = FALSE]
  /\ UNCHANGED <<table, proc, full, printed, unread, ends, life, turn>>

------------------------------------------------------------------------------
(* run() and the tick of a child.                                          *)

\* ChildProcess.wants, or that of its channel.
Wants(c) ==
  /\ c \in active /\ refd[c]
  /\ ~exited[c] \/ reader[c] = "open" \/ writer[c] \/ channel[c] = "open"

\* The indexes a child gives to pipePoll.
ReadIds(c) ==
  {i \in Ids : \/ reader[c] = "open" /\ i = id[c]["out"]
               \/ channel[c] = "open" /\ i = id[c]["ipc"]}

\* run() serves every item of the scheduler when one of them wants it.
Run ==
  /\ at = Idle /\ tasks = <<>>
  /\ \E c \in Children : Wants(c)
  /\ at' = [step |-> "next", child |-> Nobody]
  /\ todo' = active
  /\ ready' = {i \in UNION {ReadIds(c) : c \in active} : Readable(i)}
  /\ UNCHANGED <<host, ends, life, listener, tasks>>

Step(c, step, told) ==
  /\ at' = [step |-> step, child |-> IF step = "next" THEN Nobody ELSE c]
  /\ listener' = told
  /\ UNCHANGED ready

RunDone ==
  /\ at.step = "next" /\ todo = {}
  /\ at' = Idle /\ ready' = {} /\ listener' = FALSE
  /\ UNCHANGED <<host, ends, life, todo, tasks>>

At(c, step) == at = [step |-> step, child |-> c]

\* The next item; a child leaves the scheduler only in its own tick or in a
\* task, so it is still there.  Its channel is at its end when the child took
\* the other end with it.
TickChannel(c) ==
  /\ at.step = "next" /\ c \in todo
  /\ todo' = todo \ {c}
  /\ Step(c, IF writer[c] THEN "write" ELSE "drain", FALSE)
  /\ \/ /\ channel[c] = "open" /\ id[c]["ipc"] \in ready
        /\ proc[c] # "running"
        /\ CloseChannel(c)
     \/ /\ channel[c] # "open" \/ id[c]["ipc"] \notin ready
           \/ proc[c] = "running"
        /\ UNCHANGED <<channel, table, event, tasks>>
  /\ UNCHANGED <<proc, outOpen, full, printed, unread, id, stdin, writer, reader,
                 stdout, flowing, pushed, exited, refd, active>>

\* A write that waits is tried again; when it is through, an end() follows.
TickWrite(c) ==
  /\ At(c, "write")
  /\ \/ /\ Owns(c, "in") /\ proc[c] = "running"
        /\ Step(c, "drain", FALSE)
        /\ full' = [full EXCEPT ![c] = TRUE]
        /\ UNCHANGED <<stdin, writer, table, tasks>>
     \/ /\ writer[c] /\ Owns(c, "in") /\ proc[c] = "running" /\ ~full[c]
        /\ Step(c, "drain", TRUE)
        /\ UNCHANGED full
        /\ writer' = [writer EXCEPT ![c] = FALSE]
        /\ IF stdin[c] = "ending" THEN Final(c)
           ELSE UNCHANGED <<stdin, table, tasks>>
     \/ /\ writer[c] /\ (~Owns(c, "in") \/ proc[c] # "running")
        /\ Step(c, "drain", TRUE)
        /\ DestroyIn(c)
        /\ UNCHANGED <<full, tasks>>
  /\ UNCHANGED <<proc, outOpen, printed, unread, id, reader, stdout, flowing,
                 pushed, channel, life, todo>>

\* _drain of a child's reader: everything there is, and the end of the stream
\* when nobody holds the other end.
Drain(c, over) ==
  /\ pushed' = [pushed EXCEPT ![c] = @ + unread[c]]
  /\ unread' = [unread EXCEPT ![c] = 0]
  /\ reader' = [reader EXCEPT ![c] = IF over THEN "done" ELSE @]

\* stdout after the reader pushed null (when `over`), with its consumer.
AfterEnd(out, over, flows) ==
  IF (over /\ out = "open") \/ out = "ended"
    THEN IF flows THEN "closing" ELSE "ended"
    ELSE out

\* The task that ends a stream which starts to close in this step.
Closing(c, out) ==
  IF out = "closing" /\ stdout[c] # "closing" THEN <<Task("streamClose", c)>>
  ELSE <<>>

TickDrain(c) ==
  LET open == reader[c] = "open" /\ (id[c]["out"] \in ready \/ exited[c])
      over == open /\ ~outOpen[c]
      out == AfterEnd(stdout[c], over, flowing[c])
  IN
  /\ At(c, "drain")
  /\ Step(c, "poll", open /\ unread[c] > 0 /\ flowing[c])
  /\ IF open THEN Drain(c, over) ELSE UNCHANGED <<pushed, unread, reader>>
  /\ table' = IF over THEN Closed(table, id[c]["out"], {"r"}) ELSE table
  /\ stdout' = [stdout EXCEPT ![c] = out]
  /\ tasks' = tasks \o Closing(c, out)
  /\ UNCHANGED <<proc, outOpen, full, printed, id, stdin, writer, flowing, channel,
                 life, todo>>

\* A mistake: a child that exited leaves the scheduler at once.
SettleAtExit(c) ==
  /\ Step(c, "next", FALSE)
  /\ active' = IF exited[c] THEN active \ {c} ELSE active
  /\ UNCHANGED <<host, ends, exited, refd, event, todo, tasks>>

\* A child with nothing left to serve leaves the scheduler.
Settle(c) ==
  /\ Step(c, "next", FALSE)
  /\ active' = IF /\ exited[c] /\ reader[c] # "open" /\ ~writer[c]
                  /\ channel[c] # "open"
               THEN active \ {c} ELSE active
  /\ UNCHANGED <<host, ends, exited, refd, event, todo, tasks>>

\* procPoll has nothing to report.
TickAlive(c) ==
  /\ At(c, "poll")
  /\ exited[c] \/ proc[c] = "running"
  /\ Settle(c)

\* The channel of a child that exited ends before the exit is told.
ExitTasks(c, hangUp) ==
  (IF hangUp THEN <<Task("disconnect", c)>> ELSE <<>>)
    \o (IF channel[c] # "none" THEN <<Task("exit", c)>> ELSE <<>>)

\* procPoll reports the end of the child: _onExit.  The rest of the output is
\* read, the channel is closed, the child is told to have exited - after
\* 'disconnect' if it had a channel - and stdout is resumed.
OnExit(c) ==
  LET open == reader[c] = "open"
      over == open /\ ~outOpen[c]
      flows == flowing[c] \/ stdout[c] \in {"open", "ended"}
      out == AfterEnd(stdout[c], over, flows)
      hangUp == channel[c] = "open"
      drained == IF over THEN Closed(table, id[c]["out"], {"r"}) ELSE table
  IN
  /\ At(c, "poll") /\ ~exited[c] /\ proc[c] = "ended"
  /\ Step(c, "settle", TRUE)
  /\ exited' = [exited EXCEPT ![c] = TRUE]
  /\ proc' = [proc EXCEPT ![c] = "reaped"]
  /\ IF open THEN Drain(c, over) ELSE UNCHANGED <<pushed, unread, reader>>
  /\ flowing' = [flowing EXCEPT ![c] = flows]
  /\ stdout' = [stdout EXCEPT ![c] = out]
  /\ channel' = [channel EXCEPT ![c] = IF hangUp THEN "closed" ELSE @]
  /\ table' = IF hangUp THEN Closed(drained, id[c]["ipc"], {"r", "w"})
              ELSE drained
  /\ event' = [event EXCEPT
       ![c].disconnect = IF hangUp THEN "queued" ELSE @,
       ![c].exit = IF channel[c] # "none" THEN "queued" ELSE "done",
       ![c].close = IF LastClose(c, TRUE, out) THEN "queued" ELSE @]
  /\ MaybeClose(c, TRUE, out, tasks \o ExitTasks(c, hangUp) \o Closing(c, out))
  /\ UNCHANGED <<outOpen, full, printed, id, stdin, writer, refd, todo>>

TickSettle(c) == At(c, "settle") /\ Settle(c)

------------------------------------------------------------------------------
(* The nextTick queue, once the turn is over.                              *)

NextTask(name, c) == at = Idle /\ tasks # <<>> /\ Head(tasks) = Task(name, c)

\* 'disconnect', 'exit' and 'close' of a child.
Emit(name, c) ==
  /\ NextTask(name, c)
  /\ event' = [event EXCEPT ![c][name] = "done"]
  /\ tasks' = Tail(tasks)
  /\ UNCHANGED <<host, ends, exited, refd, active, at, todo, ready, listener>>

\* 'finish' of stdin, and autoDestroy after it.
FinishStdin(c) ==
  /\ NextTask("finish", c)
  /\ tasks' = Tail(tasks)
  /\ IF stdin[c] = "destroyed" THEN UNCHANGED <<stdin, writer, table>>
     ELSE DestroyIn(c)
  /\ UNCHANGED <<proc, outOpen, full, printed, unread, id, reader, stdout,
                 flowing, pushed, channel, life, at, todo, ready, listener>>

\* 'close' of stdout.
StreamClose(c) ==
  LET over == exited[c] \/ proc[c] = "missing" IN
  /\ NextTask("streamClose", c)
  /\ stdout' = [stdout EXCEPT ![c] = "closed"]
  /\ MaybeClose(c, over, "closed", Tail(tasks))
  /\ event' = [event EXCEPT
       ![c].close = IF LastClose(c, over, "closed") THEN "queued" ELSE @]
  /\ UNCHANGED <<host, id, stdin, writer, reader, flowing, pushed, channel,
                 exited, refd, at, todo, ready, listener>>

\* 'error' of a spawn that failed; its streams are destroyed.
SpawnError(c) ==
  LET out == IF stdout[c] = "open" THEN "closing" ELSE stdout[c] IN
  /\ NextTask("spawnError", c)
  /\ stdout' = [stdout EXCEPT ![c] = out]
  /\ MaybeClose(c, TRUE, out, Tail(tasks) \o Closing(c, out))
  /\ event' = [event EXCEPT
       ![c].close = IF LastClose(c, TRUE, out) THEN "queued" ELSE @]
  /\ UNCHANGED <<host, id, stdin, writer, reader, flowing, pushed, channel,
                 exited, refd, at, todo, ready, listener>>

------------------------------------------------------------------------------
Spawning(c) == Spawn(c) \/ SpawnFails(c)

Calling(c) ==
  \/ Write(c) \/ EndStdin(c) \/ DestroyStdin(c) \/ DestroyStdout(c)
  \/ Consume(c) \/ Disconnect(c) \/ ToggleRef(c) \/ Kill(c)

Program(c) ==
  \/ Spawning(c) /\ UNCHANGED calls
  \/ calls < MaxCalls /\ Calling(c) /\ calls' = calls + 1

Environment(c) == Output(c) \/ ReadStdin(c) \/ Exit(c) \/ LetGo(c)

Tick(c) ==
  \/ TickChannel(c) \/ TickWrite(c) \/ TickDrain(c)
  \/ TickAlive(c) \/ OnExit(c) \/ TickSettle(c)

Microtask(c) ==
  \/ \E name \in Names : Emit(name, c)
  \/ FinishStdin(c) \/ StreamClose(c) \/ SpawnError(c)

Loop ==
  /\ Run \/ RunDone \/ \E c \in Children : Tick(c) \/ Microtask(c)
  /\ UNCHANGED calls

Next ==
  \/ Loop
  \/ \E c \in Children : Program(c) \/ (Environment(c) /\ UNCHANGED calls)

Spec == Init /\ [][Next]_vars

\* The event loop of the program goes on; programs and children owe nothing.
FairSpec == Spec /\ WF_vars(Loop)

------------------------------------------------------------------------------
(* Properties.                                                             *)

Spawned(c) == proc[c] \notin {"unborn", "missing"}

\* 'disconnect' precedes 'exit' and 'exit' precedes 'close', although they
\* come from the channel, the process table and the streams.
EventsInOrder ==
  \A c \in Children :
    /\ event[c].exit = "done" /\ channel[c] # "none" =>
         event[c].disconnect = "done"
    /\ event[c].close = "done" /\ Spawned(c) => event[c].exit = "done"

\* When a child's 'close' is due, everything it and its descendants printed
\* was pushed into stdout, and nobody can print any more - unless the program
\* destroyed stdout.
CloseAfterOutput ==
  \A c \in Children :
    event[c].close # "no" /\ reader[c] \notin {"none", "cut"} =>
      reader[c] = "done" /\ pushed[c] = printed[c] /\ ~outOpen[c]

\* The end of a child is reported in order: 'disconnect', 'exit', its output, 'close'.
EndIsReportedInOrder == EventsInOrder /\ CloseAfterOutput

\* The open ends of pipes that the objects of the program stand for.
InUse(c, kind) ==
  CASE kind = "in" -> stdin[c] \in {"open", "ending"}
    [] kind = "out" -> reader[c] = "open"
    [] kind = "ipc" -> channel[c] = "open"

\* The pipe table and the objects agree: an object that is open owns the
\* entry behind its index with all its halves, so that nobody reads, writes
\* or closes another child's pipe, and an entry in use is some open object's.
PipesArePrivate ==
  /\ \A c \in Children, kind \in Kinds : InUse(c, kind) => Owns(c, kind)
  /\ \A i \in Ids : table[i].half # {} =>
       /\ InUse(table[i].of, table[i].kind)
       /\ id[table[i].of][table[i].kind] = i

\* The scheduler forgets no child whose end, output or channel it still has
\* to report.
NobodyIsForgotten ==
  \A c \in Children :
    \/ proc[c] \in {"running", "ended"}
    \/ reader[c] = "open" \/ channel[c] = "open"
    => c \in active

\* A child that ended, and whose stdout nobody holds, is closed: "output nobody
\* is reading is discarded so that 'close' can happen".
CloseComes ==
  \A c \in Children :
    proc[c] \in {"ended", "reaped"} /\ ~outOpen[c] ~>
      event[c].close = "done" \/ ~refd[c]

==============================================================================
