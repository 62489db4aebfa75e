------------------------------ MODULE ChildProofs ------------------------------
(***************************************************************************)
(* Proofs about node-child.js.                                             *)
(*                                                                         *)
(* Of ChildProcess, for any number of children, pipes, chunks and calls:   *)
(* the type invariant; from one inductive invariant that the scheduler     *)
(* forgets nobody, that 'close' comes after all output, and the order of a *)
(* child's events; and from a second one, Tidy, that nobody uses another   *)
(* child's pipe.                                                           *)
(*                                                                         *)
(* Of IpcChannel, for any number and size of messages, any socket buffer   *)
(* and any size of a read: from the inductive invariant ChannelInv that    *)
(* what the programs are told is true, that the end of the stream loses    *)
(* nothing, and that the channel implements IpcSpec.                       *)
(***************************************************************************)
EXTENDS ChildProcess, IpcChannel, FiniteSetTheorems, WellFoundedInduction, SequenceTheorems, TLAPS

------------------------------------------------------------------------------
(* Types.                                                                  *)

AllNames == Names \union {"finish", "streamClose", "spawnError"}
Stdin == {"none", "open", "ending", "finished", "destroyed"}
Stdout == {"none", "open", "ended", "closing", "closed"}

\* A nonempty set of naturals has a least element, the one Min chooses.
LEMMA MinIsMember ==
  ASSUME NEW S \in SUBSET Nat, S # {}
  PROVE  Min(S) \in S
<1> DEFINE R == {p \in Nat \X Nat : p[1] < p[2]}
<1>1. OpToRel(<, Nat) = R
  BY Zenon DEF OpToRel
<1>2. \E m \in S : \A n \in S : ~(<<n, m>> \in R)
  <2>1. IsWellFoundedOn(R, Nat)
    BY <1>1, NatLessThanWellFounded
  <2> HIDE DEF R
  <2> QED BY <2>1, WFMin, Zenon
<1>3. PICK m \in S : \A n \in S : ~(<<n, m>> \in R)
  BY <1>2
<1>4. ASSUME NEW n \in S PROVE m <= n
  <2>1. m \in Nat /\ n \in Nat /\ ~(<<n, m>> \in R)
    BY <1>3
  <2>2. n < m => <<n, m>> \in R
    BY <2>1
  <2> QED BY <2>1, <2>2
<1> QED BY <1>4 DEF Min

\* fg_pipe_alloc hands out an index of the table, or -1.
LEMMA LowestType ==
  ASSUME NEW t \in [Ids -> Entry]
  PROVE  Lowest(t) \in Ids \union {-1}
<1> DEFINE free == {i \in Ids : t[i].half = {}}
<1>1. free \in SUBSET Nat
  BY BoundsAssumption DEF Ids
<1>2. CASE free = {}
  BY <1>2 DEF Lowest
<1>3. CASE free # {}
  <2>1. Min(free) \in free
    BY <1>1, <1>3, MinIsMember, Zenon
  <2> QED BY <1>3, <2>1 DEF Lowest
<1> QED BY <1>2, <1>3

\* fg_pipe_close keeps the table a table.
LEMMA ClosedType ==
  ASSUME NEW t \in [Ids -> Entry], NEW i, NEW halves
  PROVE  Closed(t, i, halves) \in [Ids -> Entry]
<1>1. Free \in Entry
  BY DEF Free, Entry, Kinds
<1>2. CASE i \notin Ids \/ t[i].half \subseteq halves
  BY <1>1, <1>2 DEF Closed
<1>3. CASE ~(i \notin Ids \/ t[i].half \subseteq halves)
  BY <1>3 DEF Closed, Entry
<1> QED BY <1>2, <1>3

Grants == [table : [Ids -> Entry], id : [Kinds -> Ids \union {-1}]]

\* One allocation of a spawn.
LEMMA AllocType ==
  ASSUME NEW a \in Grants, NEW c \in Children, NEW kind \in Kinds
  PROVE  Alloc(a, c, kind) \in Grants
<1> DEFINE i == Lowest(a.table)
           e == [of |-> c, kind |-> kind, half |-> Halves(kind)]
<1>1. i \in Ids \union {-1}
  BY LowestType DEF Grants
<1>2. e \in Entry
  BY DEF Halves, Kinds, Entry
<1>3. CASE kind \notin Pipes[c] \/ i = -1
  BY <1>3 DEF Alloc
<1>4. CASE ~(kind \notin Pipes[c] \/ i = -1)
  <2>1. i \in Ids
    BY <1>1, <1>4
  <2> HIDE DEF i, e
  <2>2. [a.table EXCEPT ![i] = e] \in [Ids -> Entry]
    BY <1>2, <2>1 DEF Grants
  <2>3. [a.id EXCEPT ![kind] = i] \in [Kinds -> Ids \union {-1}]
    BY <2>1 DEF Grants
  <2>4. Alloc(a, c, kind) = [table |-> [a.table EXCEPT ![i] = e],
                             id |-> [a.id EXCEPT ![kind] = i]]
    BY <1>4, Zenon DEF Alloc, i, e
  <2> QED BY <2>2, <2>3, <2>4 DEF Grants
<1> QED BY <1>3, <1>4

\* The pipes of a spawn.
LEMMA AllocatedType ==
  ASSUME TypeOK, NEW c \in Children
  PROVE  Allocated(c) \in Grants
<1> DEFINE none == [table |-> table, id |-> [k \in Kinds |-> -1]]
           one == Alloc(none, c, "in")
           two == Alloc(one, c, "out")
<1>1. none \in Grants
  BY DEF TypeOK, Grants
<1>2. one \in Grants
  BY <1>1, AllocType DEF Kinds
<1>3. two \in Grants
  BY <1>2, AllocType DEF Kinds
<1>4. Alloc(two, c, "ipc") \in Grants
  BY <1>3, AllocType DEF Kinds
<1> QED BY <1>4 DEF Allocated

\* The nextTick queue holds tasks only.
LEMMA TaskType ==
  ASSUME NEW c \in Children
  PROVE  /\ \A name \in Names : Task(name, c) \in AnyTask
         /\ Task("finish", c) \in AnyTask
         /\ Task("streamClose", c) \in AnyTask
         /\ Task("spawnError", c) \in AnyTask
  BY DEF Task, AnyTask, Names

\* What may happen to the queue.
LEMMA QueueTypes ==
  ASSUME NEW q \in Seq(AnyTask)
  PROVE  /\ \A t \in AnyTask : Append(q, t) \in Seq(AnyTask)
         /\ \A r \in Seq(AnyTask) : q \o r \in Seq(AnyTask)
         /\ q # <<>> => Tail(q) \in Seq(AnyTask)
  OBVIOUS

\* The tasks of an ending, of an exit and of _maybeClose.
LEMMA ClosingType ==
  ASSUME NEW c \in Children, NEW out
  PROVE  Closing(c, out) \in Seq(AnyTask)
  BY TaskType DEF Closing

\* The tasks that _onExit queues are tasks.
LEMMA ExitTasksType ==
  ASSUME NEW c \in Children, NEW hangUp
  PROVE  ExitTasks(c, hangUp) \in Seq(AnyTask)
<1>1. Task("exit", c) \in AnyTask /\ Task("disconnect", c) \in AnyTask
  BY TaskType DEF Names
<1> QED BY <1>1 DEF ExitTasks

\* _maybeClose keeps the types of the scheduler and the queue.
LEMMA MaybeCloseType ==
  ASSUME TypeOK, NEW c \in Children, NEW over, NEW out,
         NEW queue \in Seq(AnyTask), MaybeClose(c, over, out, queue)
  PROVE  active' \subseteq Children /\ tasks' \in Seq(AnyTask)
<1>1. Task("close", c) \in AnyTask
  BY TaskType DEF Names
<1>2. <<>> \in Seq(AnyTask) /\ <<Task("close", c)>> \in Seq(AnyTask)
  BY <1>1
<1> DEFINE last == LastClose(c, over, out)
<1>3. active' = (IF last THEN active \ {c} ELSE active)
      /\ tasks' = queue \o (IF last THEN <<Task("close", c)>> ELSE <<>>)
  BY Zenon DEF MaybeClose
<1> HIDE DEF last
<1>4. tasks' \in Seq(AnyTask)
  BY <1>2, <1>3
<1> QED BY <1>3, <1>4 DEF TypeOK

\* The callbacks of stdin keep the types.
LEMMA DestroyInType ==
  ASSUME TypeOK, NEW c \in Children, DestroyIn(c)
  PROVE  /\ stdin' \in [Children -> Stdin]
         /\ writer' \in [Children -> BOOLEAN]
         /\ table' \in [Ids -> Entry]
<1>1. table' \in [Ids -> Entry]
  BY ClosedType DEF TypeOK, DestroyIn
<1> QED BY <1>1 DEF TypeOK, DestroyIn, Stdin

\* The final callback of stdin.
LEMMA FinalType ==
  ASSUME TypeOK, NEW c \in Children, Final(c)
  PROVE  /\ stdin' \in [Children -> Stdin]
         /\ table' \in [Ids -> Entry]
         /\ tasks' \in Seq(AnyTask)
<1>1. table' \in [Ids -> Entry]
  BY ClosedType DEF TypeOK, Final
<1>2. tasks' \in Seq(AnyTask)
  BY TaskType, QueueTypes DEF TypeOK, Final
<1> QED BY <1>1, <1>2 DEF TypeOK, Final, Stdin

\* So do the end of the channel, a step of run() and a drain of stdout.
LEMMA CloseChannelType ==
  ASSUME TypeOK, NEW c \in Children, CloseChannel(c)
  PROVE  /\ channel' \in [Children -> {"none", "open", "closed"}]
         /\ table' \in [Ids -> Entry]
         /\ event' \in [Children -> [Names -> {"no", "queued", "done"}]]
         /\ tasks' \in Seq(AnyTask)
<1>1. table' \in [Ids -> Entry]
  BY ClosedType DEF TypeOK, CloseChannel
<1>2. tasks' \in Seq(AnyTask)
  BY TaskType, QueueTypes DEF TypeOK, CloseChannel, Names
<1>3. event' \in [Children -> [Names -> {"no", "queued", "done"}]]
  BY DEF TypeOK, CloseChannel, Names
<1> QED BY <1>1, <1>2, <1>3 DEF TypeOK, CloseChannel

\* A step of run() leads to a step of run().
LEMMA StepType ==
  ASSUME TypeOK, NEW c \in Children, NEW step \in Steps, NEW heard \in BOOLEAN,
         Step(c, step, heard)
  PROVE  /\ at' \in {Idle} \union [step : Steps, child : Children \union {Nobody}]
         /\ listener' \in BOOLEAN
         /\ ready' \subseteq Ids
  BY DEF TypeOK, Step

\* The states of a child's events may be set in any way.
Happening == {"no", "queued", "done"}

\* Setting one event, or all of them, keeps their type.
LEMMA EventTypes ==
  ASSUME TypeOK, NEW c \in Children,
         NEW d \in Happening, NEW e \in Happening, NEW f \in Happening
  PROVE  /\ [event EXCEPT ![c].close = f] \in [Children -> [Names -> Happening]]
         /\ [event EXCEPT ![c].disconnect = d, ![c].exit = e, ![c].close = f]
              \in [Children -> [Names -> Happening]]
         /\ event[c].disconnect \in Happening /\ event[c].close \in Happening
<1>1. event \in [Children -> [Names -> Happening]]
  BY DEF TypeOK, Happening
<1>2. [event EXCEPT ![c].close = f] \in [Children -> [Names -> Happening]]
  BY <1>1 DEF Names
<1>3. [event EXCEPT ![c].disconnect = d, ![c].exit = e, ![c].close = f]
        \in [Children -> [Names -> Happening]]
  BY <1>1 DEF Names
<1>4. event[c].disconnect \in Happening /\ event[c].close \in Happening
  BY <1>1 DEF Names
<1> QED BY <1>2, <1>3, <1>4

\* What was pushed and what is in the pipe was printed.
Counted == \A c \in Children : pushed[c] + unread[c] <= printed[c]

\* A drain pushes no more than was printed.
LEMMA DrainType ==
  ASSUME TypeOK, Counted, NEW c \in Children, NEW over, Drain(c, over)
  PROVE  /\ pushed' \in [Children -> 0..MaxOut]
         /\ unread' \in [Children -> 0..MaxOut]
         /\ reader' \in [Children -> {"none", "open", "done", "cut"}]
<1>1. pushed[c] + unread[c] \in 0..MaxOut
  BY BoundsAssumption DEF TypeOK, Counted
<1>2. pushed' \in [Children -> 0..MaxOut]
  BY <1>1 DEF TypeOK, Drain
<1>3. unread' \in [Children -> 0..MaxOut]
  BY BoundsAssumption DEF TypeOK, Drain
<1> QED BY <1>2, <1>3 DEF TypeOK, Drain

\* The end of the reader leads stdout to one of its states.
LEMMA AfterEndType ==
  ASSUME NEW out \in Stdout, NEW over, NEW flows
  PROVE  AfterEnd(out, over, flows) \in Stdout
  BY DEF AfterEnd, Stdout

------------------------------------------------------------------------------
(* Every step keeps the types.                                             *)

\* The types hold when the program starts.
LEMMA TypesAtFirst == Init => TypeOK /\ Counted
<1> SUFFICES ASSUME Init PROVE TypeOK /\ Counted
  OBVIOUS
<1>1. table \in [Ids -> Entry]
  BY DEF Init, Free, Entry, Kinds
<1>2. {outOpen, full, writer, flowing, exited, refd} \subseteq [Children -> BOOLEAN]
  BY DEF Init
<1>3. {printed, unread, pushed} \subseteq [Children -> 0..MaxOut]
  BY BoundsAssumption DEF Init
<1>4. event \in [Children -> [Names -> {"no", "queued", "done"}]]
  BY DEF Init
<1>5. id \in [Children -> [Kinds -> Ids \union {-1}]]
  BY DEF Init
<1>6. tasks \in Seq(AnyTask)
  BY DEF Init
<1>7. at \in {Idle} \union [step : Steps, child : Children \union {Nobody}]
      /\ ready \subseteq Ids /\ listener \in BOOLEAN
      /\ active \subseteq Children /\ todo \subseteq Children
  BY DEF Init
<1>8. proc \in [Children -> {"unborn", "running", "ended", "reaped", "missing"}]
      /\ stdin \in [Children -> {"none"}] /\ reader = stdin /\ stdout = stdin
      /\ channel = stdin
  BY DEF Init
<1>9. TypeOK
  BY <1>1, <1>2, <1>3, <1>4, <1>5, <1>6, <1>7, <1>8 DEF TypeOK
<1> QED BY <1>9 DEF Init, Counted

\* spawn() of a program that exists.
LEMMA SpawnTypes ==
  ASSUME TypeOK, NEW c \in Children, Spawn(c)
  PROVE  TypeOK'
<1> DEFINE granted == Allocated(c)
<1>1. granted \in Grants
  BY AllocatedType
<1>2. /\ table' = granted.table
      /\ id' = [id EXCEPT ![c] = granted.id]
      /\ stdin' = [stdin EXCEPT ![c] = IF granted.id["in"] >= 0 THEN "open" ELSE @]
      /\ reader' = [reader EXCEPT ![c] = IF granted.id["out"] >= 0 THEN "open" ELSE @]
      /\ channel' = [channel EXCEPT ![c] = IF granted.id["ipc"] >= 0 THEN "open" ELSE @]
  BY Zenon DEF Spawn
<1> HIDE DEF granted
<1>3. table' \in [Ids -> Entry] /\ id' \in [Children -> [Kinds -> Ids \union {-1}]]
  BY <1>1, <1>2 DEF TypeOK, Grants
<1>4. stdin' \in [Children -> Stdin]
  BY <1>2 DEF TypeOK, Stdin
<1>5. reader' \in [Children -> {"none", "open", "done", "cut"}]
  BY <1>2 DEF TypeOK
<1>6. channel' \in [Children -> {"none", "open", "closed"}]
  BY <1>2 DEF TypeOK
<1>7. stdout' \in [Children -> Stdout]
  BY DEF TypeOK, Spawn, Stdout
<1>8. outOpen' \in [Children -> BOOLEAN]
      /\ proc' \in [Children -> {"unborn", "running", "ended", "reaped", "missing"}]
      /\ active' \subseteq Children
  BY DEF TypeOK, Spawn
<1>9. UNCHANGED <<full, printed, unread, writer, flowing, pushed, exited, refd,
                  event, at, todo, ready, listener, tasks>>
  BY DEF Spawn, turn
<1> QED BY <1>3, <1>4, <1>5, <1>6, <1>7, <1>8, <1>9 DEF TypeOK, Stdin, Stdout

\* The methods and callbacks of stdin.
LEMMA StdinTypes ==
  ASSUME TypeOK, NEW c \in Children,
         Write(c) \/ EndStdin(c) \/ DestroyStdin(c) \/ FinishStdin(c)
  PROVE  TypeOK'
<1>1. table' \in [Ids -> Entry]
  BY DestroyInType, FinalType DEF TypeOK, Write, EndStdin, DestroyStdin, FinishStdin
<1>2. stdin' \in [Children -> Stdin]
  <2>1. stdin \in [Children -> Stdin]
    BY DEF TypeOK, Stdin
  <2>2. CASE Write(c) \/ DestroyStdin(c) \/ FinishStdin(c)
    BY <2>1, <2>2, DestroyInType DEF Write, DestroyStdin, FinishStdin
  <2>3. CASE EndStdin(c)
    BY <2>1, <2>3, FinalType DEF EndStdin, Stdin
  <2> QED BY <2>2, <2>3
<1>3. writer' \in [Children -> BOOLEAN]
  BY DestroyInType DEF TypeOK, Write, EndStdin, DestroyStdin, FinishStdin
<1>4. full' \in [Children -> BOOLEAN]
  BY DEF TypeOK, Write, EndStdin, DestroyStdin, FinishStdin
<1>5. tasks' \in Seq(AnyTask)
  BY FinalType, QueueTypes
     DEF TypeOK, Write, EndStdin, DestroyStdin, FinishStdin, NextTask, turn
<1>6. UNCHANGED <<proc, outOpen, printed, unread, id, reader, stdout, flowing,
                  pushed, channel, exited, refd, event, active, at, todo, ready,
                  listener>>
  BY DEF Write, EndStdin, DestroyStdin, FinishStdin, life, turn
<1> QED BY <1>1, <1>2, <1>3, <1>4, <1>5, <1>6 DEF TypeOK, Stdin

\* stdout.destroy().
LEMMA DestroyStdoutTypes ==
  ASSUME TypeOK, NEW c \in Children, DestroyStdout(c)
  PROVE  TypeOK'
<1>1. table' \in [Ids -> Entry]
  BY ClosedType DEF TypeOK, DestroyStdout
<1>2. tasks' \in Seq(AnyTask)
  BY TaskType, QueueTypes DEF TypeOK, DestroyStdout
<1>3. unread' \in [Children -> 0..MaxOut]
  BY BoundsAssumption DEF TypeOK, DestroyStdout
<1>4. stdout' \in [Children -> Stdout]
      /\ reader' \in [Children -> {"none", "open", "done", "cut"}]
  BY DEF TypeOK, DestroyStdout, Stdout
<1>5. UNCHANGED <<proc, outOpen, full, printed, id, stdin, writer, flowing, pushed,
                  channel, exited, refd, event, active, at, todo, ready, listener>>
  BY DEF DestroyStdout, life
<1> QED BY <1>1, <1>2, <1>3, <1>4, <1>5 DEF TypeOK, Stdout

\* A 'data' listener or resume().
LEMMA ConsumeTypes ==
  ASSUME TypeOK, NEW c \in Children, Consume(c)
  PROVE  TypeOK'
<1>1. tasks' \in Seq(AnyTask)
  BY TaskType, QueueTypes DEF TypeOK, Consume
<1>2. stdout' \in [Children -> Stdout] /\ flowing' \in [Children -> BOOLEAN]
  BY DEF TypeOK, Consume, Stdout
<1>3. UNCHANGED <<table, proc, outOpen, full, printed, unread, id, stdin, writer,
                  reader, pushed, channel, exited, refd, event, active, at, todo,
                  ready, listener>>
  BY DEF Consume, host, life
<1> QED BY <1>1, <1>2, <1>3 DEF TypeOK, Stdout

\* disconnect(), and a tick that serves the channel.
LEMMA ChannelTypes ==
  ASSUME TypeOK, NEW c \in Children, Disconnect(c) \/ TickChannel(c)
  PROVE  TypeOK'
<1>1. /\ channel' \in [Children -> {"none", "open", "closed"}]
      /\ table' \in [Ids -> Entry]
      /\ event' \in [Children -> [Names -> {"no", "queued", "done"}]]
      /\ tasks' \in Seq(AnyTask)
  BY CloseChannelType DEF TypeOK, Disconnect, TickChannel
<1>2. /\ at' \in {Idle} \union [step : Steps, child : Children \union {Nobody}]
      /\ listener' \in BOOLEAN
      /\ ready' \subseteq Ids
  BY StepType DEF TypeOK, Disconnect, TickChannel, Steps
<1>3. todo' \subseteq Children
  BY DEF TypeOK, Disconnect, TickChannel
<1>4. UNCHANGED <<proc, outOpen, full, printed, unread, id, stdin, writer, reader,
                  stdout, flowing, pushed, exited, refd, active>>
  BY DEF Disconnect, TickChannel
<1> QED BY <1>1, <1>2, <1>3, <1>4 DEF TypeOK

\* Calls and steps of children that change one function.
LEMMA SimpleTypes ==
  ASSUME TypeOK, NEW c \in Children,
         \/ ToggleRef(c) \/ ReadStdin(c) \/ Exit(c) \/ LetGo(c)
  PROVE  TypeOK'
<1>1. CASE ToggleRef(c)
  BY <1>1 DEF TypeOK, ToggleRef, host, ends, turn
<1>2. CASE ReadStdin(c)
  BY <1>2 DEF TypeOK, ReadStdin, ends, life, turn
<1>3. CASE Exit(c)
  <2>1. outOpen' \in [Children -> BOOLEAN]
    BY <1>3 DEF TypeOK, Exit
  <2>2. proc' \in [Children -> {"unborn", "running", "ended", "reaped", "missing"}]
    BY <1>3 DEF TypeOK, Exit
  <2>3. UNCHANGED <<table, full, printed, unread, ends, life, turn>>
    BY <1>3 DEF Exit
  <2> QED BY <2>1, <2>2, <2>3 DEF TypeOK, ends, life, turn
<1>4. CASE LetGo(c)
  BY <1>4 DEF TypeOK, LetGo, ends, life, turn
<1> QED BY <1>1, <1>2, <1>3, <1>4

\* spawn() of a program that does not exist.
LEMMA SpawnFailsTypes ==
  ASSUME TypeOK, NEW c \in Children, SpawnFails(c)
  PROVE  TypeOK'
<1>1. tasks' \in Seq(AnyTask)
  BY TaskType, QueueTypes DEF TypeOK, SpawnFails
<1>2. stdout' \in [Children -> Stdout]
      /\ proc' \in [Children -> {"unborn", "running", "ended", "reaped", "missing"}]
  BY DEF TypeOK, SpawnFails, Stdout
<1>3. UNCHANGED <<table, outOpen, full, printed, unread, id, stdin, writer, reader,
                  flowing, pushed, channel, exited, refd, event, active, at, todo,
                  ready, listener>>
  BY DEF SpawnFails, life
<1> QED BY <1>1, <1>2, <1>3 DEF TypeOK, Stdout

\* A child prints: its chunks stay within the bound.
LEMMA OutputTypes ==
  ASSUME TypeOK, Counted, NEW c \in Children, Output(c)
  PROVE  TypeOK'
<1>1. printed[c] + 1 \in 0..MaxOut /\ unread[c] + 1 \in 0..MaxOut
  BY BoundsAssumption DEF TypeOK, Counted, Output
<1>2. printed' \in [Children -> 0..MaxOut] /\ unread' \in [Children -> 0..MaxOut]
  BY <1>1 DEF TypeOK, Output
<1>3. UNCHANGED <<table, proc, outOpen, full, ends, life, turn>>
  BY DEF Output
<1> QED BY <1>2, <1>3 DEF TypeOK, ends, life, turn

\* run() begins and ends a round.
LEMMA RunTypes ==
  ASSUME TypeOK, Run \/ RunDone
  PROVE  TypeOK'
<1>1. at' \in {Idle} \union [step : Steps, child : Children \union {Nobody}]
  BY DEF TypeOK, Run, RunDone, Steps
<1>2. ready' \subseteq Ids
  BY DEF TypeOK, Run, RunDone, ReadIds
<1>3. todo' \subseteq Children /\ listener' \in BOOLEAN
  BY DEF TypeOK, Run, RunDone
<1>4. UNCHANGED <<table, proc, outOpen, full, printed, unread, id, stdin, writer,
                  reader, stdout, flowing, pushed, channel, exited, refd, event,
                  active, tasks>>
  BY DEF Run, RunDone, host, ends, life
<1> QED BY <1>1, <1>2, <1>3, <1>4 DEF TypeOK

\* A tick that tries a write again.
LEMMA TickWriteTypes ==
  ASSUME TypeOK, NEW c \in Children, TickWrite(c)
  PROVE  TypeOK'
<1>1. /\ at' \in {Idle} \union [step : Steps, child : Children \union {Nobody}]
      /\ listener' \in BOOLEAN
      /\ ready' \subseteq Ids
  BY StepType DEF TickWrite, Steps
<1>2. /\ table' \in [Ids -> Entry]
      /\ tasks' \in Seq(AnyTask)
  BY DestroyInType, FinalType DEF TypeOK, TickWrite
<1>3. stdin' \in [Children -> Stdin]
  <2>1. stdin \in [Children -> Stdin]
    BY DEF TypeOK, Stdin
  <2> QED BY <2>1, DestroyInType, FinalType DEF TickWrite
<1>4. writer' \in [Children -> BOOLEAN] /\ full' \in [Children -> BOOLEAN]
  <2>1. writer \in [Children -> BOOLEAN] /\ full \in [Children -> BOOLEAN]
    BY DEF TypeOK
  <2> QED BY <2>1, DestroyInType DEF TickWrite
<1>5. UNCHANGED <<proc, outOpen, printed, unread, id, reader, stdout, flowing,
                  pushed, channel, exited, refd, event, active, todo>>
  BY DEF TickWrite, life
<1> QED BY <1>1, <1>2, <1>3, <1>4, <1>5 DEF TypeOK, Stdin

\* A tick that drains stdout.
LEMMA TickDrainTypes ==
  ASSUME TypeOK, Counted, NEW c \in Children, TickDrain(c)
  PROVE  TypeOK'
<1> DEFINE open == reader[c] = "open" /\ (id[c]["out"] \in ready \/ exited[c])
           over == open /\ ~outOpen[c]
           out == AfterEnd(stdout[c], over, flowing[c])
<1>1. /\ Step(c, "poll", open /\ unread[c] > 0 /\ flowing[c])
      /\ IF open THEN Drain(c, over) ELSE UNCHANGED <<pushed, unread, reader>>
      /\ table' = IF over THEN Closed(table, id[c]["out"], {"r"}) ELSE table
      /\ stdout' = [stdout EXCEPT ![c] = out]
      /\ tasks' = tasks \o Closing(c, out)
  BY Zenon DEF TickDrain
<1>2. (open /\ unread[c] > 0 /\ flowing[c]) \in BOOLEAN
  BY DEF TypeOK
<1>3. out \in Stdout
  BY AfterEndType DEF TypeOK, Stdout
<1> HIDE DEF open, over, out
<1>4. /\ at' \in {Idle} \union [step : Steps, child : Children \union {Nobody}]
      /\ listener' \in BOOLEAN
      /\ ready' \subseteq Ids
  BY <1>1, <1>2, StepType DEF Steps
<1>5. /\ pushed' \in [Children -> 0..MaxOut]
      /\ unread' \in [Children -> 0..MaxOut]
      /\ reader' \in [Children -> {"none", "open", "done", "cut"}]
  BY <1>1, DrainType DEF TypeOK
<1>6. table' \in [Ids -> Entry]
  BY <1>1, ClosedType DEF TypeOK
<1>7. stdout' \in [Children -> Stdout]
  BY <1>1, <1>3 DEF TypeOK, Stdout
<1>8. tasks' \in Seq(AnyTask)
  BY <1>1, ClosingType, QueueTypes DEF TypeOK
<1>9. UNCHANGED <<proc, outOpen, full, printed, id, stdin, writer, flowing, channel,
                  exited, refd, event, active, todo>>
  BY DEF TickDrain, life
<1> QED BY <1>4, <1>5, <1>6, <1>7, <1>8, <1>9 DEF TypeOK, Stdout

\* A tick that leaves the scheduler, or not.
LEMMA SettleTypes ==
  ASSUME TypeOK, NEW c \in Children, TickAlive(c) \/ TickSettle(c)
  PROVE  TypeOK'
<1>1. Settle(c)
  BY DEF TickAlive, TickSettle
<1>2. /\ at' \in {Idle} \union [step : Steps, child : Children \union {Nobody}]
      /\ listener' \in BOOLEAN
      /\ ready' \subseteq Ids
  BY <1>1, StepType DEF Settle, Steps
<1>3. active' \subseteq Children
  BY <1>1 DEF TypeOK, Settle
<1>4. UNCHANGED <<host, ends, exited, refd, event, todo, tasks>>
  BY <1>1 DEF Settle
<1> QED BY <1>2, <1>3, <1>4 DEF TypeOK, host, ends

\* _onExit.
LEMMA OnExitTypes ==
  ASSUME TypeOK, Counted, NEW c \in Children, OnExit(c)
  PROVE  TypeOK'
<1> DEFINE open == reader[c] = "open"
           over == open /\ ~outOpen[c]
           flows == flowing[c] \/ stdout[c] \in {"open", "ended"}
           out == AfterEnd(stdout[c], over, flows)
           hangUp == channel[c] = "open"
           drained == IF over THEN Closed(table, id[c]["out"], {"r"}) ELSE table
           queue == tasks \o ExitTasks(c, hangUp) \o Closing(c, out)
           last == LastClose(c, TRUE, out)
<1>1. /\ Step(c, "settle", TRUE)
      /\ IF open THEN Drain(c, over) ELSE UNCHANGED <<pushed, unread, reader>>
      /\ flowing' = [flowing EXCEPT ![c] = flows]
      /\ stdout' = [stdout EXCEPT ![c] = out]
      /\ table' = IF hangUp THEN Closed(drained, id[c]["ipc"], {"r", "w"})
                  ELSE drained
      /\ MaybeClose(c, TRUE, out, queue)
  BY Zenon DEF OnExit
<1>2. event' = [event EXCEPT
        ![c].disconnect = IF hangUp THEN "queued" ELSE event[c].disconnect,
        ![c].exit = IF channel[c] # "none" THEN "queued" ELSE "done",
        ![c].close = IF last THEN "queued" ELSE event[c].close]
  BY Zenon DEF OnExit
<1>3. out \in Stdout
  BY AfterEndType DEF TypeOK, Stdout
<1>4. flows \in BOOLEAN
  BY DEF TypeOK
<1> HIDE DEF open, over, flows, out, hangUp, last
<1>6. /\ at' \in {Idle} \union [step : Steps, child : Children \union {Nobody}]
      /\ listener' \in BOOLEAN
      /\ ready' \subseteq Ids
  BY <1>1, StepType DEF Steps
<1>7. /\ pushed' \in [Children -> 0..MaxOut]
      /\ unread' \in [Children -> 0..MaxOut]
      /\ reader' \in [Children -> {"none", "open", "done", "cut"}]
  BY <1>1, DrainType DEF TypeOK
<1>8. table' \in [Ids -> Entry]
  <2>1. drained \in [Ids -> Entry]
    BY ClosedType DEF TypeOK
  <2> HIDE DEF drained
  <2> QED BY <1>1, <2>1, ClosedType
<1>9. queue \in Seq(AnyTask)
  <2>1. tasks \o ExitTasks(c, hangUp) \in Seq(AnyTask)
    BY ExitTasksType, QueueTypes DEF TypeOK
  <2> QED BY <2>1, ClosingType, QueueTypes
<1>10. active' \subseteq Children /\ tasks' \in Seq(AnyTask)
  BY <1>1, <1>9, MaybeCloseType
<1>11. stdout' \in [Children -> Stdout]
  BY <1>1, <1>3 DEF TypeOK, Stdout
<1>12. flowing' \in [Children -> BOOLEAN]
  BY <1>1, <1>4 DEF TypeOK
<1>13. event' \in [Children -> [Names -> {"no", "queued", "done"}]]
  <2> DEFINE d == IF hangUp THEN "queued" ELSE event[c].disconnect
             e == IF channel[c] # "none" THEN "queued" ELSE "done"
             f == IF last THEN "queued" ELSE event[c].close
  <2>1. d \in Happening /\ e \in Happening /\ f \in Happening
    BY EventTypes DEF Happening
  <2>2. event' = [event EXCEPT ![c].disconnect = d, ![c].exit = e, ![c].close = f]
    BY <1>2
  <2> HIDE DEF d, e, f
  <2>3. event' \in [Children -> [Names -> Happening]]
    BY <2>1, <2>2, EventTypes, Zenon
  <2> QED BY <2>3 DEF Happening
<1>14. channel' \in [Children -> {"none", "open", "closed"}]
       /\ proc' \in [Children -> {"unborn", "running", "ended", "reaped", "missing"}]
       /\ exited' \in [Children -> BOOLEAN]
  BY DEF TypeOK, OnExit
<1>15. UNCHANGED <<outOpen, full, printed, id, stdin, writer, refd, todo>>
  BY DEF OnExit
<1> QED BY <1>6, <1>7, <1>8, <1>10, <1>11, <1>12, <1>13, <1>14, <1>15
        DEF TypeOK, Stdout

\* An event is told.
LEMMA EmitTypes ==
  ASSUME TypeOK, NEW c \in Children, NEW name \in Names, Emit(name, c)
  PROVE  TypeOK'
<1>1. event' \in [Children -> [Names -> {"no", "queued", "done"}]]
  BY DEF TypeOK, Emit
<1>2. tasks' \in Seq(AnyTask)
  BY QueueTypes DEF TypeOK, Emit, NextTask
<1>3. UNCHANGED <<host, ends, exited, refd, active, at, todo, ready, listener>>
  BY DEF Emit
<1> QED BY <1>1, <1>2, <1>3 DEF TypeOK, host, ends

\* 'close' of stdout.
LEMMA StreamCloseTypes ==
  ASSUME TypeOK, NEW c \in Children, StreamClose(c)
  PROVE  TypeOK'
<1> DEFINE over == exited[c] \/ proc[c] = "missing"
<1>1. Tail(tasks) \in Seq(AnyTask)
  BY QueueTypes DEF TypeOK, StreamClose, NextTask
<1>2. MaybeClose(c, over, "closed", Tail(tasks))
  BY Zenon DEF StreamClose
<1>3. active' \subseteq Children /\ tasks' \in Seq(AnyTask)
  BY <1>1, <1>2, MaybeCloseType
<1>4. stdout' \in [Children -> Stdout]
  BY DEF TypeOK, StreamClose, Stdout
<1>5. event' \in [Children -> [Names -> {"no", "queued", "done"}]]
  <2> DEFINE last == LastClose(c, over, "closed")
             f == IF last THEN "queued" ELSE event[c].close
  <2>1. event' = [event EXCEPT ![c].close = f]
    BY Zenon DEF StreamClose
  <2>2. f \in Happening
    BY EventTypes DEF Happening
  <2> HIDE DEF f
  <2> QED BY <2>1, <2>2, EventTypes DEF Happening
<1>6. UNCHANGED <<host, id, stdin, writer, reader, flowing, pushed, channel,
                  exited, refd, at, todo, ready, listener>>
  BY DEF StreamClose
<1> QED BY <1>3, <1>4, <1>5, <1>6 DEF TypeOK, Stdout, host

\* 'error' of a spawn that failed.
LEMMA SpawnErrorTypes ==
  ASSUME TypeOK, NEW c \in Children, SpawnError(c)
  PROVE  TypeOK'
<1> DEFINE out == IF stdout[c] = "open" THEN "closing" ELSE stdout[c]
<1>1. Tail(tasks) \o Closing(c, out) \in Seq(AnyTask)
  BY QueueTypes, ClosingType DEF TypeOK, SpawnError, NextTask
<1>2. MaybeClose(c, TRUE, out, Tail(tasks) \o Closing(c, out))
  BY Zenon DEF SpawnError
<1>3. active' \subseteq Children /\ tasks' \in Seq(AnyTask)
  BY <1>1, <1>2, MaybeCloseType
<1>4. stdout' \in [Children -> Stdout]
  BY DEF TypeOK, SpawnError, Stdout
<1>5. event' \in [Children -> [Names -> {"no", "queued", "done"}]]
  <2> DEFINE last == LastClose(c, TRUE, out)
             f == IF last THEN "queued" ELSE event[c].close
  <2>1. event' = [event EXCEPT ![c].close = f]
    BY Zenon DEF SpawnError
  <2>2. f \in Happening
    BY EventTypes DEF Happening
  <2> HIDE DEF f
  <2> QED BY <2>1, <2>2, EventTypes DEF Happening
<1>6. UNCHANGED <<host, id, stdin, writer, reader, flowing, pushed, channel,
                  exited, refd, at, todo, ready, listener>>
  BY DEF SpawnError
<1> QED BY <1>3, <1>4, <1>5, <1>6 DEF TypeOK, Stdout, host

\* So every step keeps the types.
LEMMA TypesKept ==
  ASSUME TypeOK, Counted, [Next]_vars
  PROVE  TypeOK'
<1>1. CASE Run \/ RunDone
  BY <1>1, RunTypes
<1>2. ASSUME NEW c \in Children, Tick(c) PROVE TypeOK'
  BY <1>2, ChannelTypes, TickWriteTypes, TickDrainTypes, SettleTypes, OnExitTypes
     DEF Tick
<1>3. ASSUME NEW c \in Children, Microtask(c) PROVE TypeOK'
  BY <1>3, EmitTypes, StdinTypes, StreamCloseTypes, SpawnErrorTypes DEF Microtask
<1>4. ASSUME NEW c \in Children, Program(c) PROVE TypeOK'
  BY <1>4, SpawnTypes, SpawnFailsTypes, StdinTypes, DestroyStdoutTypes,
     ConsumeTypes, ChannelTypes, SimpleTypes
     DEF Program, Spawning, Calling, Kill
<1>5. ASSUME NEW c \in Children, Environment(c) PROVE TypeOK'
  BY <1>5, OutputTypes, SimpleTypes DEF Environment
<1>6. CASE UNCHANGED vars
  BY <1>6 DEF TypeOK, vars, host, ends, life, turn
<1> QED BY <1>1, <1>2, <1>3, <1>4, <1>5, <1>6 DEF Next, Loop
------------------------------------------------------------------------------
(* The nextTick queue.                                                     *)

\* A task of a child is in a queue.
Waits(q, name, c) == \E i \in 1..Len(q) : q[i] = Task(name, c)

\* Every task `name` of a child has a task `first` of it before it.
Behind(q, first, name, c) ==
  \A i \in 1..Len(q) : q[i] = Task(name, c) =>
    \E j \in 1..(i - 1) : q[j] = Task(first, c)

\* A task waits in two queues put together when it waits in one of them.
LEMMA WaitsInConcat ==
  ASSUME NEW q \in Seq(AnyTask), NEW r \in Seq(AnyTask), NEW name, NEW c
  PROVE  Waits(q \o r, name, c) <=> Waits(q, name, c) \/ Waits(r, name, c)
<1>1. ASSUME Waits(q, name, c) PROVE Waits(q \o r, name, c)
  BY <1>1 DEF Waits
<1>2. ASSUME Waits(r, name, c) PROVE Waits(q \o r, name, c)
  <2>1. PICK i \in 1..Len(r) : r[i] = Task(name, c)
    BY <1>2 DEF Waits
  <2>2. Len(q) + i \in 1..Len(q \o r) /\ (q \o r)[Len(q) + i] = Task(name, c)
    BY <2>1
  <2> QED BY <2>2 DEF Waits
<1>3. ASSUME Waits(q \o r, name, c) PROVE Waits(q, name, c) \/ Waits(r, name, c)
  <2>1. PICK i \in 1..Len(q \o r) : (q \o r)[i] = Task(name, c)
    BY <1>3 DEF Waits
  <2>2. CASE i <= Len(q)
    BY <2>1, <2>2 DEF Waits
  <2>3. CASE i > Len(q)
    <3>1. i - Len(q) \in 1..Len(r) /\ r[i - Len(q)] = Task(name, c)
      BY <2>1, <2>3
    <3> QED BY <3>1 DEF Waits
  <2> QED BY <2>2, <2>3
<1> QED BY <1>1, <1>2, <1>3

\* The empty queue, and a queue of one task.
LEMMA WaitsInOne ==
  ASSUME NEW c, NEW name, NEW d, NEW m
  PROVE  /\ ~Waits(<<>>, name, c)
         /\ Waits(<<Task(m, d)>>, name, c) <=> name = m /\ c = d
  BY DEF Waits, Task

\* Taking the head of a queue removes at most that task.
LEMMA WaitsInTail ==
  ASSUME NEW q \in Seq(AnyTask), q # <<>>, NEW name, NEW c
  PROVE  Waits(q, name, c) <=> Head(q) = Task(name, c) \/ Waits(Tail(q), name, c)
<1>1. ASSUME Waits(Tail(q), name, c) PROVE Waits(q, name, c)
  <2>1. PICK i \in 1..Len(Tail(q)) : Tail(q)[i] = Task(name, c)
    BY <1>1 DEF Waits
  <2>2. i + 1 \in 1..Len(q) /\ q[i + 1] = Task(name, c)
    BY <2>1
  <2> QED BY <2>2 DEF Waits
<1>2. ASSUME Waits(q, name, c), Head(q) # Task(name, c)
      PROVE  Waits(Tail(q), name, c)
  <2>1. PICK i \in 1..Len(q) : q[i] = Task(name, c)
    BY <1>2 DEF Waits
  <2>2. i - 1 \in 1..Len(Tail(q)) /\ Tail(q)[i - 1] = Task(name, c)
    BY <1>2, <2>1
  <2> QED BY <2>2 DEF Waits
<1>3. Head(q) = Task(name, c) => Waits(q, name, c)
  BY DEF Waits
<1> QED BY <1>1, <1>2, <1>3

\* An order survives tasks that are added, when these keep it themselves or
\* the first task waits already.
LEMMA BehindInConcat ==
  ASSUME NEW q \in Seq(AnyTask), NEW r \in Seq(AnyTask), NEW first, NEW name,
         NEW c, Behind(q, first, name, c),
         Waits(q, first, c) \/ Behind(r, first, name, c)
  PROVE  Behind(q \o r, first, name, c)
<1> SUFFICES ASSUME NEW i \in 1..Len(q \o r), (q \o r)[i] = Task(name, c)
             PROVE  \E j \in 1..(i - 1) : (q \o r)[j] = Task(first, c)
  BY DEF Behind
<1>1. CASE i <= Len(q)
  <2>1. PICK j \in 1..(i - 1) : q[j] = Task(first, c)
    BY <1>1 DEF Behind
  <2> QED BY <1>1, <2>1
<1>2. CASE i > Len(q) /\ Waits(q, first, c)
  <2>1. PICK j \in 1..Len(q) : q[j] = Task(first, c)
    BY <1>2 DEF Waits
  <2> QED BY <1>2, <2>1
<1>3. CASE i > Len(q) /\ Behind(r, first, name, c)
  <2>1. i - Len(q) \in 1..Len(r) /\ r[i - Len(q)] = Task(name, c)
    BY <1>3
  <2>2. PICK j \in 1..(i - Len(q) - 1) : r[j] = Task(first, c)
    BY <1>3, <2>1 DEF Behind
  <2>3. Len(q) + j \in 1..(i - 1) /\ (q \o r)[Len(q) + j] = Task(first, c)
    BY <1>3, <2>2
  <2> QED BY <2>3
<1> QED BY <1>1, <1>2, <1>3

\* An order survives the removal of a head that is not its first task.
LEMMA BehindInTail ==
  ASSUME NEW q \in Seq(AnyTask), q # <<>>, NEW first, NEW name, NEW c,
         Behind(q, first, name, c), Head(q) # Task(first, c)
  PROVE  Behind(Tail(q), first, name, c)
<1> SUFFICES ASSUME NEW i \in 1..Len(Tail(q)), Tail(q)[i] = Task(name, c)
             PROVE  \E j \in 1..(i - 1) : Tail(q)[j] = Task(first, c)
  BY DEF Behind
<1>1. i + 1 \in 1..Len(q) /\ q[i + 1] = Task(name, c)
  OBVIOUS
<1>2. PICK j \in 1..i : q[j] = Task(first, c)
  BY <1>1 DEF Behind
<1>3. j # 1
  BY <1>2
<1>4. j - 1 \in 1..(i - 1) /\ Tail(q)[j - 1] = Task(first, c)
  BY <1>2, <1>3
<1> QED BY <1>4

\* A queue without a task, or without its head, keeps an order.
LEMMA BehindNothing ==
  ASSUME NEW q, NEW first, NEW name, NEW c, ~Waits(q, name, c)
  PROVE  Behind(q, first, name, c)
  BY DEF Behind, Waits

\* A task at the head has nothing before it.
LEMMA FirstInQueue ==
  ASSUME NEW q \in Seq(AnyTask), q # <<>>, NEW first, NEW name, NEW c,
         Head(q) = Task(name, c)
  PROVE  ~Behind(q, first, name, c)
  BY DEF Behind

\* One task more.
LEMMA WaitsInAppend ==
  ASSUME NEW q \in Seq(AnyTask), NEW c \in Children, NEW name, NEW d,
         NEW m \in AllNames
  PROVE  Waits(Append(q, Task(m, c)), name, d)
           <=> Waits(q, name, d) \/ (name = m /\ d = c)
<1>1. Task(m, c) \in AnyTask
  BY TaskType DEF AllNames
<1>2. Append(q, Task(m, c)) = q \o <<Task(m, c)>>
  BY <1>1, AppendIsConcat
<1>3. <<Task(m, c)>> \in Seq(AnyTask)
  BY <1>1
<1>4. Waits(q \o <<Task(m, c)>>, name, d)
        <=> Waits(q, name, d) \/ Waits(<<Task(m, c)>>, name, d)
  BY <1>3, WaitsInConcat
<1> QED BY <1>2, <1>4, WaitsInOne

\* The task of a stream that starts to close.
LEMMA WaitsInClosing ==
  ASSUME NEW c \in Children, NEW out, NEW name, NEW d
  PROVE  Waits(Closing(c, out), name, d)
           => name = "streamClose" /\ d = c /\ out = "closing"
  BY WaitsInOne DEF Closing

\* The tasks of an exit.
LEMMA WaitsInExitTasks ==
  ASSUME NEW c \in Children, NEW hangUp, NEW name, NEW d
  PROVE  Waits(ExitTasks(c, hangUp), name, d)
           <=> d = c /\ \/ name = "disconnect" /\ hangUp
                        \/ name = "exit" /\ channel[c] # "none"
<1> DEFINE one == IF hangUp THEN <<Task("disconnect", c)>> ELSE <<>>
           two == IF channel[c] # "none" THEN <<Task("exit", c)>> ELSE <<>>
<1>1. one \in Seq(AnyTask) /\ two \in Seq(AnyTask)
  BY TaskType DEF Names
<1>2. Waits(one, name, d) <=> d = c /\ name = "disconnect" /\ hangUp
  BY WaitsInOne
<1>3. Waits(two, name, d) <=> d = c /\ name = "exit" /\ channel[c] # "none"
  BY WaitsInOne
<1>4. ExitTasks(c, hangUp) = one \o two
  BY Zenon DEF ExitTasks
<1> HIDE DEF one, two
<1> QED BY <1>1, <1>2, <1>3, <1>4, WaitsInConcat

\* _maybeClose adds 'close' at most.
LEMMA WaitsAfterMaybeClose ==
  ASSUME NEW c \in Children, NEW over, NEW out, NEW queue \in Seq(AnyTask),
         MaybeClose(c, over, out, queue), NEW name, NEW d
  PROVE  Waits(tasks', name, d)
           <=> \/ Waits(queue, name, d)
               \/ LastClose(c, over, out) /\ name = "close" /\ d = c
<1> DEFINE last == LastClose(c, over, out)
           one == IF last THEN <<Task("close", c)>> ELSE <<>>
<1>1. one \in Seq(AnyTask)
  BY TaskType DEF Names
<1>2. Waits(one, name, d) <=> last /\ name = "close" /\ d = c
  BY WaitsInOne
<1>3. tasks' = queue \o one
  BY Zenon DEF MaybeClose
<1> HIDE DEF last, one
<1>4. Waits(tasks', name, d)
        <=> Waits(queue, name, d) \/ (last /\ name = "close" /\ d = c)
  BY <1>1, <1>2, <1>3, WaitsInConcat
<1> QED BY <1>4 DEF last

\* What a step of a child adds to the queue.
Added(c) ==
  \A d \in Children, name \in AllNames :
    Waits(tasks', name, d) =>
      \/ Waits(tasks, name, d)
      \/ /\ d = c
         /\ name = "streamClose" => stdout'[c] \in {"closing", "closed"}
         /\ name = "close" => stdout'[c] \in {"none", "closed"}
         /\ name = "spawnError" => proc'[c] = "missing"
         /\ name = "finish" => stdin'[c] = "finished"

\* Every step of a child keeps to that.
LEMMA AddedByStep ==
  ASSUME TypeOK, NEW c \in Children,
         Program(c) \/ Environment(c) \/ Tick(c) \/ Microtask(c)
  PROVE  Added(c)
<1> tasks \in Seq(AnyTask)
  BY DEF TypeOK
<1>1. CASE UNCHANGED tasks
  BY <1>1 DEF Added
<1>2. CASE Final(c)
  <2>1. tasks' = Append(tasks, Task("finish", c)) /\ stdin'[c] = "finished"
    BY <1>2 DEF Final, TypeOK
  <2> QED BY <2>1, WaitsInAppend DEF Added, AllNames
<1>3. CASE CloseChannel(c)
  BY <1>3, WaitsInAppend DEF Added, CloseChannel, AllNames, Names
<1>4. CASE DestroyStdout(c) \/ Consume(c) \/ SpawnFails(c)
  <2>1. \/ tasks' = Append(tasks, Task("streamClose", c)) /\ stdout'[c] = "closing"
        \/ tasks' = Append(tasks, Task("spawnError", c)) /\ proc'[c] = "missing"
        \/ tasks' = tasks
    BY <1>4 DEF DestroyStdout, Consume, SpawnFails, TypeOK
  <2>2. CASE tasks' = Append(tasks, Task("streamClose", c)) /\ stdout'[c] = "closing"
    BY <2>2, WaitsInAppend DEF Added, AllNames
  <2>3. CASE tasks' = Append(tasks, Task("spawnError", c)) /\ proc'[c] = "missing"
    BY <2>3, WaitsInAppend DEF Added, AllNames
  <2> QED BY <1>1, <2>1, <2>2, <2>3
<1>5. CASE TickDrain(c)
  <2> DEFINE out == stdout'[c]
  <2>1. tasks' = tasks \o Closing(c, out)
    BY <1>5 DEF TickDrain, TypeOK
  <2>2. Closing(c, out) \in Seq(AnyTask)
    BY ClosingType
  <2> HIDE DEF out
  <2>3. \A d \in Children, name \in AllNames :
          Waits(tasks', name, d) => \/ Waits(tasks, name, d)
                                    \/ Waits(Closing(c, out), name, d)
    BY <2>1, <2>2, WaitsInConcat
  <2> QED BY <2>3, WaitsInClosing DEF Added, out
<1>6. CASE OnExit(c)
  <2> DEFINE out == stdout'[c]
             hangUp == channel[c] = "open"
             one == ExitTasks(c, hangUp)
             two == Closing(c, out)
  <2>1. MaybeClose(c, TRUE, out, tasks \o one \o two)
    BY <1>6 DEF OnExit, TypeOK
  <2>2. one \in Seq(AnyTask) /\ two \in Seq(AnyTask)
    BY ClosingType, ExitTasksType
  <2>3. tasks \o one \in Seq(AnyTask) /\ tasks \o one \o two \in Seq(AnyTask)
    BY <2>2
  <2>4. ASSUME NEW d \in Children, NEW name \in AllNames, Waits(tasks', name, d)
        PROVE  \/ Waits(tasks, name, d) \/ Waits(one, name, d)
               \/ Waits(two, name, d)
               \/ (LastClose(c, TRUE, out) /\ name = "close" /\ d = c)
    <3> HIDE DEF one, two, out
    <3>1. \/ Waits(tasks \o one \o two, name, d)
          \/ (LastClose(c, TRUE, out) /\ name = "close" /\ d = c)
      BY <2>1, <2>3, <2>4, WaitsAfterMaybeClose, Zenon
    <3>2. CASE Waits(tasks \o one \o two, name, d)
      <4>1. Waits(tasks \o one, name, d) \/ Waits(two, name, d)
        BY <2>2, <2>3, <3>2, WaitsInConcat, Zenon
      <4> QED BY <2>2, <4>1, WaitsInConcat, Zenon
    <3> QED BY <3>1, <3>2
  <2> QED BY <2>4, WaitsInClosing, WaitsInExitTasks DEF Added, LastClose
<1>7. CASE tasks # <<>> /\ tasks' = Tail(tasks)
  BY <1>7, WaitsInTail DEF Added
<1>8. CASE StreamClose(c)
  <2>1. tasks # <<>> /\ Tail(tasks) \in Seq(AnyTask)
    BY <1>8 DEF StreamClose, NextTask
  <2>2. PICK over \in BOOLEAN : MaybeClose(c, over, "closed", Tail(tasks))
    <3> DEFINE over == exited[c] \/ proc[c] = "missing"
    <3>1. over \in BOOLEAN
      BY DEF TypeOK
    <3>2. MaybeClose(c, over, "closed", Tail(tasks))
      BY <1>8, Zenon DEF StreamClose
    <3> QED BY <3>1, <3>2
  <2>3. stdout'[c] = "closed"
    BY <1>8 DEF StreamClose, TypeOK
  <2> QED BY <2>1, <2>2, <2>3, WaitsAfterMaybeClose, WaitsInTail DEF Added
<1>9. CASE SpawnError(c)
  <2> DEFINE out == stdout'[c]
             two == Closing(c, out)
             queue == Tail(tasks) \o two
  <2>1. MaybeClose(c, TRUE, out, queue)
    BY <1>9 DEF SpawnError, TypeOK
  <2>2. /\ tasks # <<>>
        /\ two \in Seq(AnyTask) /\ Tail(tasks) \in Seq(AnyTask)
    BY <1>9, ClosingType DEF SpawnError, NextTask
  <2>3. queue \in Seq(AnyTask)
    BY <2>2
  <2>4. ASSUME NEW d \in Children, NEW name \in AllNames, Waits(queue, name, d)
        PROVE  Waits(tasks, name, d) \/ Waits(two, name, d)
    <3> HIDE DEF two
    <3>1. Waits(Tail(tasks), name, d) \/ Waits(two, name, d)
      BY <2>2, <2>4, WaitsInConcat
    <3> QED BY <2>2, <3>1, WaitsInTail, Zenon
  <2>5. ASSUME NEW d \in Children, NEW name \in AllNames, Waits(tasks', name, d)
        PROVE  \/ Waits(tasks, name, d) \/ Waits(two, name, d)
               \/ (LastClose(c, TRUE, out) /\ name = "close" /\ d = c)
    <3> HIDE DEF two, out, queue
    <3>1. \/ Waits(queue, name, d)
          \/ (LastClose(c, TRUE, out) /\ name = "close" /\ d = c)
      BY <2>1, <2>3, <2>5, WaitsAfterMaybeClose, Zenon
    <3> QED BY <2>4, <3>1
  <2> QED BY <2>5, WaitsInClosing DEF Added, LastClose
<1>10. CASE Program(c)
  BY <1>1, <1>2, <1>3, <1>4, <1>10
     DEF Program, Spawning, Calling, Spawn, Write, EndStdin, DestroyStdin,
         Disconnect, ToggleRef, Kill, Exit, turn
<1>11. CASE Environment(c)
  BY <1>1, <1>11 DEF Environment, Output, ReadStdin, Exit, LetGo, turn
<1>12. CASE Tick(c)
  BY <1>1, <1>2, <1>3, <1>5, <1>6, <1>12
     DEF Tick, TickChannel, TickWrite, TickAlive, TickSettle, Settle
<1>13. CASE Microtask(c)
  BY <1>7, <1>8, <1>9, <1>13 DEF Microtask, Emit, FinishStdin, NextTask
<1> QED BY <1>10, <1>11, <1>12, <1>13

------------------------------------------------------------------------------
(* The inductive invariant of output and scheduler.                        *)

\* A child that was not spawned has left no trace.
Newborn(c) ==
  proc[c] = "unborn" =>
    /\ event[c].disconnect = "no" /\ event[c].exit = "no" /\ event[c].close = "no"
    /\ stdin[c] = "none" /\ ~writer[c]
    /\ stdout[c] = "none" /\ ~outOpen[c] /\ printed[c] = 0
    /\ \A name \in AllNames : ~Waits(tasks, name, c)

\* Only children that were spawned have pipes, and _onExit runs once.
Living(c) ==
  /\ proc[c] \in {"unborn", "missing"} => reader[c] = "none" /\ channel[c] = "none"
  /\ exited[c] <=> proc[c] = "reaped"
  /\ Waits(tasks, "spawnError", c) => proc[c] = "missing"

\* stdout ends after its reader, and 'close' comes after stdout.
Reading(c) ==
  /\ reader[c] \in {"open", "done"} => pushed[c] + unread[c] = printed[c]
  /\ reader[c] = "done" => unread[c] = 0 /\ ~outOpen[c]
  /\ stdout[c] = "none" => reader[c] = "none"
  /\ stdout[c] \notin {"none", "open"} => reader[c] # "open"
  /\ Waits(tasks, "streamClose", c) => stdout[c] \in {"closing", "closed"}
  /\ Waits(tasks, "close", c) => stdout[c] \in {"none", "closed"}
  /\ event[c].close # "no" => stdout[c] \in {"none", "closed"}

\* The scheduler keeps whoever has something to report.
Serving(c) ==
  /\ proc[c] \in {"running", "ended"} => c \in active
  /\ reader[c] = "open" \/ channel[c] = "open" => c \in active
  /\ exited[c] => channel[c] # "open"

Local(c) == Newborn(c) /\ Living(c) /\ Reading(c) /\ Serving(c)
Good == \A c \in Children : Local(c)

\* The invariant holds when the program starts.
LEMMA GoodAtFirst == Init => Good
<1> SUFFICES ASSUME Init, NEW c \in Children
             PROVE  Newborn(c) /\ Living(c) /\ Reading(c) /\ Serving(c)
  BY DEF Good, Local
<1>1. ASSUME NEW name PROVE ~Waits(tasks, name, c)
  BY WaitsInOne DEF Init
<1>2. Newborn(c)
  BY <1>1 DEF Init, Newborn, Names
<1>3. Living(c) /\ Serving(c)
  BY <1>1 DEF Init, Living, Serving
<1>4. Reading(c)
  BY <1>1 DEF Init, Reading, Names
<1> QED BY <1>2, <1>3, <1>4

\* A spawn gives an index only to pipes that were asked for.
LEMMA AllocatedAsked ==
  ASSUME TypeOK, NEW c \in Children, Allocated(c).id["out"] >= 0
  PROVE  "out" \in Pipes[c]
<1> DEFINE none == [table |-> table, id |-> [k \in Kinds |-> -1]]
           one == Alloc(none, c, "in")
           two == Alloc(one, c, "out")
<1>1. none \in Grants /\ none.id["out"] = -1
  BY DEF TypeOK, Grants, Kinds
<1>2. one \in Grants /\ one.id["out"] = none.id["out"]
  <2> HIDE DEF none
  <2>1. one \in Grants
    BY <1>1, AllocType DEF Kinds
  <2> QED BY <1>1, <2>1 DEF Alloc, Grants, Kinds
<1>3. two \in Grants /\ ("out" \in Pipes[c] \/ two = one)
  <2> HIDE DEF one
  <2>1. two \in Grants
    BY <1>2, AllocType DEF Kinds
  <2> QED BY <2>1 DEF Alloc
<1>4. Allocated(c).id["out"] = two.id["out"]
  <2> HIDE DEF two
  <2>1. Allocated(c) = Alloc(two, c, "ipc")
    BY DEF Allocated, two
  <2> QED BY <1>3, <2>1 DEF Alloc, Grants, Kinds
<1> HIDE DEF none, one, two
<1> QED BY <1>1, <1>2, <1>3, <1>4

------------------------------------------------------------------------------
(* A step of one child leaves the others alone.                            *)

SameAt(d) ==
  /\ proc'[d] = proc[d] /\ exited'[d] = exited[d] /\ channel'[d] = channel[d]
  /\ event'[d] = event[d] /\ (d \in active' <=> d \in active)
  /\ stdin'[d] = stdin[d] /\ writer'[d] = writer[d]
  /\ stdout'[d] = stdout[d] /\ reader'[d] = reader[d] /\ outOpen'[d] = outOpen[d]
  /\ printed'[d] = printed[d] /\ pushed'[d] = pushed[d] /\ unread'[d] = unread[d]

\* What is left alone, with no task more, keeps its invariant.
LEMMA Undisturbed ==
  ASSUME NEW d, Local(d), SameAt(d),
         \A name \in AllNames : Waits(tasks', name, d) => Waits(tasks, name, d)
  PROVE  Local(d)'
  BY DEF Local, Newborn, Living, Reading, Serving, SameAt, AllNames, Names

\* No step of a child changes the state of another.
LEMMA OthersSame ==
  ASSUME TypeOK, NEW c \in Children, NEW d \in Children, d # c,
         Program(c) \/ Environment(c) \/ Tick(c) \/ Microtask(c)
  PROVE  SameAt(d)
<1>1. CASE Environment(c) \/ Kill(c) \/ ToggleRef(c)
  BY <1>1 DEF TypeOK, SameAt, Environment, Kill, ToggleRef, Output, ReadStdin,
     Exit, LetGo, host, ends, life, turn
<1>2. CASE Spawn(c) \/ SpawnFails(c)
  BY <1>2 DEF TypeOK, SameAt, Spawn, SpawnFails, life, turn
<1>3. CASE Write(c) \/ EndStdin(c) \/ DestroyStdin(c) \/ TickWrite(c) \/ FinishStdin(c)
  <2>1. UNCHANGED <<proc, outOpen, printed, unread, stdout, reader, pushed, channel,
                    exited, event, active>>
    BY <1>3 DEF Write, EndStdin, DestroyStdin, TickWrite, FinishStdin, life, turn
  <2>2. /\ stdin' = stdin \/ \E v : stdin' = [stdin EXCEPT ![c] = v]
        /\ writer' = writer \/ \E v : writer' = [writer EXCEPT ![c] = v]
    <3>1. CASE Write(c) \/ DestroyStdin(c) \/ FinishStdin(c)
      <4>1. \/ UNCHANGED <<stdin, writer>> \/ DestroyIn(c)
            \/ UNCHANGED stdin /\ writer' = [writer EXCEPT ![c] = TRUE]
        BY <3>1 DEF Write, DestroyStdin, FinishStdin
      <4>2. CASE UNCHANGED <<stdin, writer>>
        BY <4>2
      <4>3. CASE DestroyIn(c)
        BY <4>3 DEF DestroyIn
      <4> QED BY <4>1, <4>2, <4>3
    <3>2. CASE EndStdin(c)
      BY <3>2 DEF EndStdin, Final
    <3>3. CASE TickWrite(c)
      BY <3>3 DEF TickWrite, DestroyIn, Final
    <3> QED BY <1>3, <3>1, <3>2, <3>3
  <2>3. stdin'[d] = stdin[d] /\ writer'[d] = writer[d]
    BY <2>2 DEF TypeOK
  <2> QED BY <2>1, <2>3 DEF SameAt
<1>4. CASE DestroyStdout(c) \/ Consume(c) \/ TickDrain(c)
  BY <1>4 DEF TypeOK, SameAt, DestroyStdout, Consume, TickDrain, Drain, host, life
<1>5. CASE Disconnect(c) \/ TickChannel(c)
  <2>1. UNCHANGED <<proc, outOpen, printed, unread, stdin, writer, stdout, reader,
                    pushed, exited, active>>
    BY <1>5 DEF Disconnect, TickChannel
  <2>2. UNCHANGED <<channel, event>> \/ CloseChannel(c)
    BY <1>5 DEF Disconnect, TickChannel
  <2>3. channel'[d] = channel[d] /\ event'[d] = event[d]
    <3>1. CASE UNCHANGED <<channel, event>>
      BY <3>1
    <3>2. CASE CloseChannel(c)
      <4>1. /\ channel' = [channel EXCEPT ![c] = "closed"]
            /\ event' = [event EXCEPT ![c].disconnect = "queued"]
        BY <3>2 DEF CloseChannel
      <4> QED BY <4>1 DEF TypeOK
    <3> QED BY <2>2, <3>1, <3>2
  <2> QED BY <2>1, <2>3 DEF SameAt
<1>6. CASE Settle(c)
  BY <1>6 DEF TypeOK, SameAt, Settle, host, ends
<1>7. CASE OnExit(c)
  <2>1. UNCHANGED <<outOpen, printed, stdin, writer>>
    BY <1>7 DEF OnExit
  <2>2. proc'[d] = proc[d] /\ exited'[d] = exited[d] /\ channel'[d] = channel[d]
        /\ stdout'[d] = stdout[d]
    BY <1>7 DEF TypeOK, OnExit
  <2>3. event'[d] = event[d]
    <3>1. PICK x, y, z : event' = [event EXCEPT ![c].disconnect = x,
                                                ![c].exit = y, ![c].close = z]
      BY <1>7, Zenon DEF OnExit
    <3> QED BY <3>1 DEF TypeOK
  <2>4. UNCHANGED <<pushed, unread, reader>> \/ \E over : Drain(c, over)
    BY <1>7, Zenon DEF OnExit
  <2>5. reader'[d] = reader[d] /\ pushed'[d] = pushed[d] /\ unread'[d] = unread[d]
    BY <2>4 DEF TypeOK, Drain
  <2>6. d \in active' <=> d \in active
    BY <1>7 DEF OnExit, MaybeClose
  <2> QED BY <2>1, <2>2, <2>3, <2>5, <2>6 DEF SameAt
<1>8. CASE StreamClose(c) \/ SpawnError(c)
  <2>1. UNCHANGED <<proc, outOpen, printed, unread, stdin, writer, reader, pushed,
                    channel, exited>>
    BY <1>8 DEF StreamClose, SpawnError, host
  <2>2. stdout'[d] = stdout[d]
    <3>1. \E out : stdout' = [stdout EXCEPT ![c] = out]
      BY <1>8 DEF StreamClose, SpawnError
    <3> QED BY <3>1 DEF TypeOK
  <2>3. event'[d] = event[d]
    <3>1. PICK f : event' = [event EXCEPT ![c].close = f]
      BY <1>8, Zenon DEF StreamClose, SpawnError
    <3> QED BY <3>1 DEF TypeOK
  <2>4. d \in active' <=> d \in active
    BY <1>8 DEF StreamClose, SpawnError, MaybeClose
  <2> QED BY <2>1, <2>2, <2>3, <2>4 DEF SameAt
<1>9. CASE \E name \in Names : Emit(name, c)
  BY <1>9 DEF TypeOK, SameAt, Emit, host, ends
<1> QED BY <1>1, <1>2, <1>3, <1>4, <1>5, <1>6, <1>7, <1>8, <1>9
    DEF Program, Spawning, Calling, Tick, TickAlive, TickSettle, Microtask

------------------------------------------------------------------------------
(* A step of a child, and the child.                                       *)

\* A step of a child that is not spawned adds no task.
NewTasks(c) ==
  /\ proc'[c] = "unborn" => UNCHANGED tasks
  /\ Waits(tasks', "streamClose", c) =>
       Waits(tasks, "streamClose", c) \/ stdout'[c] \in {"closing", "closed"}
  /\ Waits(tasks', "close", c) =>
       Waits(tasks, "close", c) \/ stdout'[c] \in {"none", "closed"}
  /\ Waits(tasks', "spawnError", c) =>
       Waits(tasks, "spawnError", c) \/ proc'[c] = "missing"

\* The task that is taken waited.
LEMMA HeadWaits ==
  ASSUME TypeOK, NEW c, NEW name, NextTask(name, c)
  PROVE  Waits(tasks, name, c)
<1>1. tasks \in Seq(AnyTask) /\ tasks # <<>> /\ Head(tasks) = Task(name, c)
  BY DEF TypeOK, NextTask
<1> QED BY <1>1, WaitsInTail

\* What a step adds to the queue, by the state of its child before the step.
LEMMA TasksOfStep ==
  ASSUME TypeOK, NEW c \in Children, Local(c),
         Program(c) \/ Environment(c) \/ Tick(c) \/ Microtask(c)
  PROVE  NewTasks(c)
<1>1. Added(c)
  BY AddedByStep
<1>2. /\ Waits(tasks', "streamClose", c) =>
           Waits(tasks, "streamClose", c) \/ stdout'[c] \in {"closing", "closed"}
      /\ Waits(tasks', "close", c) =>
           Waits(tasks, "close", c) \/ stdout'[c] \in {"none", "closed"}
      /\ Waits(tasks', "spawnError", c) =>
           Waits(tasks, "spawnError", c) \/ proc'[c] = "missing"
  BY <1>1 DEF Added, AllNames, Names
<1> SUFFICES ASSUME proc'[c] = "unborn" PROVE UNCHANGED tasks
  BY <1>2 DEF NewTasks
<1>3. CASE proc[c] # "unborn"
  <2>1. proc'[c] # "unborn"
    <3>1. CASE Program(c) \/ Environment(c)
      BY <1>3, <3>1 DEF TypeOK, Program, Environment, Spawning, Calling, Spawn,
         SpawnFails, Write, EndStdin, DestroyStdin, DestroyStdout, Consume,
         Disconnect, ToggleRef, Kill, Exit, Output, ReadStdin, LetGo, host
    <3>2. CASE Tick(c) \/ Microtask(c)
      <4>1. proc' = proc \/ proc' = [proc EXCEPT ![c] = "reaped"]
        BY <3>2, Zenon DEF Tick, Microtask, TickChannel, TickWrite, TickDrain,
           TickAlive, TickSettle, Settle, OnExit, Emit, FinishStdin, StreamClose,
           SpawnError, host
      <4> QED BY <1>3, <4>1 DEF TypeOK
    <3> QED BY <3>1, <3>2
  <2> QED BY <2>1
<1>4. CASE proc[c] = "unborn"
  <2>1. /\ stdin[c] = "none" /\ ~writer[c] /\ stdout[c] = "none"
        /\ channel[c] = "none" /\ reader[c] = "none"
        /\ \A name \in AllNames : ~Waits(tasks, name, c)
    BY <1>4 DEF Local, Newborn, Living
  <2>2. CASE Program(c) \/ Environment(c)
    BY <1>4, <2>1, <2>2 DEF TypeOK, Program, Environment, Spawning, Calling, Spawn,
       SpawnFails, Write, EndStdin, DestroyStdin, DestroyStdout, Consume,
       Disconnect, ToggleRef, Kill, Exit, Output, ReadStdin, LetGo, turn
  <2>3. CASE Tick(c)
    <3>1. CASE TickDrain(c)
      <4>1. tasks' = tasks \o <<>>
        BY <2>1, <3>1 DEF TypeOK, TickDrain, AfterEnd, Closing
      <4> QED BY <4>1 DEF TypeOK
    <3> QED BY <1>4, <2>1, <2>3, <3>1 DEF Tick, TickChannel, TickWrite, TickAlive,
        TickSettle, Settle, OnExit
  <2>4. CASE Microtask(c)
    <3>1. \E name \in AllNames : NextTask(name, c)
      BY <2>4 DEF Microtask, Emit, FinishStdin, StreamClose, SpawnError, AllNames
    <3> QED BY <2>1, <3>1, HeadWaits
  <2> QED BY <2>2, <2>3, <2>4
<1> QED BY <1>3, <1>4

\* A step that changes nothing of the child, the queue apart.
LEMMA KeptAlone ==
  ASSUME TypeOK, NEW c \in Children, Local(c), NewTasks(c),
         SameAt(c)
  PROVE  Local(c)'
<1>1. Newborn(c)'
  BY DEF SameAt, Local, NewTasks, Newborn, AllNames, Names
<1>2. Living(c)'
  BY DEF SameAt, Local, NewTasks, Living, Newborn
<1>3. Reading(c)'
  BY DEF SameAt, Local, NewTasks, Reading, Newborn
<1>4. Serving(c)'
  BY DEF SameAt, Local, NewTasks, Serving, Living
<1> QED BY <1>1, <1>2, <1>3, <1>4 DEF Local

\* stdin: a child that was not spawned has none.
LEMMA KeptByStdin ==
  ASSUME TypeOK, NEW c \in Children, Local(c), NewTasks(c),
         Write(c) \/ EndStdin(c) \/ DestroyStdin(c) \/ TickWrite(c) \/ FinishStdin(c)
  PROVE  Local(c)'
<1>1. /\ proc'[c] = proc[c] /\ exited'[c] = exited[c] /\ channel'[c] = channel[c]
      /\ event'[c] = event[c] /\ (c \in active' <=> c \in active)
      /\ stdout'[c] = stdout[c]
      /\ reader'[c] = reader[c] /\ outOpen'[c] = outOpen[c]
      /\ printed'[c] = printed[c]
      /\ pushed'[c] = pushed[c] /\ unread'[c] = unread[c]
  BY DEF Write, EndStdin, DestroyStdin, TickWrite, FinishStdin, life, turn
<1>2. proc[c] = "unborn" => stdin'[c] = "none" /\ ~writer'[c]
  <2>1. proc[c] = "unborn" => ~FinishStdin(c)
    BY HeadWaits DEF FinishStdin, Local, Newborn, AllNames
  <2> QED BY <2>1 DEF TypeOK, Local, Newborn, Write, EndStdin, DestroyStdin,
              TickWrite, DestroyIn, Final
<1>3. Newborn(c)'
  BY <1>1, <1>2 DEF Local, NewTasks, Newborn, Living, AllNames, Names
<1>4. Living(c)'
  BY <1>1, <1>2 DEF Local, NewTasks, Living, Newborn
<1>5. Reading(c)'
  BY <1>1, <1>2 DEF Local, NewTasks, Reading, Newborn, Living,
     AllNames, Names
<1>6. Serving(c)'
  BY <1>1, <1>2, <1>5 DEF Local, NewTasks, Serving, Living, Reading
<1> QED BY <1>3, <1>4, <1>5, <1>6 DEF Local

\* spawn(): a new child printed nothing and is served.
LEMMA KeptBySpawn ==
  ASSUME TypeOK, Counted, NEW c \in Children, Local(c), NewTasks(c),
         Spawn(c)
  PROVE  Local(c)'
<1>1. /\ stdout[c] \in Stdout /\ reader[c] \in {"none", "open", "done", "cut"}
      /\ printed[c] \in Nat /\ pushed[c] \in Nat /\ unread[c] \in Nat
      /\ outOpen[c] \in BOOLEAN
  BY BoundsAssumption DEF TypeOK, Stdout
<1>2. /\ exited'[c] = exited[c] /\ event'[c] = event[c] /\ writer'[c] = writer[c]
      /\ printed'[c] = printed[c] /\ pushed'[c] = pushed[c]
      /\ unread'[c] = unread[c]
  BY DEF Spawn, turn
<1>3. /\ proc[c] = "unborn" /\ proc'[c] = "running" /\ c \in active'
      /\ channel'[c] \in {"open", channel[c]}
      /\ \/ reader'[c] = "open" /\ stdout'[c] = "open"
         \/ reader'[c] = reader[c] /\ stdout'[c] \in {"open", stdout[c]}
  BY AllocatedAsked DEF TypeOK, Spawn
<1>4. pushed[c] + unread[c] = printed[c]
  BY <1>1, <1>3 DEF Counted, Local, Newborn
<1>5. Newborn(c)'
  BY <1>1, <1>2, <1>3 DEF Local, NewTasks, Newborn, Living, AllNames, Names
<1>6. Living(c)'
  BY <1>1, <1>2, <1>3 DEF Local, NewTasks, Living, Newborn
<1>7. Reading(c)'
  BY <1>1, <1>2, <1>3, <1>4 DEF Local, NewTasks, Reading, Newborn, Living,
     AllNames, Names
<1>8. Serving(c)'
  BY <1>1, <1>2, <1>3, <1>7 DEF Local, NewTasks, Serving, Living, Reading
<1> QED BY <1>5, <1>6, <1>7, <1>8 DEF Local

\* A failed spawn leaves a stdout without a reader.
LEMMA KeptBySpawnFails ==
  ASSUME TypeOK, NEW c \in Children, Local(c), NewTasks(c),
         SpawnFails(c)
  PROVE  Local(c)'
<1>1. /\ stdout[c] \in Stdout /\ reader[c] \in {"none", "open", "done", "cut"}
      /\ printed[c] \in Nat /\ pushed[c] \in Nat /\ unread[c] \in Nat
      /\ outOpen[c] \in BOOLEAN
  BY BoundsAssumption DEF TypeOK, Stdout
<1>2. /\ exited'[c] = exited[c] /\ channel'[c] = channel[c] /\ event'[c] = event[c]
      /\ (c \in active' <=> c \in active) /\ stdin'[c] = stdin[c]
      /\ writer'[c] = writer[c]
      /\ reader'[c] = reader[c] /\ outOpen'[c] = outOpen[c]
      /\ printed'[c] = printed[c]
      /\ pushed'[c] = pushed[c] /\ unread'[c] = unread[c]
  BY DEF SpawnFails, life
<1>3. /\ proc[c] = "unborn" /\ proc'[c] = "missing"
      /\ stdout'[c] \in {"open", stdout[c]}
  BY DEF TypeOK, SpawnFails
<1>4. Newborn(c)'
  BY <1>1, <1>2, <1>3 DEF Local, NewTasks, Newborn, Living, AllNames, Names
<1>5. Living(c)'
  BY <1>1, <1>2, <1>3 DEF Local, NewTasks, Living, Newborn
<1>6. Reading(c)'
  BY <1>1, <1>2, <1>3 DEF Local, NewTasks, Reading, Newborn, Living,
     AllNames, Names
<1>7. Serving(c)'
  BY <1>1, <1>2, <1>3, <1>6 DEF Local, NewTasks, Serving, Living, Reading
<1> QED BY <1>4, <1>5, <1>6, <1>7 DEF Local

\* stdout.destroy() cuts the reader.
LEMMA KeptByDestroyStdout ==
  ASSUME TypeOK, NEW c \in Children, Local(c), NewTasks(c),
         DestroyStdout(c)
  PROVE  Local(c)'
<1>1. /\ stdout[c] \in Stdout /\ reader[c] \in {"none", "open", "done", "cut"}
      /\ printed[c] \in Nat /\ pushed[c] \in Nat /\ unread[c] \in Nat
      /\ outOpen[c] \in BOOLEAN
  BY BoundsAssumption DEF TypeOK, Stdout
<1>2. /\ proc'[c] = proc[c] /\ exited'[c] = exited[c] /\ channel'[c] = channel[c]
      /\ event'[c] = event[c] /\ (c \in active' <=> c \in active)
      /\ stdin'[c] = stdin[c]
      /\ writer'[c] = writer[c] /\ outOpen'[c] = outOpen[c]
      /\ printed'[c] = printed[c]
      /\ pushed'[c] = pushed[c]
  BY DEF DestroyStdout, life
<1>3. /\ stdout[c] \in {"open", "ended"} /\ stdout'[c] = "closing" /\ unread'[c] = 0
      /\ reader'[c] = IF reader[c] = "open" THEN "cut" ELSE reader[c]
  BY DEF TypeOK, DestroyStdout
<1>4. Newborn(c)'
  BY <1>1, <1>2, <1>3 DEF Local, NewTasks, Newborn, Living, AllNames, Names
<1>5. Living(c)'
  BY <1>1, <1>2, <1>3 DEF Local, NewTasks, Living, Newborn
<1>6. Reading(c)'
  BY <1>1, <1>2, <1>3 DEF Local, NewTasks, Reading, Newborn, Living,
     AllNames, Names
<1>7. Serving(c)'
  BY <1>1, <1>2, <1>3, <1>6 DEF Local, NewTasks, Serving, Living, Reading
<1> QED BY <1>4, <1>5, <1>6, <1>7 DEF Local

\* A consumer of an ended stdout lets it close.
LEMMA KeptByConsume ==
  ASSUME TypeOK, NEW c \in Children, Local(c), NewTasks(c),
         Consume(c)
  PROVE  Local(c)'
<1>1. /\ stdout[c] \in Stdout /\ reader[c] \in {"none", "open", "done", "cut"}
      /\ printed[c] \in Nat /\ pushed[c] \in Nat /\ unread[c] \in Nat
      /\ outOpen[c] \in BOOLEAN
  BY BoundsAssumption DEF TypeOK, Stdout
<1>2. /\ proc'[c] = proc[c] /\ exited'[c] = exited[c] /\ channel'[c] = channel[c]
      /\ event'[c] = event[c] /\ (c \in active' <=> c \in active)
      /\ stdin'[c] = stdin[c]
      /\ writer'[c] = writer[c] /\ reader'[c] = reader[c]
      /\ outOpen'[c] = outOpen[c]
      /\ printed'[c] = printed[c] /\ pushed'[c] = pushed[c]
      /\ unread'[c] = unread[c]
  BY DEF Consume, host, life
<1>3. /\ stdout[c] \in {"open", "ended"}
      /\ stdout'[c] = IF stdout[c] = "ended" THEN "closing" ELSE stdout[c]
  BY DEF TypeOK, Consume
<1>4. Newborn(c)'
  BY <1>1, <1>2, <1>3 DEF Local, NewTasks, Newborn, Living, AllNames, Names
<1>5. Living(c)'
  BY <1>1, <1>2, <1>3 DEF Local, NewTasks, Living, Newborn
<1>6. Reading(c)'
  BY <1>1, <1>2, <1>3 DEF Local, NewTasks, Reading, Newborn, Living,
     AllNames, Names
<1>7. Serving(c)'
  BY <1>1, <1>2, <1>3, <1>6 DEF Local, NewTasks, Serving, Living, Reading
<1> QED BY <1>4, <1>5, <1>6, <1>7 DEF Local

\* The end of the channel.
LEMMA KeptByChannel ==
  ASSUME TypeOK, NEW c \in Children, Local(c), NewTasks(c),
         Disconnect(c) \/ TickChannel(c)
  PROVE  Local(c)'
<1>1. /\ proc'[c] = proc[c] /\ exited'[c] = exited[c]
      /\ (c \in active' <=> c \in active)
      /\ stdin'[c] = stdin[c] /\ writer'[c] = writer[c] /\ stdout'[c] = stdout[c]
      /\ reader'[c] = reader[c] /\ outOpen'[c] = outOpen[c]
      /\ printed'[c] = printed[c]
      /\ pushed'[c] = pushed[c] /\ unread'[c] = unread[c]
  BY DEF Disconnect, TickChannel
<1>2. \/ UNCHANGED <<channel, event>>
      \/ /\ channel[c] = "open" /\ channel'[c] = "closed"
         /\ event'[c].exit = event[c].exit /\ event'[c].close = event[c].close
  <2>1. UNCHANGED <<channel, event>> \/ (channel[c] = "open" /\ CloseChannel(c))
    BY DEF Disconnect, TickChannel
  <2>2. ASSUME CloseChannel(c)
        PROVE  /\ channel'[c] = "closed"
               /\ event'[c].exit = event[c].exit /\ event'[c].close = event[c].close
    BY <2>2 DEF TypeOK, CloseChannel, Names
  <2> QED BY <2>1, <2>2
<1>3. Newborn(c)'
  BY <1>1, <1>2 DEF Local, NewTasks, Newborn, Living, AllNames, Names
<1>4. Living(c)'
  BY <1>1, <1>2 DEF Local, NewTasks, Living, Newborn
<1>5. Reading(c)'
  BY <1>1, <1>2 DEF Local, NewTasks, Reading, Newborn, Living,
     AllNames, Names
<1>6. Serving(c)'
  BY <1>1, <1>2, <1>5 DEF Local, NewTasks, Serving, Living, Reading
<1> QED BY <1>3, <1>4, <1>5, <1>6 DEF Local

\* A chunk more is printed, and is in the pipe.
LEMMA KeptByOutput ==
  ASSUME TypeOK, NEW c \in Children, Local(c), NewTasks(c),
         Output(c)
  PROVE  Local(c)'
<1>1. /\ stdout[c] \in Stdout /\ reader[c] \in {"none", "open", "done", "cut"}
      /\ printed[c] \in Nat /\ pushed[c] \in Nat /\ unread[c] \in Nat
      /\ outOpen[c] \in BOOLEAN
  BY BoundsAssumption DEF TypeOK, Stdout
<1>2. /\ proc'[c] = proc[c] /\ exited'[c] = exited[c] /\ channel'[c] = channel[c]
      /\ event'[c] = event[c] /\ (c \in active' <=> c \in active)
      /\ stdin'[c] = stdin[c]
      /\ writer'[c] = writer[c] /\ stdout'[c] = stdout[c] /\ reader'[c] = reader[c]
      /\ outOpen'[c] = outOpen[c] /\ pushed'[c] = pushed[c]
  BY DEF Output, ends, life, turn
<1>3. outOpen[c] /\ printed'[c] = printed[c] + 1 /\ unread'[c] = unread[c] + 1
  BY DEF TypeOK, Output
<1>4. Newborn(c)'
  BY <1>1, <1>2, <1>3 DEF Local, NewTasks, Newborn, Living, AllNames, Names
<1>5. Living(c)'
  BY <1>1, <1>2, <1>3 DEF Local, NewTasks, Living, Newborn
<1>6. Reading(c)'
  BY <1>1, <1>2, <1>3 DEF Local, NewTasks, Reading, Newborn, Living,
     AllNames, Names
<1>7. Serving(c)'
  BY <1>1, <1>2, <1>3, <1>6 DEF Local, NewTasks, Serving, Living, Reading
<1> QED BY <1>4, <1>5, <1>6, <1>7 DEF Local

\* A child ends, or lets go of its stdout.
LEMMA KeptByExit ==
  ASSUME TypeOK, NEW c \in Children, Local(c), NewTasks(c),
         Exit(c) \/ LetGo(c)
  PROVE  Local(c)'
<1>1. /\ exited'[c] = exited[c] /\ channel'[c] = channel[c] /\ event'[c] = event[c]
      /\ (c \in active' <=> c \in active) /\ stdin'[c] = stdin[c]
      /\ writer'[c] = writer[c]
      /\ stdout'[c] = stdout[c] /\ reader'[c] = reader[c]
      /\ printed'[c] = printed[c]
      /\ pushed'[c] = pushed[c] /\ unread'[c] = unread[c]
  BY DEF Exit, LetGo, ends, life, turn
<1>2. /\ outOpen'[c] => outOpen[c]
      /\ proc'[c] = proc[c] \/ (proc[c] = "running" /\ proc'[c] = "ended")
  BY DEF TypeOK, Exit, LetGo
<1>3. Newborn(c)'
  BY <1>1, <1>2 DEF Local, NewTasks, Newborn, Living, AllNames, Names
<1>4. Living(c)'
  BY <1>1, <1>2 DEF Local, NewTasks, Living, Newborn
<1>5. Reading(c)'
  BY <1>1, <1>2 DEF Local, NewTasks, Reading, Newborn, Living,
     AllNames, Names
<1>6. Serving(c)'
  BY <1>1, <1>2, <1>5 DEF Local, NewTasks, Serving, Living, Reading
<1> QED BY <1>3, <1>4, <1>5, <1>6 DEF Local

\* A tick reads everything, and the end when nobody can print.
LEMMA KeptByDrain ==
  ASSUME TypeOK, NEW c \in Children, Local(c), NewTasks(c),
         TickDrain(c)
  PROVE  Local(c)'
<1>1. /\ stdout[c] \in Stdout /\ reader[c] \in {"none", "open", "done", "cut"}
      /\ printed[c] \in Nat /\ pushed[c] \in Nat /\ unread[c] \in Nat
      /\ outOpen[c] \in BOOLEAN
  BY BoundsAssumption DEF TypeOK, Stdout
<1>2. /\ proc'[c] = proc[c] /\ exited'[c] = exited[c] /\ channel'[c] = channel[c]
      /\ event'[c] = event[c] /\ (c \in active' <=> c \in active)
      /\ stdin'[c] = stdin[c]
      /\ writer'[c] = writer[c] /\ outOpen'[c] = outOpen[c]
      /\ printed'[c] = printed[c]
  BY DEF TickDrain, life
<1>3. PICK over \in BOOLEAN :
        /\ over => reader[c] = "open" /\ ~outOpen[c]
        /\ stdout'[c] = AfterEnd(stdout[c], over, flowing[c])
        /\ \/ Drain(c, over)
           \/ ~over /\ UNCHANGED <<pushed, unread, reader>>
  BY DEF TypeOK, TickDrain
<1>4. /\ reader'[c] = IF over THEN "done" ELSE reader[c]
      /\ \/ pushed'[c] = pushed[c] + unread[c] /\ unread'[c] = 0
         \/ ~over /\ pushed'[c] = pushed[c] /\ unread'[c] = unread[c]
  BY <1>3 DEF TypeOK, Drain
<1>5. \/ stdout'[c] = stdout[c] /\ (over => stdout[c] # "open")
      \/ stdout[c] = "open" /\ over /\ stdout'[c] \in {"closing", "ended"}
      \/ stdout[c] = "ended" /\ stdout'[c] \in {"closing", "ended"}
  BY <1>3 DEF AfterEnd
<1>6. Newborn(c)'
  BY <1>1, <1>2, <1>3, <1>4, <1>5
     DEF Local, NewTasks, Newborn, Living, AllNames, Names
<1>7. Living(c)'
  BY <1>1, <1>2, <1>3, <1>4, <1>5 DEF Local, NewTasks, Living, Newborn
<1>8. Reading(c)'
  BY <1>1, <1>2, <1>3, <1>4, <1>5 DEF Local, NewTasks, Reading, Newborn, Living,
     AllNames, Names
<1>9. Serving(c)'
  BY <1>1, <1>2, <1>3, <1>4, <1>5, <1>8
     DEF Local, NewTasks, Serving, Living, Reading
<1> QED BY <1>6, <1>7, <1>8, <1>9 DEF Local

\* Only a child with nothing to report leaves the scheduler.
LEMMA KeptBySettle ==
  ASSUME TypeOK, NEW c \in Children, Local(c), NewTasks(c),
         Settle(c)
  PROVE  Local(c)'
<1>1. /\ proc'[c] = proc[c] /\ exited'[c] = exited[c] /\ channel'[c] = channel[c]
      /\ event'[c] = event[c] /\ stdin'[c] = stdin[c] /\ writer'[c] = writer[c]
      /\ stdout'[c] = stdout[c] /\ reader'[c] = reader[c]
      /\ outOpen'[c] = outOpen[c]
      /\ printed'[c] = printed[c] /\ pushed'[c] = pushed[c]
      /\ unread'[c] = unread[c]
  BY DEF Settle, host, ends
<1>2. c \in active /\ c \notin active' =>
        exited[c] /\ reader[c] # "open" /\ channel[c] # "open"
  BY DEF TypeOK, Settle
<1>3. Newborn(c)'
  BY <1>1, <1>2 DEF Local, NewTasks, Newborn, Living, AllNames, Names
<1>4. Living(c)'
  BY <1>1, <1>2 DEF Local, NewTasks, Living, Newborn
<1>5. Reading(c)'
  BY <1>1, <1>2 DEF Local, NewTasks, Reading, Newborn, Living,
     AllNames, Names
<1>6. Serving(c)'
  BY <1>1, <1>2, <1>5 DEF Local, NewTasks, Serving, Living, Reading
<1> QED BY <1>3, <1>4, <1>5, <1>6 DEF Local

\* _onExit reads the rest; _maybeClose waits for stdout.
LEMMA KeptByOnExit ==
  ASSUME TypeOK, NEW c \in Children, Local(c), NewTasks(c),
         OnExit(c)
  PROVE  Local(c)'
<1>1. /\ stdout[c] \in Stdout /\ reader[c] \in {"none", "open", "done", "cut"}
      /\ printed[c] \in Nat /\ pushed[c] \in Nat /\ unread[c] \in Nat
      /\ outOpen[c] \in BOOLEAN
  BY BoundsAssumption DEF TypeOK, Stdout
<1>2. /\ stdin'[c] = stdin[c] /\ writer'[c] = writer[c] /\ outOpen'[c] = outOpen[c]
      /\ printed'[c] = printed[c]
  BY DEF OnExit
<1>3. proc[c] = "ended" /\ proc'[c] = "reaped" /\ exited'[c] /\ channel'[c] # "open"
  BY DEF TypeOK, OnExit
<1>4. PICK over \in BOOLEAN, flows \in BOOLEAN :
        /\ over => reader[c] = "open" /\ ~outOpen[c]
        /\ stdout'[c] = AfterEnd(stdout[c], over, flows)
        /\ \/ Drain(c, over)
           \/ ~over /\ UNCHANGED <<pushed, unread, reader>>
  BY DEF TypeOK, OnExit
<1>5. /\ reader'[c] = IF over THEN "done" ELSE reader[c]
      /\ \/ pushed'[c] = pushed[c] + unread[c] /\ unread'[c] = 0
         \/ ~over /\ pushed'[c] = pushed[c] /\ unread'[c] = unread[c]
  BY <1>4 DEF TypeOK, Drain
<1>6. \/ stdout'[c] = stdout[c] /\ (over => stdout[c] # "open")
      \/ stdout[c] = "open" /\ over /\ stdout'[c] \in {"closing", "ended"}
      \/ stdout[c] = "ended" /\ stdout'[c] \in {"closing", "ended"}
  BY <1>4 DEF AfterEnd
<1>7. /\ event'[c].close = event[c].close \/ stdout'[c] \in {"none", "closed"}
      /\ c \in active /\ c \notin active' => stdout'[c] \in {"none", "closed"}
  <2> DEFINE out == stdout'[c]
             last == LastClose(c, TRUE, out)
  <2>1. event'[c].close = IF last THEN "queued" ELSE event[c].close
    BY DEF TypeOK, OnExit, Names
  <2>2. active' = IF last THEN active \ {c} ELSE active
    BY DEF TypeOK, OnExit, MaybeClose
  <2>3. last => out \in {"none", "closed"}
    BY DEF LastClose
  <2> HIDE DEF out, last
  <2> QED BY <2>1, <2>2, <2>3 DEF out
<1>8. Newborn(c)'
  BY <1>1, <1>2, <1>3, <1>4, <1>5, <1>6, <1>7
     DEF Local, NewTasks, Newborn, Living, AllNames, Names
<1>9. Living(c)'
  BY <1>1, <1>2, <1>3, <1>4, <1>5, <1>6, <1>7 DEF Local, NewTasks, Living, Newborn
<1>10. Reading(c)'
  BY <1>1, <1>2, <1>3, <1>4, <1>5, <1>6, <1>7
     DEF Local, NewTasks, Reading, Newborn, Living,
     AllNames, Names
<1>11. Serving(c)'
  BY <1>1, <1>2, <1>3, <1>4, <1>5, <1>6, <1>7, <1>10
     DEF Local, NewTasks, Serving, Living, Reading
<1> QED BY <1>8, <1>9, <1>10, <1>11 DEF Local

\* Telling an event queues nothing.
LEMMA KeptByEmit ==
  ASSUME TypeOK, NEW c \in Children, Local(c), NewTasks(c),
         NEW name \in Names, Emit(name, c)
  PROVE  Local(c)'
<1>1. /\ proc'[c] = proc[c] /\ exited'[c] = exited[c] /\ channel'[c] = channel[c]
      /\ (c \in active' <=> c \in active) /\ stdin'[c] = stdin[c]
      /\ writer'[c] = writer[c]
      /\ stdout'[c] = stdout[c] /\ reader'[c] = reader[c]
      /\ outOpen'[c] = outOpen[c]
      /\ printed'[c] = printed[c] /\ pushed'[c] = pushed[c]
      /\ unread'[c] = unread[c]
  BY DEF Emit, host, ends
<1>2. Waits(tasks, name, c)
  BY HeadWaits DEF Emit
<1>3. name # "close" => event'[c].close = event[c].close
  BY DEF TypeOK, Emit, Names
<1>4. proc[c] # "unborn"
  BY <1>2 DEF Local, Newborn, AllNames
<1>5. Newborn(c)'
  BY <1>1, <1>2, <1>3, <1>4 DEF Local, NewTasks, Newborn, Living, AllNames, Names
<1>6. Living(c)'
  BY <1>1, <1>2, <1>3, <1>4 DEF Local, NewTasks, Living, Newborn
<1>7. Reading(c)'
  BY <1>1, <1>2, <1>3, <1>4 DEF Local, NewTasks, Reading, Newborn, Living,
     AllNames, Names
<1>8. Serving(c)'
  BY <1>1, <1>2, <1>3, <1>4, <1>7 DEF Local, NewTasks, Serving, Living, Reading
<1> QED BY <1>5, <1>6, <1>7, <1>8 DEF Local

\* 'close' of stdout comes after its end.
LEMMA KeptByStreamClose ==
  ASSUME TypeOK, NEW c \in Children, Local(c), NewTasks(c),
         StreamClose(c)
  PROVE  Local(c)'
<1>1. /\ stdout[c] \in Stdout /\ reader[c] \in {"none", "open", "done", "cut"}
      /\ printed[c] \in Nat /\ pushed[c] \in Nat /\ unread[c] \in Nat
      /\ outOpen[c] \in BOOLEAN
  BY BoundsAssumption DEF TypeOK, Stdout
<1>2. /\ proc'[c] = proc[c] /\ exited'[c] = exited[c] /\ channel'[c] = channel[c]
      /\ stdin'[c] = stdin[c] /\ writer'[c] = writer[c] /\ reader'[c] = reader[c]
      /\ outOpen'[c] = outOpen[c] /\ printed'[c] = printed[c]
      /\ pushed'[c] = pushed[c]
      /\ unread'[c] = unread[c]
  BY DEF StreamClose, host
<1>3. Waits(tasks, "streamClose", c)
  BY HeadWaits DEF StreamClose
<1>4. stdout'[c] = "closed"
  BY DEF TypeOK, StreamClose
<1>5. /\ event'[c].disconnect = event[c].disconnect
      /\ event'[c].exit = event[c].exit
      /\ event'[c].close # event[c].close \/ (c \in active /\ c \notin active') =>
           (exited[c] \/ proc[c] = "missing") /\ stdout'[c] \in {"none", "closed"}
  BY DEF TypeOK, StreamClose, MaybeClose, LastClose, Names
<1>6. proc[c] # "unborn"
  BY <1>3 DEF Local, Newborn, AllNames
<1>7. Newborn(c)'
  BY <1>1, <1>2, <1>3, <1>4, <1>5, <1>6
     DEF Local, NewTasks, Newborn, Living, AllNames, Names
<1>8. Living(c)'
  BY <1>1, <1>2, <1>3, <1>4, <1>5, <1>6 DEF Local, NewTasks, Living, Newborn
<1>9. Reading(c)'
  BY <1>1, <1>2, <1>3, <1>4, <1>5, <1>6
     DEF Local, NewTasks, Reading, Newborn, Living,
     AllNames, Names
<1>10. Serving(c)'
  BY <1>1, <1>2, <1>3, <1>4, <1>5, <1>6, <1>9
     DEF Local, NewTasks, Serving, Living, Reading
<1> QED BY <1>7, <1>8, <1>9, <1>10 DEF Local

\* A child that was never started had no reader.
LEMMA KeptBySpawnError ==
  ASSUME TypeOK, NEW c \in Children, Local(c), NewTasks(c),
         SpawnError(c)
  PROVE  Local(c)'
<1>1. /\ stdout[c] \in Stdout /\ reader[c] \in {"none", "open", "done", "cut"}
      /\ printed[c] \in Nat /\ pushed[c] \in Nat /\ unread[c] \in Nat
      /\ outOpen[c] \in BOOLEAN
  BY BoundsAssumption DEF TypeOK, Stdout
<1>2. /\ proc'[c] = proc[c] /\ exited'[c] = exited[c] /\ channel'[c] = channel[c]
      /\ stdin'[c] = stdin[c] /\ writer'[c] = writer[c] /\ reader'[c] = reader[c]
      /\ outOpen'[c] = outOpen[c] /\ printed'[c] = printed[c]
      /\ pushed'[c] = pushed[c]
      /\ unread'[c] = unread[c]
  BY DEF SpawnError, host
<1>3. Waits(tasks, "spawnError", c)
  BY HeadWaits DEF SpawnError
<1>4. stdout'[c] = IF stdout[c] = "open" THEN "closing" ELSE stdout[c]
  BY DEF TypeOK, SpawnError
<1>5. /\ event'[c].disconnect = event[c].disconnect
      /\ event'[c].exit = event[c].exit
      /\ event'[c].close # event[c].close \/ (c \in active /\ c \notin active') =>
           stdout'[c] \in {"none", "closed"}
  BY DEF TypeOK, SpawnError, MaybeClose, LastClose, Names
<1>6. proc[c] # "unborn"
  BY <1>3 DEF Local, Newborn, AllNames
<1>7. Newborn(c)'
  BY <1>1, <1>2, <1>3, <1>4, <1>5, <1>6
     DEF Local, NewTasks, Newborn, Living, AllNames, Names
<1>8. Living(c)'
  BY <1>1, <1>2, <1>3, <1>4, <1>5, <1>6 DEF Local, NewTasks, Living, Newborn
<1>9. Reading(c)'
  BY <1>1, <1>2, <1>3, <1>4, <1>5, <1>6
     DEF Local, NewTasks, Reading, Newborn, Living,
     AllNames, Names
<1>10. Serving(c)'
  BY <1>1, <1>2, <1>3, <1>4, <1>5, <1>6, <1>9
     DEF Local, NewTasks, Serving, Living, Reading
<1> QED BY <1>7, <1>8, <1>9, <1>10 DEF Local

------------------------------------------------------------------------------
(* Every step keeps the invariant.                                         *)

\* No step makes more chunks than were printed.
LEMMA CountedKept ==
  ASSUME TypeOK, Counted, [Next]_vars
  PROVE  Counted'
<1> SUFFICES ASSUME NEW d \in Children
             PROVE  pushed'[d] + unread'[d] <= printed'[d]
  BY DEF Counted
<1>1. printed[d] \in Nat /\ pushed[d] \in Nat /\ unread[d] \in Nat
      /\ pushed[d] + unread[d] <= printed[d]
  BY BoundsAssumption DEF TypeOK, Counted
<1>2. CASE UNCHANGED <<printed, pushed, unread>>
  BY <1>1, <1>2
<1>3. ASSUME NEW c \in Children, NEW over, Drain(c, over), UNCHANGED printed
      PROVE  pushed'[d] + unread'[d] <= printed'[d]
  BY <1>1, <1>3 DEF TypeOK, Drain
<1>4. ASSUME NEW c \in Children, Output(c)
      PROVE  pushed'[d] + unread'[d] <= printed'[d]
  BY <1>1, <1>4 DEF TypeOK, Output, ends
<1>5. ASSUME NEW c \in Children, DestroyStdout(c)
      PROVE  pushed'[d] + unread'[d] <= printed'[d]
  BY <1>1, <1>5 DEF TypeOK, DestroyStdout
<1>6. ASSUME NEW c \in Children, Program(c)
      PROVE  pushed'[d] + unread'[d] <= printed'[d]
  BY <1>2, <1>5, <1>6 DEF Program, Spawning, Calling, Spawn, SpawnFails, Write,
     EndStdin, DestroyStdin, Consume, Disconnect, ToggleRef, Kill, Exit, host, ends
<1>7. ASSUME NEW c \in Children, Environment(c)
      PROVE  pushed'[d] + unread'[d] <= printed'[d]
  BY <1>2, <1>4, <1>7 DEF Environment, ReadStdin, Exit, LetGo, ends
<1>8. ASSUME NEW c \in Children, Tick(c)
      PROVE  pushed'[d] + unread'[d] <= printed'[d]
  <2>1. CASE TickDrain(c) \/ OnExit(c)
    <3>1. UNCHANGED printed
          /\ (UNCHANGED <<pushed, unread>> \/ \E over \in BOOLEAN : Drain(c, over))
      BY <2>1 DEF TypeOK, TickDrain, OnExit
    <3> QED BY <1>2, <1>3, <3>1
  <2> QED BY <1>2, <1>8, <2>1 DEF Tick, TickChannel, TickWrite, TickAlive,
      TickSettle, Settle, host, ends
<1>9. ASSUME NEW c \in Children, Microtask(c)
      PROVE  pushed'[d] + unread'[d] <= printed'[d]
  BY <1>2, <1>9
     DEF Microtask, Emit, FinishStdin, StreamClose, SpawnError, host, ends
<1> QED BY <1>2, <1>6, <1>7, <1>8, <1>9 DEF Next, Loop, Run, RunDone, vars, host, ends

\* Every step keeps the invariant of every child.
LEMMA GoodKept ==
  ASSUME TypeOK, Counted, Good, [Next]_vars
  PROVE  Good'
<1> SUFFICES ASSUME NEW d \in Children PROVE Local(d)'
  BY DEF Good
<1>1. Local(d)
  BY DEF Good
<1>2. CASE Run \/ RunDone \/ UNCHANGED vars
  <2>1. SameAt(d) /\ UNCHANGED tasks
    BY <1>2 DEF SameAt, Run, RunDone, vars, host, ends, life, turn
  <2> QED BY <1>1, <2>1, Undisturbed
<1>3. ASSUME NEW c \in Children,
             Program(c) \/ Environment(c) \/ Tick(c) \/ Microtask(c)
      PROVE  Local(d)'
  <2>1. CASE c # d
    <3>1. SameAt(d)
      BY <1>3, <2>1, OthersSame
    <3>2. \A name \in AllNames : Waits(tasks', name, d) => Waits(tasks, name, d)
      BY <1>3, <2>1, AddedByStep DEF Added
    <3> QED BY <1>1, <3>1, <3>2, Undisturbed
  <2>2. CASE c = d
    <3>1. Local(c) /\ NewTasks(c)
      BY <1>1, <1>3, <2>2, TasksOfStep
    <3>2. CASE Program(c)
      <4>1. ASSUME ToggleRef(c) PROVE SameAt(c)
        BY <4>1 DEF SameAt, ToggleRef, host, ends
      <4> QED BY <2>2, <3>1, <3>2, <4>1, KeptAlone, KeptByStdin, KeptBySpawn,
              KeptBySpawnFails, KeptByDestroyStdout, KeptByConsume,
              KeptByChannel, KeptByExit
              DEF Program, Spawning, Calling, Kill
    <3>3. CASE Environment(c)
      <4>1. ASSUME ReadStdin(c) PROVE SameAt(c)
        BY <4>1 DEF SameAt, ReadStdin, ends, life
      <4> QED BY <2>2, <3>1, <3>3, <4>1, KeptAlone, KeptByOutput, KeptByExit
              DEF Environment
    <3>4. CASE Tick(c)
      BY <2>2, <3>1, <3>4, KeptByChannel, KeptByStdin, KeptByDrain, KeptBySettle,
         KeptByOnExit DEF Tick, TickAlive, TickSettle
    <3>5. CASE Microtask(c)
      BY <2>2, <3>1, <3>5, KeptByEmit, KeptByStdin, KeptByStreamClose,
         KeptBySpawnError DEF Microtask
    <3> QED BY <1>3, <3>2, <3>3, <3>4, <3>5
  <2> QED BY <2>1, <2>2
<1> QED BY <1>2, <1>3 DEF Next, Loop

------------------------------------------------------------------------------
(* The order of events.                                                    *)

\* A child's events wait in a queue p as they do in q.
Alike(q, p, c) ==
  /\ \A name \in Names : Waits(p, name, c) <=> Waits(q, name, c)
  /\ \A first \in Names, name \in Names :
       Behind(q, first, name, c) => Behind(p, first, name, c)

\* Two changes that leave the events alone.
LEMMA AlikeTwice ==
  ASSUME NEW q, NEW p, NEW r, NEW c, Alike(q, p, c), Alike(p, r, c)
  PROVE  Alike(q, r, c)
  BY Zenon DEF Alike

\* Adding tasks that are no events of the child.
LEMMA AlikeConcat ==
  ASSUME NEW q \in Seq(AnyTask), NEW r \in Seq(AnyTask), NEW c,
         \A name \in Names : ~Waits(r, name, c)
  PROVE  Alike(q, q \o r, c)
<1>1. ASSUME NEW name \in Names PROVE Waits(q \o r, name, c) <=> Waits(q, name, c)
  BY WaitsInConcat, Zenon
<1>2. ASSUME NEW first \in Names, NEW name \in Names, Behind(q, first, name, c)
      PROVE  Behind(q \o r, first, name, c)
  <2>1. Behind(r, first, name, c)
    BY BehindNothing, Zenon
  <2> QED BY <1>2, <2>1, BehindInConcat, Zenon
<1> QED BY <1>1, <1>2, Zenon DEF Alike

\* Taking a task that is no event of the child.
LEMMA AlikeTail ==
  ASSUME NEW q \in Seq(AnyTask), q # <<>>, NEW c,
         \A name \in Names : Head(q) # Task(name, c)
  PROVE  Alike(q, Tail(q), c)
<1>1. ASSUME NEW name \in Names PROVE Waits(Tail(q), name, c) <=> Waits(q, name, c)
  BY WaitsInTail, Zenon
<1>2. ASSUME NEW first \in Names, NEW name \in Names, Behind(q, first, name, c)
      PROVE  Behind(Tail(q), first, name, c)
  BY <1>2, BehindInTail, Zenon
<1> QED BY <1>1, <1>2, Zenon DEF Alike

\* One task more that is no event of the child.
LEMMA AlikeAppend ==
  ASSUME NEW q \in Seq(AnyTask), NEW m \in AllNames, NEW c \in Children, NEW d,
         m \notin Names \/ d # c
  PROVE  Alike(q, Append(q, Task(m, c)), d)
<1>1. Task(m, c) \in AnyTask
  BY TaskType DEF AllNames
<1>2. Append(q, Task(m, c)) = q \o <<Task(m, c)>>
  BY <1>1, AppendIsConcat
<1>3. <<Task(m, c)>> \in Seq(AnyTask)
  BY <1>1
<1>4. \A name \in Names : ~Waits(<<Task(m, c)>>, name, d)
  BY WaitsInOne
<1> QED BY <1>2, <1>3, <1>4, AlikeConcat

\* The task of a closing stream is no event.
LEMMA AlikeClosing ==
  ASSUME NEW q \in Seq(AnyTask), NEW c \in Children, NEW out, NEW d
  PROVE  Alike(q, q \o Closing(c, out), d)
<1>1. Closing(c, out) \in Seq(AnyTask)
  BY ClosingType
<1>2. \A name \in Names : ~Waits(Closing(c, out), name, d)
  BY WaitsInClosing DEF Names
<1> QED BY <1>1, <1>2, AlikeConcat

\* _maybeClose leaves the events of the others alone, and all of them while
\* 'close' is not due.
LEMMA AlikeMaybeClose ==
  ASSUME NEW c \in Children, NEW over, NEW out, NEW queue \in Seq(AnyTask),
         MaybeClose(c, over, out, queue), NEW d,
         d # c \/ ~LastClose(c, over, out)
  PROVE  Alike(queue, tasks', d)
<1> DEFINE last == LastClose(c, over, out)
           one == IF last THEN <<Task("close", c)>> ELSE <<>>
<1>1. one \in Seq(AnyTask)
  BY TaskType DEF Names
<1>2. \A name \in Names : ~Waits(one, name, d)
  BY WaitsInOne
<1>3. tasks' = queue \o one
  BY Zenon DEF MaybeClose
<1> HIDE DEF one
<1> QED BY <1>1, <1>2, <1>3, AlikeConcat

\* What a child adds to the queue are its own tasks.
LEMMA OthersAlike ==
  ASSUME TypeOK, NEW c \in Children, NEW d \in Children, d # c,
         Program(c) \/ Environment(c) \/ Tick(c) \/ Microtask(c)
  PROVE  Alike(tasks, tasks', d)
<1> tasks \in Seq(AnyTask)
  BY DEF TypeOK
<1>1. CASE UNCHANGED tasks
  BY <1>1 DEF Alike
<1>2. ASSUME NEW m \in AllNames, tasks' = Append(tasks, Task(m, c))
      PROVE  Alike(tasks, tasks', d)
  BY <1>2, AlikeAppend
<1>3. CASE CloseChannel(c)
  BY <1>2, <1>3 DEF CloseChannel, AllNames, Names
<1>4. CASE DestroyStdout(c) \/ Consume(c) \/ SpawnFails(c) \/ Final(c)
  BY <1>1, <1>2, <1>4 DEF DestroyStdout, Consume, SpawnFails, Final, AllNames
<1>5. CASE TickDrain(c)
  <2>1. PICK out : tasks' = tasks \o Closing(c, out)
    BY <1>5, Zenon DEF TickDrain
  <2> QED BY <2>1, AlikeClosing
<1>6. CASE OnExit(c)
  <2>1. PICK out, hangUp :
          MaybeClose(c, TRUE, out, tasks \o ExitTasks(c, hangUp) \o Closing(c, out))
    BY <1>6, Zenon DEF OnExit
  <2> DEFINE one == ExitTasks(c, hangUp)
             queue == tasks \o one
  <2>2. one \in Seq(AnyTask) /\ \A name \in Names : ~Waits(one, name, d)
    BY ExitTasksType, WaitsInExitTasks
  <2> HIDE DEF one
  <2>3. queue \in Seq(AnyTask) /\ Alike(tasks, queue, d)
    BY <2>2, AlikeConcat
  <2>4. MaybeClose(c, TRUE, out, queue \o Closing(c, out))
    BY <2>1 DEF one
  <2> HIDE DEF queue
  <2>5. queue \o Closing(c, out) \in Seq(AnyTask)
    BY <2>3, ClosingType
  <2>6. Alike(queue, queue \o Closing(c, out), d)
    BY <2>3, AlikeClosing
  <2>7. Alike(queue \o Closing(c, out), tasks', d)
    BY <2>4, <2>5, AlikeMaybeClose
  <2> QED BY <2>3, <2>6, <2>7, AlikeTwice, Zenon
<1>7. ASSUME NEW m, NextTask(m, c)
      PROVE  /\ Tail(tasks) \in Seq(AnyTask)
             /\ Alike(tasks, Tail(tasks), d)
  <2>1. tasks # <<>> /\ \A name \in Names : Head(tasks) # Task(name, d)
    BY <1>7 DEF NextTask, Task
  <2> QED BY <2>1, AlikeTail
<1>8. CASE StreamClose(c)
  <2>1. PICK over : MaybeClose(c, over, "closed", Tail(tasks))
    BY <1>8, Zenon DEF StreamClose
  <2>2. Tail(tasks) \in Seq(AnyTask) /\ Alike(tasks, Tail(tasks), d)
    BY <1>7, <1>8 DEF StreamClose
  <2>3. Alike(Tail(tasks), tasks', d)
    BY <2>1, <2>2, AlikeMaybeClose
  <2> QED BY <2>2, <2>3, AlikeTwice, Zenon
<1>9. CASE SpawnError(c)
  <2>1. PICK out : MaybeClose(c, TRUE, out, Tail(tasks) \o Closing(c, out))
    BY <1>9, Zenon DEF SpawnError
  <2>2. Tail(tasks) \in Seq(AnyTask) /\ Alike(tasks, Tail(tasks), d)
    BY <1>7, <1>9 DEF SpawnError
  <2>3. Tail(tasks) \o Closing(c, out) \in Seq(AnyTask)
    BY <2>2, ClosingType
  <2>4. Alike(Tail(tasks), Tail(tasks) \o Closing(c, out), d)
    BY <2>2, AlikeClosing
  <2>5. Alike(Tail(tasks) \o Closing(c, out), tasks', d)
    BY <2>1, <2>3, AlikeMaybeClose
  <2> QED BY <2>2, <2>4, <2>5, AlikeTwice, Zenon
<1>10. CASE Program(c)
  BY <1>1, <1>3, <1>4, <1>10
     DEF Program, Spawning, Calling, Spawn, Write, EndStdin, DestroyStdin,
         Disconnect, ToggleRef, Kill, Exit, turn
<1>11. CASE Environment(c)
  BY <1>1, <1>11 DEF Environment, Output, ReadStdin, Exit, LetGo, turn
<1>12. CASE Tick(c)
  BY <1>1, <1>3, <1>4, <1>5, <1>6, <1>12
     DEF Tick, TickChannel, TickWrite, TickAlive, TickSettle, Settle
<1>13. CASE Microtask(c)
  BY <1>7, <1>8, <1>9, <1>13 DEF Microtask, Emit, FinishStdin
<1> QED BY <1>10, <1>11, <1>12, <1>13
\* A child is told of the end of its channel, of its own end and of that of
\* its streams in this order, and what is queued is told.
Ordered(c) ==
  /\ event[c].disconnect = "no" <=> channel[c] # "closed"
  /\ event[c].exit = "no" <=> ~exited[c]
  /\ Waits(tasks, "disconnect", c) => channel[c] = "closed"
  /\ Waits(tasks, "exit", c) => exited[c]
  /\ event[c].disconnect = "queued" => Waits(tasks, "disconnect", c)
  /\ event[c].exit = "queued" => Waits(tasks, "exit", c)
  /\ event[c].disconnect = "done" \/ Behind(tasks, "disconnect", "exit", c)
  /\ \/ proc[c] = "missing" \/ event[c].exit = "done"
     \/ Behind(tasks, "exit", "close", c)
  /\ event[c].exit = "done" /\ channel[c] # "none" => event[c].disconnect = "done"
  /\ event[c].close = "done" /\ Spawned(c) => event[c].exit = "done"

\* Nothing has happened when the program starts.
LEMMA OrderAtFirst ==
  ASSUME Init, NEW c \in Children
  PROVE  Ordered(c)
<1>1. ASSUME NEW name PROVE ~Waits(tasks, name, c)
  BY WaitsInOne DEF Init
<1>2. ASSUME NEW first, NEW name PROVE Behind(tasks, first, name, c)
  BY <1>1, BehindNothing
<1> QED BY <1>1, <1>2 DEF Init, Ordered, Names

\* The child's own events, as a step leaves them alone.
Untold(c) ==
  /\ event'[c] = event[c] /\ channel'[c] = channel[c] /\ exited'[c] = exited[c]
  /\ proc'[c] = "missing" <=> proc[c] = "missing"
  /\ Spawned(c)' => Spawned(c)

\* A step that tells nothing keeps the order.
LEMMA OrderUndisturbed ==
  ASSUME NEW c, Ordered(c), Untold(c), Alike(tasks, tasks', c)
  PROVE  Ordered(c)'
<1>1. /\ Waits(tasks', "disconnect", c) <=> Waits(tasks, "disconnect", c)
      /\ Waits(tasks', "exit", c) <=> Waits(tasks, "exit", c)
      /\ Behind(tasks, "disconnect", "exit", c) =>
           Behind(tasks', "disconnect", "exit", c)
      /\ Behind(tasks, "exit", "close", c) => Behind(tasks', "exit", "close", c)
  BY DEF Alike, Names
<1> QED BY <1>1 DEF Ordered, Untold

\* A new child has no events.
LEMMA OrderBySpawn ==
  ASSUME TypeOK, NEW c \in Children, Local(c), Ordered(c), Spawn(c) \/ SpawnFails(c)
  PROVE  Ordered(c)'
<1>1. /\ proc[c] = "unborn" /\ event'[c] = event[c] /\ exited'[c] = exited[c]
      /\ channel'[c] \in {"open", channel[c]}
  BY DEF TypeOK, Spawn, SpawnFails, life
<1>2. /\ channel[c] = "none" /\ event[c].disconnect = "no" /\ event[c].exit = "no"
      /\ event[c].close = "no"
      /\ ~Waits(tasks, "disconnect", c) /\ ~Waits(tasks, "exit", c)
      /\ ~Waits(tasks, "close", c)
  BY <1>1 DEF Local, Newborn, Living, AllNames, Names
<1>3. Alike(tasks, tasks', c)
  <2>1. tasks' = tasks \/ tasks' = Append(tasks, Task("spawnError", c))
    BY DEF Spawn, SpawnFails, turn
  <2>2. CASE tasks' = tasks
    BY <2>2 DEF Alike
  <2>3. CASE tasks' = Append(tasks, Task("spawnError", c))
    BY <2>3, AlikeAppend DEF TypeOK, AllNames, Names
  <2> QED BY <2>1, <2>2, <2>3
<1>4. /\ ~Waits(tasks', "disconnect", c) /\ ~Waits(tasks', "exit", c)
      /\ ~Waits(tasks', "close", c)
  BY <1>2, <1>3 DEF Alike, Names
<1>5. /\ Behind(tasks', "disconnect", "exit", c)
      /\ Behind(tasks', "exit", "close", c)
  BY <1>4, BehindNothing
<1> QED BY <1>1, <1>2, <1>4, <1>5 DEF Ordered

\* The end of a channel is queued before any 'exit'.
LEMMA OrderByChannel ==
  ASSUME TypeOK, NEW c \in Children, Local(c), Ordered(c), UNCHANGED <<proc, exited>>,
         channel[c] = "open", CloseChannel(c)
  PROVE  Ordered(c)'
<1> DEFINE one == <<Task("disconnect", c)>>
<1>1. /\ channel'[c] = "closed" /\ event'[c].disconnect = "queued"
      /\ event'[c].exit = event[c].exit /\ event'[c].close = event[c].close
  BY DEF TypeOK, CloseChannel, Names
<1>2. one \in Seq(AnyTask)
  BY TaskType DEF Names
<1>3. tasks \in Seq(AnyTask) /\ tasks' = tasks \o one
  BY DEF TypeOK, CloseChannel
<1>4. \A name : Waits(one, name, c) <=> name = "disconnect"
  BY WaitsInOne
<1> HIDE DEF one
<1>5. \A name : Waits(tasks', name, c) <=> Waits(tasks, name, c) \/ name = "disconnect"
  BY <1>2, <1>3, <1>4, WaitsInConcat
<1>6. ~exited[c]
  BY DEF Local, Serving
<1>7. event[c].exit = "no" /\ ~Waits(tasks, "exit", c)
  BY <1>6 DEF Ordered
<1>8. Behind(tasks', "disconnect", "exit", c)
  BY <1>5, <1>7, BehindNothing
<1>9. Behind(tasks, "exit", "close", c) => Behind(tasks', "exit", "close", c)
  <2>1. Behind(one, "exit", "close", c)
    BY <1>4, BehindNothing
  <2> QED BY <1>2, <1>3, <2>1, BehindInConcat
<1> QED BY <1>1, <1>5, <1>6, <1>7, <1>8, <1>9 DEF Ordered, Spawned

\* What is told has everything before it told already.
LEMMA OrderByEmit ==
  ASSUME TypeOK, NEW c \in Children, Local(c), Ordered(c),
         NEW name \in Names, Emit(name, c)
  PROVE  Ordered(c)'
<1>1. /\ tasks \in Seq(AnyTask) /\ tasks # <<>> /\ Head(tasks) = Task(name, c)
      /\ tasks' = Tail(tasks)
      /\ UNCHANGED <<proc, exited, channel>>
  BY DEF TypeOK, Emit, NextTask, host, ends
<1>2. /\ event'[c][name] = "done"
      /\ \A e \in Names \ {name} : event'[c][e] = event[c][e]
  BY DEF TypeOK, Emit
<1>3. Waits(tasks, name, c)
  BY HeadWaits DEF Emit
<1>4. \A e : Waits(tasks, e, c) <=> e = name \/ Waits(tasks', e, c)
  BY <1>1, WaitsInTail DEF Task
<1>5. \A first, e : Behind(tasks, first, e, c) /\ first # name =>
                       Behind(tasks', first, e, c)
  <2> SUFFICES ASSUME NEW first, NEW e, Behind(tasks, first, e, c), first # name
               PROVE  Behind(Tail(tasks), first, e, c)
    BY <1>1
  <2>1. Head(tasks) # Task(first, c)
    BY <1>1 DEF Task
  <2> QED BY <1>1, <2>1, BehindInTail
<1>6. \A first : ~Behind(tasks, first, name, c)
  BY <1>1, FirstInQueue
<1>7. CASE name = "disconnect"
  <2>1. /\ event'[c].disconnect = "done" /\ event'[c].exit = event[c].exit
        /\ event'[c].close = event[c].close
    BY <1>2, <1>7 DEF Names
  <2> QED BY <1>1, <1>3, <1>4, <1>5, <1>7, <2>1 DEF Ordered, Spawned
<1>8. CASE name = "exit"
  <2>1. /\ event'[c].exit = "done" /\ event'[c].disconnect = event[c].disconnect
        /\ event'[c].close = event[c].close
    BY <1>2, <1>8 DEF Names
  <2>2. event[c].disconnect = "done"
    BY <1>6, <1>8 DEF Ordered
  <2> QED BY <1>1, <1>3, <1>4, <1>8, <2>1, <2>2 DEF Ordered, Spawned
<1>9. CASE name = "close"
  <2>1. /\ event'[c].close = "done" /\ event'[c].disconnect = event[c].disconnect
        /\ event'[c].exit = event[c].exit
    BY <1>2, <1>9 DEF Names
  <2>2. proc[c] = "missing" \/ event[c].exit = "done"
    BY <1>6, <1>9 DEF Ordered
  <2> QED BY <1>1, <1>3, <1>4, <1>5, <1>9, <2>1, <2>2 DEF Ordered, Spawned
<1> QED BY <1>7, <1>8, <1>9 DEF Names

\* _maybeClose with the queue before it, of a child that is over.
LEMMA OrderByMaybeClose ==
  ASSUME NEW c \in Children, NEW over, NEW out, NEW queue \in Seq(AnyTask),
         MaybeClose(c, over, out, queue)
  PROVE  /\ \A name : name # "close" =>
              (Waits(tasks', name, c) <=> Waits(queue, name, c))
         /\ Behind(queue, "disconnect", "exit", c) =>
              Behind(tasks', "disconnect", "exit", c)
         /\ Behind(queue, "exit", "close", c)
              /\ (LastClose(c, over, out) => Waits(queue, "exit", c)) =>
              Behind(tasks', "exit", "close", c)
<1> DEFINE last == LastClose(c, over, out)
           one == IF last THEN <<Task("close", c)>> ELSE <<>>
<1>1. one \in Seq(AnyTask)
  BY TaskType DEF Names
<1>2. \A name : Waits(one, name, c) => last /\ name = "close"
  BY WaitsInOne
<1>3. tasks' = queue \o one
  BY Zenon DEF MaybeClose
<1> HIDE DEF last, one
<1>4. \A name : name # "close" => (Waits(tasks', name, c) <=> Waits(queue, name, c))
  BY <1>1, <1>2, <1>3, WaitsInConcat
<1>5. Behind(queue, "disconnect", "exit", c) => Behind(tasks', "disconnect", "exit", c)
  <2>1. Behind(one, "disconnect", "exit", c)
    BY <1>2, BehindNothing
  <2> QED BY <1>1, <1>3, <2>1, BehindInConcat
<1>6. ASSUME Behind(queue, "exit", "close", c), last => Waits(queue, "exit", c)
      PROVE  Behind(tasks', "exit", "close", c)
  <2>1. ~last => Behind(one, "exit", "close", c)
    BY <1>2, BehindNothing
  <2> QED BY <1>1, <1>3, <1>6, <2>1, BehindInConcat
<1> QED BY <1>4, <1>5, <1>6 DEF last

\* 'close' of stdout queues the child's 'close' behind its 'exit'.
LEMMA OrderByStreamClose ==
  ASSUME TypeOK, NEW c \in Children, Local(c), Ordered(c), StreamClose(c)
  PROVE  Ordered(c)'
<1> DEFINE over == exited[c] \/ proc[c] = "missing"
           q == Tail(tasks)
<1>1. /\ tasks \in Seq(AnyTask) /\ tasks # <<>>
      /\ Head(tasks) = Task("streamClose", c)
      /\ UNCHANGED <<proc, exited, channel>>
  BY DEF TypeOK, StreamClose, NextTask, host
<1>2. MaybeClose(c, over, "closed", q)
  BY Zenon DEF StreamClose
<1>3. q \in Seq(AnyTask) /\ Alike(tasks, q, c)
  <2>1. \A name \in Names : Head(tasks) # Task(name, c)
    BY <1>1 DEF Task, Names
  <2> QED BY <1>1, <2>1, AlikeTail
<1>4. /\ event'[c].disconnect = event[c].disconnect
      /\ event'[c].exit = event[c].exit
      /\ event'[c].close \in {event[c].close, "queued"}
  BY DEF TypeOK, StreamClose, Names
<1> HIDE DEF q
<1>5. /\ Waits(q, "disconnect", c) <=> Waits(tasks, "disconnect", c)
      /\ Waits(q, "exit", c) <=> Waits(tasks, "exit", c)
      /\ Behind(tasks, "disconnect", "exit", c) => Behind(q, "disconnect", "exit", c)
      /\ Behind(tasks, "exit", "close", c) => Behind(q, "exit", "close", c)
  BY <1>3 DEF Alike, Names
<1>6. /\ Waits(tasks', "disconnect", c) <=> Waits(q, "disconnect", c)
      /\ Waits(tasks', "exit", c) <=> Waits(q, "exit", c)
      /\ Behind(q, "disconnect", "exit", c) => Behind(tasks', "disconnect", "exit", c)
  BY <1>2, <1>3, OrderByMaybeClose
<1>7. event[c].exit \in {"no", "queued", "done"}
  BY DEF TypeOK, Names
<1>8. LastClose(c, over, "closed") => over
  BY DEF LastClose
<1>9. ASSUME proc[c] # "missing", event[c].exit # "done"
      PROVE  Behind(tasks', "exit", "close", c)
  <2>1. LastClose(c, over, "closed") => Waits(q, "exit", c)
    BY <1>5, <1>7, <1>8, <1>9 DEF Ordered
  <2>2. Behind(q, "exit", "close", c)
    BY <1>5, <1>9 DEF Ordered
  <2> HIDE DEF over
  <2> QED BY <1>2, <1>3, <2>1, <2>2, OrderByMaybeClose
<1> QED BY <1>1, <1>4, <1>5, <1>6, <1>9 DEF Ordered, Spawned

\* A child that was never started has no 'exit'.
LEMMA OrderBySpawnError ==
  ASSUME TypeOK, NEW c \in Children, Local(c), Ordered(c), SpawnError(c)
  PROVE  Ordered(c)'
<1>1. /\ tasks \in Seq(AnyTask) /\ tasks # <<>>
      /\ Head(tasks) = Task("spawnError", c)
      /\ UNCHANGED <<proc, exited, channel>>
  BY DEF TypeOK, SpawnError, NextTask, host
<1>2. PICK out : MaybeClose(c, TRUE, out, Tail(tasks) \o Closing(c, out))
  BY Zenon DEF SpawnError
<1> DEFINE p == Tail(tasks)
           q == p \o Closing(c, out)
<1>3. p \in Seq(AnyTask) /\ Alike(tasks, p, c)
  <2>1. \A name \in Names : Head(tasks) # Task(name, c)
    BY <1>1 DEF Task, Names
  <2> QED BY <1>1, <2>1, AlikeTail
<1> HIDE DEF p
<1>4. q \in Seq(AnyTask) /\ Alike(tasks, q, c)
  BY <1>3, ClosingType, AlikeClosing, AlikeTwice
<1>5. MaybeClose(c, TRUE, out, q)
  BY <1>2 DEF p
<1> HIDE DEF q
<1>6. /\ event'[c].disconnect = event[c].disconnect
      /\ event'[c].exit = event[c].exit
  BY DEF TypeOK, SpawnError, Names
<1>7. /\ Waits(q, "disconnect", c) <=> Waits(tasks, "disconnect", c)
      /\ Waits(q, "exit", c) <=> Waits(tasks, "exit", c)
      /\ Behind(tasks, "disconnect", "exit", c) => Behind(q, "disconnect", "exit", c)
  BY <1>4 DEF Alike, Names
<1>8. /\ Waits(tasks', "disconnect", c) <=> Waits(q, "disconnect", c)
      /\ Waits(tasks', "exit", c) <=> Waits(q, "exit", c)
      /\ Behind(q, "disconnect", "exit", c) => Behind(tasks', "disconnect", "exit", c)
  BY <1>4, <1>5, OrderByMaybeClose
<1>9. proc[c] = "missing"
  BY HeadWaits DEF SpawnError, Local, Living
<1> QED BY <1>1, <1>6, <1>7, <1>8, <1>9 DEF Ordered, Spawned

\* _onExit: 'disconnect' is queued or over when 'exit' is queued, and 'exit'
\* when 'close' is.
LEMMA OrderByOnExit ==
  ASSUME TypeOK, NEW c \in Children, Local(c), Ordered(c), OnExit(c)
  PROVE  Ordered(c)'
<1> DEFINE hangUp == channel[c] = "open"
           one == ExitTasks(c, hangUp)
           p == tasks \o one
<1>1. PICK out : MaybeClose(c, TRUE, out, p \o Closing(c, out))
  BY Zenon DEF OnExit
<1>2. /\ proc[c] = "ended" /\ proc'[c] = "reaped" /\ exited'[c] /\ ~exited[c]
      /\ channel'[c] = IF hangUp THEN "closed" ELSE channel[c]
  BY DEF TypeOK, OnExit
<1>3. /\ event'[c].disconnect = IF hangUp THEN "queued" ELSE event[c].disconnect
      /\ event'[c].exit = IF channel[c] # "none" THEN "queued" ELSE "done"
      /\ event'[c].close \in {event[c].close, "queued"}
  BY DEF TypeOK, OnExit, Names
<1>4. /\ channel[c] \in {"none", "open", "closed"}
      /\ event[c].disconnect \in {"no", "queued", "done"}
      /\ tasks \in Seq(AnyTask)
  BY DEF TypeOK, Names
<1>5. one \in Seq(AnyTask)
  BY ExitTasksType
<1>6. /\ Waits(one, "disconnect", c) <=> hangUp
      /\ Waits(one, "exit", c) <=> channel[c] # "none"
      /\ ~Waits(one, "close", c)
  <2> HIDE DEF hangUp
  <2>1. \A name : Waits(one, name, c)
                    <=> \/ name = "disconnect" /\ hangUp
                        \/ name = "exit" /\ channel[c] # "none"
    BY WaitsInExitTasks, Zenon
  <2> QED BY <2>1
<1>7. hangUp => Behind(one, "disconnect", "exit", c)
  <2>1. hangUp => one = <<Task("disconnect", c)>> \o <<Task("exit", c)>>
    BY DEF ExitTasks
  <2>2. hangUp => one = <<Task("disconnect", c), Task("exit", c)>>
    BY <2>1
  <2>3. Behind(<<Task("disconnect", c), Task("exit", c)>>, "disconnect", "exit", c)
    BY DEF Behind, Task
  <2> QED BY <2>2, <2>3
<1> HIDE DEF one
<1>8. /\ Waits(p, "disconnect", c) <=> Waits(tasks, "disconnect", c) \/ hangUp
      /\ Waits(p, "exit", c) <=> Waits(tasks, "exit", c) \/ channel[c] # "none"
  BY <1>4, <1>5, <1>6, WaitsInConcat
<1>9. event'[c].disconnect = "done" \/ Behind(p, "disconnect", "exit", c)
  <2> SUFFICES ASSUME event'[c].disconnect # "done"
               PROVE  Behind(p, "disconnect", "exit", c)
    OBVIOUS
  <2>1. Behind(tasks, "disconnect", "exit", c)
    BY <1>3, <1>4 DEF Ordered
  <2>2. Waits(tasks, "disconnect", c) \/ Behind(one, "disconnect", "exit", c)
    <3>1. channel[c] = "none" => Behind(one, "disconnect", "exit", c)
      BY <1>6, BehindNothing
    <3>2. channel[c] = "closed" => Waits(tasks, "disconnect", c)
      BY <1>3, <1>4 DEF Ordered
    <3> QED BY <1>4, <1>7, <3>1, <3>2
  <2> QED BY <1>4, <1>5, <2>1, <2>2, BehindInConcat
<1>10. Behind(p, "exit", "close", c)
  <2>1. Behind(tasks, "exit", "close", c)
    BY <1>2 DEF Ordered
  <2>2. Behind(one, "exit", "close", c)
    BY <1>6, BehindNothing
  <2> QED BY <1>4, <1>5, <2>1, <2>2, BehindInConcat
<1>11. p \in Seq(AnyTask)
  BY <1>4, <1>5
<1> HIDE DEF p
<1> DEFINE q == p \o Closing(c, out)
<1>12. q \in Seq(AnyTask) /\ Alike(p, q, c)
  BY <1>11, ClosingType, AlikeClosing
<1>13. MaybeClose(c, TRUE, out, q)
  BY <1>1
<1> HIDE DEF q
<1>14. /\ Waits(q, "disconnect", c) <=> Waits(p, "disconnect", c)
       /\ Waits(q, "exit", c) <=> Waits(p, "exit", c)
       /\ Behind(p, "disconnect", "exit", c) => Behind(q, "disconnect", "exit", c)
       /\ Behind(q, "exit", "close", c)
  BY <1>10, <1>12 DEF Alike, Names
<1>15. /\ Waits(tasks', "disconnect", c) <=> Waits(q, "disconnect", c)
       /\ Waits(tasks', "exit", c) <=> Waits(q, "exit", c)
       /\ Behind(q, "disconnect", "exit", c) => Behind(tasks', "disconnect", "exit", c)
       /\ Waits(q, "exit", c) => Behind(tasks', "exit", "close", c)
  BY <1>12, <1>13, <1>14, OrderByMaybeClose
<1> HIDE DEF hangUp
<1>16. /\ Waits(tasks', "disconnect", c) <=> Waits(tasks, "disconnect", c) \/ hangUp
       /\ Waits(tasks', "exit", c) <=> Waits(tasks, "exit", c) \/ channel[c] # "none"
  BY <1>8, <1>14, <1>15
<1>17. event'[c].disconnect = "done" \/ Behind(tasks', "disconnect", "exit", c)
  BY <1>9, <1>14, <1>15
<1>18. event'[c].exit = "done" \/ Behind(tasks', "exit", "close", c)
  BY <1>3, <1>15, <1>16, <1>14, <1>8
<1>19. event[c].close # "done"
  BY <1>2 DEF Ordered, Spawned
<1> QED BY <1>2, <1>3, <1>4, <1>16, <1>17, <1>18, <1>19 DEF Ordered, Spawned, hangUp

\* The callbacks of stdin and stdout, the scheduler and the children tell
\* nothing.
LEMMA OrderQuiet ==
  ASSUME TypeOK, NEW c \in Children, Local(c), Ordered(c),
         \/ Write(c) \/ EndStdin(c) \/ DestroyStdin(c) \/ TickWrite(c)
         \/ FinishStdin(c) \/ DestroyStdout(c) \/ Consume(c) \/ TickDrain(c)
         \/ ToggleRef(c) \/ Environment(c) \/ Settle(c)
  PROVE  Ordered(c)'
<1>1. Untold(c)
  <2>1. CASE \/ Write(c) \/ EndStdin(c) \/ DestroyStdin(c) \/ TickWrite(c)
             \/ FinishStdin(c)
    BY <2>1 DEF Untold, Spawned, Write, EndStdin, DestroyStdin, TickWrite,
       FinishStdin, life, turn
  <2>2. CASE DestroyStdout(c) \/ Consume(c) \/ TickDrain(c)
    BY <2>2 DEF Untold, Spawned, DestroyStdout, Consume, TickDrain, host, life
  <2>3. CASE Environment(c)
    <3>1. event' = event /\ channel' = channel /\ exited' = exited
      BY <2>3 DEF Environment, Output, ReadStdin, Exit, LetGo, ends, life
    <3>2. proc'[c] = proc[c] \/ (proc[c] = "running" /\ proc'[c] = "ended")
      BY <2>3 DEF TypeOK, Environment, Output, ReadStdin, Exit, LetGo
    <3> QED BY <3>1, <3>2 DEF Untold, Spawned
  <2>4. CASE ToggleRef(c) \/ Settle(c)
    BY <2>4 DEF Untold, Spawned, ToggleRef, Settle, host, ends
  <2> QED BY <2>1, <2>2, <2>3, <2>4
<1>2. Alike(tasks, tasks', c)
  <2> tasks \in Seq(AnyTask)
    BY DEF TypeOK
  <2>1. CASE UNCHANGED tasks
    BY <2>1 DEF Alike
  <2>2. CASE \/ tasks' = Append(tasks, Task("finish", c))
             \/ tasks' = Append(tasks, Task("streamClose", c))
    BY <2>2, AlikeAppend DEF AllNames, Names
  <2>3. CASE TickDrain(c)
    <3>1. PICK out : tasks' = tasks \o Closing(c, out)
      BY <2>3, Zenon DEF TickDrain
    <3> QED BY <3>1, AlikeClosing
  <2>4. CASE FinishStdin(c)
    <3>1. tasks # <<>> /\ tasks' = Tail(tasks) /\ Head(tasks) = Task("finish", c)
      BY <2>4 DEF FinishStdin, NextTask
    <3>2. \A name \in Names : Head(tasks) # Task(name, c)
      BY <3>1 DEF Task, Names
    <3> QED BY <3>1, <3>2, AlikeTail
  <2> QED BY <2>1, <2>2, <2>3, <2>4 DEF Write, EndStdin, Final, DestroyStdin,
      TickWrite, DestroyStdout, Consume, ToggleRef, Environment, Output,
      ReadStdin, Exit, LetGo, Settle, turn
<1> QED BY <1>1, <1>2, OrderUndisturbed

InOrder == \A c \in Children : Ordered(c)

\* Every step keeps the order of every child.
LEMMA OrderKept ==
  ASSUME TypeOK, Good, InOrder, [Next]_vars
  PROVE  InOrder'
<1> SUFFICES ASSUME NEW d \in Children PROVE Ordered(d)'
  BY DEF InOrder
<1>1. Ordered(d) /\ Local(d)
  BY DEF InOrder, Good
<1>2. CASE Run \/ RunDone \/ UNCHANGED vars
  <2>1. Untold(d) /\ UNCHANGED tasks
    BY <1>2 DEF Untold, Spawned, Run, RunDone, vars, host, ends, life, turn
  <2> QED BY <1>1, <2>1, OrderUndisturbed DEF Alike
<1>3. ASSUME NEW c \in Children,
             Program(c) \/ Environment(c) \/ Tick(c) \/ Microtask(c)
      PROVE  Ordered(d)'
  <2>1. CASE c # d
    <3>1. Untold(d)
      BY <1>3, <2>1, OthersSame DEF SameAt, Untold, Spawned
    <3>2. Alike(tasks, tasks', d)
      BY <1>3, <2>1, OthersAlike
    <3> QED BY <1>1, <3>1, <3>2, OrderUndisturbed
  <2>2. CASE c = d
    <3>1. ASSUME Disconnect(c) \/ TickChannel(c) PROVE Ordered(c)'
      <4>1. /\ UNCHANGED <<proc, exited>>
            /\ \/ channel[c] = "open" /\ CloseChannel(c)
               \/ UNCHANGED <<channel, event, tasks>>
        BY <3>1 DEF Disconnect, TickChannel
      <4>2. CASE UNCHANGED <<channel, event, tasks>>
        <5>1. Untold(c) /\ Alike(tasks, tasks', c)
          BY <4>1, <4>2 DEF Untold, Spawned, Alike
        <5> QED BY <1>1, <2>2, <5>1, OrderUndisturbed
      <4> QED BY <1>1, <2>2, <4>1, <4>2, OrderByChannel
    <3>2. CASE Program(c)
      BY <1>1, <2>2, <3>1, <3>2, OrderBySpawn, OrderQuiet
         DEF Program, Spawning, Calling, Kill, Environment
    <3>3. CASE Environment(c)
      BY <1>1, <2>2, <3>3, OrderQuiet
    <3>4. CASE Tick(c)
      BY <1>1, <2>2, <3>1, <3>4, OrderQuiet, OrderByOnExit
         DEF Tick, TickAlive, TickSettle
    <3>5. CASE Microtask(c)
      BY <1>1, <2>2, <3>5, OrderQuiet, OrderByEmit, OrderByStreamClose,
         OrderBySpawnError DEF Microtask
    <3> QED BY <1>3, <3>2, <3>3, <3>4, <3>5
  <2> QED BY <2>1, <2>2
<1> QED BY <1>2, <1>3 DEF Next, Loop

------------------------------------------------------------------------------
(* The theorems.                                                           *)

IInv == TypeOK /\ Counted /\ Good /\ InOrder

\* The inductive invariant.
LEMMA Inductive == Spec => []IInv
<1>1. Init => IInv
  BY TypesAtFirst, GoodAtFirst, OrderAtFirst DEF IInv, InOrder
<1>2. IInv /\ [Next]_vars => IInv'
  BY TypesKept, CountedKept, GoodKept, OrderKept DEF IInv
<1> QED BY <1>1, <1>2, PTL DEF Spec

\* The state of spawn() keeps its types, for any number of children, pipes and
\* chunks: indexes stay in the pipe table, counts of chunks within the bound,
\* and the nextTick queue holds only tasks of this model.
THEOREM ChildTypeCorrect == Spec => []TypeOK
  BY Inductive, PTL DEF IInv

\* The scheduler of node-child.js forgets no child whose end, output or
\* channel it still has to report.
THEOREM NobodyForgotten == Spec => []NobodyIsForgotten
<1>1. IInv => NobodyIsForgotten
  BY DEF IInv, Good, Local, Serving, NobodyIsForgotten
<1> QED BY <1>1, Inductive, PTL

\* 'close' is due only when everything the child and its descendants printed
\* was pushed into stdout and nobody can print any more, unless the program
\* destroyed stdout.
THEOREM OutputBeforeClose == Spec => []CloseAfterOutput
<1>1. ASSUME IInv, NEW c \in Children,
             event[c].close # "no", reader[c] \notin {"none", "cut"}
      PROVE  reader[c] = "done" /\ pushed[c] = printed[c] /\ ~outOpen[c]
  <2>1. Reading(c) /\ TypeOK
    BY <1>1 DEF IInv, Good, Local
  <2>2. /\ reader[c] \in {"none", "open", "done", "cut"}
        /\ pushed[c] \in Nat /\ unread[c] \in Nat /\ printed[c] \in Nat
    BY <2>1, BoundsAssumption DEF TypeOK
  <2>3. stdout[c] \in {"none", "closed"}
    BY <1>1, <2>1 DEF Reading
  <2>4. reader[c] = "done"
    BY <1>1, <2>1, <2>2, <2>3 DEF Reading
  <2> QED BY <2>1, <2>2, <2>4 DEF Reading
<1>2. IInv => CloseAfterOutput
  BY <1>1 DEF CloseAfterOutput
<1> QED BY <1>2, Inductive, PTL

\* 'disconnect' precedes 'exit' and 'exit' precedes 'close', whatever the
\* channel, the process table and the streams do.
THEOREM OrderOfEvents == Spec => []EventsInOrder
<1>1. IInv => EventsInOrder
  BY DEF IInv, InOrder, Ordered, EventsInOrder
<1> QED BY <1>1, Inductive, PTL

\* Both together, for any number of children, pipes and chunks: the listeners of a child hear
\* of its end in an order in which 'close' is the last and no output is missing.
THEOREM EndReportedInOrder == Spec => []EndIsReportedInOrder
<1>1. EventsInOrder /\ CloseAfterOutput => EndIsReportedInOrder
  BY DEF EndIsReportedInOrder
<1> QED BY <1>1, OrderOfEvents, OutputBeforeClose, PTL

------------------------------------------------------------------------------
(* Pipes and their owners, while the program does not spawn between        *)
(* stdin.end() and the 'close' of that stdin.                              *)

\* The ends of pipes the objects of each child hold.
Taken == [c \in Children |-> {kind \in Kinds : InUse(c, kind)}]
Holdings == [Children -> SUBSET Kinds]
Indexes == [Children -> [Kinds -> Ids \union {-1}]]

\* A table whose entries in use are the pipes of these holders, one each.
Matched(t, ids, U) ==
  /\ \A c \in Children : \A kind \in U[c] :
       /\ ids[c][kind] \in Ids
       /\ t[ids[c][kind]] = [of |-> c, kind |-> kind, half |-> Halves(kind)]
  /\ \A i \in Ids : t[i].half # {} =>
       /\ t[i].of \in Children /\ t[i].kind \in U[t[i].of]
       /\ ids[t[i].of][t[i].kind] = i

\* f with another value at x, and the holders without one end.
Placed(f, x, v) == [f EXCEPT ![x] = v]
Without(U, c, kind) == [U EXCEPT ![c] = @ \ {kind}]

\* The index of a finished stdin is free; only an open one waits for room.
Stdio(c) ==
  /\ stdin[c] = "finished" => id[c]["in"] \in Ids /\ table[id[c]["in"]].half = {}
  /\ writer[c] => stdin[c] \in {"open", "ending"}
  /\ Waits(tasks, "finish", c) => stdin[c] \in {"finished", "destroyed"}

Tidy == Matched(table, id, Taken) /\ \A c \in Children : Stdio(c)

\* fg_pipe_close takes no entry into use.
LEMMA ClosedFreesOnly ==
  ASSUME NEW t \in [Ids -> Entry], NEW i, NEW halves, NEW j \in Ids, t[j].half = {}
  PROVE  Closed(t, i, halves)[j].half = {}
<1>1. CASE i \notin Ids \/ t[i].half \subseteq halves
  BY <1>1 DEF Closed, Free
<1>2. CASE ~(i \notin Ids \/ t[i].half \subseteq halves)
  <2>1. i # j
    BY <1>2
  <2> QED BY <1>2, <2>1 DEF Closed
<1> QED BY <1>1, <1>2

\* The owner of a pipe closes it, and no other.
LEMMA CloseOwn ==
  ASSUME NEW t \in [Ids -> Entry], NEW ids \in Indexes, NEW U \in Holdings,
         Matched(t, ids, U), NEW c \in Children, NEW kind \in U[c],
         NEW s, s = Closed(t, ids[c][kind], Halves(kind))
  PROVE  /\ s \in [Ids -> Entry] /\ s[ids[c][kind]].half = {} /\ ids[c][kind] \in Ids
         /\ Matched(s, ids, Without(U, c, kind))
<1> DEFINE i == ids[c][kind]
           V == Without(U, c, kind)
<1>1. i \in Ids /\ t[i] = [of |-> c, kind |-> kind, half |-> Halves(kind)]
  BY DEF Matched
<1>2. s = [j \in Ids |-> IF j = i THEN Free ELSE t[j]]
  BY <1>1 DEF Closed
<1>3. s \in [Ids -> Entry]
  BY ClosedType
<1>4. /\ \A d \in Children : V[d] \subseteq U[d]
      /\ \A d \in Children, k \in Kinds : k \in U[d] => k \in V[d] \/ (d = c /\ k = kind)
      /\ kind \notin V[c]
  BY DEF Holdings, Without
<1>5. s[i].half = {} /\ \A j \in Ids : j # i => s[j] = t[j]
  BY <1>1, <1>2 DEF Free
<1> HIDE DEF i, V
<1>6. ASSUME NEW d \in Children, NEW k \in V[d]
      PROVE  /\ ids[d][k] \in Ids
             /\ s[ids[d][k]] = [of |-> d, kind |-> k, half |-> Halves(k)]
  <2>1. /\ ids[d][k] \in Ids
        /\ t[ids[d][k]] = [of |-> d, kind |-> k, half |-> Halves(k)]
    BY <1>4, <1>6 DEF Matched
  <2>2. ids[d][k] # i
    <3>1. SUFFICES ASSUME ids[d][k] = i PROVE FALSE
      OBVIOUS
    <3>2. t[i].of = d /\ t[i].kind = k
      BY <2>1, <3>1
    <3>3. d = c /\ k = kind
      BY <1>1, <3>2
    <3> QED BY <1>4, <1>6, <3>3
  <2> QED BY <1>5, <2>1, <2>2
<1>7. ASSUME NEW j \in Ids, s[j].half # {}
      PROVE  /\ s[j].of \in Children /\ s[j].kind \in V[s[j].of]
             /\ ids[s[j].of][s[j].kind] = j
  <2>1. j # i /\ s[j] = t[j]
    BY <1>5, <1>7
  <2>2. /\ t[j].of \in Children /\ t[j].kind \in U[t[j].of]
        /\ ids[t[j].of][t[j].kind] = j
    BY <1>7, <2>1 DEF Matched
  <2>3. t[j].kind \in Kinds
    BY DEF Entry
  <2> QED BY <1>4, <2>1, <2>2, <2>3 DEF i
<1> QED BY <1>1, <1>3, <1>5, <1>6, <1>7 DEF Matched, i, V

\* To close a free entry again changes nobody's pipe.
LEMMA CloseAgain ==
  ASSUME NEW t \in [Ids -> Entry], NEW ids \in Indexes, NEW U \in Holdings,
         Matched(t, ids, U), NEW i \in Ids, t[i].half = {}, NEW halves,
         NEW s, s = Closed(t, i, halves)
  PROVE  Matched(s, ids, U)
<1>1. s = [j \in Ids |-> IF j = i THEN Free ELSE t[j]]
  BY DEF Closed
<1>2. s[i].half = {} /\ \A j \in Ids : j # i => s[j] = t[j]
  BY <1>1 DEF Free
<1>3. ASSUME NEW d \in Children, NEW k \in U[d]
      PROVE  /\ ids[d][k] \in Ids
             /\ s[ids[d][k]] = [of |-> d, kind |-> k, half |-> Halves(k)]
  <2>1. /\ ids[d][k] \in Ids
        /\ t[ids[d][k]] = [of |-> d, kind |-> k, half |-> Halves(k)]
        /\ k \in Kinds
    BY <1>3 DEF Matched, Holdings
  <2>2. t[ids[d][k]].half # {}
    BY <2>1 DEF Halves, Kinds
  <2> QED BY <1>2, <2>1, <2>2
<1>4. ASSUME NEW j \in Ids, s[j].half # {}
      PROVE  /\ s[j].of \in Children /\ s[j].kind \in U[s[j].of]
             /\ ids[s[j].of][s[j].kind] = j
  BY <1>2, <1>4 DEF Matched
<1> QED BY <1>3, <1>4 DEF Matched

\* fg_pipe_alloc hands out a free entry of the table.
LEMMA LowestIsFree ==
  ASSUME NEW t \in [Ids -> Entry]
  PROVE  Lowest(t) = -1 \/ (Lowest(t) \in Ids /\ t[Lowest(t)].half = {})
<1> DEFINE free == {i \in Ids : t[i].half = {}}
<1>1. free \in SUBSET Nat
  BY BoundsAssumption DEF Ids
<1>2. CASE free = {}
  BY <1>2 DEF Lowest
<1>3. CASE free # {}
  <2>1. Min(free) \in free
    BY <1>1, <1>3, MinIsMember, Zenon
  <2> QED BY <1>3, <2>1 DEF Lowest
<1> QED BY <1>2, <1>3

\* The holders once a child was given the pipe its index says, if any.
Given(U, c, kind, b) ==
  [U EXCEPT ![c] = IF b.id[kind] >= 0 THEN @ \union {kind} ELSE @]

\* One allocation of a spawn gives the child a pipe of its own, or none.
LEMMA AllocOwn ==
  ASSUME NEW a \in Grants, NEW ids \in Indexes, NEW c \in Children, NEW U \in Holdings,
         Matched(a.table, Placed(ids, c, a.id), U),
         NEW kind \in Kinds, kind \notin U[c], a.id[kind] = -1,
         NEW b, b = Alloc(a, c, kind)
  PROVE  /\ Matched(b.table, Placed(ids, c, b.id), Given(U, c, kind, b))
         /\ b.id = Placed(a.id, kind, b.id[kind])
<1> DEFINE i == Lowest(a.table)
           e == [of |-> c, kind |-> kind, half |-> Halves(kind)]
           V == [U EXCEPT ![c] = IF b.id[kind] >= 0 THEN @ \union {kind} ELSE @]
<1>1. a.table \in [Ids -> Entry] /\ a.id \in [Kinds -> Ids \union {-1}] /\ ~(-1 >= 0)
  BY DEF Grants
<1>2. CASE kind \notin Pipes[c] \/ i = -1
  <2>1. b = a
    BY <1>2 DEF Alloc
  <2>2. V = U
    <3>1. ~(b.id[kind] >= 0)
      BY <1>1, <2>1
    <3> QED BY <3>1 DEF Holdings
  <2>3. a.id = Placed(a.id, kind, a.id[kind])
    BY <1>1 DEF Placed
  <2> HIDE DEF V
  <2> QED BY <2>1, <2>2, <2>3 DEF V, Given
<1>3. CASE ~(kind \notin Pipes[c] \/ i = -1)
  <2>1. i \in Ids /\ a.table[i].half = {}
    BY <1>1, <1>3, LowestIsFree
  <2>2. b = [table |-> [a.table EXCEPT ![i] = e], id |-> [a.id EXCEPT ![kind] = i]]
    BY <1>3, Zenon DEF Alloc
  <2> HIDE DEF i, e
  <2>3. b.id[kind] = i /\ \A k \in Kinds : k # kind => b.id[k] = a.id[k]
    BY <1>1, <2>2
  <2>4. b.table[i] = e /\ \A j \in Ids : j # i => b.table[j] = a.table[j]
    BY <1>1, <2>1, <2>2
  <2>5. b.id[kind] >= 0
    BY <2>1, <2>3, BoundsAssumption DEF Ids
  <2>6. /\ V[c] = U[c] \union {kind}
        /\ \A d \in Children : d # c => V[d] = U[d]
    BY <2>5 DEF Holdings
  <2> DEFINE old == Placed(ids, c, a.id)
             new == Placed(ids, c, b.id)
  <2>7. /\ \A d \in Children, k \in Kinds : d # c \/ k # kind => new[d][k] = old[d][k]
        /\ new[c][kind] = i
    BY <2>3 DEF Indexes, Placed
  <2>8. e.of = c /\ e.kind = kind /\ e.half = Halves(kind)
    BY DEF e
  <2>9. Matched(a.table, old, U)
    OBVIOUS
  <2> HIDE DEF old, new, V
  <2>10. ASSUME NEW d \in Children, NEW k \in V[d]
         PROVE  /\ new[d][k] \in Ids
                /\ b.table[new[d][k]] = [of |-> d, kind |-> k, half |-> Halves(k)]
    <3>1. CASE d = c /\ k = kind
      BY <2>1, <2>4, <2>7, <3>1 DEF e
    <3>2. CASE ~(d = c /\ k = kind)
      <4>1. k \in U[d]
        BY <2>6, <2>10, <3>2
      <4>2. /\ old[d][k] \in Ids /\ k \in Kinds
            /\ a.table[old[d][k]] = [of |-> d, kind |-> k, half |-> Halves(k)]
        BY <2>9, <4>1 DEF Matched, Holdings
      <4>3. a.table[old[d][k]].half # {}
        BY <4>2 DEF Halves, Kinds
      <4> QED BY <2>1, <2>4, <2>7, <3>2, <4>2, <4>3
    <3> QED BY <3>1, <3>2
  <2>11. ASSUME NEW j \in Ids, b.table[j].half # {}
         PROVE  /\ b.table[j].of \in Children /\ b.table[j].kind \in V[b.table[j].of]
                /\ new[b.table[j].of][b.table[j].kind] = j
    <3>1. CASE j = i
      BY <2>4, <2>6, <2>7, <2>8, <3>1
    <3>2. CASE j # i
      <4>1. b.table[j] = a.table[j]
        BY <2>4, <3>2
      <4>2. /\ a.table[j].of \in Children /\ a.table[j].kind \in U[a.table[j].of]
            /\ old[a.table[j].of][a.table[j].kind] = j
        BY <2>9, <2>11, <4>1 DEF Matched
      <4>3. a.table[j].kind \in Kinds
        BY <1>1 DEF Entry
      <4>4. ~(a.table[j].of = c /\ a.table[j].kind = kind)
        BY <4>2
      <4> QED BY <2>6, <2>7, <4>1, <4>2, <4>3, <4>4
    <3> QED BY <3>1, <3>2
  <2>12. Matched(b.table, new, V)
    BY <2>10, <2>11 DEF Matched
  <2>13. b.id = Placed(a.id, kind, b.id[kind])
    BY <1>1, <2>2, <2>3 DEF Placed
  <2> QED BY <2>12, <2>13 DEF V, new, Given
<1> QED BY <1>2, <1>3

\* The ends of a child, kind by kind.
LEMMA EndsOf ==
  /\ Taken \in Holdings
  /\ \A c \in Children :
       /\ Taken[c] \subseteq {"in", "out", "ipc"}
       /\ "in" \in Taken[c] <=> stdin[c] \in {"open", "ending"}
       /\ "out" \in Taken[c] <=> reader[c] = "open"
       /\ "ipc" \in Taken[c] <=> channel[c] = "open"
  BY DEF Taken, Holdings, InUse, Kinds

\* The same after a step.
LEMMA EndsAfter ==
  /\ Taken' \in Holdings
  /\ \A c \in Children :
       /\ Taken'[c] \subseteq {"in", "out", "ipc"}
       /\ "in" \in Taken'[c] <=> stdin'[c] \in {"open", "ending"}
       /\ "out" \in Taken'[c] <=> reader'[c] = "open"
       /\ "ipc" \in Taken'[c] <=> channel'[c] = "open"
  BY DEF Taken, Holdings, InUse, Kinds

\* A step after which every child holds what U says, holds U.
LEMMA EndsAre ==
  ASSUME NEW U \in Holdings,
         \A d \in Children :
           /\ "in" \in U[d] <=> stdin'[d] \in {"open", "ending"}
           /\ "out" \in U[d] <=> reader'[d] = "open"
           /\ "ipc" \in U[d] <=> channel'[d] = "open"
  PROVE  Taken' = U
<1> DEFINE W == Taken'
<1>1. W \in Holdings
  BY EndsAfter
<1>2. ASSUME NEW d \in Children, NEW k \in Kinds PROVE k \in W[d] <=> k \in U[d]
  BY EndsAfter DEF Kinds
<1> HIDE DEF W
<1>3. \A d \in Children : W[d] = U[d]
  BY <1>1, <1>2 DEF Holdings
<1>4. W = U
  BY <1>1, <1>3 DEF Holdings
<1> QED BY <1>4 DEF W

\* A step that opens and closes no end leaves the holders as they are.
LEMMA EndsStay ==
  ASSUME \A d \in Children :
           /\ stdin'[d] \in {"open", "ending"} <=> stdin[d] \in {"open", "ending"}
           /\ reader'[d] = "open" <=> reader[d] = "open"
           /\ channel'[d] = "open" <=> channel[d] = "open"
  PROVE  Taken' = Taken
  BY EndsOf, EndsAre

\* A step that closes one end takes it from its holder.
LEMMA EndsLess ==
  ASSUME NEW c \in Children, NEW kind \in Kinds,
         \A d \in Children :
           /\ stdin'[d] \in {"open", "ending"}
                <=> stdin[d] \in {"open", "ending"} /\ ~(d = c /\ kind = "in")
           /\ reader'[d] = "open" <=> reader[d] = "open" /\ ~(d = c /\ kind = "out")
           /\ channel'[d] = "open" <=> channel[d] = "open" /\ ~(d = c /\ kind = "ipc")
  PROVE  Taken' = Without(Taken, c, kind)
<1> DEFINE U == Without(Taken, c, kind)
<1>1. U \in Holdings
  BY EndsOf DEF Holdings, Without
<1>2. \A d \in Children, k \in Kinds : k \in U[d] <=> k \in Taken[d] /\ ~(d = c /\ k = kind)
  BY EndsOf DEF Holdings, Without
<1> HIDE DEF U
<1>3. Taken' = U
  BY <1>1, <1>2, EndsOf, EndsAre DEF Kinds
<1> QED BY <1>3 DEF U

\* spawn() gives the child free entries, and to each pipe that got one an end.
LEMMA SpawnOwns ==
  ASSUME TypeOK, Tidy, NEW c \in Children, Local(c), Spawn(c)
  PROVE  Matched(table', id', Taken')
<1> DEFINE none == [table |-> table, id |-> [k \in Kinds |-> -1]]
           one == Alloc(none, c, "in")
           two == Alloc(one, c, "out")
           three == Alloc(two, c, "ipc")
           U1 == Given(Taken, c, "in", one)
           U2 == Given(U1, c, "out", two)
           U3 == Given(U2, c, "ipc", three)
<1>1. /\ stdin[c] = "none" /\ reader[c] = "none" /\ channel[c] = "none"
      /\ Taken[c] = {}
  <2>1. /\ stdin[c] = "none" /\ reader[c] = "none" /\ channel[c] = "none"
    BY DEF Spawn, Local, Newborn, Living
  <2> QED BY <2>1, EndsOf
<1>2. none \in Grants /\ none.id = [k \in Kinds |-> -1] /\ none.table = table /\ id \in Indexes
  BY DEF TypeOK, Grants, Indexes
<1>3. Matched(none.table, Placed(id, c, none.id), Taken)
  <2> DEFINE ids == Placed(id, c, none.id)
  <2>1. \A d \in Children : d # c => ids[d] = id[d]
    BY <1>2 DEF Indexes, Placed
  <2> HIDE DEF none, ids
  <2>2. Matched(table, ids, Taken)
    BY <1>1, <2>1 DEF Tidy, Matched
  <2> QED BY <1>2, <2>2 DEF ids
<1>4. one \in Grants
  BY <1>2, AllocType DEF Kinds
<1>5. two \in Grants
  BY <1>4, AllocType DEF Kinds
<1>6. three \in Grants
  BY <1>5, AllocType DEF Kinds
<1>7. Taken \in Holdings
  BY EndsOf
<1>8. Allocated(c) = three
  BY DEF Allocated
<1> DEFINE isOne == one = Alloc(none, c, "in")
           isTwo == two = Alloc(one, c, "out")
           isThree == three = Alloc(two, c, "ipc")
<1>18. isOne /\ isTwo /\ isThree
  OBVIOUS
<1> HIDE DEF none, one, two, three
<1>9. /\ Matched(one.table, Placed(id, c, one.id), U1)
      /\ one.id["out"] = -1 /\ one.id["ipc"] = -1
  <2>1. "in" \notin Taken[c] /\ none.id["in"] = -1 /\ "in" \in Kinds
        /\ none.id["out"] = -1 /\ none.id["ipc"] = -1
    BY <1>1, <1>2 DEF Kinds
  <2>2. /\ Matched(one.table, Placed(id, c, one.id), U1)
        /\ one.id = Placed(none.id, "in", one.id["in"])
    BY <1>18, <1>2, <1>3, <1>7, <2>1, AllocOwn
  <2> QED BY <1>2, <2>1, <2>2 DEF Kinds, Placed
<1>10. /\ U1 \in Holdings /\ U1[c] \subseteq {"in"} /\ ("in" \in U1[c] <=> one.id["in"] >= 0)
       /\ \A d \in Children : d # c => U1[d] = Taken[d]
  BY <1>1, <1>7 DEF Holdings, Kinds, Given
<1> HIDE DEF U1
<1>11. /\ Matched(two.table, Placed(id, c, two.id), U2)
       /\ two.id["ipc"] = -1 /\ two.id["in"] = one.id["in"]
  <2>1. "out" \notin U1[c] /\ one.id["out"] = -1 /\ "out" \in Kinds
    BY <1>9, <1>10 DEF Kinds
  <2>2. /\ Matched(two.table, Placed(id, c, two.id), U2)
        /\ two.id = Placed(one.id, "out", two.id["out"])
    BY <1>18, <1>2, <1>4, <1>9, <1>10, <2>1, AllocOwn
  <2> QED BY <1>4, <1>9, <2>2 DEF Kinds, Grants, Placed
<1>12. /\ U2 \in Holdings /\ U2[c] \subseteq {"in", "out"}
       /\ "in" \in U2[c] <=> two.id["in"] >= 0
       /\ "out" \in U2[c] <=> two.id["out"] >= 0
       /\ \A d \in Children : d # c => U2[d] = Taken[d]
  BY <1>10, <1>11 DEF Holdings, Kinds, Given
<1> HIDE DEF U2
<1>13. /\ Matched(three.table, Placed(id, c, three.id), U3)
       /\ three.id["out"] = two.id["out"] /\ three.id["in"] = two.id["in"]
  <2>1. "ipc" \notin U2[c] /\ two.id["ipc"] = -1 /\ "ipc" \in Kinds
    BY <1>11, <1>12 DEF Kinds
  <2>2. /\ Matched(three.table, Placed(id, c, three.id), U3)
        /\ three.id = Placed(two.id, "ipc", three.id["ipc"])
    BY <1>18, <1>2, <1>5, <1>11, <1>12, <2>1, AllocOwn
  <2> QED BY <1>5, <2>2 DEF Kinds, Grants, Placed
<1>14. /\ U3 \in Holdings
       /\ "in" \in U3[c] <=> three.id["in"] >= 0
       /\ "out" \in U3[c] <=> three.id["out"] >= 0
       /\ "ipc" \in U3[c] <=> three.id["ipc"] >= 0
       /\ \A d \in Children : d # c => U3[d] = Taken[d]
  BY <1>12, <1>13 DEF Holdings, Kinds, Given
<1> HIDE DEF U3
<1>15. /\ table' = three.table
       /\ id' = [id EXCEPT ![c] = three.id]
       /\ stdin' = [stdin EXCEPT ![c] = IF three.id["in"] >= 0 THEN "open" ELSE @]
       /\ reader' = [reader EXCEPT ![c] = IF three.id["out"] >= 0 THEN "open" ELSE @]
       /\ channel' = [channel EXCEPT ![c] = IF three.id["ipc"] >= 0 THEN "open" ELSE @]
  BY <1>8, Zenon DEF Spawn
<1>16. ASSUME NEW d \in Children
       PROVE  /\ "in" \in U3[d] <=> stdin'[d] \in {"open", "ending"}
              /\ "out" \in U3[d] <=> reader'[d] = "open"
              /\ "ipc" \in U3[d] <=> channel'[d] = "open"
  <2>1. /\ stdin \in [Children -> Stdin] /\ reader \in [Children -> {"none", "open", "done", "cut"}]
        /\ channel \in [Children -> {"none", "open", "closed"}]
    BY DEF TypeOK, Stdin
  <2>2. CASE d = c
    <3>1. /\ stdin'[c] = IF three.id["in"] >= 0 THEN "open" ELSE "none"
          /\ reader'[c] = IF three.id["out"] >= 0 THEN "open" ELSE "none"
          /\ channel'[c] = IF three.id["ipc"] >= 0 THEN "open" ELSE "none"
      BY <1>1, <1>15, <2>1
    <3> QED BY <1>14, <2>2, <3>1
  <2>3. CASE d # c
    <3>1. stdin'[d] = stdin[d] /\ reader'[d] = reader[d] /\ channel'[d] = channel[d]
      BY <1>15, <2>1, <2>3
    <3> QED BY <1>14, <2>3, <3>1, EndsOf
  <2> QED BY <2>2, <2>3
<1>17. Taken' = U3
  BY <1>14, <1>16, EndsAre
<1> QED BY <1>13, <1>15, <1>17 DEF Placed

\* A step that takes no free entry into use, as every step but a spawn.
Frees == \A j \in Ids : table[j].half = {} => table'[j].half = {}

\* Pipes and their owners as a step of a child leaves them.
Kept(c) ==
  /\ Matched(table', id', Taken') /\ Frees /\ id' = id /\ Stdio(c)'

\* A step that leaves a child, its indexes and the free entries alone keeps its stdin.
LEMMA StdioStays ==
  ASSUME NEW d \in Children, Stdio(d), Frees, id'[d] = id[d],
         stdin'[d] = stdin[d], writer'[d] = writer[d],
         Waits(tasks', "finish", d) => Waits(tasks, "finish", d) \/ stdin'[d] = "finished"
  PROVE  Stdio(d)'
  BY DEF Stdio, Frees

\* A step that touches neither the table nor the ends.
LEMMA PipesStay ==
  ASSUME TypeOK, Tidy, table' = table, id' = id, Taken' = Taken
  PROVE  Matched(table', id', Taken') /\ Frees
  BY DEF Tidy, Frees

\* A step by which a child closes an end it holds.
LEMMA PipeClosed ==
  ASSUME TypeOK, Tidy, NEW c \in Children, NEW kind \in Taken[c],
         table' = Closed(table, id[c][kind], Halves(kind)), id' = id,
         Taken' = Without(Taken, c, kind)
  PROVE  /\ Matched(table', id', Taken') /\ Frees
         /\ id[c][kind] \in Ids /\ table'[id[c][kind]].half = {}
<1>1. table \in [Ids -> Entry] /\ id \in Indexes /\ Taken \in Holdings
  BY EndsOf DEF TypeOK, Indexes
<1>2. Frees
  BY <1>1, ClosedFreesOnly DEF Frees
<1> DEFINE s == table'
<1>3. s = Closed(table, id[c][kind], Halves(kind)) /\ Matched(table, id, Taken)
  BY DEF Tidy
<1> HIDE DEF s
<1>4. /\ s[id[c][kind]].half = {} /\ id[c][kind] \in Ids
      /\ Matched(s, id, Without(Taken, c, kind))
  BY <1>1, <1>3, CloseOwn
<1> QED BY <1>2, <1>4 DEF s

\* A step that closes a free entry again.
LEMMA PipeClosedAgain ==
  ASSUME TypeOK, Tidy, NEW i \in Ids, table[i].half = {}, NEW halves,
         table' = Closed(table, i, halves), id' = id, Taken' = Taken
  PROVE  Matched(table', id', Taken') /\ Frees
<1>1. table \in [Ids -> Entry] /\ id \in Indexes /\ Taken \in Holdings
  BY EndsOf DEF TypeOK, Indexes
<1>2. Frees
  BY <1>1, ClosedFreesOnly DEF Frees
<1> DEFINE s == table'
<1>3. s = Closed(table, i, halves) /\ Matched(table, id, Taken)
  BY DEF Tidy
<1> HIDE DEF s
<1>4. Matched(s, id, Taken)
  BY <1>1, <1>3, CloseAgain
<1> QED BY <1>2, <1>4 DEF s

\* The methods and callbacks of stdin: its end is closed by its child, at most
\* once while another child may own the index.
LEMMA StdinPipes ==
  ASSUME TypeOK, Tidy, NEW c \in Children, Local(c), Added(c),
         Write(c) \/ EndStdin(c) \/ DestroyStdin(c) \/ TickWrite(c) \/ FinishStdin(c)
  PROVE  Kept(c)
<1>1. Stdio(c) /\ stdin \in [Children -> Stdin] /\ writer \in [Children -> BOOLEAN]
  BY DEF Tidy, TypeOK, Stdin
<1>2. UNCHANGED <<id, reader, channel>>
  BY DEF Write, EndStdin, DestroyStdin, TickWrite, FinishStdin
<1>3. Waits(tasks', "finish", c) => Waits(tasks, "finish", c) \/ stdin'[c] = "finished"
  BY DEF Added, AllNames
<1>4. \/ DestroyIn(c) /\ stdin[c] \in {"open", "ending", "finished"}
      \/ Final(c) /\ stdin[c] \in {"open", "ending"} /\ ~writer'[c]
      \/ /\ UNCHANGED table
         /\ \/ UNCHANGED <<stdin, writer>>
            \/ UNCHANGED stdin /\ stdin[c] = "open" /\ \E v \in BOOLEAN : writer' = [writer EXCEPT ![c] = v]
            \/ UNCHANGED writer /\ stdin[c] = "open" /\ stdin' = [stdin EXCEPT ![c] = "ending"]
  <2>1. CASE Write(c)
    BY <2>1, <1>1 DEF Write
  <2>2. CASE EndStdin(c)
    BY <2>2, <1>1 DEF EndStdin
  <2>3. CASE DestroyStdin(c)
    BY <2>3, <1>1 DEF DestroyStdin
  <2>4. CASE TickWrite(c)
    BY <2>4, <1>1 DEF TickWrite, Stdio
  <2>5. CASE FinishStdin(c)
    <3>1. Waits(tasks, "finish", c)
      BY <2>5, HeadWaits DEF FinishStdin
    <3> QED BY <2>5, <3>1, <1>1 DEF FinishStdin, Stdio
  <2> QED BY <2>1, <2>2, <2>3, <2>4, <2>5
<1>5. /\ Halves("in") = {"w"} /\ "in" \in Kinds
      /\ "in" \in Taken[c] <=> stdin[c] \in {"open", "ending"}
  BY EndsOf DEF Halves, Kinds
<1>6. CASE DestroyIn(c) /\ stdin[c] \in {"open", "ending", "finished"}
  <2>1. /\ stdin' = [stdin EXCEPT ![c] = "destroyed"] /\ ~writer'[c]
        /\ table' = Closed(table, id[c]["in"], {"w"})
    BY <1>6, <1>1 DEF DestroyIn
  <2>2. Stdio(c)'
    BY <1>1, <2>1 DEF Stdio
  <2>3. CASE stdin[c] = "finished"
    <3>1. Taken' = Taken
      BY <1>1, <1>2, <2>1, <2>3, EndsStay
    <3> QED BY <1>1, <1>2, <2>1, <2>2, <2>3, <3>1, PipeClosedAgain DEF Kept, Stdio
  <2>4. CASE stdin[c] # "finished"
    <3>1. Taken' = Without(Taken, c, "in")
      BY <1>1, <1>2, <1>5, <1>6, <2>1, <2>4, EndsLess
    <3> QED BY <1>2, <1>5, <1>6, <2>1, <2>2, <2>4, <3>1, PipeClosed DEF Kept
  <2> QED BY <2>3, <2>4
<1>7. CASE Final(c) /\ stdin[c] \in {"open", "ending"} /\ ~writer'[c]
  <2>1. /\ stdin' = [stdin EXCEPT ![c] = "finished"]
        /\ table' = Closed(table, id[c]["in"], {"w"})
    BY <1>7 DEF Final
  <2>2. Taken' = Without(Taken, c, "in")
    BY <1>1, <1>2, <1>5, <1>7, <2>1, EndsLess
  <2>3. /\ Matched(table', id', Taken') /\ Frees
        /\ id[c]["in"] \in Ids /\ table'[id[c]["in"]].half = {}
    BY <1>2, <1>5, <1>7, <2>1, <2>2, PipeClosed
  <2>4. Stdio(c)'
    BY <1>1, <1>2, <1>7, <2>1, <2>3 DEF Stdio
  <2> QED BY <1>2, <2>3, <2>4 DEF Kept
<1>8. CASE /\ UNCHANGED table
           /\ \/ UNCHANGED <<stdin, writer>>
              \/ UNCHANGED stdin /\ stdin[c] = "open" /\ \E v \in BOOLEAN : writer' = [writer EXCEPT ![c] = v]
              \/ UNCHANGED writer /\ stdin[c] = "open" /\ stdin' = [stdin EXCEPT ![c] = "ending"]
  <2>1. Taken' = Taken
    BY <1>1, <1>2, <1>8, EndsStay
  <2>2. Matched(table', id', Taken') /\ Frees
    BY <1>2, <1>8, <2>1, PipesStay
  <2>3. Stdio(c)'
    <3>1. \/ stdin'[c] = stdin[c] /\ (writer'[c] = writer[c] \/ stdin[c] = "open")
          \/ writer'[c] = writer[c] /\ stdin[c] = "open" /\ stdin'[c] = "ending"
      BY <1>1, <1>8
    <3>2. Waits(tasks', "finish", c) => stdin'[c] \in {"finished", "destroyed"}
      BY <1>1, <1>3, <3>1 DEF Stdio
    <3> QED BY <1>1, <1>2, <1>8, <3>1, <3>2 DEF Stdio
  <2> QED BY <1>2, <2>2, <2>3 DEF Kept
<1> QED BY <1>4, <1>6, <1>7, <1>8

\* The methods and the drain of stdout: its reader closes its end.
LEMMA StdoutPipes ==
  ASSUME TypeOK, Tidy, NEW c \in Children, Local(c), Added(c),
         DestroyStdout(c) \/ Consume(c) \/ TickDrain(c)
  PROVE  Kept(c)
<1>1. /\ reader \in [Children -> {"none", "open", "done", "cut"}]
      /\ Waits(tasks', "finish", c) => Waits(tasks, "finish", c) \/ stdin'[c] = "finished"
  BY DEF TypeOK, Added, AllNames
<1>2. UNCHANGED <<id, stdin, writer, channel>>
  BY DEF DestroyStdout, Consume, TickDrain
<1>3. \/ UNCHANGED <<table, reader>>
      \/ /\ reader[c] = "open" /\ table' = Closed(table, id[c]["out"], {"r"})
         /\ \E v \in {"cut", "done"} : reader' = [reader EXCEPT ![c] = v]
  <2>1. CASE DestroyStdout(c)
    BY <1>1, <2>1 DEF DestroyStdout
  <2>2. CASE Consume(c)
    BY <2>2 DEF Consume, host
  <2>3. CASE TickDrain(c)
    <3> DEFINE open == reader[c] = "open" /\ (id[c]["out"] \in ready \/ exited[c])
               over == open /\ ~outOpen[c]
    <3>1. /\ table' = IF over THEN Closed(table, id[c]["out"], {"r"}) ELSE table
          /\ IF open THEN Drain(c, over) ELSE UNCHANGED <<pushed, unread, reader>>
      BY <2>3, Zenon DEF TickDrain
    <3>2. over => open /\ reader[c] = "open"
      OBVIOUS
    <3> HIDE DEF open, over
    <3> QED BY <1>1, <3>1, <3>2 DEF Drain
  <2> QED BY <2>1, <2>2, <2>3
<1>4. /\ Halves("out") = {"r"} /\ "out" \in Kinds
      /\ "out" \in Taken[c] <=> reader[c] = "open"
  BY EndsOf DEF Halves, Kinds
<1>5. Matched(table', id', Taken') /\ Frees
  <2>1. CASE UNCHANGED <<table, reader>>
    BY <1>2, <2>1, EndsStay, PipesStay
  <2>2. CASE /\ reader[c] = "open" /\ table' = Closed(table, id[c]["out"], {"r"})
             /\ \E v \in {"cut", "done"} : reader' = [reader EXCEPT ![c] = v]
    <3>1. Taken' = Without(Taken, c, "out")
      BY <1>1, <1>2, <1>4, <2>2, EndsLess
    <3> QED BY <1>2, <1>4, <2>2, <3>1, PipeClosed
  <2> QED BY <1>3, <2>1, <2>2
<1>6. Stdio(c)'
  BY <1>1, <1>2, <1>5, StdioStays DEF Tidy
<1> QED BY <1>2, <1>5, <1>6 DEF Kept

\* disconnect(), and the end of the channel that a tick finds.
LEMMA ChannelPipes ==
  ASSUME TypeOK, Tidy, NEW c \in Children, Local(c), Added(c),
         Disconnect(c) \/ TickChannel(c)
  PROVE  Kept(c)
<1>1. /\ channel \in [Children -> {"none", "open", "closed"}]
      /\ Waits(tasks', "finish", c) => Waits(tasks, "finish", c) \/ stdin'[c] = "finished"
  BY DEF TypeOK, Added, AllNames
<1>2. UNCHANGED <<id, stdin, writer, reader>>
  BY DEF Disconnect, TickChannel
<1>3. \/ UNCHANGED <<table, channel>>
      \/ /\ channel[c] = "open" /\ table' = Closed(table, id[c]["ipc"], {"r", "w"})
         /\ channel' = [channel EXCEPT ![c] = "closed"]
  BY DEF Disconnect, TickChannel, CloseChannel
<1>4. /\ Halves("ipc") = {"r", "w"} /\ "ipc" \in Kinds
      /\ "ipc" \in Taken[c] <=> channel[c] = "open"
  BY EndsOf DEF Halves, Kinds
<1>5. Matched(table', id', Taken') /\ Frees
  <2>1. CASE UNCHANGED <<table, channel>>
    BY <1>2, <2>1, EndsStay, PipesStay
  <2>2. CASE /\ channel[c] = "open" /\ table' = Closed(table, id[c]["ipc"], {"r", "w"})
             /\ channel' = [channel EXCEPT ![c] = "closed"]
    <3>1. Taken' = Without(Taken, c, "ipc")
      BY <1>1, <1>2, <1>4, <2>2, EndsLess
    <3> QED BY <1>2, <1>4, <2>2, <3>1, PipeClosed
  <2> QED BY <1>3, <2>1, <2>2
<1>6. Stdio(c)'
  BY <1>1, <1>2, <1>5, StdioStays DEF Tidy
<1> QED BY <1>2, <1>5, <1>6 DEF Kept

\* _onExit closes both the end of stdout and the channel, each its own.
LEMMA OnExitPipes ==
  ASSUME TypeOK, Tidy, NEW c \in Children, Local(c), Added(c), OnExit(c)
  PROVE  Kept(c)
<1> DEFINE over == reader[c] = "open" /\ ~outOpen[c]
           hangUp == channel[c] = "open"
           drained == IF over THEN Closed(table, id[c]["out"], {"r"}) ELSE table
           U == IF over THEN Without(Taken, c, "out") ELSE Taken
           V == IF hangUp THEN Without(U, c, "ipc") ELSE U
           s == table'
<1>1. /\ reader \in [Children -> {"none", "open", "done", "cut"}]
      /\ channel \in [Children -> {"none", "open", "closed"}]
      /\ Waits(tasks', "finish", c) => Waits(tasks, "finish", c) \/ stdin'[c] = "finished"
      /\ table \in [Ids -> Entry] /\ id \in Indexes /\ Taken \in Holdings
      /\ Matched(table, id, Taken)
  BY EndsOf DEF TypeOK, Added, AllNames, Tidy, Indexes
<1>2. UNCHANGED <<id, stdin, writer>>
  BY DEF OnExit
<1>3. s = IF hangUp THEN Closed(drained, id[c]["ipc"], {"r", "w"}) ELSE drained
  BY Zenon DEF OnExit
<1>4. /\ channel' = [channel EXCEPT ![c] = IF hangUp THEN "closed" ELSE @]
      /\ reader' = [reader EXCEPT ![c] = IF over THEN "done" ELSE @]
  <2>1. IF reader[c] = "open" THEN Drain(c, over) ELSE UNCHANGED <<pushed, unread, reader>>
    BY Zenon DEF OnExit
  <2>2. reader' = [reader EXCEPT ![c] = IF over THEN "done" ELSE @]
    BY <1>1, <2>1 DEF Drain
  <2> QED BY <2>2 DEF OnExit
<1>5. /\ Halves("out") = {"r"} /\ Halves("ipc") = {"r", "w"} /\ {"out", "ipc"} \subseteq Kinds
      /\ "out" \in Taken[c] <=> reader[c] = "open"
      /\ "ipc" \in Taken[c] <=> channel[c] = "open"
  BY EndsOf DEF Halves, Kinds
<1>6. drained \in [Ids -> Entry]
  BY <1>1, ClosedType
<1>7. Matched(drained, id, U)
  <2>1. CASE over
    <3>1. drained = Closed(table, id[c]["out"], Halves("out"))
      BY <1>5, <2>1
    <3> HIDE DEF drained
    <3>2. Matched(drained, id, Without(Taken, c, "out"))
      BY <1>1, <1>5, <2>1, <3>1, CloseOwn
    <3> QED BY <2>1, <3>2
  <2>2. CASE ~over
    BY <1>1, <2>2
  <2> QED BY <2>1, <2>2
<1>8. \A d \in Children, k \in Kinds : k \in U[d] <=> k \in Taken[d] /\ ~(over /\ d = c /\ k = "out")
  BY <1>1 DEF Without, Holdings
<1>9. U \in Holdings
  BY <1>1 DEF Without, Holdings
<1>10. \A j \in Ids : table[j].half = {} => drained[j].half = {}
  BY <1>1, ClosedFreesOnly
<1> HIDE DEF drained, U, over, s
<1>11. Matched(s, id, V)
  <2>1. CASE hangUp
    <3>1. s = Closed(drained, id[c]["ipc"], Halves("ipc")) /\ "ipc" \in U[c]
      BY <1>3, <1>5, <1>8, <2>1
    <3>2. Matched(s, id, Without(U, c, "ipc"))
      BY <1>1, <1>6, <1>7, <1>9, <3>1, CloseOwn
    <3> QED BY <2>1, <3>2
  <2>2. CASE ~hangUp
    BY <1>3, <1>7, <2>2
  <2> QED BY <2>1, <2>2
<1>12. \A d \in Children, k \in Kinds : k \in V[d] <=> k \in U[d] /\ ~(hangUp /\ d = c /\ k = "ipc")
  BY <1>9 DEF Without, Holdings
<1>13. V \in Holdings
  BY <1>9 DEF Without, Holdings
<1>14. Frees
  BY <1>3, <1>6, <1>10, ClosedFreesOnly DEF Frees, s
<1> HIDE DEF V
<1>15. ASSUME NEW d \in Children
       PROVE  /\ "in" \in V[d] <=> stdin'[d] \in {"open", "ending"}
              /\ "out" \in V[d] <=> reader'[d] = "open"
              /\ "ipc" \in V[d] <=> channel'[d] = "open"
  <2>1. reader'[d] = "open" <=> reader[d] = "open" /\ ~(over /\ d = c)
    BY <1>1, <1>4
  <2>2. channel'[d] = "open" <=> channel[d] = "open" /\ ~(hangUp /\ d = c)
    BY <1>1, <1>4
  <2> QED BY <1>2, <1>8, <1>12, <2>1, <2>2, EndsOf DEF Kinds
<1>16. Taken' = V
  BY <1>13, <1>15, EndsAre
<1>17. Stdio(c)'
  BY <1>1, <1>2, <1>14, StdioStays DEF Tidy
<1> QED BY <1>2, <1>11, <1>14, <1>16, <1>17 DEF Kept, s

\* The rest of the steps touch no pipe.
LEMMA QuietPipes ==
  ASSUME TypeOK, Tidy, NEW c \in Children, Local(c), Added(c),
         \/ SpawnFails(c) \/ ToggleRef(c) \/ Environment(c) \/ Settle(c)
         \/ StreamClose(c) \/ SpawnError(c) \/ \E name \in Names : Emit(name, c)
  PROVE  Kept(c)
<1>1. Waits(tasks', "finish", c) => Waits(tasks, "finish", c) \/ stdin'[c] = "finished"
  BY DEF Added, AllNames
<1>2. UNCHANGED <<table, id, stdin, writer, reader, channel>>
  BY DEF SpawnFails, ToggleRef, Environment, Output, ReadStdin, Exit, LetGo, Settle,
     StreamClose, SpawnError, Emit, host, ends
<1>3. Taken' = Taken
  BY <1>2, EndsStay
<1>4. Matched(table', id', Taken') /\ Frees
  BY <1>2, <1>3, PipesStay
<1>5. Stdio(c)'
  BY <1>1, <1>2, <1>4, StdioStays DEF Tidy
<1> QED BY <1>2, <1>4, <1>5 DEF Kept

\* spawn(), when no stdin is finished and not yet closed.
LEMMA SpawnPipes ==
  ASSUME ~Early, TypeOK, Tidy, Good, NEW c \in Children, Spawn(c)
  PROVE  Tidy'
<1>1. Matched(table', id', Taken')
  BY SpawnOwns DEF Good
<1> SUFFICES ASSUME NEW d \in Children PROVE Stdio(d)'
  BY <1>1 DEF Tidy
<1>2. /\ Stdio(d) /\ stdin[d] # "finished" /\ UNCHANGED <<writer, tasks>>
      /\ \/ stdin'[d] = stdin[d]
         \/ d = c /\ stdin'[d] = "open"
  BY DEF Tidy, Spawn, Settling, TypeOK, turn
<1>3. /\ stdin[c] = "none" /\ ~writer[c] /\ ~Waits(tasks, "finish", c)
  BY DEF Good, Local, Newborn, Spawn, AllNames
<1> QED BY <1>2, <1>3 DEF Stdio

\* Every step keeps the pipes private.
LEMMA TidyKept ==
  ASSUME ~Early, TypeOK, Tidy, Good, [Next]_vars
  PROVE  Tidy'
<1>1. CASE Run \/ RunDone \/ UNCHANGED vars
  <2>1. UNCHANGED <<table, id, stdin, writer, reader, channel, tasks>>
    BY <1>1 DEF Run, RunDone, vars, host, ends, turn
  <2>2. Taken' = Taken
    BY <2>1, EndsStay
  <2> QED BY <2>1, <2>2 DEF Tidy, Stdio
<1>2. ASSUME NEW c \in Children,
             Program(c) \/ Environment(c) \/ Tick(c) \/ Microtask(c)
      PROVE  Tidy'
  <2>1. Local(c) /\ Added(c)
    BY <1>2, AddedByStep DEF Good
  <2>2. Spawn(c) \/ Kept(c)
    BY <1>2, <2>1, StdinPipes, StdoutPipes, ChannelPipes, OnExitPipes, QuietPipes
       DEF Program, Spawning, Calling, Kill, Environment, Tick, TickAlive, TickSettle,
           Microtask
  <2>3. CASE Kept(c)
    <3> SUFFICES ASSUME NEW d \in Children, d # c PROVE Stdio(d)'
      BY <2>3 DEF Tidy, Kept
    <3>1. SameAt(d)
      BY <1>2, OthersSame
    <3>2. Waits(tasks', "finish", d) => Waits(tasks, "finish", d)
      BY <2>1 DEF Added, AllNames
    <3> QED BY <2>3, <3>1, <3>2, StdioStays DEF Tidy, Kept, SameAt
  <2> QED BY <2>2, <2>3, SpawnPipes
<1> QED BY <1>1, <1>2 DEF Next, Loop

\* The pipes are private when the program starts.
LEMMA TidyAtFirst == Init => Tidy
<1> SUFFICES ASSUME Init PROVE Tidy
  OBVIOUS
<1>1. ASSUME NEW c \in Children PROVE Taken[c] = {} /\ Stdio(c)
  <2>1. ~Waits(tasks, "finish", c)
    BY WaitsInOne DEF Init
  <2>2. stdin[c] = "none" /\ reader[c] = "none" /\ channel[c] = "none" /\ ~writer[c]
    BY DEF Init
  <2> QED BY <2>1, <2>2, EndsOf DEF Stdio
<1>2. \A i \in Ids : table[i].half = {}
  BY DEF Init, Free
<1> QED BY <1>1, <1>2 DEF Tidy, Matched

\* A program that spawns nothing between stdin.end() and the 'close' of that
\* stdin has private pipes, for any number of children and pipes: an object
\* that is open owns the entry behind its index with all its halves, and an
\* entry in use is that of one open object.  Without that premise the run
\* MCChildReuse shows two children at one pipe.
THEOREM PipesStayPrivate ==
  ASSUME ~Early
  PROVE  Spec => []PipesArePrivate
<1>1. Init => Tidy
  BY TidyAtFirst
<1>2. TypeOK /\ Good /\ Tidy /\ [Next]_vars => Tidy'
  BY TidyKept
<1>3. Tidy => PipesArePrivate
  <2> SUFFICES ASSUME Tidy PROVE PipesArePrivate
    OBVIOUS
  <2>1. ASSUME NEW c \in Children, NEW kind \in Kinds, InUse(c, kind)
        PROVE  Owns(c, kind)
    <3>1. kind \in Taken[c]
      BY <2>1 DEF Taken
    <3> QED BY <3>1 DEF Tidy, Matched, Owns
  <2>2. ASSUME NEW i \in Ids, table[i].half # {}
        PROVE  /\ InUse(table[i].of, table[i].kind)
               /\ id[table[i].of][table[i].kind] = i
    <3>1. /\ table[i].of \in Children /\ table[i].kind \in Taken[table[i].of]
          /\ id[table[i].of][table[i].kind] = i
      BY <2>2 DEF Tidy, Matched
    <3> QED BY <3>1 DEF Taken
  <2> QED BY <2>1, <2>2 DEF PipesArePrivate
<1>4. IInv => TypeOK /\ Good
  BY DEF IInv
<1> QED BY <1>1, <1>2, <1>3, <1>4, Inductive, PTL DEF Spec

------------------------------------------------------------------------------
(* The channel of fork(): the invariant of both ends.                      *)

\* Consecutive bytes, the first one after byte a of the stream.
Follows(s, a) == \A i \in 1..Len(s) : s[i] = a + i

\* split() is at work at an end, or a listener it called, or the close() that called.
Splits(e) ==
  \/ thread[e] \in {"splitting", "listening"}
  \/ thread[e] = "closing" /\ caller[e] = "listening"

\* The message that was received last.
Latest(e) == IF got[e] = <<>> THEN 0 ELSE got[e][Len(got[e])]

\* The first b bytes of what e sent were taken by the socket, the rest is pending.
Sending(e, b) ==
  /\ b <= Width * sent[e] /\ written[e] = b \div Width
  /\ Open(e) => Follows(pending[e], b) /\ b + Len(pending[e]) = Width * sent[e]

\* The first a of them were read by its peer, the others are in the socket.
Carrying(e, a, b) ==
  /\ Follows(wire[e], a) /\ Len(wire[e]) <= Capacity
  /\ a + Len(wire[e]) <= b
  /\ Open(e) => a + Len(wire[e]) = b

\* Of the a bytes e read, the lines before line k are not in its input any more, and those
\* before line j not in the buffer of split(): they were dispatched.
Receiving(e, a, k, j) ==
  /\ e \in up =>
       /\ Follows(input[e], Width * k) /\ Width * k + Len(input[e]) = a
       /\ k <= j /\ j <= Latest(e) /\ (e \notin threw => j = Latest(e))
       /\ Splits(e) => Follows(buffer[e], Width * j) /\ Width * j + Len(buffer[e]) = a
       /\ ~Splits(e) => k = j /\ (e \notin threw => Len(input[e]) < Width)
  /\ \A i \in 1..Len(got[e]) : got[e][i] <= a \div Width /\ (e \notin threw => got[e][i] = i)

\* What an end was told, or will be, of its messages: each once, in order, and the truth.
Reporting(e) ==
  /\ \A i \in 1..Len(results[e]) :
       results[e][i].message = i /\ (results[e][i].ok <=> i <= written[e])
  /\ \A i \in 1..Len(ticks[e]) : ticks[e][i] # DisconnectEvent =>
       /\ ticks[e][i].message = Len(results[e]) + i
       /\ ticks[e][i].ok <=> ticks[e][i].message <= written[e]
       /\ \A j \in 1..i : ticks[e][j] # DisconnectEvent
  /\ Open(e) =>
       /\ Len(results[e]) + Len(ticks[e]) = written[e]
       /\ \A i \in 1..Len(ticks[e]) : ticks[e][i] # DisconnectEvent

\* How the channel ends at an end.
EndOfChannel(e) ==
  /\ thread[e] = "reading" => Open(e)
  /\ thread[e] = "closing" => ended[e] \in {"no", "epipe"}
  /\ e \notin up => thread[e] = "idle"
  /\ ~Open(e) => pending[e] = <<>>
  /\ told[e] # 0 => thread[e] = "idle" /\ ended[e] # "no"
  /\ ended[e] \in {"local", "eof"} =>
       /\ told[e] <= 1
       /\ \A i \in 1..Len(ticks[e]) :
            ticks[e][i] = DisconnectEvent => i = Len(ticks[e]) /\ told[e] = 0
  /\ ended[e] = "eof" =>
       /\ thread[e] = "idle" /\ ~Open(Peer(e))
       /\ e \in up \ threw => Range(got[e]) = 1..written[Peer(e)]

------------------------------------------------------------------------------
(* Bytes, lines and messages.                                              *)

\* Every byte that an end may send.
Bytes == 1..(Width * MaxSends)

\* Sizes are positive.
LEMMA Positive == Width \in Nat /\ Width >= 1 /\ Capacity \in Nat /\ Chunk \in Nat /\ Chunk >= 1 /\ MaxSends \in Nat
BY SizesAssumption

\* Bytes are numbers.
LEMMA BytesAreNumbers ==
  /\ Bytes \subseteq Nat
  /\ \A s \in Seq(Bytes) : s \in Seq(Nat) /\ Len(s) \in Nat
<1>1. Width * MaxSends \in Nat
  BY Positive
<1>2. Bytes \subseteq Nat
  BY <1>1 DEF Bytes
<1>3. ASSUME NEW s \in Seq(Bytes) PROVE s \in Seq(Nat) /\ Len(s) \in Nat
  <2>1. Len(s) \in Nat /\ \A i \in 1..Len(s) : s[i] \in Nat
    <3>1. Len(s) \in Nat /\ \A i \in 1..Len(s) : s[i] \in Bytes
      OBVIOUS
    <3> QED BY <1>2, <3>1
  <2>2. s = [i \in 1..Len(s) |-> s[i]]
    OBVIOUS
  <2>3. [i \in 1..Len(s) |-> s[i]] \in Seq(Nat)
    BY <2>1
  <2> QED BY <2>1, <2>2, <2>3
<1> QED BY <1>2, <1>3

\* A longer stream has as many bytes of lines, and products grow.
LEMMA Products ==
  ASSUME NEW m \in Nat, NEW n \in Nat, m <= n
  PROVE  Width * m \in Nat /\ Width * m <= Width * n
<1>1. n = m + (n - m) /\ n - m \in Nat
  OBVIOUS
<1>2. Width * n = Width * m + Width * (n - m)
  BY <1>1, Positive
<1>3. Width * (n - m) \in Nat /\ Width * m \in Nat
  BY <1>1, Positive
<1> QED BY <1>2, <1>3

\* The product of one more.
LEMMA OneMore ==
  ASSUME NEW m \in Nat
  PROVE  Width * (m + 1) = Width * m + Width /\ Width * m \in Nat
BY Positive

\* Products compare as their factors.
LEMMA Factors ==
  ASSUME NEW m \in Nat, NEW n \in Nat
  PROVE  /\ Width * m < Width * n + Width => m <= n
         /\ Width * m <= Width * n => m <= n
         /\ Width * m = Width * n => m = n
<1>1. SUFFICES ASSUME m > n PROVE Width * m >= Width * n + Width
  <2>1. Width * m \in Nat /\ Width * n \in Nat
    BY Positive
  <2>2. m <= n => Width * m <= Width * n
    BY Products
  <2>3. ASSUME Width * m < Width * n + Width \/ Width * m <= Width * n \/ Width * m = Width * n PROVE m <= n
    BY <1>1, <2>1, <2>3, Positive
  <2>4. ASSUME Width * m = Width * n PROVE m = n
    <3>1. m <= n
      BY <2>3, <2>4
    <3>2. n > m => Width * n >= Width * m + Width
      <4>1. n > m => Width * (m + 1) <= Width * n
        BY Products
      <4> QED BY <4>1, OneMore
    <3> QED BY <2>1, <2>4, <3>1, <3>2, Positive
  <2> QED BY <2>3, <2>4
<1>2. Width * (n + 1) <= Width * m
  BY <1>1, Products
<1> QED BY <1>2, OneMore

\* What division by the width means.
LEMMA Divided ==
  ASSUME NEW n \in Nat
  PROVE  /\ n \div Width \in Nat
         /\ Width * (n \div Width) <= n
         /\ n < Width * (n \div Width) + Width
         /\ n % Width = n - Width * (n \div Width)
BY Positive

\* The quotient is known by its bounds.
LEMMA Quotient ==
  ASSUME NEW n \in Nat, NEW q \in Nat, Width * q <= n, n < Width * q + Width
  PROVE  n \div Width = q
<1> DEFINE d == n \div Width
<1>1. d \in Nat /\ Width * d <= n /\ n < Width * d + Width
  BY Divided
<1>2. Width * d \in Nat /\ Width * q \in Nat
  BY <1>1, Positive
<1>3. Width * d < Width * q + Width /\ Width * q < Width * d + Width
  BY <1>1, <1>2, Positive
<1> HIDE DEF d
<1>4. d <= q /\ q <= d
  BY <1>1, <1>3, Factors
<1>5. d = q
  BY <1>1, <1>4
<1> QED BY <1>5 DEF d

\* Quotients grow.
LEMMA Quotients ==
  ASSUME NEW m \in Nat, NEW n \in Nat, m <= n
  PROVE  m \div Width <= n \div Width
<1> DEFINE c == m \div Width
           d == n \div Width
<1>1. c \in Nat /\ d \in Nat /\ Width * c <= m /\ n < Width * d + Width
  BY Divided
<1>2. Width * c \in Nat /\ Width * d \in Nat
  BY <1>1, Positive
<1> HIDE DEF c, d
<1>3. Width * c < Width * d + Width
  BY <1>1, <1>2, Positive
<1>4. c <= d
  BY <1>1, <1>3, Factors
<1> QED BY <1>4 DEF c, d

\* The quotient of a product.
LEMMA WholeLines ==
  ASSUME NEW m \in Nat
  PROVE  (Width * m) \div Width = m /\ Width * m \in Nat
<1>1. Width * m \in Nat
  BY Positive
<1>2. Width * m < Width * m + Width
  BY <1>1, Positive
<1> QED BY <1>1, <1>2, Quotient

\* A byte ends its line when it is a product.
LEMMA EndOfLine ==
  ASSUME NEW c \in Nat
  PROVE  EndsLine(c) <=> Width * (c \div Width) = c
<1>1. c % Width = c - Width * (c \div Width) /\ c \div Width \in Nat
  BY Divided
<1>2. Width * (c \div Width) \in Nat
  BY <1>1, Positive
<1> QED BY <1>1, <1>2 DEF EndsLine

\* The ends of lines among the first n of consecutive bytes: as many as whole numbers of
\* lines are passed.
LEMMA CountLines ==
  ASSUME NEW s \in Seq(Nat), NEW b \in Nat, Follows(s, b), NEW n \in 0..Len(s)
  PROVE  /\ IsFiniteSet({i \in LineEnds(s) : i <= n})
         /\ Cardinality({i \in LineEnds(s) : i <= n}) = (b + n) \div Width - b \div Width
<1> DEFINE S == {i \in LineEnds(s) : i <= n}
           p == b \div Width
           q == (b + n) \div Width
           T == (p + 1)..q
           f == [m \in T |-> Width * m - b]
<1>1. /\ p \in Nat /\ Width * p <= b /\ b < Width * p + Width
      /\ q \in Nat /\ Width * q <= b + n /\ b + n < Width * q + Width
  <2>1. b + n \in Nat
    OBVIOUS
  <2> QED BY <2>1, Divided
<1>2. p <= q
  BY Quotients
<1>3. \A i : i \in S <=> i \in 1..n /\ Width * ((b + i) \div Width) = b + i
  BY EndOfLine DEF LineEnds, Follows
<1> HIDE DEF S, p, q
<1>4. ASSUME NEW m \in T PROVE f[m] \in S
  <2>1. m \in Nat /\ p + 1 <= m /\ m <= q /\ f[m] = Width * m - b
    BY <1>1
  <2>2. Width * (p + 1) <= Width * m /\ Width * m <= Width * q /\ Width * m \in Nat
    <3>1. p + 1 \in Nat
      BY <1>1
    <3> QED BY <1>1, <2>1, <3>1, Products
  <2>3. Width * m - b \in 1..n
    <3>1. Width * (p + 1) = Width * p + Width /\ Width * p \in Nat /\ Width * q \in Nat
      BY <1>1, OneMore, Positive
    <3> QED BY <1>1, <2>2, <3>1, Positive
  <2>4. b + (Width * m - b) = Width * m
    BY <2>2
  <2>5. Width * ((b + (Width * m - b)) \div Width) = b + (Width * m - b)
    BY <2>1, <2>4, WholeLines
  <2> QED BY <1>3, <2>1, <2>3, <2>5
<1>5. ASSUME NEW i \in S PROVE \E m \in T : f[m] = i
  <2> DEFINE m == (b + i) \div Width
  <2>1. i \in 1..n /\ Width * m = b + i
    BY <1>3
  <2>2. p <= m /\ m <= q /\ m \in Nat
    <3>1. b + i \in Nat /\ b + n \in Nat /\ b <= b + i /\ b + i <= b + n
      BY <2>1
    <3>2. p <= m
      BY <3>1, Quotients DEF p
    <3>3. m <= q
      BY <3>1, Quotients DEF q
    <3> QED BY <3>1, <3>2, <3>3, Divided
  <2> HIDE DEF m
  <2>3. m # p
    BY <1>1, <2>1, <2>2
  <2>4. m \in T
    BY <1>1, <2>2, <2>3
  <2>5. f[m] = i
    BY <2>1, <2>4
  <2> QED BY <2>4, <2>5
<1>6. ASSUME NEW l \in T, NEW m \in T, f[l] = f[m] PROVE l = m
  <2>1. l \in Nat /\ m \in Nat /\ Width * l \in Nat /\ Width * m \in Nat
    BY <1>1, Positive
  <2>2. Width * l = Width * m
    BY <1>6, <2>1
  <2> QED BY <2>1, <2>2, Factors
<1>7. f \in Bijection(T, S)
  <2>1. f \in [T -> S]
    BY <1>4
  <2>2. f \in Injection(T, S)
    BY <1>6, <2>1 DEF Injection, IsInjective
  <2>3. f \in Surjection(T, S)
    BY <1>5, <2>1 DEF Surjection
  <2> QED BY <2>2, <2>3 DEF Bijection
<1>8. IsFiniteSet(T) /\ Cardinality(T) = q - p
  <2>1. IsFiniteSet(T) /\ Cardinality(T) = IF p + 1 > q THEN 0 ELSE q - (p + 1) + 1
    BY <1>1, FS_Interval
  <2> QED BY <1>1, <1>2, <2>1
<1>9. ExistsBijection(T, S)
  BY <1>7 DEF ExistsBijection
<1>10. IsFiniteSet(S) /\ Cardinality(S) = Cardinality(T)
  BY <1>8, <1>9, FS_Bijection
<1> QED BY <1>8, <1>10 DEF S, p, q

\* All of them.
LEMMA CountAllLines ==
  ASSUME NEW s \in Seq(Nat), NEW b \in Nat, Follows(s, b)
  PROVE  /\ IsFiniteSet(LineEnds(s))
         /\ Cardinality(LineEnds(s)) = (b + Len(s)) \div Width - b \div Width
         /\ Cardinality(LineEnds(s)) \in Nat
<1>1. Len(s) \in 0..Len(s)
  OBVIOUS
<1>2. {i \in LineEnds(s) : i <= Len(s)} = LineEnds(s)
  BY DEF LineEnds
<1> QED BY <1>1, <1>2, CountLines, FS_CardinalityType

\* The callbacks of consecutive bytes are those of the lines they end, one after the other.
LEMMA CallbacksInOrder ==
  ASSUME NEW s \in Seq(Nat), NEW b \in Nat, Follows(s, b), NEW ok \in BOOLEAN
  PROVE  LET p == b \div Width
             q == (b + Len(s)) \div Width
         IN /\ p \in Nat /\ q \in Nat /\ p <= q
            /\ Callbacks(s, ok) = [k \in 1..(q - p) |-> Callback(p + k, ok)]
<1> DEFINE p == b \div Width
           q == (b + Len(s)) \div Width
           Upto(n) == {i \in LineEnds(s) : i <= n}
           Last(k) == CHOOSE i \in LineEnds(s) : Cardinality(Upto(i)) = k
<1>1. p \in Nat /\ q \in Nat /\ p <= q
  BY Divided, Quotients
<1>2. Cardinality(LineEnds(s)) = q - p
  BY CountAllLines
<1>3. ASSUME NEW k \in 1..(q - p) PROVE Number(s[Last(k)]) = p + k
  <2>1. /\ Width * p <= b /\ b < Width * p + Width
        /\ Width * q <= b + Len(s) /\ b + Len(s) < Width * q + Width
    BY Divided
  <2> DEFINE m == p + k
             l == Width * m - b
  <2>2. m \in Nat /\ p + 1 <= m /\ m <= q
    BY <1>1
  <2> HIDE DEF m, p, q
  <2>3. Width * (p + 1) <= Width * m /\ Width * m <= Width * q /\ Width * m \in Nat
    BY <1>1, <2>2, Products
  <2>4. Width * (p + 1) = Width * p + Width /\ Width * p \in Nat /\ Width * q \in Nat
    BY <1>1, OneMore, Positive
  <2>5. l \in 1..Len(s) /\ b + l = Width * m
    BY <2>1, <2>3, <2>4, Positive
  <2>6. (b + l) \div Width = m
    BY <2>2, <2>5, WholeLines
  <2> HIDE DEF l
  <2>7. l \in LineEnds(s)
    <3>1. s[l] = b + l /\ s[l] \in Nat
      BY <2>5 DEF Follows
    <3>2. EndsLine(s[l])
      BY <2>5, <2>6, <3>1, EndOfLine
    <3> QED BY <2>5, <3>2 DEF LineEnds
  <2>8. Cardinality(Upto(l)) = m - p
    <3>1. l \in 0..Len(s)
      BY <2>5
    <3>2. Cardinality(Upto(l)) = (b + l) \div Width - b \div Width
      BY <3>1, CountLines
    <3> QED BY <2>6, <3>2 DEF p
  <2>9. m - p = k
    BY <1>1 DEF m
  <2>10. Last(k) \in LineEnds(s) /\ Cardinality(Upto(Last(k))) = k
    BY <2>7, <2>8, <2>9
  <2> DEFINE i == Last(k)
  <2>11. i \in 1..Len(s) /\ Cardinality(Upto(i)) = k
    BY <2>10 DEF LineEnds
  <2> HIDE DEF i
  <2>12. i \in 0..Len(s) /\ s[i] = b + i /\ b + i \in Nat
    BY <2>11 DEF Follows
  <2>13. Cardinality(Upto(i)) = (b + i) \div Width - b \div Width
    BY <2>12, CountLines
  <2>14. (b + i) \div Width \in Nat
    BY <2>12, Divided
  <2>15. (b + i) \div Width = p + k
    BY <1>1, <2>11, <2>13, <2>14 DEF p
  <2> QED BY <2>12, <2>15 DEF Number, i
<1>4. Callbacks(s, ok) = [k \in 1..Cardinality(LineEnds(s)) |-> Callback(Number(s[Last(k)]), ok)]
  BY DEF Callbacks
<1> QED BY <1>1, <1>2, <1>3, <1>4

\* A part of consecutive bytes, and the rest.
LEMMA PartFollows ==
  ASSUME NEW S, NEW s \in Seq(S), NEW a \in Nat, Follows(s, a), NEW n \in 0..Len(s)
  PROVE  /\ SubSeq(s, 1, n) \in Seq(S) /\ Len(SubSeq(s, 1, n)) = n /\ Follows(SubSeq(s, 1, n), a)
         /\ SubSeq(s, n + 1, Len(s)) \in Seq(S) /\ Len(SubSeq(s, n + 1, Len(s))) = Len(s) - n
         /\ Follows(SubSeq(s, n + 1, Len(s)), a + n)
<1>1. /\ SubSeq(s, 1, n) \in Seq(S) /\ Len(SubSeq(s, 1, n)) = n
      /\ \A i \in 1..n : SubSeq(s, 1, n)[i] = s[i]
  OBVIOUS
<1>2. /\ SubSeq(s, n + 1, Len(s)) \in Seq(S) /\ Len(SubSeq(s, n + 1, Len(s))) = Len(s) - n
      /\ \A i \in 1..(Len(s) - n) : SubSeq(s, n + 1, Len(s))[i] = s[n + i]
  OBVIOUS
<1>3. \A i \in 1..(Len(s) - n) : n + i \in 1..Len(s)
  OBVIOUS
<1> QED BY <1>1, <1>2, <1>3 DEF Follows

\* Consecutive bytes after consecutive bytes.
LEMMA MoreFollow ==
  ASSUME NEW S, NEW s \in Seq(S), NEW t \in Seq(S), NEW a \in Nat, Follows(s, a), Follows(t, a + Len(s))
  PROVE  s \o t \in Seq(S) /\ Len(s \o t) = Len(s) + Len(t) /\ Follows(s \o t, a)
<1>1. /\ s \o t \in Seq(S) /\ Len(s \o t) = Len(s) + Len(t)
      /\ \A i \in 1..(Len(s) + Len(t)) : (s \o t)[i] = IF i <= Len(s) THEN s[i] ELSE t[i - Len(s)]
  OBVIOUS
<1>2. \A i \in 1..(Len(s) + Len(t)) : i <= Len(s) \/ i - Len(s) \in 1..Len(t)
  OBVIOUS
<1> QED BY <1>1, <1>2 DEF Follows

\* No bytes.
LEMMA NothingFollows ==
  ASSUME NEW a
  PROVE  Follows(<<>>, a) /\ Len(<<>>) = 0
BY DEF Follows

\* The bytes of a message.
LEMMA LineFollows ==
  ASSUME NEW m \in Nat
  PROVE  /\ Line(m + 1) \in Seq(Nat) /\ Len(Line(m + 1)) = Width
         /\ Follows(Line(m + 1), Width * m)
         /\ m + 1 <= MaxSends => Line(m + 1) \in Seq(Bytes)
<1>1. Width * m \in Nat /\ (m + 1 - 1) * Width = Width * m
  BY Positive
<1>2. Line(m + 1) = [i \in 1..Width |-> Width * m + i]
  BY <1>1 DEF Line
<1>3. Width \in Nat
  BY Positive
<1>4. Line(m + 1) \in Seq(Nat) /\ Len(Line(m + 1)) = Width
  BY <1>1, <1>2, <1>3
<1>5. Follows(Line(m + 1), Width * m)
  BY <1>2, <1>4 DEF Follows
<1>6. ASSUME m + 1 <= MaxSends PROVE Line(m + 1) \in Seq(Bytes)
  <2>1. Width * (m + 1) = Width * m + Width /\ Width * (m + 1) <= Width * MaxSends
    BY <1>6, OneMore, Products, Positive
  <2>2. Width * MaxSends \in Nat
    BY Positive
  <2>3. \A i \in 1..Width : Width * m + i \in Bytes
    BY <1>1, <2>1, <2>2, Positive DEF Bytes
  <2> QED BY <1>2, <1>3, <2>3
<1> QED BY <1>4, <1>5, <1>6

\* Bytes of a line's length are that line.
LEMMA IsLine ==
  ASSUME NEW s \in Seq(Nat), NEW m \in Nat, Follows(s, Width * m), Len(s) = Width
  PROVE  s = Line(m + 1)
<1>1. Line(m + 1) \in Seq(Nat) /\ Len(Line(m + 1)) = Width /\ Follows(Line(m + 1), Width * m)
  BY LineFollows
<1>2. \A i \in 1..Width : s[i] = Line(m + 1)[i]
  BY <1>1 DEF Follows
<1> QED BY <1>1, <1>2

\* Different messages have different lines.
LEMMA LinesDiffer ==
  ASSUME NEW m \in Nat, NEW n \in Nat, Line(m + 1) = Line(n + 1)
  PROVE  m = n
<1>1. Line(m + 1)[1] = Width * m + 1 /\ Line(n + 1)[1] = Width * n + 1
  BY LineFollows, Positive DEF Follows
<1>2. Width * m = Width * n
  BY <1>1, Positive
<1> QED BY <1>2, Factors

\* What JSON.parse makes of a whole line.
LEMMA ParsesLine ==
  ASSUME NEW m \in Nat, m + 1 <= MaxSends
  PROVE  Parsed(Line(m + 1)) = <<m + 1>>
<1>1. m + 1 \in 1..MaxSends
  BY Positive
<1>2. ASSUME NEW n \in 1..MaxSends, Line(m + 1) = Line(n) PROVE n = m + 1
  <2>1. n - 1 \in Nat /\ n = (n - 1) + 1
    BY Positive
  <2>2. m = n - 1
    BY <1>2, <2>1, LinesDiffer
  <2> QED BY <2>1, <2>2
<1>3. (CHOOSE n \in 1..MaxSends : Line(m + 1) = Line(n)) = m + 1
  BY <1>1, <1>2
<1> QED BY <1>1, <1>3 DEF Parsed

\* The first line of bytes that begin with one.
LEMMA FirstLine ==
  ASSUME NEW s \in Seq(Bytes), NEW j \in Nat, Follows(s, Width * j), LineEnds(s) # {}
  PROVE  /\ Min(LineEnds(s)) = Width /\ Width <= Len(s)
         /\ j + 1 <= MaxSends
         /\ Parsed(SubSeq(s, 1, Width)) = <<j + 1>>
<1> DEFINE b == Width * j
<1>1. b \in Nat /\ b \div Width = j /\ Width * (j + 1) = b + Width
  BY WholeLines, OneMore
<1>2. Bytes \subseteq Nat
  BY BytesAreNumbers
<1>3. s \in Seq(Nat)
  BY BytesAreNumbers
<1>4. ASSUME NEW i \in LineEnds(s) PROVE i \in Nat /\ Width <= i /\ i <= Len(s)
  <2>1. i \in 1..Len(s) /\ s[i] = b + i /\ b + i \in Nat /\ EndsLine(b + i)
    BY <1>1 DEF LineEnds, Follows
  <2> DEFINE q == (b + i) \div Width
  <2>2. Width * q = b + i /\ q \in Nat
    BY <2>1, EndOfLine, Divided
  <2> HIDE DEF q
  <2>3. q > j
    <3>1. SUFFICES ASSUME q <= j PROVE FALSE
      BY <2>2
    <3>2. Width * q <= Width * j
      BY <2>2, <3>1, Products
    <3> QED BY <1>1, <2>1, <2>2, <3>2
  <2>4. Width * (j + 1) <= Width * q
    BY <2>2, <2>3, Products
  <2> QED BY <1>1, <2>1, <2>2, <2>4, Positive
<1>5. Width <= Len(s) /\ Width \in 1..Len(s)
  BY <1>4, Positive
<1>6. Width \in LineEnds(s)
  <2>1. s[Width] = b + Width
    BY <1>5 DEF Follows
  <2>2. EndsLine(Width * (j + 1))
    BY EndOfLine, WholeLines
  <2> QED BY <1>1, <1>5, <2>1, <2>2 DEF LineEnds
<1>7. Min(LineEnds(s)) = Width
  <2>1. \A x \in LineEnds(s) : (\A y \in LineEnds(s) : x <= y) => x = Width
    BY <1>4, <1>6, Positive
  <2>2. \A y \in LineEnds(s) : Width <= y
    BY <1>4
  <2> QED BY <1>6, <2>1, <2>2 DEF Min
<1>8. j + 1 <= MaxSends
  <2>1. s[Width] \in Bytes
    BY <1>5
  <2>2. b + Width <= Width * MaxSends
    BY <1>5, <2>1 DEF Bytes, Follows
  <2>3. MaxSends \in Nat
    BY Positive
  <2> QED BY <1>1, <2>2, <2>3, Factors
<1>9. SubSeq(s, 1, Width) = Line(j + 1)
  <2>1. Width \in 0..Len(s)
    BY <1>5
  <2>2. SubSeq(s, 1, Width) \in Seq(Nat) /\ Len(SubSeq(s, 1, Width)) = Width /\ Follows(SubSeq(s, 1, Width), b)
    BY <1>1, <1>3, <2>1, PartFollows
  <2> QED BY <2>2, IsLine
<1> QED BY <1>5, <1>7, <1>8, <1>9, ParsesLine

\* Bytes that begin with a line and hold no end of one.
LEMMA NoLine ==
  ASSUME NEW s \in Seq(Bytes), NEW j \in Nat, Follows(s, Width * j), LineEnds(s) = {}
  PROVE  Len(s) < Width
<1>1. SUFFICES ASSUME Len(s) >= Width PROVE FALSE
  BY Positive
<1>2. Width \in 1..Len(s)
  BY <1>1, Positive
<1>3. s[Width] = Width * j + Width /\ Width * (j + 1) = Width * j + Width
  BY <1>2, OneMore DEF Follows
<1>4. EndsLine(Width * (j + 1))
  BY EndOfLine, WholeLines
<1> QED BY <1>2, <1>3, <1>4 DEF LineEnds

------------------------------------------------------------------------------
(* Ends, types and the two ways of a flush.                                *)

\* What is queued or told for a message, or for the end of the channel.
Told == [message : 0..MaxSends, ok : BOOLEAN]

\* There are two ends.
LEMMA TwoEnds ==
  ASSUME NEW x \in Ends
  PROVE  /\ Peer(x) \in Ends /\ Peer(x) # x /\ Peer(Peer(x)) = x
         /\ \A e \in Ends : e = x \/ e = Peer(x)
BY EndsAssumption DEF Ends, Peer

\* The types of the fields.
LEMMA Fields ==
  ASSUME ChannelTypeOK
  PROVE  /\ pending \in [Ends -> Seq(Bytes)] /\ input \in [Ends -> Seq(Bytes)]
         /\ buffer \in [Ends -> Seq(Bytes)] /\ wire \in [Ends -> Seq(Bytes)]
         /\ ticks \in [Ends -> Seq(Told)] /\ results \in [Ends -> Seq(Told)]
         /\ sent \in [Ends -> 0..MaxSends] /\ written \in [Ends -> 0..MaxSends]
         /\ got \in [Ends -> Seq(1..MaxSends)] /\ told \in [Ends -> Nat]
         /\ thread \in [Ends -> {"idle", "reading", "splitting", "listening", "closing"}]
         /\ caller \in [Ends -> {"idle", "listening"}]
         /\ ended \in [Ends -> {"no", "local", "eof", "epipe"}]
         /\ MaxSends \in Nat
<1>1. /\ pending \in [Ends -> Seq(Bytes)] /\ input \in [Ends -> Seq(Bytes)]
      /\ buffer \in [Ends -> Seq(Bytes)] /\ wire \in [Ends -> Seq(Bytes)]
  BY DEF ChannelTypeOK, Bytes
<1>2. ticks \in [Ends -> Seq(Told)] /\ results \in [Ends -> Seq(Told)]
  BY DEF ChannelTypeOK, Told
<1>3. sent \in [Ends -> 0..MaxSends] /\ written \in [Ends -> 0..MaxSends]
  BY DEF ChannelTypeOK
<1> QED BY <1>1, <1>2, <1>3, Positive DEF ChannelTypeOK

\* The types after a step.
LEMMA FieldsAfter ==
  ASSUME /\ pending' \in [Ends -> Seq(Bytes)] /\ input' \in [Ends -> Seq(Bytes)]
         /\ buffer' \in [Ends -> Seq(Bytes)] /\ wire' \in [Ends -> Seq(Bytes)]
         /\ ticks' \in [Ends -> Seq(Told)] /\ results' \in [Ends -> Seq(Told)]
         /\ sent' \in [Ends -> 0..MaxSends] /\ written' \in [Ends -> 0..MaxSends]
         /\ got' \in [Ends -> Seq(1..MaxSends)] /\ told' \in [Ends -> Nat]
         /\ thread' \in [Ends -> {"idle", "reading", "splitting", "listening", "closing"}]
         /\ caller' \in [Ends -> {"idle", "listening"}]
         /\ ended' \in [Ends -> {"no", "local", "eof", "epipe"}]
         /\ up' \subseteq Ends /\ on' \in [Ends -> SUBSET Events] /\ ref' \in [Ends -> BOOLEAN]
         /\ threw' \subseteq Throwing
  PROVE  ChannelTypeOK'
BY DEF ChannelTypeOK, Bytes, Told

\* The callbacks of lines p + 1 .. q.
Answers(p, q, ok) == [k \in 1..(q - p) |-> Callback(p + k, ok)]

\* Those of sends that went well are as many as the lines, in order, and none is about
\* the end of the channel.
LEMMA AnswersWell ==
  ASSUME NEW p \in Nat, NEW q \in Nat, p <= q
  PROVE  /\ Len(Answers(p, q, TRUE)) = q - p
         /\ \A k \in 1..(q - p) : /\ Answers(p, q, TRUE)[k].message = p + k
                                  /\ Answers(p, q, TRUE)[k].ok = TRUE
                                  /\ Answers(p, q, TRUE)[k] # DisconnectEvent
         /\ q <= MaxSends => Answers(p, q, TRUE) \in Seq(Told)
<1>1. q - p \in Nat
  OBVIOUS
<1>2. Len(Answers(p, q, TRUE)) = q - p /\ \A k \in 1..(q - p) : Answers(p, q, TRUE)[k] = Callback(p + k, TRUE)
  BY <1>1 DEF Answers
<1>3. ASSUME NEW k \in 1..(q - p)
      PROVE  /\ Callback(p + k, TRUE).message = p + k /\ Callback(p + k, TRUE).ok = TRUE
             /\ Callback(p + k, TRUE) # DisconnectEvent
             /\ q <= MaxSends => Callback(p + k, TRUE) \in Told
  <2>1. Callback(p + k, TRUE).message = p + k /\ Callback(p + k, TRUE).ok = TRUE /\ DisconnectEvent.message = 0
    BY DEF Callback, DisconnectEvent
  <2>2. p + k > 0
    OBVIOUS
  <2>3. q <= MaxSends => p + k \in 0..MaxSends
    BY <1>1, Positive
  <2> QED BY <2>1, <2>2, <2>3 DEF Told, Callback
<1>4. q <= MaxSends => Answers(p, q, TRUE) \in Seq(Told)
  <2> DEFINE c(k) == Callback(p + k, TRUE)
  <2>1. Answers(p, q, TRUE) = [k \in 1..(q - p) |-> c(k)]
    BY DEF Answers
  <2>2. q <= MaxSends => \A k \in 1..(q - p) : c(k) \in Told
    BY <1>3
  <2> HIDE DEF c
  <2>3. q <= MaxSends => [k \in 1..(q - p) |-> c(k)] \in Seq(Told)
    BY <1>1, <2>2
  <2> QED BY <2>1, <2>3
<1> QED BY <1>2, <1>3, <1>4

\* The same of sends that failed.
LEMMA AnswersBadly ==
  ASSUME NEW p \in Nat, NEW q \in Nat, p <= q
  PROVE  /\ Len(Answers(p, q, FALSE)) = q - p
         /\ \A k \in 1..(q - p) : /\ Answers(p, q, FALSE)[k].message = p + k
                                  /\ Answers(p, q, FALSE)[k].ok = FALSE
                                  /\ Answers(p, q, FALSE)[k] # DisconnectEvent
         /\ q <= MaxSends => Answers(p, q, FALSE) \in Seq(Told)
<1>1. q - p \in Nat
  OBVIOUS
<1>2. Len(Answers(p, q, FALSE)) = q - p /\ \A k \in 1..(q - p) : Answers(p, q, FALSE)[k] = Callback(p + k, FALSE)
  BY <1>1 DEF Answers
<1>3. ASSUME NEW k \in 1..(q - p)
      PROVE  /\ Callback(p + k, FALSE).message = p + k /\ Callback(p + k, FALSE).ok = FALSE
             /\ Callback(p + k, FALSE) # DisconnectEvent
             /\ q <= MaxSends => Callback(p + k, FALSE) \in Told
  <2>1. Callback(p + k, FALSE).message = p + k /\ Callback(p + k, FALSE).ok = FALSE /\ DisconnectEvent.message = 0
    BY DEF Callback, DisconnectEvent
  <2>2. p + k > 0
    OBVIOUS
  <2>3. q <= MaxSends => p + k \in 0..MaxSends
    BY <1>1, Positive
  <2> QED BY <2>1, <2>2, <2>3 DEF Told, Callback
<1>4. q <= MaxSends => Answers(p, q, FALSE) \in Seq(Told)
  <2> DEFINE c(k) == Callback(p + k, FALSE)
  <2>1. Answers(p, q, FALSE) = [k \in 1..(q - p) |-> c(k)]
    BY DEF Answers
  <2>2. q <= MaxSends => \A k \in 1..(q - p) : c(k) \in Told
    BY <1>3
  <2> HIDE DEF c
  <2>3. q <= MaxSends => [k \in 1..(q - p) |-> c(k)] \in Seq(Told)
    BY <1>1, <2>2
  <2> QED BY <2>1, <2>3
<1> QED BY <1>2, <1>3, <1>4

\* The callbacks of consecutive bytes, again.
LEMMA CallbacksAre ==
  ASSUME NEW s \in Seq(Bytes), NEW b \in Nat, Follows(s, b), NEW ok \in BOOLEAN
  PROVE  /\ b \div Width \in Nat /\ (b + Len(s)) \div Width \in Nat
         /\ b \div Width <= (b + Len(s)) \div Width
         /\ Callbacks(s, ok) = Answers(b \div Width, (b + Len(s)) \div Width, ok)
<1>1. s \in Seq(Nat)
  BY BytesAreNumbers
<1> QED BY <1>1, CallbacksInOrder DEF Answers

\* What the socket takes leaves both ends where they agree.
LEMMA WriteStep ==
  ASSUME ChannelTypeOK, NEW x \in Ends, NEW bytes \in Seq(Bytes), NEW a \in Nat, NEW b \in Nat,
         Follows(bytes, b), b + Len(bytes) <= Width * MaxSends, written[x] = b \div Width,
         Carrying(Peer(x), a, b), bytes = <<>> \/ Open(Peer(x)), PipeWrite(x, bytes)
  PROVE  \E c \in Nat :
           /\ b <= c /\ c <= b + Len(bytes)
           /\ pending' \in [Ends -> Seq(Bytes)] /\ pending'[Peer(x)] = pending[Peer(x)]
           /\ Follows(pending'[x], c) /\ c + Len(pending'[x]) = b + Len(bytes)
           /\ written' \in [Ends -> 0..MaxSends] /\ written'[x] = c \div Width
           /\ written'[Peer(x)] = written[Peer(x)]
           /\ b \div Width \in Nat /\ c \div Width \in Nat /\ b \div Width <= c \div Width
           /\ c \div Width <= MaxSends
           /\ wire' \in [Ends -> Seq(Bytes)] /\ wire'[x] = wire[x]
           /\ Follows(wire'[Peer(x)], a) /\ Len(wire'[Peer(x)]) <= Capacity
           /\ a + Len(wire'[Peer(x)]) <= c /\ (Open(Peer(x)) => a + Len(wire'[Peer(x)]) = c)
           /\ ticks' \in [Ends -> Seq(Told)] /\ ticks'[Peer(x)] = ticks[Peer(x)]
           /\ ticks'[x] = ticks[x] \o Answers(b \div Width, c \div Width, TRUE)
           /\ ended' = ended
<1> DEFINE p == Peer(x)
           room == Capacity - Len(wire[p])
           n == Min({Len(bytes), room})
           to == SubSeq(bytes, 1, n)
           rest == SubSeq(bytes, n + 1, Len(bytes))
           c == b + n
<1>1. p \in Ends /\ p # x
  BY TwoEnds
<1>2. wire[p] \in Seq(Bytes) /\ Len(wire[p]) \in Nat /\ Len(bytes) \in Nat
  <2>1. wire[p] \in Seq(Bytes)
    BY <1>1, Fields
  <2> QED BY <2>1, BytesAreNumbers
<1>3. Follows(wire[p], a) /\ a + Len(wire[p]) <= b /\ (Open(p) => a + Len(wire[p]) = b) /\ room \in Nat
  BY <1>1, <1>2, Positive DEF Carrying
<1>4. n \in 0..Len(bytes) /\ n <= room
  <2>1. n \in {Len(bytes), room} /\ \A y \in {Len(bytes), room} : n <= y
    <3>1. \E y \in {Len(bytes), room} : \A z \in {Len(bytes), room} : y <= z
      BY <1>2, <1>3
    <3> QED BY <3>1 DEF Min
  <2> QED BY <1>2, <1>3, <2>1
<1>5. /\ wire' = [wire EXCEPT ![p] = @ \o to]
      /\ pending' = [pending EXCEPT ![x] = rest]
      /\ ticks' = [ticks EXCEPT ![x] = @ \o Callbacks(to, TRUE)]
      /\ written' = [written EXCEPT ![x] = @ + Cardinality(LineEnds(to))]
      /\ ended' = ended
  BY DEF PipeWrite
<1> HIDE DEF n
<1>6. /\ to \in Seq(Bytes) /\ Len(to) = n /\ Follows(to, b)
      /\ rest \in Seq(Bytes) /\ Len(rest) = Len(bytes) - n /\ Follows(rest, c)
  BY <1>4, PartFollows
<1> HIDE DEF to, rest
<1>7. c \in Nat /\ b <= c /\ c <= b + Len(bytes)
  BY <1>2, <1>4
<1>8. /\ Callbacks(to, TRUE) = Answers(b \div Width, c \div Width, TRUE)
      /\ b \div Width \in Nat /\ c \div Width \in Nat /\ b \div Width <= c \div Width
  BY <1>6, CallbacksAre
<1>9. c \div Width <= MaxSends
  <2>1. (Width * MaxSends) \div Width = MaxSends /\ Width * MaxSends \in Nat
    BY WholeLines, Positive
  <2>2. c <= Width * MaxSends
    BY <1>2, <1>7, <2>1
  <2> QED BY <1>7, <2>1, <2>2, Quotients
<1>10. Cardinality(LineEnds(to)) = c \div Width - b \div Width
  <2>1. to \in Seq(Nat)
    BY <1>6, BytesAreNumbers
  <2> QED BY <1>6, <2>1, CountAllLines
<1>11. written' \in [Ends -> 0..MaxSends] /\ written'[x] = c \div Width /\ written'[p] = written[p]
  <2>1. written \in [Ends -> 0..MaxSends]
    BY Fields
  <2>2. written[x] + Cardinality(LineEnds(to)) = c \div Width /\ c \div Width \in 0..MaxSends
    BY <1>8, <1>9, <1>10
  <2> QED BY <1>1, <1>5, <2>1, <2>2
<1>12. /\ pending' \in [Ends -> Seq(Bytes)] /\ pending'[p] = pending[p]
       /\ Follows(pending'[x], c) /\ c + Len(pending'[x]) = b + Len(bytes)
  <2>1. pending \in [Ends -> Seq(Bytes)]
    BY Fields
  <2>2. pending'[x] = rest /\ pending'[p] = pending[p] /\ pending' \in [Ends -> Seq(Bytes)]
    BY <1>1, <1>5, <1>6, <2>1
  <2>3. c + Len(rest) = b + Len(bytes)
    BY <1>2, <1>4, <1>6
  <2> QED BY <1>6, <2>2, <2>3
<1>13. /\ wire' \in [Ends -> Seq(Bytes)] /\ wire'[x] = wire[x]
       /\ Follows(wire'[p], a) /\ Len(wire'[p]) <= Capacity
       /\ a + Len(wire'[p]) <= c /\ (Open(p) => a + Len(wire'[p]) = c)
  <2>1. wire \in [Ends -> Seq(Bytes)]
    BY Fields
  <2>2. Follows(to, a + Len(wire[p]))
    <3>1. CASE bytes = <<>>
      <4>1. to = <<>>
        BY <1>4, <1>6, <3>1
      <4> QED BY <4>1, NothingFollows
    <3>2. CASE Open(p)
      BY <1>3, <1>6, <3>2
    <3> QED BY <3>1, <3>2
  <2> DEFINE all == wire[p] \o to
  <2>3. all \in Seq(Bytes) /\ Len(all) = Len(wire[p]) + n /\ Follows(all, a)
    BY <1>2, <1>3, <1>6, <2>2, MoreFollow
  <2>4. wire' = [wire EXCEPT ![p] = all]
    BY <1>5
  <2> HIDE DEF all
  <2>5. wire'[p] = all /\ wire'[x] = wire[x] /\ wire' \in [Ends -> Seq(Bytes)]
    BY <1>1, <2>1, <2>3, <2>4
  <2>6. Len(all) <= Capacity /\ a + Len(all) <= c /\ (Open(p) => a + Len(all) = c)
    <3>1. Len(all) = Len(wire[p]) + n /\ n \in Nat /\ n <= Capacity - Len(wire[p])
      BY <1>2, <1>4, <2>3
    <3>2. Len(all) <= Capacity
      BY <1>2, <3>1, Positive
    <3>3. a + Len(all) = (a + Len(wire[p])) + n
      BY <1>2, <3>1
    <3> HIDE DEF c
    <3>4. c = b + n
      BY DEF c
    <3>5. a + Len(all) <= c /\ (Open(p) => a + Len(all) = c)
      BY SMTT(60), <1>2, <1>3, <3>1, <3>3, <3>4
    <3> QED BY <3>2, <3>5
  <2> QED BY <2>3, <2>5, <2>6
<1>14. /\ ticks' \in [Ends -> Seq(Told)] /\ ticks'[p] = ticks[p]
       /\ ticks'[x] = ticks[x] \o Answers(b \div Width, c \div Width, TRUE)
  <2>1. ticks \in [Ends -> Seq(Told)]
    BY Fields
  <2>2. Answers(b \div Width, c \div Width, TRUE) \in Seq(Told)
    BY <1>8, <1>9, AnswersWell
  <2>3. ticks[x] \o Answers(b \div Width, c \div Width, TRUE) \in Seq(Told)
    <3>1. ticks[x] \in Seq(Told)
      BY <2>1
    <3> QED BY <2>2, <3>1, ConcatProperties
  <2> QED BY <1>1, <1>5, <1>8, <2>1, <2>3
<1> QED BY <1>5, <1>7, <1>8, <1>9, <1>11, <1>12, <1>13, <1>14

\* A close answers for the bytes that were not taken, and announces itself.
LEMMA CloseStep ==
  ASSUME ChannelTypeOK, NEW x \in Ends, NEW bytes \in Seq(Bytes), NEW b \in Nat, NEW why \in {"local", "eof", "epipe"},
         Follows(bytes, b), b + Len(bytes) <= Width * MaxSends, CloseWith(x, bytes, why)
  PROVE  /\ pending' \in [Ends -> Seq(Bytes)] /\ pending'[x] = <<>> /\ pending'[Peer(x)] = pending[Peer(x)]
         /\ wire' \in [Ends -> Seq(Bytes)] /\ wire'[x] = <<>> /\ wire'[Peer(x)] = wire[Peer(x)]
         /\ ended' \in [Ends -> {"no", "local", "eof", "epipe"}]
         /\ ended'[x] = (IF Connected(x) THEN why ELSE ended[x]) /\ ended'[x] # "no"
         /\ ended'[Peer(x)] = ended[Peer(x)]
         /\ ticks' \in [Ends -> Seq(Told)] /\ ticks'[Peer(x)] = ticks[Peer(x)]
         /\ ticks'[x] = ticks[x] \o Answers(b \div Width, (b + Len(bytes)) \div Width, FALSE) \o <<DisconnectEvent>>
         /\ b \div Width \in Nat /\ (b + Len(bytes)) \div Width \in Nat
         /\ b \div Width <= (b + Len(bytes)) \div Width /\ (b + Len(bytes)) \div Width <= MaxSends
         /\ written' = written
<1> DEFINE p == b \div Width
           q == (b + Len(bytes)) \div Width
<1>1. Peer(x) \in Ends /\ Peer(x) # x
  BY TwoEnds
<1>2. p \in Nat /\ q \in Nat /\ p <= q /\ Callbacks(bytes, FALSE) = Answers(p, q, FALSE)
  BY CallbacksAre
<1>3. q <= MaxSends
  <2>1. (Width * MaxSends) \div Width = MaxSends /\ Width * MaxSends \in Nat /\ b + Len(bytes) \in Nat
    BY WholeLines, Positive
  <2> QED BY <2>1, Quotients
<1> HIDE DEF p, q
<1>4. Answers(p, q, FALSE) \in Seq(Told)
  BY <1>2, <1>3, AnswersBadly
<1>5. DisconnectEvent \in Told
  BY Positive DEF DisconnectEvent, Callback, Told
<1>6. ticks[x] \o Answers(p, q, FALSE) \o <<DisconnectEvent>> \in Seq(Told)
  <2>1. ticks[x] \in Seq(Told) /\ <<DisconnectEvent>> \in Seq(Told)
    BY <1>5, Fields
  <2>2. ticks[x] \o Answers(p, q, FALSE) \in Seq(Told)
    BY <1>4, <2>1, ConcatProperties
  <2> QED BY <2>1, <2>2, ConcatProperties
<1>7. /\ ticks' = [ticks EXCEPT ![x] = @ \o Answers(p, q, FALSE) \o <<DisconnectEvent>>]
      /\ pending' = [pending EXCEPT ![x] = <<>>]
      /\ wire' = [wire EXCEPT ![x] = <<>>]
      /\ ended' = [ended EXCEPT ![x] = IF Connected(x) THEN why ELSE @]
      /\ written' = written
  BY <1>2 DEF CloseWith
<1>8. <<>> \in Seq(Bytes)
  OBVIOUS
<1> QED BY <1>1, <1>2, <1>3, <1>6, <1>7, <1>8, Fields DEF p, q, Connected

------------------------------------------------------------------------------
(* The invariant, and what leaves its parts alone.                         *)

\* The bytes from the peer of e to e.
Arriving(e) ==
  \E a, b, k, j \in Nat : Sending(Peer(e), b) /\ Carrying(e, a, b) /\ Receiving(e, a, k, j)

\* The inductive invariant.
ChannelInv ==
  /\ ChannelTypeOK
  /\ \A e \in Ends : Reporting(e) /\ EndOfChannel(e) /\ Arriving(e)

\* Nothing was told or queued by a step.
LEMMA ReportsSame ==
  ASSUME NEW e, Reporting(e), results'[e] = results[e], ticks'[e] = ticks[e], written'[e] = written[e],
         Open(e)' => Open(e)
  PROVE  Reporting(e)'
BY DEF Reporting

\* A sender a step leaves alone.
LEMMA SendsSame ==
  ASSUME NEW e, NEW b, Sending(e, b), sent'[e] = sent[e], written'[e] = written[e], pending'[e] = pending[e],
         Open(e)' => Open(e)
  PROVE  Sending(e, b)'
BY DEF Sending

\* A direction of the socket a step leaves alone.
LEMMA CarriesSame ==
  ASSUME NEW e, NEW a, NEW b, Carrying(e, a, b), wire'[e] = wire[e], Open(e)' => Open(e)
  PROVE  Carrying(e, a, b)'
BY DEF Carrying

\* A direction whose reader closed or ended.
LEMMA CarriesNothing ==
  ASSUME NEW e \in Ends, NEW a \in Nat, NEW b \in Nat, ChannelTypeOK, Carrying(e, a, b),
         wire'[e] = <<>>, ~Open(e)'
  PROVE  Carrying(e, a, b)'
<1>1. Len(wire[e]) \in Nat /\ a + Len(wire[e]) <= b
  BY Fields, BytesAreNumbers DEF Carrying
<1>2. Follows(<<>>, a) /\ Len(<<>>) = 0
  BY NothingFollows
<1> QED BY <1>1, <1>2, Positive DEF Carrying

\* A receiver a step leaves alone.
LEMMA ReceivesSame ==
  ASSUME NEW e, NEW a, NEW k, NEW j, Receiving(e, a, k, j), got'[e] = got[e], input'[e] = input[e],
         buffer'[e] = buffer[e], Splits(e)' <=> Splits(e), e \in up' => e \in up, e \in threw => e \in threw'
  PROVE  Receiving(e, a, k, j)'
BY DEF Receiving, Latest

\* An end a step leaves alone; its peer may close.
LEMMA ClosingSame ==
  ASSUME NEW e, EndOfChannel(e), thread'[e] = thread[e], ended'[e] = ended[e], pending'[e] = pending[e],
         told'[e] = told[e], ticks'[e] = ticks[e], got'[e] = got[e], e \in up' <=> e \in up,
         e \in threw => e \in threw', Open(Peer(e))' => Open(Peer(e)),
         ended[e] = "eof" => written'[Peer(e)] = written[Peer(e)]
  PROVE  EndOfChannel(e)'
BY DEF EndOfChannel, Open, Connected

\* What the socket took is told, after what was told before.
LEMMA ReportsWritten ==
  ASSUME NEW e \in Ends, ChannelTypeOK, Reporting(e), Open(e), results'[e] = results[e],
         NEW p \in Nat, NEW q \in Nat, p <= q, q <= MaxSends, written[e] = p, written'[e] = q,
         ticks'[e] = ticks[e] \o Answers(p, q, TRUE)
  PROVE  Reporting(e)'
<1> DEFINE t == ticks[e]
           u == Answers(p, q, TRUE)
           r == Len(results[e])
<1>1. t \in Seq(Told) /\ Len(t) \in Nat /\ r \in Nat
  BY Fields
<1>2. /\ u \in Seq(Told) /\ Len(u) = q - p
      /\ \A i \in 1..(q - p) : u[i].message = p + i /\ u[i].ok = TRUE /\ u[i] # DisconnectEvent
  <2>1. Len(Answers(p, q, TRUE)) = q - p
    BY AnswersWell
  <2>2. Answers(p, q, TRUE) \in Seq(Told)
    BY AnswersWell
  <2>3. \A i \in 1..(q - p) : /\ Answers(p, q, TRUE)[i].message = p + i
                              /\ Answers(p, q, TRUE)[i].ok = TRUE
                              /\ Answers(p, q, TRUE)[i] # DisconnectEvent
    BY AnswersWell
  <2> QED BY <2>1, <2>2, <2>3
<1>3. r + Len(t) = p /\ \A i \in 1..Len(t) : /\ t[i] # DisconnectEvent
                                             /\ t[i].message = r + i /\ (t[i].ok <=> t[i].message <= p)
  BY DEF Reporting
<1>4. Len(t \o u) = Len(t) + (q - p)
      /\ \A i \in 1..(Len(t) + (q - p)) : (t \o u)[i] = IF i <= Len(t) THEN t[i] ELSE u[i - Len(t)]
  <2> HIDE DEF t, u
  <2>1. Len(t \o u) = Len(t) + Len(u)
    BY ZenonT(60), <1>1, <1>2, ConcatProperties
  <2>2. \A i \in 1..(Len(t) + Len(u)) : (t \o u)[i] = IF i <= Len(t) THEN t[i] ELSE u[i - Len(t)]
    BY <1>1, <1>2, ConcatProperties
  <2> QED BY <1>2, <2>1, <2>2
<1> DEFINE v == t \o u
<1>5. ticks'[e] = v /\ Len(results'[e]) = r
  OBVIOUS
<1> HIDE DEF t, u, v, r
<1>6. \A i \in 1..Len(v) : v[i] # DisconnectEvent /\ v[i].message = r + i /\ (v[i].ok <=> v[i].message <= q)
  <2> TAKE i \in 1..Len(v)
  <2>1. CASE i <= Len(t)
    <3>1. i \in 1..Len(t) /\ v[i] = t[i]
      BY <1>1, <1>4, <2>1 DEF v
    <3>2. r + i <= p
      BY <1>1, <1>3, <3>1
    <3> QED BY <1>1, <1>3, <3>1, <3>2
  <2>2. CASE i > Len(t)
    <3>1. i - Len(t) \in 1..(q - p) /\ v[i] = u[i - Len(t)]
      BY <1>1, <1>4, <2>2 DEF v
    <3>2. i \in Nat
      BY <2>2
    <3>3. r + Len(t) = p
      BY <1>3
    <3>4. p + (i - Len(t)) = r + i /\ r + i <= q
      BY SMTT(60), <1>1, <3>1, <3>2, <3>3
    <3> QED BY <1>2, <3>1, <3>4
  <2> QED BY <1>1, <1>4, <2>1, <2>2 DEF v
<1>7. \A i \in 1..r : results[e][i].message = i /\ results[e][i].ok /\ i <= q
  <2>1. \A i \in 1..r : results[e][i].message = i /\ (results[e][i].ok <=> i <= p) /\ i <= p
    BY <1>1, <1>3 DEF Reporting, r
  <2> QED BY <2>1
<1>8. r + Len(v) = q
  BY <1>1, <1>3, <1>4 DEF v
<1>9. \A i \in 1..Len(v) : \A j \in 1..i : j \in 1..Len(v)
  BY <1>1, <1>4 DEF v
<1> QED BY ZenonT(60), <1>5, <1>6, <1>7, <1>8, <1>9 DEF Reporting, r

\* A close fails what was not taken, and is announced after that.
LEMMA ReportsClosed ==
  ASSUME NEW e \in Ends, ChannelTypeOK, Reporting(e), results'[e] = results[e],
         NEW p \in Nat, NEW q \in Nat, p <= q, q <= MaxSends, written[e] = p, written'[e] = p,
         Open(e) \/ p = q, ~Open(e)',
         ticks'[e] = ticks[e] \o Answers(p, q, FALSE) \o <<DisconnectEvent>>
  PROVE  /\ Reporting(e)'
         /\ Open(e) => \A i \in 1..Len(ticks'[e]) :
                         ticks'[e][i] = DisconnectEvent => i = Len(ticks'[e])
<1> DEFINE t == ticks[e]
           u == Answers(p, q, FALSE)
           d == <<DisconnectEvent>>
           r == Len(results[e])
<1>1. t \in Seq(Told) /\ Len(t) \in Nat /\ r \in Nat
  BY Fields
<1>2. /\ u \in Seq(Told) /\ Len(u) = q - p
      /\ \A i \in 1..(q - p) : u[i].message = p + i /\ u[i].ok = FALSE /\ u[i] # DisconnectEvent
  <2>1. Len(Answers(p, q, FALSE)) = q - p
    BY AnswersBadly
  <2>2. Answers(p, q, FALSE) \in Seq(Told)
    BY AnswersBadly
  <2>3. \A i \in 1..(q - p) : /\ Answers(p, q, FALSE)[i].message = p + i
                              /\ Answers(p, q, FALSE)[i].ok = FALSE
                              /\ Answers(p, q, FALSE)[i] # DisconnectEvent
    BY AnswersBadly
  <2> QED BY <2>1, <2>2, <2>3
<1>3. d \in Seq(Told) /\ Len(d) = 1 /\ d[1] = DisconnectEvent
  BY Positive DEF Told, DisconnectEvent, Callback
<1>4. \A i \in 1..Len(t) : t[i] # DisconnectEvent =>
        /\ t[i].message = r + i /\ (t[i].ok <=> t[i].message <= p)
        /\ \A j \in 1..i : t[j] # DisconnectEvent
  BY DEF Reporting
<1>5. p # q => r + Len(t) = p /\ \A i \in 1..Len(t) : t[i] # DisconnectEvent
  BY DEF Reporting
<1> DEFINE w == t \o u
           v == w \o d
<1>6. ticks'[e] = v /\ Len(results'[e]) = r
  OBVIOUS
<1> HIDE DEF t, u, d, r
<1>7. /\ w \in Seq(Told) /\ Len(w) = Len(t) + (q - p)
      /\ \A i \in 1..(Len(t) + (q - p)) : w[i] = IF i <= Len(t) THEN t[i] ELSE u[i - Len(t)]
  <2>1. Len(w) = Len(t) + Len(u) /\ w \in Seq(Told)
    BY <1>1, <1>2, ConcatProperties
  <2>2. \A i \in 1..(Len(t) + Len(u)) : w[i] = IF i <= Len(t) THEN t[i] ELSE u[i - Len(t)]
    BY <1>1, <1>2, ConcatProperties
  <2> QED BY <1>2, <2>1, <2>2
<1> HIDE DEF w
<1>8. Len(v) = Len(w) + 1 /\ \A i \in 1..(Len(w) + 1) : v[i] = IF i <= Len(w) THEN w[i] ELSE DisconnectEvent
  <2>1. Len(v) = Len(w) + Len(d)
    BY <1>3, <1>7, ConcatProperties
  <2>2. \A i \in 1..(Len(w) + Len(d)) : v[i] = IF i <= Len(w) THEN w[i] ELSE d[i - Len(w)]
    BY <1>3, <1>7, ConcatProperties
  <2>3. \A i \in 1..(Len(w) + 1) : i > Len(w) => i - Len(w) = 1
    BY <1>1, <1>7
  <2> QED BY <1>3, <2>1, <2>2, <2>3
<1> HIDE DEF v
<1>9. ASSUME NEW i \in 1..Len(v), v[i] # DisconnectEvent
      PROVE  /\ v[i].message = r + i /\ (v[i].ok <=> v[i].message <= p)
             /\ \A j \in 1..i : v[j] # DisconnectEvent
  <2>1. i \in Nat /\ i <= Len(w) /\ i >= 1
    BY <1>1, <1>7, <1>8, <1>9
  <2>2. \A j \in 1..i : j \in Nat /\ j >= 1 /\ v[j] = w[j]
    <3>1. Len(w) \in Nat
      BY <1>7
    <3>2. \A j \in 1..i : j \in 1..(Len(w) + 1) /\ j <= Len(w) /\ j \in Nat /\ j >= 1
      BY <2>1, <3>1
    <3> QED BY <1>8, <3>2
  <2>3. CASE i <= Len(t)
    <3>1. \A j \in 1..i : j \in 1..Len(t) /\ v[j] = t[j]
      BY <1>1, <1>7, <2>1, <2>2, <2>3
    <3>2. i \in 1..Len(t) /\ v[i] = t[i] /\ i \in 1..i
      BY <1>1, <2>1, <2>3, <3>1
    <3> QED BY <1>4, <1>9, <3>1, <3>2
  <2>4. CASE i > Len(t)
    <3>1. i - Len(t) \in 1..(q - p) /\ v[i] = u[i - Len(t)]
      BY <1>1, <1>7, <2>1, <2>2, <2>4
    <3>2. p # q
      BY <3>1
    <3>3. r + Len(t) = p /\ \A j \in 1..Len(t) : t[j] # DisconnectEvent
      BY <1>5, <3>2
    <3>4. p + (i - Len(t)) = r + i /\ r + i > p
      <4>1. r + Len(t) = p
        BY <3>3
      <4>2. i - Len(t) >= 1
        BY <3>1
      <4> QED BY <1>1, <2>1, <4>1, <4>2
    <3>5. \A j \in 1..i : v[j] # DisconnectEvent
      <4> TAKE j \in 1..i
      <4>1. j \in Nat /\ j >= 1 /\ v[j] = w[j] /\ j <= i
        BY <2>1, <2>2
      <4>2. CASE j <= Len(t)
        BY SMTT(60), <1>1, <1>7, <2>1, <3>3, <4>1, <4>2
      <4>3. CASE j > Len(t)
        <5>1. j - Len(t) \in 1..(q - p) /\ v[j] = u[j - Len(t)]
          BY <1>1, <1>7, <2>1, <4>1, <4>3
        <5> QED BY <1>2, <5>1
      <4> QED BY <1>1, <4>1, <4>2, <4>3
    <3>6. v[i].message = r + i /\ v[i].ok = FALSE
      BY <1>2, <3>1, <3>4
    <3>7. ~(v[i].message <= p)
      BY <1>1, <2>1, <3>4, <3>6
    <3> QED BY <3>5, <3>6, <3>7
  <2> QED BY <1>1, <2>1, <2>3, <2>4
<1>10. \A i \in 1..Len(ticks'[e]) : ticks'[e][i] # DisconnectEvent =>
         /\ ticks'[e][i].message = Len(results'[e]) + i
         /\ ticks'[e][i].ok <=> ticks'[e][i].message <= written'[e]
         /\ \A j \in 1..i : ticks'[e][j] # DisconnectEvent
  BY <1>6, <1>9
<1>11. \A i \in 1..Len(results'[e]) :
         results'[e][i].message = i /\ (results'[e][i].ok <=> i <= written'[e])
  BY DEF Reporting
<1>12. ASSUME Open(e), NEW i \in 1..Len(v), i # Len(v) PROVE v[i] # DisconnectEvent
  <2>1. \A k \in 1..Len(t) : t[k] # DisconnectEvent
    BY <1>12 DEF Reporting, t
  <2>2. i \in 1..Len(w) /\ v[i] = w[i] /\ i \in Nat
    <3>1. Len(w) \in Nat
      BY <1>7
    <3>2. i \in 1..(Len(w) + 1) /\ i # Len(w) + 1
      BY <1>8, <1>12
    <3> QED BY <1>8, <3>1, <3>2
  <2>3. CASE i <= Len(t)
    BY SMTT(60), <1>1, <1>7, <2>1, <2>2, <2>3
  <2>4. CASE i > Len(t)
    <3>1. i - Len(t) \in 1..(q - p) /\ v[i] = u[i - Len(t)]
      BY <1>1, <1>7, <2>2, <2>4
    <3> QED BY <1>2, <3>1
  <2> QED BY <1>1, <2>2, <2>3, <2>4
<1>13. Reporting(e)'
  BY <1>10, <1>11 DEF Reporting
<1>14. Open(e) => \A i \in 1..Len(ticks'[e]) : ticks'[e][i] = DisconnectEvent => i = Len(ticks'[e])
  BY <1>6, <1>12
<1> QED BY <1>13, <1>14

\* A flush leaves what is under way, and what was told, as it should be.
LEMMA FlushStep ==
  ASSUME ChannelTypeOK, NEW x \in Ends, Open(x), \A e \in Ends : Reporting(e), EndOfChannel(x),
         NEW bytes \in Seq(Bytes), NEW a \in Nat, NEW b \in Nat, NEW n \in 0..MaxSends,
         Sending(x, b), Carrying(Peer(x), a, b), Follows(bytes, b), b + Len(bytes) = Width * n,
         Flush(x, bytes), sent'[x] = n, sent'[Peer(x)] = sent[Peer(x)],
         UNCHANGED <<up, results, told, threw>>
  PROVE  /\ pending' \in [Ends -> Seq(Bytes)] /\ wire' \in [Ends -> Seq(Bytes)]
         /\ ticks' \in [Ends -> Seq(Told)] /\ written' \in [Ends -> 0..MaxSends]
         /\ ended' \in [Ends -> {"no", "local", "eof", "epipe"}]
         /\ \E c \in Nat : Sending(x, c)' /\ Carrying(Peer(x), a, c)'
         /\ Reporting(x)' /\ Reporting(Peer(x))'
         /\ \A c \in Nat, d \in Nat : Carrying(x, c, d) => Carrying(x, c, d)'
         /\ \A c \in Nat : Sending(Peer(x), c) => Sending(Peer(x), c)'
         /\ ended'[x] \in {"no", "epipe"} /\ (ended'[x] # "no" => pending'[x] = <<>>)
         /\ ended'[Peer(x)] = ended[Peer(x)] /\ pending'[Peer(x)] = pending[Peer(x)]
         /\ ticks'[Peer(x)] = ticks[Peer(x)] /\ written'[Peer(x)] = written[Peer(x)]
<1> DEFINE p == Peer(x)
<1>1. p \in Ends /\ p # x /\ Peer(p) = x
  BY TwoEnds
<1>2. Len(bytes) \in Nat /\ Width * n \in Nat /\ Width * n <= Width * MaxSends /\ MaxSends \in Nat
  BY Products, BytesAreNumbers, Positive
<1>3. b + Len(bytes) <= Width * MaxSends /\ b <= Width * n
  BY <1>2
<1>4. x \in up /\ ended[x] = "no" /\ up' = up /\ written[x] = b \div Width
  BY DEF Open, Connected, Sending
<1>5. CASE bytes # <<>> /\ ~Open(p)
  <2>1. CloseWith(x, bytes, "epipe")
    BY <1>5 DEF Flush
  <2>2. /\ pending' \in [Ends -> Seq(Bytes)] /\ pending'[x] = <<>> /\ pending'[p] = pending[p]
        /\ wire' \in [Ends -> Seq(Bytes)] /\ wire'[x] = <<>> /\ wire'[p] = wire[p]
        /\ ended' \in [Ends -> {"no", "local", "eof", "epipe"}]
        /\ ended'[x] = "epipe" /\ ended'[p] = ended[p]
        /\ ticks' \in [Ends -> Seq(Told)] /\ ticks'[p] = ticks[p]
        /\ ticks'[x] = ticks[x] \o Answers(b \div Width, (b + Len(bytes)) \div Width, FALSE) \o <<DisconnectEvent>>
        /\ b \div Width \in Nat /\ (b + Len(bytes)) \div Width \in Nat
        /\ b \div Width <= (b + Len(bytes)) \div Width /\ (b + Len(bytes)) \div Width <= MaxSends
        /\ written' = written
    BY <1>3, <1>4, <2>1, CloseStep DEF Connected
  <2>3. ~Open(x)' /\ (Open(p)' <=> Open(p))
    BY <1>4, <2>2 DEF Open, Connected
  <2>4. Sending(x, b)'
    BY <1>3, <1>4, <2>2, <2>3 DEF Sending
  <2>5. Carrying(p, a, b)'
    BY <2>2, <2>3, CarriesSame
  <2>6. Reporting(x)'
    <3>1. results'[x] = results[x] /\ written'[x] = b \div Width
      BY <1>4, <2>2
    <3> QED BY <1>4, <2>2, <2>3, <3>1, ReportsClosed
  <2>7. Reporting(p)'
    <3>1. results'[p] = results[p] /\ written'[p] = written[p] /\ Reporting(p)
      BY <1>1, <2>2
    <3> QED BY <2>2, <2>3, <3>1, ReportsSame
  <2>8. \A c \in Nat, d \in Nat : Carrying(x, c, d) => Carrying(x, c, d)'
    BY <2>2, <2>3, CarriesNothing
  <2>9. \A c \in Nat : Sending(p, c) => Sending(p, c)'
    <3>1. written'[p] = written[p]
      BY <2>2
    <3> QED BY <2>2, <2>3, <3>1, SendsSame
  <2>10. written' \in [Ends -> 0..MaxSends]
    BY <2>2, Fields
  <2> QED BY <2>2, <2>4, <2>5, <2>6, <2>7, <2>8, <2>9, <2>10
<1>6. CASE bytes = <<>> \/ Open(p)
  <2>1. PipeWrite(x, bytes)
    BY <1>6 DEF Flush
  <2>2. PICK c \in Nat :
           /\ b <= c /\ c <= b + Len(bytes)
           /\ pending' \in [Ends -> Seq(Bytes)] /\ pending'[p] = pending[p]
           /\ Follows(pending'[x], c) /\ c + Len(pending'[x]) = b + Len(bytes)
           /\ written' \in [Ends -> 0..MaxSends] /\ written'[x] = c \div Width /\ written'[p] = written[p]
           /\ b \div Width \in Nat /\ c \div Width \in Nat /\ b \div Width <= c \div Width
           /\ c \div Width <= MaxSends
           /\ wire' \in [Ends -> Seq(Bytes)] /\ wire'[x] = wire[x]
           /\ Follows(wire'[p], a) /\ Len(wire'[p]) <= Capacity
           /\ a + Len(wire'[p]) <= c /\ (Open(p) => a + Len(wire'[p]) = c)
           /\ ticks' \in [Ends -> Seq(Told)] /\ ticks'[p] = ticks[p]
           /\ ticks'[x] = ticks[x] \o Answers(b \div Width, c \div Width, TRUE)
           /\ ended' = ended
    BY ZenonT(60), <1>3, <1>4, <1>6, <2>1, WriteStep
  <2>3. Open(x)' /\ (Open(p)' <=> Open(p))
    BY <1>4, <2>2 DEF Open, Connected
  <2>4. Sending(x, c)'
    BY <1>3, <2>2 DEF Sending
  <2>5. Carrying(p, a, c)'
    BY <2>2, <2>3 DEF Carrying
  <2>6. Reporting(x)'
    <3>1. results'[x] = results[x] /\ written'[x] = c \div Width /\ Reporting(x)
      BY <2>2
    <3> QED BY <1>4, <2>2, <3>1, ReportsWritten
  <2>7. Reporting(p)'
    <3>1. results'[p] = results[p] /\ written'[p] = written[p] /\ Reporting(p)
      BY <1>1, <2>2
    <3> QED BY <2>2, <2>3, <3>1, ReportsSame
  <2>8. \A d \in Nat, f \in Nat : Carrying(x, d, f) => Carrying(x, d, f)'
    BY <2>2, CarriesSame
  <2>9. \A d \in Nat : Sending(p, d) => Sending(p, d)'
    BY <2>2, <2>3, SendsSame
  <2>10. ended' \in [Ends -> {"no", "local", "eof", "epipe"}] /\ ended'[x] = "no" /\ ended'[p] = ended[p]
    BY <1>4, <2>2, Fields
  <2> QED BY <2>2, <2>4, <2>5, <2>6, <2>7, <2>8, <2>9, <2>10
<1> QED BY <1>5, <1>6

------------------------------------------------------------------------------
(* Every step of both ends.                                                *)

\* The invariant of an end and its peer is that of both ends.
LEMMA BothEnds ==
  ASSUME NEW x \in Ends, ChannelTypeOK',
         Reporting(x)', EndOfChannel(x)', Arriving(x)',
         Reporting(Peer(x))', EndOfChannel(Peer(x))', Arriving(Peer(x))'
  PROVE  ChannelInv'
<1>1. ASSUME NEW e \in Ends PROVE Reporting(e)' /\ EndOfChannel(e)' /\ Arriving(e)'
  <2>1. e = x \/ e = Peer(x)
    BY TwoEnds
  <2> QED BY <2>1
<1> QED BY <1>1 DEF ChannelInv

\* What the other end is left with by a step that neither writes nor closes.
LEMMA PeerSame ==
  ASSUME ChannelInv, NEW x \in Ends,
         LET p == Peer(x) IN
           /\ results'[p] = results[p] /\ ticks'[p] = ticks[p] /\ written'[p] = written[p]
           /\ thread'[p] = thread[p] /\ caller'[p] = caller[p] /\ ended'[p] = ended[p]
           /\ pending'[p] = pending[p] /\ told'[p] = told[p] /\ got'[p] = got[p]
           /\ p \in up' <=> p \in up
           /\ p \in threw' <=> p \in threw
           /\ Open(x)' => Open(x)
           /\ written'[x] = written[x] \/ Open(x)
  PROVE  Reporting(Peer(x))' /\ EndOfChannel(Peer(x))'
<1> DEFINE p == Peer(x)
<1>1. p \in Ends /\ Peer(p) = x
  BY TwoEnds
<1>2. Reporting(p) /\ EndOfChannel(p)
  BY <1>1 DEF ChannelInv
<1>3. Open(p)' => Open(p)
  BY DEF Open, Connected
<1>4. ended[p] = "eof" => ~Open(x)
  BY <1>1, <1>2 DEF EndOfChannel
<1>5. Reporting(p)'
  BY <1>2, <1>3, ReportsSame
<1>6. EndOfChannel(p)'
  BY <1>1, <1>2, <1>4, ClosingSame
<1> QED BY <1>5, <1>6

\* A step of an end that flushes and goes on.
LEMMA FlushKeeps ==
  ASSUME ChannelInv, NEW x \in Ends, Open(x), NEW bytes \in Seq(Bytes), NEW n \in 0..MaxSends,
         \A b \in Nat : Sending(x, b) => Follows(bytes, b) /\ b + Len(bytes) = Width * n,
         Flush(x, bytes), sent' = [sent EXCEPT ![x] = n],
         UNCHANGED <<up, input, buffer, on, ref, got, threw, results, told>>,
         thread' \in [Ends -> {"idle", "reading", "splitting", "listening", "closing"}],
         caller' \in [Ends -> {"idle", "listening"}],
         thread'[Peer(x)] = thread[Peer(x)], caller'[Peer(x)] = caller[Peer(x)],
         Splits(x)' <=> Splits(x), thread'[x] = "reading" => ended'[x] = "no"
  PROVE  ChannelInv'
<1> DEFINE p == Peer(x)
<1>1. p \in Ends /\ p # x /\ Peer(p) = x
  BY TwoEnds
<1>2. ChannelTypeOK /\ Reporting(x) /\ EndOfChannel(x) /\ Arriving(x) /\ Reporting(p) /\ EndOfChannel(p) /\ Arriving(p)
      /\ \A e \in Ends : Reporting(e)
  BY <1>1 DEF ChannelInv
<1>3. PICK a \in Nat, b \in Nat, k \in Nat, j \in Nat : Sending(x, b) /\ Carrying(p, a, b) /\ Receiving(p, a, k, j)
  BY <1>1, <1>2 DEF Arriving
<1>4. PICK a2 \in Nat, b2 \in Nat, k2 \in Nat, j2 \in Nat :
        Sending(p, b2) /\ Carrying(x, a2, b2) /\ Receiving(x, a2, k2, j2)
  BY <1>2 DEF Arriving
<1>5. sent' \in [Ends -> 0..MaxSends] /\ sent'[x] = n /\ sent'[p] = sent[p]
  BY <1>1, <1>2, Fields
<1>6. Follows(bytes, b) /\ b + Len(bytes) = Width * n
  BY <1>3
<1>7. /\ pending' \in [Ends -> Seq(Bytes)] /\ wire' \in [Ends -> Seq(Bytes)]
      /\ ticks' \in [Ends -> Seq(Told)] /\ written' \in [Ends -> 0..MaxSends]
      /\ ended' \in [Ends -> {"no", "local", "eof", "epipe"}]
      /\ \E c \in Nat : Sending(x, c)' /\ Carrying(p, a, c)'
      /\ Reporting(x)' /\ Reporting(p)'
      /\ \A c \in Nat, d \in Nat : Carrying(x, c, d) => Carrying(x, c, d)'
      /\ \A c \in Nat : Sending(p, c) => Sending(p, c)'
      /\ ended'[x] \in {"no", "epipe"} /\ (ended'[x] # "no" => pending'[x] = <<>>)
      /\ ended'[p] = ended[p] /\ pending'[p] = pending[p]
      /\ ticks'[p] = ticks[p] /\ written'[p] = written[p]
  BY <1>2, <1>3, <1>5, <1>6, FlushStep
<1>8. x \in up /\ ended[x] = "no" /\ up' = up
  BY DEF Open, Connected
<1>9. ChannelTypeOK'
  <2>1. /\ input' \in [Ends -> Seq(Bytes)] /\ buffer' \in [Ends -> Seq(Bytes)]
        /\ results' \in [Ends -> Seq(Told)] /\ got' \in [Ends -> Seq(1..MaxSends)] /\ told' \in [Ends -> Nat]
    BY <1>2, Fields
  <2>2. up' \subseteq Ends /\ on' \in [Ends -> SUBSET Events] /\ ref' \in [Ends -> BOOLEAN] /\ threw' \subseteq Throwing
    BY <1>2 DEF ChannelTypeOK
  <2> QED BY <1>5, <1>7, <2>1, <2>2, FieldsAfter
<1>10. Arriving(p)'
  <2>1. Splits(p)' <=> Splits(p)
    BY DEF Splits
  <2>2. Receiving(p, a, k, j)'
    BY <1>3, <2>1, ReceivesSame
  <2>3. PICK c \in Nat : Sending(x, c)' /\ Carrying(p, a, c)'
    BY <1>7
  <2>4. Peer(p)' = x
    BY <1>1
  <2> QED BY <1>1, <2>2, <2>3 DEF Arriving
<1>11. Arriving(x)'
  <2>1. Receiving(x, a2, k2, j2)'
    BY <1>4, ReceivesSame
  <2>2. Sending(p, b2)' /\ Carrying(x, a2, b2)'
    BY <1>4, <1>7
  <2> QED BY <2>1, <2>2 DEF Arriving
<1>12. EndOfChannel(p)'
  <2>1. ended[p] # "eof"
    BY <1>1, <1>2 DEF EndOfChannel
  <2>2. Open(x)' => Open(x)
    OBVIOUS
  <2> QED BY <1>1, <1>2, <1>7, <2>1, ClosingSame
<1>13. EndOfChannel(x)'
  <2>1. told'[x] = 0
    <3>1. told[x] = 0
      BY <1>2, <1>8 DEF EndOfChannel
    <3> QED BY <3>1
  <2>2. Open(x)' <=> ended'[x] = "no"
    BY <1>8 DEF Open, Connected
  <2> QED BY <1>7, <1>8, <2>1, <2>2 DEF EndOfChannel
<1> QED BY <1>1, <1>7, <1>9, <1>10, <1>11, <1>12, <1>13, BothEnds

\* What is pending at an open end follows what was taken, up to its last message.
LEMMA PendingIsAll ==
  ASSUME ChannelInv, NEW x \in Ends, Open(x)
  PROVE  /\ pending[x] \in Seq(Bytes) /\ sent[x] \in 0..MaxSends
         /\ \A b \in Nat : Sending(x, b) => Follows(pending[x], b) /\ b + Len(pending[x]) = Width * sent[x]
         /\ sent = [sent EXCEPT ![x] = sent[x]]
BY Fields DEF ChannelInv, Sending

\* send().
LEMMA SendKeeps ==
  ASSUME ChannelInv, NEW x \in Ends, Send(x)
  PROVE  ChannelInv'
<1> DEFINE bytes == pending[x] \o Line(sent[x] + 1)
<1>1. Open(x) /\ sent[x] < MaxSends /\ sent' = [sent EXCEPT ![x] = sent[x] + 1] /\ Flush(x, bytes)
      /\ UNCHANGED <<up, thread, caller, input, buffer, on, ref, got, threw, results, told>>
  BY DEF Send, ProgramRuns, Open, listeners
<1>2. /\ pending[x] \in Seq(Bytes) /\ sent[x] \in 0..MaxSends
      /\ \A b \in Nat : Sending(x, b) => Follows(pending[x], b) /\ b + Len(pending[x]) = Width * sent[x]
  BY <1>1, PendingIsAll
<1> DEFINE m == sent[x]
<1>3. m \in Nat /\ m + 1 \in 0..MaxSends /\ m + 1 <= MaxSends
  BY <1>1, <1>2, Positive
<1> HIDE DEF m
<1>4. /\ Line(m + 1) \in Seq(Bytes) /\ Len(Line(m + 1)) = Width
      /\ Follows(Line(m + 1), Width * m)
  BY <1>3, LineFollows
<1>5. bytes \in Seq(Bytes)
  BY <1>2, <1>4, ConcatProperties DEF m
<1>6. ASSUME NEW b \in Nat, Sending(x, b) PROVE Follows(bytes, b) /\ b + Len(bytes) = Width * (m + 1)
  <2>1. Follows(pending[x], b) /\ b + Len(pending[x]) = Width * m
    BY <1>2, <1>6 DEF m
  <2>2. Len(bytes) = Len(pending[x]) + Width /\ Follows(bytes, b)
    BY <1>2, <1>4, <2>1, MoreFollow DEF m
  <2>3. Width * (m + 1) = Width * m + Width /\ Width * m \in Nat
    BY <1>3, OneMore
  <2>4. Len(pending[x]) \in Nat
    BY <1>2, BytesAreNumbers
  <2> HIDE DEF bytes
  <2>5. Len(bytes) = Len(pending[x]) + Width
    BY <2>2
  <2>6. b + Len(pending[x]) = Width * m
    BY <2>1
  <2>7. b + Len(bytes) = Width * (m + 1)
    BY <2>3, <2>4, <2>5, <2>6, Positive
  <2> QED BY <2>2, <2>7
<1>7. Splits(x)' <=> Splits(x)
  BY <1>1 DEF Splits
<1>8. thread' \in [Ends -> {"idle", "reading", "splitting", "listening", "closing"}] /\ caller' \in [Ends -> {"idle", "listening"}]
  BY <1>1, Fields DEF ChannelInv
<1>9. thread'[x] # "reading" /\ thread' = thread /\ caller' = caller
  BY <1>1 DEF Send, ProgramRuns
<1>10. sent' = [sent EXCEPT ![x] = m + 1] /\ Flush(x, bytes)
  BY <1>1 DEF m
<1> HIDE DEF bytes
<1> QED BY <1>1, <1>3, <1>5, <1>6, <1>7, <1>8, <1>9, <1>10, FlushKeeps

\* disconnect().
LEMMA DisconnectOnKeeps ==
  ASSUME ChannelInv, NEW x \in Ends, DisconnectOn(x)
  PROVE  ChannelInv'
<1>1. /\ Open(x) /\ thread[x] \in {"idle", "listening"} /\ Flush(x, pending[x])
      /\ caller' = [caller EXCEPT ![x] = thread[x]] /\ thread' = [thread EXCEPT ![x] = "closing"]
      /\ UNCHANGED <<up, input, buffer, on, ref, sent, got, threw, results, told>>
  BY DEF DisconnectOn, ProgramRuns, Open, listeners, history
<1>2. Peer(x) \in Ends /\ Peer(x) # x
  BY TwoEnds
<1>3. /\ pending[x] \in Seq(Bytes) /\ sent[x] \in 0..MaxSends
      /\ \A b \in Nat : Sending(x, b) => Follows(pending[x], b) /\ b + Len(pending[x]) = Width * sent[x]
      /\ sent' = [sent EXCEPT ![x] = sent[x]]
  BY <1>1, PendingIsAll
<1>4. /\ thread \in [Ends -> {"idle", "reading", "splitting", "listening", "closing"}]
      /\ caller \in [Ends -> {"idle", "listening"}]
  BY Fields DEF ChannelInv
<1>5. /\ thread' \in [Ends -> {"idle", "reading", "splitting", "listening", "closing"}]
      /\ caller' \in [Ends -> {"idle", "listening"}]
      /\ thread'[x] = "closing" /\ caller'[x] = thread[x]
      /\ thread'[Peer(x)] = thread[Peer(x)] /\ caller'[Peer(x)] = caller[Peer(x)]
  BY <1>1, <1>2, <1>4
<1>6. Splits(x)' <=> Splits(x)
  BY <1>1, <1>5 DEF Splits
<1> QED BY ZenonT(60), <1>1, <1>3, <1>5, <1>6, FlushKeeps

\* An attempt of close() to get the pending bytes out.
LEMMA CloseAttemptKeeps ==
  ASSUME ChannelInv, NEW x \in Ends, CloseAttempt(x)
  PROVE  ChannelInv'
<1>1. /\ thread[x] = "closing" /\ pending[x] # <<>> /\ Flush(x, pending[x])
      /\ UNCHANGED <<up, thread, caller, input, buffer, on, ref, sent, got, threw, results, told>>
  BY DEF CloseAttempt, listeners, history
<1>2. Open(x)
  BY <1>1 DEF ChannelInv, EndOfChannel
<1>3. /\ pending[x] \in Seq(Bytes) /\ sent[x] \in 0..MaxSends
      /\ \A b \in Nat : Sending(x, b) => Follows(pending[x], b) /\ b + Len(pending[x]) = Width * sent[x]
      /\ sent' = [sent EXCEPT ![x] = sent[x]]
  BY <1>1, <1>2, PendingIsAll
<1>4. /\ thread' \in [Ends -> {"idle", "reading", "splitting", "listening", "closing"}]
      /\ caller' \in [Ends -> {"idle", "listening"}]
  BY <1>1, Fields DEF ChannelInv
<1>5. Splits(x)' <=> Splits(x)
  BY <1>1 DEF Splits
<1>6. thread' = thread /\ caller' = caller /\ thread'[x] # "reading"
  BY <1>1
<1> QED BY <1>1, <1>2, <1>3, <1>4, <1>5, <1>6, FlushKeeps

\* A turn of the scheduler.
LEMMA ChannelTickKeeps ==
  ASSUME ChannelInv, NEW x \in Ends, ChannelTick(x)
  PROVE  ChannelInv'
<1>1. /\ Open(x) /\ thread[x] = "idle" /\ Flush(x, pending[x])
      /\ thread' = [thread EXCEPT ![x] = IF Ready(x) /\ ended'[x] = "no" THEN "reading" ELSE @]
      /\ UNCHANGED <<up, caller, input, buffer, on, ref, sent, got, threw, results, told>>
  BY DEF ChannelTick, Open, listeners, history
<1>2. Peer(x) \in Ends /\ Peer(x) # x
  BY TwoEnds
<1>3. /\ pending[x] \in Seq(Bytes) /\ sent[x] \in 0..MaxSends
      /\ \A b \in Nat : Sending(x, b) => Follows(pending[x], b) /\ b + Len(pending[x]) = Width * sent[x]
      /\ sent' = [sent EXCEPT ![x] = sent[x]]
  BY <1>1, PendingIsAll
<1>4. /\ thread \in [Ends -> {"idle", "reading", "splitting", "listening", "closing"}]
      /\ caller' \in [Ends -> {"idle", "listening"}]
  BY <1>1, Fields DEF ChannelInv
<1>5. /\ thread' \in [Ends -> {"idle", "reading", "splitting", "listening", "closing"}]
      /\ thread'[x] \in {"idle", "reading"} /\ (thread'[x] = "reading" => ended'[x] = "no")
      /\ thread'[Peer(x)] = thread[Peer(x)]
  BY <1>1, <1>2, <1>4
<1>6. Splits(x)' <=> Splits(x)
  BY <1>1, <1>5 DEF Splits
<1>7. caller'[Peer(x)] = caller[Peer(x)]
  BY <1>1
<1> QED BY ZenonT(60), <1>1, <1>3, <1>4, <1>5, <1>6, <1>7, FlushKeeps

\* Listeners and references are no part of it.
LEMMA ProgramKeeps ==
  ASSUME ChannelInv, NEW x \in Ends, SetListeners(x) \/ ToggleChannelRef(x)
  PROVE  ChannelInv'
<1>1. /\ UNCHANGED <<up, thread, caller, ended, pending, input, buffer, wire, ticks, written,
                     sent, got, threw, results, told>>
      /\ on' \in [Ends -> SUBSET Events] /\ ref' \in [Ends -> BOOLEAN]
  <2>1. on \in [Ends -> SUBSET Events] /\ ref \in [Ends -> BOOLEAN]
    BY DEF ChannelInv, ChannelTypeOK
  <2>2. CASE SetListeners(x)
    <3>1. PICK events \in SUBSET Events : on' = [on EXCEPT ![x] = events]
      BY <2>2 DEF SetListeners
    <3> QED BY <2>1, <2>2, <3>1 DEF SetListeners, history
  <2>3. CASE ToggleChannelRef(x)
    BY <2>1, <2>3 DEF ToggleChannelRef, history
  <2> QED BY <2>2, <2>3
<1>2. ChannelTypeOK'
  BY <1>1 DEF ChannelInv, ChannelTypeOK
<1>3. ASSUME NEW e \in Ends PROVE Reporting(e)' /\ EndOfChannel(e)' /\ Arriving(e)'
  <2>1. Reporting(e) /\ EndOfChannel(e) /\ Arriving(e)
    BY DEF ChannelInv
  <2>2. Reporting(e)' /\ EndOfChannel(e)'
    BY <1>1, <2>1 DEF Reporting, EndOfChannel, Open, Connected
  <2>3. Arriving(e)'
    BY <1>1, <2>1 DEF Arriving, Sending, Carrying, Receiving, Splits, Latest, Open, Connected
  <2> QED BY <2>2, <2>3
<1> QED BY <1>2, <1>3 DEF ChannelInv

\* The bytes an end did not get out, whether it has closed already or not.
LEMMA PendingFollows ==
  ASSUME ChannelInv, NEW x \in Ends, NEW b \in Nat, Sending(x, b)
  PROVE  /\ Follows(pending[x], b) /\ b + Len(pending[x]) <= Width * MaxSends
         /\ pending[x] \in Seq(Bytes) /\ Len(pending[x]) \in Nat
         /\ ~Open(x) => pending[x] = <<>>
<1>1. pending[x] \in Seq(Bytes) /\ Len(pending[x]) \in Nat /\ sent[x] \in 0..MaxSends
  BY Fields, BytesAreNumbers DEF ChannelInv
<1>2. Width * sent[x] \in Nat /\ Width * sent[x] <= Width * MaxSends /\ Width * MaxSends \in Nat
  BY <1>1, Products, Positive
<1>3. ~Open(x) => pending[x] = <<>>
  BY DEF ChannelInv, EndOfChannel
<1>4. CASE Open(x)
  BY <1>1, <1>2, <1>4 DEF Sending
<1>5. CASE ~Open(x)
  <2>1. b <= Width * sent[x] /\ pending[x] = <<>>
    BY <1>3, <1>5 DEF Sending
  <2> QED BY <1>1, <1>2, <1>3, <2>1, NothingFollows
<1> QED BY <1>3, <1>4, <1>5, <1>1

\* A close by the program, or by the end of the stream.
LEMMA CloseKeeps ==
  ASSUME ChannelInv, NEW x \in Ends, NEW why \in {"local", "eof"}, CloseWith(x, pending[x], why),
         x \in up, told[x] = 0, ended[x] \in {"no", "epipe"},
         UNCHANGED <<up, input, buffer, on, ref, sent, got, threw, results, told>>,
         thread' \in [Ends -> {"idle", "reading", "splitting", "listening", "closing"}],
         caller' \in [Ends -> {"idle", "listening"}],
         thread'[Peer(x)] = thread[Peer(x)], caller'[Peer(x)] = caller[Peer(x)],
         Splits(x)' <=> Splits(x), thread'[x] \in {"idle", "listening"},
         why = "eof" => /\ thread'[x] = "idle" /\ ~Open(Peer(x))
                        /\ x \notin threw => Range(got[x]) = 1..written[Peer(x)]
  PROVE  ChannelInv'
<1> DEFINE p == Peer(x)
<1>1. p \in Ends /\ p # x /\ Peer(p) = x
  BY TwoEnds
<1>2. ChannelTypeOK /\ Reporting(x) /\ EndOfChannel(x) /\ Arriving(x) /\ Reporting(p) /\ EndOfChannel(p) /\ Arriving(p)
  BY <1>1 DEF ChannelInv
<1>3. PICK a \in Nat, b \in Nat, k \in Nat, j \in Nat : Sending(x, b) /\ Carrying(p, a, b) /\ Receiving(p, a, k, j)
  BY <1>1, <1>2 DEF Arriving
<1>4. PICK a2 \in Nat, b2 \in Nat, k2 \in Nat, j2 \in Nat :
        Sending(p, b2) /\ Carrying(x, a2, b2) /\ Receiving(x, a2, k2, j2)
  BY <1>2 DEF Arriving
<1>5. /\ Follows(pending[x], b) /\ b + Len(pending[x]) <= Width * MaxSends
      /\ pending[x] \in Seq(Bytes) /\ Len(pending[x]) \in Nat
      /\ ~Open(x) => pending[x] = <<>>
  BY <1>3, PendingFollows
<1> DEFINE q == (b + Len(pending[x])) \div Width
<1>6. /\ pending' \in [Ends -> Seq(Bytes)] /\ pending'[x] = <<>> /\ pending'[p] = pending[p]
      /\ wire' \in [Ends -> Seq(Bytes)] /\ wire'[x] = <<>> /\ wire'[p] = wire[p]
      /\ ended' \in [Ends -> {"no", "local", "eof", "epipe"}]
      /\ ended'[x] = (IF Connected(x) THEN why ELSE ended[x]) /\ ended'[x] # "no"
      /\ ended'[p] = ended[p]
      /\ ticks' \in [Ends -> Seq(Told)] /\ ticks'[p] = ticks[p]
      /\ ticks'[x] = ticks[x] \o Answers(b \div Width, q, FALSE) \o <<DisconnectEvent>>
      /\ b \div Width \in Nat /\ q \in Nat /\ b \div Width <= q /\ q <= MaxSends
      /\ written' = written
  <2>1. why \in {"local", "eof", "epipe"}
    OBVIOUS
  <2> DEFINE bytes == pending[x]
  <2>2. CloseWith(x, bytes, why)
    OBVIOUS
  <2>3. bytes \in Seq(Bytes) /\ Follows(bytes, b) /\ b + Len(bytes) <= Width * MaxSends /\ b \in Nat
    BY <1>5
  <2> HIDE DEF bytes, q
  <2>4. /\ pending' \in [Ends -> Seq(Bytes)] /\ pending'[x] = <<>> /\ pending'[p] = pending[p]
        /\ wire' \in [Ends -> Seq(Bytes)] /\ wire'[x] = <<>> /\ wire'[p] = wire[p]
        /\ written' = written
    BY ZenonT(60), <1>2, <2>1, <2>2, <2>3, CloseStep
  <2>5. /\ ended' \in [Ends -> {"no", "local", "eof", "epipe"}]
        /\ ended'[x] = (IF Connected(x) THEN why ELSE ended[x]) /\ ended'[x] # "no"
        /\ ended'[p] = ended[p]
    BY ZenonT(60), <1>2, <2>1, <2>2, <2>3, CloseStep
  <2>6. /\ ticks' \in [Ends -> Seq(Told)] /\ ticks'[p] = ticks[p]
        /\ ticks'[x] = ticks[x] \o Answers(b \div Width, (b + Len(bytes)) \div Width, FALSE) \o <<DisconnectEvent>>
    BY ZenonT(60), <1>2, <2>1, <2>2, <2>3, CloseStep
  <2>7. /\ b \div Width \in Nat /\ (b + Len(bytes)) \div Width \in Nat
        /\ b \div Width <= (b + Len(bytes)) \div Width /\ (b + Len(bytes)) \div Width <= MaxSends
    BY ZenonT(60), <1>2, <2>1, <2>2, <2>3, CloseStep
  <2>8. (b + Len(bytes)) \div Width = q
    BY DEF bytes, q
  <2> QED BY <2>4, <2>5, <2>6, <2>7, <2>8
<1>7. ~Open(x)' /\ (Open(p)' <=> Open(p)) /\ (ended[x] = "no" <=> Open(x))
  BY <1>6 DEF Open, Connected
<1>8. Open(x) \/ b \div Width = q
  <2>1. ASSUME ~Open(x) PROVE b \div Width = q
    <3>1. Len(pending[x]) = 0
      BY <1>5, <2>1
    <3>2. b + Len(pending[x]) = b
      BY <3>1
    <3> QED BY <3>2
  <2> QED BY <2>1
<1> HIDE DEF q
<1>9. /\ Reporting(x)'
      /\ Open(x) => \A i \in 1..Len(ticks'[x]) : ticks'[x][i] = DisconnectEvent => i = Len(ticks'[x])
  <2>1. written[x] = b \div Width /\ written'[x] = b \div Width /\ results'[x] = results[x]
    BY <1>3, <1>6 DEF Sending
  <2> QED BY <1>2, <1>6, <1>7, <1>8, <2>1, ReportsClosed
<1>10. Reporting(p)' /\ EndOfChannel(p)'
  <2>1. Open(x)' => Open(x)
    BY <1>7
  <2>2. written'[x] = written[x] /\ written'[p] = written[p]
    BY <1>6
  <2> QED BY <1>6, <2>1, <2>2, PeerSame
<1>11. Arriving(p)'
  <2>1. Splits(p)' <=> Splits(p)
    BY DEF Splits
  <2>2. Receiving(p, a, k, j)'
    BY <1>3, <2>1, ReceivesSame
  <2>3. Carrying(p, a, b)'
    BY <1>3, <1>6, <1>7, CarriesSame
  <2>4. Sending(x, b)'
    BY <1>3, <1>6, <1>7 DEF Sending
  <2> QED BY <1>1, <2>2, <2>3, <2>4 DEF Arriving
<1>12. Arriving(x)'
  <2>1. Receiving(x, a2, k2, j2)'
    BY <1>4, ReceivesSame
  <2>2. Carrying(x, a2, b2)'
    BY <1>2, <1>4, <1>6, <1>7, CarriesNothing
  <2>3. written'[p] = written[p] /\ sent'[p] = sent[p]
    BY <1>6
  <2>4. Sending(p, b2)'
    BY <1>4, <1>6, <1>7, <2>3, SendsSame
  <2> QED BY <2>1, <2>2, <2>4 DEF Arriving
<1>13. EndOfChannel(x)'
  <2>1. told'[x] = 0 /\ x \in up' /\ got'[x] = got[x] /\ threw' = threw /\ written'[p] = written[p]
    BY <1>6
  <2>2. thread'[x] # "reading" /\ thread'[x] # "closing"
    OBVIOUS
  <2>3. ended'[x] \in {"local", "eof"} => Open(x) /\ ended'[x] = why
    BY <1>6, <1>7 DEF Connected
  <2>4. ended'[x] \in {"local", "eof"} =>
          \A i \in 1..Len(ticks'[x]) : ticks'[x][i] = DisconnectEvent => i = Len(ticks'[x]) /\ told'[x] = 0
    BY <1>9, <2>1, <2>3
  <2>5. ended'[x] = "eof" => thread'[x] = "idle" /\ ~Open(p)' /\ (x \in up' \ threw' => Range(got'[x]) = 1..written'[p])
    BY <1>6, <1>7, <2>1, <2>3
  <2>6. told'[x] <= 1 /\ pending'[x] = <<>> /\ ended'[x] # "no"
    BY <1>6, <2>1
  <2> QED BY <2>1, <2>2, <2>4, <2>5, <2>6 DEF EndOfChannel
<1>14. ChannelTypeOK'
  <2>1. /\ input' \in [Ends -> Seq(Bytes)] /\ buffer' \in [Ends -> Seq(Bytes)]
        /\ results' \in [Ends -> Seq(Told)] /\ got' \in [Ends -> Seq(1..MaxSends)] /\ told' \in [Ends -> Nat]
        /\ sent' \in [Ends -> 0..MaxSends] /\ written' \in [Ends -> 0..MaxSends]
    BY <1>2, <1>6, Fields
  <2>2. up' \subseteq Ends /\ on' \in [Ends -> SUBSET Events] /\ ref' \in [Ends -> BOOLEAN] /\ threw' \subseteq Throwing
    BY <1>2 DEF ChannelTypeOK
  <2> QED BY <1>6, <2>1, <2>2, FieldsAfter
<1> QED BY <1>9, <1>10, <1>11, <1>12, <1>13, <1>14, BothEnds

\* close() is done.
LEMMA CloseDoneKeeps ==
  ASSUME ChannelInv, NEW x \in Ends, CloseDone(x)
  PROVE  ChannelInv'
<1>1. /\ x \in up /\ thread[x] = "closing" /\ CloseWith(x, pending[x], "local")
      /\ thread' = [thread EXCEPT ![x] = caller[x]] /\ caller' = [caller EXCEPT ![x] = "idle"]
      /\ UNCHANGED <<up, input, buffer, on, ref, sent, got, threw, results, told>>
  BY DEF CloseDone, listeners, history
<1>2. Peer(x) \in Ends /\ Peer(x) # x
  BY TwoEnds
<1>3. told[x] = 0 /\ ended[x] \in {"no", "epipe"}
  BY <1>1 DEF ChannelInv, EndOfChannel
<1>4. /\ thread \in [Ends -> {"idle", "reading", "splitting", "listening", "closing"}]
      /\ caller \in [Ends -> {"idle", "listening"}]
  BY Fields DEF ChannelInv
<1>5. /\ thread' \in [Ends -> {"idle", "reading", "splitting", "listening", "closing"}]
      /\ caller' \in [Ends -> {"idle", "listening"}]
      /\ thread'[x] = caller[x] /\ caller[x] \in {"idle", "listening"}
      /\ thread'[Peer(x)] = thread[Peer(x)] /\ caller'[Peer(x)] = caller[Peer(x)]
  <2>1. caller[x] \in {"idle", "listening"}
    BY <1>4
  <2>2. caller[x] \in {"idle", "reading", "splitting", "listening", "closing"}
    BY <2>1
  <2> QED BY <1>1, <1>2, <1>4, <2>1, <2>2
<1>6. Splits(x)' <=> Splits(x)
  BY <1>1, <1>5 DEF Splits
<1>7. "local" \in {"local", "eof"} /\ "local" # "eof"
  OBVIOUS
<1> QED BY <1>1, <1>3, <1>5, <1>6, <1>7, CloseKeeps

\* The last message of an end where no listener threw is as many as it got.
LEMMA LatestIsLast ==
  ASSUME ChannelInv, NEW e \in Ends, \A i \in 1..Len(got[e]) : got[e][i] = i
  PROVE  Latest(e) = Len(got[e]) /\ Len(got[e]) \in Nat
<1>1. got[e] \in Seq(1..MaxSends)
  BY Fields DEF ChannelInv
<1>2. Len(got[e]) \in Nat /\ (got[e] # <<>> => Len(got[e]) \in 1..Len(got[e]))
  BY <1>1
<1>3. got[e] = <<>> => Len(got[e]) = 0
  OBVIOUS
<1> QED BY <1>2, <1>3 DEF Latest

\* The end of the stream.
LEMMA ReadEndKeeps ==
  ASSUME ChannelInv, NEW x \in Ends, ReadEnd(x)
  PROVE  ChannelInv'
<1> DEFINE p == Peer(x)
<1>1. /\ x \in up /\ thread[x] = "reading" /\ wire[x] = <<>> /\ ~Open(p) /\ CloseWith(x, pending[x], "eof")
      /\ thread' = [thread EXCEPT ![x] = "idle"]
      /\ UNCHANGED <<up, caller, input, buffer, on, ref, sent, got, threw, results, told>>
  BY DEF ReadEnd, listeners, history
<1>2. p \in Ends /\ p # x
  BY TwoEnds
<1>3. told[x] = 0 /\ Open(x) /\ ended[x] = "no"
  BY <1>1 DEF ChannelInv, EndOfChannel, Open, Connected
<1>4. /\ thread \in [Ends -> {"idle", "reading", "splitting", "listening", "closing"}]
      /\ caller' \in [Ends -> {"idle", "listening"}]
  BY <1>1, Fields DEF ChannelInv
<1>5. /\ thread' \in [Ends -> {"idle", "reading", "splitting", "listening", "closing"}]
      /\ thread'[x] = "idle" /\ thread'[p] = thread[p] /\ caller'[p] = caller[p]
  BY <1>1, <1>2, <1>4
<1>6. Splits(x)' <=> Splits(x)
  BY <1>1, <1>5 DEF Splits
<1>7. ASSUME x \notin threw PROVE Range(got[x]) = 1..written[p]
  <2>1. PICK a \in Nat, b \in Nat, k \in Nat, j \in Nat : Sending(p, b) /\ Carrying(x, a, b) /\ Receiving(x, a, k, j)
    BY DEF ChannelInv, Arriving
  <2>2. a = b
    BY <1>1, <1>3, <2>1 DEF Carrying
  <2>3. ~Splits(x)
    BY <1>1 DEF Splits
  <2>4. Width * k + Len(input[x]) = a /\ k = Latest(x) /\ Len(input[x]) < Width
        /\ \A i \in 1..Len(got[x]) : got[x][i] = i
    BY <1>1, <1>7, <2>1, <2>3 DEF Receiving
  <2>5. Len(input[x]) \in Nat /\ Width * k \in Nat
    BY Fields, BytesAreNumbers, Positive DEF ChannelInv
  <2>6. a \div Width = k
    BY <2>4, <2>5, Quotient, Positive
  <2>7. written[p] = k
    BY <2>1, <2>2, <2>6 DEF Sending
  <2>8. Len(got[x]) = k /\ Len(got[x]) \in Nat
    BY <2>4, LatestIsLast
  <2>9. got[x] \in Seq(1..MaxSends)
    BY Fields DEF ChannelInv
  <2>10. Range(got[x]) = 1..Len(got[x])
    BY <2>4, <2>9 DEF Range
  <2> QED BY <2>7, <2>8, <2>10
<1>8. "eof" \in {"local", "eof"}
  OBVIOUS
<1> QED BY <1>1, <1>3, <1>4, <1>5, <1>6, <1>7, <1>8, CloseKeeps

\* A step of an end that reads, splits or calls a listener.
LEMMA ReaderKeeps ==
  ASSUME ChannelInv, NEW x \in Ends, ChannelTypeOK',
         UNCHANGED <<up, ended, pending, sent, written, ticks, results, told, caller>>,
         LET p == Peer(x) IN
           /\ thread'[p] = thread[p] /\ input'[p] = input[p] /\ buffer'[p] = buffer[p]
           /\ got'[p] = got[p] /\ wire'[p] = wire[p]
           /\ p \in threw' <=> p \in threw,
         NEW a \in Nat, NEW b \in Nat, NEW k \in Nat, NEW j \in Nat,
         Sending(Peer(x), b), Carrying(x, a, b)', Receiving(x, a, k, j)', EndOfChannel(x)'
  PROVE  ChannelInv'
<1> DEFINE p == Peer(x)
<1>1. p \in Ends /\ Peer(p) = x
  BY TwoEnds
<1>2. Reporting(x) /\ Arriving(p)
  BY <1>1 DEF ChannelInv
<1>3. (Open(x)' <=> Open(x)) /\ (Open(p)' <=> Open(p))
  BY DEF Open, Connected
<1>4. Reporting(x)'
  BY <1>2, <1>3, ReportsSame
<1>5. Reporting(p)' /\ EndOfChannel(p)'
  BY <1>3, PeerSame
<1>6. Arriving(x)'
  <2>1. Sending(p, b)'
    BY <1>3, SendsSame
  <2> QED BY <2>1 DEF Arriving
<1>7. Arriving(p)'
  <2>1. PICK a2 \in Nat, b2 \in Nat, k2 \in Nat, j2 \in Nat :
          Sending(x, b2) /\ Carrying(p, a2, b2) /\ Receiving(p, a2, k2, j2)
    BY <1>1, <1>2 DEF Arriving
  <2>2. Sending(x, b2)'
    BY <1>3, <2>1, SendsSame
  <2>3. Carrying(p, a2, b2)'
    BY <1>3, <2>1, CarriesSame
  <2>4. Splits(p)' <=> Splits(p)
    BY DEF Splits
  <2>5. Receiving(p, a2, k2, j2)'
    BY <2>1, <2>4, ReceivesSame
  <2> QED BY <1>1, <2>2, <2>3, <2>5 DEF Arriving
<1> QED BY <1>4, <1>5, <1>6, <1>7, BothEnds

\* The types after such a step.
LEMMA ReaderTypes ==
  ASSUME ChannelInv,
         UNCHANGED <<up, ended, pending, sent, written, ticks, results, told, caller, on, ref>>,
         thread' \in [Ends -> {"idle", "reading", "splitting", "listening", "closing"}],
         input' \in [Ends -> Seq(Bytes)], buffer' \in [Ends -> Seq(Bytes)],
         wire' \in [Ends -> Seq(Bytes)], got' \in [Ends -> Seq(1..MaxSends)],
         threw' \subseteq Throwing
  PROVE  ChannelTypeOK'
<1>1. ChannelTypeOK
  BY DEF ChannelInv
<1>2. /\ pending' \in [Ends -> Seq(Bytes)]
      /\ ticks' \in [Ends -> Seq(Told)] /\ results' \in [Ends -> Seq(Told)] /\ told' \in [Ends -> Nat]
      /\ sent' \in [Ends -> 0..MaxSends] /\ written' \in [Ends -> 0..MaxSends]
      /\ caller' \in [Ends -> {"idle", "listening"}]
      /\ ended' \in [Ends -> {"no", "local", "eof", "epipe"}]
  BY <1>1, Fields
<1>3. up' \subseteq Ends /\ on' \in [Ends -> SUBSET Events] /\ ref' \in [Ends -> BOOLEAN]
  BY <1>1 DEF ChannelTypeOK
<1> QED BY <1>2, <1>3, FieldsAfter

\* What is true of the end of the channel while an end is at work.
LEMMA AtWork ==
  ASSUME ChannelInv, NEW x \in Ends, x \in up, thread[x] # "idle", x \in up', thread'[x] # "closing",
         UNCHANGED <<pending, told, ended>>, thread'[x] = "reading" => Connected(x),
         got'[x] = got[x] \/ ended[x] # "eof", ticks'[x] = ticks[x]
  PROVE  EndOfChannel(x)'
<1>1. EndOfChannel(x)
  BY DEF ChannelInv
<1>2. told[x] = 0 /\ ended[x] # "eof"
  BY <1>1 DEF EndOfChannel
<1>3. Open(x)' <=> Open(x)
  BY DEF Open, Connected
<1>4. thread'[x] = "reading" => Open(x)'
  BY DEF Open, Connected
<1> QED BY <1>1, <1>2, <1>3, <1>4 DEF EndOfChannel

\* Nothing more to read.
LEMMA ReadNothingKeeps ==
  ASSUME ChannelInv, NEW x \in Ends, ReadNothing(x)
  PROVE  ChannelInv'
<1>1. /\ x \in up /\ thread[x] = "reading" /\ thread' = [thread EXCEPT ![x] = "idle"]
      /\ UNCHANGED <<up, caller, ended, pending, input, buffer, wire, on, ref, ticks, written,
                     sent, got, threw, results, told>>
  BY DEF ReadNothing, listeners, history
<1>2. Peer(x) \in Ends /\ Peer(x) # x
  BY TwoEnds
<1>3. /\ thread \in [Ends -> {"idle", "reading", "splitting", "listening", "closing"}]
      /\ input \in [Ends -> Seq(Bytes)] /\ buffer \in [Ends -> Seq(Bytes)]
      /\ wire \in [Ends -> Seq(Bytes)] /\ got \in [Ends -> Seq(1..MaxSends)] /\ threw \subseteq Throwing
  BY Fields DEF ChannelInv, ChannelTypeOK
<1>4. /\ thread' \in [Ends -> {"idle", "reading", "splitting", "listening", "closing"}]
      /\ thread'[x] = "idle" /\ thread'[Peer(x)] = thread[Peer(x)]
  BY <1>1, <1>2, <1>3
<1>5. ChannelTypeOK'
  BY <1>1, <1>3, <1>4, ReaderTypes
<1>6. PICK a \in Nat, b \in Nat, k \in Nat, j \in Nat :
        Sending(Peer(x), b) /\ Carrying(x, a, b) /\ Receiving(x, a, k, j)
  BY DEF ChannelInv, Arriving
<1>7. Carrying(x, a, b)'
  BY <1>1, <1>6 DEF Carrying, Open, Connected
<1>8. Splits(x)' <=> Splits(x)
  BY <1>1, <1>4 DEF Splits
<1>9. Receiving(x, a, k, j)'
  BY <1>1, <1>6, <1>8, ReceivesSame
<1>10. EndOfChannel(x)'
  BY <1>1, <1>4, AtWork
<1> QED BY <1>1, <1>4, <1>5, <1>6, <1>7, <1>9, <1>10, ReaderKeeps

\* A listener returns.
LEMMA ReturnKeeps ==
  ASSUME ChannelInv, NEW x \in Ends, Return(x)
  PROVE  ChannelInv'
<1>1. /\ x \in up /\ thread[x] = "listening" /\ thread' = [thread EXCEPT ![x] = "splitting"]
      /\ UNCHANGED <<up, caller, ended, pending, input, buffer, wire, on, ref, ticks, written,
                     sent, got, threw, results, told>>
  BY DEF Return, listeners, history
<1>2. Peer(x) \in Ends /\ Peer(x) # x
  BY TwoEnds
<1>3. /\ thread \in [Ends -> {"idle", "reading", "splitting", "listening", "closing"}]
      /\ input \in [Ends -> Seq(Bytes)] /\ buffer \in [Ends -> Seq(Bytes)]
      /\ wire \in [Ends -> Seq(Bytes)] /\ got \in [Ends -> Seq(1..MaxSends)] /\ threw \subseteq Throwing
  BY Fields DEF ChannelInv, ChannelTypeOK
<1>4. /\ thread' \in [Ends -> {"idle", "reading", "splitting", "listening", "closing"}]
      /\ thread'[x] = "splitting" /\ thread'[Peer(x)] = thread[Peer(x)]
  BY <1>1, <1>2, <1>3
<1>5. ChannelTypeOK'
  BY <1>1, <1>3, <1>4, ReaderTypes
<1>6. PICK a \in Nat, b \in Nat, k \in Nat, j \in Nat :
        Sending(Peer(x), b) /\ Carrying(x, a, b) /\ Receiving(x, a, k, j)
  BY DEF ChannelInv, Arriving
<1>7. Carrying(x, a, b)'
  BY <1>1, <1>6 DEF Carrying, Open, Connected
<1>8. Splits(x)' <=> Splits(x)
  BY <1>1, <1>4 DEF Splits
<1>9. Receiving(x, a, k, j)'
  BY <1>1, <1>6, <1>8, ReceivesSame
<1>10. EndOfChannel(x)'
  BY <1>1, <1>4, AtWork
<1> QED BY <1>1, <1>4, <1>5, <1>6, <1>7, <1>9, <1>10, ReaderKeeps

\* The last message is a number.
LEMMA LatestIsNumber ==
  ASSUME NEW e \in Ends, got[e] \in Seq(1..MaxSends)
  PROVE  Latest(e) \in Nat
<1> DEFINE g == got[e]
<1>1. Len(g) \in Nat /\ (g # <<>> => Len(g) \in 1..Len(g))
  OBVIOUS
<1>2. \A i \in 1..Len(g) : g[i] \in 1..MaxSends
  BY ElementOfSeq
<1>3. g # <<>> => g[Len(g)] \in Nat
  BY <1>1, <1>2
<1> QED BY <1>3 DEF Latest

\* A listener throws: what split() had is gone, and its input is not.
LEMMA ThrowKeeps ==
  ASSUME ChannelInv, NEW x \in Ends, Throw(x)
  PROVE  ChannelInv'
<1>1. /\ x \in up /\ x \in Throwing /\ thread[x] = "listening" /\ thread' = [thread EXCEPT ![x] = "idle"]
      /\ buffer' = [buffer EXCEPT ![x] = <<>>] /\ threw' = threw \union {x}
      /\ UNCHANGED <<up, caller, ended, pending, input, wire, on, ref, ticks, written,
                     sent, got, results, told>>
  BY DEF Throw, listeners
<1>2. Peer(x) \in Ends /\ Peer(x) # x
  BY TwoEnds
<1>3. /\ thread \in [Ends -> {"idle", "reading", "splitting", "listening", "closing"}]
      /\ input \in [Ends -> Seq(Bytes)] /\ buffer \in [Ends -> Seq(Bytes)]
      /\ wire \in [Ends -> Seq(Bytes)] /\ got \in [Ends -> Seq(1..MaxSends)] /\ threw \subseteq Throwing
  BY Fields DEF ChannelInv, ChannelTypeOK
<1>4. /\ thread' \in [Ends -> {"idle", "reading", "splitting", "listening", "closing"}]
      /\ thread'[x] = "idle" /\ thread'[Peer(x)] = thread[Peer(x)]
      /\ buffer' \in [Ends -> Seq(Bytes)] /\ buffer'[Peer(x)] = buffer[Peer(x)]
      /\ threw' \subseteq Throwing /\ x \in threw' /\ (Peer(x) \in threw' <=> Peer(x) \in threw)
  BY <1>1, <1>2, <1>3
<1>5. ChannelTypeOK'
  BY <1>1, <1>3, <1>4, ReaderTypes
<1>6. PICK a \in Nat, b \in Nat, k \in Nat, j \in Nat :
        Sending(Peer(x), b) /\ Carrying(x, a, b) /\ Receiving(x, a, k, j)
  BY DEF ChannelInv, Arriving
<1>7. Carrying(x, a, b)'
  BY <1>1, <1>6 DEF Carrying, Open, Connected
<1>8. ~Splits(x)'
  BY <1>4 DEF Splits
<1>9. Receiving(x, a, k, k)'
  <2>1. /\ Follows(input[x], Width * k) /\ Width * k + Len(input[x]) = a
        /\ k <= j /\ j <= Latest(x)
        /\ \A i \in 1..Len(got[x]) : got[x][i] <= a \div Width
    BY <1>1, <1>6 DEF Receiving
  <2>2. k <= Latest(x)
    <3>1. Latest(x) \in Nat
      BY <1>3, LatestIsNumber
    <3> QED BY <2>1, <3>1
  <2>3. input'[x] = input[x] /\ got'[x] = got[x] /\ Latest(x)' = Latest(x) /\ k <= k
    BY <1>1 DEF Latest
  <2> QED BY <1>4, <1>8, <2>1, <2>2, <2>3 DEF Receiving
<1>10. EndOfChannel(x)'
  BY <1>1, <1>4, AtWork
<1> QED BY <1>1, <1>4, <1>5, <1>6, <1>7, <1>9, <1>10, ReaderKeeps

\* No line is left to split.
LEMMA SplitDoneKeeps ==
  ASSUME ChannelInv, NEW x \in Ends, SplitDone(x)
  PROVE  ChannelInv'
<1>1. /\ x \in up /\ thread[x] = "splitting" /\ LineEnds(buffer[x]) = {}
      /\ input' = [input EXCEPT ![x] = buffer[x]] /\ buffer' = [buffer EXCEPT ![x] = <<>>]
      /\ thread' = [thread EXCEPT ![x] = IF Connected(x) THEN "reading" ELSE "idle"]
      /\ UNCHANGED <<up, caller, ended, pending, wire, on, ref, ticks, written,
                     sent, got, threw, results, told>>
  BY DEF SplitDone, listeners, history
<1>2. Peer(x) \in Ends /\ Peer(x) # x
  BY TwoEnds
<1>3. /\ thread \in [Ends -> {"idle", "reading", "splitting", "listening", "closing"}]
      /\ input \in [Ends -> Seq(Bytes)] /\ buffer \in [Ends -> Seq(Bytes)]
      /\ wire \in [Ends -> Seq(Bytes)] /\ got \in [Ends -> Seq(1..MaxSends)] /\ threw \subseteq Throwing
  BY Fields DEF ChannelInv, ChannelTypeOK
<1>4. /\ thread' \in [Ends -> {"idle", "reading", "splitting", "listening", "closing"}]
      /\ thread'[x] \in {"idle", "reading"} /\ (thread'[x] = "reading" => Connected(x))
      /\ thread'[Peer(x)] = thread[Peer(x)]
      /\ input' \in [Ends -> Seq(Bytes)] /\ input'[x] = buffer[x] /\ input'[Peer(x)] = input[Peer(x)]
      /\ buffer' \in [Ends -> Seq(Bytes)] /\ buffer'[Peer(x)] = buffer[Peer(x)]
  BY <1>1, <1>2, <1>3
<1>5. ChannelTypeOK'
  BY <1>1, <1>3, <1>4, ReaderTypes
<1>6. PICK a \in Nat, b \in Nat, k \in Nat, j \in Nat :
        Sending(Peer(x), b) /\ Carrying(x, a, b) /\ Receiving(x, a, k, j)
  BY DEF ChannelInv, Arriving
<1>7. Carrying(x, a, b)'
  BY <1>1, <1>6 DEF Carrying, Open, Connected
<1>8. ~Splits(x)' /\ Splits(x)
  BY <1>1, <1>4 DEF Splits
<1>9. Receiving(x, a, j, j)'
  <2>1. /\ Follows(buffer[x], Width * j) /\ Width * j + Len(buffer[x]) = a
        /\ j <= Latest(x) /\ (x \notin threw => j = Latest(x))
        /\ \A i \in 1..Len(got[x]) : got[x][i] <= a \div Width /\ (x \notin threw => got[x][i] = i)
    BY <1>1, <1>6, <1>8 DEF Receiving
  <2>2. Len(buffer[x]) < Width
    <3>1. buffer[x] \in Seq(Bytes)
      BY <1>3
    <3> QED BY <1>1, <2>1, <3>1, NoLine
  <2>3. got'[x] = got[x] /\ Latest(x)' = Latest(x) /\ j <= j /\ threw' = threw
    BY <1>1 DEF Latest
  <2> QED BY <1>4, <1>8, <2>1, <2>2, <2>3 DEF Receiving
<1>10. EndOfChannel(x)'
  BY <1>1, <1>4, AtWork
<1> QED BY <1>1, <1>4, <1>5, <1>6, <1>7, <1>9, <1>10, ReaderKeeps

\* A pipeRead that returns bytes.
LEMMA ReadKeeps ==
  ASSUME ChannelInv, NEW x \in Ends, Read(x)
  PROVE  ChannelInv'
<1> DEFINE w == wire[x]
           n == Min({Chunk, Len(w)})
           new == SubSeq(w, 1, n)
           rest == SubSeq(w, n + 1, Len(w))
           bytes == input[x] \o new
<1>1. /\ x \in up /\ thread[x] = "reading" /\ wire[x] # <<>>
      /\ thread' = [thread EXCEPT ![x] = "splitting"]
      /\ wire' = [wire EXCEPT ![x] = rest]
      /\ input' = [input EXCEPT ![x] = bytes] /\ buffer' = [buffer EXCEPT ![x] = bytes]
      /\ UNCHANGED <<up, caller, ended, pending, on, ref, ticks, written,
                     sent, got, threw, results, told>>
  BY DEF Read, listeners, history
<1>2. Peer(x) \in Ends /\ Peer(x) # x
  BY TwoEnds
<1>3. /\ thread \in [Ends -> {"idle", "reading", "splitting", "listening", "closing"}]
      /\ input \in [Ends -> Seq(Bytes)] /\ buffer \in [Ends -> Seq(Bytes)]
      /\ wire \in [Ends -> Seq(Bytes)] /\ got \in [Ends -> Seq(1..MaxSends)] /\ threw \subseteq Throwing
  BY Fields DEF ChannelInv, ChannelTypeOK
<1>4. n \in 0..Len(w)
  <2>1. Len(w) \in Nat
    BY <1>3
  <2>2. n \in {Chunk, Len(w)} /\ n <= Len(w)
    BY <2>1, Positive DEF Min
  <2> QED BY <2>1, <2>2, Positive
<1> HIDE DEF n
<1>5. PICK a \in Nat, b \in Nat, k \in Nat, j \in Nat :
        Sending(Peer(x), b) /\ Carrying(x, a, b) /\ Receiving(x, a, k, j)
  BY DEF ChannelInv, Arriving
<1>6. /\ Follows(w, a) /\ Len(w) <= Capacity /\ a + Len(w) <= b /\ (Open(x) => a + Len(w) = b)
      /\ w \in Seq(Bytes) /\ Len(w) \in Nat
  BY <1>3, <1>5 DEF Carrying
<1> HIDE DEF w
<1>7. /\ new \in Seq(Bytes) /\ Len(new) = n /\ Follows(new, a)
      /\ rest \in Seq(Bytes) /\ Len(rest) = Len(w) - n /\ Follows(rest, a + n)
  BY <1>4, <1>6, PartFollows
<1> HIDE DEF new, rest
<1>8. /\ Follows(input[x], Width * k) /\ Width * k + Len(input[x]) = a
      /\ k = j /\ j <= Latest(x) /\ (x \notin threw => j = Latest(x))
      /\ \A i \in 1..Len(got[x]) : got[x][i] <= a \div Width /\ (x \notin threw => got[x][i] = i)
  <2>1. ~Splits(x)
    BY <1>1 DEF Splits
  <2> QED BY <1>1, <1>5, <2>1 DEF Receiving
<1>9. input[x] \in Seq(Bytes) /\ Len(input[x]) \in Nat /\ Width * k \in Nat
  BY <1>3, BytesAreNumbers, Positive
<1>10. bytes \in Seq(Bytes) /\ Len(bytes) = Len(input[x]) + n /\ Follows(bytes, Width * k)
  <2>1. Follows(new, Width * k + Len(input[x]))
    BY <1>7, <1>8
  <2> QED BY <1>7, <1>8, <1>9, <2>1, MoreFollow
<1> HIDE DEF bytes
<1>11. /\ thread' \in [Ends -> {"idle", "reading", "splitting", "listening", "closing"}]
       /\ thread'[x] = "splitting" /\ thread'[Peer(x)] = thread[Peer(x)]
       /\ input' \in [Ends -> Seq(Bytes)] /\ input'[x] = bytes /\ input'[Peer(x)] = input[Peer(x)]
       /\ buffer' \in [Ends -> Seq(Bytes)] /\ buffer'[x] = bytes /\ buffer'[Peer(x)] = buffer[Peer(x)]
       /\ wire' \in [Ends -> Seq(Bytes)] /\ wire'[x] = rest /\ wire'[Peer(x)] = wire[Peer(x)]
  BY <1>1, <1>2, <1>3, <1>7, <1>10
<1>12. ChannelTypeOK'
  BY <1>1, <1>3, <1>11, ReaderTypes
<1>13. PICK c \in Nat : c = a + n /\ a <= c
  BY <1>4, <1>6
<1>14. Carrying(x, c, b)'
  <2>1. Len(rest) = Len(w) - n /\ n \in Nat /\ n <= Len(w)
    BY <1>4, <1>6, <1>7
  <2>2. a + n + Len(rest) = a + Len(w) /\ Len(rest) <= Capacity
    BY <1>6, <2>1, Positive
  <2>3. Open(x)' <=> Open(x)
    BY <1>1 DEF Open, Connected
  <2>4. c + Len(rest) <= b /\ (Open(x) => c + Len(rest) = b)
    BY <1>6, <1>13, <2>1, <2>2
  <2>5. wire'[x] = rest /\ Follows(rest, c)
    BY <1>7, <1>11, <1>13
  <2> QED BY <2>2, <2>3, <2>4, <2>5 DEF Carrying
<1>15. Receiving(x, c, k, j)'
  <2>1. Splits(x)'
    BY <1>11 DEF Splits
  <2>2. Width * k + Len(bytes) = c
    <3>1. n \in Nat
      BY <1>4, <1>6
    <3>2. Len(bytes) = Len(input[x]) + n /\ Width * k + Len(input[x]) = a
      BY <1>8, <1>10
    <3> DEFINE l == Len(input[x])
               d == Width * k
    <3>3. l \in Nat /\ d \in Nat /\ d + l = a /\ Len(bytes) = l + n
      BY <1>9, <3>2
    <3> HIDE DEF l, d
    <3>4. d + Len(bytes) = c
      BY <1>13, <3>1, <3>3
    <3> QED BY <3>4 DEF d
  <2>3. \A i \in 1..Len(got[x]) : got[x][i] <= c \div Width
    <3>1. a \div Width <= c \div Width /\ a \div Width \in Nat /\ c \div Width \in Nat
      BY <1>13, Quotients, Divided
    <3>2. \A i \in 1..Len(got[x]) : got[x][i] \in Nat
      <4>1. got[x] \in Seq(1..MaxSends)
        BY <1>3
      <4>2. \A i \in 1..Len(got[x]) : got[x][i] \in 1..MaxSends
        BY <4>1, ElementOfSeq
      <4> QED BY <4>2
    <3> HIDE DEF w
    <3> QED BY <1>8, <3>1, <3>2
  <2>4. got'[x] = got[x] /\ Latest(x)' = Latest(x) /\ threw' = threw
    BY <1>1 DEF Latest
  <2>5. k <= j
    BY <1>8
  <2>6. input'[x] = bytes /\ buffer'[x] = bytes
    BY <1>11
  <2>7. Follows(bytes, Width * k) /\ Follows(bytes, Width * j) /\ Width * j + Len(bytes) = c
    BY <1>8, <1>10, <2>2
  <2>8. /\ Follows(input'[x], Width * k) /\ Width * k + Len(input'[x]) = c
        /\ Follows(buffer'[x], Width * j) /\ Width * j + Len(buffer'[x]) = c
    BY <2>2, <2>6, <2>7
  <2>9. k <= j /\ j <= Latest(x)' /\ (x \notin threw' => j = Latest(x)')
    BY <1>8, <2>4, <2>5
  <2>10. \A i \in 1..Len(got'[x]) : got'[x][i] <= c \div Width /\ (x \notin threw' => got'[x][i] = i)
    BY <1>8, <2>3, <2>4
  <2> QED BY <2>1, <2>8, <2>9, <2>10 DEF Receiving
<1>16. EndOfChannel(x)'
  BY <1>1, <1>11, AtWork
<1> QED BY <1>1, <1>5, <1>11, <1>12, <1>14, <1>15, <1>16, ReaderKeeps

\* A line is cut off and dispatched.
LEMMA DispatchKeeps ==
  ASSUME ChannelInv, NEW x \in Ends, Dispatch(x)
  PROVE  /\ ChannelInv'
         /\ \E j \in Nat : /\ j <= Latest(x) /\ (x \notin threw => j = Latest(x))
                           /\ j + 1 <= MaxSends /\ j + 1 <= written[Peer(x)]
                           /\ got' = [got EXCEPT ![x] = Append(@, j + 1)]
<1> DEFINE s == buffer[x]
           rest == SubSeq(s, Width + 1, Len(s))
<1>1. PICK a \in Nat, b \in Nat, k \in Nat, j \in Nat :
        Sending(Peer(x), b) /\ Carrying(x, a, b) /\ Receiving(x, a, k, j)
  BY DEF ChannelInv, Arriving
<1>2. x \in up /\ thread[x] = "splitting" /\ LineEnds(s) # {}
  BY DEF Dispatch
<1>3. Splits(x)
  BY <1>2 DEF Splits
<1>4. /\ Follows(input[x], Width * k) /\ Width * k + Len(input[x]) = a
      /\ k <= j /\ j <= Latest(x) /\ (x \notin threw => j = Latest(x))
      /\ Follows(s, Width * j) /\ Width * j + Len(s) = a
      /\ \A i \in 1..Len(got[x]) : got[x][i] <= a \div Width /\ (x \notin threw => got[x][i] = i)
  BY <1>1, <1>2, <1>3 DEF Receiving
<1>5. /\ thread \in [Ends -> {"idle", "reading", "splitting", "listening", "closing"}]
      /\ input \in [Ends -> Seq(Bytes)] /\ buffer \in [Ends -> Seq(Bytes)]
      /\ wire \in [Ends -> Seq(Bytes)] /\ got \in [Ends -> Seq(1..MaxSends)] /\ threw \subseteq Throwing
  BY Fields DEF ChannelInv, ChannelTypeOK
<1>6. s \in Seq(Bytes) /\ Len(s) \in Nat
  BY <1>5, BytesAreNumbers
<1>7. Min(LineEnds(s)) = Width /\ Width <= Len(s) /\ j + 1 <= MaxSends /\ Parsed(SubSeq(s, 1, Width)) = <<j + 1>>
  BY <1>2, <1>4, <1>6, FirstLine
<1>8. /\ buffer' = [buffer EXCEPT ![x] = rest]
      /\ got' = [got EXCEPT ![x] = @ \o <<j + 1>>]
      /\ thread' = [thread EXCEPT ![x] = IF "message" \in on[x] THEN "listening" ELSE @]
  <2> DEFINE n == Min(LineEnds(buffer[x]))
             message == Parsed(SubSeq(buffer[x], 1, n))
             heard == message # <<>> /\ "message" \in on[x]
  <2>1. /\ buffer' = [buffer EXCEPT ![x] = SubSeq(@, n + 1, Len(@))]
        /\ got' = [got EXCEPT ![x] = @ \o message]
        /\ thread' = [thread EXCEPT ![x] = IF heard THEN "listening" ELSE @]
    BY DEF Dispatch
  <2>2. n = Width
    BY <1>7
  <2> HIDE DEF n
  <2>3. message = <<j + 1>>
    BY <1>7, <2>2
  <2>4. heard <=> "message" \in on[x]
    BY SMTT(60), <2>3
  <2> HIDE DEF message, heard
  <2>5. buffer' = [buffer EXCEPT ![x] = rest]
    BY <2>1, <2>2
  <2> QED BY <2>1, <2>3, <2>4, <2>5
<1>9. UNCHANGED <<up, caller, ended, pending, input, wire, on, ref, ticks, written,
                  sent, threw, results, told>>
  BY DEF Dispatch, listeners
<1> HIDE DEF s
<1>10. rest \in Seq(Bytes) /\ Len(rest) = Len(s) - Width /\ Follows(rest, Width * j + Width)
  <2>1. Width \in 0..Len(s) /\ Width * j \in Nat
    BY <1>6, <1>7, Positive
  <2> QED BY SMTT(60), <1>4, <1>6, <2>1, PartFollows
<1> HIDE DEF rest
<1>11. Width * (j + 1) = Width * j + Width /\ Width * j \in Nat
  BY OneMore
<1>12. j + 1 <= a \div Width /\ a \div Width \in Nat
  <2>1. Width * (j + 1) <= a
    BY <1>4, <1>6, <1>7, <1>11, Positive
  <2>2. Width * (j + 1) \in Nat /\ j + 1 \in Nat
    BY Positive
  <2>3. (Width * (j + 1)) \div Width = j + 1
    BY <2>2, WholeLines
  <2> QED BY <2>1, <2>2, <2>3, Quotients, Divided
<1>13. j + 1 \in 1..MaxSends
  BY <1>7, Positive
<1> DEFINE g == got[x]
<1>14. g \in Seq(1..MaxSends) /\ Len(g) \in Nat
  BY <1>5
<1>15. g \o <<j + 1>> = Append(g, j + 1)
  BY <1>14
<1>16. /\ Append(g, j + 1) \in Seq(1..MaxSends) /\ Len(Append(g, j + 1)) = Len(g) + 1
       /\ \A i \in 1..Len(g) : Append(g, j + 1)[i] = g[i]
       /\ Append(g, j + 1)[Len(g) + 1] = j + 1 /\ Append(g, j + 1) # <<>>
  BY <1>13, <1>14
<1>17. got' = [got EXCEPT ![x] = Append(g, j + 1)]
  BY <1>8, <1>15
<1>18. Peer(x) \in Ends /\ Peer(x) # x
  BY TwoEnds
<1>19. /\ thread' \in [Ends -> {"idle", "reading", "splitting", "listening", "closing"}]
       /\ thread'[x] \in {"splitting", "listening"} /\ thread'[Peer(x)] = thread[Peer(x)]
       /\ buffer' \in [Ends -> Seq(Bytes)] /\ buffer'[x] = rest /\ buffer'[Peer(x)] = buffer[Peer(x)]
  BY <1>2, <1>5, <1>8, <1>10, <1>18
<1>20. got' \in [Ends -> Seq(1..MaxSends)] /\ got'[x] = Append(g, j + 1) /\ got'[Peer(x)] = got[Peer(x)]
  BY <1>5, <1>16, <1>17, <1>18
<1>21. ChannelTypeOK'
  <2>1. input' \in [Ends -> Seq(Bytes)] /\ wire' \in [Ends -> Seq(Bytes)] /\ threw' \subseteq Throwing
    BY <1>5, <1>9
  <2> QED BY <1>9, <1>19, <1>20, <2>1, ReaderTypes
<1>22. Carrying(x, a, b)'
  BY <1>1, <1>9 DEF Carrying, Open, Connected
<1>23. Latest(x)' = j + 1
  BY <1>16, <1>20 DEF Latest
<1>24. Receiving(x, a, k, j + 1)'
  <2>1. Splits(x)'
    BY <1>19 DEF Splits
  <2>2. Follows(rest, Width * (j + 1)) /\ Width * (j + 1) + Len(rest) = a
    <3> DEFINE l == Len(s)
               c == Width * j
    <3>1. l \in Nat /\ c \in Nat /\ c + l = a /\ Len(rest) = l - Width /\ Width * (j + 1) = c + Width
      BY <1>4, <1>6, <1>10, <1>11
    <3>2. Follows(rest, Width * (j + 1))
      BY <1>10, <1>11
    <3> HIDE DEF l, c
    <3>3. Width * (j + 1) + Len(rest) = a
      BY <3>1, Positive
    <3> QED BY <3>2, <3>3
  <2>3. \A i \in 1..Len(got'[x]) : got'[x][i] <= a \div Width
    <3>1. ASSUME NEW i \in 1..(Len(g) + 1) PROVE Append(g, j + 1)[i] <= a \div Width
      <4>1. i \in 1..Len(g) \/ i = Len(g) + 1
        BY <1>14
      <4> QED BY <1>4, <1>12, <1>16, <4>1
    <3> QED BY <1>16, <1>20, <3>1
  <2>4. ASSUME x \notin threw PROVE \A i \in 1..Len(got'[x]) : got'[x][i] = i
    <3>1. j = Len(g)
      BY <1>4, <2>4, LatestIsLast
    <3>2. ASSUME NEW i \in 1..(Len(g) + 1) PROVE Append(g, j + 1)[i] = i
      <4>1. i \in 1..Len(g) \/ i = Len(g) + 1
        BY <1>14
      <4> QED BY <1>4, <1>16, <2>4, <3>1, <4>1
    <3> QED BY <1>16, <1>20, <3>2
  <2>5. k <= j + 1 /\ j + 1 <= j + 1
    BY <1>4
  <2> HIDE DEF g
  <2> QED BY <1>4, <1>9, <1>19, <1>23, <2>1, <2>2, <2>3, <2>4, <2>5 DEF Receiving
<1>25. EndOfChannel(x)'
  <2>1. ended[x] # "eof"
    BY <1>2 DEF ChannelInv, EndOfChannel
  <2> QED BY <1>2, <1>9, <1>19, <2>1, AtWork
<1>26. ChannelInv'
  <2>1. \A i \in Nat : Receiving(x, a, k, i)' => ChannelInv'
    BY <1>1, <1>9, <1>19, <1>20, <1>21, <1>22, <1>25, ReaderKeeps
  <2> QED BY <1>24, <2>1
<1>27. j + 1 <= written[Peer(x)]
  <2>1. a <= b
    <3>1. Len(wire[x]) \in Nat /\ a + Len(wire[x]) <= b
      BY <1>1, <1>5 DEF Carrying
    <3> QED BY <3>1
  <2>2. a \div Width <= b \div Width /\ b \div Width \in Nat
    BY <2>1, Quotients, Divided
  <2> QED BY <1>1, <1>12, <2>2 DEF Sending
<1> QED BY <1>4, <1>7, <1>17, <1>26, <1>27

\* A task of the nextTick queue tells what it was queued for.
LEMMA TaskReports ==
  ASSUME ChannelInv, NEW x \in Ends, RunTask(x)
  PROVE  Reporting(x)' /\ EndOfChannel(x)' /\ ChannelTypeOK'
<1> DEFINE t == ticks[x]
           u == Tail(t)
           r == results[x]
<1>1. /\ x \in up /\ thread[x] = "idle" /\ t # <<>> /\ ticks' = [ticks EXCEPT ![x] = u]
      /\ UNCHANGED <<up, thread, caller, ended, pending, input, buffer, wire,
                     on, ref, sent, written, got, threw>>
  BY DEF RunTask, listeners
<1>2. \/ /\ Head(t) = DisconnectEvent /\ told' = [told EXCEPT ![x] = @ + 1] /\ results' = results
      \/ /\ Head(t) # DisconnectEvent /\ results' = [results EXCEPT ![x] = Append(@, Head(t))] /\ told' = told
  BY DEF RunTask
<1>3. /\ ticks \in [Ends -> Seq(Told)] /\ results \in [Ends -> Seq(Told)] /\ told \in [Ends -> Nat]
      /\ t \in Seq(Told) /\ r \in Seq(Told) /\ told[x] \in Nat
  BY Fields DEF ChannelInv
<1>4. Reporting(x) /\ EndOfChannel(x) /\ ChannelTypeOK
  BY DEF ChannelInv
<1>5. /\ Len(t) \in Nat /\ Len(t) >= 1 /\ Head(t) = t[1] /\ t[1] \in Told
      /\ u \in Seq(Told) /\ Len(u) = Len(t) - 1 /\ \A i \in 1..Len(u) : u[i] = t[i + 1]
  BY <1>1, <1>3
<1>6. /\ Len(r) \in Nat /\ Append(r, t[1]) \in Seq(Told) /\ Len(Append(r, t[1])) = Len(r) + 1
      /\ \A i \in 1..Len(r) : Append(r, t[1])[i] = r[i]
      /\ Append(r, t[1])[Len(r) + 1] = t[1]
  BY <1>3, <1>5
<1>7. /\ \A i \in 1..Len(r) : r[i].message = i /\ (r[i].ok <=> i <= written[x])
      /\ \A i \in 1..Len(t) : t[i] # DisconnectEvent =>
           /\ t[i].message = Len(r) + i /\ (t[i].ok <=> t[i].message <= written[x])
           /\ \A j \in 1..i : t[j] # DisconnectEvent
      /\ Open(x) => Len(r) + Len(t) = written[x] /\ \A i \in 1..Len(t) : t[i] # DisconnectEvent
  BY <1>4 DEF Reporting
<1>8. ticks' \in [Ends -> Seq(Told)] /\ ticks'[x] = u
  BY <1>1, <1>3, <1>5
<1>9. (Open(x)' <=> Open(x)) /\ (Open(Peer(x))' <=> Open(Peer(x))) /\ (Open(x) <=> ended[x] = "no")
  BY <1>1 DEF Open, Connected
<1>10. 1 \in 1..Len(t) /\ \A i \in 1..Len(u) : i + 1 \in 1..Len(t) /\ 1 \in 1..(i + 1)
  BY <1>5
<1>11. /\ thread[x] = "idle" => TRUE
       /\ ~Open(x) => pending[x] = <<>>
       /\ ended[x] \in {"local", "eof"} =>
            told[x] <= 1 /\ \A i \in 1..Len(t) : t[i] = DisconnectEvent => i = Len(t) /\ told[x] = 0
       /\ told[x] # 0 => ended[x] # "no"
       /\ ended[x] = "eof" => ~Open(Peer(x)) /\ (x \in up \ threw => Range(got[x]) = 1..written[Peer(x)])
  BY <1>4 DEF EndOfChannel
<1>12. /\ pending' \in [Ends -> Seq(Bytes)] /\ input' \in [Ends -> Seq(Bytes)]
       /\ buffer' \in [Ends -> Seq(Bytes)] /\ wire' \in [Ends -> Seq(Bytes)]
       /\ sent' \in [Ends -> 0..MaxSends] /\ written' \in [Ends -> 0..MaxSends]
       /\ got' \in [Ends -> Seq(1..MaxSends)]
       /\ thread' \in [Ends -> {"idle", "reading", "splitting", "listening", "closing"}]
       /\ caller' \in [Ends -> {"idle", "listening"}]
       /\ ended' \in [Ends -> {"no", "local", "eof", "epipe"}]
  BY <1>1, <1>4, Fields
<1>13. up' \subseteq Ends /\ on' \in [Ends -> SUBSET Events] /\ ref' \in [Ends -> BOOLEAN] /\ threw' \subseteq Throwing
  BY <1>1, <1>4 DEF ChannelTypeOK
<1> HIDE DEF t, u
<1>14. CASE Head(t) = DisconnectEvent
  <2>1. told' = [told EXCEPT ![x] = @ + 1] /\ results' = results
    BY <1>2, <1>14
  <2>2. told' \in [Ends -> Nat] /\ told'[x] = told[x] + 1 /\ results' \in [Ends -> Seq(Told)]
    BY <1>3, <2>1
  <2>3. \A i \in 1..Len(t) : t[i] = DisconnectEvent
    <3>1. t[1] = DisconnectEvent
      BY <1>5, <1>14
    <3>2. \A i \in 1..Len(t) : 1 \in 1..i
      BY <1>5
    <3> QED BY <1>7, <3>1, <3>2
  <2>4. ~Open(x)
    BY <1>7, <1>10, <2>3
  <2>5. \A i \in 1..Len(u) : u[i] = DisconnectEvent
    BY <1>5, <1>10, <2>3
  <2>6. Reporting(x)'
    BY <1>1, <1>4, <1>8, <1>9, <2>1, <2>4, <2>5 DEF Reporting
  <2>7. ended[x] \in {"local", "eof"} => told[x] = 0 /\ Len(u) = 0
    BY <1>5, <1>10, <1>11, <2>3
  <2>8. ended[x] \in {"local", "eof"} => told'[x] <= 1 /\ \A i \in 1..Len(u) : FALSE
    BY <1>5, <2>2, <2>7
  <2>9. EndOfChannel(x)'
    BY <1>1, <1>8, <1>9, <1>11, <2>4, <2>8 DEF EndOfChannel
  <2>10. ChannelTypeOK'
    BY <1>8, <1>12, <1>13, <2>2, FieldsAfter
  <2> QED BY <2>6, <2>9, <2>10
<1>15. CASE Head(t) # DisconnectEvent
  <2>1. told' = told /\ results' = [results EXCEPT ![x] = Append(r, t[1])]
    BY <1>2, <1>5, <1>15
  <2>2. told' \in [Ends -> Nat] /\ results' \in [Ends -> Seq(Told)] /\ results'[x] = Append(r, t[1])
    BY <1>3, <1>6, <2>1
  <2>3. t[1].message = Len(r) + 1 /\ (t[1].ok <=> t[1].message <= written[x])
    BY <1>5, <1>7, <1>10, <1>15
  <2> HIDE DEF r
  <2> DEFINE n == Append(r, t[1])
  <2>4. ASSUME NEW i \in 1..Len(n) PROVE n[i].message = i /\ (n[i].ok <=> i <= written[x])
    <3>1. CASE i \in 1..Len(r)
      BY <1>6, <1>7, <3>1
    <3>2. CASE i = Len(r) + 1
      BY <1>6, <2>3, <3>2
    <3> QED BY <1>6, <3>1, <3>2
  <2>5. ASSUME NEW i \in 1..Len(u), u[i] # DisconnectEvent
        PROVE  /\ u[i].message = Len(n) + i /\ (u[i].ok <=> u[i].message <= written[x])
               /\ \A j \in 1..i : u[j] # DisconnectEvent
    <3>1. i + 1 \in 1..Len(t) /\ t[i + 1] # DisconnectEvent /\ u[i] = t[i + 1]
      BY <1>5, <1>10, <2>5
    <3>2. t[i + 1].message = Len(r) + (i + 1) /\ (t[i + 1].ok <=> t[i + 1].message <= written[x])
          /\ \A j \in 1..(i + 1) : t[j] # DisconnectEvent
      BY <1>7, <3>1
    <3>3. ASSUME NEW j \in 1..i PROVE u[j] # DisconnectEvent
      <4>1. j \in 1..Len(u) /\ j + 1 \in 1..(i + 1)
        BY <1>5
      <4> QED BY <1>5, <3>2, <4>1
    <3>4. Len(r) + (i + 1) = Len(n) + i
      BY <1>6
    <3> QED BY <3>1, <3>2, <3>3, <3>4
  <2>6. ASSUME Open(x) PROVE Len(n) + Len(u) = written[x] /\ \A i \in 1..Len(u) : u[i] # DisconnectEvent
    <3>1. Len(r) + Len(t) = written[x] /\ \A i \in 1..Len(t) : t[i] # DisconnectEvent
      BY <1>7, <2>6
    <3>2. Len(n) + Len(u) = Len(r) + Len(t)
      BY <1>5, <1>6
    <3> QED BY <1>5, <1>10, <3>1, <3>2
  <2>7. results'[x] = n /\ written'[x] = written[x]
    BY <1>1, <2>2
  <2> HIDE DEF n
  <2>8. Reporting(x)'
    BY <1>8, <1>9, <2>4, <2>5, <2>6, <2>7 DEF Reporting
  <2>9. ended[x] \in {"local", "eof"} =>
          told'[x] <= 1 /\ \A i \in 1..Len(u) : u[i] = DisconnectEvent => i = Len(u) /\ told'[x] = 0
    <3>1. ASSUME ended[x] \in {"local", "eof"}, NEW i \in 1..Len(u), u[i] = DisconnectEvent
          PROVE  i = Len(u) /\ told'[x] = 0
      <4>1. i + 1 = Len(t) /\ told[x] = 0
        BY <1>5, <1>10, <1>11, <3>1
      <4> QED BY <1>5, <2>1, <4>1
    <3> QED BY <1>11, <2>1, <3>1
  <2>10. EndOfChannel(x)'
    BY <1>1, <1>8, <1>9, <1>11, <2>1, <2>9 DEF EndOfChannel
  <2>11. ChannelTypeOK'
    BY <1>8, <1>12, <1>13, <2>2, FieldsAfter
  <2> QED BY <2>8, <2>10, <2>11
<1> QED BY <1>14, <1>15

\* The nextTick queue runs.
LEMMA RunTaskKeeps ==
  ASSUME ChannelInv, NEW x \in Ends, RunTask(x)
  PROVE  ChannelInv'
<1> DEFINE p == Peer(x)
<1>1. UNCHANGED <<up, thread, caller, ended, pending, input, buffer, wire,
                  on, ref, sent, written, got, threw>>
  BY DEF RunTask, listeners
<1>2. p \in Ends /\ p # x /\ Peer(p) = x
  BY TwoEnds
<1>3. ticks'[p] = ticks[p] /\ told'[p] = told[p] /\ results'[p] = results[p]
  <2>1. ticks \in [Ends -> Seq(Told)] /\ results \in [Ends -> Seq(Told)] /\ told \in [Ends -> Nat]
    BY Fields DEF ChannelInv
  <2> QED BY <1>2, <2>1 DEF RunTask
<1>4. Open(x)' => Open(x)
  BY <1>1 DEF Open, Connected
<1>5. Reporting(p)' /\ EndOfChannel(p)'
  BY <1>1, <1>3, <1>4, PeerSame
<1>6. ASSUME NEW e \in Ends PROVE Arriving(e)'
  <2>1. Arriving(e)
    BY DEF ChannelInv
  <2> QED BY <1>1, <2>1 DEF Arriving, Sending, Carrying, Receiving, Splits, Latest, Open, Connected
<1>7. Arriving(x)' /\ Arriving(p)'
  BY <1>2, <1>6
<1> QED BY <1>5, <1>7, TaskReports, BothEnds

\* A process ends.
LEMMA DieKeeps ==
  ASSUME ChannelInv, NEW x \in Ends, Die(x)
  PROVE  ChannelInv'
<1> DEFINE p == Peer(x)
<1>1. /\ x \in up /\ up' = up \ {x}
      /\ thread' = [thread EXCEPT ![x] = "idle"] /\ caller' = [caller EXCEPT ![x] = "idle"]
      /\ pending' = [pending EXCEPT ![x] = <<>>] /\ input' = [input EXCEPT ![x] = <<>>]
      /\ buffer' = [buffer EXCEPT ![x] = <<>>] /\ wire' = [wire EXCEPT ![x] = <<>>]
      /\ ticks' = [ticks EXCEPT ![x] = <<>>]
      /\ UNCHANGED <<ended, on, ref, written, sent, got, threw, results, told>>
  BY DEF Die, listeners, history
<1>2. p \in Ends /\ p # x /\ Peer(p) = x
  BY TwoEnds
<1>3. ChannelTypeOK /\ Reporting(x) /\ EndOfChannel(x) /\ Arriving(x) /\ Arriving(p)
  BY <1>2 DEF ChannelInv
<1>4. /\ thread' \in [Ends -> {"idle", "reading", "splitting", "listening", "closing"}]
      /\ caller' \in [Ends -> {"idle", "listening"}]
      /\ thread'[x] = "idle" /\ thread'[p] = thread[p] /\ caller'[p] = caller[p]
  BY <1>1, <1>2, <1>3, Fields
<1>5. /\ pending' \in [Ends -> Seq(Bytes)] /\ input' \in [Ends -> Seq(Bytes)]
      /\ buffer' \in [Ends -> Seq(Bytes)] /\ wire' \in [Ends -> Seq(Bytes)]
      /\ pending'[x] = <<>> /\ wire'[x] = <<>>
      /\ pending'[p] = pending[p] /\ input'[p] = input[p] /\ buffer'[p] = buffer[p] /\ wire'[p] = wire[p]
  <2>1. <<>> \in Seq(Bytes)
    OBVIOUS
  <2> QED BY <1>1, <1>2, <1>3, <2>1, Fields
<1>6. ticks' \in [Ends -> Seq(Told)] /\ ticks'[x] = <<>> /\ ticks'[p] = ticks[p]
  <2>1. <<>> \in Seq(Told)
    OBVIOUS
  <2> QED BY <1>1, <1>2, <1>3, <2>1, Fields
<1>7. ChannelTypeOK'
  <2>1. /\ results' \in [Ends -> Seq(Told)] /\ got' \in [Ends -> Seq(1..MaxSends)] /\ told' \in [Ends -> Nat]
        /\ sent' \in [Ends -> 0..MaxSends] /\ written' \in [Ends -> 0..MaxSends]
        /\ ended' \in [Ends -> {"no", "local", "eof", "epipe"}]
    BY <1>1, <1>3, Fields
  <2>2. up' \subseteq Ends /\ on' \in [Ends -> SUBSET Events] /\ ref' \in [Ends -> BOOLEAN] /\ threw' \subseteq Throwing
    BY <1>1, <1>3 DEF ChannelTypeOK
  <2> QED BY <1>4, <1>5, <1>6, <2>1, <2>2, FieldsAfter
<1>8. ~Open(x)' /\ (Open(p)' <=> Open(p)) /\ x \notin up' /\ (p \in up' <=> p \in up)
  BY <1>1, <1>2 DEF Open, Connected
<1>9. Reporting(p)' /\ EndOfChannel(p)'
  BY <1>1, <1>4, <1>5, <1>6, <1>8, PeerSame
<1>10. Len(<<>>) = 0 /\ \A i \in 1..Len(<<>>) : FALSE
  OBVIOUS
<1>11. Reporting(x)'
  BY <1>1, <1>3, <1>6, <1>8, <1>10 DEF Reporting
<1>12. EndOfChannel(x)'
  BY <1>1, <1>3, <1>4, <1>5, <1>6, <1>8, <1>10 DEF EndOfChannel
<1>13. Arriving(x)'
  <2>1. PICK a \in Nat, b \in Nat, k \in Nat, j \in Nat : Sending(p, b) /\ Carrying(x, a, b) /\ Receiving(x, a, k, j)
    BY <1>3 DEF Arriving
  <2>2. Sending(p, b)'
    BY <1>1, <1>5, <1>8, <2>1, SendsSame
  <2>3. Carrying(x, a, b)'
    BY <1>3, <1>5, <1>8, <2>1, CarriesNothing
  <2>4. Receiving(x, a, k, j)'
    BY <1>1, <1>8, <2>1 DEF Receiving
  <2> QED BY <2>2, <2>3, <2>4 DEF Arriving
<1>14. Arriving(p)'
  <2>1. PICK a \in Nat, b \in Nat, k \in Nat, j \in Nat : Sending(x, b) /\ Carrying(p, a, b) /\ Receiving(p, a, k, j)
    BY <1>2, <1>3 DEF Arriving
  <2>2. Sending(x, b)'
    BY <1>1, <1>8, <2>1 DEF Sending
  <2>3. Carrying(p, a, b)'
    BY <1>5, <1>8, <2>1, CarriesSame
  <2>4. Splits(p)' <=> Splits(p)
    BY <1>4 DEF Splits
  <2>5. Receiving(p, a, k, j)'
    BY <1>1, <1>5, <1>8, <2>1, <2>4, ReceivesSame
  <2> QED BY <1>2, <2>2, <2>3, <2>5 DEF Arriving
<1> QED BY <1>7, <1>9, <1>11, <1>12, <1>13, <1>14, BothEnds

\* Every step keeps the invariant, and so does none.
LEMMA ChannelStep ==
  ASSUME ChannelInv, [ChannelNext]_channelVars
  PROVE  ChannelInv'
<1>1. CASE UNCHANGED channelVars
  <2>1. UNCHANGED <<up, thread, caller, ended, pending, input, buffer, wire, on, ref, ticks,
                    sent, written, got, threw, results, told>>
    BY <1>1 DEF channelVars
  <2>2. ChannelTypeOK'
    BY <2>1 DEF ChannelInv, ChannelTypeOK
  <2>3. ASSUME NEW e \in Ends PROVE Reporting(e)' /\ EndOfChannel(e)' /\ Arriving(e)'
    <3>1. Reporting(e) /\ EndOfChannel(e) /\ Arriving(e)
      BY DEF ChannelInv
    <3>2. Reporting(e)' /\ EndOfChannel(e)'
      BY <2>1, <3>1 DEF Reporting, EndOfChannel, Open, Connected
    <3>3. Arriving(e)'
      BY <2>1, <3>1 DEF Arriving, Sending, Carrying, Receiving, Splits, Latest, Open, Connected
    <3> QED BY <3>2, <3>3
  <2> QED BY <2>2, <2>3 DEF ChannelInv
<1>2. CASE ChannelNext
  <2>1. PICK e \in Ends : ChannelProgram(e) \/ ChannelTick(e) \/ CloseAttempt(e) \/ ChannelLoop(e)
    BY <1>2 DEF ChannelNext
  <2>2. CASE ChannelProgram(e)
    BY <2>2, SendKeeps, DisconnectOnKeeps, ProgramKeeps, DieKeeps DEF ChannelProgram
  <2>3. CASE ChannelTick(e) \/ CloseAttempt(e)
    BY <2>3, ChannelTickKeeps, CloseAttemptKeeps
  <2>4. CASE ChannelLoop(e)
    BY <2>4, ReadKeeps, ReadNothingKeeps, ReadEndKeeps, DispatchKeeps, ReturnKeeps, ThrowKeeps,
       SplitDoneKeeps, CloseDoneKeeps, RunTaskKeeps
       DEF ChannelLoop
  <2> QED BY <2>1, <2>2, <2>3, <2>4
<1> QED BY <1>1, <1>2

\* The channel starts with nothing sent.
LEMMA ChannelStart ==
  ASSUME ChannelInit
  PROVE  ChannelInv
<1>1. /\ up = Ends /\ threw = {}
      /\ \A e \in Ends :
           /\ thread[e] = "idle" /\ caller[e] = "idle" /\ ended[e] = "no"
           /\ pending[e] = <<>> /\ input[e] = <<>> /\ buffer[e] = <<>> /\ wire[e] = <<>>
           /\ ticks[e] = <<>> /\ got[e] = <<>> /\ results[e] = <<>>
           /\ sent[e] = 0 /\ written[e] = 0 /\ told[e] = 0
  BY DEF ChannelInit
<1>2. ChannelTypeOK
  <2>1. \A S : <<>> \in Seq(S)
    OBVIOUS
  <2>2. /\ pending \in [Ends -> Seq(Bytes)] /\ input \in [Ends -> Seq(Bytes)]
        /\ buffer \in [Ends -> Seq(Bytes)] /\ wire \in [Ends -> Seq(Bytes)]
    BY <2>1 DEF ChannelInit
  <2>3. /\ ticks \in [Ends -> Seq(Told)] /\ results \in [Ends -> Seq(Told)]
        /\ got \in [Ends -> Seq(1..MaxSends)]
    BY <2>1 DEF ChannelInit
  <2>4. sent \in [Ends -> 0..MaxSends] /\ written \in [Ends -> 0..MaxSends] /\ told \in [Ends -> Nat]
    BY Positive DEF ChannelInit
  <2>5. /\ on \in [Ends -> SUBSET Events] /\ ref \in [Ends -> BOOLEAN]
        /\ thread \in [Ends -> {"idle", "reading", "splitting", "listening", "closing"}]
        /\ caller \in [Ends -> {"idle", "listening"}]
        /\ ended \in [Ends -> {"no", "local", "eof", "epipe"}]
    BY DEF ChannelInit
  <2> QED BY <1>1, <2>2, <2>3, <2>4, <2>5 DEF ChannelTypeOK, Bytes, Told
<1>3. ASSUME NEW e \in Ends PROVE Reporting(e) /\ EndOfChannel(e) /\ Arriving(e)
  <2>1. /\ \A a : Follows(<<>>, a)
        /\ Len(<<>>) = 0
    BY NothingFollows
  <2>2. Peer(e) \in Ends
    BY TwoEnds
  <2>3. 0 \in Nat /\ Width * 0 = 0 /\ 0 \div Width = 0
    BY Positive, WholeLines
  <2>4. Open(e) /\ Open(Peer(e)) /\ ~Splits(e)
    BY <1>1, <2>2 DEF Open, Connected, Splits
  <2>5. Reporting(e)
    <3>1. Len(results[e]) = 0 /\ Len(ticks[e]) = 0 /\ \A i \in 1..0 : FALSE
      BY <1>1
    <3> QED BY <1>1, <3>1 DEF Reporting
  <2>6. EndOfChannel(e)
    BY <1>1, <2>1, <2>4 DEF EndOfChannel
  <2>7. Sending(Peer(e), 0)
    BY <1>1, <2>1, <2>2, <2>3 DEF Sending
  <2>8. Carrying(e, 0, 0)
    BY <1>1, <2>1, Positive DEF Carrying
  <2>9. Receiving(e, 0, 0, 0)
    <3>1. Latest(e) = 0 /\ Len(got[e]) = 0 /\ Len(input[e]) = 0 /\ input[e] = <<>>
      BY <1>1 DEF Latest
    <3>2. Len(input[e]) < Width /\ \A i \in 1..Len(got[e]) : FALSE
      BY <3>1, Positive
    <3> QED BY <2>1, <2>3, <2>4, <3>1, <3>2 DEF Receiving
  <2> QED BY <2>3, <2>5, <2>6, <2>7, <2>8, <2>9 DEF Arriving
<1> QED BY <1>2, <1>3 DEF ChannelInv

\* The invariant of the channel.
THEOREM ChannelInvariant == ChannelSpec => []ChannelInv
<1>1. ChannelInit => ChannelInv
  BY ChannelStart
<1>2. ChannelInv /\ [ChannelNext]_channelVars => ChannelInv'
  BY ChannelStep
<1> QED BY <1>1, <1>2, PTL DEF ChannelSpec

\* The fields keep their types.
THEOREM ChannelFields == ChannelSpec => []ChannelTypeOK
<1>1. ChannelInv => ChannelTypeOK
  BY DEF ChannelInv
<1> QED BY <1>1, ChannelInvariant, PTL

------------------------------------------------------------------------------
(* What the channel owes the programs at its ends.                         *)

\* What an end got was written whole.
LEMMA GotWasWritten ==
  ASSUME ChannelInv, NEW e \in Ends
  PROVE  \A m \in Range(got[Peer(e)]) : m <= written[e] /\ m \in 1..MaxSends
<1> DEFINE p == Peer(e)
<1>1. p \in Ends /\ Peer(p) = e
  BY TwoEnds
<1>2. PICK a \in Nat, b \in Nat, k \in Nat, j \in Nat : Sending(e, b) /\ Carrying(p, a, b) /\ Receiving(p, a, k, j)
  BY <1>1 DEF ChannelInv, Arriving
<1>3. wire[p] \in Seq(Bytes) /\ Len(wire[p]) \in Nat /\ got[p] \in Seq(1..MaxSends)
  BY <1>1, Fields, BytesAreNumbers DEF ChannelInv
<1>4. a <= b
  BY <1>2, <1>3 DEF Carrying
<1>5. a \div Width <= b \div Width /\ a \div Width \in Nat /\ b \div Width \in Nat
  BY <1>4, Quotients, Divided
<1>6. written[e] = b \div Width /\ \A i \in 1..Len(got[p]) : got[p][i] <= a \div Width
  BY <1>2 DEF Sending, Receiving
<1>7. \A i \in 1..Len(got[p]) : got[p][i] \in 1..MaxSends
  BY <1>3, ElementOfSeq
<1>8. ASSUME NEW i \in 1..Len(got[p]) PROVE got[p][i] <= written[e] /\ got[p][i] \in 1..MaxSends
  <2>1. got[p][i] \in 1..MaxSends /\ got[p][i] <= a \div Width
    BY <1>6, <1>7
  <2> QED BY <1>5, <1>6, <2>1
<1>9. DOMAIN got[p] = 1..Len(got[p])
  BY <1>3
<1> QED BY <1>8, <1>9 DEF Range

\* The callbacks of send() run once each, in order, and tell what happened; a message they
\* report as failed is not received.  'disconnect' is told once unless a flush found the
\* other end gone.
THEOREM ReportsTrue == ChannelSpec => []ReportsAreTrue
<1>1. ASSUME ChannelInv PROVE ReportsAreTrue
  <2>1. ASSUME NEW e \in Ends, NEW i \in DOMAIN results[e]
        PROVE  /\ results[e][i].message = i /\ (results[e][i].ok <=> i <= written[e])
               /\ ~results[e][i].ok => i \notin Range(got[Peer(e)])
    <3>1. results[e] \in Seq(Told)
      BY <1>1, Fields DEF ChannelInv
    <3>2. i \in 1..Len(results[e])
      BY <3>1
    <3>3. results[e][i].message = i /\ (results[e][i].ok <=> i <= written[e])
      BY <1>1, <3>2 DEF ChannelInv, Reporting
    <3> QED BY <1>1, <3>3, GotWasWritten
  <2>2. ASSUME NEW e \in Ends PROVE told[e] <= 1 \/ ended[e] = "epipe"
    <3>1. ended[e] \in {"no", "local", "eof", "epipe"} /\ told[e] \in Nat
      BY <1>1, Fields DEF ChannelInv
    <3>2. (told[e] # 0 => ended[e] # "no") /\ (ended[e] \in {"local", "eof"} => told[e] <= 1)
      BY <1>1 DEF ChannelInv, EndOfChannel
    <3> QED BY <3>1, <3>2
  <2> QED BY <2>1, <2>2 DEF ReportsAreTrue, CallbacksTellTheTruth, DisconnectOnce
<1> QED BY <1>1, ChannelInvariant, PTL

\* An end that reads the end of the stream has emitted all that the other end could write,
\* unless a listener threw.
THEOREM EofIsComplete == ChannelSpec => []EofLosesNothing
<1>1. ChannelInv => EofLosesNothing
  BY DEF ChannelInv, ChannelTypeOK, EndOfChannel, EofLosesNothing
<1> QED BY <1>1, ChannelInvariant, PTL

\* Fewer messages were written than sent.
LEMMA WrittenWasSent ==
  ASSUME ChannelInv, NEW e \in Ends
  PROVE  written[e] <= sent[e] /\ written[e] \in Nat /\ sent[e] \in Nat
<1>1. PICK b \in Nat : Sending(e, b)
  <2>1. Peer(e) \in Ends /\ Peer(Peer(e)) = e
    BY TwoEnds
  <2>2. Arriving(Peer(e))
    BY <2>1 DEF ChannelInv
  <2> QED BY <2>1, <2>2 DEF Arriving
<1>2. sent[e] \in Nat /\ b <= Width * sent[e] /\ written[e] = b \div Width
  BY <1>1, Fields DEF ChannelInv, Sending
<1>3. (Width * sent[e]) \div Width = sent[e] /\ Width * sent[e] \in Nat
  BY <1>2, WholeLines
<1> QED BY <1>2, <1>3, Quotients, Divided

\* A step of the channel is one of the promise, or none that it sees.
LEMMA StepDelivers ==
  ASSUME ChannelInv, ChannelNext
  PROVE  Promise!Next \/ UNCHANGED Promise!vars
<1>1. PICK x \in Ends : ChannelProgram(x) \/ ChannelTick(x) \/ CloseAttempt(x) \/ ChannelLoop(x)
  BY DEF ChannelNext
<1>2. told \in [Ends -> Nat] /\ got \in [Ends -> Seq(1..MaxSends)] /\ MaxSends \in Nat
  BY Fields DEF ChannelInv
<1>3. thread[x] # "idle" \/ Connected(x) => x \notin {e \in Ends : told[e] > 0}
  <2>1. told[x] # 0 => thread[x] = "idle" /\ ended[x] # "no"
    BY DEF ChannelInv, EndOfChannel
  <2>2. thread[x] # "idle" \/ Connected(x) => told[x] = 0
    BY <2>1 DEF Connected
  <2> QED BY <1>2, <2>2
<1>4. CASE Send(x)
  <2>1. x \notin {e \in Ends : told[e] > 0}
    BY <1>3, <1>4 DEF Send
  <2>2. Promise!Send(x)
    BY <1>4, <2>1 DEF Promise!Send, Send
  <2> QED BY <2>2 DEF Promise!Next
<1>5. CASE Dispatch(x)
  <2>1. x \notin {e \in Ends : told[e] > 0}
    BY <1>3, <1>5 DEF Dispatch
  <2>2. PICK j \in Nat : /\ j <= Latest(x) /\ (x \notin threw => j = Latest(x))
                         /\ j + 1 <= written[Peer(x)]
                         /\ got' = [got EXCEPT ![x] = Append(@, j + 1)]
    BY <1>5, DispatchKeeps
  <2>3. Peer(x) \in Ends
    BY TwoEnds
  <2>4. j + 1 \in 1..sent[Peer(x)]
    BY <2>2, <2>3, WrittenWasSent
  <2>5. Latest(x) = Promise!Latest(x) /\ Latest(x) \in Nat
    BY <1>2, LatestIsNumber DEF Latest, Promise!Latest
  <2>6. j + 1 = Latest(x) + 1 \/ (x \in threw /\ j + 1 <= Latest(x))
    BY <2>2, <2>5
  <2>7. [e \in Ends |-> Peer(e)][x] = Peer(x)
    OBVIOUS
  <2>8. UNCHANGED <<sent, threw, told>>
    BY <1>5 DEF Dispatch
  <2>9. Promise!Deliver(x)
    BY <2>1, <2>2, <2>4, <2>5, <2>6, <2>7, <2>8 DEF Promise!Deliver
  <2> QED BY <2>9 DEF Promise!Next
<1>6. CASE Throw(x)
  <2>1. Promise!Throw(x)
    BY <1>6 DEF Throw, Promise!Throw
  <2> QED BY <2>1 DEF Promise!Next
<1>7. CASE RunTask(x)
  <2>1. UNCHANGED <<sent, got, threw>>
    BY <1>7 DEF RunTask
  <2>2. told' = [told EXCEPT ![x] = @ + 1] \/ told' = told
    BY <1>7 DEF RunTask
  <2>3. CASE told' = [told EXCEPT ![x] = @ + 1]
    <3>1. \A e \in Ends : told'[e] > 0 <=> told[e] > 0 \/ e = x
      BY <1>2, <2>3
    <3>2. {e \in Ends : told'[e] > 0} = {e \in Ends : told[e] > 0} \union {x}
      BY <3>1
    <3>3. Promise!Finish(x)
      BY <2>1, <3>2 DEF Promise!Finish
    <3> QED BY <3>3 DEF Promise!Next
  <2>4. CASE told' = told
    BY <2>1, <2>4 DEF Promise!vars
  <2> QED BY <2>2, <2>3, <2>4
<1>8. CASE \/ DisconnectOn(x) \/ SetListeners(x) \/ ToggleChannelRef(x) \/ Die(x) \/ ChannelTick(x)
           \/ CloseAttempt(x) \/ Read(x) \/ ReadNothing(x) \/ ReadEnd(x) \/ Return(x) \/ SplitDone(x)
           \/ CloseDone(x)
  <2>1. UNCHANGED <<sent, got, threw, told>>
    BY <1>8 DEF DisconnectOn, SetListeners, ToggleChannelRef, Die, ChannelTick, CloseAttempt, Read,
       ReadNothing, ReadEnd, Return, SplitDone, CloseDone, history
  <2> QED BY <2>1 DEF Promise!vars
<1> QED BY <1>1, <1>4, <1>5, <1>6, <1>7, <1>8 DEF ChannelProgram, ChannelLoop

\* The channel implements what it promises: each end gets the messages of the other in
\* order, none skipped, none after 'disconnect', and one again only after a throw.
THEOREM ChannelDelivers == ChannelSpec => DeliversInOrder
<1>1. ChannelInit => Promise!Init
  <2>1. ASSUME ChannelInit PROVE {e \in Ends : told[e] > 0} = {}
    BY <2>1 DEF ChannelInit
  <2> QED BY <2>1 DEF ChannelInit, Promise!Init
<1>2. ChannelInv /\ [ChannelNext]_channelVars => [Promise!Next]_(Promise!vars)
  <2>1. UNCHANGED channelVars => UNCHANGED Promise!vars
    BY DEF channelVars, Promise!vars
  <2> QED BY <2>1, StepDelivers
<1> QED BY <1>1, <1>2, ChannelInvariant, PTL DEF ChannelSpec, DeliversInOrder, Promise!Spec

==============================================================================
