------------------------------ MODULE Writable ------------------------------
(***************************************************************************)
(* The Writable of node-stream.js: writes and their callbacks, the buffer, *)
(* cork, 'drain', end(), _final, errors and destroy().  Chunks have length *)
(* 1 (object mode) and are numbered in the order of write(); 0 is end()'s. *)
(*                                                                         *)
(* JavaScript runs to completion, but every callback and listener is code  *)
(* of the program, which may call the stream again.  `todo` is what the    *)
(* stream still has to do: the rest of the running task, cut where it      *)
(* calls the program, and the process.nextTick queue after it.             *)
(***************************************************************************)
EXTENDS Naturals, Sequences, Functions

CONSTANTS
  MaxWrites,       \* bound: calls of write()
  HighWaterMark    \* length at which write() returns false

ASSUME WritableAssumption == MaxWrites \in Nat /\ HighWaterMark \in Nat \ {0}

VARIABLES
  w,          \* the flags and counters of WritableState (closed: 'close' was emitted)
  buffered,   \* state.buffered: chunks the sink has not been given
  writing,    \* the chunk, or with _writev the chunks, the sink is working on
  todo,       \* the rest of the running task, then the nextTick queue
  n,          \* calls of write() so far
  sunk,       \* chunks given to the sink, in order
  took,       \* chunks the sink acknowledged
  told        \* the callbacks called, in order, and their outcome

vars == <<w, buffered, writing, todo, n, sunk, took, told>>

Ops == {"after", "werror", "settle", "spill", "fail", "endtick", "finish", "close", "ok", "failed", "lost"}

Chunks == 0..MaxWrites

Item(op, ids) == [op |-> op, ids |-> ids]
Do(op) == Item(op, <<>>)

TypeOK ==
  /\ w \in [corked : 0..1, pendingcb : Nat, needDrain : BOOLEAN, ending : BOOLEAN,
            final : {"no", "called", "done"}, endcb : BOOLEAN, finished : BOOLEAN,
            errored : BOOLEAN, destroyed : BOOLEAN, closing : BOOLEAN, closed : BOOLEAN,
            writev : BOOLEAN, hasFinal : BOOLEAN]
  /\ buffered \in Seq(Chunks) /\ writing \in Seq(Chunks) /\ sunk \in Seq(Chunks)
  /\ todo \in Seq([op : Ops, ids : Seq(Chunks)])
  /\ n \in 0..MaxWrites
  /\ took \subseteq Chunks
  /\ told \in Seq([id : Chunks, ok : BOOLEAN])

\* The sink may implement _writev and _final.
Init ==
  /\ \E v, f \in BOOLEAN :
       w = [corked |-> 0, pendingcb |-> 0, needDrain |-> FALSE, ending |-> FALSE,
            final |-> "no", endcb |-> FALSE, finished |-> FALSE, errored |-> FALSE,
            destroyed |-> FALSE, closing |-> FALSE, closed |-> FALSE,
            writev |-> v, hasFinal |-> f]
  /\ buffered = <<>> /\ writing = <<>> /\ todo = <<>> /\ n = 0
  /\ sunk = <<>> /\ took = {} /\ told = <<>>

Length == Len(buffered) + Len(writing)

Answers(ids, ok) == [i \in DOMAIN ids |-> [id |-> ids[i], ok |-> ok]]

\* What one _write or _writev may come to before it returns.
Outcomes == {"after", "werror"}

------------------------------------------------------------------------------
(* Handing chunks to the sink.                                             *)

\* clearBuffer: the loop goes on while the sink answers before _write returns
\* (k chunks, with the outcomes o) and stops at one it keeps; _writev takes all.
Clear(w0, rest, acked, late) ==
  \E k \in 0..Len(buffered) : \E o \in [1..k -> Outcomes] :
    /\ writing' = IF k < Len(buffered) THEN <<buffered[k + 1]>> ELSE <<>>
    /\ buffered' = SubSeq(buffered, k + 2, Len(buffered))
    /\ sunk' = sunk \o SubSeq(buffered, 1, k) \o writing'
    /\ took' = took \cup acked \cup {buffered[i] : i \in {j \in 1..k : o[j] = "after"}}
    /\ w' = [w0 EXCEPT !.errored = @ \/ \E i \in 1..k : o[i] = "werror"]
    /\ LET now == [i \in 1..k |-> Item(o[i], <<buffered[i]>>)]
       IN  todo' = IF late THEN rest \o now ELSE now \o rest

ClearOneByOne(w0, rest, acked) == Clear(w0, rest, acked, TRUE)

ClearAtOnce(w0, rest, acked) ==
  \E now \in Outcomes \cup {"later"} :
    /\ writing' = IF now = "later" THEN buffered ELSE <<>>
    /\ buffered' = <<>>
    /\ sunk' = sunk \o buffered
    /\ took' = took \cup acked \cup (IF now = "after" THEN Range(buffered) ELSE {})
    /\ w' = [w0 EXCEPT !.errored = @ \/ now = "werror", !.pendingcb = @ - (Len(buffered) - 1)]
    /\ todo' = IF now = "later" THEN rest ELSE Append(rest, Item(now, buffered))

ClearBuffer(w0, rest, acked) ==
  IF w0.corked > 0 \/ w0.destroyed \/ buffered = <<>>
    THEN /\ w' = w0 /\ todo' = rest /\ writing' = <<>> /\ took' = took \cup acked
         /\ UNCHANGED <<buffered, sunk>>
    ELSE IF w0.writev /\ Len(buffered) > 1 THEN ClearAtOnce(w0, rest, acked) ELSE ClearOneByOne(w0, rest, acked)

\* destroy(): what was buffered is answered in a later tick, 'error' and 'close'
\* in one after it, or after an asynchronous _destroy.
DestroyWith(w0, rest, failed, spill) ==
  IF w0.destroyed THEN w' = w0 /\ todo' = rest
  ELSE \E soon \in BOOLEAN :
    /\ w' = [w0 EXCEPT !.destroyed = TRUE, !.errored = @ \/ failed, !.closing = ~soon]
    /\ todo' = rest \o (IF spill THEN <<Do("spill")>> ELSE <<>>)
                    \o (IF soon THEN <<Do("close")>> ELSE <<>>)

\* A mistake: what is buffered is not answered.
DestroyEndOnly(w0, rest, failed) == DestroyWith(w0, rest, failed, w0.endcb)
Destroy(w0, rest, failed) == DestroyWith(w0, rest, failed, buffered # <<>> \/ w0.endcb)

------------------------------------------------------------------------------
(* The end of the stream.                                                  *)

NeedFinish(w0, len) == w0.ending /\ ~w0.destroyed /\ len = 0 /\ ~w0.errored /\ ~w0.finished

\* callFinal: the sink's _final answers at once, or later.  A failure reaches the
\* callback of end() only if end() has returned.
CallFinal(w0, rest, sync) ==
  \/ /\ w' = [w0 EXCEPT !.final = "called", !.pendingcb = @ + 1]
     /\ todo' = rest /\ UNCHANGED told
  \/ /\ w' = [w0 EXCEPT !.final = "done", !.pendingcb = @ + 1]
     /\ todo' = Append(rest, Do("finish")) /\ UNCHANGED told
  \/ /\ told' = IF w0.endcb /\ ~sync THEN Append(told, [id |-> 0, ok |-> FALSE]) ELSE told
     /\ Destroy([w0 EXCEPT !.final = "done", !.endcb = @ /\ sync], rest, TRUE)

FinishMaybe(w0, len, rest, sync) ==
  \/ ~NeedFinish(w0, len) /\ w' = w0 /\ todo' = rest /\ UNCHANGED told
  \/ NeedFinish(w0, len) /\ w0.hasFinal /\ w0.final = "no" /\ CallFinal(w0, rest, sync)
  \/ /\ NeedFinish(w0, len) /\ (w0.hasFinal => w0.final # "no")
     /\ IF w0.pendingcb > 0 THEN w' = w0 /\ todo' = rest
        ELSE /\ w' = [w0 EXCEPT !.pendingcb = 1]
             /\ todo' = IF sync THEN Append(rest, Do("endtick")) ELSE <<Do("finish")>> \o rest
     /\ UNCHANGED told

------------------------------------------------------------------------------
(* The program.                                                            *)

\* A write that is refused is answered in a tick and destroys the stream.
WriteRefused ==
  /\ n < MaxWrites /\ n' = n + 1
  /\ w.ending \/ w.destroyed
  /\ Destroy(w, Append(todo, Item("lost", <<n + 1>>)), TRUE)
  /\ UNCHANGED <<buffered, writing, sunk, took, told>>

\* A mistake: a corked stream writes through.
FreeWhenCorked == writing = <<>> /\ ~w.errored
Free == writing = <<>> /\ w.corked = 0 /\ ~w.errored

Accepted ==
  [w EXCEPT !.pendingcb = @ + 1, !.needDrain = @ \/ Length + 1 >= HighWaterMark]

WriteBuffered ==
  /\ n < MaxWrites /\ n' = n + 1
  /\ ~w.ending /\ ~w.destroyed
  /\ ~Free
  /\ buffered' = Append(buffered, n + 1)
  /\ w' = Accepted
  /\ UNCHANGED <<writing, todo, sunk, took, told>>

WriteThrough ==
  /\ n < MaxWrites /\ n' = n + 1
  /\ ~w.ending /\ ~w.destroyed
  /\ Free
  /\ sunk' = Append(sunk, n + 1)
  /\ \E now \in Outcomes \cup {"later"} :
       /\ writing' = IF now = "later" THEN <<n + 1>> ELSE <<>>
       /\ took' = IF now = "after" THEN took \cup {n + 1} ELSE took
       /\ w' = [Accepted EXCEPT !.errored = now = "werror"]
       /\ todo' = IF now = "later" THEN todo ELSE Append(todo, Item(now, <<n + 1>>))
  /\ UNCHANGED <<buffered, told>>

Cork ==
  /\ w.corked = 0 /\ ~w.ending
  /\ w' = [w EXCEPT !.corked = 1]
  /\ UNCHANGED <<buffered, writing, todo, n, sunk, took, told>>

Uncork ==
  /\ w.corked = 1
  /\ IF writing = <<>> THEN ClearBuffer([w EXCEPT !.corked = 0], todo, {})
     ELSE w' = [w EXCEPT !.corked = 0] /\ UNCHANGED <<buffered, writing, todo, sunk, took>>
  /\ UNCHANGED <<n, told>>

\* end(callback): after uncork() cleared the buffer.
End ==
  /\ w.corked = 0 \/ buffered = <<>>
  /\ ~w.ending /\ ~w.endcb
  /\ \/ /\ ~w.errored
        /\ FinishMaybe([w EXCEPT !.corked = 0, !.ending = TRUE, !.endcb = TRUE], Length, todo, TRUE)
     \/ /\ w.errored /\ ~w.destroyed
        /\ w' = [w EXCEPT !.corked = 0, !.endcb = TRUE] /\ UNCHANGED <<todo, told>>
     \/ /\ w.errored /\ w.destroyed
        /\ \A i \in DOMAIN told : told[i].id # 0
        /\ \A i \in DOMAIN todo : todo[i] # Item("lost", <<0>>)
        /\ todo' = Append(todo, Item("lost", <<0>>)) /\ UNCHANGED <<w, told>>
  /\ UNCHANGED <<buffered, writing, n, sunk, took>>

CallDestroy ==
  /\ ~w.destroyed
  /\ \E failed \in BOOLEAN : Destroy(w, todo, failed)
  /\ UNCHANGED <<buffered, writing, n, sunk, took, told>>

------------------------------------------------------------------------------
(* The stream's own steps.                                                 *)

Take(op) == todo # <<>> /\ Head(todo).op = op

\* A mistake: 'drain' is not emitted.
DrainTooLate ==
  /\ Take("after")
  /\ todo' = <<Item("ok", Head(todo).ids), Do("settle")>> \o Tail(todo)
  /\ UNCHANGED <<w, buffered, writing, n, sunk, took, told>>

\* afterWrite: 'drain' if the stream ran empty, the callback, then the rest.
AfterWrite ==
  /\ Take("after")
  /\ w' = [w EXCEPT !.needDrain = @ /\ (w.ending \/ w.destroyed \/ Length > 0)]
  /\ todo' = <<Item("ok", Head(todo).ids), Do("settle")>> \o Tail(todo)
  /\ UNCHANGED <<buffered, writing, n, sunk, took, told>>

\* onwriteError
WriteError ==
  /\ Take("werror")
  /\ todo' = <<Item("failed", Head(todo).ids), Do("spill"), Do("fail")>> \o Tail(todo)
  /\ UNCHANGED <<w, buffered, writing, n, sunk, took, told>>

CallBack ==
  /\ Take("ok") \/ Take("failed") \/ Take("lost")
  /\ told' = told \o Answers(Head(todo).ids, Head(todo).op = "ok")
  /\ w' = [w EXCEPT !.pendingcb = IF Head(todo).op = "lost" THEN @ ELSE @ - 1]
  /\ todo' = Tail(todo)
  /\ UNCHANGED <<buffered, writing, n, sunk, took>>

\* A mistake: state.buffered is not reset.
KeepsWhatItFailed ==
  /\ Take("spill") \/ (Take("settle") /\ w.destroyed)
  /\ IF writing # <<>> THEN todo' = Tail(todo) ELSE todo' = <<Item("lost", buffered)>> \o Tail(todo)
  /\ UNCHANGED <<w, buffered, writing, n, sunk, took, told>>

\* errorBuffer
ErrorBuffer ==
  /\ Take("spill") \/ (Take("settle") /\ w.destroyed)
  /\ IF writing # <<>> THEN todo' = Tail(todo) /\ UNCHANGED buffered
     ELSE todo' = <<Item("lost", buffered)>> \o Tail(todo) /\ buffered' = <<>>
  /\ UNCHANGED <<w, writing, n, sunk, took, told>>

Settle ==
  /\ Take("settle") /\ ~w.destroyed
  /\ FinishMaybe(w, Length, Tail(todo), FALSE)
  /\ UNCHANGED <<buffered, writing, n, sunk, took>>

\* errorOrDestroy of an autoDestroy stream
Fail ==
  /\ Take("fail")
  /\ Destroy(w, Tail(todo), TRUE)
  /\ UNCHANGED <<buffered, writing, n, sunk, took, told>>

\* The tick of finishMaybe looks again whether there is nothing left to do.
EndTick ==
  /\ Take("endtick")
  /\ IF NeedFinish(w, Length) THEN todo' = <<Do("finish")>> \o Tail(todo) /\ UNCHANGED w
     ELSE todo' = Tail(todo) /\ w' = [w EXCEPT !.pendingcb = @ - 1]
  /\ UNCHANGED <<buffered, writing, n, sunk, took, told>>

\* finish: end()'s callback, 'finish', autoDestroy.
Finish ==
  /\ Take("finish")
  /\ told' = IF w.endcb THEN Append(told, [id |-> 0, ok |-> TRUE]) ELSE told
  /\ Destroy([w EXCEPT !.pendingcb = @ - 1, !.finished = TRUE, !.endcb = FALSE], Tail(todo), FALSE)
  /\ UNCHANGED <<buffered, writing, n, sunk, took>>

\* emitCloseNT or emitErrorCloseNT
Close ==
  /\ Take("close")
  /\ w' = [w EXCEPT !.closed = TRUE]
  /\ todo' = Tail(todo)
  /\ UNCHANGED <<buffered, writing, n, sunk, took, told>>

------------------------------------------------------------------------------
(* The sink and an asynchronous _destroy answer from the event loop.       *)

\* onwrite: the next chunks go to the sink before the callback is called.
SinkTook ==
  /\ todo = <<>> /\ writing # <<>>
  /\ ClearBuffer(w, <<Item("after", writing)>>, Range(writing))
  /\ UNCHANGED <<n, told>>

SinkFailed ==
  /\ todo = <<>> /\ writing # <<>>
  /\ w' = [w EXCEPT !.errored = TRUE]
  /\ writing' = <<>>
  /\ todo' = <<Item("werror", writing)>>
  /\ UNCHANGED <<buffered, n, sunk, took, told>>

\* onFinish of callFinal
FinalDone ==
  /\ todo = <<>> /\ w.final = "called"
  /\ w' = [w EXCEPT !.final = "done", !.pendingcb = IF NeedFinish(w, Length) THEN @ ELSE @ - 1]
  /\ todo' = IF NeedFinish(w, Length) THEN <<Do("finish")>> ELSE <<>>
  /\ UNCHANGED <<buffered, writing, n, sunk, took, told>>

FinalFailed ==
  /\ todo = <<>> /\ w.final = "called"
  /\ told' = IF w.endcb THEN Append(told, [id |-> 0, ok |-> FALSE]) ELSE told
  /\ Destroy([w EXCEPT !.final = "done", !.endcb = FALSE, !.pendingcb = @ - 1], <<>>, TRUE)
  /\ UNCHANGED <<buffered, writing, n, sunk, took>>

DestroyDone ==
  /\ todo = <<>> /\ w.closing
  /\ w' = [w EXCEPT !.closing = FALSE]
  /\ todo' = <<Do("close")>>
  /\ UNCHANGED <<buffered, writing, n, sunk, took, told>>

------------------------------------------------------------------------------

Run == AfterWrite \/ WriteError \/ CallBack \/ ErrorBuffer \/ Settle \/ Fail \/ EndTick \/ Finish \/ Close

Sink == SinkTook \/ SinkFailed

Program == WriteRefused \/ WriteBuffered \/ WriteThrough \/ Cork \/ Uncork \/ End \/ CallDestroy

Next == Run \/ Sink \/ FinalDone \/ FinalFailed \/ DestroyDone \/ Program

Spec == Init /\ [][Next]_vars

\* A task and its ticks run to their end; the sink answers every _write and _final.
Fairness == WF_vars(Run) /\ WF_vars(Sink) /\ WF_vars(FinalDone \/ FinalFailed) /\ WF_vars(DestroyDone)

FairSpec == Spec /\ Fairness

------------------------------------------------------------------------------
(* Properties.                                                             *)

\* The sink gets each chunk once and in the order of write() (writeOrBuffer,
\* clearBuffer), whatever was buffered, corked or failed in between.
SinkInOrder == \A i, j \in DOMAIN sunk : i < j => sunk[i] < sunk[j]

\* Each callback is called once, and with success only for a chunk the sink took.
ToldOnceAndTruly ==
  /\ \A i, j \in DOMAIN told : told[i].id = told[j].id => i = j
  /\ \A i \in DOMAIN told : told[i].ok /\ told[i].id > 0 => told[i].id \in took

\* 'finish' (and success of end()) comes after the sink took every chunk of the
\* stream and after every callback: nobody is told that truncated output is whole.
FinishIsWhole ==
  w.finished => buffered = <<>> /\ writing = <<>> /\ \A i \in DOMAIN sunk : sunk[i] \in took /\ [id |-> sunk[i], ok |-> TRUE] \in Range(told)

\* What the program is told of its chunks and of the end is true.
ReportsAreTrue == ToldOnceAndTruly /\ FinishIsWhole

\* The callbacks of the chunks the sink got are called in the order of the chunks.
CallbacksInOrder ==
  \A i, j \in DOMAIN told :
    i < j /\ {told[i].id, told[j].id} \subseteq Range(sunk) => told[i].id < told[j].id

\* Chunks and their callbacks keep the order of write().
OrderIsKept == SinkInOrder /\ CallbacksInOrder

\* A write() that returned false for want of room is followed by 'drain', unless
\* the stream ends or is destroyed first, or stays corked.
DrainComes == w.needDrain ~> (~w.needDrain \/ w.ending \/ w.destroyed \/ w.corked > 0)

\* Every write() is answered, unless the program leaves the stream corked.
WritesAreAnswered ==
  \A i \in 1..MaxWrites : (i <= n) ~> (w.corked > 0 \/ \E j \in DOMAIN told : told[j].id = i)

\* end(callback) is answered once the stream is closed.  It is not: see the README.
EndIsAnswered == w.closed /\ todo = <<>> => ~w.endcb

==============================================================================
