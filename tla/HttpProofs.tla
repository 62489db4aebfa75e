------------------------------ MODULE HttpProofs -----------------------------
(***************************************************************************)
(* Theorems about HttpServer, for every number of requests and writes: the *)
(* types, that responses are on the wire in the order of their requests,   *)
(* that the idle timer and server.close() cut off no request, and that a   *)
(* response hears 'close' once.                                            *)
(*                                                                         *)
(* Theorems about Http2, for every number of streams, every threshold and  *)
(* every length of a body: the types, that both ends agree on the window   *)
(* of the connection and on those of the streams, and that a stream is     *)
(* received whole or was refused unprocessed.                              *)
(***************************************************************************)
EXTENDS HttpServer, Http2, FiniteSetTheorems, SequenceTheorems, TLAPS
------------------------------------------------------------------------------
(* Sequences of writes, and rising sequences.                              *)

\* A sequence of numbers that rise.
Rising(s) == \A i, j \in 1..Len(s) : i < j => s[i] < s[j]

\* How many of some writes are of response r.
OfResponse(w, r) == {i \in 1..Len(w) : w[i].of = r}
CountOf(w, r) == Cardinality(OfResponse(w, r))

\* The writes of a response are finitely many.
LEMMA CountIsNat ==
  ASSUME NEW w \in Seq(Entries), NEW r
  PROVE  IsFiniteSet(OfResponse(w, r)) /\ CountOf(w, r) \in Nat
<1>1. OfResponse(w, r) \subseteq 1..Len(w)
  BY DEF OfResponse
<1>2. IsFiniteSet(1..Len(w))
  <2>1. Len(w) \in Nat
    OBVIOUS
  <2> QED BY <2>1, FS_Interval
<1> QED BY <1>1, <1>2, FS_Subset, FS_CardinalityType DEF CountOf

\* A response with no write in w counts none.
LEMMA CountOfNone ==
  ASSUME NEW w \in Seq(Entries), NEW r, \A k \in 1..Len(w) : w[k].of # r
  PROVE  CountOf(w, r) = 0
<1>1. OfResponse(w, r) = {}
  BY DEF OfResponse
<1> QED BY <1>1, FS_EmptySet DEF CountOf

\* One write more is counted once.
LEMMA CountAppend ==
  ASSUME NEW w \in Seq(Entries), NEW x \in Entries, NEW r
  PROVE  CountOf(Append(w, x), r) = CountOf(w, r) + (IF x.of = r THEN 1 ELSE 0)
<1> DEFINE v == Append(w, x)
           n == Len(w) + 1
<1>1. Len(w) \in Nat /\ Len(v) = n /\ v[n] = x /\ \A k \in 1..Len(w) : v[k] = w[k]
  OBVIOUS
<1>2. 1..Len(v) = 1..Len(w) \union {n}
  BY <1>1
<1>3. n \notin OfResponse(w, r)
  BY <1>1 DEF OfResponse
<1>4. CASE x.of = r
  <2>1. OfResponse(v, r) = OfResponse(w, r) \union {n}
    BY <1>1, <1>2, <1>4 DEF OfResponse
  <2>2. Cardinality(OfResponse(w, r) \union {n}) = Cardinality(OfResponse(w, r)) + 1
    BY <1>3, CountIsNat, FS_AddElement
  <2> QED BY <2>1, <2>2, <1>4 DEF CountOf
<1>5. CASE x.of # r
  <2>1. OfResponse(v, r) = OfResponse(w, r)
    BY <1>1, <1>2, <1>5 DEF OfResponse
  <2> QED BY <2>1, <1>5, CountIsNat DEF CountOf
<1> QED BY <1>4, <1>5

\* What is joined to the writes is counted for the response it is of, and for no other.
LEMMA CountJoin ==
  ASSUME NEW w \in Seq(Entries), NEW e \in Seq(Entries), NEW n, \A k \in 1..Len(e) : e[k].of = n
  PROVE  /\ CountOf(w \o e, n) = CountOf(w, n) + Len(e)
         /\ \A m : m # n => CountOf(w \o e, m) = CountOf(w, m)
<1> DEFINE v == w \o e
           A == OfResponse(w, n)
           B == (Len(w) + 1)..(Len(w) + Len(e))
<1>1. /\ Len(w) \in Nat /\ Len(e) \in Nat /\ v \in Seq(Entries) /\ Len(v) = Len(w) + Len(e)
      /\ \A k \in 1..Len(w) : v[k] = w[k]
      /\ \A k \in B : v[k] = e[k - Len(w)] /\ k - Len(w) \in 1..Len(e)
  OBVIOUS
<1>2. 1..Len(v) = 1..Len(w) \union B
  BY <1>1
<1>3. \A k \in B : v[k].of = n
  BY <1>1
<1>4. ASSUME NEW m, m # n PROVE CountOf(v, m) = CountOf(w, m)
  <2>1. OfResponse(v, m) = OfResponse(w, m)
    BY <1>1, <1>2, <1>3, <1>4 DEF OfResponse
  <2> QED BY <2>1 DEF CountOf
<1>5. OfResponse(v, n) = A \union B /\ A \intersect B = {}
  BY <1>1, <1>2, <1>3 DEF OfResponse
<1>6. IsFiniteSet(B) /\ Cardinality(B) = Len(e)
  <2>1. Len(w) + 1 \in Int /\ Len(w) + Len(e) \in Int
    BY <1>1
  <2>2. IsFiniteSet(B) /\ Cardinality(B) = IF Len(w) + 1 > Len(w) + Len(e) THEN 0 ELSE (Len(w) + Len(e)) - (Len(w) + 1) + 1
    BY <2>1, FS_Interval
  <2> QED BY <2>2, <1>1
<1>7. IsFiniteSet(A) /\ CountOf(w, n) \in Nat /\ CountOf(w, n) = Cardinality(A)
  BY CountIsNat DEF CountOf
<1>8. Cardinality(A \union B) = Cardinality(A) + Cardinality(B)
  <2>1. Cardinality(A \union B) = Cardinality(A) + Cardinality(B) - Cardinality(A \intersect B)
    BY <1>6, <1>7, FS_Union
  <2>2. Cardinality(A \intersect B) = 0
    BY <1>5, FS_EmptySet
  <2> QED BY <2>1, <2>2, <1>6, <1>7, <1>1
<1>9. CountOf(v, n) = CountOf(w, n) + Len(e)
  BY <1>5, <1>6, <1>7, <1>8 DEF CountOf
<1> QED BY <1>4, <1>9

\* The elements of a sequence.
LEMMA InSet ==
  ASSUME NEW S, NEW s \in Seq(S), NEW x
  PROVE  x \in ToSet(s) <=> \E i \in 1..Len(s) : s[i] = x
BY DEF ToSet

\* The first element of a rising sequence is its least; without it the rest rises.
LEMMA RisingTail ==
  ASSUME NEW s \in Seq(Nat), Rising(s), s # <<>>
  PROVE  /\ Head(s) \in ToSet(s) /\ Head(s) = s[1] /\ Tail(s) \in Seq(Nat) /\ Rising(Tail(s))
         /\ \A x \in ToSet(s) : x \in Nat /\ Head(s) <= x
         /\ ToSet(Tail(s)) = ToSet(s) \ {Head(s)}
         /\ Tail(s) # <<>> => Head(s) < Head(Tail(s))
<1> DEFINE t == Tail(s)
<1>1. /\ Len(s) \in Nat /\ Len(s) > 0 /\ Head(s) = s[1] /\ t \in Seq(Nat) /\ Len(t) = Len(s) - 1
      /\ \A i \in 1..Len(t) : t[i] = s[i + 1] /\ i + 1 \in 1..Len(s)
      /\ \A i \in 1..Len(s) : s[i] \in Nat
      /\ t # <<>> => Len(t) > 0 /\ Head(t) = t[1]
  OBVIOUS
<1>2. Rising(t)
  BY <1>1 DEF Rising
<1>3. \A i \in 1..Len(s) : i # 1 => s[1] < s[i]
  BY <1>1 DEF Rising
<1>4. \A x \in ToSet(s) : x \in Nat /\ Head(s) <= x
  BY <1>1, <1>3, InSet
<1>5. Head(s) \in ToSet(s)
  BY <1>1, InSet
<1>6. ToSet(t) \subseteq ToSet(s) \ {Head(s)}
  <2> SUFFICES ASSUME NEW x \in ToSet(t) PROVE x \in ToSet(s) /\ x # Head(s)
    OBVIOUS
  <2>1. PICK i \in 1..Len(t) : t[i] = x
    BY ZenonT(60), <1>1, InSet
  <2>2. i + 1 \in 1..Len(s) /\ s[i + 1] = x /\ i + 1 # 1
    BY <1>1, <2>1
  <2> QED BY <2>2, <1>1, <1>3, InSet
<1>7. ToSet(s) \ {Head(s)} \subseteq ToSet(t)
  <2> SUFFICES ASSUME NEW x \in ToSet(s), x # Head(s) PROVE x \in ToSet(t)
    OBVIOUS
  <2>1. PICK i \in 1..Len(s) : s[i] = x
    BY InSet
  <2>2. i # 1 /\ i - 1 \in 1..Len(t) /\ t[i - 1] = s[i]
    <3>1. i # 1 /\ i - 1 \in 1..Len(t) /\ (i - 1) + 1 = i
      BY <1>1, <2>1
    <3> QED BY <3>1, <1>1
  <2> QED BY <2>1, <2>2, <1>1, InSet
<1>8. t # <<>> => Head(s) < Head(t)
  BY <1>1, <1>3
<1> QED BY <1>1, <1>2, <1>4, <1>5, <1>6, <1>7, <1>8

\* Without its first element, a rising sequence is its tail.
LEMMA WithoutFirst ==
  ASSUME NEW s \in Seq(Nat), Rising(s), s # <<>>
  PROVE  Without(s, Head(s)) = Tail(s)
<1>1. Head(s) \in ToSet(s)
  BY RisingTail
<1>2. Len(s) \in Nat /\ Len(s) > 0 /\ Head(s) = s[1] /\ \A i \in 1..Len(s) : s[i] \in Nat
  OBVIOUS
<1>3. \A i \in 1..Len(s) : s[i] = Head(s) <=> i = 1
  BY <1>2 DEF Rising
<1>4. (CHOOSE i \in 1..Len(s) : s[i] = Head(s)) = 1
  BY <1>2, <1>3
<1>5. Without(s, Head(s)) = RemoveAt(s, 1)
  BY <1>1, <1>4 DEF Without
<1>6. RemoveAt(s, 1) = SubSeq(s, 1, 0) \o SubSeq(s, 2, Len(s))
  BY DEF RemoveAt
<1>7. SubSeq(s, 1, 0) = <<>> /\ SubSeq(s, 2, Len(s)) = Tail(s)
  BY <1>2, SubSeqEmpty, TailIsSubSeq
<1>8. <<>> \o Tail(s) = Tail(s)
  BY ConcatEmptySeq
<1> QED BY <1>5, <1>6, <1>7, <1>8

\* A new last element.
LEMMA RisingAppend ==
  ASSUME NEW s \in Seq(Nat), NEW r \in Nat, Rising(s), \A i \in 1..Len(s) : s[i] < r
  PROVE  /\ Append(s, r) \in Seq(Nat) /\ Rising(Append(s, r)) /\ ToSet(Append(s, r)) = ToSet(s) \union {r}
         /\ Append(s, r) # <<>> /\ Head(Append(s, r)) = IF s = <<>> THEN r ELSE Head(s)
<1> DEFINE t == Append(s, r)
<1>1. /\ Len(s) \in Nat /\ t \in Seq(Nat) /\ Len(t) = Len(s) + 1 /\ t[Len(s) + 1] = r
      /\ \A i \in 1..Len(s) : t[i] = s[i] /\ s[i] \in Nat
  OBVIOUS
<1>2. \A i \in 1..Len(t) : i \in 1..Len(s) \/ i = Len(s) + 1
  BY <1>1
<1>3. Rising(t)
  BY <1>1, <1>2 DEF Rising
<1>4. ToSet(t) = ToSet(s) \union {r}
  <2>1. ASSUME NEW x PROVE x \in ToSet(t) <=> x \in ToSet(s) \/ x = r
    <3>1. x \in ToSet(t) <=> \E i \in 1..Len(t) : t[i] = x
      BY <1>1, InSet
    <3>2. x \in ToSet(s) <=> \E i \in 1..Len(s) : s[i] = x
      BY InSet
    <3>3. 1..Len(t) = 1..Len(s) \union {Len(s) + 1}
      BY <1>1
    <3> QED BY <3>1, <3>2, <3>3, <1>1
  <2> QED BY <2>1
<1> HIDE DEF t
<1>5. t # <<>> /\ Head(t) = t[1]
  BY <1>1
<1>6. s = <<>> => t[1] = r
  <2>1. s = <<>> => Len(s) = 0
    OBVIOUS
  <2> QED BY <1>1, <2>1
<1>7. s # <<>> => t[1] = s[1] /\ Head(s) = s[1]
  BY <1>1
<1> QED BY <1>1, <1>3, <1>4, <1>5, <1>6, <1>7 DEF t

------------------------------------------------------------------------------
(* The invariant.                                                          *)

\* The response that is first in line, and those in line.
First == Head(conn.responses)
Waits(r) == r \in ToSet(conn.responses)

\* The responses stand in the order of their requests.
InLine ==
  /\ Rising(conn.responses)
  /\ \A i \in 1..Len(conn.responses) : conn.responses[i] <= conn.sent
  /\ conn.req <= conn.sent

\* What a response that is not the first one holds back: all it was given, and, when it
\* was ended, the end.
HeldBack(x) ==
  /\ WithBytes(x.queued) = x.parts
  /\ \A k \in 1..Len(x.queued) : x.queued[k] # "more" => k = Len(x.queued) /\ x.over
  /\ x.over => x.queued # <<>> /\ x.queued[Len(x.queued)] # "more"
  /\ Drained => \A k \in 1..Len(x.queued) : x.queued[k] # "none"

\* A response that is not in line is not begun or over; the first one holds nothing back.
Stands(r) ==
  /\ r > conn.sent => res[r].parts = 0 /\ ~res[r].over /\ res[r].queued = <<>> /\ ~res[r].turn
  /\ res[r].parts = MaxParts + 1 => res[r].over
  /\ r <= conn.sent /\ ~Waits(r) => res[r].over /\ res[r].queued = <<>>
  /\ Waits(r) => IF r = First THEN res[r].queued = <<>> ELSE ~res[r].turn /\ HeldBack(res[r])

Standing == \A r \in Requests : Stands(r)

\* Only the first response finishes: by its last write, with no write after it, or in a task.
LastWrite ==
  \A k \in 1..Len(flight) :
    /\ flight[k].last => /\ conn.responses # <<>> /\ flight[k].of = First /\ k = Len(flight)
                         /\ res[First].over /\ Task("done", First) \notin due
    /\ Drained => conn.responses # <<>> /\ flight[k].of = First

LastTask ==
  \A r \in Nat : Task("done", r) \in due =>
    /\ conn.responses # <<>> /\ r = First /\ res[r].over
    /\ Drained => flight = <<>>

\* The inductive invariant; the order on the wire is added where the peer is well-formed.
IInv == TypeOK /\ InLine /\ Standing /\ LastWrite /\ LastTask

\* While the socket is open, a response that had its turn is on the wire as far as it was
\* written, and nothing of those behind it.
Wired ==
  sock.state = "open" =>
    /\ \A k \in 1..Len(wire) : /\ wire[k].of \in 1..conn.sent
                               /\ conn.responses # <<>> => wire[k].of <= First
    /\ \A r \in 1..conn.sent : ~Waits(r) \/ r = First => Handed(r) = res[r].parts

\* The types, field by field.
CType ==
  [responses : Seq(Requests), req : 0..MaxRequests, sent : 0..MaxRequests, attached : BOOLEAN,
   handed : BOOLEAN, closing : BOOLEAN, timeout : BOOLEAN, timer : BOOLEAN, hears : BOOLEAN]

RType ==
  [keep : BOOLEAN, stored : BOOLEAN, after : BOOLEAN, parts : 0..(MaxParts + 1), over : BOOLEAN,
   queued : Seq(Parts), turn : BOOLEAN, said : BOOLEAN, closes : Nat]

SType == [state : {"open", "ended", "destroyed", "gone"}, peer : BOOLEAN, broken : BOOLEAN]

DType == [ev : {"done", "close", "end"}, of : 0..MaxRequests]

\* What the type invariant says of each variable, and back.
LEMMA Types ==
  ASSUME TypeOK
  PROVE  /\ conn \in CType /\ res \in [Requests -> RType] /\ sock \in SType
         /\ wire \in Seq(Entries) /\ flight \in Seq(Entries) /\ due \subseteq DType
         /\ MaxRequests \in Nat /\ MaxParts \in Nat /\ Requests \subseteq Nat
BY HttpServerAssumption DEF TypeOK, CType, RType, SType, DType, Requests

\* A state whose parts have their types has its types.
LEMMA TypesAgain ==
  ASSUME conn' \in CType, res' \in [Requests -> RType], sock' \in SType,
         wire' \in Seq(Entries), flight' \in Seq(Entries), due' \subseteq DType
  PROVE  TypeOK'
BY DEF TypeOK, CType, RType, SType, DType

\* Facts about the line that most steps need.
LEMMA Line ==
  ASSUME IInv
  PROVE  /\ conn.responses \in Seq(Nat) /\ Rising(conn.responses) /\ conn.sent \in Nat /\ conn.req \in Nat
         /\ conn.responses # <<>> =>
              First \in Requests /\ Waits(First) /\ First <= conn.sent /\ First \in Nat
         /\ \A x : Waits(x) => x \in Requests /\ x <= conn.sent /\ First <= x
         /\ conn.responses = <<>> => \A x : ~Waits(x)
<1>1. conn \in CType /\ Requests \subseteq Nat
  BY Types DEF IInv
<1>2. conn.responses \in Seq(Requests) /\ conn.sent \in Nat /\ conn.req \in Nat
  BY <1>1, Types DEF IInv, CType
<1>3. conn.responses \in Seq(Nat) /\ Rising(conn.responses)
  <2>1. conn.responses \in Seq(Nat)
    BY <1>1, <1>2, SeqMonotonic
  <2>2. InLine
    BY DEF IInv
  <2> QED BY <2>1, <2>2 DEF InLine
<1>4. \A x : Waits(x) => x \in Requests /\ x <= conn.sent
  <2> SUFFICES ASSUME NEW x, Waits(x) PROVE x \in Requests /\ x <= conn.sent
    OBVIOUS
  <2>1. PICK i \in 1..Len(conn.responses) : conn.responses[i] = x
    BY <1>2, InSet DEF Waits
  <2>2. conn.responses[i] \in Requests
    BY <1>2
  <2>3. conn.responses[i] <= conn.sent
    <3>1. InLine
      BY DEF IInv
    <3> QED BY <3>1 DEF InLine
  <2> QED BY <2>1, <2>2, <2>3
<1>5. conn.responses # <<>> => Waits(First) /\ \A x : Waits(x) => First <= x
  BY <1>3, RisingTail DEF Waits, First
<1>6. conn.responses = <<>> => \A x : ~Waits(x)
  BY DEF Waits, ToSet
<1> QED BY <1>1, <1>2, <1>3, <1>4, <1>5, <1>6

\* What the invariant looks at in a response.
Same(r) ==
  /\ res'[r].parts = res[r].parts /\ res'[r].over = res[r].over
  /\ res'[r].queued = res[r].queued /\ res'[r].turn = res[r].turn

\* A step that moves no response and finishes none.
LEMMA Unmoved ==
  ASSUME IInv, TypeOK', conn'.responses = conn.responses, conn'.sent = conn.sent, conn'.req <= conn.sent,
         \A r \in Requests : Same(r), flight' = flight,
         \A r \in Nat : Task("done", r) \in due' <=> Task("done", r) \in due
  PROVE  IInv'
<1>0. \A r : Waits(r)' <=> Waits(r)
  BY DEF Waits
<1>1. First' = First
  BY DEF First
<1>2. InLine'
  BY DEF IInv, InLine
<1>3. Standing'
  <2> SUFFICES ASSUME NEW r \in Requests PROVE Stands(r)'
    BY DEF Standing
  <2>1. Same(r) /\ Stands(r)
    BY DEF IInv, Standing
  <2> QED BY <2>1, <1>0, <1>1 DEF Stands, Same, HeldBack
<1>4. conn.responses # <<>> => First \in Requests /\ First \in Nat
  BY Line
<1>5. LastWrite'
  BY <1>1, <1>4 DEF IInv, LastWrite, Same
<1>6. LastTask'
  BY <1>1, <1>4 DEF IInv, LastTask, Same
<1> QED BY <1>2, <1>3, <1>5, <1>6 DEF IInv

\* It leaves what is on the wire in order.
LEMMA WiredUnmoved ==
  ASSUME IInv, TypeOK', conn'.responses = conn.responses, conn'.sent = conn.sent,
         \A r \in Requests : Same(r), wire' = wire, sock'.state = "open" => sock.state = "open",
         Wired, ResponsesInOrder
  PROVE  Wired' /\ ResponsesInOrder'
<1>0. (\A r : Waits(r)' <=> Waits(r)) /\ First' = First
  BY DEF Waits, First
<1>1. \A r : Handed(r)' = Handed(r)
  BY DEF Handed
<1>2. conn.sent \in Nat /\ conn.sent <= MaxRequests /\ MaxRequests \in Nat
  BY Types DEF IInv, CType
<1>3. \A r \in 1..conn.sent : r \in Requests
  BY <1>2 DEF Requests
<1>4. Wired'
  BY <1>0, <1>1, <1>3 DEF Wired, Same
<1>5. wire \in Seq(Entries) /\ \A i \in 1..Len(wire) : wire[i].of = 0 \/ wire[i].of \in Requests
  <2>1. wire \in Seq(Entries)
    BY Types DEF IInv
  <2>2. \A i \in 1..Len(wire) : wire[i] \in Entries
    BY <2>1
  <2>3. \A x \in Entries : x.of = 0 \/ x.of \in Requests
    BY <1>2 DEF Entries, Requests
  <2> QED BY <2>1, <2>2, <2>3
<1>6. \A i \in 1..Len(wire) : wire[i].of # 0 /\ Whole(wire[i].of) => Whole(wire[i].of)'
  BY <1>1, <1>5 DEF Whole, Same
<1>7. ResponsesInOrder'
  BY <1>6 DEF ResponsesInOrder
<1> QED BY <1>4, <1>7

------------------------------------------------------------------------------
(* Steps that change no response.                                          *)

\* What is said of the order of the responses on the wire, and that a step keeps it.
Orderly == Wired /\ ResponsesInOrder
KeepsOrder == Orderly => Orderly'

\* destroy() of a socket.
LEMMA DestroyedSocket ==
  ASSUME NEW s \in SType
  PROVE  /\ Destroyed(s) \in SType /\ Destroyed(s).state # "open"
         /\ s.state \in {"open", "ended"} => Destroyed(s).state = "destroyed"
         /\ s.state \notin {"open", "ended"} => Destroyed(s) = s
BY DEF Destroyed, SType

\* A step that changes no response but for its events, and neither the line nor the wire.
LEMMA QuietStep ==
  ASSUME IInv, conn' \in CType, res' \in [Requests -> RType], sock' \in SType, due' \subseteq DType,
         wire' = wire, flight' = flight, conn'.responses = conn.responses, conn'.sent = conn.sent,
         conn'.req <= conn.sent, \A r \in Requests : Same(r),
         \A r \in Nat : Task("done", r) \in due' <=> Task("done", r) \in due,
         sock'.state = "open" => sock.state = "open"
  PROVE  IInv' /\ KeepsOrder
<1>1. TypeOK'
  BY Types, TypesAgain DEF IInv
<1>2. IInv'
  BY <1>1, Unmoved
<1>3. KeepsOrder
  BY <1>1, WiredUnmoved DEF KeepsOrder, Orderly
<1> QED BY <1>2, <1>3

\* Tasks of other kinds finish no response.
LEMMA OtherTasks ==
  ASSUME NEW ev \in {"close", "end"}, NEW of
  PROVE  \A r : /\ Task("done", r) \in due \cup {Task(ev, of)} <=> Task("done", r) \in due
                /\ Task("done", r) \in due \ {Task(ev, of)} <=> Task("done", r) \in due
<1>1. \A r : Task("done", r) # Task(ev, of)
  BY DEF Task
<1> QED BY <1>1

\* What Task makes is one of the tasks.
LEMMA TaskType ==
  ASSUME NEW ev \in {"done", "close", "end"}, NEW of \in 0..MaxRequests
  PROVE  Task(ev, of) \in DType
BY DEF Task, DType

\* writeHead() touches nothing that the invariant looks at.
LEMMA WriteHeadStep ==
  ASSUME IInv, NEW r \in Requests, WriteHead(r)
  PROVE  IInv' /\ KeepsOrder
<1>1. /\ conn \in CType /\ res \in [Requests -> RType] /\ sock \in SType /\ due \subseteq DType
  BY Types DEF IInv
<1>2. PICK after \in BOOLEAN : res' = [res EXCEPT ![r].stored = TRUE, ![r].after = after]
  <2>1. PICK close \in BOOLEAN :
          res' = [res EXCEPT ![r].stored = TRUE, ![r].after = ~res[r].keep \/ conn.closing \/ close]
    BY DEF WriteHead
  <2>2. (~res[r].keep \/ conn.closing \/ close) \in BOOLEAN
    OBVIOUS
  <2> QED BY <2>1, <2>2
<1>3. UNCHANGED <<conn, sock, wire, flight, due>>
  BY DEF WriteHead
<1>4. res' \in [Requests -> RType]
  <2>1. [res[r] EXCEPT !.stored = TRUE, !.after = after] \in RType
    BY <1>1 DEF RType
  <2> QED BY <1>1, <1>2, <2>1
<1>5. \A q \in Requests : Same(q)
  BY <1>1, <1>2 DEF Same, RType
<1>6. conn.req <= conn.sent
  BY DEF IInv, InLine
<1> QED BY <1>1, <1>3, <1>4, <1>5, <1>6, QuietStep

\* The emission of a queued 'close' does not either.
LEMMA EmitCloseStep ==
  ASSUME IInv, NEW r \in Requests, EmitClose(r)
  PROVE  IInv' /\ KeepsOrder
<1>1. /\ conn \in CType /\ res \in [Requests -> RType] /\ sock \in SType /\ due \subseteq DType
  BY Types DEF IInv
<1>2. /\ due' = due \ {Task("close", r)} /\ res' = [res EXCEPT ![r].closes = @ + 1]
      /\ UNCHANGED <<conn, sock, wire, flight>>
  BY DEF EmitClose
<1>4. res' \in [Requests -> RType]
  <2>1. res[r].closes + 1 \in Nat
    BY <1>1 DEF RType
  <2> QED BY <1>1, <1>2, <2>1 DEF RType
<1>5. \A q \in Requests : Same(q)
  BY <1>1, <1>2 DEF Same, RType
<1>6. conn.req <= conn.sent
  BY DEF IInv, InLine
<1>7. \A q \in Nat : Task("done", q) \in due' <=> Task("done", q) \in due
  BY <1>2, OtherTasks
<1>8. due' \subseteq DType
  BY <1>1, <1>2
<1> QED BY <1>1, <1>2, <1>4, <1>5, <1>6, <1>7, <1>8, QuietStep

\* The steps that change the connection's flags and the socket alone.
LEMMA FlagStep ==
  ASSUME IInv, UNCHANGED <<res, wire, flight>>,
         conn' \in CType, conn'.responses = conn.responses, conn'.sent = conn.sent, conn'.req \in {0, conn.req},
         sock' \in SType, sock'.state = "open" => sock.state = "open",
         due' \in {due, due \cup {Task("end", 0)}, due \ {Task("end", 0)}}
  PROVE  IInv' /\ KeepsOrder
<1>1. /\ conn \in CType /\ res \in [Requests -> RType] /\ sock \in SType /\ due \subseteq DType
      /\ MaxRequests \in Nat
  BY Types DEF IInv
<1>2. due' \subseteq DType
  <2>1. Task("end", 0) \in DType
    BY <1>1 DEF Task, DType
  <2> QED BY <1>1, <2>1
<1>3. \A q \in Nat : Task("done", q) \in due' <=> Task("done", q) \in due
  BY OtherTasks
<1>4. \A q \in Requests : Same(q)
  BY DEF Same
<1>5. conn'.req <= conn.sent
  <2>1. conn.req <= conn.sent /\ conn.sent \in Nat
    BY <1>1 DEF IInv, InLine, CType
  <2> QED BY <2>1
<1> QED BY <1>1, <1>2, <1>3, <1>4, <1>5, QuietStep

\* The peer ends or resets, the idle timer fires, the server closes.
LEMMA QuietSteps ==
  ASSUME IInv, OnEnd \/ OnSocketEnd \/ AutoEnd \/ Reset \/ Timeout \/ CloseServer \/ SocketEnds
  PROVE  IInv' /\ KeepsOrder
<1>1. conn \in CType /\ sock \in SType /\ Destroyed(sock) \in SType /\ Destroyed(sock).state # "open"
  BY Types, DestroyedSocket DEF IInv
<1>2. CASE OnEnd
  <2>1. ASSUME NEW z \in 0..MaxRequests PROVE [conn EXCEPT !.req = z, !.timer = conn.timeout] \in CType
    BY <1>1 DEF CType
  <2>2. 0 \in 0..MaxRequests
    BY Types DEF IInv
  <2>3. conn' \in CType /\ conn'.responses = conn.responses /\ conn'.sent = conn.sent /\ conn'.req = 0
    <3>1. conn' = [conn EXCEPT !.req = 0, !.timer = conn.timeout]
      BY <1>2 DEF OnEnd
    <3>2. conn' \in CType
      BY <2>1, <2>2, <3>1
    <3> QED BY <1>1, <3>1, <3>2 DEF CType
  <2> QED BY <1>1, <1>2, <2>3, FlagStep DEF OnEnd
<1>3. CASE OnSocketEnd
  <2>1. sock' = [sock EXCEPT !.peer = FALSE, !.state = IF @ = "open" /\ ~Owed THEN "ended" ELSE @]
    BY <1>3 DEF OnSocketEnd
  <2>2. sock' \in SType /\ (sock'.state = "open" => sock.state = "open")
    BY <1>1, <2>1 DEF SType
  <2> QED BY <1>1, <1>3, <2>2, FlagStep DEF OnSocketEnd
<1>4. CASE AutoEnd
  <2>1. sock' \in SType /\ (sock'.state = "open" => sock.state = "open")
    BY <1>1, <1>4 DEF SType, AutoEnd
  <2> QED BY <1>1, <1>4, <2>1, FlagStep DEF AutoEnd
<1>5. CASE Reset
  <2>1. sock' = [Destroyed(sock) EXCEPT !.broken = TRUE]
    BY <1>5 DEF Reset
  <2>2. sock' \in SType /\ sock'.state # "open"
    BY <1>1, <2>1 DEF SType
  <2> QED BY <1>1, <1>5, <2>2, FlagStep DEF Reset
<1>6. CASE Timeout
  <2>1. conn' = [conn EXCEPT !.timer = FALSE, !.hears = FALSE] /\ sock' \in {sock, Destroyed(sock)}
    BY <1>6 DEF Timeout
  <2>2. conn' \in CType /\ conn'.responses = conn.responses /\ conn'.sent = conn.sent /\ conn'.req = conn.req
    BY <1>1, <2>1 DEF CType
  <2> QED BY <1>1, <1>6, <2>1, <2>2, FlagStep DEF Timeout
<1>7. CASE CloseServer
  <2>1. conn' = [conn EXCEPT !.closing = TRUE] /\ sock' \in {sock, Destroyed(sock)}
    BY <1>7 DEF CloseServer
  <2>2. conn' \in CType /\ conn'.responses = conn.responses /\ conn'.sent = conn.sent /\ conn'.req = conn.req
    BY <1>1, <2>1 DEF CType
  <2> QED BY <1>1, <1>7, <2>1, <2>2, FlagStep DEF CloseServer
<1>8. CASE SocketEnds
  BY <1>1, <1>8, FlagStep DEF SocketEnds
<1> QED BY <1>2, <1>3, <1>4, <1>5, <1>6, <1>7, <1>8

\* The socket's 'close' reaches every response that waits.
LEMMA OnSocketCloseStep ==
  ASSUME IInv, OnSocketClose
  PROVE  IInv' /\ KeepsOrder
<1>1. /\ conn \in CType /\ res \in [Requests -> RType] /\ sock \in SType /\ due \subseteq DType
  BY Types DEF IInv
<1>2. /\ sock' = [sock EXCEPT !.state = "gone"] /\ UNCHANGED <<conn, wire, flight, due>>
      /\ res' = res \/ res' = [r \in Requests |-> IF r \in ToSet(conn.responses) /\ ~res[r].said
                                       THEN [res[r] EXCEPT !.said = TRUE, !.closes = @ + 1] ELSE res[r]]
  BY DEF OnSocketClose
<1>3. sock' \in SType /\ sock'.state # "open"
  BY <1>1, <1>2 DEF SType
<1>4. ASSUME NEW r \in Requests PROVE [res[r] EXCEPT !.said = TRUE, !.closes = @ + 1] \in RType
  <2>1. res[r].closes + 1 \in Nat /\ res[r] \in RType
    BY <1>1 DEF RType
  <2> QED BY <2>1 DEF RType
<1>5. res' \in [Requests -> RType]
  BY <1>1, <1>2, <1>4
<1>6. ASSUME NEW r \in Requests PROVE Same(r)
  <2>1. res[r] \in RType
    BY <1>1
  <2>2. res'[r] = res[r] \/ res'[r] = [res[r] EXCEPT !.said = TRUE, !.closes = @ + 1]
    BY <1>2
  <2> QED BY <2>1, <2>2 DEF Same, RType
<1>7. conn.req <= conn.sent
  BY DEF IInv, InLine
<1> QED BY <1>1, <1>2, <1>3, <1>5, <1>6, <1>7, QuietStep

------------------------------------------------------------------------------
(* Writes that are joined to the wire; requests that come.                 *)

\* Writes of one response that are put on the wire after whole responses before it.
LEMMA InOrderJoin ==
  ASSUME wire \in Seq(Entries), NEW e \in Seq(Entries), NEW n \in Nat, \A k \in 1..Len(e) : e[k].of = n,
         wire' = wire \o e, ResponsesInOrder,
         \A m, i : i \in 1..Len(wire) /\ m = wire[i].of /\ m # 0 /\ Whole(m) => Whole(m)',
         e # <<>> => \A m, i : i \in 1..Len(wire) /\ m = wire[i].of /\ m # n =>
                                  m # 0 /\ Whole(m)' /\ (m < n \/ n = 0)
  PROVE  ResponsesInOrder'
<1>1. /\ Len(wire) \in Nat /\ Len(e) \in Nat /\ Len(wire') = Len(wire) + Len(e)
      /\ \A i \in 1..Len(wire) : wire'[i] = wire[i]
      /\ \A i \in 1..Len(wire') : i \notin 1..Len(wire) => wire'[i] = e[i - Len(wire)] /\ i - Len(wire) \in 1..Len(e)
      /\ (e = <<>> => Len(e) = 0)
  OBVIOUS
<1>2. SUFFICES ASSUME NEW i \in 1..Len(wire'), NEW j \in 1..Len(wire'), NEW m, i < j,
                      m = wire'[i].of, m # wire'[j].of
               PROVE  m # 0 /\ Whole(m)' /\ (m < wire'[j].of \/ wire'[j].of = 0)
  BY DEF ResponsesInOrder
<1>3. CASE j \in 1..Len(wire)
  <2>1. i \in 1..Len(wire) /\ wire'[i] = wire[i] /\ wire'[j] = wire[j]
    BY <1>1, <1>2, <1>3
  <2>2. m = wire[i].of /\ m # wire[j].of
    BY <1>2, <2>1
  <2>3. m # 0 /\ Whole(m) /\ (m < wire[j].of \/ wire[j].of = 0)
    BY <1>2, <1>3, <2>1, <2>2 DEF ResponsesInOrder
  <2>4. Whole(m)'
    BY <2>1, <2>2, <2>3
  <2> QED BY <2>1, <2>3, <2>4
<1>4. CASE j \notin 1..Len(wire)
  <2>1. wire'[j].of = n /\ e # <<>>
    BY <1>1, <1>4
  <2>2. i \in 1..Len(wire) \/ wire'[i].of = n
    BY <1>1
  <2>3. i \in 1..Len(wire) /\ wire'[i] = wire[i]
    BY <1>1, <1>2, <2>1, <2>2
  <2>4. m = wire[i].of /\ m # n
    BY <1>2, <2>1, <2>3
  <2> QED BY <2>1, <2>3, <2>4
<1> QED BY <1>3, <1>4

\* Nothing new on the wire.
LEMMA InOrderStill ==
  ASSUME wire' = wire, ResponsesInOrder,
         \A m, i : i \in 1..Len(wire) /\ m = wire[i].of /\ m # 0 /\ Whole(m) => Whole(m)'
  PROVE  ResponsesInOrder'
<1>1. SUFFICES ASSUME NEW i \in 1..Len(wire), NEW j \in 1..Len(wire), NEW m, m = wire[i].of,
                      i < j, m # wire[j].of
               PROVE  m # 0 /\ Whole(m)' /\ (m < wire[j].of \/ wire[j].of = 0)
  BY DEF ResponsesInOrder
<1>2. m # 0 /\ Whole(m) /\ (m < wire[j].of \/ wire[j].of = 0)
  BY <1>1 DEF ResponsesInOrder
<1> QED BY <1>1, <1>2

\* How many writes of a response there are after some of response n were put on the wire.
LEMMA HandedJoin ==
  ASSUME wire \in Seq(Entries), NEW e \in Seq(Entries), NEW n, \A k \in 1..Len(e) : e[k].of = n,
         wire' = wire \o e
  PROVE  /\ Handed(n)' = Handed(n) + Len(e)
         /\ \A m : m # n => Handed(m)' = Handed(m)
<1>1. \A m : Handed(m) = CountOf(wire, m) /\ Handed(m)' = CountOf(wire', m)
  BY DEF Handed, CountOf, OfResponse
<1> QED BY <1>1, CountJoin

\* A request that cannot be parsed.
LEMMA OnErrorStep ==
  ASSUME IInv, OnError
  PROVE  IInv' /\ (WellFormed => KeepsOrder)
<1>1. /\ conn \in CType /\ res \in [Requests -> RType] /\ sock \in SType /\ due \subseteq DType
      /\ wire \in Seq(Entries) /\ flight \in Seq(Entries) /\ MaxRequests \in Nat /\ Requests \subseteq Nat
  BY Types DEF IInv
<1>2. /\ conn' = [conn EXCEPT !.attached = FALSE, !.timeout = FALSE, !.timer = FALSE]
      /\ wire' = IF sock.state = "open" THEN Append(wire, Entry(0, "last")) ELSE wire
      /\ sock' = Destroyed(sock) /\ UNCHANGED <<res, flight, due>>
      /\ WellFormed => ~Owed
  BY DEF OnError
<1>3. conn' \in CType /\ conn'.responses = conn.responses /\ conn'.sent = conn.sent /\ conn'.req = conn.req
  BY <1>1, <1>2 DEF CType
<1>4. Entry(0, "last") \in Entries /\ Entry(0, "last").of = 0
  BY <1>1 DEF Entry, Entries
<1>5. wire' \in Seq(Entries)
  BY <1>1, <1>2, <1>4
<1>6. sock' \in SType /\ sock'.state # "open"
  BY <1>1, <1>2, DestroyedSocket
<1>7. TypeOK'
  BY <1>1, <1>2, <1>3, <1>5, <1>6, TypesAgain
<1>8. \A r \in Requests : Same(r)
  BY <1>2 DEF Same
<1>9. conn.req <= conn.sent
  BY DEF IInv, InLine
<1>10. IInv'
  BY <1>2, <1>3, <1>7, <1>8, <1>9, Unmoved
<1>11. ASSUME WellFormed, Wired, ResponsesInOrder PROVE Wired' /\ ResponsesInOrder'
  <2>1. CASE sock.state # "open"
    BY <1>2, <1>3, <1>6, <1>7, <1>8, <1>11, <2>1, WiredUnmoved
  <2>2. CASE sock.state = "open"
    <3> DEFINE e == <<Entry(0, "last")>>
    <3>1. wire' = wire \o e /\ e \in Seq(Entries) /\ Len(e) = 1 /\ \A k \in 1..Len(e) : e[k].of = 0
      BY <1>1, <1>2, <1>4, <2>2
    <3> HIDE DEF e
    <3>2. \A m : m # 0 => Handed(m)' = Handed(m)
      BY <1>1, <3>1, HandedJoin
    <3>3. \A m : m # 0 => (Whole(m)' <=> Whole(m))
      BY <3>2, <1>2 DEF Whole
    <3>4. conn.responses = <<>>
      BY <1>2, <1>11 DEF Owed
    <3>5. \A i \in 1..Len(wire) : wire[i].of # 0 /\ Whole(wire[i].of)
      <4> SUFFICES ASSUME NEW i \in 1..Len(wire) PROVE wire[i].of # 0 /\ Whole(wire[i].of)
        OBVIOUS
      <4>1. wire[i].of \in 1..conn.sent
        BY <2>2, <1>11 DEF Wired
      <4>2. conn.sent \in 0..MaxRequests
        BY <1>1 DEF CType
      <4>3. wire[i].of \in Requests /\ wire[i].of <= conn.sent /\ wire[i].of # 0
        BY <1>1, <4>1, <4>2 DEF Requests
      <4>4. ~Waits(wire[i].of)
        BY <3>4, Line
      <4>5. res[wire[i].of].over
        BY <4>3, <4>4 DEF IInv, Standing, Stands
      <4>6. Handed(wire[i].of) = res[wire[i].of].parts
        BY <4>1, <4>4, <2>2, <1>11 DEF Wired
      <4> QED BY <4>3, <4>5, <4>6 DEF Whole
    <3>6. \A m, i : i \in 1..Len(wire) /\ m = wire[i].of => m # 0 /\ Whole(m)'
      BY <3>3, <3>5
    <3>7. ResponsesInOrder'
      BY <1>1, <1>11, <3>1, <3>6, InOrderJoin
    <3> QED BY <3>7, <1>6 DEF Wired
  <2> QED BY <2>1, <2>2
<1> QED BY <1>10, <1>11 DEF KeepsOrder, Orderly

\* A request comes: its response is last in line.
LEMMA OnHeadStep ==
  ASSUME IInv, OnHead
  PROVE  IInv' /\ KeepsOrder
<1> DEFINE r == conn.sent + 1
<1>1. /\ conn \in CType /\ res \in [Requests -> RType] /\ sock \in SType /\ due \subseteq DType
      /\ wire \in Seq(Entries) /\ flight \in Seq(Entries) /\ MaxRequests \in Nat /\ MaxParts \in Nat
      /\ Requests \subseteq Nat
  BY Types DEF IInv
<1>2. /\ conn' = [conn EXCEPT !.sent = r, !.req = r, !.responses = Append(conn.responses, r),
                              !.timeout = FALSE, !.timer = FALSE]
      /\ conn.sent < MaxRequests /\ UNCHANGED <<sock, wire, flight, due>>
  BY <1>1 DEF OnHead, CType
<1>3. PICK keep \in BOOLEAN : res' = [res EXCEPT ![r].keep = keep]
  <2>1. PICK keep \in BOOLEAN : res' = [res EXCEPT ![r].keep = keep /\ ~conn.closing]
    BY DEF OnHead
  <2>2. (keep /\ ~conn.closing) \in BOOLEAN
    OBVIOUS
  <2> QED BY <2>1, <2>2
<1>4. conn.sent \in Nat /\ r \in Requests /\ r \in Nat /\ r \in 0..MaxRequests
  BY <1>1, <1>2 DEF CType, Requests
<1>5. conn.responses \in Seq(Requests) /\ Append(conn.responses, r) \in Seq(Requests)
  <2>1. conn.responses \in Seq(Requests)
    BY <1>1 DEF CType
  <2> QED BY <2>1, <1>4
<1>6. /\ conn'.responses = Append(conn.responses, r) /\ conn'.sent = r /\ conn'.req = r
      /\ conn' \in CType
  BY <1>1, <1>2, <1>4, <1>5 DEF CType
<1>7. res' \in [Requests -> RType] /\ \A q \in Requests : Same(q)
  <2>1. res[r] \in RType /\ [res[r] EXCEPT !.keep = keep] \in RType
    BY <1>1, <1>4 DEF RType
  <2>2. \A q \in Requests : res'[q] = IF q = r THEN [res[r] EXCEPT !.keep = keep] ELSE res[q]
    BY <1>1, <1>3
  <2>3. res' \in [Requests -> RType]
    BY <1>1, <1>3, <1>4, <2>1
  <2> QED BY <2>1, <2>2, <2>3 DEF Same, RType
<1>8. TypeOK'
  BY <1>1, <1>2, <1>6, <1>7, TypesAgain
<1> HIDE DEF r
<1>9. /\ conn.responses \in Seq(Nat) /\ Rising(conn.responses) /\ conn.sent < r
      /\ \A i \in 1..Len(conn.responses) : conn.responses[i] <= conn.sent /\ conn.responses[i] \in Nat
  BY SMTT(60), Line, <1>4, <1>5 DEF IInv, InLine, r
<1>10. \A i \in 1..Len(conn.responses) : conn.responses[i] < r
  BY <1>4, <1>9
<1>11. /\ Rising(conn'.responses) /\ ToSet(conn'.responses) = ToSet(conn.responses) \union {r}
       /\ conn'.responses # <<>> /\ First' = IF conn.responses = <<>> THEN r ELSE First
  BY <1>4, <1>6, <1>9, <1>10, RisingAppend DEF First
<1>12. \A q : Waits(q)' <=> Waits(q) \/ q = r
  BY <1>11 DEF Waits
<1>13. InLine'
  <2>1. \A i \in 1..Len(conn'.responses) : conn'.responses[i] <= conn'.sent
    <3> SUFFICES ASSUME NEW i \in 1..Len(conn'.responses) PROVE conn'.responses[i] <= r
      BY <1>6
    <3>1. conn'.responses[i] = r \/ (i \in 1..Len(conn.responses) /\ conn'.responses[i] = conn.responses[i])
      BY <1>6, <1>9
    <3> QED BY <3>1, <1>9, <1>10, <1>4
  <2> QED BY <2>1, <1>6, <1>11, <1>4 DEF InLine
<1>14. Stands(r) /\ \A q \in Requests : Stands(q)
  BY <1>4 DEF IInv, Standing
<1>15. ~Waits(r) /\ res[r].parts = 0 /\ ~res[r].over /\ res[r].queued = <<>> /\ ~res[r].turn
  <2>1. r > conn.sent
    BY <1>4, <1>9
  <2>2. \A x : Waits(x) => x <= conn.sent /\ x \in Requests
    BY Line
  <2> QED BY <2>1, <2>2, <1>14, <1>4 DEF Stands
<1>16. Standing'
  <2> SUFFICES ASSUME NEW q \in Requests PROVE Stands(q)'
    BY DEF Standing
  <2>0. Same(q) /\ Stands(q) /\ q \in Nat
    BY <1>1, <1>7, <1>14
  <2>1. CASE q = r
    <3>1. HeldBack(res'[q])
      <4>1. res'[q].parts = 0 /\ res'[q].over = res[q].over /\ res'[q].queued = <<>>
        BY <1>15, <2>0, <2>1 DEF Same
      <4>2. Len(<<>>) = 0
        OBVIOUS
      <4> QED BY <4>1, <4>2, <1>15, <2>1 DEF HeldBack, WithBytes
    <3>2. res'[q].parts = 0 /\ ~res'[q].over /\ res'[q].queued = <<>> /\ ~res'[q].turn
      BY <1>15, <2>0, <2>1 DEF Same
    <3>3. ~(q > conn'.sent) /\ Waits(q)' /\ 0 # MaxParts + 1
      BY <1>1, <1>4, <1>6, <1>12, <2>1
    <3> QED BY <3>1, <3>2, <3>3 DEF Stands
  <2>2. CASE q # r
    <3>1. Waits(q)' <=> Waits(q)
      BY <1>12, <2>2
    <3>2. Waits(q) => First' = First
      BY <1>11, Line
    <3>3. q > r => q > conn.sent
      BY <2>0, <1>4, <1>9
    <3>4. q <= r => q <= conn.sent
      BY <2>0, <2>2, <1>4 DEF r
    <3> QED BY <1>6, <2>0, <3>1, <3>2, <3>3, <3>4 DEF Stands, Same, HeldBack
  <2> QED BY <2>1, <2>2
<1>17. conn.responses # <<>> => First \in Requests /\ First \in Nat /\ Same(First) /\ First' = First
  BY Line, <1>7, <1>11
<1>18. LastWrite'
  BY <1>2, <1>11, <1>17 DEF IInv, LastWrite, Same
<1>19. LastTask'
  BY <1>2, <1>11, <1>17 DEF IInv, LastTask, Same
<1>20. IInv'
  BY <1>8, <1>13, <1>16, <1>18, <1>19 DEF IInv
<1>21. ASSUME Wired, ResponsesInOrder PROVE Wired' /\ ResponsesInOrder'
  <2>1. \A q : Handed(q)' = Handed(q)
    BY <1>2 DEF Handed
  <2>2. \A i \in 1..Len(wire) : wire[i].of = 0 \/ wire[i].of \in Requests
    <3>1. \A i \in 1..Len(wire) : wire[i] \in Entries
      BY <1>1
    <3>2. \A x \in Entries : x.of = 0 \/ x.of \in Requests
      BY <1>1 DEF Entries, Requests
    <3> QED BY <3>1, <3>2
  <2>3. \A m \in Requests : Whole(m)' <=> Whole(m)
    BY <2>1, <1>7 DEF Whole, Same
  <2>4. ResponsesInOrder'
    <3>1. SUFFICES ASSUME NEW i \in 1..Len(wire), NEW j \in 1..Len(wire), NEW m, m = wire[i].of,
                          i < j, wire[i].of # wire[j].of
                   PROVE  m # 0 /\ Whole(m)' /\ (m < wire[j].of \/ wire[j].of = 0)
      BY <1>2 DEF ResponsesInOrder
    <3>2. m # 0 /\ Whole(m) /\ (m < wire[j].of \/ wire[j].of = 0)
      BY <3>1, <1>21 DEF ResponsesInOrder
    <3>3. m \in Requests
      BY <2>2, <3>1, <3>2
    <3> QED BY <2>3, <3>2, <3>3
  <2>5. ASSUME sock.state = "open", NEW k \in 1..Len(wire)
        PROVE  wire[k].of \in 1..r /\ wire[k].of <= First' /\ wire[k].of # r
    <3>1. wire[k].of \in 1..conn.sent /\ (conn.responses # <<>> => wire[k].of <= First)
      BY <2>5, <1>21 DEF Wired
    <3> QED BY <3>1, <1>4, <1>9, <1>11
  <2>6. ASSUME sock.state = "open", NEW q \in 1..r, ~Waits(q)' \/ q = First' PROVE Handed(q)' = res'[q].parts
    <3>1. CASE q = r
      <4>1. CountOf(wire, r) = 0
        BY <2>5, <2>6, <1>1, CountOfNone
      <4>2. Handed(r) = 0
        BY <4>1 DEF Handed, CountOf, OfResponse
      <4> QED BY <3>1, <4>2, <2>1, <1>15, <1>7, <1>4 DEF Same
    <3>2. CASE q # r
      <4>1. q \in 1..conn.sent
        BY <3>2, <1>4 DEF r
      <4>2. q \in Requests
        BY <4>1, <1>1, <1>4 DEF CType, Requests
      <4>3. ~Waits(q) \/ (conn.responses # <<>> /\ q = First)
        BY <2>6, <3>2, <1>12, <1>11
      <4> QED BY <4>1, <4>2, <4>3, <2>1, <2>6, <1>21, <1>7 DEF Wired, Same
    <3> QED BY <3>1, <3>2
  <2>7. Wired'
    BY <2>5, <2>6, <1>2, <1>6 DEF Wired
  <2> QED BY <2>4, <2>7
<1> QED BY <1>20, <1>21 DEF KeepsOrder, Orderly

------------------------------------------------------------------------------
(* Writes on the wire, and upgrades.                                       *)

\* What is on the wire, while the socket is open, is of responses that had their turn.
LEMMA OnTheWire ==
  ASSUME IInv
  PROVE  /\ \A m, i : i \in 1..Len(wire) /\ m = wire[i].of => m = 0 \/ m \in Requests
         /\ Wired /\ sock.state = "open" =>
              \A m, i : i \in 1..Len(wire) /\ m = wire[i].of =>
                          m \in 1..conn.sent /\ m \in Requests /\ (conn.responses # <<>> => m <= First)
<1>1. wire \in Seq(Entries) /\ MaxRequests \in Nat /\ conn.sent \in 0..MaxRequests
  BY Types DEF IInv, CType
<1>2. \A i \in 1..Len(wire) : wire[i] \in Entries
  BY <1>1
<1>3. \A x \in Entries : x.of = 0 \/ x.of \in Requests
  BY <1>1 DEF Entries, Requests
<1>4. \A m \in 1..conn.sent : m \in Requests
  BY <1>1 DEF Requests
<1> QED BY <1>2, <1>3, <1>4 DEF Wired

\* A response that has its turn writes, and perhaps the one before it is done.
LEMMA WiredHand ==
  ASSUME IInv, Wired, ResponsesInOrder, conn'.sent = conn.sent,
         NEW n \in Requests, n <= conn.sent, conn.responses # <<>>, First <= n, First' = n,
         NEW e \in Seq(Entries), \A k \in 1..Len(e) : e[k].of = n,
         wire' = IF sock.state = "open" THEN wire \o e ELSE wire,
         sock'.state = "open" => sock.state = "open",
         \A q \in Requests : q # n => res'[q].parts = res[q].parts /\ res'[q].over = res[q].over,
         sock.state = "open" => res'[n].parts = Handed(n) + Len(e),
         Whole(n) => \/ res'[n].parts = res[n].parts /\ res'[n].over /\ sock.state # "open"
                     \/ \A k \in 1..Len(wire) : wire[k].of # n,
         \A q \in 1..conn.sent : q < n => res'[q].over,
         \A q \in 1..conn.sent : q # n /\ ~Waits(q)' => ~Waits(q) \/ q = First
  PROVE  Wired' /\ ResponsesInOrder'
<1>1. /\ wire \in Seq(Entries) /\ MaxRequests \in Nat /\ conn.sent \in Nat /\ Requests \subseteq Nat /\ n \in Nat
      /\ First \in Nat
  BY Types, Line DEF IInv, CType
<1>2. CASE sock.state # "open"
  <2>1. Wired'
    BY <1>2 DEF Wired
  <2>2. \A m : Handed(m)' = Handed(m)
    BY <1>2 DEF Handed
  <2>3. \A m, i : i \in 1..Len(wire) /\ m = wire[i].of /\ m # 0 /\ Whole(m) => Whole(m)'
    BY <2>2, <1>2, OnTheWire DEF Whole
  <2>5. ResponsesInOrder'
    BY <1>2, <2>3, InOrderStill
  <2> QED BY <2>1, <2>5
<1>3. CASE sock.state = "open"
  <2>1. /\ Len(wire) \in Nat /\ Len(e) \in Nat /\ wire' = wire \o e /\ Len(wire') = Len(wire) + Len(e)
        /\ \A i \in 1..Len(wire') : \/ i \in 1..Len(wire) /\ wire'[i] = wire[i]
                                    \/ wire'[i].of = n
    BY <1>1, <1>3
  <2>2. Handed(n)' = Handed(n) + Len(e) /\ \A m : m # n => Handed(m)' = Handed(m)
    BY <1>1, <2>1, HandedJoin
  <2>3. \A m, i : i \in 1..Len(wire) /\ m = wire[i].of =>
                    m \in 1..conn.sent /\ m \in Requests /\ m <= First /\ m <= n
    <3>1. \A m, i : i \in 1..Len(wire) /\ m = wire[i].of =>
                      m \in 1..conn.sent /\ m \in Requests /\ m <= First
      BY <1>3, OnTheWire
    <3>2. \A m \in 1..conn.sent : m <= First => m <= n
      BY <1>1
    <3> QED BY <3>1, <3>2
  <2>4. \A m, i : i \in 1..Len(wire) /\ m = wire[i].of /\ m # 0 /\ Whole(m) => Whole(m)'
    BY <2>2, <2>3, <1>3 DEF Whole
  <2>5. ASSUME NEW m, NEW i \in 1..Len(wire), m = wire[i].of, m # n
        PROVE  m # 0 /\ Whole(m)' /\ m < n
    <3>1. m \in 1..conn.sent /\ m \in Requests /\ m <= First /\ m <= n /\ m \in Nat
      BY <2>3, <2>5, <1>1
    <3>2. m < n /\ m # 0
      BY <3>1, <2>5, <1>1
    <3>3. res'[m].over /\ res'[m].parts = res[m].parts
      BY <3>1, <3>2, <2>5
    <3>4. ~Waits(m) \/ m = First
      BY <3>1, Line
    <3>5. Handed(m) = res[m].parts
      BY <3>1, <3>4, <1>3 DEF Wired
    <3> QED BY <3>2, <3>3, <3>5, <2>2, <2>5 DEF Whole
  <2>10. e # <<>> => \A m, i : i \in 1..Len(wire) /\ m = wire[i].of /\ m # n =>
                                 m # 0 /\ Whole(m)' /\ (m < n \/ n = 0)
    BY <2>5
  <2>11. wire \in Seq(Entries) /\ n \in Nat /\ wire' = wire \o e
    BY <1>1, <2>1
  <2>6. ResponsesInOrder'
    BY <2>4, <2>10, <2>11, InOrderJoin
  <2>7. \A k \in 1..Len(wire') : wire'[k].of \in 1..conn.sent /\ wire'[k].of <= n
    <3>1. n \in 1..conn.sent
      BY <1>1 DEF Requests
    <3> SUFFICES ASSUME NEW k \in 1..Len(wire') PROVE wire'[k].of \in 1..conn.sent /\ wire'[k].of <= n
      OBVIOUS
    <3>2. CASE wire'[k].of = n
      BY <3>1, <3>2, <1>1
    <3>3. CASE k \in 1..Len(wire) /\ wire'[k] = wire[k]
      BY <3>3, <2>3
    <3> QED BY <3>2, <3>3, <2>1
  <2>8. ASSUME NEW q \in 1..conn.sent, ~Waits(q)' \/ q = n PROVE Handed(q)' = res'[q].parts
    <3>1. CASE q = n
      BY <3>1, <2>2, <1>3
    <3>2. CASE q # n
      <4>1. ~Waits(q) \/ q = First
        BY <2>8, <3>2
      <4>2. q \in Requests
        BY Types DEF IInv, CType, Requests
      <4> QED BY <4>1, <4>2, <3>2, <2>2, <1>3 DEF Wired
    <3> QED BY <3>1, <3>2
  <2>9. Wired'
    BY <2>7, <2>8 DEF Wired
  <2> QED BY <2>6, <2>9
<1> QED BY <1>2, <1>3

\* An upgrade comes when nothing is owed.
LEMMA OnUpgradeStep ==
  ASSUME IInv, OnUpgrade
  PROVE  IInv' /\ KeepsOrder
<1> DEFINE r == conn.sent + 1
<1>1. /\ conn \in CType /\ res \in [Requests -> RType] /\ sock \in SType /\ due \subseteq DType
      /\ wire \in Seq(Entries) /\ flight \in Seq(Entries) /\ MaxRequests \in Nat /\ MaxParts \in Nat
      /\ Requests \subseteq Nat
  BY Types DEF IInv
<1>2. PICK taken \in BOOLEAN :
        /\ conn' = [conn EXCEPT !.sent = r, !.req = r, !.attached = FALSE, !.handed = taken,
                                !.timeout = FALSE, !.timer = FALSE]
        /\ sock' = IF taken THEN sock ELSE Destroyed(sock)
  BY DEF OnUpgrade
<1>3. /\ res' = [res EXCEPT ![r].over = TRUE, ![r].closes = @ + 1]
      /\ conn.sent < MaxRequests /\ UNCHANGED <<wire, flight, due>>
  BY <1>1 DEF OnUpgrade, CType
<1>4. conn.sent \in Nat /\ r \in Requests /\ r \in Nat /\ r \in 0..MaxRequests
  BY <1>1, <1>3 DEF CType, Requests
<1>5. conn'.responses = conn.responses /\ conn'.sent = r /\ conn'.req = r /\ conn' \in CType
  BY <1>1, <1>2, <1>4 DEF CType
<1>6. sock' \in SType /\ (sock'.state = "open" => sock.state = "open")
  BY <1>1, <1>2, DestroyedSocket
<1>7. res' \in [Requests -> RType] /\ (\A q \in Requests : q # r => res'[q] = res[q])
      /\ res'[r].over /\ res'[r].parts = res[r].parts /\ res'[r].queued = res[r].queued /\ res'[r].turn = res[r].turn
  <2>1. res[r] \in RType /\ res[r].closes + 1 \in Nat
    BY <1>1, <1>4 DEF RType
  <2>2. res'[r] = [res[r] EXCEPT !.over = TRUE, !.closes = @ + 1] /\ \A q \in Requests : q # r => res'[q] = res[q]
    BY <1>1, <1>3, <1>4
  <2>3. res'[r] \in RType
    BY <2>1, <2>2 DEF RType
  <2>4. res' \in [Requests -> RType]
    BY <1>1, <1>3, <1>4, <2>2, <2>3
  <2> QED BY <2>1, <2>2, <2>4 DEF RType
<1>8. TypeOK'
  BY <1>1, <1>3, <1>5, <1>6, <1>7, TypesAgain
<1> HIDE DEF r
<1>9. conn.sent < r /\ First' = First /\ \A q : Waits(q)' <=> Waits(q)
  BY <1>4, <1>5 DEF r, First, Waits
<1>10. \A i \in 1..Len(conn.responses) : conn.responses[i] <= r
  <2>1. \A i \in 1..Len(conn.responses) : conn.responses[i] <= conn.sent /\ conn.responses[i] \in Nat
    BY Line DEF IInv, InLine
  <2> QED BY <2>1, <1>9, <1>4
<1>11. InLine'
  BY <1>5, <1>10, <1>4 DEF IInv, InLine
<1>12. Stands(r) /\ \A q \in Requests : Stands(q)
  BY <1>4 DEF IInv, Standing
<1>13. ~Waits(r) /\ res[r].parts = 0 /\ ~res[r].over /\ res[r].queued = <<>> /\ ~res[r].turn
  <2>1. r > conn.sent
    BY <1>4, <1>9
  <2>2. \A x : Waits(x) => x <= conn.sent /\ x \in Requests
    BY Line
  <2> QED BY <2>1, <2>2, <1>12, <1>4 DEF Stands
<1>14. Standing'
  <2> SUFFICES ASSUME NEW q \in Requests PROVE Stands(q)'
    BY DEF Standing
  <2>0. Stands(q) /\ q \in Nat
    BY <1>1, <1>12
  <2>1. CASE q = r
    <3>1. ~(q > conn'.sent) /\ ~Waits(q)' /\ res'[q].over /\ res'[q].queued = <<>>
      BY <1>4, <1>5, <1>7, <1>9, <1>13, <2>1
    <3> QED BY <3>1 DEF Stands
  <2>2. CASE q # r
    <3>1. q > r => q > conn.sent
      BY <2>0, <1>4, <1>9
    <3>2. q <= r => q <= conn.sent
      BY <2>0, <2>2, <1>4 DEF r
    <3> QED BY <1>5, <1>7, <1>9, <2>0, <2>2, <3>1, <3>2 DEF Stands, HeldBack
  <2> QED BY <2>1, <2>2
<1>15. conn.responses # <<>> => First \in Requests /\ First \in Nat /\ First # r
  BY Line, <1>9, <1>4, <1>13
<1>16. LastWrite'
  BY <1>3, <1>5, <1>7, <1>9, <1>15 DEF IInv, LastWrite
<1>17. LastTask'
  BY <1>3, <1>5, <1>7, <1>9, <1>15 DEF IInv, LastTask
<1>18. IInv'
  BY <1>8, <1>11, <1>14, <1>16, <1>17 DEF IInv
<1>19. ASSUME Wired, ResponsesInOrder PROVE Wired' /\ ResponsesInOrder'
  <2>1. \A q : Handed(q)' = Handed(q)
    BY <1>3 DEF Handed
  <2>2. \A m, i : i \in 1..Len(wire) /\ m = wire[i].of /\ m # 0 /\ Whole(m) => Whole(m)'
    BY <2>1, <1>7, OnTheWire DEF Whole
  <2>4. ResponsesInOrder'
    BY <1>3, <1>19, <2>2, InOrderStill
  <2>5. ASSUME sock.state = "open", NEW k \in 1..Len(wire)
        PROVE  wire[k].of \in 1..r /\ (conn.responses # <<>> => wire[k].of <= First) /\ wire[k].of # r
    <3>1. wire[k].of \in 1..conn.sent /\ (conn.responses # <<>> => wire[k].of <= First)
      BY <2>5, <1>19 DEF Wired
    <3> QED BY <3>1, <1>4, <1>9
  <2>6. ASSUME sock.state = "open", NEW q \in 1..r, ~Waits(q) \/ q = First PROVE Handed(q)' = res'[q].parts
    <3>1. CASE q = r
      <4>1. CountOf(wire, r) = 0
        BY <2>5, <2>6, <1>1, CountOfNone
      <4>2. Handed(r) = 0
        BY <4>1 DEF Handed, CountOf, OfResponse
      <4> QED BY <3>1, <4>2, <2>1, <1>13, <1>7
    <3>2. CASE q # r
      <4>1. q \in 1..conn.sent
        BY <3>2, <1>4 DEF r
      <4>2. q \in Requests
        BY <4>1, <1>1, <1>4 DEF CType, Requests
      <4> QED BY <4>1, <4>2, <2>1, <2>6, <3>2, <1>19, <1>7 DEF Wired
    <3> QED BY <3>1, <3>2
  <2>7. Wired'
    BY <2>5, <2>6, <1>3, <1>5, <1>6, <1>9 DEF Wired
  <2> QED BY <2>4, <2>7
<1> QED BY <1>18, <1>19 DEF KeepsOrder, Orderly

\* A write that is not the last one of its response is taken.
LEMMA WrittenStep ==
  ASSUME IInv, Written, ~Head(flight).last
  PROVE  IInv' /\ KeepsOrder
<1>1. /\ conn \in CType /\ res \in [Requests -> RType] /\ sock \in SType /\ due \subseteq DType
      /\ wire \in Seq(Entries) /\ flight \in Seq(Entries)
  BY Types DEF IInv
<1>2. flight # <<>> /\ flight' = Tail(flight) /\ UNCHANGED <<conn, res, sock, wire, due>>
  BY DEF Written
<1>3. /\ flight' \in Seq(Entries) /\ Len(flight) \in Nat /\ Len(flight') = Len(flight) - 1
      /\ \A k \in 1..Len(flight') : k + 1 \in 1..Len(flight) /\ flight'[k] = flight[k + 1] /\ k \in Nat
      /\ 1 \in 1..Len(flight)
  BY <1>1, <1>2
<1>4. TypeOK'
  BY <1>1, <1>2, <1>3, TypesAgain
<1>5. First' = First /\ \A r : Waits(r)' <=> Waits(r)
  BY <1>2 DEF First, Waits
<1>6. InLine' /\ Standing'
  BY <1>2, <1>5 DEF IInv, InLine, Standing, Stands
<1>7. LastWrite'
  <2> SUFFICES ASSUME NEW k \in 1..Len(flight')
               PROVE  /\ flight'[k].last => /\ conn.responses # <<>> /\ flight'[k].of = First /\ k = Len(flight')
                                            /\ res[First].over /\ Task("done", First) \notin due
                      /\ Drained => conn.responses # <<>> /\ flight'[k].of = First
    BY <1>2, <1>5 DEF LastWrite
  <2>1. k + 1 \in 1..Len(flight) /\ flight'[k] = flight[k + 1] /\ (k + 1 = Len(flight) => k = Len(flight'))
    BY <1>3
  <2>2. LastWrite
    BY DEF IInv
  <2> QED BY <2>1, <2>2 DEF LastWrite
<1>8. LastTask'
  <2>1. LastTask
    BY DEF IInv
  <2> QED BY <2>1, <1>2, <1>5 DEF LastTask
<1>9. IInv'
  BY <1>4, <1>6, <1>7, <1>8 DEF IInv
<1>10. conn.req <= conn.sent /\ \A r \in Requests : Same(r)
  BY <1>2 DEF IInv, InLine, Same
<1> QED BY <1>2, <1>4, <1>9, <1>10, WiredUnmoved DEF KeepsOrder, Orderly

------------------------------------------------------------------------------
(* write() and end().                                                      *)

\* What a response becomes by a write or its end.
Sent(r, part) ==
  [res[r] EXCEPT !.stored = TRUE, !.after = IF res[r].stored THEN @ ELSE ~res[r].keep \/ conn.closing,
                 !.parts = IF part = "none" THEN @ ELSE @ + 1, !.over = part # "more"]

\* A response that is written to is in line, and has its turn only as the first one.
LEMMA LiveResponse ==
  ASSUME IInv, NEW r \in Requests, Live(r)
  PROVE  /\ Waits(r) /\ conn.responses # <<>> /\ ~res[r].over /\ r <= conn.sent /\ r \in Nat
         /\ MyTurn(r) <=> r = First
         /\ res[r].parts <= MaxParts /\ res[r].parts \in Nat
         /\ r = First => res[r].queued = <<>>
         /\ r # First => ~res[r].turn /\ HeldBack(res[r])
<1>1. r <= conn.sent /\ ~res[r].over
  BY DEF Live
<1>2. Stands(r)
  BY DEF IInv, Standing
<1>3. Waits(r)
  BY <1>1, <1>2 DEF Stands
<1>4. conn.responses # <<>> /\ r \in Nat
  BY <1>3, Line, Types DEF IInv
<1>5. /\ r = First => res[r].queued = <<>>
      /\ r # First => ~res[r].turn /\ HeldBack(res[r])
  BY <1>2, <1>3 DEF Stands
<1>6. MyTurn(r) <=> r = First
  BY <1>4, <1>5 DEF MyTurn, First
<1>7. res[r].parts \in 0..(MaxParts + 1) /\ MaxParts \in Nat /\ res[r].parts # MaxParts + 1
  BY <1>1, <1>2, Types DEF IInv, RType, Stands
<1>8. res[r].parts <= MaxParts /\ res[r].parts \in Nat
  BY <1>7
<1> QED BY <1>1, <1>3, <1>4, <1>5, <1>6, <1>8

\* It is a response again.
LEMMA SentType ==
  ASSUME IInv, NEW r \in Requests, NEW part \in Parts, Live(r), part = "more" => res[r].parts < MaxParts
  PROVE  /\ Sent(r, part) \in RType /\ Sent(r, part).over = (part # "more")
         /\ Sent(r, part).queued = res[r].queued /\ Sent(r, part).turn = res[r].turn
         /\ part = "none" => Sent(r, part).parts = res[r].parts
         /\ part # "none" => Sent(r, part).parts = res[r].parts + 1
         /\ Sent(r, part).parts = MaxParts + 1 => part # "more"
<1>1. res[r] \in RType /\ MaxParts \in Nat /\ res[r].parts \in Nat /\ res[r].parts <= MaxParts /\ conn \in CType
  BY Types, LiveResponse DEF IInv
<1>2. PICK after \in BOOLEAN : after = IF res[r].stored THEN res[r].after ELSE ~res[r].keep \/ conn.closing
  BY <1>1 DEF RType, CType
<1>3. PICK p \in 0..(MaxParts + 1) : p = IF part = "none" THEN res[r].parts ELSE res[r].parts + 1
  BY <1>1
<1>4. Sent(r, part) = [res[r] EXCEPT !.stored = TRUE, !.after = after, !.parts = p, !.over = (part # "more")]
  BY <1>1, <1>2, <1>3 DEF Sent, RType
<1>5. /\ Sent(r, part) \in RType /\ Sent(r, part).over = (part # "more") /\ Sent(r, part).parts = p
      /\ Sent(r, part).queued = res[r].queued /\ Sent(r, part).turn = res[r].turn
  BY <1>1, <1>2, <1>3, <1>4 DEF RType
<1>6. p = MaxParts + 1 => part # "more"
  BY <1>1, <1>3
<1> QED BY <1>3, <1>5, <1>6

\* A part that waits for the turn of its response.
LEMMA QueueStep ==
  ASSUME IInv, NEW r \in Requests, NEW part \in Parts, Live(r), part = "more" => res[r].parts < MaxParts,
         Drained => part # "none", r # First,
         res' = [res EXCEPT ![r] = [Sent(r, part) EXCEPT !.queued = Append(@, part)]],
         UNCHANGED <<conn, sock, wire, flight, due>>
  PROVE  IInv' /\ KeepsOrder
<1> DEFINE x == Sent(r, part)
           q == res[r].queued
<1>1. /\ conn \in CType /\ res \in [Requests -> RType] /\ sock \in SType /\ due \subseteq DType
      /\ wire \in Seq(Entries) /\ flight \in Seq(Entries) /\ q \in Seq(Parts)
  BY Types DEF IInv, RType
<1>2. /\ x \in RType /\ x.over = (part # "more") /\ x.queued = q /\ x.turn = res[r].turn
      /\ part = "none" => x.parts = res[r].parts
      /\ part # "none" => x.parts = res[r].parts + 1
      /\ x.parts = MaxParts + 1 => part # "more"
  BY SentType
<1>3. /\ Waits(r) /\ conn.responses # <<>> /\ ~res[r].over /\ r <= conn.sent /\ r \in Nat
      /\ res[r].parts \in Nat /\ ~res[r].turn /\ HeldBack(res[r])
  BY LiveResponse
<1> HIDE DEF x
<1>4. Append(q, part) \in Seq(Parts) /\ Len(Append(q, part)) = Len(q) + 1 /\ Len(q) \in Nat
      /\ Append(q, part)[Len(q) + 1] = part /\ \A k \in 1..Len(q) : Append(q, part)[k] = q[k]
      /\ Append(q, part) # <<>>
  BY <1>1
<1>5. /\ res' \in [Requests -> RType] /\ (\A s \in Requests : s # r => res'[s] = res[s])
      /\ res'[r].parts = x.parts /\ res'[r].over = x.over /\ res'[r].queued = Append(q, part)
      /\ res'[r].turn = x.turn
  <2>1. res'[r] = [x EXCEPT !.queued = Append(q, part)] /\ \A s \in Requests : s # r => res'[s] = res[s]
    BY <1>1, <1>2 DEF x
  <2>2. [x EXCEPT !.queued = Append(q, part)] \in RType
    BY <1>2, <1>4 DEF RType
  <2>3. res' \in [Requests -> RType]
    BY <1>1, <1>2, <2>2 DEF x
  <2> QED BY <2>1, <2>3, <1>2 DEF RType
<1>6. TypeOK'
  BY <1>1, <1>5, TypesAgain
<1>7. First' = First /\ \A s : Waits(s)' <=> Waits(s)
  BY DEF First, Waits
<1>8. \A k \in 1..Len(q) : q[k] = "more"
  BY <1>3 DEF HeldBack
<1>9. WithBytes(q) = Len(q)
  <2>1. q # <<>> => Len(q) \in 1..Len(q)
    BY <1>1
  <2> QED BY <2>1, <1>8 DEF WithBytes
<1>10. HeldBack(res'[r])
  <2>1. WithBytes(Append(q, part)) = x.parts
    <3>1. WithBytes(Append(q, part)) = IF part = "none" THEN Len(q) ELSE Len(q) + 1
      BY <1>4 DEF WithBytes
    <3>2. Len(q) = res[r].parts
      BY <1>3, <1>9 DEF HeldBack
    <3> QED BY <3>1, <3>2, <1>2
  <2>2. \A k \in 1..Len(Append(q, part)) :
          (k = Len(q) + 1 /\ Append(q, part)[k] = part) \/ Append(q, part)[k] = "more"
    BY <1>4, <1>8
  <2>3. \A k \in 1..Len(Append(q, part)) :
          Append(q, part)[k] # "more" => k = Len(Append(q, part)) /\ x.over
    <3> SUFFICES ASSUME NEW k \in 1..Len(Append(q, part)), Append(q, part)[k] # "more"
                 PROVE  k = Len(Append(q, part)) /\ x.over
      OBVIOUS
    <3>1. k = Len(q) + 1 /\ Append(q, part)[k] = part
      BY <2>2
    <3> QED BY <3>1, <1>2, <1>4
  <2>4. x.over => Append(q, part) # <<>> /\ Append(q, part)[Len(Append(q, part))] # "more"
    <3>1. Append(q, part)[Len(Append(q, part))] = part
      BY <1>4
    <3>2. x.over => part # "more"
      BY <1>2
    <3>3. Append(q, part) # <<>>
      BY <1>4
    <3> QED BY <3>1, <3>2, <3>3
  <2>5. Drained => \A k \in 1..Len(Append(q, part)) : Append(q, part)[k] # "none"
    BY <2>2
  <2> DEFINE y == res'[r]
  <2>6. y.queued = Append(q, part) /\ y.parts = x.parts /\ y.over = x.over
    BY <1>5
  <2> HIDE DEF y, x
  <2>7. HeldBack(y)
    BY <2>1, <2>3, <2>4, <2>5, <2>6 DEF HeldBack
  <2> QED BY <2>7 DEF y
<1>11. Standing'
  <2> SUFFICES ASSUME NEW s \in Requests PROVE Stands(s)'
    BY DEF Standing
  <2>1. Stands(s)
    BY DEF IInv, Standing
  <2>2. CASE s = r
    <3>1. ~(s > conn'.sent) /\ Waits(s)' /\ s # First' /\ ~res'[s].turn
      BY <1>1, <1>2, <1>3, <1>5, <1>7, <2>2 DEF CType
    <3>2. res'[s].parts = MaxParts + 1 => res'[s].over
      BY <1>2, <1>5, <2>2
    <3> QED BY <1>10, <2>2, <3>1, <3>2 DEF Stands
  <2>3. CASE s # r
    BY <1>5, <1>7, <2>1, <2>3 DEF Stands, HeldBack
  <2> QED BY <2>2, <2>3
<1>12. First \in Requests /\ First \in Nat
  BY <1>3, Line
<1>13. InLine' /\ LastWrite' /\ LastTask'
  BY <1>5, <1>7, <1>12 DEF IInv, InLine, LastWrite, LastTask
<1>14. IInv'
  BY <1>6, <1>11, <1>13 DEF IInv
<1>15. ASSUME Wired, ResponsesInOrder PROVE Wired' /\ ResponsesInOrder'
  <2>1. \A m : Handed(m)' = Handed(m)
    BY DEF Handed
  <2>2. ~Whole(r)
    BY <1>3 DEF Whole
  <2>3. \A m, i : i \in 1..Len(wire) /\ m = wire[i].of /\ m # 0 /\ Whole(m) => Whole(m)'
    BY <1>5, <2>1, <2>2, OnTheWire DEF Whole
  <2>4. ResponsesInOrder'
    BY <1>15, <2>3, InOrderStill
  <2>5. \A m \in 1..conn.sent : m \in Requests
    BY Types DEF IInv, CType, Requests
  <2>6. Wired'
    BY <1>3, <1>5, <1>7, <1>15, <2>1, <2>5 DEF Wired
  <2> QED BY <2>4, <2>6
<1> QED BY <1>14, <1>15 DEF KeepsOrder, Orderly

\* The first response writes, or ends without bytes.
LEMMA HandStep ==
  ASSUME IInv, NEW r \in Requests, NEW part \in Parts, Live(r), part = "more" => res[r].parts < MaxParts,
         r = First, NEW e \in Seq(Entries),
         part = "none" => e = <<>> /\ due' = due \cup {Task("done", r)} /\ (Drained => flight = <<>>),
         part # "none" => e = <<Entry(r, part)>> /\ due' = due,
         res' = [res EXCEPT ![r] = Sent(r, part)],
         conn' = conn, flight' = flight \o e,
         wire' = IF sock.state = "open" THEN wire \o e ELSE wire,
         sock' \in {sock, Destroyed(sock)}
  PROVE  IInv' /\ KeepsOrder
<1> DEFINE x == Sent(r, part)
<1>1. /\ conn \in CType /\ res \in [Requests -> RType] /\ sock \in SType /\ due \subseteq DType
      /\ wire \in Seq(Entries) /\ flight \in Seq(Entries) /\ MaxRequests \in Nat
  BY Types DEF IInv
<1>2. /\ x \in RType /\ x.over = (part # "more") /\ x.queued = res[r].queued /\ x.turn = res[r].turn
      /\ part = "none" => x.parts = res[r].parts
      /\ part # "none" => x.parts = res[r].parts + 1
      /\ x.parts = MaxParts + 1 => part # "more"
  BY SentType
<1>3. /\ Waits(r) /\ conn.responses # <<>> /\ ~res[r].over /\ r <= conn.sent /\ r \in Nat
      /\ res[r].parts \in Nat /\ res[r].queued = <<>>
  BY LiveResponse
<1>4. /\ res' \in [Requests -> RType] /\ (\A s \in Requests : s # r => res'[s] = res[s]) /\ res'[r] = x
  BY <1>1, <1>2
<1> HIDE DEF x
<1>5. /\ \A k \in 1..Len(e) : e[k].of = r /\ e[k].last = (part = "last")
      /\ Len(e) = IF part = "none" THEN 0 ELSE 1
  <2>1. CASE part = "none"
    <3>1. e = <<>> /\ Len(<<>>) = 0
      BY <2>1
    <3> QED BY <3>1, <2>1
  <2>2. CASE part # "none"
    <3>1. e = <<Entry(r, part)>> /\ Len(<<Entry(r, part)>>) = 1
      BY <2>2
    <3> QED BY <3>1, <2>2 DEF Entry
  <2> QED BY <2>1, <2>2
<1>6. due' \subseteq DType
  <2>1. Task("done", r) \in DType
    BY <1>1 DEF Task, DType, Requests
  <2> QED BY <1>1, <2>1
<1>7. sock' \in SType /\ (sock'.state = "open" => sock.state = "open")
  BY <1>1, DestroyedSocket
<1>8. wire' \in Seq(Entries) /\ flight' \in Seq(Entries)
  BY <1>1
<1>9. TypeOK'
  BY <1>1, <1>4, <1>6, <1>7, <1>8, TypesAgain
<1>10. First' = First /\ \A s : Waits(s)' <=> Waits(s)
  BY DEF First, Waits
<1>11. Standing'
  <2> SUFFICES ASSUME NEW s \in Requests PROVE Stands(s)'
    BY DEF Standing
  <2>1. Stands(s)
    BY DEF IInv, Standing
  <2>2. CASE s = r
    <3>1. ~(s > conn'.sent) /\ Waits(s)' /\ s = First' /\ res'[s].queued = <<>>
      BY <1>1, <1>2, <1>3, <1>4, <1>10, <2>2 DEF CType
    <3>2. res'[s].parts = MaxParts + 1 => res'[s].over
      BY <1>2, <1>4, <2>2
    <3> QED BY <3>1, <3>2 DEF Stands
  <2>3. CASE s # r
    BY <1>4, <1>10, <2>1, <2>3 DEF Stands, HeldBack
  <2> QED BY <2>2, <2>3
<1>12. \A k \in 1..Len(flight) : ~flight[k].last /\ (Drained => flight[k].of = r)
  BY <1>3 DEF IInv, LastWrite
<1>13. \A s \in Nat : Task("done", s) \notin due
  BY <1>3 DEF IInv, LastTask
<1>14. LastWrite'
  <2> SUFFICES ASSUME NEW k \in 1..Len(flight')
               PROVE  /\ flight'[k].last => flight'[k].of = r /\ k = Len(flight')
                                            /\ res'[r].over /\ Task("done", r) \notin due'
                      /\ Drained => flight'[k].of = r
    BY <1>3, <1>10 DEF LastWrite
  <2>1. CASE k \in 1..Len(flight) /\ flight'[k] = flight[k]
    BY <1>12, <2>1
  <2>2. CASE k - Len(flight) \in 1..Len(e) /\ flight'[k] = e[k - Len(flight)] /\ Len(flight') = Len(flight) + Len(e)
    <3>1. flight'[k].of = r /\ flight'[k].last = (part = "last")
      BY <1>5, <2>2
    <3>2. Len(flight) \in Nat /\ k \in Nat
      BY <1>1
    <3>3. part # "none" /\ Len(e) = 1 /\ k = Len(flight')
      BY <1>5, <2>2, <3>2
    <3>4. due' = due /\ Task("done", r) \notin due
      BY <1>3, <1>13, <3>3
    <3> QED BY <1>2, <1>4, <3>1, <3>3, <3>4
  <2> QED BY <1>1, <2>1, <2>2
<1>15. LastTask'
  <2> SUFFICES ASSUME NEW s \in Nat, Task("done", s) \in due'
               PROVE  s = r /\ res'[s].over /\ (Drained => flight' = <<>>)
    BY <1>3, <1>10 DEF LastTask
  <2>1. part = "none" /\ Task("done", s) = Task("done", r)
    BY <1>13
  <2>2. s = r
    BY <2>1 DEF Task
  <2>3. e = <<>> /\ (Drained => flight = <<>>)
    BY <2>1
  <2>4. Drained => flight' = <<>>
    BY <2>3
  <2> QED BY <1>2, <1>4, <2>1, <2>2, <2>4
<1>16. InLine'
  BY <1>10 DEF IInv, InLine
<1>17. IInv'
  BY <1>9, <1>11, <1>14, <1>15, <1>16 DEF IInv
<1>18. ASSUME Wired, ResponsesInOrder PROVE Wired' /\ ResponsesInOrder'
  <2>1. conn.sent \in Nat /\ \A q \in 1..conn.sent : q \in Requests /\ q \in Nat
    BY <1>1 DEF CType, Requests
  <2>2. \A q \in 1..conn.sent : q < r => res'[q].over
    <3> SUFFICES ASSUME NEW q \in 1..conn.sent, q < r PROVE res'[q].over
      OBVIOUS
    <3>1. ~Waits(q)
      BY <1>3, <2>1, Line
    <3>2. res[q].over
      BY <2>1, <3>1 DEF IInv, Standing, Stands
    <3> QED BY <1>3, <1>4, <2>1, <3>2
  <2>3. sock.state = "open" => res'[r].parts = Handed(r) + Len(e)
    <3>1. sock.state = "open" => Handed(r) = res[r].parts
      <4>1. r \in 1..conn.sent
        BY <1>3, <2>1 DEF Requests
      <4> QED BY <4>1, <1>18 DEF Wired
    <3> QED BY <3>1, <1>2, <1>3, <1>4, <1>5
  <2>4. ~Whole(r)
    BY <1>3 DEF Whole
  <2>5. First <= r /\ First' = r
    BY <1>3, <1>10
  <2>6. \A q \in Requests : q # r => res'[q].parts = res[q].parts /\ res'[q].over = res[q].over
    BY <1>4
  <2>7. \A k \in 1..Len(e) : e[k].of = r
    BY <1>5
  <2> QED BY <1>3, <1>7, <1>10, <1>18, <2>2, <2>3, <2>4, <2>5, <2>6, <2>7, WiredHand
<1> QED BY <1>17, <1>18 DEF KeepsOrder, Orderly

\* write() and end() of a response.
LEMMA SendStep ==
  ASSUME IInv, NEW r \in Requests, NEW part \in Parts, Send(r, part)
  PROVE  IInv' /\ KeepsOrder
<1>1. /\ Live(r) /\ (part = "more" => res[r].parts < MaxParts)
      /\ part = "none" => (Drained => flight = <<>> /\ MyTurn(r))
  BY DEF Send
<1>2. MyTurn(r) <=> r = First
  BY <1>1, LiveResponse
<1>3. CASE ~MyTurn(r)
  <2>1. /\ res' = [res EXCEPT ![r] = [Sent(r, part) EXCEPT !.queued = Append(@, part)]]
        /\ UNCHANGED <<conn, sock, wire, flight, due>>
    BY <1>3 DEF Send, Sent
  <2> QED BY <1>1, <1>2, <1>3, <2>1, QueueStep
<1>4. CASE MyTurn(r) /\ part = "none"
  <2>1. Hand(<<>>, flight, conn, [res EXCEPT ![r] = Sent(r, part)], due \cup {Task("done", r)})
    BY <1>4 DEF Send, Sent
  <2>2. /\ conn' = conn /\ res' = [res EXCEPT ![r] = Sent(r, part)] /\ due' = due \cup {Task("done", r)}
        /\ flight' = flight \o <<>> /\ wire' = IF sock.state = "open" THEN wire \o <<>> ELSE wire
        /\ sock' \in {sock, Destroyed(sock)}
    BY <2>1 DEF Hand
  <2>3. <<>> \in Seq(Entries)
    OBVIOUS
  <2> QED BY <1>1, <1>2, <1>4, <2>2, <2>3, HandStep
<1>5. CASE MyTurn(r) /\ part # "none"
  <2>1. Hand(<<Entry(r, part)>>, flight, conn, [res EXCEPT ![r] = Sent(r, part)], due)
    BY <1>5 DEF Send, Sent
  <2>2. /\ conn' = conn /\ res' = [res EXCEPT ![r] = Sent(r, part)] /\ due' = due
        /\ flight' = flight \o <<Entry(r, part)>>
        /\ wire' = IF sock.state = "open" THEN wire \o <<Entry(r, part)>> ELSE wire
        /\ sock' \in {sock, Destroyed(sock)}
    BY <2>1 DEF Hand
  <2>3. <<Entry(r, part)>> \in Seq(Entries)
    <3>1. Entry(r, part) \in Entries
      BY Types DEF Entry, Entries, Requests, IInv
    <3> QED BY <3>1
  <2> QED BY <1>1, <1>2, <1>5, <2>2, <2>3, HandStep
<1> QED BY <1>3, <1>4, <1>5

------------------------------------------------------------------------------
(* 'finish', with the last response in line.                               *)

\* What 'finish' of the first response finds: it is over, and nothing of it is to come.
Finishes(r, fl, d) ==
  /\ r \in Requests /\ conn.responses # <<>> /\ r = First /\ res[r].over
  /\ fl \in Seq(Entries) /\ (\A k \in 1..Len(fl) : ~fl[k].last) /\ (Drained => fl = <<>>)
  /\ d \subseteq due /\ \A s \in Nat : Task("done", s) \notin d

\* Without the first response the line stays in order.
LEMMA LineWithout ==
  ASSUME IInv, conn.responses # <<>>
  PROVE  LET rest == Tail(conn.responses)
         IN  /\ Without(conn.responses, First) = rest /\ rest \in Seq(Requests) /\ Rising(rest)
             /\ ToSet(rest) = ToSet(conn.responses) \ {First}
             /\ \A i \in 1..Len(rest) : rest[i] <= conn.sent
             /\ rest # <<>> => /\ Head(rest) \in Requests /\ First < Head(rest) /\ Head(rest) \in ToSet(rest)
                               /\ \A x \in ToSet(rest) : Head(rest) <= x
<1> DEFINE rest == Tail(conn.responses)
<1>1. conn.responses \in Seq(Requests) /\ conn.responses \in Seq(Nat) /\ Rising(conn.responses)
  BY Types, Line DEF IInv, CType
<1>2. /\ rest \in Seq(Nat) /\ Rising(rest) /\ ToSet(rest) = ToSet(conn.responses) \ {First}
      /\ rest # <<>> => First < Head(rest)
  BY <1>1, RisingTail DEF First
<1>3. Without(conn.responses, First) = rest
  BY <1>1, WithoutFirst DEF First
<1>4. rest \in Seq(Requests)
  BY <1>1
<1>5. \A i \in 1..Len(rest) : rest[i] = conn.responses[i + 1] /\ i + 1 \in 1..Len(conn.responses)
  BY <1>1
<1>6. \A i \in 1..Len(rest) : rest[i] <= conn.sent
  BY <1>5 DEF IInv, InLine
<1>7. rest # <<>> => Head(rest) \in ToSet(rest) /\ \A x \in ToSet(rest) : Head(rest) <= x
  BY <1>2, RisingTail
<1>8. rest # <<>> => Head(rest) \in Requests
  BY <1>4
<1> QED BY <1>2, <1>3, <1>4, <1>6, <1>7, <1>8

\* The last response in line finishes.
LEMMA LastDone ==
  ASSUME IInv, NEW r, NEW fl, NEW d, Finishes(r, fl, d), Done(r, fl, d), Tail(conn.responses) = <<>>
  PROVE  IInv' /\ KeepsOrder
<1>1. /\ conn \in CType /\ res \in [Requests -> RType] /\ sock \in SType /\ due \subseteq DType
      /\ wire \in Seq(Entries) /\ flight \in Seq(Entries) /\ MaxRequests \in Nat /\ Requests \subseteq Nat
  BY Types DEF IInv
<1>2. /\ r \in Requests /\ conn.responses # <<>> /\ r = First /\ res[r].over /\ fl \in Seq(Entries)
      /\ \A k \in 1..Len(fl) : ~fl[k].last
      /\ Drained => fl = <<>>
      /\ d \subseteq due /\ \A s \in Nat : Task("done", s) \notin d
  BY DEF Finishes
<1> DEFINE c == [conn EXCEPT !.responses = <<>>]
<1>3. Without(conn.responses, r) = <<>>
  BY <1>2, LineWithout
<1>4. /\ flight' = fl /\ wire' = wire /\ res' = [res EXCEPT ![r].said = TRUE]
      /\ due' = (IF res[r].said THEN d ELSE d \cup {Task("close", r)})
      /\ \/ conn' = c /\ sock' = IF sock.state = "open" THEN [sock EXCEPT !.state = "ended"] ELSE sock
         \/ sock' = sock /\ conn' = Armed(c)
  BY <1>3 DEF Done, Starts
<1>5. /\ c \in CType /\ c.responses = <<>> /\ c.sent = conn.sent /\ c.req = conn.req
  <2>1. ASSUME NEW z \in Seq(Requests)
        PROVE  LET v == [conn EXCEPT !.responses = z]
               IN  v \in CType /\ v.responses = z /\ v.sent = conn.sent /\ v.req = conn.req
    BY <1>1 DEF CType
  <2>2. <<>> \in Seq(Requests)
    OBVIOUS
  <2> QED BY <2>1, <2>2
<1> HIDE DEF c
<1>6. /\ conn' \in CType /\ conn'.responses = <<>> /\ conn'.sent = conn.sent /\ conn'.req = conn.req
      /\ sock' \in SType /\ (sock'.state = "open" => sock.state = "open")
  BY <1>1, <1>4, <1>5 DEF CType, SType, Armed
<1>7. res' \in [Requests -> RType] /\ \A s \in Requests : Same(s)
  <2> DEFINE x == [res[r] EXCEPT !.said = TRUE]
  <2>1. /\ x \in RType /\ x.parts = res[r].parts /\ x.over = res[r].over /\ x.queued = res[r].queued
        /\ x.turn = res[r].turn
    BY <1>1, <1>2 DEF RType
  <2>2. res' = [res EXCEPT ![r] = x]
    BY <1>1, <1>2, <1>4
  <2> HIDE DEF x
  <2> QED BY <1>1, <1>2, <2>1, <2>2 DEF Same
<1>8. due' \subseteq DType /\ \A s \in Nat : Task("done", s) \notin due'
  <2>1. Task("close", r) \in DType
    BY <1>1, <1>2 DEF Task, DType, Requests
  <2>2. \A s : Task("done", s) # Task("close", r)
    BY DEF Task
  <2> QED BY <1>1, <1>2, <1>4, <2>1, <2>2
<1>9. TypeOK'
  BY <1>1, <1>2, <1>4, <1>6, <1>7, <1>8, TypesAgain
<1>10. \A s : ~Waits(s)'
  BY <1>6 DEF Waits, ToSet
<1>11. InLine'
  <2>1. Len(<<>>) = 0
    OBVIOUS
  <2> QED BY <1>6, <2>1 DEF IInv, InLine, Rising
<1>12. \A s \in Requests : ~Waits(s) \/ s = r
  <2>1. ToSet(Tail(conn.responses)) = ToSet(conn.responses) \ {First}
    BY <1>2, LineWithout
  <2>2. ToSet(<<>>) = {}
    BY DEF ToSet
  <2> QED BY <2>1, <2>2, <1>2 DEF Waits
<1>13. Standing'
  <2> SUFFICES ASSUME NEW s \in Requests PROVE Stands(s)'
    BY DEF Standing
  <2>1. Stands(s) /\ Stands(r) /\ Same(s)
    BY <1>2, <1>7 DEF IInv, Standing
  <2>2. Waits(r)
    BY <1>2, Line
  <2>3. CASE s = r
    BY <1>2, <1>6, <1>10, <2>1, <2>2, <2>3 DEF Stands, Same
  <2>4. CASE s # r
    BY <1>6, <1>10, <1>12, <2>1, <2>4 DEF Stands, Same
  <2> QED BY <2>3, <2>4
<1>14. LastWrite'
  <2>1. \A k \in 1..Len(flight') : ~flight'[k].last /\ ~Drained
    <3>1. Len(<<>>) = 0
      OBVIOUS
    <3> QED BY <1>2, <1>4, <3>1
  <2> QED BY <2>1 DEF LastWrite
<1>15. LastTask'
  BY <1>8 DEF LastTask
<1>16. IInv'
  BY <1>9, <1>11, <1>13, <1>14, <1>15 DEF IInv
<1>17. ASSUME Wired, ResponsesInOrder PROVE Wired' /\ ResponsesInOrder'
  <2>1. \A m : Handed(m)' = Handed(m)
    BY <1>4 DEF Handed
  <2>2. \A m, i : i \in 1..Len(wire) /\ m = wire[i].of /\ m # 0 /\ Whole(m) => Whole(m)'
    BY <2>1, <1>7, OnTheWire DEF Whole, Same
  <2>3. ResponsesInOrder'
    BY <1>4, <1>17, <2>2, InOrderStill
  <2>4. \A q \in 1..conn.sent : q \in Requests
    BY <1>1 DEF CType, Requests
  <2>5. ASSUME sock.state = "open", NEW q \in 1..conn.sent PROVE Handed(q)' = res'[q].parts
    BY <1>2, <1>7, <1>12, <1>17, <2>1, <2>4, <2>5 DEF Wired, Same
  <2>6. Wired'
    BY <1>4, <1>6, <1>17, <2>5 DEF Wired
  <2> QED BY <2>3, <2>6
<1> QED BY <1>16, <1>17 DEF KeepsOrder, Orderly

------------------------------------------------------------------------------
(* 'finish', with a response behind it that has its turn.                  *)

\* A part as the write that it becomes.
LEMMA EntryFields ==
  ASSUME NEW r, NEW p
  PROVE  Entry(r, p).of = r /\ (Entry(r, p).last <=> p = "last")
BY DEF Entry

\* What the response that is next in line holds back, as the writes it becomes.
Held(n) == [i \in 1..WithBytes(res[n].queued) |-> Entry(n, res[n].queued[i])]

\* They are as many writes as it was given parts, the last one being its end.
LEMMA HeldWrites ==
  ASSUME IInv, NEW n \in Requests, HeldBack(res[n])
  PROVE  LET q == res[n].queued
         IN  /\ Held(n) \in Seq(Entries) /\ Len(Held(n)) = res[n].parts /\ res[n].parts \in Nat
             /\ \A k \in 1..Len(Held(n)) : Held(n)[k].of = n
             /\ \A k \in 1..Len(Held(n)) :
                  Held(n)[k].last => k = Len(Held(n)) /\ res[n].over /\ WithBytes(q) = Len(q)
             /\ WithBytes(q) < Len(q) => res[n].over /\ ~Drained
<1> DEFINE q == res[n].queued
           b == WithBytes(q)
           e == Held(n)
<1>1. q \in Seq(Parts) /\ res[n].parts \in Nat /\ MaxRequests \in Nat
  BY Types DEF IInv, RType
<1>2. b = res[n].parts
  BY DEF HeldBack
<1>3. Len(q) \in Nat /\ b \in Nat /\ b <= Len(q) /\ (b < Len(q) => q # <<>> /\ q[Len(q)] = "none" /\ Len(q) \in 1..Len(q))
  BY <1>1, <1>2 DEF WithBytes
<1>4. \A k \in 1..b : k \in 1..Len(q)
  BY <1>3
<1>5. \A k \in 1..b : Entry(n, q[k]) \in Entries
  BY <1>1 DEF Entry, Entries, Requests
<1>6. e = [i \in 1..b |-> Entry(n, q[i])]
  BY DEF Held
<1> HIDE DEF b, e
<1>7. e \in Seq(Entries) /\ Len(e) = b /\ \A k \in 1..b : e[k] = Entry(n, q[k])
  BY <1>3, <1>5, <1>6
<1>8. \A k \in 1..Len(e) : e[k].of = n /\ (e[k].last => q[k] = "last")
  <2> SUFFICES ASSUME NEW k \in 1..Len(e) PROVE e[k].of = n /\ (e[k].last => q[k] = "last")
    OBVIOUS
  <2>1. e[k] = Entry(n, q[k])
    BY <1>7
  <2>2. Entry(n, q[k]).of = n /\ (Entry(n, q[k]).last <=> q[k] = "last")
    BY EntryFields
  <2> QED BY <2>1, <2>2
<1>9. \A k \in 1..Len(q) : q[k] # "more" => k = Len(q) /\ res[n].over
  BY DEF HeldBack
<1>10. ASSUME NEW k \in 1..Len(e), e[k].last PROVE k = Len(e) /\ res[n].over /\ b = Len(q)
  <2>1. k \in 1..Len(q) /\ q[k] # "more"
    BY <1>4, <1>7, <1>8, <1>10
  <2>2. k = Len(q) /\ res[n].over
    BY <1>9, <2>1
  <2> QED BY <2>2, <1>3, <1>7
<1>11. b < Len(q) => res[n].over /\ ~Drained
  BY <1>3, <1>9 DEF HeldBack
<1> QED BY <1>1, <1>2, <1>7, <1>8, <1>10, <1>11 DEF b, e

\* The next response in line has its turn: what it held back is written.
LEMMA NextDone ==
  ASSUME IInv, NEW r, NEW fl, NEW d, Finishes(r, fl, d), Done(r, fl, d), Tail(conn.responses) # <<>>
  PROVE  IInv' /\ KeepsOrder
<1> DEFINE rest == Tail(conn.responses)
           n == Head(rest)
           q == res[n].queued
           e == Held(n)
<1>1. /\ conn \in CType /\ res \in [Requests -> RType] /\ sock \in SType /\ due \subseteq DType
      /\ wire \in Seq(Entries) /\ flight \in Seq(Entries) /\ MaxRequests \in Nat /\ Requests \subseteq Nat
  BY Types DEF IInv
<1>2. /\ r \in Requests /\ conn.responses # <<>> /\ r = First /\ res[r].over /\ fl \in Seq(Entries)
      /\ \A k \in 1..Len(fl) : ~fl[k].last
      /\ Drained => fl = <<>>
      /\ d \subseteq due /\ \A s \in Nat : Task("done", s) \notin d
  BY DEF Finishes
<1>3. /\ Without(conn.responses, r) = rest /\ rest \in Seq(Requests) /\ Rising(rest)
      /\ ToSet(rest) = ToSet(conn.responses) \ {r}
      /\ \A i \in 1..Len(rest) : rest[i] <= conn.sent
      /\ n \in Requests /\ r < n /\ n \in ToSet(rest)
      /\ \A x \in ToSet(rest) : n <= x
  BY <1>2, LineWithout
<1>4. Waits(n) /\ Waits(r) /\ n # r /\ n \in Nat /\ r \in Nat /\ n <= conn.sent /\ r <= conn.sent
  BY <1>1, <1>2, <1>3, Line DEF Waits
<1>5. HeldBack(res[n]) /\ ~res[n].turn
  BY <1>2, <1>3, <1>4 DEF IInv, Standing, Stands
<1>6. PICK told \in SUBSET DType :
        /\ \A s \in Nat : Task("done", s) \notin told
        /\ told = (IF res[r].said THEN d ELSE d \cup {Task("close", r)})
  <2>1. Task("close", r) \in DType
    BY <1>1, <1>2 DEF Task, DType, Requests
  <2>2. \A s : Task("done", s) # Task("close", r)
    BY DEF Task
  <2> QED BY <1>1, <1>2, <2>1, <2>2
<1>7. /\ conn' = [conn EXCEPT !.responses = rest]
      /\ res' = [[res EXCEPT ![r].said = TRUE] EXCEPT ![n].turn = TRUE, ![n].queued = <<>>]
      /\ due' = told \cup (IF WithBytes(q) < Len(q) THEN {Task("done", n)} ELSE {})
      /\ flight' = fl \o e
      /\ IF sock.state = "open" THEN wire' = wire \o e /\ sock' = sock
         ELSE wire' = wire /\ sock' = IF e = <<>> THEN sock ELSE Destroyed(sock)
  BY ZenonT(60), <1>3, <1>6 DEF Done, Starts, Hand, Held
<1>8. /\ e \in Seq(Entries) /\ Len(e) = res[n].parts /\ res[n].parts \in Nat
      /\ \A k \in 1..Len(e) : e[k].of = n
      /\ \A k \in 1..Len(e) : e[k].last => k = Len(e) /\ res[n].over /\ WithBytes(q) = Len(q)
      /\ WithBytes(q) < Len(q) => res[n].over /\ ~Drained
  BY <1>3, <1>5, HeldWrites
<1> HIDE DEF rest, n, e
<1>9. conn' \in CType /\ conn'.responses = rest /\ conn'.sent = conn.sent /\ conn'.req = conn.req
  BY <1>1, <1>3, <1>7 DEF CType
<1>10. sock' \in SType /\ (sock'.state = "open" => sock.state = "open")
  BY <1>1, <1>7, DestroyedSocket
<1>11. wire' = (IF sock.state = "open" THEN wire \o e ELSE wire) /\ wire' \in Seq(Entries) /\ flight' \in Seq(Entries)
  <2>1. wire' = IF sock.state = "open" THEN wire \o e ELSE wire
    BY <1>7
  <2>2. wire \o e \in Seq(Entries) /\ fl \o e \in Seq(Entries)
    BY <1>1, <1>2, <1>8
  <2> QED BY <1>1, <1>7, <2>1, <2>2
<1>12. /\ res' \in [Requests -> RType]
       /\ \A s \in Requests : s # n => Same(s)
       /\ res'[n].parts = res[n].parts /\ res'[n].over = res[n].over /\ res'[n].queued = <<>>
  <2>1. \A s \in Requests : res[s] \in RType /\ [res[s] EXCEPT !.said = TRUE] \in RType
    <3>1. \A x \in RType : [x EXCEPT !.said = TRUE] \in RType
      BY DEF RType
    <3> QED BY <1>1, <3>1
  <2>2. ASSUME NEW z \in Seq(Parts)
        PROVE  [[res[n] EXCEPT !.turn = TRUE] EXCEPT !.queued = z] \in RType
    <3>1. \A x \in RType : [x EXCEPT !.turn = TRUE] \in RType
      BY DEF RType
    <3>2. \A x \in RType : [x EXCEPT !.queued = z] \in RType
      BY <2>2 DEF RType
    <3> QED BY <1>1, <1>3, <3>1, <3>2
  <2>3. <<>> \in Seq(Parts)
    OBVIOUS
  <2>4. /\ \A s \in Requests : s # n /\ s # r => res'[s] = res[s]
        /\ res'[r] = [res[r] EXCEPT !.said = TRUE]
        /\ res'[n] = [[res[n] EXCEPT !.turn = TRUE] EXCEPT !.queued = <<>>]
        /\ DOMAIN res' = Requests
    BY <1>1, <1>2, <1>3, <1>4, <1>7
  <2>5. res'[n] \in RType
    BY <2>2, <2>3, <2>4
  <2>6. res' = [s \in Requests |-> res'[s]]
    BY <1>1, <1>7
  <2>7. res' \in [Requests -> RType]
    <3>1. \A s \in Requests : res'[s] \in RType
      BY ZenonT(60), <2>1, <2>4, <2>5
    <3> QED BY <2>6, <3>1
  <2>8. Same(r)
    BY <2>1, <2>4, <1>2 DEF RType, Same
  <2>9. \A s \in Requests : s # n => Same(s)
    BY <2>4, <2>8 DEF Same
  <2>10. res'[n].parts = res[n].parts /\ res'[n].over = res[n].over /\ res'[n].queued = <<>>
    BY <2>1, <2>4, <1>3 DEF RType
  <2> QED BY <2>7, <2>9, <2>10
<1>13. due' \subseteq DType
  <2>1. Task("done", n) \in DType
    BY <1>1, <1>3 DEF Task, DType, Requests
  <2> QED BY <1>6, <1>7, <2>1
<1>14. TypeOK'
  BY <1>9, <1>10, <1>11, <1>12, <1>13, TypesAgain
<1>15. rest # <<>> /\ First' = n /\ \A s : Waits(s)' <=> Waits(s) /\ s # r
  BY <1>3, <1>9 DEF First, Waits, n, rest
<1>16. InLine'
  BY <1>3, <1>9 DEF IInv, InLine
<1>17. Standing'
  <2> SUFFICES ASSUME NEW s \in Requests PROVE Stands(s)'
    BY DEF Standing
  <2>1. Stands(s)
    BY DEF IInv, Standing
  <2>2. CASE s = n
    <3>1. Waits(s)' /\ s = First' /\ res'[s].queued = <<>> /\ ~(s > conn'.sent)
      BY <1>1, <1>4, <1>9, <1>12, <1>15, <2>2 DEF CType
    <3>2. res'[s].parts = MaxParts + 1 => res'[s].over
      BY <1>12, <2>1, <2>2 DEF Stands
    <3> QED BY <3>1, <3>2 DEF Stands
  <2>3. CASE s = r
    <3>1. ~Waits(s)' /\ res'[s].over /\ res'[s].queued = <<>> /\ ~(s > conn'.sent)
      BY <1>1, <1>2, <1>4, <1>9, <1>12, <1>15, <2>1, <2>3 DEF CType, Stands, Same
    <3> QED BY <3>1 DEF Stands
  <2>4. CASE s # r /\ s # n
    BY <1>2, <1>9, <1>12, <1>15, <2>1, <2>4 DEF Stands, Same, HeldBack
  <2> QED BY <2>2, <2>3, <2>4
<1>18. \A s \in Nat : Task("done", s) \in due' => s = n /\ res[n].over /\ ~Drained /\ WithBytes(q) < Len(q)
  BY <1>6, <1>7, <1>8 DEF Task
<1>19. LastWrite'
  <2> SUFFICES ASSUME NEW k \in 1..Len(flight')
               PROVE  /\ flight'[k].last => flight'[k].of = n /\ k = Len(flight')
                                            /\ res'[n].over /\ Task("done", n) \notin due'
                      /\ Drained => flight'[k].of = n
    BY <1>9, <1>15 DEF LastWrite
  <2>0. /\ Len(fl) \in Nat /\ Len(e) \in Nat /\ Len(flight') = Len(fl) + Len(e)
        /\ \/ k \in 1..Len(fl) /\ flight'[k] = fl[k]
           \/ k - Len(fl) \in 1..Len(e) /\ flight'[k] = e[k - Len(fl)]
    BY SMTT(60), <1>2, <1>7, <1>8
  <2>1. CASE k \in 1..Len(fl) /\ flight'[k] = fl[k]
    <3>1. ~flight'[k].last
      BY <1>2, <2>1
    <3>2. Drained => Len(fl) = 0
      BY <1>2
    <3> QED BY <2>1, <3>1, <3>2
  <2>2. CASE k - Len(fl) \in 1..Len(e) /\ flight'[k] = e[k - Len(fl)]
    <3>1. flight'[k].of = n /\ (flight'[k].last => k - Len(fl) = Len(e) /\ res[n].over /\ WithBytes(q) = Len(q))
      BY <1>8, <2>2
    <3>2. k - Len(fl) = Len(e) => k = Len(flight')
      BY <2>0
    <3>3. WithBytes(q) = Len(q) => Task("done", n) \notin due'
      <4>1. q \in Seq(Parts)
        BY <1>1, <1>3 DEF RType
      <4>2. Len(q) \in Nat
        BY <4>1
      <4> QED BY <1>4, <1>18, <4>2
    <3> QED BY <1>12, <3>1, <3>2, <3>3
  <2> QED BY <2>0, <2>1, <2>2
<1>20. LastTask'
  BY <1>9, <1>12, <1>15, <1>18 DEF LastTask
<1>21. IInv'
  BY <1>14, <1>16, <1>17, <1>19, <1>20 DEF IInv
<1>22. ASSUME Wired, ResponsesInOrder PROVE Wired' /\ ResponsesInOrder'
  <2>1. conn.sent \in Nat /\ \A s \in 1..conn.sent : s \in Requests /\ s \in Nat
    BY <1>1 DEF CType, Requests
  <2>2. \A s \in 1..conn.sent : s < n => res'[s].over
    <3> SUFFICES ASSUME NEW s \in 1..conn.sent, s < n PROVE res'[s].over
      OBVIOUS
    <3>1. CASE s = r
      BY <1>2, <1>4, <1>12, <3>1 DEF Same
    <3>2. CASE s # r
      <4>1. ~Waits(s)
        BY <1>3, <1>4, <2>1, <3>2 DEF Waits
      <4>2. res[s].over
        BY <2>1, <4>1 DEF IInv, Standing, Stands
      <4> QED BY <2>1, <4>2, <1>12 DEF Same
    <3> QED BY <3>1, <3>2
  <2>3. sock.state = "open" => \A k \in 1..Len(wire) : wire[k].of # n
    <3>1. sock.state = "open" => \A m, i : i \in 1..Len(wire) /\ m = wire[i].of => m \in Nat /\ m <= r
      BY <1>2, <1>22, <2>1, OnTheWire
    <3> QED BY <3>1, <1>3, <1>4
  <2>4. sock.state = "open" => res'[n].parts = Handed(n) + Len(e)
    <3>1. sock.state = "open" => Handed(n) = 0
      <4>1. sock.state = "open" => CountOf(wire, n) = 0
        BY <1>1, <2>3, CountOfNone
      <4> QED BY <4>1 DEF Handed, CountOf, OfResponse
    <3> QED BY <3>1, <1>8, <1>12
  <2>5. Whole(n) => \/ res'[n].parts = res[n].parts /\ res'[n].over /\ sock.state # "open"
                    \/ \A k \in 1..Len(wire) : wire[k].of # n
    BY <1>12, <2>3 DEF Whole
  <2>6. \A s \in 1..conn.sent : s # n /\ ~Waits(s)' => ~Waits(s) \/ s = First
    BY <1>2, <1>15
  <2>7. \A s \in Requests : s # n => res'[s].parts = res[s].parts /\ res'[s].over = res[s].over
    BY <1>12 DEF Same
  <2>8. First <= n
    BY <1>2, <1>3, <1>4
  <2>9. /\ n \in Requests /\ n <= conn.sent /\ conn.responses # <<>> /\ First' = n
        /\ e \in Seq(Entries) /\ \A k \in 1..Len(e) : e[k].of = n
    BY <1>2, <1>3, <1>4, <1>8, <1>15
  <2> QED BY <1>9, <1>10, <1>11, <1>22, <2>2, <2>4, <2>5, <2>6, <2>7, <2>8, <2>9, WiredHand
<1> QED BY <1>21, <1>22 DEF KeepsOrder, Orderly

\* 'finish' of the first response, from a write or from a task.
LEMMA DoneStep ==
  ASSUME IInv, NEW r, NEW fl, NEW d, Finishes(r, fl, d), Done(r, fl, d)
  PROVE  IInv' /\ KeepsOrder
BY LastDone, NextDone

\* The last write in flight is the end of the first response.
LEMMA LastFinishes ==
  ASSUME IInv, Written, Head(flight).last
  PROVE  Finishes(Head(flight).of, Tail(flight), due)
<1>1. flight \in Seq(Entries) /\ flight # <<>>
  BY Types DEF IInv, Written
<1>2. Len(flight) \in Nat /\ 1 \in 1..Len(flight) /\ Head(flight) = flight[1] /\ Tail(flight) \in Seq(Entries)
      /\ Len(Tail(flight)) = Len(flight) - 1
  BY <1>1
<1>3. /\ conn.responses # <<>> /\ Head(flight).of = First /\ 1 = Len(flight) /\ res[First].over
      /\ Task("done", First) \notin due
  BY <1>2 DEF IInv, LastWrite
<1>31. Len(Tail(flight)) = 0
  <2>1. Len(flight) = 1
    BY <1>3
  <2> HIDE DEF First
  <2> QED BY <1>2, <2>1
<1>4. Tail(flight) = <<>>
  BY <1>2, <1>31, EmptySeq
<1>5. First \in Requests
  BY <1>3, Line
<1>6. \A s \in Nat : Task("done", s) \notin due
  BY <1>3 DEF IInv, LastTask
<1>7. \A k \in 1..Len(Tail(flight)) : ~Tail(flight)[k].last
  BY <1>31
<1> QED BY <1>2, <1>3, <1>4, <1>5, <1>6, <1>7 DEF Finishes

\* The last write is taken, and 'finish' follows.
LEMMA WrittenLast ==
  ASSUME IInv, Written, Head(flight).last
  PROVE  IInv' /\ KeepsOrder
<1>1. Finishes(Head(flight).of, Tail(flight), due) /\ Done(Head(flight).of, Tail(flight), due)
  BY LastFinishes DEF Written
<1> QED BY <1>1, DoneStep

\* A task finishes the first response.
LEMMA LaterFinishes ==
  ASSUME IInv, NEW r \in Requests, DoneLater(r)
  PROVE  Finishes(r, flight, due \ {Task("done", r)})
<1>1. flight \in Seq(Entries) /\ r \in Nat
  BY Types DEF IInv
<1>2. Task("done", r) \in due
  BY DEF DoneLater
<1>3. conn.responses # <<>> /\ r = First /\ res[r].over /\ (Drained => flight = <<>>)
      /\ \A s \in Nat : Task("done", s) \in due => s = r
  BY <1>1, <1>2 DEF IInv, LastTask
<1>4. \A k \in 1..Len(flight) : ~flight[k].last
  BY <1>2, <1>3 DEF IInv, LastWrite
<1> QED BY <1>1, <1>3, <1>4 DEF Finishes

\* 'finish' comes in a task when end() had no bytes left.
LEMMA DoneLaterStep ==
  ASSUME IInv, NEW r \in Requests, DoneLater(r)
  PROVE  IInv' /\ KeepsOrder
<1>1. Done(r, flight, due \ {Task("done", r)})
  BY DEF DoneLater
<1> QED BY <1>1, LaterFinishes, DoneStep

------------------------------------------------------------------------------
(* The theorems.                                                           *)

\* A connection that was just accepted.
LEMMA Accepted ==
  ASSUME Init
  PROVE  IInv /\ Orderly
<1>1. /\ conn.responses = <<>> /\ conn.req = 0 /\ conn.sent = 0 /\ wire = <<>> /\ flight = <<>> /\ due = {}
      /\ res = [r \in Requests |-> NoResponse]
  BY DEF Init
<1>2. Len(<<>>) = 0
  OBVIOUS
<1>3. MaxRequests \in Nat /\ MaxParts \in Nat /\ 0 \in 0..MaxRequests /\ 0 \in 0..(MaxParts + 1)
  BY HttpServerAssumption
<1>4. TypeOK
  <2>1. conn \in CType
    <3>1. <<>> \in Seq(Requests)
      OBVIOUS
    <3> QED BY <1>3, <3>1 DEF Init, CType
  <2>2. NoResponse \in RType
    <3>1. <<>> \in Seq(Parts) /\ 0 \in Nat
      OBVIOUS
    <3> QED BY <1>3, <3>1 DEF NoResponse, RType
  <2>3. sock \in SType
    BY DEF Init, SType
  <2>4. wire \in Seq(Entries) /\ flight \in Seq(Entries)
    BY <1>1
  <2>5. res \in [Requests -> RType] /\ due \subseteq DType
    BY <1>1, <2>2
  <2> QED BY <2>1, <2>3, <2>4, <2>5 DEF TypeOK, CType, RType, SType, DType
<1>5. InLine
  BY <1>1, <1>2 DEF InLine, Rising
<1>6. \A x : ~Waits(x)
  BY <1>1, <1>2 DEF Waits, ToSet
<1>7. Standing
  <2> SUFFICES ASSUME NEW r \in Requests PROVE Stands(r)
    BY DEF Standing
  <2>1. r \in Nat /\ r > 0 /\ ~(r <= conn.sent)
    BY <1>1, <1>3 DEF Requests
  <2>2. res[r].parts = 0 /\ ~res[r].over /\ res[r].queued = <<>> /\ ~res[r].turn
    BY <1>1 DEF NoResponse
  <2>3. res[r].parts # MaxParts + 1
    BY <2>2, <1>3
  <2> QED BY <2>1, <2>2, <2>3, <1>6 DEF Stands
<1>8. LastWrite /\ LastTask
  BY <1>1, <1>2 DEF LastWrite, LastTask
<1>9. Wired
  BY <1>1, <1>2 DEF Wired
<1>10. ResponsesInOrder
  BY <1>1, <1>2 DEF ResponsesInOrder
<1> QED BY <1>4, <1>5, <1>7, <1>8, <1>9, <1>10 DEF IInv, Orderly

\* Every step keeps the invariant, and, with a peer that sends well-formed requests, the order.
LEMMA NextStep ==
  ASSUME IInv, [Next]_vars
  PROVE  IInv' /\ (WellFormed => KeepsOrder)
<1>1. CASE Written
  BY <1>1, WrittenStep, WrittenLast
<1>2. CASE AutoEnd \/ Reset \/ OnSocketEnd \/ OnEnd \/ Timeout \/ CloseServer \/ SocketEnds
  BY <1>2, QuietSteps
<1>3. CASE \E r \in Requests : DoneLater(r) \/ EmitClose(r)
  BY <1>3, DoneLaterStep, EmitCloseStep
<1>4. CASE OnHead \/ OnUpgrade \/ OnError \/ OnSocketClose
  BY <1>4, OnHeadStep, OnUpgradeStep, OnErrorStep, OnSocketCloseStep
<1>5. CASE \E r \in Requests : Program(r)
  BY <1>5, WriteHeadStep, SendStep DEF Program
<1>6. CASE UNCHANGED vars
  BY <1>6, Types, FlagStep DEF vars, IInv
<1> QED BY <1>1, <1>2, <1>3, <1>4, <1>5, <1>6 DEF Next, Tasks, Peer

\* The types, the line and what may finish hold in every state.
THEOREM HttpInvariant == Spec => []IInv
<1>1. Init => IInv
  BY Accepted
<1>2. IInv /\ [Next]_vars => IInv'
  BY NextStep
<1> QED BY <1>1, <1>2, PTL DEF Spec

\* Every reachable state has its types.
THEOREM HttpTypes == Spec => []TypeOK
<1>1. IInv => TypeOK
  BY DEF IInv
<1> QED BY <1>1, HttpInvariant, PTL

\* Responses are in the order of the requests, whole one after the other.
THEOREM HttpOrder ==
  ASSUME WellFormed
  PROVE  Spec => []ResponsesInOrder
<1>1. Init => Orderly
  BY Accepted
<1>2. IInv /\ Orderly /\ [Next]_vars => Orderly'
  BY NextStep DEF KeepsOrder
<1>3. Orderly => ResponsesInOrder
  BY DEF Orderly
<1> QED BY <1>1, <1>2, <1>3, HttpInvariant, PTL DEF Spec

\* An idle connection has answered everything.
LEMMA IdleIsAnswered ==
  ASSUME IInv, Idle, Drained
  PROVE  flight = <<>> /\ conn.req = 0 /\ \A r \in Requests : r <= conn.sent => res[r].over
<1>1. conn.responses = <<>> /\ conn.req = 0 /\ \A x : ~Waits(x)
  BY Line DEF Idle
<1>2. flight \in Seq(Entries)
  BY Types DEF IInv
<1>3. \A k \in 1..Len(flight) : FALSE
  BY <1>1 DEF IInv, LastWrite
<1>4. flight = <<>>
  <2>1. Len(flight) \in Nat
    BY <1>2
  <2>2. Len(flight) = 0
    BY <1>3, <2>1
  <2> QED BY <1>2, <2>2, EmptySeq
<1>5. \A r \in Requests : r <= conn.sent => res[r].over
  BY <1>1 DEF IInv, Standing, Stands
<1> QED BY <1>1, <1>4, <1>5

\* The idle timer and server.close() cut nothing off.
THEOREM HttpCutsNothing ==
  ASSUME Drained
  PROVE  Spec => NothingIsCut
<1> DEFINE Answered == (Timeout \/ CloseServer) /\ sock'.state # sock.state =>
             flight = <<>> /\ conn.req = 0 /\ \A r \in Requests : r <= conn.sent => res[r].over
<1>1. IInv /\ [Next]_vars => [Answered]_vars
  <2> SUFFICES ASSUME IInv, Timeout \/ CloseServer, sock'.state # sock.state
               PROVE  flight = <<>> /\ conn.req = 0 /\ \A r \in Requests : r <= conn.sent => res[r].over
    OBVIOUS
  <2>1. Idle
    BY DEF Timeout, CloseServer, IsIdle
  <2> QED BY <2>1, IdleIsAnswered
<1> QED BY <1>1, HttpInvariant, PTL DEF Spec, NothingIsCut

------------------------------------------------------------------------------
(* 'close' comes once.                                                     *)

\* A response hears 'close' once: what waits for it, or has not begun, did not hear it, and
\* one whose event is queued has not heard it yet.
HearsOnce(r) ==
  /\ res[r].closes <= 1
  /\ Task("close", r) \in due => res[r].closes = 0
  /\ r > conn.sent \/ (Waits(r) /\ ~res[r].said) => res[r].closes = 0 /\ Task("close", r) \notin due

HeardOnce == \A r \in Requests : HearsOnce(r)

\* A response whose events a step leaves alone.
LEMMA NotHeard ==
  ASSUME IInv, IInv', NEW r \in Requests, HearsOnce(r), conn'.sent >= conn.sent,
         Waits(r)' => Waits(r) \/ r > conn.sent,
         res'[r].closes = res[r].closes, res[r].said => res'[r].said,
         Task("close", r) \in due' <=> Task("close", r) \in due
  PROVE  HearsOnce(r)'
<1>1. conn.sent \in Nat /\ conn'.sent \in Nat /\ r \in Nat
  <2>1. conn \in CType /\ conn' \in CType /\ MaxRequests \in Nat
    BY HttpServerAssumption DEF IInv, TypeOK, CType
  <2> QED BY <2>1 DEF CType, Requests
<1>2. r > conn'.sent => r > conn.sent
  BY <1>1
<1> QED BY <1>2 DEF HearsOnce

\* Tasks of responses and of kinds are told apart.
LEMMA TasksDiffer ==
  ASSUME NEW a, NEW b, NEW r, NEW s
  PROVE  Task(a, r) = Task(b, s) <=> a = b /\ r = s
<1>1. Task(a, r).ev = a /\ Task(a, r).of = r /\ Task(b, s).ev = b /\ Task(b, s).of = s
  BY DEF Task
<1> QED BY <1>1

\* Steps that change no response.
LEMMA HeardQuiet ==
  ASSUME IInv, IInv', HeardOnce, UNCHANGED res,
         conn'.responses = conn.responses, conn'.sent = conn.sent,
         \A r \in Requests : Task("close", r) \in due' <=> Task("close", r) \in due
  PROVE  HeardOnce'
<1>1. conn.sent \in Nat
  BY Types DEF IInv, CType
<1> SUFFICES ASSUME NEW r \in Requests PROVE HearsOnce(r)'
  BY DEF HeardOnce
<1>2. HearsOnce(r) /\ (Waits(r)' <=> Waits(r))
  BY DEF HeardOnce, Waits
<1> QED BY <1>1, <1>2, NotHeard

\* 'finish' queues the one 'close' of its response.
LEMMA HeardDone ==
  ASSUME IInv, IInv', HeardOnce, NEW r, NEW fl, NEW d, Finishes(r, fl, d), Done(r, fl, d),
         d \in {due, due \ {Task("done", r)}}
  PROVE  HeardOnce'
<1> DEFINE rest == Tail(conn.responses)
           told == IF res[r].said THEN d ELSE d \cup {Task("close", r)}
<1>1. /\ conn \in CType /\ res \in [Requests -> RType] /\ conn.sent \in Nat
      /\ r \in Requests /\ r = First /\ Waits(r) /\ conn.responses # <<>>
  BY Types, Line DEF IInv, Finishes, CType
<1>2. /\ conn'.responses = rest /\ conn'.sent = conn.sent
      /\ \A s \in Requests : res'[s].closes = res[s].closes /\ (res[s].said => res'[s].said)
      /\ res'[r].said
      /\ \A s \in Requests : Task("close", s) \in due' <=> Task("close", s) \in told
  <2>1. Without(conn.responses, r) = rest /\ (rest # <<>> => Head(rest) \in Requests)
    BY <1>1, LineWithout
  <2> DEFINE said == [res EXCEPT ![r].said = TRUE]
             n == Head(rest)
             q == res[n].queued
             c == [conn EXCEPT !.responses = rest]
  <2>2. /\ \A s \in Requests : said[s].closes = res[s].closes /\ (res[s].said => said[s].said)
        /\ said[r].said /\ said \in [Requests -> RType]
    <3> DEFINE x == [res[r] EXCEPT !.said = TRUE]
    <3>1. x \in RType /\ x.said /\ x.closes = res[r].closes
      BY <1>1 DEF RType
    <3>2. said = [res EXCEPT ![r] = x]
      BY <1>1
    <3> HIDE DEF x, said
    <3> QED BY <1>1, <3>1, <3>2
  <2>3. c.responses = rest /\ c.sent = conn.sent /\ Armed(c).responses = rest /\ Armed(c).sent = conn.sent
    BY <1>1 DEF CType, Armed
  <2>4. CASE rest # <<>>
    <3>1. /\ conn' = c /\ res' = [said EXCEPT ![n].turn = TRUE, ![n].queued = <<>>]
          /\ due' = told \cup (IF WithBytes(q) < Len(q) THEN {Task("done", n)} ELSE {})
      BY <2>1, <2>4 DEF Done, Hand, Starts
    <3>2. n \in Requests
      BY <2>1, <2>4
    <3>3. \A s \in Requests : res'[s].closes = said[s].closes /\ res'[s].said = said[s].said
      <4> SUFFICES ASSUME NEW s \in Requests PROVE res'[s].closes = said[s].closes /\ res'[s].said = said[s].said
        OBVIOUS
      <4> HIDE DEF said, n
      <4>1. said[s] \in RType
        BY <2>2
      <4>2. CASE s = n
        <5>1. res'[s] = [said[s] EXCEPT !.turn = TRUE, !.queued = <<>>]
          BY <2>2, <3>1, <3>2, <4>2
        <5> QED BY <4>1, <5>1 DEF RType
      <4>3. CASE s # n
        BY <2>2, <3>1, <3>2, <4>3
      <4> QED BY <4>2, <4>3
    <3>4. \A s \in Requests : Task("close", s) # Task("done", n)
      BY TasksDiffer
    <3>5. \A s \in Requests : Task("close", s) \in due' <=> Task("close", s) \in told
      BY <3>1, <3>4
    <3>6. conn'.responses = rest /\ conn'.sent = conn.sent
      BY <2>3, <3>1
    <3> HIDE DEF said, n, q, c, rest, told
    <3>7. \A s \in Requests : res'[s].closes = res[s].closes /\ (res[s].said => res'[s].said)
      BY <2>2, <3>3
    <3>8. res'[r].said
      BY <1>1, <2>2, <3>3
    <3> QED BY <3>5, <3>6, <3>7, <3>8
  <2>5. CASE rest = <<>>
    <3>1. conn' \in {c, Armed(c)} /\ res' = said /\ due' = told
      BY <2>1, <2>5 DEF Done, Starts
    <3> QED BY <2>2, <2>3, <3>1
  <2> QED BY <2>4, <2>5
<1>3. \A s \in Requests : Task("close", s) \in told <=> Task("close", s) \in due \/ (s = r /\ ~res[r].said)
  <2>1. \A s \in Requests : Task("close", s) \in d <=> Task("close", s) \in due
    BY TasksDiffer
  <2>2. \A s \in Requests : Task("close", s) = Task("close", r) <=> s = r
    BY TasksDiffer
  <2> QED BY <2>1, <2>2
<1> HIDE DEF told
<1>4. \A s : Waits(s)' => Waits(s) /\ s # r
  <2>1. ToSet(rest) = ToSet(conn.responses) \ {r}
    BY <1>1, LineWithout
  <2> QED BY <1>2, <2>1 DEF Waits
<1> SUFFICES ASSUME NEW s \in Requests PROVE HearsOnce(s)'
  BY DEF HeardOnce
<1>5. HearsOnce(s) /\ HearsOnce(r)
  BY <1>1 DEF HeardOnce
<1>6. CASE s # r \/ res[r].said
  <2>1. Task("close", s) \in due' <=> Task("close", s) \in due
    BY <1>2, <1>3, <1>6
  <2> QED BY <1>1, <1>2, <1>4, <1>5, <2>1, NotHeard
<1>7. CASE s = r /\ ~res[r].said
  <2>1. res[r].closes = 0 /\ r <= conn.sent /\ r \in Nat
    BY <1>1, <1>5, <1>7, Line DEF HearsOnce, Requests
  <2>2. res'[r].closes = 0 /\ ~Waits(r)' /\ ~(r > conn'.sent)
    BY <1>1, <1>2, <1>4, <2>1
  <2> QED BY <1>7, <2>2 DEF HearsOnce
<1> QED BY <1>6, <1>7

\* The response of an upgrade hears it at once, and was never in line.
LEMMA HeardUpgrade ==
  ASSUME IInv, IInv', HeardOnce, OnUpgrade
  PROVE  HeardOnce'
<1> DEFINE r == conn.sent + 1
<1>1. conn \in CType /\ res \in [Requests -> RType] /\ conn.sent \in Nat /\ MaxRequests \in Nat
  BY Types DEF IInv, CType
<1>2. /\ conn'.sent = r /\ conn'.responses = conn.responses /\ due' = due /\ r \in Requests
      /\ res' = [res EXCEPT ![r].over = TRUE, ![r].closes = @ + 1]
  BY <1>1 DEF OnUpgrade, CType, Requests
<1>3. res[r] \in RType
  BY <1>1, <1>2
<1>4. /\ \A s \in Requests : s # r => res'[s] = res[s]
      /\ res'[r].closes = res[r].closes + 1
  BY <1>1, <1>2, <1>3 DEF RType
<1>5. \A s : Waits(s)' <=> Waits(s)
  BY <1>2 DEF Waits
<1> HIDE DEF r
<1> SUFFICES ASSUME NEW s \in Requests PROVE HearsOnce(s)'
  BY DEF HeardOnce
<1>6. HearsOnce(s) /\ s \in Nat
  BY <1>1 DEF HeardOnce, Requests
<1>7. CASE s # r
  <2>1. conn'.sent >= conn.sent
    BY <1>1, <1>2 DEF r
  <2> QED BY <1>2, <1>4, <1>5, <1>6, <1>7, <2>1, NotHeard
<1>8. CASE s = r
  <2>1. s > conn.sent /\ ~(s <= conn.sent) /\ ~(s > conn'.sent)
    BY <1>1, <1>2, <1>8 DEF r
  <2>2. res[s].closes = 0 /\ Task("close", s) \notin due /\ ~Waits(s)
    BY <1>6, <2>1, Line DEF HearsOnce
  <2>3. res'[s].closes = 1
    BY <1>4, <1>8, <2>2
  <2> QED BY <1>2, <1>5, <2>1, <2>2, <2>3 DEF HearsOnce
<1> QED BY <1>7, <1>8

\* The socket's 'close' is heard by those in line that did not hear one.
LEMMA HeardClose ==
  ASSUME IInv, IInv', HeardOnce, OnSocketClose
  PROVE  HeardOnce'
<1>1. res \in [Requests -> RType] /\ conn.sent \in Nat
  BY Types DEF IInv, CType
<1>2. conn' = conn /\ due' = due
  BY DEF OnSocketClose
<1>3. ASSUME NEW s \in Requests
      PROVE  \/ res'[s] = res[s]
             \/ Waits(s) /\ ~res[s].said /\ res'[s] = [res[s] EXCEPT !.said = TRUE, !.closes = @ + 1]
  BY DEF OnSocketClose, Waits
<1> SUFFICES ASSUME NEW s \in Requests PROVE HearsOnce(s)'
  BY DEF HeardOnce
<1>4. HearsOnce(s) /\ (Waits(s)' <=> Waits(s)) /\ res[s] \in RType
  BY <1>1, <1>2 DEF HeardOnce, Waits
<1>5. CASE res'[s] = res[s]
  BY <1>1, <1>2, <1>4, <1>5, NotHeard
<1>6. CASE Waits(s) /\ ~res[s].said /\ res'[s] = [res[s] EXCEPT !.said = TRUE, !.closes = @ + 1]
  <2>1. res[s].closes = 0 /\ Task("close", s) \notin due /\ s <= conn.sent
    BY <1>4, <1>6, Line DEF HearsOnce
  <2>2. res'[s].said /\ res'[s].closes = 1
    BY <1>4, <1>6, <2>1 DEF RType
  <2>3. ~(s > conn'.sent)
    <3>1. s \in Nat
      BY Types DEF IInv
    <3> QED BY <1>1, <1>2, <2>1, <3>1
  <2> QED BY <1>2, <2>1, <2>2, <2>3 DEF HearsOnce
<1> QED BY <1>3, <1>5, <1>6

\* A queued 'close' is emitted once.
LEMMA HeardEmit ==
  ASSUME IInv, IInv', HeardOnce, NEW r \in Requests, EmitClose(r)
  PROVE  HeardOnce'
<1>1. res \in [Requests -> RType] /\ conn.sent \in Nat
  BY Types DEF IInv, CType
<1>2. /\ conn' = conn /\ Task("close", r) \in due /\ due' = due \ {Task("close", r)}
      /\ res' = [res EXCEPT ![r].closes = @ + 1]
  BY DEF EmitClose
<1> SUFFICES ASSUME NEW s \in Requests PROVE HearsOnce(s)'
  BY DEF HeardOnce
<1>4. HearsOnce(s) /\ (Waits(s)' <=> Waits(s)) /\ res[s] \in RType
  BY <1>1, <1>2 DEF HeardOnce, Waits
<1>5. CASE s # r
  <2>1. Task("close", s) \in due' <=> Task("close", s) \in due
    BY <1>2, <1>5, TasksDiffer
  <2>2. res'[s] = res[s]
    BY <1>1, <1>2, <1>5
  <2> QED BY <1>1, <1>2, <1>4, <2>1, <2>2, NotHeard
<1>6. CASE s = r
  <2>1. res[s].closes = 0 /\ ~(s > conn.sent) /\ (Waits(s) => res[s].said)
    BY <1>2, <1>4, <1>6 DEF HearsOnce
  <2>2. res'[s].said = res[s].said /\ res'[s].closes = 1 /\ Task("close", s) \notin due'
    BY <1>1, <1>2, <1>4, <1>6, <2>1 DEF RType
  <2> QED BY <1>2, <1>4, <2>1, <2>2 DEF HearsOnce
<1> QED BY <1>5, <1>6

\* Steps of the program and of the peer that touch a response, but not its events.
LEMMA HeardTouch ==
  ASSUME IInv, IInv', HeardOnce, OnHead \/ \E r \in Requests : Program(r)
  PROVE  HeardOnce'
<1>1. conn \in CType /\ res \in [Requests -> RType] /\ conn.sent \in Nat /\ MaxRequests \in Nat
      /\ conn.responses \in Seq(Nat)
  BY Types, Line DEF IInv, CType
<1>2. CASE OnHead
  <2> DEFINE r == conn.sent + 1
  <2>1. /\ conn'.sent = r /\ conn'.responses = Append(conn.responses, r) /\ due' = due /\ r \in Requests
        /\ \E keep \in BOOLEAN : res' = [res EXCEPT ![r].keep = keep]
    <3>1. conn' = [conn EXCEPT !.sent = r, !.req = r, !.responses = Append(@, r), !.timeout = FALSE, !.timer = FALSE]
      BY <1>2 DEF OnHead
    <3>2. conn'.sent = r /\ conn'.responses = Append(conn.responses, r)
      BY <1>1, <3>1 DEF CType
    <3>3. r \in Requests
      BY <1>1, <1>2 DEF OnHead, Requests
    <3>4. PICK keep \in BOOLEAN : res' = [res EXCEPT ![r].keep = keep /\ ~conn.closing]
      BY <1>2 DEF OnHead
    <3>5. (keep /\ ~conn.closing) \in BOOLEAN
      OBVIOUS
    <3>6. due' = due
      BY <1>2 DEF OnHead
    <3> QED BY <3>2, <3>3, <3>4, <3>5, <3>6
  <2>2. \A s \in Requests : res'[s].closes = res[s].closes /\ res'[s].said = res[s].said
    BY <1>1, <2>1 DEF RType
  <2>3. \A s : Waits(s)' => Waits(s) \/ s = r
    <3>1. InLine /\ r \in Nat
      BY <1>1 DEF IInv
    <3>2. \A i \in 1..Len(conn.responses) : conn.responses[i] < r
      <4>1. \A i \in 1..Len(conn.responses) : conn.responses[i] \in Nat
        BY <1>1
      <4> QED BY <1>1, <3>1, <4>1 DEF InLine
    <3>3. Rising(conn.responses)
      BY <3>1 DEF InLine
    <3>4. ToSet(Append(conn.responses, r)) = ToSet(conn.responses) \union {r}
      BY <1>1, <3>1, <3>2, <3>3, RisingAppend
    <3> QED BY <2>1, <3>4 DEF Waits
  <2>4. r > conn.sent
    BY <1>1
  <2> HIDE DEF r
  <2> SUFFICES ASSUME NEW s \in Requests PROVE HearsOnce(s)'
    BY DEF HeardOnce
  <2>5. conn'.sent >= conn.sent
    BY <1>1, <2>1 DEF r
  <2> QED BY <2>1, <2>2, <2>3, <2>4, <2>5, NotHeard DEF HeardOnce
<1>3. CASE \E r \in Requests : Program(r)
  <2>1. PICK r \in Requests : WriteHead(r) \/ \E part \in Parts : Send(r, part)
    BY <1>3 DEF Program
  <2>2. res[r] \in RType
    BY <1>1
  <2>3. /\ conn' = conn /\ due' \in {due, due \cup {Task("done", r)}}
        /\ \A s \in Requests : s # r => res'[s] = res[s]
        /\ res'[r].closes = res[r].closes /\ res'[r].said = res[r].said
    <3>1. CASE WriteHead(r)
      BY <1>1, <2>2, <3>1 DEF WriteHead, RType
    <3>2. CASE \E part \in Parts : Send(r, part)
      <4>1. PICK part \in Parts : Send(r, part)
        BY <3>2
      <4> DEFINE x == [res[r] EXCEPT !.stored = TRUE, !.after = IF res[r].stored THEN @ ELSE ~res[r].keep \/ conn.closing,
                             !.parts = IF part = "none" THEN @ ELSE @ + 1, !.over = part # "more"]
                 y == [x EXCEPT !.queued = Append(@, part)]
      <4>2. x.closes = res[r].closes /\ x.said = res[r].said /\ y.closes = res[r].closes /\ y.said = res[r].said
        BY <2>2 DEF RType
      <4> HIDE DEF x, y
      <4>3. /\ res' = [res EXCEPT ![r] = x] \/ res' = [res EXCEPT ![r] = y]
            /\ conn' = conn /\ due' \in {due, due \cup {Task("done", r)}}
        BY <4>1 DEF Send, Hand, x, y
      <4> QED BY <1>1, <4>2, <4>3
    <3> QED BY <2>1, <3>1, <3>2
  <2>4. \A s \in Requests : Task("close", s) \in due' <=> Task("close", s) \in due
    BY <2>3, TasksDiffer
  <2>5. \A s : Waits(s)' <=> Waits(s)
    BY <2>3 DEF Waits
  <2> SUFFICES ASSUME NEW s \in Requests PROVE HearsOnce(s)'
    BY DEF HeardOnce
  <2>6. HearsOnce(s) /\ res'[s].closes = res[s].closes /\ res'[s].said = res[s].said
    BY <2>3 DEF HeardOnce
  <2>7. conn'.sent >= conn.sent
    BY <1>1, <2>3
  <2> QED BY <2>4, <2>5, <2>6, <2>7, NotHeard
<1> QED BY <1>2, <1>3

\* Every step.
LEMMA HeardStep ==
  ASSUME IInv, IInv', HeardOnce, [Next]_vars
  PROVE  HeardOnce'
<1>1. CASE Written
  <2>1. CASE Head(flight).last
    <3>1. /\ Finishes(Head(flight).of, Tail(flight), due)
          /\ Done(Head(flight).of, Tail(flight), due)
      BY <1>1, <2>1, LastFinishes DEF Written
    <3> QED BY <3>1, HeardDone
  <2>2. CASE ~Head(flight).last
    BY <1>1, <2>2, HeardQuiet DEF Written
  <2> QED BY <2>1, <2>2
<1>2. CASE AutoEnd \/ Reset \/ OnSocketEnd \/ OnEnd \/ OnError \/ Timeout \/ CloseServer \/ SocketEnds
           \/ UNCHANGED vars
  <2>1. conn \in CType
    BY Types DEF IInv
  <2>2. conn'.responses = conn.responses /\ conn'.sent = conn.sent /\ res' = res
    BY <1>2, <2>1 DEF AutoEnd, Reset, OnSocketEnd, OnEnd, OnError, Timeout, CloseServer, SocketEnds, vars, CType
  <2>3. due' \in {due, due \cup {Task("end", 0)}, due \ {Task("end", 0)}}
    BY <1>2 DEF AutoEnd, Reset, OnSocketEnd, OnEnd, OnError, Timeout, CloseServer, SocketEnds, vars
  <2>4. \A s \in Requests : Task("close", s) \in due' <=> Task("close", s) \in due
    BY <2>3, TasksDiffer
  <2> QED BY <2>2, <2>4, HeardQuiet
<1>3. CASE \E r \in Requests : DoneLater(r)
  <2>1. PICK r \in Requests : DoneLater(r)
    BY <1>3
  <2>2. Finishes(r, flight, due \ {Task("done", r)}) /\ Done(r, flight, due \ {Task("done", r)})
    BY <2>1, LaterFinishes DEF DoneLater
  <2> QED BY <2>2, HeardDone
<1>4. CASE \E r \in Requests : EmitClose(r)
  BY <1>4, HeardEmit
<1>5. CASE OnUpgrade
  BY <1>5, HeardUpgrade
<1>6. CASE OnSocketClose
  BY <1>6, HeardClose
<1>7. CASE OnHead \/ \E r \in Requests : Program(r)
  BY <1>7, HeardTouch
<1> QED BY <1>1, <1>2, <1>3, <1>4, <1>5, <1>6, <1>7 DEF Next, Tasks, Peer

\* No response hears 'close' twice.
THEOREM HttpClosesOnce == Spec => [](\A r \in Requests : res[r].closes <= 1)
<1>1. Init => HeardOnce
  <2> SUFFICES ASSUME Init, NEW r \in Requests PROVE HearsOnce(r)
    BY DEF HeardOnce
  <2>1. res[r] = NoResponse /\ due = {}
    BY DEF Init
  <2> QED BY <2>1 DEF HearsOnce, NoResponse
<1>2. IInv /\ IInv' /\ HeardOnce /\ [Next]_vars => HeardOnce'
  BY HeardStep
<1>3. HeardOnce => \A r \in Requests : res[r].closes <= 1
  BY DEF HeardOnce, HearsOnce
<1> QED BY <1>1, <1>2, <1>3, HttpInvariant, PTL DEF Spec

------------------------------------------------------------------------------
(* Sums, and what frames carry.                                            *)

\* The units that are counted for a sum, and those of one place.
UnitsAt(w, i) == {i} \X (1..w[i])
Units(w) == UNION {UnitsAt(w, i) : i \in DOMAIN w}

\* The units of one place are as many as the number there.
LEMMA UnitsAtCount ==
  ASSUME NEW w, NEW i, w[i] \in Nat
  PROVE  IsFiniteSet(UnitsAt(w, i)) /\ Cardinality(UnitsAt(w, i)) = w[i]
<1> DEFINE B == 1..w[i]
<1>1. IsFiniteSet({i}) /\ Cardinality({i}) = 1
  BY FS_Singleton
<1>2. IsFiniteSet(B) /\ Cardinality(B) = w[i]
  BY SMTT(60), FS_Interval
<1> HIDE DEF B
<1>3. IsFiniteSet({i} \X B) /\ Cardinality({i} \X B) = 1 * w[i]
  BY <1>1, <1>2, FS_Product
<1> QED BY <1>3 DEF UnitsAt, B

\* A sum of natural numbers is one, of finitely many units.
LEMMA TotalNat ==
  ASSUME NEW w \in Seq(Nat)
  PROVE  IsFiniteSet(Units(w)) /\ Total(w) = Cardinality(Units(w)) /\ Total(w) \in Nat
<1> DEFINE D == 1..Len(w)
           U == {UnitsAt(w, i) : i \in D}
           f == [i \in D |-> UnitsAt(w, i)]
<1>1. Len(w) \in Nat /\ DOMAIN w = D /\ \A i \in D : w[i] \in Nat
  OBVIOUS
<1>2. IsFiniteSet(D)
  BY <1>1, FS_Interval
<1>3. f \in Surjection(D, U)
  BY DEF Surjection
<1> HIDE DEF D, U, f
<1>4. IsFiniteSet(U)
  BY <1>2, <1>3, FS_Surjection
<1>5. \A T \in U : IsFiniteSet(T)
  BY <1>1, UnitsAtCount DEF U
<1>6. IsFiniteSet(UNION U)
  BY <1>4, <1>5, FS_UNION
<1>7. UNION U = Units(w)
  BY <1>1 DEF U, Units
<1>8. Total(w) = Cardinality(Units(w))
  BY DEF Total, Units, UnitsAt
<1> QED BY <1>6, <1>7, <1>8, FS_CardinalityType

\* A unit is a place and a number at that place.
LEMMA UnitOf ==
  ASSUME NEW w \in Seq(Nat), NEW u
  PROVE  u \in Units(w) <=> \E i \in 1..Len(w), j \in Nat : u = <<i, j>> /\ j >= 1 /\ j <= w[i]
<1>1. Len(w) \in Nat /\ DOMAIN w = 1..Len(w) /\ \A i \in 1..Len(w) : w[i] \in Nat
  OBVIOUS
<1>2. ASSUME u \in Units(w) PROVE \E i \in 1..Len(w), j \in Nat : u = <<i, j>> /\ j >= 1 /\ j <= w[i]
  <2>1. PICK i \in 1..Len(w) : u \in {i} \X (1..w[i])
    BY <1>1, <1>2 DEF Units, UnitsAt
  <2>2. PICK j \in 1..w[i] : u = <<i, j>>
    BY <2>1
  <2> QED BY <1>1, <2>2
<1>3. ASSUME NEW i \in 1..Len(w), NEW j \in Nat, u = <<i, j>>, j >= 1, j <= w[i] PROVE u \in Units(w)
  <2>1. j \in 1..w[i]
    BY <1>1, <1>3
  <2>2. u \in UnitsAt(w, i)
    BY <1>3, <2>1 DEF UnitsAt
  <2> QED BY <1>1, <2>2 DEF Units
<1> QED BY <1>2, <1>3

\* Nothing but zeros adds up to zero.
LEMMA TotalNone ==
  ASSUME NEW w \in Seq(Nat), \A i \in 1..Len(w) : w[i] = 0
  PROVE  Total(w) = 0
<1>1. \A u : u \notin Units(w)
  BY UnitOf
<1>2. Units(w) = {}
  BY <1>1
<1> QED BY <1>2, TotalNat, FS_EmptySet

\* Only one of the numbers that are joined counts.
LEMMA TotalJoin ==
  ASSUME NEW w \in Seq(Nat), NEW e \in Seq(Nat), NEW v \in Seq(Nat), Len(v) = Len(w) + Len(e),
         \A i \in 1..Len(w) : v[i] = w[i], \A i \in 1..Len(e) : v[Len(w) + i] = e[i],
         NEW k \in 1..Len(e), \A j \in 1..Len(e) : j # k => e[j] = 0
  PROVE  Total(v) = Total(w) + e[k]
<1> DEFINE n == Len(w) + k
<1>0. Len(w) \in Nat /\ Len(e) \in Nat /\ k \in Nat /\ k >= 1 /\ k <= Len(e)
  OBVIOUS
<1>1. /\ Len(w) \in Nat /\ Len(e) \in Nat /\ k \in Nat /\ k >= 1
      /\ \A i \in 1..Len(w) : v[i] = w[i] /\ w[i] \in Nat
      /\ \A i \in 1..Len(e) : v[Len(w) + i] = e[i] /\ e[i] \in Nat
  BY <1>0, ElementOfSeq
<1>2. n \in 1..Len(v) /\ v[n] = e[k] /\ v[n] \in Nat /\ n > Len(w)
  BY <1>1
<1>3. \A i \in 1..Len(v) : i \in 1..Len(w) \/ i = n \/ v[i] = 0
  <2> SUFFICES ASSUME NEW i \in 1..Len(v), i \notin 1..Len(w), i # n PROVE v[i] = 0
    OBVIOUS
  <2>1. i - Len(w) \in 1..Len(e) /\ i - Len(w) # k /\ Len(w) + (i - Len(w)) = i
    BY <1>1
  <2> QED BY <1>1, <2>1
<1> HIDE DEF n
<1>4. Units(v) = Units(w) \union UnitsAt(v, n)
  <2>1. ASSUME NEW u \in Units(v) PROVE u \in Units(w) \/ u \in UnitsAt(v, n)
    <3>1. PICK i \in 1..Len(v), j \in Nat : u = <<i, j>> /\ j >= 1 /\ j <= v[i]
      BY <1>1, UnitOf
    <3>2. CASE i \in 1..Len(w)
      BY <1>1, <3>1, <3>2, UnitOf
    <3>3. CASE i = n
      <4>1. j \in 1..v[n]
        BY <1>2, <3>1, <3>3
      <4> QED BY <3>1, <3>3, <4>1 DEF UnitsAt
    <3>4. CASE v[i] = 0
      BY <3>1, <3>4
    <3> QED BY <1>3, <3>2, <3>3, <3>4
  <2>2. ASSUME NEW u \in Units(w) PROVE u \in Units(v)
    <3>1. PICK i \in 1..Len(w), j \in Nat : u = <<i, j>> /\ j >= 1 /\ j <= w[i]
      BY UnitOf
    <3>2. i \in 1..Len(v) /\ v[i] = w[i]
      BY <1>1
    <3> QED BY <1>1, <3>1, <3>2, UnitOf
  <2>3. UnitsAt(v, n) \subseteq Units(v)
    BY <1>1, <1>2 DEF Units
  <2> QED BY <2>1, <2>2, <2>3
<1>5. Units(w) \cap UnitsAt(v, n) = {}
  <2>1. ASSUME NEW u \in Units(w), u \in UnitsAt(v, n) PROVE FALSE
    <3>1. PICK i \in 1..Len(w), j \in Nat : u = <<i, j>>
      BY UnitOf
    <3>2. u[1] = n
      BY <2>1 DEF UnitsAt
    <3> QED BY <1>1, <1>2, <3>1, <3>2
  <2> QED BY <2>1
<1>6. IsFiniteSet(Units(w)) /\ IsFiniteSet(UnitsAt(v, n)) /\ Cardinality(UnitsAt(v, n)) = e[k]
      /\ Total(w) = Cardinality(Units(w)) /\ Total(w) \in Nat /\ Total(v) = Cardinality(Units(v)) /\ e[k] \in Nat
  BY <1>1, <1>2, TotalNat, UnitsAtCount
<1> DEFINE A == Units(w)
           B == UnitsAt(v, n)
<1>7. Cardinality(Units(v)) = Cardinality(Units(w)) + Cardinality(UnitsAt(v, n)) - Cardinality({})
  <2>1. IsFiniteSet(A) /\ IsFiniteSet(B) /\ A \cap B = {} /\ Units(v) = A \union B
    BY <1>4, <1>5, <1>6
  <2> HIDE DEF A, B
  <2>2. Cardinality(A \cup B) = Cardinality(A) + Cardinality(B) - Cardinality(A \cap B)
    BY <2>1, FS_Union
  <2> QED BY <2>1, <2>2 DEF A, B
<1>8. Cardinality({}) = 0
  BY FS_EmptySet
<1> QED BY <1>6, <1>7, <1>8

\* A sum is its first number and the sum of the rest.
LEMMA TotalTail ==
  ASSUME NEW w \in Seq(Nat), NEW t \in Seq(Nat), Len(w) = Len(t) + 1, \A i \in 1..Len(t) : t[i] = w[i + 1]
  PROVE  Total(w) = w[1] + Total(t)
<1> DEFINE R == {u \in Units(w) : u[1] # 1}
           f == [u \in Units(t) |-> <<u[1] + 1, u[2]>>]
<1>1. /\ Len(w) \in Nat /\ Len(w) >= 1 /\ Len(t) \in Nat
      /\ \A i \in 1..Len(t) : t[i] = w[i + 1] /\ i + 1 \in 1..Len(w)
      /\ \A i \in 1..Len(w) : w[i] \in Nat
  BY SMTT(60)
<1>2. Units(w) = UnitsAt(w, 1) \union R /\ UnitsAt(w, 1) \cap R = {}
  <2>1. UnitsAt(w, 1) \subseteq Units(w)
    <3>1. 1 \in DOMAIN w
      BY <1>1
    <3> QED BY <3>1 DEF Units
  <2>2. \A u \in UnitsAt(w, 1) : u[1] = 1
    BY DEF UnitsAt
  <2>3. ASSUME NEW u \in Units(w), u[1] = 1 PROVE u \in UnitsAt(w, 1)
    <3>1. PICK i \in 1..Len(w), j \in Nat : u = <<i, j>> /\ j >= 1 /\ j <= w[i]
      BY UnitOf
    <3>2. i = 1 /\ j \in 1..w[1]
      BY <1>1, <2>3, <3>1
    <3> QED BY <3>1, <3>2 DEF UnitsAt
  <2> QED BY <2>1, <2>2, <2>3
<1>3. f \in Bijection(Units(t), R)
  <2>1. \A u \in Units(t) : u[1] \in Nat /\ u[1] >= 1 /\ u = <<u[1], u[2]>> /\ f[u] \in R
    <3> SUFFICES ASSUME NEW u \in Units(t)
                 PROVE  u[1] \in Nat /\ u[1] >= 1 /\ u = <<u[1], u[2]>> /\ f[u] \in R
      OBVIOUS
    <3>1. PICK i \in 1..Len(t), j \in Nat : u = <<i, j>> /\ j >= 1 /\ j <= t[i]
      BY <1>1, UnitOf
    <3>2. i + 1 \in 1..Len(w) /\ w[i + 1] = t[i] /\ i \in Nat /\ i + 1 # 1
      BY <1>1
    <3>3. f[u] = <<i + 1, j>>
      BY <3>1
    <3>4. f[u] \in Units(w)
      BY <3>1, <3>2, <3>3, UnitOf
    <3> QED BY <1>1, <3>1, <3>2, <3>3, <3>4
  <2>2. \A u, v \in Units(t) : f[u] = f[v] => u = v
    <3> SUFFICES ASSUME NEW u \in Units(t), NEW v \in Units(t), f[u] = f[v] PROVE u = v
      OBVIOUS
    <3>1. u[1] + 1 = v[1] + 1 /\ u[2] = v[2]
      OBVIOUS
    <3>2. u[1] = v[1]
      BY SMTT(60), <2>1, <3>1
    <3> QED BY <2>1, <3>1, <3>2
  <2>3. \A y \in R : \E u \in Units(t) : f[u] = y
    <3> SUFFICES ASSUME NEW y \in R PROVE \E u \in Units(t) : f[u] = y
      OBVIOUS
    <3>1. PICK i \in 1..Len(w), j \in Nat : y = <<i, j>> /\ j >= 1 /\ j <= w[i]
      BY UnitOf
    <3>2. i # 1
      BY <3>1
    <3>3. i - 1 \in 1..Len(t) /\ (i - 1) + 1 = i
      BY <1>1, <3>2
    <3>4. t[i - 1] = w[i]
      BY <1>1, <3>3
    <3>5. <<i - 1, j>> \in Units(t)
      BY <1>1, <3>1, <3>3, <3>4, UnitOf
    <3>6. f[<<i - 1, j>>] = <<i, j>>
      BY <3>3, <3>5
    <3> QED BY <3>1, <3>5, <3>6
  <2>4. f \in [Units(t) -> R]
    BY <2>1
  <2> HIDE DEF f, R
  <2>5. f \in Injection(Units(t), R) /\ f \in Surjection(Units(t), R)
    BY <2>2, <2>3, <2>4 DEF Injection, Surjection, IsInjective
  <2> QED BY <2>5 DEF Bijection
<1>4. IsFiniteSet(Units(t)) /\ Total(t) = Cardinality(Units(t)) /\ Total(t) \in Nat /\ Total(w) = Cardinality(Units(w))
  BY <1>1, TotalNat
<1>5. IsFiniteSet(R) /\ Cardinality(R) = Total(t)
  BY <1>3, <1>4, FS_Bijection DEF ExistsBijection
<1>6. w[1] \in Nat
  BY <1>1
<1>7. IsFiniteSet(UnitsAt(w, 1)) /\ Cardinality(UnitsAt(w, 1)) = w[1]
  BY <1>6, UnitsAtCount
<1> HIDE DEF R
<1>8. Cardinality(Units(w)) = Cardinality(UnitsAt(w, 1)) + Cardinality(R) - Cardinality({})
  BY ZenonT(60), <1>2, <1>5, <1>7, FS_Union
<1>9. Cardinality({}) = 0
  BY FS_EmptySet
<1> QED BY <1>4, <1>5, <1>6, <1>7, <1>8, <1>9

\* The sum of a beginning is no larger.
LEMMA TotalPrefix ==
  ASSUME NEW w \in Seq(Nat), NEW v \in Seq(Nat), Len(v) <= Len(w), \A i \in 1..Len(v) : v[i] = w[i]
  PROVE  Total(v) <= Total(w)
<1>1. Len(w) \in Nat /\ Len(v) \in Nat
  OBVIOUS
<1>2. \A i \in 1..Len(v) : i \in 1..Len(w)
  BY <1>1
<1>3. Units(v) \subseteq Units(w)
  <2> SUFFICES ASSUME NEW u \in Units(v) PROVE u \in Units(w)
    OBVIOUS
  <2>1. PICK i \in 1..Len(v), j \in Nat : u = <<i, j>> /\ j >= 1 /\ j <= v[i]
    BY UnitOf
  <2> QED BY <1>2, <2>1, UnitOf
<1> QED BY <1>3, TotalNat, FS_Subset

\* What the frames of a queue weigh: what they carry, or one for each of a type.
Carries(q, type, S) == [i \in DOMAIN q |-> IF q[i].type = type /\ q[i].of \in S THEN q[i].n ELSE 0]
Marks(q, type) == [i \in DOMAIN q |-> IF q[i].type = type THEN 1 ELSE 0]
NumOf(q, type) == Total(Marks(q, type))

\* What each frame carries.
LEMMA CarriesType ==
  ASSUME NEW q \in Seq(Frames), NEW type, NEW S
  PROVE  /\ Carries(q, type, S) \in Seq(Nat) /\ Len(Carries(q, type, S)) = Len(q)
         /\ \A i \in 1..Len(q) : Carries(q, type, S)[i] = IF q[i].type = type /\ q[i].of \in S THEN q[i].n ELSE 0
         /\ Carried(q, type, S) = Total(Carries(q, type, S))
<1>1. Len(q) \in Nat /\ DOMAIN q = 1..Len(q) /\ \A i \in 1..Len(q) : q[i] \in Frames
  OBVIOUS
<1>2. \A i \in 1..Len(q) : q[i].n \in Nat
  BY <1>1 DEF Frames
<1>3. Carries(q, type, S) = [i \in 1..Len(q) |-> IF q[i].type = type /\ q[i].of \in S THEN q[i].n ELSE 0]
  BY <1>1 DEF Carries
<1>4. Carries(q, type, S) \in Seq(Nat) /\ Len(Carries(q, type, S)) = Len(q)
  BY <1>1, <1>2, <1>3
<1>5. Carried(q, type, S) = Total(Carries(q, type, S))
  BY DEF Carried, Carries
<1> QED BY <1>3, <1>4, <1>5

\* Which frames are of a type.
LEMMA MarksType ==
  ASSUME NEW q \in Seq(Frames), NEW type
  PROVE  /\ Marks(q, type) \in Seq(Nat) /\ Len(Marks(q, type)) = Len(q)
         /\ \A i \in 1..Len(q) : Marks(q, type)[i] = IF q[i].type = type THEN 1 ELSE 0
         /\ NumOf(q, type) = Total(Marks(q, type))
<1>1. Len(q) \in Nat /\ DOMAIN q = 1..Len(q)
  OBVIOUS
<1>2. Marks(q, type) = [i \in 1..Len(q) |-> IF q[i].type = type THEN 1 ELSE 0]
  BY <1>1 DEF Marks
<1>3. Marks(q, type) \in Seq(Nat) /\ Len(Marks(q, type)) = Len(q)
  BY <1>1, <1>2
<1> QED BY <1>2, <1>3 DEF NumOf

\* What frames carry is a natural number, and so is how many there are.
LEMMA CarriedNat ==
  ASSUME NEW q \in Seq(Frames), NEW type, NEW S
  PROVE  Carried(q, type, S) \in Nat /\ NumOf(q, type) \in Nat
BY CarriesType, MarksType, TotalNat

\* Frames for other streams carry nothing.
LEMMA CarriedNone ==
  ASSUME NEW q \in Seq(Frames), NEW type, NEW S, \A i \in 1..Len(q) : q[i].type = type => q[i].of \notin S
  PROVE  Carried(q, type, S) = 0
BY CarriesType, TotalNone

\* Only one of the frames that are joined counts.
LEMMA CarriedJoin ==
  ASSUME NEW q \in Seq(Frames), NEW e \in Seq(Frames), NEW type, NEW S, NEW k \in 1..Len(e),
         \A j \in 1..Len(e) : j # k => e[j].type # type
  PROVE  /\ Carried(q \o e, type, S) = Carried(q, type, S) + IF e[k].type = type /\ e[k].of \in S THEN e[k].n ELSE 0
         /\ NumOf(q \o e, type) = NumOf(q, type) + IF e[k].type = type THEN 1 ELSE 0
<1> DEFINE v == q \o e
<1>1. /\ Len(q) \in Nat /\ Len(e) \in Nat /\ v \in Seq(Frames) /\ Len(v) = Len(q) + Len(e)
      /\ \A i \in 1..Len(q) : v[i] = q[i] /\ i \in 1..Len(v)
      /\ \A i \in 1..Len(e) : v[Len(q) + i] = e[i] /\ Len(q) + i \in 1..Len(v)
  OBVIOUS
<1> HIDE DEF v
<1>11. v \in Seq(Frames)
  BY <1>1
<1>2. Carried(v, type, S) = Carried(q, type, S) + IF e[k].type = type /\ e[k].of \in S THEN e[k].n ELSE 0
  <2> DEFINE a == Carries(q, type, S)
             b == Carries(e, type, S)
             c == Carries(v, type, S)
  <2>1. a \in Seq(Nat) /\ Len(a) = Len(q) /\ Carried(q, type, S) = Total(a)
        /\ \A i \in 1..Len(q) : a[i] = IF q[i].type = type /\ q[i].of \in S THEN q[i].n ELSE 0
    BY CarriesType
  <2>2. b \in Seq(Nat) /\ Len(b) = Len(e)
        /\ \A i \in 1..Len(e) : b[i] = IF e[i].type = type /\ e[i].of \in S THEN e[i].n ELSE 0
    BY CarriesType
  <2>3. c \in Seq(Nat) /\ Len(c) = Len(v) /\ Carried(v, type, S) = Total(c)
        /\ \A i \in 1..Len(v) : c[i] = IF v[i].type = type /\ v[i].of \in S THEN v[i].n ELSE 0
    BY <1>11, CarriesType
  <2> HIDE DEF a, b, c
  <2>4. \A i \in 1..Len(a) : c[i] = a[i]
    BY ZenonT(60), <1>1, <2>1, <2>3
  <2>5. \A i \in 1..Len(b) : c[Len(a) + i] = b[i]
    <3> SUFFICES ASSUME NEW i \in 1..Len(e) PROVE c[Len(q) + i] = b[i]
      BY <2>1, <2>2
    <3> DEFINE z == Len(q) + i
    <3>1. z \in 1..Len(v) /\ v[z] = e[i]
      BY <1>1
    <3> HIDE DEF z
    <3>2. c[z] = b[i]
      BY <3>1, <2>2, <2>3
    <3> QED BY <3>2 DEF z
  <2>6. \A j \in 1..Len(b) : j # k => b[j] = 0
    BY <2>2
  <2>7. k \in 1..Len(b) /\ Len(c) = Len(a) + Len(b)
    BY <1>1, <2>1, <2>2, <2>3
  <2>8. Total(c) = Total(a) + b[k]
    BY <2>1, <2>2, <2>3, <2>4, <2>5, <2>6, <2>7, TotalJoin
  <2> QED BY <2>1, <2>2, <2>3, <2>8
<1>3. NumOf(v, type) = NumOf(q, type) + IF e[k].type = type THEN 1 ELSE 0
  <2> DEFINE a == Marks(q, type)
             b == Marks(e, type)
             c == Marks(v, type)
  <2>1. a \in Seq(Nat) /\ Len(a) = Len(q) /\ \A i \in 1..Len(q) : a[i] = IF q[i].type = type THEN 1 ELSE 0
    BY MarksType
  <2>2. b \in Seq(Nat) /\ Len(b) = Len(e) /\ \A i \in 1..Len(e) : b[i] = IF e[i].type = type THEN 1 ELSE 0
    BY MarksType
  <2>3. c \in Seq(Nat) /\ Len(c) = Len(v) /\ \A i \in 1..Len(v) : c[i] = IF v[i].type = type THEN 1 ELSE 0
    BY <1>11, MarksType
  <2> HIDE DEF a, b, c
  <2>4. \A i \in 1..Len(a) : c[i] = a[i]
    BY <1>1, <2>1, <2>3
  <2>5. \A i \in 1..Len(b) : c[Len(a) + i] = b[i]
    <3> SUFFICES ASSUME NEW i \in 1..Len(e) PROVE c[Len(q) + i] = b[i]
      BY <2>1, <2>2
    <3> DEFINE z == Len(q) + i
    <3>1. z \in 1..Len(v) /\ v[z] = e[i]
      BY <1>1
    <3> HIDE DEF z
    <3>2. c[z] = b[i]
      BY <3>1, <2>2, <2>3
    <3> QED BY <3>2 DEF z
  <2>6. \A j \in 1..Len(b) : j # k => b[j] = 0
    BY <2>2
  <2>7. k \in 1..Len(b) /\ Len(c) = Len(a) + Len(b)
    BY <1>1, <2>1, <2>2, <2>3
  <2>8. Total(c) = Total(a) + b[k]
    BY <2>1, <2>2, <2>3, <2>4, <2>5, <2>6, <2>7, TotalJoin
  <2> QED BY <2>2, <2>8, MarksType DEF NumOf, a, b, c
<1> QED BY <1>2, <1>3 DEF v

\* One frame more carries what it carries.
LEMMA CarriedAppend ==
  ASSUME NEW q \in Seq(Frames), NEW f \in Frames, NEW type, NEW S
  PROVE  /\ Carried(Append(q, f), type, S) = Carried(q, type, S) + IF f.type = type /\ f.of \in S THEN f.n ELSE 0
         /\ NumOf(Append(q, f), type) = NumOf(q, type) + IF f.type = type THEN 1 ELSE 0
<1> DEFINE e == <<f>>
<1>1. e \in Seq(Frames) /\ Len(e) = 1 /\ e[1] = f /\ 1 \in 1..Len(e) /\ \A j \in 1..Len(e) : j = 1
  OBVIOUS
<1>2. Append(q, f) = q \o e
  BY AppendIsConcat
<1> HIDE DEF e
<1>4. \A j \in 1..Len(e) : j # 1 => e[j].type # type
  BY <1>1
<1>5. e \in Seq(Frames) /\ 1 \in 1..Len(e)
  BY <1>1
<1>3. /\ Carried(q \o e, type, S) = Carried(q, type, S) + IF e[1].type = type /\ e[1].of \in S THEN e[1].n ELSE 0
      /\ NumOf(q \o e, type) = NumOf(q, type) + IF e[1].type = type THEN 1 ELSE 0
  BY <1>4, <1>5, CarriedJoin
<1> QED BY <1>1, <1>2, <1>3

\* One frame less carries as much less.
LEMMA CarriedTail ==
  ASSUME NEW q \in Seq(Frames), q # <<>>, NEW type, NEW S
  PROVE  LET f == Head(q) IN
         /\ Carried(q, type, S) = (IF f.type = type /\ f.of \in S THEN f.n ELSE 0) + Carried(Tail(q), type, S)
         /\ NumOf(q, type) = (IF f.type = type THEN 1 ELSE 0) + NumOf(Tail(q), type)
<1> DEFINE t == Tail(q)
<1>1. /\ Len(q) \in Nat /\ Len(t) \in Nat /\ t \in Seq(Frames) /\ Len(q) = Len(t) + 1 /\ Head(q) = q[1]
      /\ \A i \in 1..Len(t) : t[i] = q[i + 1] /\ i + 1 \in 1..Len(q)
      /\ 1 \in 1..Len(q)
  OBVIOUS
<1> HIDE DEF t
<1>2. Carried(q, type, S) = (IF q[1].type = type /\ q[1].of \in S THEN q[1].n ELSE 0) + Carried(t, type, S)
  <2> DEFINE a == Carries(q, type, S)
             b == Carries(t, type, S)
  <2>1. a \in Seq(Nat) /\ Len(a) = Len(q) /\ Carried(q, type, S) = Total(a)
        /\ \A i \in 1..Len(q) : a[i] = IF q[i].type = type /\ q[i].of \in S THEN q[i].n ELSE 0
    BY CarriesType
  <2>2. b \in Seq(Nat) /\ Len(b) = Len(t) /\ Carried(t, type, S) = Total(b)
        /\ \A i \in 1..Len(t) : b[i] = IF t[i].type = type /\ t[i].of \in S THEN t[i].n ELSE 0
    BY <1>1, CarriesType
  <2> HIDE DEF a, b
  <2>3. \A i \in 1..Len(b) : b[i] = a[i + 1]
    <3> SUFFICES ASSUME NEW i \in 1..Len(t) PROVE b[i] = a[i + 1]
      BY <2>2
    <3> DEFINE z == i + 1
    <3>1. z \in 1..Len(q) /\ t[i] = q[z]
      BY <1>1
    <3> HIDE DEF z
    <3>2. b[i] = a[z]
      BY <3>1, <2>1, <2>2
    <3> QED BY <3>2 DEF z
  <2>4. Total(a) = a[1] + Total(b)
    <3>1. Len(a) = Len(b) + 1
      BY <1>1, <2>1, <2>2
    <3> QED BY <2>1, <2>2, <2>3, <3>1, TotalTail
  <2> QED BY <1>1, <2>1, <2>2, <2>4
<1>3. NumOf(q, type) = (IF q[1].type = type THEN 1 ELSE 0) + NumOf(t, type)
  <2> DEFINE a == Marks(q, type)
             b == Marks(t, type)
  <2>1. a \in Seq(Nat) /\ Len(a) = Len(q) /\ \A i \in 1..Len(q) : a[i] = IF q[i].type = type THEN 1 ELSE 0
    BY MarksType
  <2>2. b \in Seq(Nat) /\ Len(b) = Len(t) /\ \A i \in 1..Len(t) : b[i] = IF t[i].type = type THEN 1 ELSE 0
    BY <1>1, MarksType
  <2> HIDE DEF a, b
  <2>3. \A i \in 1..Len(b) : b[i] = a[i + 1]
    <3> SUFFICES ASSUME NEW i \in 1..Len(t) PROVE b[i] = a[i + 1]
      BY <2>2
    <3> DEFINE z == i + 1
    <3>1. z \in 1..Len(q) /\ t[i] = q[z]
      BY <1>1
    <3> HIDE DEF z
    <3>2. b[i] = a[z]
      BY <3>1, <2>1, <2>2
    <3> QED BY <3>2 DEF z
  <2>4. Total(a) = a[1] + Total(b)
    <3>1. Len(a) = Len(b) + 1
      BY <1>1, <2>1, <2>2
    <3> QED BY <2>1, <2>2, <2>3, <3>1, TotalTail
  <2>5. a[1] = IF q[1].type = type THEN 1 ELSE 0
    BY <1>1, <2>1
  <2> QED BY <2>4, <2>5 DEF NumOf, a, b
<1> QED BY <1>1, <1>2, <1>3 DEF t

\* The beginning of a queue carries no more than the queue.
LEMMA CarriedPrefix ==
  ASSUME NEW q \in Seq(Frames), NEW k \in 0..Len(q), NEW type, NEW S
  PROVE  LET p == SubSeq(q, 1, k) IN
         /\ p \in Seq(Frames) /\ Len(p) = k /\ (\A i \in 1..k : p[i] = q[i] /\ i \in 1..Len(q))
         /\ Carried(p, type, S) <= Carried(q, type, S) /\ NumOf(p, type) <= NumOf(q, type)
<1> DEFINE p == SubSeq(q, 1, k)
<1>1. /\ p \in Seq(Frames) /\ Len(p) = k /\ (\A i \in 1..k : p[i] = q[i] /\ i \in 1..Len(q))
      /\ Len(q) \in Nat /\ k \in Nat /\ k <= Len(q)
  OBVIOUS
<1> HIDE DEF p
<1>2. Carried(p, type, S) <= Carried(q, type, S)
  <2> DEFINE a == Carries(q, type, S)
             b == Carries(p, type, S)
  <2>1. a \in Seq(Nat) /\ Len(a) = Len(q) /\ Carried(q, type, S) = Total(a)
        /\ \A i \in 1..Len(q) : a[i] = IF q[i].type = type /\ q[i].of \in S THEN q[i].n ELSE 0
    BY CarriesType
  <2>2. b \in Seq(Nat) /\ Len(b) = Len(p) /\ Carried(p, type, S) = Total(b)
        /\ \A i \in 1..Len(p) : b[i] = IF p[i].type = type /\ p[i].of \in S THEN p[i].n ELSE 0
    BY <1>1, CarriesType
  <2> HIDE DEF a, b
  <2>3. (\A i \in 1..Len(b) : b[i] = a[i]) /\ Len(b) <= Len(a)
    BY <1>1, <2>1, <2>2
  <2> QED BY <2>1, <2>2, <2>3, TotalPrefix
<1>3. NumOf(p, type) <= NumOf(q, type)
  <2> DEFINE a == Marks(q, type)
             b == Marks(p, type)
  <2>1. a \in Seq(Nat) /\ Len(a) = Len(q) /\ \A i \in 1..Len(q) : a[i] = IF q[i].type = type THEN 1 ELSE 0
    BY MarksType
  <2>2. b \in Seq(Nat) /\ Len(b) = Len(p) /\ \A i \in 1..Len(p) : b[i] = IF p[i].type = type THEN 1 ELSE 0
    BY <1>1, MarksType
  <2> HIDE DEF a, b
  <2>3. (\A i \in 1..Len(b) : b[i] = a[i]) /\ Len(b) <= Len(a)
    BY <1>1, <2>1, <2>2
  <2>4. Total(b) <= Total(a)
    BY <2>1, <2>2, <2>3, TotalPrefix
  <2> QED BY <2>4 DEF NumOf, a, b
<1> QED BY <1>1, <1>2, <1>3 DEF p

------------------------------------------------------------------------------
(* Queues of frames.                                                       *)

\* The frames of a queue.
In(q) == {q[k] : k \in 1..Len(q)}

\* What is in a queue of frames is a frame.
LEMMA InFrames ==
  ASSUME NEW q \in Seq(Frames)
  PROVE  \A f \in In(q) : f \in Frames
BY ElementOfSeq DEF In

\* What is in a queue with one frame more.
LEMMA InAppend ==
  ASSUME NEW q \in Seq(Frames), NEW f \in Frames
  PROVE  Append(q, f) \in Seq(Frames) /\ In(Append(q, f)) = In(q) \union {f} /\ Len(Append(q, f)) = Len(q) + 1
         /\ Append(q, f)[Len(q) + 1] = f /\ \A k \in 1..Len(q) : Append(q, f)[k] = q[k]
<1> DEFINE v == Append(q, f)
           n == Len(q) + 1
<1>1. v \in Seq(Frames) /\ Len(v) = n /\ v[n] = f /\ (\A k \in 1..Len(q) : v[k] = q[k]) /\ Len(q) \in Nat
  BY AppendProperties
<1>2. 1..Len(v) = 1..Len(q) \union {n}
  BY <1>1
<1> HIDE DEF v, n
<1>3. In(v) = In(q) \union {f}
  BY <1>1, <1>2 DEF In
<1> QED BY <1>1, <1>3 DEF v, n

\* What is in a queue with one frame less.
LEMMA InTail ==
  ASSUME NEW q \in Seq(Frames), q # <<>>
  PROVE  /\ Head(q) = q[1] /\ Head(q) \in Frames /\ Tail(q) \in Seq(Frames) /\ Len(q) = Len(Tail(q)) + 1
         /\ In(q) = {Head(q)} \union In(Tail(q)) /\ Len(Tail(q)) \in Nat
         /\ \A k \in 1..Len(Tail(q)) : Tail(q)[k] = q[k + 1] /\ k + 1 \in 1..Len(q)
         /\ 1 \in 1..Len(q)
<1> DEFINE t == Tail(q)
<1>1. /\ Len(q) \in Nat /\ Len(t) \in Nat /\ t \in Seq(Frames) /\ Len(q) = Len(t) + 1 /\ Head(q) = q[1] /\ q[1] \in Frames
      /\ \A k \in 1..Len(t) : t[k] = q[k + 1] /\ k + 1 \in 1..Len(q)
      /\ \A k \in 1..Len(q) : k = 1 \/ (k - 1 \in 1..Len(t) /\ q[k] = t[k - 1])
      /\ 1 \in 1..Len(q)
  OBVIOUS
<1> HIDE DEF t
<1>2. In(q) \subseteq {q[1]} \union In(t)
  <2> SUFFICES ASSUME NEW k \in 1..Len(q), k # 1 PROVE q[k] \in In(t)
    BY DEF In
  <2> DEFINE z == k - 1
  <2>1. z \in 1..Len(t) /\ q[k] = t[z]
    BY <1>1
  <2> HIDE DEF z
  <2> QED BY <2>1 DEF In
<1>3. In(t) \subseteq In(q)
  <2> SUFFICES ASSUME NEW k \in 1..Len(t) PROVE t[k] \in In(q)
    BY DEF In
  <2> DEFINE z == k + 1
  <2>1. z \in 1..Len(q) /\ t[k] = q[z]
    BY <1>1
  <2> HIDE DEF z
  <2> QED BY <2>1 DEF In
<1>4. q[1] \in In(q)
  BY <1>1 DEF In
<1> QED BY <1>1, <1>2, <1>3, <1>4 DEF t

\* What is in the beginning of a queue.
LEMMA InPrefix ==
  ASSUME NEW q \in Seq(Frames), NEW k \in 0..Len(q)
  PROVE  SubSeq(q, 1, k) \in Seq(Frames) /\ In(SubSeq(q, 1, k)) \subseteq In(q)
BY CarriedPrefix DEF In

------------------------------------------------------------------------------
(* The invariant, of a state that is given by its parts: the server's      *)
(* streams o and session v, the client's streams i and session c, what is  *)
(* under way to the client (q) and to the server (p), and the bodies b.    *)

\* The types of Http2TypeOK, of one stream or session.
OutType == [ph : {"none", "open", "closed"}, win : Int, todo : Nat, chunk : Nat,
          end : BOOLEAN, local : BOOLEAN, queued : BOOLEAN]
ServerType == [win : Nat, initial : Nat, last : 0..MaxStreams, goaway : BOOLEAN, closing : BOOLEAN,
          gone : BOOLEAN, cut : BOOLEAN, pumping : BOOLEAN, drain : BOOLEAN]
InType == [ph : {"none", "open", "done", "reset", "cut", "overrun", "refused", "lost"},
          win : Int, credit : Nat, unread : Nat, got : Nat]
ClientType == [win : Nat, unacked : Nat, local : Nat, pending : Seq(Nat), asked : 0..MaxSettings,
          opened : 0..MaxStreams, goaway : BOOLEAN, closing : BOOLEAN, gone : BOOLEAN]

\* All of them.
Typed(o, v, i, c, q, p, b) ==
  /\ o \in [Streams -> OutType] /\ v \in ServerType /\ i \in [Streams -> InType] /\ c \in ClientType
  /\ q \in Seq(Frames) /\ p \in Seq(Frames) /\ b \in [Streams -> Bodies]

\* A server that takes no more streams.
Turned(v) == v.closing \/ v.goaway

\* One stream at both ends.
StreamStands(s, o, v, i, c, b) ==
  /\ o[s].ph = "none" => /\ o[s].chunk = 0 /\ o[s].todo = 0 /\ ~o[s].end /\ ~o[s].local /\ ~o[s].queued
                         /\ i[s].got = 0 /\ i[s].unread = 0 /\ i[s].credit = 0
  /\ o[s].ph # "none" => s <= v.last
  /\ o[s].ph # "open" => o[s].chunk = 0
  /\ o[s].end /\ ~o[s].local => o[s].ph = "open" /\ o[s].todo = 0 /\ o[s].chunk = 0
  /\ i[s].ph = "none" <=> s > c.opened
  /\ i[s].ph = "refused" => Turned(v) /\ o[s].ph = "none"
  /\ i[s].ph = "lost" => v.cut
  /\ i[s].ph = "done" => i[s].got = b[s]

\* Every stream.
StreamsStand(o, v, i, c, b) == \A s \in Streams : StreamStands(s, o, v, i, c, b)

\* No stream is open at one end.
NoneOpen(x) == \A s \in Streams : x[s].ph # "open"

\* The ends of the two sessions.
Sessions(o, v, i, c) ==
  /\ v.last <= c.opened
  /\ v.gone => NoneOpen(o)
  /\ c.gone => NoneOpen(i)
  /\ v.gone /\ ~v.cut /\ ~c.gone => v.closing

\* A frame on its way to the client, and one on its way to the server.
ToClient(f, o, v) ==
  /\ f.type \in {"data", "ack", "rst", "refused", "goaway", "fin"}
  /\ f.type \in {"data", "rst"} => f.of \in Streams /\ o[f.of].ph # "none"
  /\ f.type = "refused" => f.of \in Streams /\ Turned(v) /\ o[f.of].ph = "none"
  /\ f.type = "goaway" => Turned(v) /\ \A s \in Streams : s > f.of => o[s].ph = "none"
  /\ f.type = "fin" => v.gone

ToServer(f, o, v, i, c) ==
  /\ f.type \in {"settings", "headers", "update", "rst", "goaway", "fin"}
  /\ f.type = "headers" => f.of \in Streams /\ f.of > v.last /\ f.of <= c.opened
  /\ f.type = "rst" => f.of \in Streams /\ i[f.of].ph \notin {"none", "open"}
  /\ f.type = "update" /\ f.of # 0 => f.of \in Streams /\ o[f.of].ph # "none"
  /\ f.type = "goaway" => c.closing \/ c.gone
  /\ f.type = "fin" => c.gone

\* All that is on its way.
Wires(o, v, i, c, q, p) ==
  /\ \A f \in In(q) : ToClient(f, o, v)
  /\ \A f \in In(p) : ToServer(f, o, v, i, c)

\* Requests come in the order of their streams and none after the client's GOAWAY; nothing
\* comes after the end of the server's session.
InTurn(q, p) ==
  /\ \A j, k \in 1..Len(p) : j < k =>
       /\ p[j].type = "headers" /\ p[k].type = "headers" => p[j].of < p[k].of
       /\ p[j].type = "goaway" => p[k].type # "headers"
  /\ \A j, k \in 1..Len(q) : j < k => q[j].type # "fin"

\* The window of the connection.
ConnAgrees(v, c, q, p) ==
  ~c.gone =>
    /\ v.gone => c.win >= Carried(q, "data", Streams)
    /\ ~v.gone => c.win = v.win + Carried(q, "data", Streams) + Carried(p, "update", {0})

\* SETTINGS and their acknowledgements.
Acked(v, c, q, p) ==
  ~c.gone =>
    /\ v.gone => NumOf(q, "ack") <= Len(c.pending)
    /\ ~v.gone => Len(c.pending) = NumOf(p, "settings") + NumOf(q, "ack")

\* The initial window the client asked for last, acknowledged or not.
LastAsked(c) == IF c.pending = <<>> THEN c.local ELSE c.pending[Len(c.pending)]

\* The last initial window the client asked for is the one the server has or will have.
Asked(v, c, p) ==
  ~c.gone /\ ~v.gone =>
    /\ (\A f \in In(p) : f.type # "settings") => v.initial = LastAsked(c)
    /\ \A k \in 1..Len(p) :
         p[k].type = "settings" /\ (\A j \in 1..Len(p) : j > k => p[j].type # "settings") => p[k].n = LastAsked(c)

\* The window of a stream that is open at the client.
StreamAgrees(s, o, i, c, q, p) ==
  Settled /\ i[s].ph = "open" =>
    /\ c.pending = <<>>
    /\ o[s].ph = "none" => i[s].win = c.local
    /\ o[s].ph = "open" => i[s].win = o[s].win + Carried(q, "data", {s}) + Carried(p, "update", {s})

\* Every window of a stream.
StreamsAgree(o, i, c, q, p) == \A s \in Streams : StreamAgrees(s, o, i, c, q, p)

\* The DATA frame that ends stream s.
EndFrame(f, s) == f.type = "data" /\ f.of = s /\ f.end

\* The bytes of a body: received, under way, or still to be sent; before its end is all of it.
BytesOf(s, o, i, q, b) ==
  i[s].ph = "open" =>
    /\ o[s].ph = "open" => b[s] = i[s].got + Carried(q, "data", {s}) + o[s].chunk + o[s].todo
    /\ \A k \in 1..Len(q) : EndFrame(q[k], s) => b[s] = i[s].got + Carried(SubSeq(q, 1, k), "data", {s})

\* The bytes of every body.
Bytes(o, i, q, b) == \A s \in Streams : BytesOf(s, o, i, q, b)

\* Frames after which stream s is not open at the client.
Ending(f, s) ==
  \/ EndFrame(f, s)
  \/ f.type \in {"rst", "refused"} /\ f.of = s
  \/ f.type = "goaway" /\ f.of < s

\* Such a frame is on its way.
EndComes(q, s) == \E f \in In(q) : Ending(f, s)

\* A request is on its way.
Asks(p, s) == \E f \in In(p) : f.type = "headers" /\ f.of = s

\* A stream that is open at the client is known to the server, will be, or its end is under way.
StreamsEnd(o, v, i, c, q, p) ==
  ~v.cut /\ ~c.gone => \A s \in Streams : i[s].ph = "open" =>
    \/ EndComes(q, s)
    \/ ~v.gone /\ (o[s].ph = "open" \/ Asks(p, s))

\* A client that was or will be told that the server takes no more streams opens none.
Told(v, i, c, q, p) ==
  /\ v.goaway /\ ~v.cut /\ ~c.gone =>
       \/ \E f \in In(q) : f.type = "goaway" /\ f.of <= v.last
       \/ c.closing /\ \A s \in Streams : s > v.last => i[s].ph # "open"
  /\ v.closing /\ ~v.goaway /\ ~c.gone => c.closing /\ \A f \in In(p) : f.type # "headers"

\* The invariant: what both ends hold and what is on its way fit together.
Inv(o, v, i, c, q, p, b) ==
  /\ Typed(o, v, i, c, q, p, b) /\ StreamsStand(o, v, i, c, b) /\ Sessions(o, v, i, c)
  /\ Wires(o, v, i, c, q, p) /\ InTurn(q, p) /\ ConnAgrees(v, c, q, p) /\ Acked(v, c, q, p) /\ Asked(v, c, p)
  /\ StreamsAgree(o, i, c, q, p) /\ Bytes(o, i, q, b) /\ StreamsEnd(o, v, i, c, q, p) /\ Told(v, i, c, q, p)

------------------------------------------------------------------------------
(* Changes of one end that leave the queues alone.                         *)

\* What the invariant looks at in the server's session.
SameSession(v, w) ==
  /\ w \in ServerType /\ w.win = v.win /\ w.initial = v.initial /\ w.last = v.last /\ w.goaway = v.goaway
  /\ w.closing = v.closing /\ w.gone = v.gone /\ w.cut = v.cut

\* The pump's flags do not matter.
LEMMA Flags ==
  ASSUME NEW o, NEW v, NEW i, NEW c, NEW q, NEW p, NEW b, Inv(o, v, i, c, q, p, b), NEW w, SameSession(v, w)
  PROVE  Inv(o, w, i, c, q, p, b)
<1>1. Typed(o, w, i, c, q, p, b)
  BY DEF Inv, Typed, SameSession
<1>2. StreamsStand(o, w, i, c, b)
  BY DEF Inv, StreamsStand, StreamStands, SameSession, Turned
<1>3. Sessions(o, w, i, c)
  BY DEF Inv, Sessions, SameSession
<1>4. Wires(o, w, i, c, q, p)
  BY DEF Inv, Wires, ToClient, ToServer, SameSession, Turned
<1>5. ConnAgrees(w, c, q, p) /\ Acked(w, c, q, p) /\ Asked(w, c, p)
  BY DEF Inv, ConnAgrees, Acked, Asked, SameSession
<1>6. StreamsEnd(o, w, i, c, q, p)
  BY DEF Inv, StreamsEnd, SameSession
<1>7. Told(w, i, c, q, p)
  BY DEF Inv, Told, SameSession
<1> QED BY <1>1, <1>2, <1>3, <1>4, <1>5, <1>6, <1>7 DEF Inv

\* The server's program and the pump's queue: what a stream has to send, and its end.
LEMMA Work ==
  ASSUME NEW o, NEW v, NEW i, NEW c, NEW q, NEW p, NEW b, Inv(o, v, i, c, q, p, b), NEW x \in [Streams -> OutType],
         \A s \in Streams :
           \/ x[s] = o[s]
           \/ /\ x[s].ph = o[s].ph /\ x[s].win = o[s].win /\ x[s].local = o[s].local /\ x[s].end = o[s].end
              /\ x[s].chunk = o[s].chunk /\ x[s].todo = o[s].todo /\ (x[s].queued => o[s].queued)
           \/ /\ x[s].ph = o[s].ph /\ x[s].win = o[s].win /\ x[s].local = o[s].local /\ x[s].end = o[s].end
              /\ o[s].ph = "open" /\ o[s].todo # 0 /\ x[s].chunk + x[s].todo = o[s].chunk + o[s].todo
           \/ /\ x[s].ph = o[s].ph /\ x[s].win = o[s].win /\ x[s].local = o[s].local /\ x[s].chunk = o[s].chunk
              /\ x[s].todo = o[s].todo /\ o[s].ph = "open" /\ o[s].todo = 0 /\ o[s].chunk = 0
  PROVE  Inv(x, v, i, c, q, p, b)
<1>0. Typed(o, v, i, c, q, p, b)
  BY DEF Inv
<1>1. Typed(x, v, i, c, q, p, b)
  BY DEF Inv, Typed
<1>2. \A s \in Streams : x[s].ph = o[s].ph /\ x[s].win = o[s].win
                         /\ x[s].chunk + x[s].todo = o[s].chunk + o[s].todo
  OBVIOUS
<1>3. StreamsStand(x, v, i, c, b)
  <2> SUFFICES ASSUME NEW s \in Streams PROVE StreamStands(s, x, v, i, c, b)
    BY DEF StreamsStand
  <2>1. StreamStands(s, o, v, i, c, b)
    BY DEF Inv, StreamsStand
  <2>2. o[s] \in OutType /\ x[s] \in OutType
    BY <1>0 DEF Typed
  <2> QED BY <2>1, <2>2 DEF StreamStands, OutType
<1>4. Sessions(x, v, i, c)
  BY <1>2 DEF Inv, Sessions, NoneOpen
<1>5. Wires(x, v, i, c, q, p)
  BY <1>2 DEF Inv, Wires, ToClient, ToServer
<1>6. StreamsAgree(x, i, c, q, p)
  BY <1>2 DEF Inv, StreamsAgree, StreamAgrees
<1>7. Bytes(x, i, q, b)
  <2> SUFFICES ASSUME NEW s \in Streams PROVE BytesOf(s, x, i, q, b)
    BY DEF Bytes
  <2>1. BytesOf(s, o, i, q, b)
    BY DEF Inv, Bytes
  <2>2. o[s] \in OutType /\ x[s] \in OutType /\ i[s] \in InType /\ Carried(q, "data", {s}) \in Nat
    BY <1>0, CarriedNat DEF Typed
  <2>3. /\ o[s].chunk \in Nat /\ o[s].todo \in Nat /\ x[s].chunk \in Nat /\ x[s].todo \in Nat /\ i[s].got \in Nat
        /\ x[s].ph = o[s].ph /\ x[s].chunk + x[s].todo = o[s].chunk + o[s].todo
    BY <1>2, <2>2 DEF OutType, InType
  <2>4. i[s].got + Carried(q, "data", {s}) + o[s].chunk + o[s].todo
          = i[s].got + Carried(q, "data", {s}) + x[s].chunk + x[s].todo
    BY <2>2, <2>3
  <2> QED BY <2>1, <2>3, <2>4 DEF BytesOf
<1>8. StreamsEnd(x, v, i, c, q, p)
  BY <1>2 DEF Inv, StreamsEnd
<1> QED BY <1>1, <1>3, <1>4, <1>5, <1>6, <1>7, <1>8 DEF Inv

\* Streams that were open at the client are not any more.
LEMMA Stop ==
  ASSUME NEW o, NEW v, NEW i, NEW c, NEW q, NEW p, NEW b, Inv(o, v, i, c, q, p, b), NEW x \in [Streams -> InType],
         \A s \in Streams :
           \/ x[s] = i[s]
           \/ /\ i[s].ph = "open" /\ x[s].ph \notin {"none", "open"} /\ x[s].got = i[s].got
              /\ x[s].unread = i[s].unread /\ x[s].credit = i[s].credit
              /\ x[s].ph = "refused" => Turned(v) /\ o[s].ph = "none"
              /\ x[s].ph = "lost" => v.cut
              /\ x[s].ph = "done" => i[s].got = b[s]
  PROVE  Inv(o, v, x, c, q, p, b)
<1>1. Typed(o, v, x, c, q, p, b)
  BY DEF Inv, Typed
<1>2. \A s \in Streams : x[s].ph = "open" => x[s] = i[s]
  OBVIOUS
<1>3. StreamsStand(o, v, x, c, b)
  <2> SUFFICES ASSUME NEW s \in Streams PROVE StreamStands(s, o, v, x, c, b)
    BY DEF StreamsStand
  <2>1. StreamStands(s, o, v, i, c, b)
    BY DEF Inv, StreamsStand
  <2> QED BY <2>1 DEF StreamStands
<1>4. Sessions(o, v, x, c)
  BY <1>2 DEF Inv, Sessions, NoneOpen
<1>5. Wires(o, v, x, c, q, p)
  <2>1. \A s \in Streams : i[s].ph \notin {"none", "open"} => x[s].ph \notin {"none", "open"}
    OBVIOUS
  <2> QED BY <2>1 DEF Inv, Wires, ToServer
<1>6. StreamsAgree(o, x, c, q, p)
  BY <1>2 DEF Inv, StreamsAgree, StreamAgrees
<1>7. Bytes(o, x, q, b)
  BY ZenonT(60), <1>2 DEF Inv, Bytes, BytesOf
<1>8. StreamsEnd(o, v, x, c, q, p)
  BY <1>2 DEF Inv, StreamsEnd
<1>9. Told(v, x, c, q, p)
  BY <1>2 DEF Inv, Told
<1> QED BY <1>1, <1>3, <1>4, <1>5, <1>6, <1>7, <1>8, <1>9 DEF Inv

\* Streams close at the server: their ends are on the way, or nobody waits for them.
LEMMA CloseOut ==
  ASSUME NEW o, NEW v, NEW i, NEW c, NEW q, NEW p, NEW b, Inv(o, v, i, c, q, p, b), NEW x \in [Streams -> OutType],
         \A s \in Streams :
           \/ x[s] = o[s]
           \/ /\ o[s].ph = "open" /\ x[s].ph = "closed" /\ x[s].chunk = 0 /\ x[s].local
              /\ i[s].ph = "open" /\ ~v.cut /\ ~c.gone => EndComes(q, s)
  PROVE  Inv(x, v, i, c, q, p, b)
<1>1. Typed(x, v, i, c, q, p, b)
  BY DEF Inv, Typed
<1>2. \A s \in Streams : (x[s].ph = "none" <=> o[s].ph = "none") /\ (x[s].ph = "open" => x[s] = o[s])
                         /\ (x[s].ph = "none" => x[s] = o[s])
  OBVIOUS
<1>3. StreamsStand(x, v, i, c, b)
  <2> SUFFICES ASSUME NEW s \in Streams PROVE StreamStands(s, x, v, i, c, b)
    BY DEF StreamsStand
  <2>1. StreamStands(s, o, v, i, c, b)
    BY DEF Inv, StreamsStand
  <2> QED BY <2>1 DEF StreamStands
<1>4. Sessions(x, v, i, c)
  BY <1>2 DEF Inv, Sessions, NoneOpen
<1>5. Wires(x, v, i, c, q, p)
  BY <1>2 DEF Inv, Wires, ToClient, ToServer
<1>6. StreamsAgree(x, i, c, q, p)
  BY ZenonT(60), <1>2 DEF Inv, StreamsAgree, StreamAgrees
<1>7. Bytes(x, i, q, b)
  BY <1>2 DEF Inv, Bytes, BytesOf
<1>8. StreamsEnd(x, v, i, c, q, p)
  BY DEF Inv, StreamsEnd
<1> QED BY <1>1, <1>3, <1>4, <1>5, <1>6, <1>7, <1>8 DEF Inv

\* destroy(): what was under way may be lost.
LEMMA ServerCut ==
  ASSUME NEW o, NEW v, NEW i, NEW c, NEW q, NEW p, NEW b, Inv(o, v, i, c, q, p, b)
  PROVE  Inv(o, [v EXCEPT !.cut = TRUE], i, c, q, p, b)
<1> DEFINE w == [v EXCEPT !.cut = TRUE]
<1>0. v \in ServerType
  BY DEF Inv, Typed
<1>1. w \in ServerType /\ w.win = v.win /\ w.initial = v.initial /\ w.last = v.last /\ w.goaway = v.goaway
      /\ w.closing = v.closing /\ w.gone = v.gone /\ w.cut
  BY <1>0 DEF ServerType
<1> HIDE DEF w
<1>2. Typed(o, w, i, c, q, p, b)
  BY <1>1 DEF Inv, Typed
<1>3. StreamsStand(o, w, i, c, b)
  BY <1>1 DEF Inv, StreamsStand, StreamStands, Turned
<1>4. Sessions(o, w, i, c)
  BY <1>1 DEF Inv, Sessions
<1>5. Wires(o, w, i, c, q, p)
  BY <1>1 DEF Inv, Wires, ToClient, ToServer, Turned
<1>6. ConnAgrees(w, c, q, p) /\ Acked(w, c, q, p) /\ Asked(w, c, p)
  BY <1>1 DEF Inv, ConnAgrees, Acked, Asked
<1>7. StreamsEnd(o, w, i, c, q, p)
  BY <1>1 DEF StreamsEnd
<1>8. Told(w, i, c, q, p)
  BY <1>1 DEF Inv, Told
<1> QED BY <1>2, <1>3, <1>4, <1>5, <1>6, <1>7, <1>8 DEF Inv, w

\* The server's session ends when none of its streams is open.
LEMMA ServerGone ==
  ASSUME NEW o, NEW v, NEW i, NEW c, NEW q, NEW p, NEW b, Inv(o, v, i, c, q, p, b), NoneOpen(o), v.cut \/ c.gone \/ v.closing
  PROVE  Inv(o, [v EXCEPT !.gone = TRUE], i, c, q, p, b)
<1> DEFINE w == [v EXCEPT !.gone = TRUE]
<1>0. Typed(o, v, i, c, q, p, b) /\ v \in ServerType /\ c \in ClientType /\ MaxStreams \in Nat /\ Streams \subseteq Nat
  BY Http2Assumption DEF Inv, Typed, Streams
<1>1. w \in ServerType /\ w.win = v.win /\ w.initial = v.initial /\ w.last = v.last /\ w.goaway = v.goaway
      /\ w.closing = v.closing /\ w.gone /\ w.cut = v.cut
  BY <1>0 DEF ServerType
<1> HIDE DEF w
<1>2. Typed(o, w, i, c, q, p, b)
  BY <1>1 DEF Inv, Typed
<1>3. StreamsStand(o, w, i, c, b)
  BY <1>1 DEF Inv, StreamsStand, StreamStands, Turned
<1>4. Sessions(o, w, i, c)
  BY <1>1 DEF Inv, Sessions
<1>5. Wires(o, w, i, c, q, p)
  BY <1>1 DEF Inv, Wires, ToClient, ToServer, Turned
<1>6. ConnAgrees(w, c, q, p)
  <2>1. Carried(q, "data", Streams) \in Nat /\ Carried(p, "update", {0}) \in Nat /\ v.win \in Nat
    BY <1>0, CarriedNat DEF Typed, ServerType
  <2>2. ConnAgrees(v, c, q, p)
    BY DEF Inv
  <2> QED BY <1>1, <2>1, <2>2 DEF ConnAgrees
<1>7. Acked(w, c, q, p)
  <2>1. NumOf(q, "ack") \in Nat /\ NumOf(p, "settings") \in Nat
    BY <1>0, CarriedNat DEF Typed
  <2>2. Acked(v, c, q, p)
    BY DEF Inv
  <2> QED BY <1>1, <2>1, <2>2 DEF Acked
<1>8. Asked(w, c, p)
  BY <1>1 DEF Asked
<1>9. StreamsEnd(o, w, i, c, q, p)
  <2> SUFFICES ASSUME ~v.cut, ~c.gone, NEW s \in Streams, i[s].ph = "open", ~EndComes(q, s) PROVE FALSE
    BY <1>1 DEF StreamsEnd
  <2>1. Asks(p, s)
    BY DEF Inv, StreamsEnd, NoneOpen
  <2>2. s > v.last /\ s \in Nat /\ v.last \in Nat
    BY <1>0, <2>1 DEF Inv, Wires, ToServer, Asks, ServerType
  <2>3. Told(v, i, c, q, p) /\ v.closing
    BY DEF Inv
  <2>4. CASE v.goaway
    <3>1. \E f \in In(q) : f.type = "goaway" /\ f.of <= v.last
      BY <2>2, <2>3, <2>4 DEF Told
    <3>2. PICK f \in In(q) : f.type = "goaway" /\ f.of <= v.last
      BY <3>1
    <3>3. f.of \in Nat
      <4>1. q \in Seq(Frames)
        BY <1>0 DEF Typed
      <4>2. f \in Frames
        BY <3>2, <4>1, InFrames
      <4> QED BY <1>0, <4>2 DEF Frames
    <3> QED BY <2>2, <3>2, <3>3 DEF EndComes, Ending
  <2>5. CASE ~v.goaway
    BY <2>1, <2>3, <2>5 DEF Told, Asks
  <2> QED BY <2>4, <2>5
<1>10. Told(w, i, c, q, p)
  BY <1>1 DEF Inv, Told
<1> QED BY <1>2, <1>3, <1>4, <1>5, <1>6, <1>7, <1>8, <1>9, <1>10 DEF Inv, w

\* The server's session is to end: it said so, or the client wants it.
LEMMA ServerClosing ==
  ASSUME NEW o, NEW v, NEW i, NEW c, NEW q, NEW p, NEW b, Inv(o, v, i, c, q, p, b), v.goaway \/ c.gone \/ (c.closing /\ \A f \in In(p) : f.type # "headers")
  PROVE  Inv(o, [v EXCEPT !.closing = TRUE], i, c, q, p, b)
<1> DEFINE w == [v EXCEPT !.closing = TRUE]
<1>0. v \in ServerType
  BY DEF Inv, Typed
<1>1. w \in ServerType /\ w.win = v.win /\ w.initial = v.initial /\ w.last = v.last /\ w.goaway = v.goaway
      /\ w.closing /\ w.gone = v.gone /\ w.cut = v.cut
  BY <1>0 DEF ServerType
<1> HIDE DEF w
<1>2. Typed(o, w, i, c, q, p, b)
  BY <1>1 DEF Inv, Typed
<1>3. StreamsStand(o, w, i, c, b)
  BY <1>1 DEF Inv, StreamsStand, StreamStands, Turned
<1>4. Sessions(o, w, i, c)
  BY <1>1 DEF Inv, Sessions
<1>5. Wires(o, w, i, c, q, p)
  BY <1>1 DEF Inv, Wires, ToClient, ToServer, Turned
<1>6. ConnAgrees(w, c, q, p) /\ Acked(w, c, q, p) /\ Asked(w, c, p)
  BY <1>1 DEF Inv, ConnAgrees, Acked, Asked
<1>7. StreamsEnd(o, w, i, c, q, p)
  BY <1>1 DEF Inv, StreamsEnd
<1>8. Told(w, i, c, q, p)
  BY <1>1 DEF Inv, Told
<1> QED BY <1>2, <1>3, <1>4, <1>5, <1>6, <1>7, <1>8 DEF Inv, w

\* What the invariant looks at in the client's session.
SameClient(c, d) ==
  /\ d \in ClientType /\ d.win = c.win /\ d.local = c.local /\ d.pending = c.pending /\ d.opened = c.opened
  /\ (c.closing => d.closing) /\ (c.gone => d.gone)

\* The client's session is to end, or ends when none of its streams is open.
LEMMA ClientEnds ==
  ASSUME NEW o, NEW v, NEW i, NEW c, NEW q, NEW p, NEW b, Inv(o, v, i, c, q, p, b), NEW d, SameClient(c, d), d.gone => NoneOpen(i)
  PROVE  Inv(o, v, i, d, q, p, b)
<1>1. Typed(o, v, i, d, q, p, b)
  BY DEF Inv, Typed, SameClient
<1>2. StreamsStand(o, v, i, d, b)
  BY DEF Inv, StreamsStand, StreamStands, SameClient
<1>3. Sessions(o, v, i, d)
  BY DEF Inv, Sessions, SameClient
<1>4. Wires(o, v, i, d, q, p)
  BY DEF Inv, Wires, ToServer, SameClient
<1>5. ConnAgrees(v, d, q, p) /\ Acked(v, d, q, p) /\ Asked(v, d, p)
  BY DEF Inv, ConnAgrees, Acked, Asked, SameClient, LastAsked
<1>6. StreamsAgree(o, i, d, q, p)
  BY DEF Inv, StreamsAgree, StreamAgrees, SameClient
<1>7. StreamsEnd(o, v, i, d, q, p)
  BY DEF Inv, StreamsEnd, SameClient
<1>8. Told(v, i, d, q, p)
  BY DEF Inv, Told, SameClient
<1> QED BY <1>1, <1>2, <1>3, <1>4, <1>5, <1>6, <1>7, <1>8 DEF Inv

\* A reader takes what is buffered.
LEMMA Reader ==
  ASSUME NEW o, NEW v, NEW i, NEW c, NEW q, NEW p, NEW b, Inv(o, v, i, c, q, p, b), NEW x \in [Streams -> InType],
         \A s \in Streams : /\ x[s].ph = i[s].ph /\ x[s].win = i[s].win /\ x[s].got = i[s].got
                            /\ o[s].ph = "none" => x[s].unread = 0 /\ x[s].credit = 0
  PROVE  Inv(o, v, x, c, q, p, b)
<1>1. Typed(o, v, x, c, q, p, b)
  BY DEF Inv, Typed
<1>2. StreamsStand(o, v, x, c, b)
  BY DEF Inv, StreamsStand, StreamStands
<1>3. Sessions(o, v, x, c)
  BY DEF Inv, Sessions, NoneOpen
<1>4. Wires(o, v, x, c, q, p)
  BY DEF Inv, Wires, ToServer
<1>5. StreamsAgree(o, x, c, q, p)
  BY DEF Inv, StreamsAgree, StreamAgrees
<1>6. Bytes(o, x, q, b)
  BY DEF Inv, Bytes, BytesOf
<1>7. StreamsEnd(o, v, x, c, q, p)
  BY DEF Inv, StreamsEnd
<1>8. Told(v, x, c, q, p)
  BY DEF Inv, Told
<1> QED BY <1>1, <1>2, <1>3, <1>4, <1>5, <1>6, <1>7, <1>8 DEF Inv

------------------------------------------------------------------------------
(* Queues that get longer or shorter.                                      *)

\* What the types say of the parts of a state.
LEMMA Facts ==
  ASSUME NEW o, NEW v, NEW i, NEW c, NEW q, NEW p, NEW b, Inv(o, v, i, c, q, p, b)
  PROVE  /\ o \in [Streams -> OutType] /\ v \in ServerType /\ i \in [Streams -> InType] /\ c \in ClientType
         /\ q \in Seq(Frames) /\ p \in Seq(Frames) /\ b \in [Streams -> Bodies] /\ Bodies \subseteq Nat
         /\ MaxStreams \in Nat /\ 0 \in 0..MaxStreams /\ 0 \notin Streams
         /\ \A s \in Streams : s \in Nat /\ s > 0 /\ s \in 0..MaxStreams
BY Http2Assumption DEF Inv, Typed, Streams

\* Frames without bytes.
LEMMA FrameType ==
  ASSUME NEW type \in {"data", "ack", "settings", "headers", "update", "rst", "refused", "goaway", "fin"},
         NEW s \in 0..MaxStreams, NEW n \in Nat
  PROVE  /\ Frame(type, s, n) \in Frames /\ Frame(type, s, n).type = type /\ Frame(type, s, n).of = s
         /\ Frame(type, s, n).n = n
BY DEF Frame, Frames

\* A DATA frame is a frame.
LEMMA DataType ==
  ASSUME NEW s \in 0..MaxStreams, NEW n \in Nat, NEW end \in BOOLEAN
  PROVE  /\ Data(s, n, end) \in Frames /\ Data(s, n, end).type = "data" /\ Data(s, n, end).of = s
         /\ Data(s, n, end).n = n /\ Data(s, n, end).end = end
BY DEF Data, Frames

\* A number is not more than the sum.
LEMMA TotalHas ==
  ASSUME NEW w \in Seq(Nat), NEW k \in 1..Len(w)
  PROVE  w[k] <= Total(w)
<1>1. w[k] \in Nat /\ k \in DOMAIN w
  OBVIOUS
<1>2. UnitsAt(w, k) \subseteq Units(w)
  BY <1>1 DEF Units
<1> QED BY <1>1, <1>2, TotalNat, UnitsAtCount, FS_Subset

\* None of a type is under way.
LEMMA NumOfZero ==
  ASSUME NEW q \in Seq(Frames), NEW type, NumOf(q, type) = 0
  PROVE  \A f \in In(q) : f.type # type
<1> SUFFICES ASSUME NEW k \in 1..Len(q), q[k].type = type PROVE FALSE
  BY DEF In
<1> DEFINE w == Marks(q, type)
<1>1. w \in Seq(Nat) /\ Len(w) = Len(q) /\ NumOf(q, type) = Total(w) /\ w[k] = 1
  BY MarksType
<1> HIDE DEF w
<1>2. w[k] <= Total(w)
  BY <1>1, TotalHas
<1> QED BY <1>1, <1>2

\* A queue with one frame more.
LEMMA OneMore ==
  ASSUME NEW q \in Seq(Frames), NEW f \in Frames
  PROVE  LET r == Append(q, f) IN
         /\ r \in Seq(Frames) /\ In(r) = In(q) \union {f} /\ Len(r) \in Nat /\ Len(q) \in Nat /\ Len(r) = Len(q) + 1
         /\ \A k \in 1..Len(r) : (k \in 1..Len(q) /\ r[k] = q[k]) \/ (k = Len(q) + 1 /\ r[k] = f)
         /\ \A k \in 1..Len(q) : k \in 1..Len(r) /\ r[k] = q[k]
         /\ Len(q) + 1 \in 1..Len(r) /\ r[Len(q) + 1] = f
         /\ \A s : EndComes(r, s) <=> EndComes(q, s) \/ Ending(f, s)
         /\ \A s : Asks(r, s) <=> Asks(q, s) \/ (f.type = "headers" /\ f.of = s)
<1> DEFINE r == Append(q, f)
<1>1. /\ r \in Seq(Frames) /\ In(r) = In(q) \union {f} /\ Len(r) \in Nat /\ Len(q) \in Nat /\ Len(r) = Len(q) + 1
      /\ r[Len(q) + 1] = f /\ \A k \in 1..Len(q) : r[k] = q[k]
  BY InAppend
<1> HIDE DEF r
<1>2. \A k \in 1..Len(r) : (k \in 1..Len(q) /\ r[k] = q[k]) \/ (k = Len(q) + 1 /\ r[k] = f)
  BY <1>1
<1>3. (\A k \in 1..Len(q) : k \in 1..Len(r)) /\ Len(q) + 1 \in 1..Len(r)
  BY <1>1
<1>4. \A s : EndComes(r, s) <=> EndComes(q, s) \/ Ending(f, s)
  BY <1>1 DEF EndComes
<1>5. \A s : Asks(r, s) <=> Asks(q, s) \/ (f.type = "headers" /\ f.of = s)
  BY <1>1 DEF Asks
<1> QED BY <1>1, <1>2, <1>3, <1>4, <1>5, Zenon DEF r

\* Its beginnings are those of the queue, and it itself.
LEMMA Beginnings ==
  ASSUME NEW q \in Seq(Frames), NEW f \in Frames
  PROVE  /\ \A k \in 1..Len(q) : SubSeq(Append(q, f), 1, k) = SubSeq(q, 1, k)
         /\ SubSeq(Append(q, f), 1, Len(q) + 1) = Append(q, f)
OBVIOUS

\* A queue whose first frame was read.
LEMMA OneLess ==
  ASSUME NEW q \in Seq(Frames), q # <<>>
  PROVE  LET t == Tail(q)
             f == Head(q)
         IN
         /\ t \in Seq(Frames) /\ f \in Frames /\ f = q[1] /\ In(q) = {f} \union In(t)
         /\ Len(q) \in Nat /\ Len(t) \in Nat /\ Len(q) = Len(t) + 1 /\ 1 \in 1..Len(q)
         /\ \A k \in 1..Len(t) : t[k] = q[k + 1] /\ k + 1 \in 1..Len(q)
         /\ \A k \in 1..Len(q) : k = 1 \/ (k - 1 \in 1..Len(t) /\ q[k] = t[k - 1])
         /\ \A s : EndComes(q, s) <=> EndComes(t, s) \/ Ending(f, s)
         /\ \A s : Asks(q, s) <=> Asks(t, s) \/ (f.type = "headers" /\ f.of = s)
<1> DEFINE t == Tail(q)
           f == Head(q)
<1>1. /\ t \in Seq(Frames) /\ f \in Frames /\ f = q[1] /\ In(q) = {f} \union In(t)
      /\ Len(t) \in Nat /\ Len(q) = Len(t) + 1 /\ 1 \in 1..Len(q)
      /\ \A k \in 1..Len(t) : t[k] = q[k + 1] /\ k + 1 \in 1..Len(q)
  BY InTail
<1> HIDE DEF t, f
<1>2. \A k \in 1..Len(q) : k = 1 \/ (k - 1 \in 1..Len(t) /\ q[k] = t[k - 1])
  <2> SUFFICES ASSUME NEW k \in 1..Len(q), k # 1 PROVE k - 1 \in 1..Len(t) /\ q[k] = t[k - 1]
    OBVIOUS
  <2>1. k - 1 \in 1..Len(t) /\ (k - 1) + 1 = k
    BY <1>1
  <2> QED BY <1>1, <2>1
<1>3. \A s : EndComes(q, s) <=> EndComes(t, s) \/ Ending(f, s)
  BY <1>1 DEF EndComes
<1>4. \A s : Asks(q, s) <=> Asks(t, s) \/ (f.type = "headers" /\ f.of = s)
  BY <1>1 DEF Asks
<1>5. /\ t \in Seq(Frames) /\ f \in Frames
  BY <1>1
<1> QED BY <1>1, <1>2, <1>3, <1>4, <1>5 DEF t, f

\* What a beginning of a queue carries, from its first frame on.
LEMMA CarriedBeginning ==
  ASSUME NEW q \in Seq(Frames), q # <<>>, NEW k \in 1..Len(Tail(q)), NEW type, NEW S
  PROVE  /\ k + 1 \in 1..Len(q) /\ Tail(q)[k] = q[k + 1]
         /\ Carried(SubSeq(q, 1, k + 1), type, S)
              = (IF q[1].type = type /\ q[1].of \in S THEN q[1].n ELSE 0) + Carried(SubSeq(Tail(q), 1, k), type, S)
<1> DEFINE r == SubSeq(q, 1, k + 1)
<1>1. /\ r \in Seq(Frames) /\ r # <<>> /\ Head(r) = q[1] /\ Tail(r) = SubSeq(Tail(q), 1, k)
      /\ k + 1 \in 1..Len(q) /\ Tail(q)[k] = q[k + 1]
  OBVIOUS
<1> HIDE DEF r
<1>2. r \in Seq(Frames) /\ r # <<>>
  BY <1>1
<1>3. Carried(r, type, S) = (IF Head(r).type = type /\ Head(r).of \in S THEN Head(r).n ELSE 0) + Carried(Tail(r), type, S)
  BY <1>2, CarriedTail
<1> QED BY <1>1, <1>3 DEF r

\* What the proofs use of a queue r that is q with the frame f behind it.
Longer(q, f, r) ==
  /\ q \in Seq(Frames) /\ f \in Frames /\ r \in Seq(Frames) /\ In(r) = In(q) \union {f}
  /\ Len(q) \in Nat /\ Len(r) = Len(q) + 1 /\ r[Len(q) + 1] = f
  /\ \A k \in 1..Len(r) : (k \in 1..Len(q) /\ r[k] = q[k]) \/ (k = Len(q) + 1 /\ r[k] = f)
  /\ \A k \in 1..Len(q) : k \in 1..Len(r) /\ r[k] = q[k] /\ SubSeq(r, 1, k) = SubSeq(q, 1, k)
  /\ SubSeq(r, 1, Len(q) + 1) = r
  /\ \A s : EndComes(r, s) <=> EndComes(q, s) \/ Ending(f, s)
  /\ \A s : Asks(r, s) <=> Asks(q, s) \/ (f.type = "headers" /\ f.of = s)
  /\ \A type, S : Carried(r, type, S) = Carried(q, type, S) + IF f.type = type /\ f.of \in S THEN f.n ELSE 0
  /\ \A type : NumOf(r, type) = NumOf(q, type) + IF f.type = type THEN 1 ELSE 0
  /\ \A type, S : Carried(q, type, S) \in Nat /\ NumOf(q, type) \in Nat

\* Append makes a queue longer.
LEMMA LongerIs ==
  ASSUME NEW q \in Seq(Frames), NEW f \in Frames
  PROVE  Longer(q, f, Append(q, f))
<1>1. \A type, S : Carried(Append(q, f), type, S) = Carried(q, type, S) + IF f.type = type /\ f.of \in S THEN f.n ELSE 0
  BY CarriedAppend
<1>2. \A type : NumOf(Append(q, f), type) = NumOf(q, type) + IF f.type = type THEN 1 ELSE 0
  <2> SUFFICES ASSUME NEW type PROVE NumOf(Append(q, f), type) = NumOf(q, type) + IF f.type = type THEN 1 ELSE 0
    OBVIOUS
  <2> DEFINE S == {}
  <2>1. /\ Carried(Append(q, f), type, S) = Carried(q, type, S) + IF f.type = type /\ f.of \in S THEN f.n ELSE 0
        /\ NumOf(Append(q, f), type) = NumOf(q, type) + IF f.type = type THEN 1 ELSE 0
    <3> HIDE DEF S
    <3> QED BY CarriedAppend
  <2> QED BY <2>1
<1>3. \A type, S : Carried(q, type, S) \in Nat /\ NumOf(q, type) \in Nat
  BY CarriedNat
<1>4. /\ \A k \in 1..Len(q) : SubSeq(Append(q, f), 1, k) = SubSeq(q, 1, k)
      /\ SubSeq(Append(q, f), 1, Len(q) + 1) = Append(q, f)
  BY Beginnings
<1> DEFINE r == Append(q, f)
<1>6. /\ r \in Seq(Frames) /\ In(r) = In(q) \union {f} /\ Len(r) \in Nat /\ Len(q) \in Nat /\ Len(r) = Len(q) + 1
      /\ \A k \in 1..Len(r) : (k \in 1..Len(q) /\ r[k] = q[k]) \/ (k = Len(q) + 1 /\ r[k] = f)
      /\ \A k \in 1..Len(q) : k \in 1..Len(r) /\ r[k] = q[k]
      /\ Len(q) + 1 \in 1..Len(r) /\ r[Len(q) + 1] = f
      /\ \A s : EndComes(r, s) <=> EndComes(q, s) \/ Ending(f, s)
      /\ \A s : Asks(r, s) <=> Asks(q, s) \/ (f.type = "headers" /\ f.of = s)
  BY OneMore
<1>5. r = Append(q, f)
  OBVIOUS
<1> HIDE DEF r
<1>7. /\ \A type, S : Carried(r, type, S) = Carried(q, type, S) + IF f.type = type /\ f.of \in S THEN f.n ELSE 0
      /\ \A type : NumOf(r, type) = NumOf(q, type) + IF f.type = type THEN 1 ELSE 0
      /\ \A k \in 1..Len(q) : SubSeq(r, 1, k) = SubSeq(q, 1, k)
      /\ SubSeq(r, 1, Len(q) + 1) = r
  BY <1>1, <1>2, <1>4, Zenon DEF r
<1>8. Longer(q, f, r)
  BY <1>3, <1>6, <1>7 DEF Longer
<1> QED BY <1>8 DEF r

\* What the proofs use of a queue q whose first frame f was read: t is left.
Shorter(q, f, t) ==
  /\ q \in Seq(Frames) /\ f \in Frames /\ t \in Seq(Frames) /\ In(q) = {f} \union In(t)
  /\ Len(q) \in Nat /\ Len(t) \in Nat /\ Len(q) = Len(t) + 1 /\ f = q[1] /\ 1 \in 1..Len(q)
  /\ \A k \in 1..Len(t) : t[k] = q[k + 1] /\ k + 1 \in 1..Len(q)
  /\ \A k \in 1..Len(q) : k = 1 \/ (k - 1 \in 1..Len(t) /\ q[k] = t[k - 1])
  /\ \A s : EndComes(q, s) <=> EndComes(t, s) \/ Ending(f, s)
  /\ \A s : Asks(q, s) <=> Asks(t, s) \/ (f.type = "headers" /\ f.of = s)
  /\ \A type, S : Carried(q, type, S) = (IF f.type = type /\ f.of \in S THEN f.n ELSE 0) + Carried(t, type, S)
  /\ \A type : NumOf(q, type) = (IF f.type = type THEN 1 ELSE 0) + NumOf(t, type)
  /\ \A type, S : Carried(t, type, S) \in Nat /\ NumOf(t, type) \in Nat
  /\ \A k \in 1..Len(t) : \A type, S :
       Carried(SubSeq(q, 1, k + 1), type, S)
         = (IF f.type = type /\ f.of \in S THEN f.n ELSE 0) + Carried(SubSeq(t, 1, k), type, S)

\* Head and Tail make it shorter.
LEMMA ShorterIs ==
  ASSUME NEW q \in Seq(Frames), q # <<>>
  PROVE  Shorter(q, Head(q), Tail(q))
<1> DEFINE t == Tail(q)
           f == Head(q)
<1>1. t = Tail(q) /\ f = Head(q)
  OBVIOUS
<1>a. \A type, S : Carried(q, type, S) = (IF f.type = type /\ f.of \in S THEN f.n ELSE 0) + Carried(t, type, S)
  BY CarriedTail
<1>b. \A type : NumOf(q, type) = (IF f.type = type THEN 1 ELSE 0) + NumOf(t, type)
  <2> SUFFICES ASSUME NEW type PROVE NumOf(q, type) = (IF f.type = type THEN 1 ELSE 0) + NumOf(t, type)
    OBVIOUS
  <2> DEFINE S == {}
  <2>1. /\ Carried(q, type, S) = (IF f.type = type /\ f.of \in S THEN f.n ELSE 0) + Carried(t, type, S)
        /\ NumOf(q, type) = (IF f.type = type THEN 1 ELSE 0) + NumOf(t, type)
    <3> HIDE DEF S
    <3> QED BY CarriedTail
  <2> QED BY <2>1
<1>c. \A k \in 1..Len(t) : \A type, S :
       Carried(SubSeq(q, 1, k + 1), type, S)
         = (IF q[1].type = type /\ q[1].of \in S THEN q[1].n ELSE 0) + Carried(SubSeq(t, 1, k), type, S)
  BY CarriedBeginning
<1>2. /\ t \in Seq(Frames) /\ f \in Frames /\ f = q[1] /\ In(q) = {f} \union In(t)
      /\ Len(q) \in Nat /\ Len(t) \in Nat /\ Len(q) = Len(t) + 1 /\ 1 \in 1..Len(q)
      /\ \A k \in 1..Len(t) : t[k] = q[k + 1] /\ k + 1 \in 1..Len(q)
      /\ \A k \in 1..Len(q) : k = 1 \/ (k - 1 \in 1..Len(t) /\ q[k] = t[k - 1])
      /\ \A s : EndComes(q, s) <=> EndComes(t, s) \/ Ending(f, s)
      /\ \A s : Asks(q, s) <=> Asks(t, s) \/ (f.type = "headers" /\ f.of = s)
  BY OneLess
<1> HIDE DEF t, f
<1>3. t \in Seq(Frames)
  BY <1>2
<1>4. \A type, S : Carried(t, type, S) \in Nat /\ NumOf(t, type) \in Nat
  BY <1>3, CarriedNat
<1>5. Shorter(q, f, t)
  BY <1>2, <1>4, <1>a, <1>b, <1>c DEF Shorter
<1> QED BY <1>5 DEF t, f

\* A frame more for the client leaves the order, when the server's session had not ended.
LEMMA TurnsLongerClient ==
  ASSUME NEW q, NEW p, NEW f, NEW r, Longer(q, f, r), InTurn(q, p), \A g \in In(q) : g.type # "fin"
  PROVE  InTurn(r, p)
<1>1. ASSUME NEW j \in 1..Len(r), NEW k \in 1..Len(r), j < k PROVE r[j].type # "fin"
  <2>1. /\ (j \in 1..Len(q) /\ r[j] = q[j]) \/ j = Len(q) + 1
        /\ k \in 1..Len(q) \/ k = Len(q) + 1
        /\ Len(q) \in Nat
    BY DEF Longer
  <2>2. j \in 1..Len(q) /\ r[j] = q[j]
    BY <1>1, <2>1
  <2> QED BY <2>2 DEF In
<1> QED BY <1>1 DEF InTurn

\* A frame more for the server: a request comes after every other, and before a GOAWAY.
LEMMA TurnsLongerServer ==
  ASSUME NEW q, NEW p, NEW f, NEW r, Longer(p, f, r), InTurn(q, p),
         f.type = "headers" => \A g \in In(p) : g.type # "goaway" /\ (g.type = "headers" => g.of < f.of)
  PROVE  InTurn(q, r)
<1>1. ASSUME NEW j \in 1..Len(r), NEW k \in 1..Len(r), j < k
      PROVE  /\ r[j].type = "headers" /\ r[k].type = "headers" => r[j].of < r[k].of
             /\ r[j].type = "goaway" => r[k].type # "headers"
  <2>1. /\ (j \in 1..Len(p) /\ r[j] = p[j]) \/ j = Len(p) + 1
        /\ (k \in 1..Len(p) /\ r[k] = p[k]) \/ (k = Len(p) + 1 /\ r[k] = f)
        /\ Len(p) \in Nat
    BY DEF Longer
  <2>2. j \in 1..Len(p) /\ r[j] = p[j]
    BY <1>1, <2>1
  <2>3. CASE k \in 1..Len(p) /\ r[k] = p[k]
    BY <1>1, <2>2, <2>3 DEF InTurn
  <2>4. CASE r[k] = f
    BY <2>2, <2>4 DEF In
  <2> QED BY <2>1, <2>3, <2>4
<1> QED BY <1>1 DEF InTurn

\* The client read a frame: nothing comes after the end.
LEMMA TurnsShorterClient ==
  ASSUME NEW q, NEW p, NEW f, NEW t, Shorter(q, f, t), InTurn(q, p)
  PROVE  InTurn(t, p) /\ (f.type = "fin" => In(t) = {})
<1>1. ASSUME NEW j \in 1..Len(t), NEW k \in 1..Len(t), j < k PROVE t[j].type # "fin"
  <2>1. t[j] = q[j + 1] /\ j + 1 \in 1..Len(q) /\ k + 1 \in 1..Len(q) /\ j + 1 < k + 1
    BY <1>1 DEF Shorter
  <2> QED BY <2>1 DEF InTurn
<1>2. ASSUME NEW k \in 1..Len(t) PROVE f.type # "fin"
  <2>1. q[1] = f /\ 1 \in 1..Len(q) /\ k + 1 \in 1..Len(q) /\ 1 < k + 1
    BY DEF Shorter
  <2> QED BY <2>1 DEF InTurn
<1> QED BY <1>1, <1>2 DEF InTurn, In

\* The server read a frame.
LEMMA TurnsShorterServer ==
  ASSUME NEW q, NEW p, NEW f, NEW t, Shorter(p, f, t), InTurn(q, p)
  PROVE  /\ InTurn(q, t)
         /\ f.type = "headers" => \A g \in In(t) : g.type = "headers" => f.of < g.of
         /\ f.type = "goaway" => \A g \in In(t) : g.type # "headers"
<1>1. ASSUME NEW j \in 1..Len(t), NEW k \in 1..Len(t), j < k
      PROVE  /\ t[j].type = "headers" /\ t[k].type = "headers" => t[j].of < t[k].of
             /\ t[j].type = "goaway" => t[k].type # "headers"
  <2>1. /\ t[j] = p[j + 1] /\ t[k] = p[k + 1] /\ j + 1 \in 1..Len(p) /\ k + 1 \in 1..Len(p) /\ j + 1 < k + 1
    BY <1>1 DEF Shorter
  <2> QED BY <2>1 DEF InTurn
<1>2. ASSUME NEW k \in 1..Len(t)
      PROVE  /\ f.type = "headers" /\ t[k].type = "headers" => f.of < t[k].of
             /\ f.type = "goaway" => t[k].type # "headers"
  <2>1. p[1] = f /\ 1 \in 1..Len(p) /\ t[k] = p[k + 1] /\ k + 1 \in 1..Len(p) /\ 1 < k + 1
    BY DEF Shorter
  <2> QED BY <2>1 DEF InTurn
<1> QED BY <1>1, <1>2 DEF InTurn, In

------------------------------------------------------------------------------
(* Frames that are sent and received.                                      *)

\* The server sends bytes of a body: the windows and what is left of it shrink.
LEMMA SendData ==
  ASSUME NEW o, NEW v, NEW i, NEW c, NEW q, NEW p, NEW b, Inv(o, v, i, c, q, p, b), NEW s \in Streams, NEW n \in Nat, o[s].chunk > 0, n <= o[s].chunk, n <= v.win,
         NEW f, NEW r, Longer(q, f, r), f.type = "data", f.of = s, f.n = n, ~f.end,
         NEW x \in [Streams -> OutType], \A z \in Streams : z # s => x[z] = o[z],
         x[s].chunk = o[s].chunk - n, x[s].win = o[s].win - n, x[s].ph = o[s].ph, x[s].todo = o[s].todo,
         x[s].end = o[s].end, x[s].local = o[s].local, x[s].queued = o[s].queued,
         NEW w \in ServerType, w.win = v.win - n, w.initial = v.initial, w.last = v.last, w.goaway = v.goaway,
         w.closing = v.closing, w.gone = v.gone, w.cut = v.cut
  PROVE  Inv(x, w, i, c, r, p, b)
<1>0. /\ o \in [Streams -> OutType] /\ v \in ServerType /\ i \in [Streams -> InType] /\ c \in ClientType
      /\ q \in Seq(Frames) /\ p \in Seq(Frames) /\ s \in 0..MaxStreams /\ 0 \notin Streams
  BY Facts
<1>3. r \in Seq(Frames) /\ In(r) = In(q) \union {f} /\ \A z : EndComes(q, z) => EndComes(r, z)
  BY DEF Longer
<1>4. v.win \in Nat /\ o[s].win \in Int /\ o[s].chunk \in Nat /\ o[s].todo \in Nat /\ x[s].chunk \in Nat
  BY <1>0 DEF OutType, ServerType
<1>7. o[s].ph = "open" /\ ~v.gone
  <2>1. StreamStands(s, o, v, i, c, b) /\ Sessions(o, v, i, c)
    BY DEF Inv, StreamsStand
  <2> QED BY <1>4, <2>1 DEF StreamStands, Sessions, NoneOpen
<1>8. \A z \in Streams : x[z].ph = o[z].ph
  OBVIOUS
<1>9. /\ Carried(q, "data", Streams) \in Nat
      /\ Carried(r, "data", Streams) = Carried(q, "data", Streams) + n
      /\ Carried(q, "data", {s}) \in Nat
      /\ Carried(r, "data", {s}) = Carried(q, "data", {s}) + n
  BY DEF Longer
<1>10. /\ \A z \in Streams : z # s => Carried(r, "data", {z}) = Carried(q, "data", {z})
       /\ NumOf(r, "ack") = NumOf(q, "ack")
  <2>1. ASSUME NEW z \in Streams, z # s PROVE Carried(r, "data", {z}) = Carried(q, "data", {z})
    <3>1. /\ Carried(r, "data", {z}) = Carried(q, "data", {z}) + IF f.type = "data" /\ f.of \in {z} THEN f.n ELSE 0
          /\ Carried(q, "data", {z}) \in Nat
      BY DEF Longer
    <3>2. f.of \notin {z}
      BY <2>1
    <3> QED BY <3>1, <3>2
  <2>2. NumOf(r, "ack") = NumOf(q, "ack") + 0 /\ NumOf(q, "ack") \in Nat
    BY DEF Longer
  <2> QED BY <2>1, <2>2
<1>a. \A S : Carried(p, "update", S) \in Nat
  <2>1. p \in Seq(Frames)
    BY <1>0
  <2> QED BY <2>1, CarriedNat
<1>11. Typed(x, w, i, c, r, p, b)
  BY <1>3 DEF Inv, Typed
<1>12. StreamsStand(x, w, i, c, b)
  <2> SUFFICES ASSUME NEW z \in Streams PROVE StreamStands(z, x, w, i, c, b)
    BY DEF StreamsStand
  <2>1. StreamStands(z, o, v, i, c, b) /\ StreamStands(s, o, v, i, c, b)
    BY DEF Inv, StreamsStand
  <2>2. CASE z # s
    BY <2>1, <2>2 DEF StreamStands, Turned
  <2>3. CASE z = s
    BY <1>4, <1>7, <2>1, <2>3 DEF StreamStands, Turned
  <2> QED BY <2>2, <2>3
<1>13. Sessions(x, w, i, c)
  BY <1>8 DEF Inv, Sessions, NoneOpen
<1>14. Wires(x, w, i, c, r, p)
  <2>1. \A g \in In(q) : ToClient(g, x, w)
    BY <1>8 DEF Inv, Wires, ToClient, Turned
  <2>2. \A g \in In(p) : ToServer(g, x, w, i, c)
    BY <1>8 DEF Inv, Wires, ToServer
  <2>3. ToClient(f, x, w)
    BY <1>7, <1>8 DEF ToClient
  <2> QED BY <1>3, <2>1, <2>2, <2>3 DEF Wires
<1>15. InTurn(r, p)
  <2>1. \A g \in In(q) : g.type # "fin"
    BY <1>7 DEF Inv, Wires, ToClient
  <2> QED BY <2>1, TurnsLongerClient DEF Inv
<1>16. ConnAgrees(w, c, r, p)
  <2>1. ConnAgrees(v, c, q, p)
    BY DEF Inv
  <2>2. w.win + Carried(r, "data", Streams) + Carried(p, "update", {0})
          = v.win + Carried(q, "data", Streams) + Carried(p, "update", {0})
    BY <1>4, <1>9, <1>a
  <2> QED BY <1>7, <2>1, <2>2 DEF ConnAgrees
<1>17. Acked(w, c, r, p) /\ Asked(w, c, p)
  BY <1>10 DEF Inv, Acked, Asked
<1>18. StreamsAgree(x, i, c, r, p)
  <2> SUFFICES ASSUME NEW z \in Streams PROVE StreamAgrees(z, x, i, c, r, p)
    BY DEF StreamsAgree
  <2>1. StreamAgrees(z, o, i, c, q, p)
    BY DEF Inv, StreamsAgree
  <2>2. CASE z # s
    BY <1>10, <2>1, <2>2 DEF StreamAgrees
  <2>3. CASE z = s
    <3>1. x[s].win + Carried(r, "data", {s}) + Carried(p, "update", {s})
            = o[s].win + Carried(q, "data", {s}) + Carried(p, "update", {s})
      BY <1>4, <1>9, <1>a
    <3> QED BY <1>7, <2>1, <2>3, <3>1 DEF StreamAgrees
  <2> QED BY <2>2, <2>3
<1>19. Bytes(x, i, r, b)
  <2> SUFFICES ASSUME NEW z \in Streams PROVE BytesOf(z, x, i, r, b)
    BY DEF Bytes
  <2>1. BytesOf(z, o, i, q, b)
    BY DEF Inv, Bytes
  <2>2. ASSUME NEW k \in 1..Len(r), EndFrame(r[k], z)
        PROVE  k \in 1..Len(q) /\ r[k] = q[k] /\ SubSeq(r, 1, k) = SubSeq(q, 1, k)
    BY <2>2 DEF Longer, EndFrame
  <2>3. i[z].got \in Nat
    BY <1>0 DEF InType
  <2>4. x[z].ph = "open" /\ i[z].ph = "open" => b[z] = i[z].got + Carried(r, "data", {z}) + x[z].chunk + x[z].todo
    <3>1. CASE z # s
      BY <1>10, <2>1, <3>1 DEF BytesOf
    <3>2. CASE z = s
      <4>1. i[s].got + Carried(r, "data", {s}) + x[s].chunk + x[s].todo
              = i[s].got + Carried(q, "data", {s}) + o[s].chunk + o[s].todo
        BY <1>4, <1>9, <2>3, <3>2
      <4> QED BY <1>7, <2>1, <3>2, <4>1 DEF BytesOf
    <3> QED BY <3>1, <3>2
  <2> QED BY <2>1, <2>2, <2>4 DEF BytesOf
<1>20. StreamsEnd(x, w, i, c, r, p)
  BY <1>3, <1>8 DEF Inv, StreamsEnd
<1>21. Told(w, i, c, r, p)
  <2>1. Told(v, i, c, q, p)
    BY DEF Inv
  <2> QED BY <1>3, <2>1 DEF Told
<1> QED BY <1>11, <1>12, <1>13, <1>14, <1>15, <1>16, <1>17, <1>18, <1>19, <1>20, <1>21 DEF Inv

\* A queue whose frames of the sums are as they were.
LEMMA LongerCounts ==
  ASSUME NEW q, NEW f, NEW r, Longer(q, f, r), NEW type, f.type # type \/ f.n = 0
  PROVE  \A S : Carried(r, type, S) = Carried(q, type, S)
<1> SUFFICES ASSUME NEW S PROVE Carried(r, type, S) = Carried(q, type, S)
  OBVIOUS
<1>1. /\ Carried(r, type, S) = Carried(q, type, S) + IF f.type = type /\ f.of \in S THEN f.n ELSE 0
      /\ Carried(q, type, S) \in Nat
  BY DEF Longer
<1> QED BY <1>1

\* One frame more of another type does not count.
LEMMA LongerMarks ==
  ASSUME NEW q, NEW f, NEW r, Longer(q, f, r), NEW type, f.type # type
  PROVE  NumOf(r, type) = NumOf(q, type)
<1> DEFINE S == {}
<1>1. /\ NumOf(r, type) = NumOf(q, type) + IF f.type = type THEN 1 ELSE 0
      /\ Carried(q, type, S) \in Nat /\ NumOf(q, type) \in Nat
  BY DEF Longer
<1> QED BY <1>1

\* One frame less that carries nothing for some streams does not count.
LEMMA ShorterCounts ==
  ASSUME NEW q, NEW f, NEW t, Shorter(q, f, t), NEW type
  PROVE  \A S : f.type # type \/ f.n = 0 \/ f.of \notin S => Carried(t, type, S) = Carried(q, type, S)
<1> SUFFICES ASSUME NEW S, f.type # type \/ f.n = 0 \/ f.of \notin S PROVE Carried(t, type, S) = Carried(q, type, S)
  OBVIOUS
<1>1. /\ Carried(q, type, S) = (IF f.type = type /\ f.of \in S THEN f.n ELSE 0) + Carried(t, type, S)
      /\ Carried(t, type, S) \in Nat
  BY DEF Shorter
<1> QED BY <1>1

\* One frame less of another type does not count.
LEMMA ShorterMarks ==
  ASSUME NEW q, NEW f, NEW t, Shorter(q, f, t), NEW type, f.type # type
  PROVE  NumOf(t, type) = NumOf(q, type)
<1> DEFINE S == {}
<1>1. /\ NumOf(q, type) = (IF f.type = type THEN 1 ELSE 0) + NumOf(t, type)
      /\ Carried(t, type, S) \in Nat /\ NumOf(t, type) \in Nat
  BY DEF Shorter
<1> QED BY <1>1

\* The server sends a frame without bytes; the frame may be its GOAWAY.
LEMMA AppendClient ==
  ASSUME NEW o, NEW v, NEW i, NEW c, NEW q, NEW p, NEW b, Inv(o, v, i, c, q, p, b), NEW f, NEW r, Longer(q, f, r), f.type # "data" \/ f.n = 0, f.type # "ack",
         \A g \in In(q) : g.type # "fin",
         \A z \in Streams : EndFrame(f, z) /\ i[z].ph = "open" => b[z] = i[z].got + Carried(q, "data", {z}),
         NEW w \in ServerType, w.win = v.win, w.initial = v.initial, w.last = v.last,
         w.closing = v.closing, w.gone = v.gone, w.cut = v.cut,
         ToClient(f, o, w), v.goaway => w.goaway, w.goaway => v.goaway \/ (f.type = "goaway" /\ f.of <= v.last)
  PROVE  Inv(o, w, i, c, r, p, b)
<1>1. r \in Seq(Frames) /\ In(r) = In(q) \union {f} /\ \A z : EndComes(q, z) => EndComes(r, z)
  BY DEF Longer
<1>2. (\A S : Carried(r, "data", S) = Carried(q, "data", S)) /\ NumOf(r, "ack") = NumOf(q, "ack")
  BY LongerCounts, LongerMarks
<1>3. Typed(o, w, i, c, r, p, b)
  BY <1>1 DEF Inv, Typed
<1>4. StreamsStand(o, w, i, c, b)
  BY DEF Inv, StreamsStand, StreamStands, Turned
<1>5. Sessions(o, w, i, c)
  BY DEF Inv, Sessions, NoneOpen
<1>6. Wires(o, w, i, c, r, p)
  <2>1. \A g \in In(q) : ToClient(g, o, w)
    BY DEF Inv, Wires, ToClient, Turned
  <2>2. \A g \in In(p) : ToServer(g, o, w, i, c)
    BY DEF Inv, Wires, ToServer
  <2> QED BY <1>1, <2>1, <2>2 DEF Wires
<1>7. InTurn(r, p)
  BY TurnsLongerClient DEF Inv
<1>8. ConnAgrees(w, c, r, p) /\ Acked(w, c, r, p) /\ Asked(w, c, p)
  BY <1>2 DEF Inv, ConnAgrees, Acked, Asked
<1>9. StreamsAgree(o, i, c, r, p)
  BY <1>2 DEF Inv, StreamsAgree, StreamAgrees
<1>10. Bytes(o, i, r, b)
  <2> SUFFICES ASSUME NEW z \in Streams, i[z].ph = "open" PROVE BytesOf(z, o, i, r, b)
    BY DEF Bytes, BytesOf
  <2>1. BytesOf(z, o, i, q, b)
    BY DEF Inv, Bytes
  <2>2. ASSUME NEW k \in 1..Len(r), EndFrame(r[k], z) PROVE b[z] = i[z].got + Carried(SubSeq(r, 1, k), "data", {z})
    <3>1. CASE k \in 1..Len(q)
      <4>1. r[k] = q[k] /\ SubSeq(r, 1, k) = SubSeq(q, 1, k)
        BY <3>1 DEF Longer
      <4> QED BY <2>1, <2>2, <3>1, <4>1 DEF BytesOf
    <3>2. CASE k \notin 1..Len(q)
      <4>1. r[k] = f /\ SubSeq(r, 1, k) = r
        BY <3>2 DEF Longer
      <4> QED BY <1>2, <2>2, <4>1
    <3> QED BY <3>1, <3>2
  <2> QED BY <1>2, <2>1, <2>2 DEF BytesOf
<1>11. StreamsEnd(o, w, i, c, r, p)
  BY <1>1 DEF Inv, StreamsEnd
<1>12. Told(w, i, c, r, p)
  BY <1>1 DEF Inv, Told
<1> QED BY <1>3, <1>4, <1>5, <1>6, <1>7, <1>8, <1>9, <1>10, <1>11, <1>12 DEF Inv

\* The client reads a frame that has no bytes and acknowledges nothing; what it ends has ended.
LEMMA PopClient ==
  ASSUME NEW o, NEW v, NEW i, NEW c, NEW q, NEW p, NEW b, Inv(o, v, i, c, q, p, b), NEW f, NEW t, Shorter(q, f, t), f.type \notin {"data", "ack"},
         \A z \in Streams : i[z].ph = "open" /\ ~v.cut /\ ~c.gone => ~Ending(f, z),
         f.type = "goaway" /\ ~v.cut /\ ~c.gone => c.closing
  PROVE  Inv(o, v, i, c, t, p, b)
<1>0. f \in Frames /\ v \in ServerType /\ MaxStreams \in Nat /\ Streams \subseteq Nat /\ \A s \in Streams : s \in Nat
  <2>1. f \in Frames
    BY DEF Shorter
  <2> QED BY <2>1, Facts
<1>1. t \in Seq(Frames) /\ In(q) = {f} \union In(t) /\ \A z : EndComes(q, z) => EndComes(t, z) \/ Ending(f, z)
  BY DEF Shorter
<1>2. (\A S : Carried(t, "data", S) = Carried(q, "data", S)) /\ NumOf(t, "ack") = NumOf(q, "ack")
  BY ShorterCounts, ShorterMarks
<1>3. Typed(o, v, i, c, t, p, b)
  BY <1>1 DEF Inv, Typed
<1>6. Wires(o, v, i, c, t, p)
  BY <1>1 DEF Inv, Wires
<1>7. InTurn(t, p)
  BY TurnsShorterClient DEF Inv
<1>8. ConnAgrees(v, c, t, p) /\ Acked(v, c, t, p)
  BY <1>2 DEF Inv, ConnAgrees, Acked
<1>9. StreamsAgree(o, i, c, t, p)
  BY <1>2 DEF Inv, StreamsAgree, StreamAgrees
<1>10. Bytes(o, i, t, b)
  <2> SUFFICES ASSUME NEW z \in Streams, i[z].ph = "open" PROVE BytesOf(z, o, i, t, b)
    BY DEF Bytes, BytesOf
  <2>1. BytesOf(z, o, i, q, b)
    BY DEF Inv, Bytes
  <2>2. ASSUME NEW k \in 1..Len(t), EndFrame(t[k], z) PROVE b[z] = i[z].got + Carried(SubSeq(t, 1, k), "data", {z})
    <3>1. /\ k + 1 \in 1..Len(q) /\ q[k + 1] = t[k]
          /\ Carried(SubSeq(q, 1, k + 1), "data", {z})
               = (IF f.type = "data" /\ f.of \in {z} THEN f.n ELSE 0) + Carried(SubSeq(t, 1, k), "data", {z})
      BY DEF Shorter
    <3>2. Carried(SubSeq(t, 1, k), "data", {z}) \in Nat
      <4>1. t \in Seq(Frames) /\ k \in 0..Len(t)
        BY <1>1
      <4>2. SubSeq(t, 1, k) \in Seq(Frames)
        BY <4>1, InPrefix
      <4> QED BY <4>2, CarriedNat
    <3>3. Carried(SubSeq(q, 1, k + 1), "data", {z}) = Carried(SubSeq(t, 1, k), "data", {z})
      BY <3>1, <3>2
    <3> QED BY <2>1, <2>2, <3>1, <3>3 DEF BytesOf
  <2> QED BY <1>2, <2>1, <2>2 DEF BytesOf
<1>11. StreamsEnd(o, v, i, c, t, p)
  <2> SUFFICES ASSUME ~v.cut, ~c.gone, NEW s \in Streams, i[s].ph = "open"
               PROVE  EndComes(t, s) \/ (~v.gone /\ (o[s].ph = "open" \/ Asks(p, s)))
    BY DEF StreamsEnd
  <2>1. EndComes(q, s) \/ (~v.gone /\ (o[s].ph = "open" \/ Asks(p, s)))
    BY DEF Inv, StreamsEnd
  <2> QED BY <1>1, <2>1
<1>12. Told(v, i, c, t, p)
  <2>1. Told(v, i, c, q, p)
    BY DEF Inv
  <2>2. ASSUME v.goaway, ~v.cut, ~c.gone
        PROVE  \/ \E g \in In(t) : g.type = "goaway" /\ g.of <= v.last
               \/ c.closing /\ \A s \in Streams : s > v.last => i[s].ph # "open"
    <3>1. CASE \E g \in In(t) : g.type = "goaway" /\ g.of <= v.last
      BY <3>1
    <3>2. CASE f.type = "goaway" /\ f.of <= v.last
      <4>1. f.of \in Nat /\ v.last \in Nat
        BY <1>0 DEF Frames, ServerType
      <4>2. ASSUME NEW s \in Streams, s > v.last PROVE i[s].ph # "open"
        <5>1. f.of < s
          BY <1>0, <3>2, <4>1, <4>2
        <5> QED BY <2>2, <3>2, <5>1 DEF Ending
      <4> QED BY <2>2, <3>2, <4>2
    <3>3. CASE c.closing /\ \A s \in Streams : s > v.last => i[s].ph # "open"
      BY <3>3
    <3> QED BY <1>1, <2>1, <2>2, <3>1, <3>2, <3>3 DEF Told
  <2> QED BY <2>1, <2>2 DEF Told
<1> QED BY <1>3, <1>6, <1>7, <1>8, <1>9, <1>10, <1>11, <1>12 DEF Inv

\* The order of SETTINGS and the last of them, when a frame of another kind was read.
LEMMA AskedShorter ==
  ASSUME NEW p, NEW f, NEW t, Shorter(p, f, t), f.type # "settings", NEW v, NEW c, Asked(v, c, p)
  PROVE  Asked(v, c, t)
<1> SUFFICES ASSUME ~c.gone, ~v.gone
             PROVE  /\ (\A g \in In(t) : g.type # "settings") => v.initial = LastAsked(c)
                    /\ \A k \in 1..Len(t) :
                         t[k].type = "settings" /\ (\A j \in 1..Len(t) : j > k => t[j].type # "settings") => t[k].n = LastAsked(c)
  BY DEF Asked
<1>1. (\A g \in In(t) : g.type # "settings") => v.initial = LastAsked(c)
  BY DEF Shorter, Asked
<1>2. ASSUME NEW k \in 1..Len(t), t[k].type = "settings", \A j \in 1..Len(t) : j > k => t[j].type # "settings"
      PROVE  t[k].n = LastAsked(c)
  <2> DEFINE z == k + 1
  <2>1. z \in 1..Len(p) /\ p[z] = t[k]
    BY DEF Shorter
  <2>2. ASSUME NEW j \in 1..Len(p), j > z PROVE p[j].type # "settings"
    <3> DEFINE y == j - 1
    <3>1. y \in 1..Len(t) /\ p[j] = t[y]
      BY <2>2 DEF Shorter
    <3>2. y > k
      BY <2>2 DEF Shorter
    <3> HIDE DEF y
    <3> QED BY <1>2, <3>1, <3>2
  <2> HIDE DEF z
  <2> QED BY <1>2, <2>1, <2>2 DEF Asked
<1> QED BY <1>1, <1>2

\* And when a frame of another kind was sent.
LEMMA AskedLonger ==
  ASSUME NEW p, NEW f, NEW r, Longer(p, f, r), f.type # "settings", NEW v, NEW c, Asked(v, c, p)
  PROVE  Asked(v, c, r)
<1> SUFFICES ASSUME ~c.gone, ~v.gone
             PROVE  /\ (\A g \in In(r) : g.type # "settings") => v.initial = LastAsked(c)
                    /\ \A k \in 1..Len(r) :
                         r[k].type = "settings" /\ (\A j \in 1..Len(r) : j > k => r[j].type # "settings") => r[k].n = LastAsked(c)
  BY DEF Asked
<1>1. (\A g \in In(r) : g.type # "settings") => v.initial = LastAsked(c)
  BY DEF Longer, Asked
<1>2. ASSUME NEW k \in 1..Len(r), r[k].type = "settings", \A j \in 1..Len(r) : j > k => r[j].type # "settings"
      PROVE  r[k].n = LastAsked(c)
  <2>1. k \in 1..Len(p) /\ p[k] = r[k]
    BY <1>2 DEF Longer
  <2>2. ASSUME NEW j \in 1..Len(p), j > k PROVE p[j].type # "settings"
    BY <1>2, <2>2 DEF Longer
  <2> QED BY <1>2, <2>1, <2>2 DEF Asked
<1> QED BY <1>1, <1>2

\* The server reads a frame that changes nothing: the end of a stream, of the client's
\* requests or of its session, or credit for a stream that is closed.
LEMMA PopServer ==
  ASSUME NEW o, NEW v, NEW i, NEW c, NEW q, NEW p, NEW b, Inv(o, v, i, c, q, p, b), NEW f, NEW t, Shorter(p, f, t), f.type \notin {"settings", "headers"},
         f.type = "update" => f.of # 0 /\ o[f.of].ph # "open"
  PROVE  Inv(o, v, i, c, q, t, b)
<1>1. t \in Seq(Frames) /\ In(p) = {f} \union In(t) /\ \A z : Asks(p, z) => Asks(t, z)
  BY DEF Shorter
<1>2. Carried(t, "update", {0}) = Carried(p, "update", {0}) /\ NumOf(t, "settings") = NumOf(p, "settings")
  <2>1. f.type # "update" \/ f.n = 0 \/ f.of \notin {0}
    OBVIOUS
  <2> QED BY <2>1, ShorterCounts, ShorterMarks
<1>3. Typed(o, v, i, c, q, t, b)
  BY <1>1 DEF Inv, Typed
<1>4. Wires(o, v, i, c, q, t)
  BY <1>1 DEF Inv, Wires
<1>5. InTurn(q, t)
  BY TurnsShorterServer DEF Inv
<1>6. ConnAgrees(v, c, q, t) /\ Acked(v, c, q, t)
  BY <1>2 DEF Inv, ConnAgrees, Acked
<1>7. Asked(v, c, t)
  BY AskedShorter DEF Inv
<1>8. StreamsAgree(o, i, c, q, t)
  <2> SUFFICES ASSUME NEW s \in Streams PROVE StreamAgrees(s, o, i, c, q, t)
    BY DEF StreamsAgree
  <2>1. StreamAgrees(s, o, i, c, q, p)
    BY DEF Inv, StreamsAgree
  <2>2. CASE o[s].ph = "open"
    <3>1. f.type # "update" \/ f.n = 0 \/ f.of \notin {s}
      BY <2>2
    <3>2. Carried(t, "update", {s}) = Carried(p, "update", {s})
      BY <3>1, ShorterCounts
    <3> QED BY <2>1, <3>2 DEF StreamAgrees
  <2>3. CASE o[s].ph # "open"
    BY <2>1, <2>3 DEF StreamAgrees
  <2> QED BY <2>2, <2>3
<1>9. StreamsEnd(o, v, i, c, q, t)
  BY <1>1 DEF Inv, StreamsEnd
<1>10. Told(v, i, c, q, t)
  BY <1>1 DEF Inv, Told
<1> QED BY <1>3, <1>4, <1>5, <1>6, <1>7, <1>8, <1>9, <1>10 DEF Inv

\* The client sends the end of a stream, of its requests or of its session.
LEMMA AppendServer ==
  ASSUME NEW o, NEW v, NEW i, NEW c, NEW q, NEW p, NEW b, Inv(o, v, i, c, q, p, b), NEW f, NEW r, Longer(p, f, r), f.type \in {"rst", "goaway", "fin"}, ToServer(f, o, v, i, c)
  PROVE  Inv(o, v, i, c, q, r, b)
<1>1. r \in Seq(Frames) /\ In(r) = In(p) \union {f} /\ \A z : Asks(p, z) => Asks(r, z)
  BY DEF Longer
<1>2. (\A S : Carried(r, "update", S) = Carried(p, "update", S)) /\ NumOf(r, "settings") = NumOf(p, "settings")
  <2>1. f.type # "update" /\ f.type # "settings"
    OBVIOUS
  <2> QED BY <2>1, LongerCounts, LongerMarks
<1>3. Typed(o, v, i, c, q, r, b)
  BY <1>1 DEF Inv, Typed
<1>4. Wires(o, v, i, c, q, r)
  BY <1>1 DEF Inv, Wires
<1>5. InTurn(q, r)
  <2>1. f.type # "headers"
    OBVIOUS
  <2> QED BY <2>1, TurnsLongerServer DEF Inv
<1>6. ConnAgrees(v, c, q, r) /\ Acked(v, c, q, r)
  BY <1>2 DEF Inv, ConnAgrees, Acked
<1>7. Asked(v, c, r)
  BY AskedLonger DEF Inv
<1>8. StreamsAgree(o, i, c, q, r)
  BY <1>2 DEF Inv, StreamsAgree, StreamAgrees
<1>9. StreamsEnd(o, v, i, c, q, r)
  BY <1>1 DEF Inv, StreamsEnd
<1>10. Told(v, i, c, q, r)
  BY <1>1 DEF Inv, Told
<1> QED BY <1>3, <1>4, <1>5, <1>6, <1>7, <1>8, <1>9, <1>10 DEF Inv

\* The client's session is over: what it may still send does not matter.
LEMMA ClientGoneServer ==
  ASSUME NEW o, NEW v, NEW i, NEW c, NEW q, NEW p, NEW b, Inv(o, v, i, c, q, p, b), c.gone, NEW r \in Seq(Frames), InTurn(q, r), \A f \in In(r) : ToServer(f, o, v, i, c)
  PROVE  Inv(o, v, i, c, q, r, b)
<1>1. Typed(o, v, i, c, q, r, b)
  BY DEF Inv, Typed
<1>2. Wires(o, v, i, c, q, r)
  BY DEF Inv, Wires
<1>3. \A s \in Streams : i[s].ph # "open"
  BY DEF Inv, Sessions, NoneOpen
<1>4. ConnAgrees(v, c, q, r) /\ Acked(v, c, q, r) /\ Asked(v, c, r) /\ StreamsEnd(o, v, i, c, q, r)
  BY DEF ConnAgrees, Acked, Asked, StreamsEnd
<1>5. StreamsAgree(o, i, c, q, r)
  BY <1>3 DEF StreamsAgree, StreamAgrees
<1>6. Told(v, i, c, q, r)
  BY DEF Told
<1> QED BY <1>1, <1>2, <1>4, <1>5, <1>6 DEF Inv

\* A session that was destroyed: the last frames on their way to the client are lost.
LEMMA PrefixClient ==
  ASSUME NEW o, NEW v, NEW i, NEW c, NEW q, NEW p, NEW b, Inv(o, v, i, c, q, p, b), v.gone, v.cut, NEW k \in 0..Len(q), NEW t, t \in Seq(Frames), In(t) \subseteq In(q), Len(t) = k,
         \A j \in 1..k : j \in 1..Len(q) /\ t[j] = q[j] /\ SubSeq(t, 1, j) = SubSeq(q, 1, j),
         \A type, S : Carried(t, type, S) \in Nat /\ Carried(t, type, S) <= Carried(q, type, S),
         \A type : NumOf(t, type) \in Nat /\ NumOf(t, type) <= NumOf(q, type)
  PROVE  Inv(o, v, i, c, t, p, b)
<1>0. q \in Seq(Frames) /\ c \in ClientType
  BY Facts
<1>1. Typed(o, v, i, c, t, p, b)
  BY DEF Inv, Typed
<1>2. Wires(o, v, i, c, t, p)
  BY DEF Inv, Wires
<1>3. InTurn(t, p)
  BY DEF Inv, InTurn
<1>4. \A s \in Streams : o[s].ph # "open"
  BY DEF Inv, Sessions, NoneOpen
<1>5. ConnAgrees(v, c, t, p)
  <2>1. /\ Carried(t, "data", Streams) \in Nat /\ Carried(t, "data", Streams) <= Carried(q, "data", Streams)
        /\ c.win \in Nat
    BY <1>0 DEF ClientType
  <2>2. Carried(q, "data", Streams) \in Nat
    BY <1>0, CarriedNat
  <2> QED BY <2>1, <2>2 DEF Inv, ConnAgrees
<1>6. Acked(v, c, t, p)
  <2>1. NumOf(t, "ack") \in Nat /\ NumOf(t, "ack") <= NumOf(q, "ack") /\ Len(c.pending) \in Nat
    BY <1>0 DEF ClientType
  <2>2. NumOf(q, "ack") \in Nat
    <3> DEFINE S == {}
    <3>1. Carried(q, "ack", S) \in Nat /\ NumOf(q, "ack") \in Nat
      BY <1>0, CarriedNat
    <3> QED BY <3>1
  <2> QED BY <2>1, <2>2 DEF Inv, Acked
<1>7. StreamsAgree(o, i, c, t, p)
  BY <1>4 DEF Inv, StreamsAgree, StreamAgrees
<1>8. Bytes(o, i, t, b)
  BY <1>4 DEF Inv, Bytes, BytesOf
<1>9. StreamsEnd(o, v, i, c, t, p) /\ Told(v, i, c, t, p)
  BY DEF Inv, StreamsEnd, Told
<1> QED BY <1>1, <1>2, <1>3, <1>5, <1>6, <1>7, <1>8, <1>9 DEF Inv

\* What changes with a request that is read, whether it is refused or not.
LEMMA HeadersFacts ==
  ASSUME NEW o, NEW v, NEW i, NEW c, NEW q, NEW p, NEW b, Inv(o, v, i, c, q, p, b), NEW f, NEW t, Shorter(p, f, t), f.type = "headers"
  PROVE  /\ t \in Seq(Frames) /\ In(p) = {f} \union In(t) /\ InTurn(q, t) /\ Asked(v, c, t)
         /\ (\A S : Carried(t, "update", S) = Carried(p, "update", S)) /\ NumOf(t, "settings") = NumOf(p, "settings")
         /\ f.of \in Streams /\ f.of > v.last /\ f.of <= c.opened /\ f.of \in 0..MaxStreams
         /\ \A g \in In(t) : g.type = "headers" => g.of > f.of
         /\ o[f.of].ph = "none" /\ v.last < f.of
         /\ \A z : z # f.of /\ Asks(p, z) => Asks(t, z)
<1>0. v \in ServerType /\ MaxStreams \in Nat /\ \A s \in Streams : s \in Nat /\ s \in 0..MaxStreams
  BY Facts
<1>1. t \in Seq(Frames) /\ In(p) = {f} \union In(t) /\ \A z : z # f.of /\ Asks(p, z) => Asks(t, z)
  BY DEF Shorter
<1>2. InTurn(q, t) /\ \A g \in In(t) : g.type = "headers" => f.of < g.of
  BY TurnsShorterServer DEF Inv
<1>3. Asked(v, c, t)
  <2>1. f.type # "settings"
    OBVIOUS
  <2> QED BY <2>1, AskedShorter DEF Inv
<1>4. (\A S : Carried(t, "update", S) = Carried(p, "update", S)) /\ NumOf(t, "settings") = NumOf(p, "settings")
  <2>1. f.type # "update" /\ f.type # "settings"
    OBVIOUS
  <2> QED BY <2>1, ShorterCounts, ShorterMarks
<1>5. f.of \in Streams /\ f.of > v.last /\ f.of <= c.opened
  BY <1>1 DEF Inv, Wires, ToServer
<1>6. v.last \in Nat /\ f.of \in Nat
  BY <1>0, <1>5 DEF ServerType
<1>7. o[f.of].ph = "none"
  BY <1>5, <1>6 DEF Inv, StreamsStand, StreamStands
<1>8. \A g \in In(t) : g.type = "headers" => g.of > f.of
  BY <1>2
<1> QED BY <1>0, <1>1, <1>2, <1>3, <1>4, <1>5, <1>6, <1>7, <1>8

\* A request is refused: the client is told so, and the server's program never sees it.
LEMMA HeadersRefused ==
  ASSUME NEW o, NEW v, NEW i, NEW c, NEW q, NEW p, NEW b, Inv(o, v, i, c, q, p, b), Turned(v), ~v.gone, NEW f, NEW t, Shorter(p, f, t), f.type = "headers",
         NEW g, NEW r, Longer(q, g, r), g.type = "refused", g.of = f.of,
         NEW w \in ServerType, w.last = f.of, w.win = v.win, w.initial = v.initial, w.goaway = v.goaway,
         w.closing = v.closing, w.gone = v.gone, w.cut = v.cut
  PROVE  Inv(o, w, i, c, r, t, b)
<1>0. v \in ServerType /\ q \in Seq(Frames) /\ c \in ClientType /\ MaxStreams \in Nat /\ \A s \in Streams : s \in Nat /\ s \in 0..MaxStreams
  BY Facts
<1>1. /\ t \in Seq(Frames) /\ In(p) = {f} \union In(t) /\ InTurn(q, t) /\ Asked(v, c, t)
      /\ (\A S : Carried(t, "update", S) = Carried(p, "update", S)) /\ NumOf(t, "settings") = NumOf(p, "settings")
      /\ f.of \in Streams /\ f.of > v.last /\ f.of <= c.opened /\ f.of \in 0..MaxStreams
      /\ \A h \in In(t) : h.type = "headers" => h.of > f.of
      /\ o[f.of].ph = "none" /\ v.last < f.of
      /\ \A z : z # f.of /\ Asks(p, z) => Asks(t, z)
  BY HeadersFacts
<1>2. r \in Seq(Frames) /\ In(r) = In(q) \union {g} /\ \A z : EndComes(r, z) <=> EndComes(q, z) \/ Ending(g, z)
  BY DEF Longer
<1>3. (\A S : Carried(r, "data", S) = Carried(q, "data", S)) /\ NumOf(r, "ack") = NumOf(q, "ack")
  <2>1. g.type # "data" /\ g.type # "ack"
    OBVIOUS
  <2> QED BY <2>1, LongerCounts, LongerMarks
<1>4. v.last \in Nat /\ f.of \in Nat /\ v.last < f.of /\ c.opened \in Nat
  BY <1>0, <1>1 DEF ServerType, ClientType
<1>5. Typed(o, w, i, c, r, t, b)
  BY <1>1, <1>2 DEF Inv, Typed
<1>6. StreamsStand(o, w, i, c, b)
  <2> SUFFICES ASSUME NEW s \in Streams PROVE StreamStands(s, o, w, i, c, b)
    BY DEF StreamsStand
  <2>1. StreamStands(s, o, v, i, c, b) /\ s \in Nat
    BY <1>0 DEF Inv, StreamsStand
  <2> QED BY <1>4, <2>1 DEF StreamStands, Turned
<1>7. Sessions(o, w, i, c)
  BY <1>1 DEF Inv, Sessions, NoneOpen
<1>8. Wires(o, w, i, c, r, t)
  <2>1. \A h \in In(q) : ToClient(h, o, w)
    BY DEF Inv, Wires, ToClient, Turned
  <2>2. ToClient(g, o, w)
    BY <1>1 DEF ToClient, Turned
  <2>3. \A h \in In(t) : ToServer(h, o, w, i, c)
    <3> SUFFICES ASSUME NEW h \in In(t) PROVE ToServer(h, o, w, i, c)
      OBVIOUS
    <3>1. ToServer(h, o, v, i, c)
      BY <1>1 DEF Inv, Wires
    <3>2. h.type = "headers" => h.of > w.last
      BY <1>1
    <3> QED BY <3>1, <3>2 DEF ToServer
  <2> QED BY <1>2, <2>1, <2>2, <2>3 DEF Wires
<1>9. InTurn(r, t)
  <2>1. \A h \in In(q) : h.type # "fin"
    BY DEF Inv, Wires, ToClient
  <2> QED BY <1>1, <2>1, TurnsLongerClient
<1>10. ConnAgrees(w, c, r, t) /\ Acked(w, c, r, t) /\ Asked(w, c, t)
  BY <1>1, <1>3 DEF Inv, ConnAgrees, Acked, Asked
<1>11. StreamsAgree(o, i, c, r, t)
  BY <1>1, <1>3 DEF Inv, StreamsAgree, StreamAgrees
<1>12. Bytes(o, i, r, b)
  <2> SUFFICES ASSUME NEW z \in Streams, i[z].ph = "open" PROVE BytesOf(z, o, i, r, b)
    BY DEF Bytes, BytesOf
  <2>1. BytesOf(z, o, i, q, b)
    BY DEF Inv, Bytes
  <2>2. ASSUME NEW k \in 1..Len(r), EndFrame(r[k], z)
        PROVE  k \in 1..Len(q) /\ r[k] = q[k] /\ SubSeq(r, 1, k) = SubSeq(q, 1, k)
    BY <2>2 DEF Longer, EndFrame
  <2> QED BY <1>3, <2>1, <2>2 DEF BytesOf
<1>13. StreamsEnd(o, w, i, c, r, t)
  <2> SUFFICES ASSUME ~v.cut, ~c.gone, NEW s \in Streams, i[s].ph = "open"
               PROVE  EndComes(r, s) \/ o[s].ph = "open" \/ Asks(t, s)
    BY DEF StreamsEnd
  <2>1. EndComes(q, s) \/ o[s].ph = "open" \/ Asks(p, s)
    BY DEF Inv, StreamsEnd
  <2>2. s = f.of => Ending(g, s)
    BY DEF Ending
  <2> QED BY <1>1, <1>2, <2>1, <2>2
<1>14. Told(w, i, c, r, t)
  <2>1. Told(v, i, c, q, p)
    BY DEF Inv
  <2>2. ASSUME v.goaway, ~v.cut, ~c.gone
        PROVE  \/ \E h \in In(r) : h.type = "goaway" /\ h.of <= w.last
               \/ c.closing /\ \A s \in Streams : s > w.last => i[s].ph # "open"
    <3>1. ASSUME NEW h \in In(q), h.type = "goaway", h.of <= v.last PROVE h.of <= w.last /\ h \in In(r)
      <4>1. h \in Frames
        BY <1>0, InFrames
      <4>2. h.of \in Nat
        BY <1>0, <4>1 DEF Frames
      <4> QED BY <1>2, <1>4, <3>1, <4>2
    <3>2. \A s \in Streams : s > w.last => s > v.last
      BY <1>0, <1>4
    <3> QED BY <2>1, <2>2, <3>1, <3>2 DEF Told
  <2>3. v.closing /\ ~v.goaway /\ ~c.gone => c.closing /\ \A h \in In(t) : h.type # "headers"
    BY <1>1, <2>1 DEF Told
  <2> QED BY <2>2, <2>3 DEF Told
<1> QED BY <1>5, <1>6, <1>7, <1>8, <1>9, <1>10, <1>11, <1>12, <1>13, <1>14 DEF Inv

\* A request is taken: its stream opens with the window that new streams have.
LEMMA HeadersOpen ==
  ASSUME NEW o, NEW v, NEW i, NEW c, NEW q, NEW p, NEW b, Inv(o, v, i, c, q, p, b), ~Turned(v), ~v.gone, NEW f, NEW t, Shorter(p, f, t), f.type = "headers",
         NEW x \in [Streams -> OutType], \A z \in Streams : z # f.of => x[z] = o[z],
         x[f.of].ph = "open", x[f.of].win = v.initial, x[f.of].todo = b[f.of], x[f.of].chunk = o[f.of].chunk,
         x[f.of].end = o[f.of].end, x[f.of].local = o[f.of].local,
         NEW w \in ServerType, w.last = f.of, w.win = v.win, w.initial = v.initial, w.goaway = v.goaway,
         w.closing = v.closing, w.gone = v.gone, w.cut = v.cut
  PROVE  Inv(x, w, i, c, q, t, b)
<1> DEFINE u == f.of
<1>0. /\ v \in ServerType /\ q \in Seq(Frames) /\ c \in ClientType /\ MaxStreams \in Nat /\ b \in [Streams -> Bodies]
      /\ Bodies \subseteq Nat /\ i \in [Streams -> InType] /\ p \in Seq(Frames)
      /\ \A s \in Streams : s \in Nat /\ s \in 0..MaxStreams /\ s > 0
  BY Facts
<1>1. /\ t \in Seq(Frames) /\ In(p) = {f} \union In(t) /\ InTurn(q, t) /\ Asked(v, c, t)
      /\ (\A S : Carried(t, "update", S) = Carried(p, "update", S)) /\ NumOf(t, "settings") = NumOf(p, "settings")
      /\ f.of \in Streams /\ f.of > v.last /\ f.of <= c.opened /\ f.of \in 0..MaxStreams
      /\ \A h \in In(t) : h.type = "headers" => h.of > f.of
      /\ o[f.of].ph = "none" /\ v.last < f.of
      /\ \A z : z # f.of /\ Asks(p, z) => Asks(t, z)
  BY HeadersFacts
<1>2. /\ u = f.of /\ u \in Streams /\ v.last < u /\ u <= c.opened /\ o[u].ph = "none" /\ x[u].ph = "open" /\ w.last = u
      /\ x[u].win = v.initial /\ x[u].todo = b[u] /\ x[u].chunk = o[u].chunk /\ x[u].end = o[u].end /\ x[u].local = o[u].local
      /\ \A z \in Streams : z # u => x[z] = o[z]
  BY <1>1
<1> HIDE DEF u
<1>3. /\ o[u].chunk = 0 /\ o[u].todo = 0 /\ ~o[u].end /\ ~o[u].local /\ i[u].got = 0
  BY <1>2 DEF Inv, StreamsStand, StreamStands
<1>4. v.last \in Nat /\ u \in Nat /\ c.opened \in Nat /\ v.last < u /\ b[u] \in Nat
  <2>1. v.last \in Nat /\ c.opened \in Nat
    BY <1>0 DEF ServerType, ClientType
  <2>2. b[u] \in Nat
    BY <1>0, <1>2
  <2> QED BY <1>0, <1>2, <2>1, <2>2
<1>5. Typed(x, w, i, c, q, t, b)
  BY <1>1 DEF Inv, Typed
<1>6. StreamsStand(x, w, i, c, b)
  <2> SUFFICES ASSUME NEW s \in Streams PROVE StreamStands(s, x, w, i, c, b)
    BY DEF StreamsStand
  <2>1. StreamStands(s, o, v, i, c, b) /\ s \in Nat
    BY <1>0 DEF Inv, StreamsStand
  <2>2. CASE s # u
    <3>1. x[s] = o[s]
      BY <1>2, <2>2
    <3> QED BY <1>2, <1>4, <2>1, <3>1 DEF StreamStands, Turned
  <2>3. CASE s = u
    <3>1. x[s].ph = "open" /\ x[s].chunk = 0 /\ ~x[s].end /\ i[s].ph # "refused" /\ s <= w.last
      BY <1>2, <1>3, <1>4, <2>1, <2>3 DEF StreamStands
    <3> QED BY <2>1, <3>1 DEF StreamStands
  <2> QED BY <2>2, <2>3
<1>7. Sessions(x, w, i, c)
  BY <1>2 DEF Inv, Sessions
<1>8. Wires(x, w, i, c, q, t)
  <2>1. ASSUME NEW s \in Streams, o[s].ph # "none" PROVE x[s].ph # "none"
    BY <1>2, <2>1
  <2>2. \A h \in In(q) : ToClient(h, x, w)
    BY <2>1 DEF Inv, Wires, ToClient, Turned
  <2>3. \A h \in In(t) : ToServer(h, x, w, i, c)
    <3> SUFFICES ASSUME NEW h \in In(t) PROVE ToServer(h, x, w, i, c)
      OBVIOUS
    <3>1. ToServer(h, o, v, i, c)
      BY <1>1 DEF Inv, Wires
    <3>2. h.type = "headers" => h.of > w.last
      BY <1>1
    <3> QED BY <2>1, <3>1, <3>2 DEF ToServer
  <2> QED BY <2>2, <2>3 DEF Wires
<1>9. ConnAgrees(w, c, q, t) /\ Acked(w, c, q, t) /\ Asked(w, c, t)
  BY <1>1 DEF Inv, ConnAgrees, Acked, Asked
<1>10. Carried(q, "data", {u}) = 0
  <2>1. \A k \in 1..Len(q) : q[k].type = "data" => q[k].of \notin {u}
    BY <1>2 DEF Inv, Wires, ToClient, In
  <2>2. q \in Seq(Frames)
    BY <1>0
  <2> QED BY <2>1, <2>2, CarriedNone
<1>11. Carried(t, "update", {u}) = 0
  <2>1. \A k \in 1..Len(p) : p[k].type = "update" => p[k].of \notin {u}
    <3> SUFFICES ASSUME NEW k \in 1..Len(p), p[k].type = "update", p[k].of = u PROVE FALSE
      OBVIOUS
    <3>1. ToServer(p[k], o, v, i, c) /\ u # 0
      BY <1>0, <1>2 DEF Inv, Wires, In
    <3> QED BY <1>2, <3>1 DEF ToServer
  <2>2. Carried(p, "update", {u}) = 0
    BY <1>0, <2>1, CarriedNone
  <2> QED BY <1>1, <2>2
<1>12. StreamsAgree(x, i, c, q, t)
  <2> SUFFICES ASSUME NEW s \in Streams, Settled, i[s].ph = "open" PROVE StreamAgrees(s, x, i, c, q, t)
    BY DEF StreamsAgree, StreamAgrees
  <2>1. StreamAgrees(s, o, i, c, q, p) /\ ~c.gone
    BY DEF Inv, StreamsAgree, Sessions, NoneOpen
  <2>2. CASE s # u
    <3>1. x[s] = o[s]
      BY <1>2, <2>2
    <3> QED BY <1>1, <2>1, <3>1 DEF StreamAgrees
  <2>3. CASE s = u
    <3>1. c.pending = <<>> /\ i[s].win = c.local
      BY <1>2, <2>1, <2>3 DEF StreamAgrees
    <3>2. v.initial = c.local
      <4>1. NumOf(p, "settings") \in Nat /\ NumOf(q, "ack") \in Nat
        <5> DEFINE S == {}
        <5>1. /\ Carried(p, "settings", S) \in Nat /\ NumOf(p, "settings") \in Nat
              /\ Carried(q, "ack", S) \in Nat /\ NumOf(q, "ack") \in Nat
          BY <1>0, CarriedNat
        <5> QED BY <5>1
      <4>2. NumOf(p, "settings") = 0
        <5>1. Len(c.pending) = NumOf(p, "settings") + NumOf(q, "ack")
          BY <2>1 DEF Inv, Acked
        <5>2. Len(c.pending) = 0
          BY <3>1
        <5> QED BY <4>1, <5>1, <5>2
      <4>3. \A h \in In(p) : h.type # "settings"
        BY <1>0, <4>2, NumOfZero
      <4> QED BY <2>1, <3>1, <4>3 DEF Inv, Asked, LastAsked
    <3>3. x[s].ph = "open" /\ x[s].win = v.initial /\ Carried(q, "data", {s}) = 0 /\ Carried(t, "update", {s}) = 0
          /\ v.initial \in Nat
      BY <1>0, <1>2, <1>10, <1>11, <2>3 DEF ServerType
    <3> QED BY <3>1, <3>2, <3>3 DEF StreamAgrees
  <2> QED BY <2>2, <2>3
<1>13. Bytes(x, i, q, b)
  <2> SUFFICES ASSUME NEW s \in Streams PROVE BytesOf(s, x, i, q, b)
    BY DEF Bytes
  <2>1. BytesOf(s, o, i, q, b)
    BY DEF Inv, Bytes
  <2>2. CASE s # u
    <3>1. x[s] = o[s]
      BY <1>2, <2>2
    <3> QED BY <2>1, <3>1 DEF BytesOf
  <2>3. CASE s = u
    <3>1. b[s] = i[s].got + Carried(q, "data", {s}) + x[s].chunk + x[s].todo
      BY <1>2, <1>3, <1>4, <1>10, <2>3
    <3> QED BY <2>1, <3>1 DEF BytesOf
  <2> QED BY <2>2, <2>3
<1>14. StreamsEnd(x, w, i, c, q, t)
  <2> SUFFICES ASSUME ~v.cut, ~c.gone, NEW s \in Streams, i[s].ph = "open"
               PROVE  EndComes(q, s) \/ x[s].ph = "open" \/ Asks(t, s)
    BY DEF StreamsEnd
  <2>1. EndComes(q, s) \/ o[s].ph = "open" \/ Asks(p, s)
    BY DEF Inv, StreamsEnd
  <2> QED BY <1>1, <1>2, <2>1
<1>15. Told(w, i, c, q, t)
  BY DEF Told, Turned
<1> QED BY <1>1, <1>5, <1>6, <1>7, <1>8, <1>9, <1>12, <1>13, <1>14, <1>15 DEF Inv

\* How many frames of a type are under way is a number.
LEMMA NumNat ==
  ASSUME NEW q \in Seq(Frames), NEW type
  PROVE  NumOf(q, type) \in Nat
<1> DEFINE S == {}
<1>1. Carried(q, type, S) \in Nat /\ NumOf(q, type) \in Nat
  BY CarriedNat
<1> QED BY <1>1

\* One frame of its type less, and one more.
LEMMA ShorterOne ==
  ASSUME NEW q, NEW f, NEW t, Shorter(q, f, t)
  PROVE  NumOf(q, f.type) = NumOf(t, f.type) + 1 /\ NumOf(t, f.type) \in Nat
<1> DEFINE S == {}
<1>1. /\ NumOf(q, f.type) = (IF f.type = f.type THEN 1 ELSE 0) + NumOf(t, f.type)
      /\ Carried(t, f.type, S) \in Nat /\ NumOf(t, f.type) \in Nat
  BY DEF Shorter
<1> QED BY <1>1

\* One frame more of a type.
LEMMA LongerOne ==
  ASSUME NEW q, NEW f, NEW r, Longer(q, f, r)
  PROVE  NumOf(r, f.type) = NumOf(q, f.type) + 1 /\ NumOf(q, f.type) \in Nat
<1> DEFINE S == {}
<1>1. /\ NumOf(r, f.type) = NumOf(q, f.type) + (IF f.type = f.type THEN 1 ELSE 0)
      /\ Carried(q, f.type, S) \in Nat /\ NumOf(q, f.type) \in Nat
  BY DEF Longer
<1> QED BY <1>1

\* A SETTINGS frame is read: the open streams' windows move, and it is acknowledged.
LEMMA PopSettings ==
  ASSUME NEW o, NEW v, NEW i, NEW c, NEW q, NEW p, NEW b, Inv(o, v, i, c, q, p, b), ~v.gone, NEW f, NEW t, Shorter(p, f, t), f.type = "settings",
         NEW g, NEW r, Longer(q, g, r), g.type = "ack",
         NEW x \in [Streams -> OutType],
         \A z \in Streams : /\ x[z].ph = o[z].ph /\ x[z].chunk = o[z].chunk /\ x[z].todo = o[z].todo
                            /\ x[z].end = o[z].end /\ x[z].local = o[z].local /\ x[z].queued = o[z].queued,
         NEW w \in ServerType, w.initial = f.n, w.win = v.win, w.last = v.last, w.goaway = v.goaway,
         w.closing = v.closing, w.gone = v.gone, w.cut = v.cut
  PROVE  Inv(x, w, i, c, r, t, b)
<1>1. t \in Seq(Frames) /\ In(p) = {f} \union In(t) /\ \A z : Asks(p, z) => Asks(t, z)
  BY DEF Shorter
<1>2. r \in Seq(Frames) /\ In(r) = In(q) \union {g} /\ \A z : EndComes(q, z) => EndComes(r, z)
  BY DEF Longer
<1>3. \A S : Carried(r, "data", S) = Carried(q, "data", S)
  <2>1. g.type # "data"
    OBVIOUS
  <2> QED BY <2>1, LongerCounts
<1>4. \A S : Carried(t, "update", S) = Carried(p, "update", S)
  <2>1. f.type # "update"
    OBVIOUS
  <2> QED BY <2>1, ShorterCounts
<1>5. /\ NumOf(r, "ack") = NumOf(q, "ack") + 1 /\ NumOf(q, "ack") \in Nat
      /\ NumOf(p, "settings") = NumOf(t, "settings") + 1 /\ NumOf(t, "settings") \in Nat
  BY LongerOne, ShorterOne
<1>6. Typed(x, w, i, c, r, t, b)
  BY <1>1, <1>2 DEF Inv, Typed
<1>7. StreamsStand(x, w, i, c, b)
  <2> SUFFICES ASSUME NEW s \in Streams PROVE StreamStands(s, x, w, i, c, b)
    BY DEF StreamsStand
  <2>1. StreamStands(s, o, v, i, c, b)
    BY DEF Inv, StreamsStand
  <2> QED BY <2>1 DEF StreamStands, Turned
<1>8. Sessions(x, w, i, c)
  BY DEF Inv, Sessions
<1>9. Wires(x, w, i, c, r, t)
  <2>1. \A h \in In(q) : ToClient(h, x, w)
    BY DEF Inv, Wires, ToClient, Turned
  <2>2. ToClient(g, x, w)
    BY DEF ToClient
  <2>3. \A h \in In(t) : ToServer(h, x, w, i, c)
    BY <1>1 DEF Inv, Wires, ToServer
  <2> QED BY <1>2, <2>1, <2>2, <2>3 DEF Wires
<1>10. InTurn(r, t)
  <2>1. \A h \in In(q) : h.type # "fin"
    BY DEF Inv, Wires, ToClient
  <2>2. InTurn(q, t)
    BY TurnsShorterServer DEF Inv
  <2> QED BY <2>1, <2>2, TurnsLongerClient
<1>11. ConnAgrees(w, c, r, t)
  BY <1>3, <1>4 DEF Inv, ConnAgrees
<1>12. Acked(w, c, r, t)
  <2>1. Acked(v, c, q, p)
    BY DEF Inv
  <2> QED BY <1>5, <2>1 DEF Acked
<1>13. Asked(w, c, t)
  <2> SUFFICES ASSUME ~c.gone
               PROVE  /\ (\A h \in In(t) : h.type # "settings") => f.n = LastAsked(c)
                      /\ \A k \in 1..Len(t) :
                           t[k].type = "settings" /\ (\A j \in 1..Len(t) : j > k => t[j].type # "settings")
                             => t[k].n = LastAsked(c)
    BY DEF Asked
  <2>1. Asked(v, c, p)
    BY DEF Inv
  <2>2. ASSUME \A h \in In(t) : h.type # "settings" PROVE f.n = LastAsked(c)
    <3>1. ASSUME NEW j \in 1..Len(p), j > 1 PROVE p[j].type # "settings"
      <4>1. j - 1 \in 1..Len(t) /\ p[j] = t[j - 1]
        BY <3>1 DEF Shorter
      <4> DEFINE y == j - 1
      <4>2. y \in 1..Len(t) /\ p[j] = t[y]
        BY <4>1
      <4> HIDE DEF y
      <4> QED BY <2>2, <4>2 DEF In
    <3>2. 1 \in 1..Len(p) /\ p[1] = f
      BY DEF Shorter
    <3> QED BY <2>1, <3>1, <3>2 DEF Asked
  <2>3. ASSUME NEW k \in 1..Len(t), t[k].type = "settings", \A j \in 1..Len(t) : j > k => t[j].type # "settings"
        PROVE  t[k].n = LastAsked(c)
    <3> DEFINE z == k + 1
    <3>1. z \in 1..Len(p) /\ p[z] = t[k]
      BY DEF Shorter
    <3>2. ASSUME NEW j \in 1..Len(p), j > z PROVE p[j].type # "settings"
      <4> DEFINE y == j - 1
      <4>1. y \in 1..Len(t) /\ p[j] = t[y]
        BY <3>2 DEF Shorter
      <4>2. y > k
        BY <3>2 DEF Shorter
      <4> HIDE DEF y
      <4> QED BY <2>3, <4>1, <4>2
    <3> HIDE DEF z
    <3> QED BY <2>1, <2>3, <3>1, <3>2 DEF Asked
  <2> QED BY <2>2, <2>3
<1>14. StreamsAgree(x, i, c, r, t)
  <2> SUFFICES ASSUME NEW s \in Streams, Settled, i[s].ph = "open" PROVE FALSE
    BY DEF StreamsAgree, StreamAgrees
  <2>1. c.pending = <<>> /\ ~c.gone
    BY DEF Inv, StreamsAgree, StreamAgrees, Sessions, NoneOpen
  <2>2. Len(c.pending) = NumOf(p, "settings") + NumOf(q, "ack")
    BY <2>1 DEF Inv, Acked
  <2>3. Len(c.pending) = 0
    BY <2>1
  <2> QED BY <1>5, <2>2, <2>3
<1>15. Bytes(x, i, r, b)
  <2> SUFFICES ASSUME NEW z \in Streams, i[z].ph = "open" PROVE BytesOf(z, x, i, r, b)
    BY DEF Bytes, BytesOf
  <2>1. BytesOf(z, o, i, q, b)
    BY DEF Inv, Bytes
  <2>2. ASSUME NEW k \in 1..Len(r), EndFrame(r[k], z)
        PROVE  k \in 1..Len(q) /\ r[k] = q[k] /\ SubSeq(r, 1, k) = SubSeq(q, 1, k)
    BY <2>2 DEF Longer, EndFrame
  <2> QED BY <1>3, <2>1, <2>2 DEF BytesOf
<1>16. StreamsEnd(x, w, i, c, r, t)
  BY <1>1, <1>2 DEF Inv, StreamsEnd
<1>17. Told(w, i, c, r, t)
  BY <1>1, <1>2 DEF Inv, Told
<1> QED BY <1>6, <1>7, <1>8, <1>9, <1>10, <1>11, <1>12, <1>13, <1>14, <1>15, <1>16, <1>17 DEF Inv

\* Credit for the connection is read.
LEMMA UpdateConn ==
  ASSUME NEW o, NEW v, NEW i, NEW c, NEW q, NEW p, NEW b, Inv(o, v, i, c, q, p, b), ~v.gone, NEW f, NEW t, Shorter(p, f, t), f.type = "update", f.of = 0,
         NEW w \in ServerType, w.win = v.win + f.n, w.initial = v.initial, w.last = v.last, w.goaway = v.goaway,
         w.closing = v.closing, w.gone = v.gone, w.cut = v.cut
  PROVE  Inv(o, w, i, c, q, t, b)
<1>0. v \in ServerType /\ q \in Seq(Frames) /\ 0 \notin Streams
  BY Facts
<1>1. t \in Seq(Frames) /\ In(p) = {f} \union In(t) /\ \A z : Asks(p, z) => Asks(t, z)
  BY DEF Shorter
<1>2. NumOf(t, "settings") = NumOf(p, "settings")
  <2>1. f.type # "settings"
    OBVIOUS
  <2> QED BY <2>1, ShorterMarks
<1>3. Typed(o, w, i, c, q, t, b)
  BY <1>1 DEF Inv, Typed
<1>4. StreamsStand(o, w, i, c, b)
  BY DEF Inv, StreamsStand, StreamStands, Turned
<1>5. Sessions(o, w, i, c)
  BY DEF Inv, Sessions
<1>6. Wires(o, w, i, c, q, t)
  <2>1. \A h \in In(q) : ToClient(h, o, w)
    BY DEF Inv, Wires, ToClient, Turned
  <2>2. \A h \in In(t) : ToServer(h, o, w, i, c)
    BY <1>1 DEF Inv, Wires, ToServer
  <2> QED BY <2>1, <2>2 DEF Wires
<1>7. InTurn(q, t)
  BY TurnsShorterServer DEF Inv
<1>8. ConnAgrees(w, c, q, t)
  <2>1. /\ Carried(p, "update", {0}) = (IF f.type = "update" /\ f.of \in {0} THEN f.n ELSE 0) + Carried(t, "update", {0})
        /\ Carried(t, "update", {0}) \in Nat /\ f \in Frames
    BY DEF Shorter
  <2>2. Carried(q, "data", Streams) \in Nat
    <3>1. q \in Seq(Frames)
      BY <1>0
    <3> QED BY <3>1, CarriedNat
  <2>3. f.n \in Nat /\ v.win \in Nat
    BY <1>0, <2>1 DEF Frames, ServerType
  <2>4. Carried(p, "update", {0}) = f.n + Carried(t, "update", {0})
    BY <2>1
  <2>5. v.win + Carried(q, "data", Streams) + Carried(p, "update", {0})
          = w.win + Carried(q, "data", Streams) + Carried(t, "update", {0})
    BY <2>1, <2>2, <2>3, <2>4
  <2> QED BY <2>5 DEF Inv, ConnAgrees
<1>9. Acked(w, c, q, t)
  BY <1>2 DEF Inv, Acked
<1>10. Asked(w, c, t)
  <2>1. f.type # "settings"
    OBVIOUS
  <2>2. Asked(v, c, t)
    BY <2>1, AskedShorter DEF Inv
  <2> QED BY <2>2 DEF Asked
<1>11. StreamsAgree(o, i, c, q, t)
  <2> SUFFICES ASSUME NEW s \in Streams PROVE StreamAgrees(s, o, i, c, q, t)
    BY DEF StreamsAgree
  <2>1. f.of \notin {s}
    BY <1>0
  <2>2. Carried(t, "update", {s}) = Carried(p, "update", {s})
    BY <2>1, ShorterCounts
  <2> QED BY <2>2 DEF Inv, StreamsAgree, StreamAgrees
<1>12. StreamsEnd(o, w, i, c, q, t)
  BY <1>1 DEF Inv, StreamsEnd
<1>13. Told(w, i, c, q, t)
  BY <1>1 DEF Inv, Told
<1> QED BY <1>3, <1>4, <1>5, <1>6, <1>7, <1>8, <1>9, <1>10, <1>11, <1>12, <1>13 DEF Inv

\* Credit for an open stream is read.
LEMMA UpdateStream ==
  ASSUME NEW o, NEW v, NEW i, NEW c, NEW q, NEW p, NEW b, Inv(o, v, i, c, q, p, b), NEW f, NEW t, Shorter(p, f, t), f.type = "update", f.of \in Streams,
         NEW x \in [Streams -> OutType], \A z \in Streams : z # f.of => x[z] = o[z],
         o[f.of].ph = "open", x[f.of].ph = "open", x[f.of].win = o[f.of].win + f.n, x[f.of].chunk = o[f.of].chunk,
         x[f.of].todo = o[f.of].todo, x[f.of].end = o[f.of].end, x[f.of].local = o[f.of].local
  PROVE  Inv(x, v, i, c, q, t, b)
<1> DEFINE u == f.of
<1>0. o \in [Streams -> OutType] /\ v \in ServerType /\ q \in Seq(Frames) /\ 0 \notin Streams
  BY Facts
<1>1. t \in Seq(Frames) /\ In(p) = {f} \union In(t) /\ \A z : Asks(p, z) => Asks(t, z)
  BY DEF Shorter
<1>2. /\ u = f.of /\ u \in Streams /\ \A z \in Streams : z # u => x[z] = o[z]
      /\ o[u].ph = "open" /\ x[u].ph = "open" /\ x[u].win = o[u].win + f.n /\ x[u].chunk = o[u].chunk
      /\ x[u].todo = o[u].todo /\ x[u].end = o[u].end /\ x[u].local = o[u].local
  OBVIOUS
<1> HIDE DEF u
<1>3. \A z \in Streams : /\ x[z].ph = o[z].ph /\ x[z].chunk = o[z].chunk /\ x[z].todo = o[z].todo
                         /\ x[z].end = o[z].end /\ x[z].local = o[z].local /\ (x[z].ph = "none" => x[z] = o[z])
  BY <1>2
<1>4. f.type # "settings" /\ NumOf(t, "settings") = NumOf(p, "settings")
  <2>1. f.type # "settings"
    OBVIOUS
  <2> QED BY <2>1, ShorterMarks
<1>5. Typed(x, v, i, c, q, t, b)
  BY <1>1 DEF Inv, Typed
<1>6. StreamsStand(x, v, i, c, b)
  <2> SUFFICES ASSUME NEW s \in Streams PROVE StreamStands(s, x, v, i, c, b)
    BY DEF StreamsStand
  <2>1. StreamStands(s, o, v, i, c, b)
    BY DEF Inv, StreamsStand
  <2> QED BY <1>3, <2>1 DEF StreamStands
<1>7. Sessions(x, v, i, c)
  BY <1>3 DEF Inv, Sessions, NoneOpen
<1>8. Wires(x, v, i, c, q, t)
  <2>1. \A h \in In(q) : ToClient(h, x, v)
    BY <1>3 DEF Inv, Wires, ToClient
  <2>2. \A h \in In(t) : ToServer(h, x, v, i, c)
    BY <1>1, <1>3 DEF Inv, Wires, ToServer
  <2> QED BY <2>1, <2>2 DEF Wires
<1>9. InTurn(q, t)
  BY TurnsShorterServer DEF Inv
<1>10. ConnAgrees(v, c, q, t)
  <2>1. f.of \notin {0}
    BY <1>0
  <2>2. Carried(t, "update", {0}) = Carried(p, "update", {0})
    BY <2>1, ShorterCounts
  <2> QED BY <2>2 DEF Inv, ConnAgrees
<1>11. Acked(v, c, q, t)
  BY <1>4 DEF Inv, Acked
<1>12. Asked(v, c, t)
  BY <1>4, AskedShorter DEF Inv
<1>13. StreamsAgree(x, i, c, q, t)
  <2> SUFFICES ASSUME NEW s \in Streams PROVE StreamAgrees(s, x, i, c, q, t)
    BY DEF StreamsAgree
  <2>1. StreamAgrees(s, o, i, c, q, p)
    BY DEF Inv, StreamsAgree
  <2>2. CASE s # u
    <3>1. f.of \notin {s}
      BY <1>2, <2>2
    <3>2. Carried(t, "update", {s}) = Carried(p, "update", {s})
      BY <3>1, ShorterCounts
    <3>3. x[s] = o[s]
      BY <1>2, <2>2
    <3> QED BY <2>1, <3>2, <3>3 DEF StreamAgrees
  <2>3. CASE s = u
    <3>1. /\ Carried(p, "update", {s}) = (IF f.type = "update" /\ f.of \in {s} THEN f.n ELSE 0) + Carried(t, "update", {s})
          /\ Carried(t, "update", {s}) \in Nat /\ f \in Frames
      BY DEF Shorter
    <3>2. Carried(q, "data", {s}) \in Nat
      <4>1. q \in Seq(Frames)
        BY <1>0
      <4> QED BY <4>1, CarriedNat
    <3>3. f.n \in Nat /\ o[s].win \in Int
      BY <1>0, <3>1 DEF Frames, OutType
    <3>4. Carried(p, "update", {s}) = f.n + Carried(t, "update", {s})
      BY <1>2, <2>3, <3>1
    <3>5. x[s].win = o[s].win + f.n /\ x[s].ph = "open" /\ o[s].ph = "open"
      BY <1>2, <2>3
    <3>6. o[s].win + Carried(q, "data", {s}) + Carried(p, "update", {s})
            = x[s].win + Carried(q, "data", {s}) + Carried(t, "update", {s})
      BY <3>1, <3>2, <3>3, <3>4, <3>5
    <3> QED BY <2>1, <3>5, <3>6 DEF StreamAgrees
  <2> QED BY <2>2, <2>3
<1>14. Bytes(x, i, q, b)
  BY <1>3 DEF Inv, Bytes, BytesOf
<1>15. StreamsEnd(x, v, i, c, q, t)
  BY <1>1, <1>3 DEF Inv, StreamsEnd
<1>16. Told(v, i, c, q, t)
  BY <1>1 DEF Inv, Told
<1> QED BY <1>5, <1>6, <1>7, <1>8, <1>9, <1>10, <1>11, <1>12, <1>13, <1>14, <1>15, <1>16 DEF Inv

\* session.request(): a stream opens at the client, with the window it has agreed to.
LEMMA AskStream ==
  ASSUME NEW o, NEW v, NEW i, NEW c, NEW q, NEW p, NEW b, Inv(o, v, i, c, q, p, b), ~c.gone, ~c.closing, Settled => c.pending = <<>>,
         NEW u \in Streams, u = c.opened + 1,
         NEW f, NEW r, Longer(p, f, r), f.type = "headers", f.of = u,
         NEW x \in [Streams -> InType], \A z \in Streams : z # u => x[z] = i[z],
         x[u].ph = "open", x[u].win = c.local, x[u].got = i[u].got, x[u].unread = i[u].unread, x[u].credit = i[u].credit,
         NEW d \in ClientType, d.opened = u, d.win = c.win, d.local = c.local, d.pending = c.pending,
         d.closing = c.closing, d.gone = c.gone
  PROVE  Inv(o, v, x, d, q, r, b)
<1>0. /\ v \in ServerType /\ q \in Seq(Frames) /\ c \in ClientType /\ MaxStreams \in Nat /\ p \in Seq(Frames)
      /\ i \in [Streams -> InType]
      /\ \A s \in Streams : s \in Nat /\ s \in 0..MaxStreams /\ s > 0
  BY Facts
<1>1. /\ r \in Seq(Frames) /\ In(r) = In(p) \union {f} /\ \A z : Asks(r, z) <=> Asks(p, z) \/ (f.type = "headers" /\ f.of = z)
  BY DEF Longer
<1>2. /\ \A S : Carried(r, "update", S) = Carried(p, "update", S)
      /\ NumOf(r, "settings") = NumOf(p, "settings")
  <2>1. f.type # "update" /\ f.type # "settings"
    OBVIOUS
  <2> QED BY <2>1, LongerCounts, LongerMarks
<1>3. c.opened \in Nat /\ v.last \in Nat /\ u \in Nat /\ v.last <= c.opened /\ u > c.opened /\ u > v.last
  <2>1. c.opened \in Nat /\ v.last \in Nat
    BY <1>0 DEF ClientType, ServerType
  <2>2. v.last <= c.opened
    BY DEF Inv, Sessions
  <2> QED BY <2>1, <2>2
<1>4. o[u].ph = "none" /\ i[u].ph = "none"
  <2>1. StreamStands(u, o, v, i, c, b)
    BY DEF Inv, StreamsStand
  <2> QED BY <1>3, <2>1 DEF StreamStands
<1>5. \A z \in Streams : z # u => (z > c.opened <=> z > d.opened)
  <2> SUFFICES ASSUME NEW z \in Streams, z # u PROVE z > c.opened <=> z > d.opened
    OBVIOUS
  <2>1. z \in Nat
    BY <1>0
  <2> QED BY <1>3, <2>1
<1>6. Typed(o, v, x, d, q, r, b)
  BY <1>1 DEF Inv, Typed
<1>7. StreamsStand(o, v, x, d, b)
  <2> SUFFICES ASSUME NEW s \in Streams PROVE StreamStands(s, o, v, x, d, b)
    BY DEF StreamsStand
  <2>1. StreamStands(s, o, v, i, c, b)
    BY DEF Inv, StreamsStand
  <2>2. CASE s # u
    <3>1. x[s] = i[s] /\ (s > c.opened <=> s > d.opened)
      BY <1>5, <2>2
    <3> QED BY <2>1, <3>1 DEF StreamStands
  <2>3. CASE s = u
    <3>1. ~(s > d.opened) /\ x[s].ph = "open"
      BY <1>3, <2>3
    <3> QED BY <2>1, <2>3, <3>1 DEF StreamStands
  <2> QED BY <2>2, <2>3
<1>8. Sessions(o, v, x, d)
  BY <1>3 DEF Inv, Sessions
<1>9. Wires(o, v, x, d, q, r)
  <2>1. \A h \in In(q) : ToClient(h, o, v)
    BY DEF Inv, Wires
  <2>2. ASSUME NEW h \in In(p) PROVE ToServer(h, o, v, x, d)
    <3>1. ToServer(h, o, v, i, c)
      BY DEF Inv, Wires
    <3>2. h.type = "headers" => h.of <= d.opened
      <4> SUFFICES ASSUME h.type = "headers" PROVE h.of <= d.opened
        OBVIOUS
      <4>1. h.of \in Streams /\ h.of <= c.opened
        BY <3>1 DEF ToServer
      <4>2. h.of \in Nat
        BY <1>0, <4>1
      <4> QED BY <1>3, <4>1, <4>2
    <3>3. h.type = "rst" => h.of # u
      BY <1>4, <3>1 DEF ToServer
    <3> QED BY <3>1, <3>2, <3>3 DEF ToServer
  <2>3. ToServer(f, o, v, x, d)
    BY <1>3 DEF ToServer
  <2> QED BY <1>1, <2>1, <2>2, <2>3 DEF Wires
<1>10. InTurn(q, r)
  <2> SUFFICES ASSUME NEW h \in In(p) PROVE h.type # "goaway" /\ (h.type = "headers" => h.of < f.of)
    BY TurnsLongerServer DEF Inv
  <2>1. ToServer(h, o, v, i, c)
    BY DEF Inv, Wires
  <2>2. h.type = "headers" => h.of < f.of
    <3> SUFFICES ASSUME h.type = "headers" PROVE h.of < f.of
      OBVIOUS
    <3>1. h.of \in Streams /\ h.of <= c.opened
      BY <2>1 DEF ToServer
    <3>2. h.of \in Nat
      BY <1>0, <3>1
    <3> QED BY <1>3, <3>1, <3>2
  <2> QED BY <2>1, <2>2 DEF ToServer
<1>11. ConnAgrees(v, d, q, r) /\ Acked(v, d, q, r)
  BY <1>2 DEF Inv, ConnAgrees, Acked
<1>12. Asked(v, d, r)
  <2>1. f.type # "settings"
    OBVIOUS
  <2>2. Asked(v, c, r)
    BY <2>1, AskedLonger DEF Inv
  <2>3. LastAsked(d) = LastAsked(c)
    BY DEF LastAsked
  <2> QED BY <2>2, <2>3 DEF Asked
<1>13. StreamsAgree(o, x, d, q, r)
  <2> SUFFICES ASSUME NEW s \in Streams, Settled PROVE StreamAgrees(s, o, x, d, q, r)
    BY DEF StreamsAgree, StreamAgrees
  <2>1. StreamAgrees(s, o, i, c, q, p)
    BY DEF Inv, StreamsAgree
  <2>2. CASE s # u
    BY <1>2, <2>1, <2>2 DEF StreamAgrees
  <2>3. CASE s = u
    BY <1>4, <2>3 DEF StreamAgrees
  <2> QED BY <2>2, <2>3
<1>14. Bytes(o, x, q, b)
  <2> SUFFICES ASSUME NEW s \in Streams PROVE BytesOf(s, o, x, q, b)
    BY DEF Bytes
  <2>1. CASE s # u
    BY <2>1 DEF Inv, Bytes, BytesOf
  <2>2. CASE s = u
    <3>1. \A k \in 1..Len(q) : ~EndFrame(q[k], s)
      BY <1>4, <2>2 DEF EndFrame, Inv, Wires, ToClient, In
    <3> QED BY <1>4, <2>2, <3>1 DEF BytesOf
  <2> QED BY <2>1, <2>2
<1>15. StreamsEnd(o, v, x, d, q, r)
  <2> SUFFICES ASSUME ~v.cut, NEW s \in Streams, x[s].ph = "open"
               PROVE  EndComes(q, s) \/ (~v.gone /\ (o[s].ph = "open" \/ Asks(r, s)))
    BY DEF StreamsEnd
  <2>1. CASE s # u
    BY <1>1, <2>1 DEF Inv, StreamsEnd
  <2>2. CASE s = u
    <3>1. CASE ~v.gone
      BY <1>1, <2>2, <3>1
    <3>2. CASE v.gone
      <4>1. v.closing /\ Told(v, i, c, q, p)
        BY <3>2 DEF Inv, Sessions
      <4>2. PICK h \in In(q) : h.type = "goaway" /\ h.of <= v.last
        BY <4>1 DEF Told
      <4>3. h.of \in Nat
        <5>1. q \in Seq(Frames)
          BY <1>0
        <5>2. h \in Frames
          BY <4>2, <5>1, InFrames
        <5> QED BY <1>0, <5>2 DEF Frames
      <4>4. h.of < s
        BY <1>3, <2>2, <4>2, <4>3
      <4> QED BY <4>2, <4>4 DEF EndComes, Ending
    <3> QED BY <3>1, <3>2
  <2> QED BY <2>1, <2>2
<1>16. Told(v, x, d, q, r)
  BY DEF Inv, Told
<1> QED BY <1>6, <1>7, <1>8, <1>9, <1>10, <1>11, <1>12, <1>13, <1>14, <1>15, <1>16 DEF Inv

\* session.settings()
LEMMA AskSettings ==
  ASSUME NEW o, NEW v, NEW i, NEW c, NEW q, NEW p, NEW b, Inv(o, v, i, c, q, p, b), ~c.gone, Settled => NoneOpen(i), NEW n \in Nat,
         NEW f, NEW r, Longer(p, f, r), f.type = "settings", f.n = n,
         NEW d \in ClientType, d.pending # <<>>, Len(d.pending) = Len(c.pending) + 1, d.pending[Len(d.pending)] = n,
         d.opened = c.opened, d.win = c.win, d.closing = c.closing, d.gone = c.gone
  PROVE  Inv(o, v, i, d, q, r, b)
<1>0. c \in ClientType /\ p \in Seq(Frames) /\ q \in Seq(Frames)
  BY Facts
<1>1. r \in Seq(Frames) /\ In(r) = In(p) \union {f} /\ \A z : Asks(p, z) => Asks(r, z)
  BY DEF Longer
<1>2. \A S : Carried(r, "update", S) = Carried(p, "update", S)
  <2>1. f.type # "update"
    OBVIOUS
  <2> QED BY <2>1, LongerCounts
<1>3. NumOf(r, "settings") = NumOf(p, "settings") + 1 /\ NumOf(p, "settings") \in Nat
  BY LongerOne
<1>4. Typed(o, v, i, d, q, r, b)
  BY <1>1 DEF Inv, Typed
<1>5. StreamsStand(o, v, i, d, b)
  BY DEF Inv, StreamsStand, StreamStands
<1>6. Sessions(o, v, i, d)
  BY DEF Inv, Sessions
<1>7. Wires(o, v, i, d, q, r)
  <2>1. \A h \in In(p) : ToServer(h, o, v, i, d)
    BY DEF Inv, Wires, ToServer
  <2>2. ToServer(f, o, v, i, d)
    BY DEF ToServer
  <2> QED BY <1>1, <2>1, <2>2 DEF Inv, Wires
<1>8. InTurn(q, r)
  <2>1. f.type # "headers"
    OBVIOUS
  <2> QED BY <2>1, TurnsLongerServer DEF Inv
<1>9. ConnAgrees(v, d, q, r)
  BY <1>2 DEF Inv, ConnAgrees
<1>10. Acked(v, d, q, r)
  <2>1. Acked(v, c, q, p)
    BY DEF Inv
  <2>2. Len(c.pending) \in Nat
    BY <1>0 DEF ClientType
  <2>3. NumOf(q, "ack") \in Nat
    <3>1. q \in Seq(Frames)
      BY <1>0
    <3> QED BY <3>1, NumNat
  <2> QED BY <1>3, <2>1, <2>2, <2>3 DEF Acked
<1>11. Asked(v, d, r)
  <2>1. LastAsked(d) = n
    BY DEF LastAsked
  <2>2. \E h \in In(r) : h.type = "settings"
    BY <1>1
  <2>3. ASSUME NEW k \in 1..Len(r), r[k].type = "settings", \A j \in 1..Len(r) : j > k => r[j].type # "settings"
        PROVE  r[k].n = n
    <3>1. CASE k \in 1..Len(p)
      <4> DEFINE z == Len(p) + 1
      <4>1. z \in 1..Len(r) /\ r[z] = f /\ z > k
        BY <3>1 DEF Longer
      <4> HIDE DEF z
      <4> QED BY <2>3, <4>1
    <3>2. CASE k \notin 1..Len(p)
      BY <3>2 DEF Longer
    <3> QED BY <3>1, <3>2
  <2> QED BY <2>1, <2>2, <2>3 DEF Asked
<1>12. StreamsAgree(o, i, d, q, r)
  BY DEF NoneOpen, StreamsAgree, StreamAgrees
<1>13. StreamsEnd(o, v, i, d, q, r)
  BY <1>1 DEF Inv, StreamsEnd
<1>14. Told(v, i, d, q, r)
  BY <1>1 DEF Inv, Told
<1>15. Bytes(o, i, q, b)
  BY DEF Inv
<1> QED BY <1>4, <1>5, <1>6, <1>7, <1>8, <1>9, <1>10, <1>11, <1>12, <1>13, <1>14, <1>15 DEF Inv

\* A reader took what was buffered, and the stream gets credit for it.
LEMMA SendUpdate ==
  ASSUME NEW o, NEW v, NEW i, NEW c, NEW q, NEW p, NEW b, Inv(o, v, i, c, q, p, b), NEW u \in Streams, i[u].ph = "open", o[u].ph # "none",
         NEW f, NEW r, Longer(p, f, r), f.type = "update", f.of = u,
         NEW x \in [Streams -> InType], \A z \in Streams : z # u => x[z] = i[z],
         x[u].ph = i[u].ph, x[u].win = i[u].win + f.n, x[u].got = i[u].got
  PROVE  Inv(o, v, x, c, q, r, b)
<1>0. /\ i \in [Streams -> InType] /\ o \in [Streams -> OutType] /\ q \in Seq(Frames) /\ p \in Seq(Frames)
      /\ 0 \notin Streams
  BY Facts
<1>1. r \in Seq(Frames) /\ In(r) = In(p) \union {f} /\ \A z : Asks(p, z) => Asks(r, z)
  BY DEF Longer
<1>2. NumOf(r, "settings") = NumOf(p, "settings")
  <2>1. f.type # "settings"
    OBVIOUS
  <2> QED BY <2>1, LongerMarks
<1>3. \A z \in Streams : x[z].ph = i[z].ph /\ x[z].got = i[z].got
  OBVIOUS
<1>4. Typed(o, v, x, c, q, r, b)
  BY <1>1 DEF Inv, Typed
<1>5. StreamsStand(o, v, x, c, b)
  <2> SUFFICES ASSUME NEW s \in Streams PROVE StreamStands(s, o, v, x, c, b)
    BY DEF StreamsStand
  <2>1. StreamStands(s, o, v, i, c, b)
    BY DEF Inv, StreamsStand
  <2>2. CASE s # u
    BY <2>1, <2>2 DEF StreamStands
  <2>3. CASE s = u
    BY <2>1, <2>3 DEF StreamStands
  <2> QED BY <2>2, <2>3
<1>6. Sessions(o, v, x, c)
  BY <1>3 DEF Inv, Sessions, NoneOpen
<1>7. Wires(o, v, x, c, q, r)
  <2>1. \A h \in In(p) : ToServer(h, o, v, x, c)
    BY <1>3 DEF Inv, Wires, ToServer
  <2>2. ToServer(f, o, v, x, c)
    BY DEF ToServer
  <2> QED BY <1>1, <2>1, <2>2 DEF Inv, Wires
<1>8. InTurn(q, r)
  <2>1. f.type # "headers"
    OBVIOUS
  <2> QED BY <2>1, TurnsLongerServer DEF Inv
<1>9. ConnAgrees(v, c, q, r)
  <2>1. /\ Carried(r, "update", {0}) = Carried(p, "update", {0}) + IF f.type = "update" /\ f.of \in {0} THEN f.n ELSE 0
        /\ Carried(p, "update", {0}) \in Nat
    BY DEF Longer
  <2>2. f.of \notin {0}
    BY <1>0
  <2>3. Carried(r, "update", {0}) = Carried(p, "update", {0})
    BY <2>1, <2>2
  <2> QED BY <2>3 DEF Inv, ConnAgrees
<1>10. Acked(v, c, q, r)
  BY <1>2 DEF Inv, Acked
<1>11. Asked(v, c, r)
  <2>1. f.type # "settings"
    OBVIOUS
  <2> QED BY <2>1, AskedLonger DEF Inv
<1>12. StreamsAgree(o, x, c, q, r)
  <2> SUFFICES ASSUME NEW s \in Streams PROVE StreamAgrees(s, o, x, c, q, r)
    BY DEF StreamsAgree
  <2>1. StreamAgrees(s, o, i, c, q, p)
    BY DEF Inv, StreamsAgree
  <2>2. /\ Carried(r, "update", {s}) = Carried(p, "update", {s}) + IF f.type = "update" /\ f.of \in {s} THEN f.n ELSE 0
        /\ Carried(p, "update", {s}) \in Nat /\ f \in Frames
    BY DEF Longer
  <2>3. CASE s # u
    <3>1. f.of \notin {s}
      BY <2>3
    <3>2. Carried(r, "update", {s}) = Carried(p, "update", {s})
      BY <2>2, <3>1
    <3> QED BY <2>1, <2>3, <3>2 DEF StreamAgrees
  <2>4. CASE s = u
    <3>1. f.n \in Nat /\ o[s].win \in Int /\ i[s].win \in Int
      BY <1>0, <2>2 DEF Frames, OutType, InType
    <3>2. Carried(r, "update", {s}) = Carried(p, "update", {s}) + f.n
      BY <2>2, <2>4
    <3>3. Carried(q, "data", {s}) \in Nat
      <4>1. q \in Seq(Frames)
        BY <1>0
      <4> QED BY <4>1, CarriedNat
    <3>4. i[s].win = o[s].win + Carried(q, "data", {s}) + Carried(p, "update", {s})
            => x[s].win = o[s].win + Carried(q, "data", {s}) + Carried(r, "update", {s})
      BY <2>2, <2>4, <3>1, <3>2, <3>3
    <3> QED BY <2>1, <2>4, <3>4 DEF StreamAgrees
  <2> QED BY <2>3, <2>4
<1>13. Bytes(o, x, q, b)
  <2> SUFFICES ASSUME NEW s \in Streams PROVE BytesOf(s, o, x, q, b)
    BY DEF Bytes
  <2>1. BytesOf(s, o, i, q, b)
    BY DEF Inv, Bytes
  <2>2. x[s].ph = i[s].ph /\ x[s].got = i[s].got
    BY <1>3
  <2> QED BY <2>1, <2>2 DEF BytesOf
<1>14. StreamsEnd(o, v, x, c, q, r)
  BY <1>1, <1>3 DEF Inv, StreamsEnd
<1>15. Told(v, x, c, q, r)
  BY <1>1, <1>3 DEF Inv, Told
<1> QED BY <1>4, <1>5, <1>6, <1>7, <1>8, <1>9, <1>10, <1>11, <1>12, <1>13, <1>14, <1>15 DEF Inv

\* The first frame of a queue, alone.
LEMMA FirstOnly ==
  ASSUME NEW q \in Seq(Frames), q # <<>>
  PROVE  LET y == SubSeq(q, 1, 1) IN y \in Seq(Frames) /\ y # <<>> /\ Head(y) = q[1] /\ Tail(y) = <<>>
<1> DEFINE y == SubSeq(q, 1, 1)
<1>1. y \in Seq(Frames) /\ Len(y) = 1 /\ y[1] = q[1]
  OBVIOUS
<1> HIDE DEF y
<1>2. y # <<>> /\ Head(y) = q[1]
  <2>0. Len(<<>>) = 0
    OBVIOUS
  <2>2. 1 # 0
    OBVIOUS
  <2>3. Len(y) = 1
    BY <1>1
  <2>1. y # <<>>
    BY <2>0, <2>2, <2>3, Zenon
  <2> QED BY <1>1, <2>1
<1>3. y \in Seq(Frames)
  BY <1>1
<1>5. Tail(y) \in Seq(Frames) /\ Len(Tail(y)) = Len(y) - 1
  BY <1>2, <1>3, HeadTailProperties
<1>4. Tail(y) = <<>>
  <2>1. Len(Tail(y)) = 0
    BY <1>1, <1>5
  <2> QED BY <1>5, <2>1, EmptySeq
<1> QED BY <1>1, <1>2, <1>4 DEF y

\* The client reads bytes of a body: its windows shrink; an open stream gets them, and
\* with the end it has the whole body.
LEMMA PopData ==
  ASSUME NEW o, NEW v, NEW i, NEW c, NEW q, NEW p, NEW b, Inv(o, v, i, c, q, p, b), ~c.gone, NEW f, NEW t, Shorter(q, f, t), f.type = "data", NEW u \in Streams, f.of = u,
         NEW x \in [Streams -> InType], \A z \in Streams : z # u => x[z] = i[z],
         i[u].ph # "open" => x[u] = i[u],
         i[u].ph = "open" => x[u].win = i[u].win - f.n /\ x[u].got = i[u].got + f.n
                             /\ x[u].ph = IF f.end THEN "done" ELSE "open",
         NEW d \in ClientType, d.win = c.win - f.n, d.local = c.local, d.pending = c.pending,
         d.opened = c.opened, d.closing = c.closing, d.gone = c.gone
  PROVE  Inv(o, v, x, d, t, p, b)
<1>0. /\ i \in [Streams -> InType] /\ o \in [Streams -> OutType] /\ q \in Seq(Frames) /\ p \in Seq(Frames)
      /\ v \in ServerType /\ c \in ClientType /\ b \in [Streams -> Bodies] /\ Bodies \subseteq Nat
  BY Facts
<1>1. /\ t \in Seq(Frames) /\ f \in Frames /\ In(q) = {f} \union In(t) /\ \A z : EndComes(q, z) => EndComes(t, z) \/ Ending(f, z)
  BY DEF Shorter
<1>2. NumOf(t, "ack") = NumOf(q, "ack")
  <2>1. f.type # "ack"
    OBVIOUS
  <2> QED BY <2>1, ShorterMarks
<1>3. f.n \in Nat /\ f.end \in BOOLEAN /\ i[u].got \in Nat /\ i[u].win \in Int /\ o[u].win \in Int
  <2>1. f.n \in Nat /\ f.end \in BOOLEAN
    BY <1>1 DEF Frames
  <2>2. i[u].got \in Nat /\ i[u].win \in Int /\ o[u].win \in Int
    BY <1>0 DEF InType, OutType
  <2> QED BY <2>1, <2>2
<1>4. /\ Carried(q, "data", Streams) = f.n + Carried(t, "data", Streams) /\ Carried(t, "data", Streams) \in Nat
      /\ Carried(q, "data", {u}) = f.n + Carried(t, "data", {u}) /\ Carried(t, "data", {u}) \in Nat
  <2>1. /\ Carried(q, "data", Streams) = (IF f.type = "data" /\ f.of \in Streams THEN f.n ELSE 0) + Carried(t, "data", Streams)
        /\ Carried(q, "data", {u}) = (IF f.type = "data" /\ f.of \in {u} THEN f.n ELSE 0) + Carried(t, "data", {u})
        /\ Carried(t, "data", Streams) \in Nat /\ Carried(t, "data", {u}) \in Nat
    BY DEF Shorter
  <2> QED BY <2>1
<1>5. \A z \in Streams : z # u => Carried(t, "data", {z}) = Carried(q, "data", {z})
  <2> SUFFICES ASSUME NEW z \in Streams, z # u PROVE Carried(t, "data", {z}) = Carried(q, "data", {z})
    OBVIOUS
  <2>1. f.of \notin {z}
    OBVIOUS
  <2> QED BY <2>1, ShorterCounts
<1>6. \A z \in Streams : (x[z].ph = "open" => i[z].ph = "open") /\ (x[z].ph = "none" <=> i[z].ph = "none")
                         /\ (x[z].ph # "open" /\ x[z].ph # "done" => x[z] = i[z])
  OBVIOUS
<1>7. o[u].ph # "none"
  BY <1>1 DEF Inv, Wires, ToClient
<1>8. Typed(o, v, x, d, t, p, b)
  BY <1>1 DEF Inv, Typed
<1>9. BytesOf(u, o, i, q, b)
  BY DEF Inv, Bytes
<1>10. i[u].ph = "open" /\ f.end => b[u] = i[u].got + f.n
  <2> SUFFICES ASSUME i[u].ph = "open", f.end PROVE b[u] = i[u].got + f.n
    OBVIOUS
  <2>1. 1 \in 1..Len(q) /\ q[1] = f
    BY DEF Shorter
  <2>2. EndFrame(q[1], u)
    BY <2>1 DEF EndFrame
  <2>3. b[u] = i[u].got + Carried(SubSeq(q, 1, 1), "data", {u})
    BY <1>9, <2>1, <2>2 DEF BytesOf
  <2>4. Carried(SubSeq(q, 1, 1), "data", {u}) = f.n
    <3> DEFINE y == SubSeq(q, 1, 1)
    <3>0. q \in Seq(Frames) /\ q # <<>>
      BY <1>0, <2>1
    <3>1. y \in Seq(Frames) /\ y # <<>> /\ Head(y) = f /\ Tail(y) = <<>>
      BY <2>1, <3>0, FirstOnly
    <3> HIDE DEF y
    <3>2. y \in Seq(Frames) /\ y # <<>>
      BY <3>1
    <3>3. Carried(y, "data", {u}) = (IF Head(y).type = "data" /\ Head(y).of \in {u} THEN Head(y).n ELSE 0) + Carried(Tail(y), "data", {u})
      BY <3>2, CarriedTail
    <3>4. Carried(<<>>, "data", {u}) = 0
      <4> DEFINE w == <<>>
      <4>1. w \in Seq(Frames) /\ \A k \in 1..Len(w) : w[k].type = "data" => w[k].of \notin {u}
        OBVIOUS
      <4> HIDE DEF w
      <4>2. Carried(w, "data", {u}) = 0
        BY <4>1, CarriedNone
      <4> QED BY <4>2 DEF w
    <3>5. Carried(y, "data", {u}) = f.n + 0
      BY <3>1, <3>3, <3>4
    <3> QED BY <1>3, <3>5 DEF y
  <2> QED BY <2>3, <2>4
<1>11. StreamsStand(o, v, x, d, b)
  <2> SUFFICES ASSUME NEW s \in Streams PROVE StreamStands(s, o, v, x, d, b)
    BY DEF StreamsStand
  <2>1. StreamStands(s, o, v, i, c, b)
    BY DEF Inv, StreamsStand
  <2>2. CASE x[s] = i[s]
    BY <2>1, <2>2 DEF StreamStands
  <2>3. CASE x[s] # i[s]
    <3>1. s = u /\ i[s].ph = "open" /\ x[s].got = i[s].got + f.n /\ x[s].ph = IF f.end THEN "done" ELSE "open"
      BY <2>3
    <3>2. o[s].ph # "none" /\ (x[s].ph = "done" => x[s].got = b[s])
      BY <1>7, <1>10, <3>1
    <3>3. x[s].ph \in {"open", "done"}
      BY <3>1
    <3> QED BY <2>1, <3>1, <3>2, <3>3 DEF StreamStands
  <2> QED BY <2>2, <2>3
<1>12. Sessions(o, v, x, d)
  BY <1>6 DEF Inv, Sessions, NoneOpen
<1>13. Wires(o, v, x, d, t, p)
  <2>1. \A h \in In(t) : ToClient(h, o, v)
    BY <1>1 DEF Inv, Wires
  <2>2. \A h \in In(p) : ToServer(h, o, v, x, d)
    BY <1>6 DEF Inv, Wires, ToServer
  <2> QED BY <2>1, <2>2 DEF Wires
<1>14. InTurn(t, p)
  BY TurnsShorterClient DEF Inv
<1>15. ConnAgrees(v, d, t, p)
  <2>1. ConnAgrees(v, c, q, p)
    BY DEF Inv
  <2>2. c.win \in Nat /\ v.win \in Nat
    BY <1>0 DEF ClientType, ServerType
  <2>3. Carried(p, "update", {0}) \in Nat
    <3>1. p \in Seq(Frames)
      BY <1>0
    <3> QED BY <3>1, CarriedNat
  <2> QED BY <1>3, <1>4, <2>1, <2>2, <2>3 DEF ConnAgrees
<1>16. Acked(v, d, t, p) /\ Asked(v, d, p)
  BY <1>2 DEF Inv, Acked, Asked, LastAsked
<1>17. StreamsAgree(o, x, d, t, p)
  <2> SUFFICES ASSUME NEW s \in Streams, Settled, x[s].ph = "open" PROVE StreamAgrees(s, o, x, d, t, p)
    BY DEF StreamsAgree, StreamAgrees
  <2>1. StreamAgrees(s, o, i, c, q, p) /\ i[s].ph = "open"
    BY <1>6 DEF Inv, StreamsAgree
  <2>2. CASE s # u
    BY <1>5, <2>1, <2>2 DEF StreamAgrees
  <2>3. CASE s = u
    <3>1. Carried(p, "update", {s}) \in Nat
      <4>1. p \in Seq(Frames)
        BY <1>0
      <4> QED BY <4>1, CarriedNat
    <3>2. i[s].win = o[s].win + Carried(q, "data", {s}) + Carried(p, "update", {s})
            => x[s].win = o[s].win + Carried(t, "data", {s}) + Carried(p, "update", {s})
      BY <1>3, <1>4, <2>1, <2>3, <3>1
    <3> QED BY <1>7, <2>1, <2>3, <3>2 DEF StreamAgrees
  <2> QED BY <2>2, <2>3
<1>18. Bytes(o, x, t, b)
  <2> SUFFICES ASSUME NEW z \in Streams, x[z].ph = "open" PROVE BytesOf(z, o, x, t, b)
    BY DEF Bytes, BytesOf
  <2>1. BytesOf(z, o, i, q, b) /\ i[z].ph = "open"
    BY <1>6 DEF Inv, Bytes
  <2> DEFINE m == IF z = u THEN f.n ELSE 0
  <2>2. m \in Nat /\ i[z].got \in Nat /\ o[z].chunk \in Nat /\ o[z].todo \in Nat
    <3>1. i[z].got \in Nat /\ o[z].chunk \in Nat /\ o[z].todo \in Nat
      BY <1>0 DEF InType, OutType
    <3> QED BY <1>3, <3>1
  <2>3. x[z].got = i[z].got + m
    <3>1. CASE z = u
      BY <2>1, <3>1
    <3>2. CASE z # u
      BY <2>2, <3>2
    <3> QED BY <3>1, <3>2
  <2>4. Carried(q, "data", {z}) = m + Carried(t, "data", {z}) /\ Carried(t, "data", {z}) \in Nat
    <3>1. Carried(t, "data", {z}) \in Nat
      BY DEF Shorter
    <3>2. CASE z = u
      BY <1>4, <3>2
    <3>3. CASE z # u
      BY <1>5, <3>1, <3>3
    <3> QED BY <3>1, <3>2, <3>3
  <2>5. ASSUME NEW k \in 1..Len(t), EndFrame(t[k], z) PROVE b[z] = x[z].got + Carried(SubSeq(t, 1, k), "data", {z})
    <3>1. /\ k + 1 \in 1..Len(q) /\ q[k + 1] = t[k]
          /\ Carried(SubSeq(q, 1, k + 1), "data", {z})
               = (IF f.type = "data" /\ f.of \in {z} THEN f.n ELSE 0) + Carried(SubSeq(t, 1, k), "data", {z})
      BY DEF Shorter
    <3>2. Carried(SubSeq(t, 1, k), "data", {z}) \in Nat
      <4>1. t \in Seq(Frames) /\ k \in 0..Len(t)
        BY <1>1
      <4>2. SubSeq(t, 1, k) \in Seq(Frames)
        BY <4>1, InPrefix
      <4> QED BY <4>2, CarriedNat
    <3>3. Carried(SubSeq(q, 1, k + 1), "data", {z}) = m + Carried(SubSeq(t, 1, k), "data", {z})
      BY <3>1
    <3>4. b[z] = i[z].got + Carried(SubSeq(q, 1, k + 1), "data", {z})
      BY <2>1, <2>5, <3>1 DEF BytesOf
    <3> HIDE DEF m
    <3> QED BY <2>2, <2>3, <3>2, <3>3, <3>4
  <2> HIDE DEF m
  <2>6. o[z].ph = "open" => b[z] = x[z].got + Carried(t, "data", {z}) + o[z].chunk + o[z].todo
    <3> SUFFICES ASSUME o[z].ph = "open" PROVE b[z] = x[z].got + Carried(t, "data", {z}) + o[z].chunk + o[z].todo
      OBVIOUS
    <3>1. b[z] = i[z].got + Carried(q, "data", {z}) + o[z].chunk + o[z].todo
      BY <2>1 DEF BytesOf
    <3> QED BY <2>2, <2>3, <2>4, <3>1
  <2> QED BY <2>5, <2>6 DEF BytesOf
<1>19. StreamsEnd(o, v, x, d, t, p)
  <2> SUFFICES ASSUME ~v.cut, NEW s \in Streams, x[s].ph = "open"
               PROVE  EndComes(t, s) \/ (~v.gone /\ (o[s].ph = "open" \/ Asks(p, s)))
    BY DEF StreamsEnd
  <2>1. EndComes(q, s) \/ (~v.gone /\ (o[s].ph = "open" \/ Asks(p, s)))
    BY <1>6 DEF Inv, StreamsEnd
  <2>2. ~Ending(f, s)
    BY <1>6 DEF Ending, EndFrame
  <2> QED BY <1>1, <2>1, <2>2
<1>20. Told(v, x, d, t, p)
  BY <1>1, <1>6 DEF Inv, Told
<1> QED BY <1>8, <1>11, <1>12, <1>13, <1>14, <1>15, <1>16, <1>17, <1>18, <1>19, <1>20 DEF Inv

\* The client gives credit for the connection.
LEMMA CreditConn ==
  ASSUME NEW o, NEW v, NEW i, NEW c, NEW q, NEW p, NEW b, Inv(o, v, i, c, q, p, b), NEW f, NEW r, Longer(p, f, r), f.type = "update", f.of = 0,
         NEW d \in ClientType, d.win = c.win + f.n, d.local = c.local, d.pending = c.pending,
         d.opened = c.opened, d.closing = c.closing, d.gone = c.gone
  PROVE  Inv(o, v, i, d, q, r, b)
<1>0. /\ q \in Seq(Frames) /\ p \in Seq(Frames) /\ 0 \notin Streams /\ c \in ClientType /\ v \in ServerType
  BY Facts
<1>1. r \in Seq(Frames) /\ f \in Frames /\ In(r) = In(p) \union {f} /\ \A z : Asks(p, z) => Asks(r, z)
  BY DEF Longer
<1>2. NumOf(r, "settings") = NumOf(p, "settings")
  <2>1. f.type # "settings"
    OBVIOUS
  <2> QED BY <2>1, LongerMarks
<1>4. Typed(o, v, i, d, q, r, b)
  BY <1>1 DEF Inv, Typed
<1>5. StreamsStand(o, v, i, d, b)
  BY DEF Inv, StreamsStand, StreamStands
<1>6. Sessions(o, v, i, d)
  BY DEF Inv, Sessions
<1>7. Wires(o, v, i, d, q, r)
  <2>1. \A h \in In(p) : ToServer(h, o, v, i, d)
    BY DEF Inv, Wires, ToServer
  <2>2. ToServer(f, o, v, i, d)
    BY DEF ToServer
  <2> QED BY <1>1, <2>1, <2>2 DEF Inv, Wires
<1>8. InTurn(q, r)
  <2>1. f.type # "headers"
    OBVIOUS
  <2> QED BY <2>1, TurnsLongerServer DEF Inv
<1>9. ConnAgrees(v, d, q, r)
  <2>1. /\ Carried(r, "update", {0}) = Carried(p, "update", {0}) + IF f.type = "update" /\ f.of \in {0} THEN f.n ELSE 0
        /\ Carried(p, "update", {0}) \in Nat
    BY DEF Longer
  <2>2. Carried(r, "update", {0}) = Carried(p, "update", {0}) + f.n
    BY <2>1
  <2>3. f.n \in Nat /\ c.win \in Nat /\ v.win \in Nat
    <3>1. f.n \in Nat
      BY <1>1 DEF Frames
    <3>2. c.win \in Nat /\ v.win \in Nat
      BY <1>0 DEF ClientType, ServerType
    <3> QED BY <3>1, <3>2
  <2>4. Carried(q, "data", Streams) \in Nat
    <3>1. q \in Seq(Frames)
      BY <1>0
    <3> QED BY <3>1, CarriedNat
  <2>5. ConnAgrees(v, c, q, p)
    BY DEF Inv
  <2> QED BY <2>1, <2>2, <2>3, <2>4, <2>5 DEF ConnAgrees
<1>10. Acked(v, d, q, r)
  BY <1>2 DEF Inv, Acked
<1>11. Asked(v, d, r)
  <2>1. f.type # "settings"
    OBVIOUS
  <2>2. Asked(v, c, r)
    BY <2>1, AskedLonger DEF Inv
  <2>3. LastAsked(d) = LastAsked(c)
    BY DEF LastAsked
  <2> QED BY <2>2, <2>3 DEF Asked
<1>12. StreamsAgree(o, i, d, q, r)
  <2> SUFFICES ASSUME NEW s \in Streams PROVE StreamAgrees(s, o, i, d, q, r)
    BY DEF StreamsAgree
  <2>1. StreamAgrees(s, o, i, c, q, p)
    BY DEF Inv, StreamsAgree
  <2>2. /\ Carried(r, "update", {s}) = Carried(p, "update", {s}) + IF f.type = "update" /\ f.of \in {s} THEN f.n ELSE 0
        /\ Carried(p, "update", {s}) \in Nat
    BY DEF Longer
  <2>3. f.of \notin {s}
    BY <1>0
  <2>4. Carried(r, "update", {s}) = Carried(p, "update", {s})
    BY <2>2, <2>3
  <2> QED BY <2>1, <2>4 DEF StreamAgrees
<1>13. Bytes(o, i, q, b)
  BY DEF Inv
<1>14. StreamsEnd(o, v, i, d, q, r)
  BY <1>1 DEF Inv, StreamsEnd
<1>15. Told(v, i, d, q, r)
  BY <1>1 DEF Inv, Told
<1> QED BY <1>4, <1>5, <1>6, <1>7, <1>8, <1>9, <1>10, <1>11, <1>12, <1>13, <1>14, <1>15 DEF Inv

\* The oldest settings() is acknowledged.
LEMMA PopAck ==
  ASSUME NEW o, NEW v, NEW i, NEW c, NEW q, NEW p, NEW b, Inv(o, v, i, c, q, p, b), ~c.gone, NEW f, NEW t, Shorter(q, f, t), f.type = "ack",
         NEW d \in ClientType, c.pending # <<>> => Len(c.pending) = Len(d.pending) + 1 /\ LastAsked(d) = LastAsked(c),
         d.opened = c.opened, d.win = c.win, d.closing = c.closing, d.gone = c.gone
  PROVE  Inv(o, v, i, d, t, p, b)
<1>0. /\ q \in Seq(Frames) /\ p \in Seq(Frames) /\ c \in ClientType
  BY Facts
<1>1. t \in Seq(Frames) /\ In(q) = {f} \union In(t) /\ \A z : EndComes(q, z) => EndComes(t, z) \/ Ending(f, z)
  BY DEF Shorter
<1>2. NumOf(q, "ack") = NumOf(t, "ack") + 1 /\ NumOf(t, "ack") \in Nat
  BY ShorterOne
<1>3. NumOf(p, "settings") \in Nat
  <2>1. p \in Seq(Frames)
    BY <1>0
  <2> QED BY <2>1, NumNat
<1>4. Len(c.pending) \in Nat /\ Len(d.pending) \in Nat
  BY <1>0 DEF ClientType
<1>5. Len(c.pending) > 0
  <2>1. Acked(v, c, q, p)
    BY DEF Inv
  <2> QED BY <1>2, <1>3, <1>4, <2>1 DEF Acked
<1>6. c.pending # <<>>
  BY <1>5
<1>7. Len(c.pending) = Len(d.pending) + 1 /\ LastAsked(d) = LastAsked(c)
  BY <1>6
<1>8. \A s \in Streams : Settled => i[s].ph # "open"
  BY <1>6 DEF Inv, StreamsAgree, StreamAgrees
<1>9. \A S : Carried(t, "data", S) = Carried(q, "data", S)
  <2>1. f.type # "data"
    OBVIOUS
  <2> QED BY <2>1, ShorterCounts
<1>10. Typed(o, v, i, d, t, p, b)
  BY <1>1 DEF Inv, Typed
<1>11. StreamsStand(o, v, i, d, b)
  BY DEF Inv, StreamsStand, StreamStands
<1>12. Sessions(o, v, i, d)
  BY DEF Inv, Sessions
<1>13. Wires(o, v, i, d, t, p)
  <2>1. \A h \in In(t) : ToClient(h, o, v)
    BY <1>1 DEF Inv, Wires
  <2>2. \A h \in In(p) : ToServer(h, o, v, i, d)
    BY DEF Inv, Wires, ToServer
  <2> QED BY <2>1, <2>2 DEF Wires
<1>14. InTurn(t, p)
  BY TurnsShorterClient DEF Inv
<1>15. ConnAgrees(v, d, t, p)
  BY <1>9 DEF Inv, ConnAgrees
<1>16. Acked(v, d, t, p)
  <2>1. Acked(v, c, q, p)
    BY DEF Inv
  <2> QED BY <1>2, <1>3, <1>4, <1>7, <2>1 DEF Acked
<1>17. Asked(v, d, p)
  BY <1>7 DEF Inv, Asked
<1>18. StreamsAgree(o, i, d, t, p)
  BY <1>8 DEF StreamsAgree, StreamAgrees
<1>19. Bytes(o, i, t, b)
  <2> SUFFICES ASSUME NEW z \in Streams, i[z].ph = "open" PROVE BytesOf(z, o, i, t, b)
    BY DEF Bytes, BytesOf
  <2>1. BytesOf(z, o, i, q, b)
    BY DEF Inv, Bytes
  <2>2. ASSUME NEW k \in 1..Len(t), EndFrame(t[k], z) PROVE b[z] = i[z].got + Carried(SubSeq(t, 1, k), "data", {z})
    <3>1. /\ k + 1 \in 1..Len(q) /\ q[k + 1] = t[k]
          /\ Carried(SubSeq(q, 1, k + 1), "data", {z})
               = (IF f.type = "data" /\ f.of \in {z} THEN f.n ELSE 0) + Carried(SubSeq(t, 1, k), "data", {z})
      BY DEF Shorter
    <3>2. Carried(SubSeq(t, 1, k), "data", {z}) \in Nat
      <4>1. t \in Seq(Frames) /\ k \in 0..Len(t)
        BY <1>1
      <4>2. SubSeq(t, 1, k) \in Seq(Frames)
        BY <4>1, InPrefix
      <4> QED BY <4>2, CarriedNat
    <3>3. Carried(SubSeq(q, 1, k + 1), "data", {z}) = Carried(SubSeq(t, 1, k), "data", {z})
      BY <3>1, <3>2
    <3> QED BY <2>1, <2>2, <3>1, <3>3 DEF BytesOf
  <2> QED BY <1>9, <2>1, <2>2 DEF BytesOf
<1>20. StreamsEnd(o, v, i, d, t, p)
  <2>1. \A z : ~Ending(f, z)
    BY DEF Ending, EndFrame
  <2> QED BY <1>1, <2>1 DEF Inv, StreamsEnd
<1>21. Told(v, i, d, t, p)
  BY <1>1 DEF Inv, Told
<1> QED BY <1>10, <1>11, <1>12, <1>13, <1>14, <1>15, <1>16, <1>17, <1>18, <1>19, <1>20, <1>21 DEF Inv

------------------------------------------------------------------------------
(* Every step of both ends.                                                *)

\* The state as a whole.
BothEnds == Inv(out, ss, in, cs, toClient, toServer, body)

\* The smallest of two or three numbers.
LEMMA SmallestOf ==
  ASSUME NEW S, NEW n \in S, \A m \in S : n <= m
  PROVE  Smallest(S) \in S /\ \A m \in S : Smallest(S) <= m
BY DEF Smallest

\* Of two.
LEMMA SmallestTwo ==
  ASSUME NEW a \in Int, NEW e \in Int
  PROVE  /\ Smallest({a, e}) \in Int /\ Smallest({a, e}) <= a /\ Smallest({a, e}) <= e
         /\ Smallest({a, e}) \in {a, e}
<1>1. CASE a <= e
  <2>1. \A m \in {a, e} : a <= m
    BY <1>1
  <2> QED BY <2>1, SmallestOf
<1>2. CASE e <= a
  <2>1. \A m \in {a, e} : e <= m
    BY <1>2
  <2> QED BY <2>1, SmallestOf
<1> QED BY <1>1, <1>2

\* Of three.
LEMMA SmallestThree ==
  ASSUME NEW a \in Int, NEW e \in Int, NEW g \in Int
  PROVE  /\ Smallest({a, e, g}) \in Int /\ Smallest({a, e, g}) <= a /\ Smallest({a, e, g}) <= e
         /\ Smallest({a, e, g}) \in {a, e, g}
<1>1. \E n \in {a, e, g} : \A m \in {a, e, g} : n <= m
  <2>1. CASE a <= e /\ a <= g
    BY <2>1
  <2>2. CASE e <= a /\ e <= g
    BY <2>2
  <2>3. CASE g <= a /\ g <= e
    BY <2>3
  <2> QED BY <2>1, <2>2, <2>3
<1>2. PICK n \in {a, e, g} : \A m \in {a, e, g} : n <= m
  BY <1>1
<1>3. Smallest({a, e, g}) \in {a, e, g} /\ \A m \in {a, e, g} : Smallest({a, e, g}) <= m
  BY <1>2, SmallestOf
<1> QED BY <1>3

\* Queues with one frame more, or two.
LEMMA JoinNone ==
  ASSUME NEW q \in Seq(Frames)
  PROVE  q \o <<>> = q
BY ConcatEmptySeq

\* One frame more.
LEMMA JoinOne ==
  ASSUME NEW q \in Seq(Frames), NEW f \in Frames
  PROVE  q \o << f >> = Append(q, f)
BY AppendIsConcat

\* Some frames, and one more.
LEMMA JoinMore ==
  ASSUME NEW q \in Seq(Frames), NEW e \in Seq(Frames), NEW f \in Frames
  PROVE  q \o Append(e, f) = Append(q \o e, f) /\ q \o e \in Seq(Frames)
OBVIOUS

\* The end of the server's session.
LEMMA ServerEnds ==
  ASSUME NEW o, NEW v, NEW i, NEW c, NEW q, NEW p, NEW b, Inv(o, v, i, c, q, p, b), ~v.gone, v.closing \/ v.cut \/ c.gone, NoneOpen(o)
  PROVE  Inv(o, [v EXCEPT !.gone = TRUE], i, c, Append(q, Frame("fin", 0, 0)), p, b)
<1> DEFINE w == [v EXCEPT !.gone = TRUE]
           f == Frame("fin", 0, 0)
           r == Append(q, f)
<1>0. v \in ServerType /\ q \in Seq(Frames) /\ MaxStreams \in Nat /\ 0 \in 0..MaxStreams
  BY Facts
<1>1. Inv(o, w, i, c, q, p, b)
  BY ServerGone
<1>2. f \in Frames /\ f.type = "fin"
  <2>1. 0 \in 0..MaxStreams /\ 0 \in Nat
    BY <1>0
  <2> QED BY <2>1, FrameType
<1>3. w \in ServerType /\ w.gone
  BY <1>0 DEF ServerType
<1>4. \A g \in In(q) : g.type # "fin"
  BY DEF Inv, Wires, ToClient
<1> HIDE DEF w, f
<1>5. Longer(q, f, r)
  <2>1. q \in Seq(Frames)
    BY <1>0
  <2>2. f \in Frames
    BY <1>2
  <2> QED BY <2>1, <2>2, LongerIs
<1> HIDE DEF r
<1>6. f.type = "fin"
  BY <1>2
<1>7. ToClient(f, o, w)
  BY <1>3, <1>6 DEF ToClient
<1>8. \A z \in Streams : ~EndFrame(f, z)
  BY <1>6 DEF EndFrame
<1>9. w \in ServerType
  BY <1>3
<1>10. Inv(o, w, i, c, r, p, b)
  BY <1>1, <1>4, <1>5, <1>6, <1>7, <1>8, <1>9, AppendClient
<1> QED BY <1>10 DEF w, f, r

\* The end of the client's session.
LEMMA ClientFinishes ==
  ASSUME NEW o, NEW v, NEW i, NEW c, NEW q, NEW p, NEW b, Inv(o, v, i, c, q, p, b), NoneOpen(i)
  PROVE  Inv(o, v, i, [c EXCEPT !.gone = TRUE], q, Append(p, Frame("fin", 0, 0)), b)
<1> DEFINE d == [c EXCEPT !.gone = TRUE]
           f == Frame("fin", 0, 0)
           r == Append(p, f)
<1>0. c \in ClientType /\ p \in Seq(Frames) /\ MaxStreams \in Nat /\ 0 \in 0..MaxStreams
  BY Facts
<1>1. SameClient(c, d) /\ d.gone
  BY <1>0 DEF ClientType, SameClient
<1>2. f \in Frames /\ f.type = "fin"
  <2>1. 0 \in 0..MaxStreams /\ 0 \in Nat
    BY <1>0
  <2> QED BY <2>1, FrameType
<1> HIDE DEF d, f
<1>3. Longer(p, f, r)
  <2>1. p \in Seq(Frames)
    BY <1>0
  <2>2. f \in Frames
    BY <1>2
  <2> QED BY <2>1, <2>2, LongerIs
<1> HIDE DEF r
<1>4. SameClient(c, d)
  BY <1>1
<1>5. Inv(o, v, i, d, q, p, b)
  BY <1>4, ClientEnds
<1>6. f.type = "fin"
  BY <1>2
<1>7. ToServer(f, o, v, i, d)
  BY <1>1, <1>6 DEF ToServer
<1>8. f.type \in {"rst", "goaway", "fin"}
  BY <1>6
<1>9. Inv(o, v, i, d, q, r, b)
  BY <1>3, <1>5, <1>7, <1>8, AppendServer
<1> QED BY <1>9 DEF d, f, r

\* A task of the server is over.
LEMMA ServerTurns ==
  ASSUME NEW o, NEW v, NEW e \in Seq(Frames), toClient \in Seq(Frames),
         Inv(o, v, in', cs', toClient \o e, toServer', body'), ServerTurn(o, v, e)
  PROVE  BothEnds'
<1> DEFINE q == toClient \o e
           f == Frame("fin", 0, 0)
<1>1. CASE ServerMayFinish(o, v)
  <2>1. NoneOpen(o) /\ ~v.gone /\ v.closing
    BY <1>1 DEF ServerMayFinish, NoneOpen
  <2>2. out' = o /\ ss' = [v EXCEPT !.gone = TRUE] /\ toClient' = toClient \o Append(e, f)
    BY <1>1 DEF ServerTurn
  <2>3. f \in Frames
    <3>1. 0 \in 0..MaxStreams /\ 0 \in Nat
      BY Facts
    <3> QED BY <3>1, FrameType
  <2>4. toClient \o Append(e, f) = Append(q, f)
    <3> HIDE DEF f
    <3> QED BY <2>3, JoinMore
  <2> HIDE DEF q
  <2>5. Inv(o, v, in', cs', q, toServer', body')
    BY DEF q
  <2>6. Inv(o, [v EXCEPT !.gone = TRUE], in', cs', Append(q, f), toServer', body')
    BY <2>1, <2>5, ServerEnds
  <2>7. toClient' = Append(q, f)
    BY <2>2, <2>4
  <2> HIDE DEF f
  <2> QED BY <2>2, <2>6, <2>7 DEF BothEnds
<1>2. CASE ~ServerMayFinish(o, v)
  <2>1. out' = o /\ ss' = v /\ toClient' = q
    BY <1>2 DEF ServerTurn
  <2> QED BY <2>1 DEF BothEnds
<1> QED BY <1>1, <1>2

\* A task of the client is over.
LEMMA ClientTurns ==
  ASSUME NEW i, NEW c, NEW e \in Seq(Frames), toServer \in Seq(Frames),
         Inv(out', ss', i, c, toClient', toServer \o e, body'), ClientTurn(i, c, e)
  PROVE  BothEnds'
<1> DEFINE p == toServer \o e
           f == Frame("fin", 0, 0)
<1>1. CASE ClientMayFinish(i, c)
  <2>1. NoneOpen(i)
    BY <1>1 DEF ClientMayFinish, NoneOpen
  <2>2. in' = i /\ cs' = [c EXCEPT !.gone = TRUE] /\ toServer' = toServer \o Append(e, f)
    BY <1>1 DEF ClientTurn
  <2>3. f \in Frames
    <3>1. 0 \in 0..MaxStreams /\ 0 \in Nat
      BY Facts
    <3> QED BY <3>1, FrameType
  <2>4. toServer \o Append(e, f) = Append(p, f)
    <3> HIDE DEF f
    <3> QED BY <2>3, JoinMore
  <2> HIDE DEF p
  <2>5. Inv(out', ss', i, c, toClient', p, body')
    BY DEF p
  <2>6. Inv(out', ss', i, [c EXCEPT !.gone = TRUE], toClient', Append(p, f), body')
    BY <2>1, <2>5, ClientFinishes
  <2>7. toServer' = Append(p, f)
    BY <2>2, <2>4
  <2> HIDE DEF f
  <2> QED BY <2>2, <2>6, <2>7 DEF BothEnds
<1>2. CASE ~ClientMayFinish(i, c)
  <2>1. in' = i /\ cs' = c /\ toServer' = p
    BY <1>2 DEF ClientTurn
  <2> QED BY <2>1 DEF BothEnds
<1> QED BY <1>1, <1>2

\* The types, and the numbers of the streams.
LEMMA StateFacts ==
  ASSUME BothEnds
  PROVE  /\ out \in [Streams -> OutType] /\ ss \in ServerType /\ in \in [Streams -> InType] /\ cs \in ClientType
         /\ toClient \in Seq(Frames) /\ toServer \in Seq(Frames) /\ body \in [Streams -> Bodies] /\ Bodies \subseteq Nat
         /\ MaxStreams \in Nat /\ 0 \in 0..MaxStreams /\ 0 \notin Streams
         /\ \A s \in Streams : s \in Nat /\ s > 0 /\ s \in 0..MaxStreams
BY Facts DEF BothEnds

\* The flags of the pump.
LEMMA FlagsOnly ==
  ASSUME NEW o, NEW v, NEW i, NEW c, NEW q, NEW p, NEW b, Inv(o, v, i, c, q, p, b), NEW m \in BOOLEAN, NEW n \in BOOLEAN
  PROVE  Inv(o, [v EXCEPT !.pumping = m, !.drain = n], i, c, q, p, b)
<1> DEFINE w == [v EXCEPT !.pumping = m, !.drain = n]
<1>0. v \in ServerType
  BY Facts
<1>1. SameSession(v, w)
  BY <1>0 DEF ServerType, SameSession
<1> HIDE DEF w
<1>2. Inv(o, w, i, c, q, p, b)
  BY <1>1, Flags
<1> QED BY <1>2 DEF w

\* The pump is woken up or stops.
LEMMA PumpFlag ==
  ASSUME NEW o, NEW v, NEW i, NEW c, NEW q, NEW p, NEW b, Inv(o, v, i, c, q, p, b), NEW m \in BOOLEAN
  PROVE  Inv(o, [v EXCEPT !.pumping = m], i, c, q, p, b)
<1> DEFINE w == [v EXCEPT !.pumping = m]
<1>0. v \in ServerType
  BY Facts
<1>1. SameSession(v, w)
  BY <1>0 DEF ServerType, SameSession
<1> HIDE DEF w
<1>2. Inv(o, w, i, c, q, p, b)
  BY <1>1, Flags
<1> QED BY <1>2 DEF w

\* The program hands a chunk over.
LEMMA WriteKeeps ==
  ASSUME BothEnds, NEW s \in Streams, Write(s)
  PROVE  BothEnds'
<1> DEFINE n == Smallest({Chunk, out[s].todo})
           y == [out[s] EXCEPT !.todo = out[s].todo - n, !.chunk = n, !.queued = TRUE]
           x == [out EXCEPT ![s] = y]
<1>0. out \in [Streams -> OutType] /\ out[s] \in OutType
  BY StateFacts
<1>1. out[s].todo \in Nat /\ Chunk \in Nat
  BY <1>0, Http2Assumption DEF OutType
<1>2. n \in Nat /\ n <= out[s].todo
  <2>0. out[s].todo \in Int /\ Chunk \in Int
    BY <1>1
  <2> HIDE DEF n
  <2>1. n \in Int /\ n <= out[s].todo /\ n \in {Chunk, out[s].todo}
    BY <2>0, SmallestTwo DEF n
  <2> QED BY <1>1, <2>1
<1>3. out' = x /\ ss' = [ss EXCEPT !.pumping = TRUE] /\ UNCHANGED <<in, cs, toClient, toServer, body>>
      /\ out[s].ph = "open" /\ out[s].todo > 0 /\ out[s].chunk = 0
  BY <1>0 DEF Write, StreamUp
<1> HIDE DEF n
<1>4. out[s].todo - n \in Nat
  BY <1>1, <1>2
<1>5. /\ y \in OutType /\ y.ph = out[s].ph /\ y.win = out[s].win /\ y.local = out[s].local /\ y.end = out[s].end
      /\ y.chunk = n /\ y.todo = out[s].todo - n
  BY <1>0, <1>2, <1>4 DEF OutType
<1> HIDE DEF y
<1>6. x \in [Streams -> OutType] /\ x[s] = y /\ \A z \in Streams : z # s => x[z] = out[z]
  BY <1>0, <1>5
<1> HIDE DEF x
<1>7. /\ out[s].ph = "open" /\ out[s].todo # 0 /\ x[s].chunk + x[s].todo = out[s].chunk + out[s].todo
      /\ x[s].ph = out[s].ph /\ x[s].win = out[s].win /\ x[s].local = out[s].local /\ x[s].end = out[s].end
  BY <1>1, <1>2, <1>3, <1>5, <1>6
<1>8. \A z \in Streams :
           \/ x[z] = out[z]
           \/ /\ x[z].ph = out[z].ph /\ x[z].win = out[z].win /\ x[z].local = out[z].local /\ x[z].end = out[z].end
              /\ out[z].ph = "open" /\ out[z].todo # 0 /\ x[z].chunk + x[z].todo = out[z].chunk + out[z].todo
  BY <1>6, <1>7
<1>9. Inv(x, ss, in, cs, toClient, toServer, body)
  BY <1>6, <1>8, Work DEF BothEnds
<1>10. Inv(x, [ss EXCEPT !.pumping = TRUE], in, cs, toClient, toServer, body)
  BY <1>9, PumpFlag
<1> QED BY <1>3, <1>10 DEF BothEnds

\* The program ends a body.
LEMMA EndKeeps ==
  ASSUME BothEnds, NEW s \in Streams, End(s)
  PROVE  BothEnds'
<1> DEFINE y == [out[s] EXCEPT !.end = TRUE, !.queued = TRUE]
           x == [out EXCEPT ![s] = y]
<1>0. out \in [Streams -> OutType] /\ out[s] \in OutType
  BY StateFacts
<1>3. out' = x /\ ss' = [ss EXCEPT !.pumping = TRUE] /\ UNCHANGED <<in, cs, toClient, toServer, body>>
      /\ out[s].ph = "open" /\ out[s].todo = 0 /\ out[s].chunk = 0
  BY <1>0 DEF End, StreamUp
<1>5. /\ y \in OutType /\ y.ph = out[s].ph /\ y.win = out[s].win /\ y.local = out[s].local
      /\ y.chunk = out[s].chunk /\ y.todo = out[s].todo
  BY <1>0 DEF OutType
<1> HIDE DEF y
<1>6. x \in [Streams -> OutType] /\ x[s] = y /\ \A z \in Streams : z # s => x[z] = out[z]
  BY <1>0, <1>5
<1> HIDE DEF x
<1>8. \A z \in Streams :
           \/ x[z] = out[z]
           \/ /\ x[z].ph = out[z].ph /\ x[z].win = out[z].win /\ x[z].local = out[z].local /\ x[z].chunk = out[z].chunk
              /\ x[z].todo = out[z].todo /\ out[z].ph = "open" /\ out[z].todo = 0 /\ out[z].chunk = 0
  BY <1>3, <1>5, <1>6
<1>9. Inv(x, ss, in, cs, toClient, toServer, body)
  BY <1>6, <1>8, Work DEF BothEnds
<1>10. Inv(x, [ss EXCEPT !.pumping = TRUE], in, cs, toClient, toServer, body)
  BY <1>9, PumpFlag
<1> QED BY <1>3, <1>10 DEF BothEnds

\* The pump sends DATA.
LEMMA PumpSendsKeeps ==
  ASSUME BothEnds, NEW s \in Streams, PumpSends(s)
  PROVE  BothEnds'
<1> DEFINE n == Smallest({out[s].chunk, Room(s), FrameSize})
           y == [out[s] EXCEPT !.chunk = out[s].chunk - n, !.win = out[s].win - n]
           x == [out EXCEPT ![s] = y]
           f == Data(s, n, FALSE)
           r == Append(toClient, f)
           w == [ss EXCEPT !.win = ss.win - n]
<1>0. out \in [Streams -> OutType] /\ out[s] \in OutType /\ ss \in ServerType /\ toClient \in Seq(Frames) /\ s \in 0..MaxStreams
  BY StateFacts
<1>1. out[s].chunk \in Nat /\ out[s].win \in Int /\ ss.win \in Nat /\ FrameSize \in Nat /\ FrameSize > 0
  <2>1. FrameSize \in Nat /\ FrameSize > 0
    BY Http2Assumption
  <2> QED BY <1>0, <2>1 DEF OutType, ServerType
<1>2. out[s].chunk > 0 /\ Room(s) > 0
  BY DEF PumpSends
<1>3. Room(s) \in Int /\ Room(s) <= ss.win
  <2>1. out[s].win \in Int /\ ss.win \in Int
    BY <1>1
  <2> QED BY <2>1, SmallestTwo DEF Room
<1>4. n \in Nat /\ n <= out[s].chunk /\ n <= ss.win
  <2>1. out[s].chunk \in Int /\ Room(s) \in Int /\ FrameSize \in Int
    BY <1>1, <1>3
  <2> HIDE DEF n
  <2>2. n \in Int /\ n <= out[s].chunk /\ n <= Room(s) /\ n \in {out[s].chunk, Room(s), FrameSize}
    BY <2>1, SmallestThree DEF n
  <2> QED BY <1>1, <1>2, <1>3, <2>2
<1>5. /\ out' = x /\ toClient' = r /\ UNCHANGED <<in, cs, toServer, body>>
      /\ \E full \in BOOLEAN : ss' = [ss EXCEPT !.win = ss.win - n, !.pumping = ~full, !.drain = ss.drain \/ full]
  BY <1>0 DEF PumpSends
<1>6. PICK full \in BOOLEAN : ss' = [ss EXCEPT !.win = ss.win - n, !.pumping = ~full, !.drain = ss.drain \/ full]
  BY <1>5
<1> DEFINE u == ss.drain \/ full
<1>7. u \in BOOLEAN /\ (~full) \in BOOLEAN /\ ss' = [w EXCEPT !.pumping = ~full, !.drain = u]
  <2>1. ss.drain \in BOOLEAN
    BY <1>0 DEF ServerType
  <2>2. u \in BOOLEAN /\ (~full) \in BOOLEAN
    <3>1. full \in BOOLEAN
      BY <1>6
    <3>2. CASE full = TRUE
      BY <3>2
    <3>3. CASE full = FALSE
      BY <2>1, <3>3
    <3> QED BY <3>1, <3>2, <3>3
  <2>3. ss' = [w EXCEPT !.pumping = ~full, !.drain = u]
    BY <1>6
  <2> QED BY <2>2, <2>3
<1> HIDE DEF n, u
<1>8. out[s].chunk - n \in Nat /\ out[s].win - n \in Int /\ ss.win - n \in Nat
  BY <1>1, <1>4
<1>9. /\ y \in OutType /\ y.chunk = out[s].chunk - n /\ y.win = out[s].win - n /\ y.ph = out[s].ph /\ y.todo = out[s].todo
      /\ y.end = out[s].end /\ y.local = out[s].local /\ y.queued = out[s].queued
  BY <1>0, <1>8 DEF OutType
<1>10. /\ w \in ServerType /\ w.win = ss.win - n /\ w.initial = ss.initial /\ w.last = ss.last /\ w.goaway = ss.goaway
       /\ w.closing = ss.closing /\ w.gone = ss.gone /\ w.cut = ss.cut
  BY <1>0, <1>8 DEF ServerType
<1> HIDE DEF y, w
<1>11. x \in [Streams -> OutType] /\ x[s] = y /\ \A z \in Streams : z # s => x[z] = out[z]
  BY <1>0, <1>9
<1>12. /\ f \in Frames /\ f.type = "data" /\ f.of = s /\ f.n = n /\ f.end = FALSE
  <2>1. FALSE \in BOOLEAN
    OBVIOUS
  <2> QED BY <1>0, <1>4, <2>1, DataType
<1> HIDE DEF x, f
<1>13. Longer(toClient, f, r)
  <2>1. toClient \in Seq(Frames)
    BY <1>0
  <2>2. f \in Frames
    BY <1>12
  <2> QED BY <2>1, <2>2, LongerIs
<1> HIDE DEF r
<1>14. Inv(x, w, in, cs, r, toServer, body)
  <2>1. /\ x[s].chunk = out[s].chunk - n /\ x[s].win = out[s].win - n /\ x[s].ph = out[s].ph /\ x[s].todo = out[s].todo
        /\ x[s].end = out[s].end /\ x[s].local = out[s].local /\ x[s].queued = out[s].queued
    BY <1>9, <1>11
  <2>2. Inv(out, ss, in, cs, toClient, toServer, body)
    BY DEF BothEnds
  <2>3. f.type = "data" /\ f.of = s /\ f.n = n /\ ~f.end
    BY <1>12
  <2>4. n \in Nat
    BY <1>4
  <2> QED BY <1>2, <1>4, <1>10, <1>11, <1>13, <2>1, <2>2, <2>3, <2>4, SendData
<1>15. Inv(x, [w EXCEPT !.pumping = ~full, !.drain = u], in, cs, r, toServer, body)
  BY <1>7, <1>14, FlagsOnly
<1> QED BY <1>5, <1>7, <1>15 DEF BothEnds

\* A task of the server that sends one frame last.
LEMMA ServerSays ==
  ASSUME NEW o, NEW v, NEW f \in Frames, toClient \in Seq(Frames),
         Inv(o, v, in', cs', Append(toClient, f), toServer', body'), ServerTurn(o, v, << f >>)
  PROVE  BothEnds'
<1> DEFINE e == << f >>
<1>1. e \in Seq(Frames)
  OBVIOUS
<1>2. toClient \o e = Append(toClient, f)
  BY JoinOne
<1>3. Inv(o, v, in', cs', toClient \o e, toServer', body') /\ ServerTurn(o, v, e)
  BY <1>2
<1> HIDE DEF e
<1> QED BY <1>1, <1>3, ServerTurns

\* A task of the server that sends nothing last.
LEMMA ServerIsSilent ==
  ASSUME NEW o, NEW v, toClient \in Seq(Frames),
         Inv(o, v, in', cs', toClient, toServer', body'), ServerTurn(o, v, <<>>)
  PROVE  BothEnds'
<1> DEFINE e == <<>>
<1>1. e \in Seq(Frames)
  OBVIOUS
<1>2. toClient \o e = toClient
  BY JoinNone
<1>3. Inv(o, v, in', cs', toClient \o e, toServer', body') /\ ServerTurn(o, v, e)
  BY <1>2
<1> HIDE DEF e
<1> QED BY <1>1, <1>3, ServerTurns

\* A task of the client that sends one frame last.
LEMMA ClientSays ==
  ASSUME NEW i, NEW c, NEW f \in Frames, toServer \in Seq(Frames),
         Inv(out', ss', i, c, toClient', Append(toServer, f), body'), ClientTurn(i, c, << f >>)
  PROVE  BothEnds'
<1> DEFINE e == << f >>
<1>1. e \in Seq(Frames)
  OBVIOUS
<1>2. toServer \o e = Append(toServer, f)
  BY JoinOne
<1>3. Inv(out', ss', i, c, toClient', toServer \o e, body') /\ ClientTurn(i, c, e)
  BY <1>2
<1> HIDE DEF e
<1> QED BY <1>1, <1>3, ClientTurns

\* A task of the client that sends nothing last.
LEMMA ClientIsSilent ==
  ASSUME NEW i, NEW c, toServer \in Seq(Frames),
         Inv(out', ss', i, c, toClient', toServer, body'), ClientTurn(i, c, <<>>)
  PROVE  BothEnds'
<1> DEFINE e == <<>>
<1>1. e \in Seq(Frames)
  OBVIOUS
<1>2. toServer \o e = toServer
  BY JoinNone
<1>3. Inv(out', ss', i, c, toClient', toServer \o e, body') /\ ClientTurn(i, c, e)
  BY <1>2
<1> HIDE DEF e
<1> QED BY <1>1, <1>3, ClientTurns

\* The pump finds nothing more to send.
LEMMA PumpDoneKeeps ==
  ASSUME BothEnds, PumpDone
  PROVE  BothEnds'
<1> DEFINE x == [s \in Streams |-> [out[s] EXCEPT !.queued = out[s].queued /\ (out[s].chunk > 0 \/ out[s].end)]]
           w == [ss EXCEPT !.pumping = FALSE]
<1>0. out \in [Streams -> OutType] /\ ss \in ServerType /\ toClient \in Seq(Frames)
  BY StateFacts
<1>1. ServerTurn(x, w, <<>>) /\ UNCHANGED <<in, cs, toServer, body>>
  BY DEF PumpDone
<1>2. ASSUME NEW s \in Streams
      PROVE  /\ x[s] \in OutType /\ x[s].ph = out[s].ph /\ x[s].win = out[s].win /\ x[s].local = out[s].local
             /\ x[s].end = out[s].end /\ x[s].chunk = out[s].chunk /\ x[s].todo = out[s].todo
             /\ (x[s].queued => out[s].queued)
  <2> DEFINE u == out[s].queued /\ (out[s].chunk > 0 \/ out[s].end)
  <2>1. u \in BOOLEAN /\ (u => out[s].queued)
    OBVIOUS
  <2>2. x[s] = [out[s] EXCEPT !.queued = u]
    OBVIOUS
  <2>3. out[s] \in OutType
    BY <1>0
  <2> HIDE DEF u, x
  <2> QED BY <2>1, <2>2, <2>3 DEF OutType
<1>3. x \in [Streams -> OutType]
  BY <1>2
<1> HIDE DEF x
<1>4. \A s \in Streams :
        \/ x[s] = out[s]
        \/ /\ x[s].ph = out[s].ph /\ x[s].win = out[s].win /\ x[s].local = out[s].local /\ x[s].end = out[s].end
           /\ x[s].chunk = out[s].chunk /\ x[s].todo = out[s].todo /\ (x[s].queued => out[s].queued)
  BY <1>2
<1>5. Inv(x, ss, in, cs, toClient, toServer, body)
  BY <1>3, <1>4, Work DEF BothEnds
<1>6. Inv(x, w, in, cs, toClient, toServer, body)
  <2>1. FALSE \in BOOLEAN
    OBVIOUS
  <2> QED BY <1>5, <2>1, PumpFlag
<1> HIDE DEF w
<1>7. Inv(x, w, in', cs', toClient, toServer', body')
  BY <1>1, <1>6
<1> QED BY <1>0, <1>1, <1>7, ServerIsSilent

\* The socket drains.
LEMMA DrainKeeps ==
  ASSUME BothEnds, Drain
  PROVE  BothEnds'
<1> DEFINE m == ~ss.gone
<1>0. ss \in ServerType
  BY StateFacts
<1>1. m \in BOOLEAN /\ FALSE \in BOOLEAN
  BY <1>0 DEF ServerType
<1>2. ss' = [ss EXCEPT !.drain = FALSE, !.pumping = m] /\ UNCHANGED <<out, in, cs, toClient, toServer, body>>
  BY DEF Drain
<1> HIDE DEF m
<1>3. SameSession(ss, ss')
  BY <1>0, <1>1, <1>2 DEF ServerType, SameSession
<1>4. Inv(out, ss', in, cs, toClient, toServer, body)
  BY <1>3, Flags DEF BothEnds
<1> QED BY <1>2, <1>4 DEF BothEnds

\* A stream that is open at the server says so of its session.
LEMMA UpFacts ==
  ASSUME BothEnds, NEW s \in Streams, out[s].ph = "open"
  PROVE  ~ss.gone /\ \A g \in In(toClient) : g.type # "fin"
<1>1. ~ss.gone
  BY DEF BothEnds, Inv, Sessions, NoneOpen
<1> QED BY <1>1 DEF BothEnds, Inv, Wires, ToClient

\* The pump sends the end of a body.
LEMMA PumpEndsStreamKeeps ==
  ASSUME BothEnds, NEW s \in Streams, PumpEndsStream(s)
  PROVE  BothEnds'
<1> DEFINE y == [out[s] EXCEPT !.end = FALSE, !.local = TRUE, !.queued = FALSE, !.ph = "closed"]
           x == [out EXCEPT ![s] = y]
           f == Data(s, 0, TRUE)
           r == Append(toClient, f)
<1>0. out \in [Streams -> OutType] /\ out[s] \in OutType /\ ss \in ServerType /\ toClient \in Seq(Frames) /\ s \in 0..MaxStreams
  BY StateFacts
<1>1. /\ out' = x /\ toClient' = r /\ UNCHANGED <<ss, in, cs, toServer, body>>
      /\ out[s].chunk = 0 /\ out[s].end /\ ~out[s].local
  BY <1>0 DEF PumpEndsStream
<1>2. out[s].ph = "open" /\ out[s].todo = 0
  BY <1>1 DEF BothEnds, Inv, StreamsStand, StreamStands
<1>3. y \in OutType /\ y.ph = "closed" /\ y.chunk = 0 /\ y.local
  BY <1>0, <1>1 DEF OutType
<1> HIDE DEF y
<1>4. x \in [Streams -> OutType] /\ x[s] = y /\ \A z \in Streams : z # s => x[z] = out[z]
  BY <1>0, <1>3
<1>5. /\ f \in Frames /\ f.type = "data" /\ f.of = s /\ f.n = 0 /\ f.end = TRUE
  <2>1. TRUE \in BOOLEAN /\ 0 \in Nat
    OBVIOUS
  <2> QED BY <1>0, <2>1, DataType
<1> HIDE DEF x, f
<1>6. Longer(toClient, f, r)
  <2>1. toClient \in Seq(Frames)
    BY <1>0
  <2>2. f \in Frames
    BY <1>5
  <2> QED BY <2>1, <2>2, LongerIs
<1> HIDE DEF r
<1>7. \A z \in Streams : EndFrame(f, z) /\ in[z].ph = "open" => body[z] = in[z].got + Carried(toClient, "data", {z})
  <2> SUFFICES ASSUME NEW z \in Streams, EndFrame(f, z), in[z].ph = "open"
               PROVE  body[z] = in[z].got + Carried(toClient, "data", {z})
    OBVIOUS
  <2>1. z = s
    BY <1>5 DEF EndFrame
  <2>2. body[s] = in[s].got + Carried(toClient, "data", {s}) + out[s].chunk + out[s].todo
    BY <1>2, <2>1 DEF BothEnds, Inv, Bytes, BytesOf
  <2>3. Carried(toClient, "data", {s}) \in Nat /\ in[s].got \in Nat
    <3>1. toClient \in Seq(Frames)
      BY <1>0
    <3>2. in[s] \in InType
      BY StateFacts
    <3> QED BY <3>1, <3>2, CarriedNat DEF InType
  <2> QED BY <1>1, <1>2, <2>1, <2>2, <2>3
<1>8. ToClient(f, out, ss)
  BY <1>2, <1>5 DEF ToClient
<1>9. \A g \in In(toClient) : g.type # "fin"
  BY <1>2, UpFacts
<1>10. Inv(out, ss, in, cs, r, toServer, body)
  <2>1. f.type # "data" \/ f.n = 0
    BY <1>5
  <2>2. f.type # "ack"
    BY <1>5
  <2>3. Inv(out, ss, in, cs, toClient, toServer, body) /\ ss \in ServerType
    BY <1>0 DEF BothEnds
  <2> QED BY <1>6, <1>7, <1>8, <1>9, <2>1, <2>2, <2>3, AppendClient
<1>11. EndComes(r, s)
  <2>1. Ending(f, s)
    BY <1>5 DEF Ending, EndFrame
  <2> QED BY <1>6, <2>1 DEF Longer
<1>12. \A z \in Streams :
           \/ x[z] = out[z]
           \/ /\ out[z].ph = "open" /\ x[z].ph = "closed" /\ x[z].chunk = 0 /\ x[z].local
              /\ in[z].ph = "open" /\ ~ss.cut /\ ~cs.gone => EndComes(r, z)
  BY <1>2, <1>3, <1>4, <1>11
<1>13. Inv(x, ss, in, cs, r, toServer, body)
  BY <1>4, <1>10, <1>12, CloseOut
<1> QED BY <1>1, <1>13 DEF BothEnds

\* Before the end of the server's session its end is not on the way.
LEMMA NoFinYet ==
  ASSUME NEW o, NEW v, NEW i, NEW c, NEW q, NEW p, NEW b, Inv(o, v, i, c, q, p, b), ~v.gone
  PROVE  \A g \in In(q) : g.type # "fin"
BY DEF Inv, Wires, ToClient

\* GOAWAY names the last stream the server took.
LEMMA GoawaySent ==
  ASSUME NEW o, NEW v, NEW i, NEW c, NEW q, NEW p, NEW b, Inv(o, v, i, c, q, p, b), ~v.gone, ~v.goaway
  PROVE  /\ Frame("goaway", v.last, 0) \in Frames
         /\ Inv(o, [v EXCEPT !.goaway = TRUE], i, c, Append(q, Frame("goaway", v.last, 0)), p, b)
<1> DEFINE w == [v EXCEPT !.goaway = TRUE]
           f == Frame("goaway", v.last, 0)
           r == Append(q, f)
<1>0. /\ v \in ServerType /\ q \in Seq(Frames) /\ MaxStreams \in Nat /\ o \in [Streams -> OutType]
      /\ \A s \in Streams : s \in Nat
  BY Facts
<1>1. f \in Frames /\ f.type = "goaway" /\ f.of = v.last
  <2>1. v.last \in 0..MaxStreams /\ 0 \in Nat
    BY <1>0 DEF ServerType
  <2> QED BY <2>1, FrameType
<1>2. w \in ServerType /\ w.goaway /\ w.win = v.win /\ w.initial = v.initial /\ w.last = v.last
      /\ w.closing = v.closing /\ w.gone = v.gone /\ w.cut = v.cut
  BY <1>0 DEF ServerType
<1> HIDE DEF w, f
<1>3. Longer(q, f, r)
  <2>1. q \in Seq(Frames)
    BY <1>0
  <2>2. f \in Frames
    BY <1>1
  <2> QED BY <2>1, <2>2, LongerIs
<1> HIDE DEF r
<1>4. \A g \in In(q) : g.type # "fin"
  BY NoFinYet
<1>5. \A s \in Streams : s > v.last => o[s].ph = "none"
  <2>1. v.last \in Nat
    BY <1>0 DEF ServerType
  <2>2. \A s \in Streams : o[s].ph # "none" => s <= v.last
    BY DEF Inv, StreamsStand, StreamStands
  <2> QED BY <1>0, <2>1, <2>2
<1>6. ToClient(f, o, w)
  BY <1>1, <1>2, <1>5 DEF ToClient, Turned
<1>7. \A z \in Streams : ~EndFrame(f, z)
  BY <1>1 DEF EndFrame
<1>8. f.type # "data" /\ f.type # "ack" /\ f.type = "goaway" /\ f.of <= v.last
  <2>1. v.last \in Nat
    BY <1>0 DEF ServerType
  <2> QED BY <1>1, <2>1
<1>9. Inv(o, w, i, c, r, p, b)
  BY <1>2, <1>3, <1>4, <1>6, <1>7, <1>8, AppendClient
<1> QED BY <1>1, <1>9 DEF w, f, r

\* A stream that is closed.
LEMMA ClosedType ==
  ASSUME NEW y \in OutType
  PROVE  Closed(y) \in OutType /\ Closed(y).ph = "closed" /\ Closed(y).chunk = 0 /\ Closed(y).local
BY DEF Closed, OutType

\* stream.close() at the server.
LEMMA ServerResetsKeeps ==
  ASSUME BothEnds, NEW s \in Streams, ServerResets(s)
  PROVE  BothEnds'
<1> DEFINE y == Closed(out[s])
           x == [out EXCEPT ![s] = y]
           f == Frame("rst", s, 0)
           r == Append(toClient, f)
<1>0. out \in [Streams -> OutType] /\ out[s] \in OutType /\ ss \in ServerType /\ toClient \in Seq(Frames) /\ s \in 0..MaxStreams
  BY StateFacts
<1>1. out[s].ph = "open" /\ ~ss.gone /\ ServerTurn(x, ss, << f >>) /\ UNCHANGED <<in, cs, toServer, body>>
  BY <1>0 DEF ServerResets, StreamUp
<1>2. y \in OutType /\ y.ph = "closed" /\ y.chunk = 0 /\ y.local
  BY <1>0, ClosedType
<1> HIDE DEF y
<1>3. x \in [Streams -> OutType] /\ x[s] = y /\ \A z \in Streams : z # s => x[z] = out[z]
  BY <1>0, <1>2
<1>4. f \in Frames /\ f.type = "rst" /\ f.of = s
  <2>1. s \in 0..MaxStreams /\ 0 \in Nat
    BY <1>0
  <2> QED BY <2>1, FrameType
<1> HIDE DEF x, f
<1>5. Longer(toClient, f, r)
  <2>1. toClient \in Seq(Frames)
    BY <1>0
  <2>2. f \in Frames
    BY <1>4
  <2> QED BY <2>1, <2>2, LongerIs
<1> HIDE DEF r
<1>6. \A g \in In(toClient) : g.type # "fin"
  BY <1>1, UpFacts
<1>7. ToClient(f, out, ss)
  BY <1>1, <1>4 DEF ToClient
<1>8. \A z \in Streams : ~EndFrame(f, z)
  BY <1>4 DEF EndFrame
<1>9. Inv(out, ss, in, cs, r, toServer, body)
  <2>1. f.type # "data" /\ f.type # "ack" /\ ss \in ServerType
    BY <1>0, <1>4
  <2>2. Inv(out, ss, in, cs, toClient, toServer, body)
    BY DEF BothEnds
  <2> QED BY <1>5, <1>6, <1>7, <1>8, <2>1, <2>2, AppendClient
<1>10. EndComes(r, s)
  <2>1. Ending(f, s)
    BY <1>4 DEF Ending
  <2> QED BY <1>5, <2>1 DEF Longer
<1>11. \A z \in Streams :
           \/ x[z] = out[z]
           \/ /\ out[z].ph = "open" /\ x[z].ph = "closed" /\ x[z].chunk = 0 /\ x[z].local
              /\ in[z].ph = "open" /\ ~ss.cut /\ ~cs.gone => EndComes(r, z)
  BY <1>1, <1>2, <1>3, <1>10
<1>12. Inv(x, ss, in, cs, r, toServer, body)
  BY <1>3, <1>9, <1>11, CloseOut
<1>13. Inv(x, ss, in', cs', Append(toClient, f), toServer', body')
  BY <1>1, <1>12 DEF r
<1>14. f \in Frames
  BY <1>4
<1> QED BY <1>0, <1>1, <1>13, <1>14, ServerSays

\* session.goaway()
LEMMA GoawayKeeps ==
  ASSUME BothEnds, Goaway
  PROVE  BothEnds'
<1>1. ~ss.gone /\ ~ss.goaway /\ ss' = [ss EXCEPT !.goaway = TRUE] /\ toClient' = Append(toClient, Frame("goaway", ss.last, 0))
      /\ UNCHANGED <<out, in, cs, toServer, body>>
  BY DEF Goaway
<1>2. Inv(out, [ss EXCEPT !.goaway = TRUE], in, cs, Append(toClient, Frame("goaway", ss.last, 0)), toServer, body)
  BY <1>1, GoawaySent DEF BothEnds
<1> QED BY <1>1, <1>2 DEF BothEnds

\* session.close() at the server.
LEMMA ServerClosesKeeps ==
  ASSUME BothEnds, ServerCloses
  PROVE  BothEnds'
<1> DEFINE w == [ss EXCEPT !.closing = TRUE, !.goaway = TRUE]
           f == Frame("goaway", ss.last, 0)
<1>0. ss \in ServerType /\ toClient \in Seq(Frames)
  BY StateFacts
<1>1. ~ss.gone /\ UNCHANGED <<in, cs, toServer, body>> /\ ServerTurn(out, w, IF ss.goaway THEN <<>> ELSE << f >>)
  BY DEF ServerCloses
<1>2. Inv(out, ss, in, cs, toClient, toServer, body)
  BY DEF BothEnds
<1>3. CASE ss.goaway
  <2> DEFINE u == [ss EXCEPT !.closing = TRUE]
  <2>1. Inv(out, u, in, cs, toClient, toServer, body)
    BY <1>2, <1>3, ServerClosing
  <2>2. SameSession(u, w)
    BY <1>0, <1>3 DEF ServerType, SameSession
  <2> HIDE DEF u, w
  <2>3. Inv(out, w, in, cs, toClient, toServer, body)
    BY <2>1, <2>2, Flags
  <2>4. Inv(out, w, in', cs', toClient, toServer', body') /\ ServerTurn(out, w, <<>>)
    BY <1>1, <1>3, <2>3
  <2> QED BY <1>0, <2>4, ServerIsSilent
<1>4. CASE ~ss.goaway
  <2> DEFINE a == [ss EXCEPT !.goaway = TRUE]
             u == [a EXCEPT !.closing = TRUE]
             r == Append(toClient, f)
  <2>1. f \in Frames /\ Inv(out, a, in, cs, r, toServer, body)
    BY <1>1, <1>2, <1>4, GoawaySent
  <2>2. a.goaway
    BY <1>0 DEF ServerType
  <2>3. SameSession(u, w)
    BY <1>0 DEF ServerType, SameSession
  <2> HIDE DEF a, r, f
  <2>4. Inv(out, u, in, cs, r, toServer, body)
    BY <2>1, <2>2, ServerClosing
  <2> HIDE DEF u, w
  <2>5. Inv(out, w, in, cs, r, toServer, body)
    BY <2>3, <2>4, Flags
  <2>6. Inv(out, w, in', cs', Append(toClient, f), toServer', body') /\ ServerTurn(out, w, << f >>)
    BY <1>1, <1>4, <2>5 DEF r
  <2>7. f \in Frames
    BY <2>1
  <2> QED BY <1>0, <2>6, <2>7, ServerSays
<1> QED BY <1>3, <1>4

\* What is left of a queue that is cut.
LEMMA CutLeaves ==
  ASSUME NEW q \in Seq(Frames), NEW k \in 0..Len(q)
  PROVE  LET t == SubSeq(q, 1, k) IN
         /\ t \in Seq(Frames) /\ In(t) \subseteq In(q) /\ Len(t) = k
         /\ \A j \in 1..k : j \in 1..Len(q) /\ t[j] = q[j] /\ SubSeq(t, 1, j) = SubSeq(q, 1, j)
         /\ \A type, S : Carried(t, type, S) \in Nat /\ Carried(t, type, S) <= Carried(q, type, S)
         /\ \A type : NumOf(t, type) \in Nat /\ NumOf(t, type) <= NumOf(q, type)
<1> DEFINE t == SubSeq(q, 1, k)
<1>1. t \in Seq(Frames) /\ Len(t) = k /\ \A j \in 1..k : t[j] = q[j] /\ j \in 1..Len(q)
  BY CarriedPrefix
<1>2. In(t) \subseteq In(q)
  BY InPrefix
<1>3. \A j \in 1..k : SubSeq(t, 1, j) = SubSeq(q, 1, j)
  OBVIOUS
<1> HIDE DEF t
<1>4. t \in Seq(Frames)
  BY <1>1
<1>5. \A type, S : Carried(t, type, S) \in Nat /\ NumOf(t, type) \in Nat
  BY <1>4, CarriedNat
<1>6. \A type, S : Carried(t, type, S) <= Carried(q, type, S) /\ NumOf(t, type) <= NumOf(q, type)
  BY CarriedPrefix DEF t
<1> QED BY <1>1, <1>2, <1>3, <1>5, <1>6 DEF t

\* Every open stream of the server closes: nobody waits for their ends.
LEMMA AllClose ==
  ASSUME BothEnds, NEW v, NEW q, Inv(out, v, in, cs, q, toServer, body), v.cut \/ cs.gone
  PROVE  Inv(CloseAll, v, in, cs, q, toServer, body) /\ NoneOpen(CloseAll)
<1> DEFINE x == CloseAll
<1>1. out \in [Streams -> OutType]
  BY StateFacts
<1>2. ASSUME NEW z \in Streams
      PROVE  /\ x[z] \in OutType /\ x[z].ph # "open"
             /\ \/ x[z] = out[z]
                \/ out[z].ph = "open" /\ x[z].ph = "closed" /\ x[z].chunk = 0 /\ x[z].local
  <2>1. out[z] \in OutType
    BY <1>1
  <2>2. CASE out[z].ph = "open"
    <3>1. x[z] = Closed(out[z])
      BY <2>2 DEF CloseAll
    <3> HIDE DEF x
    <3> QED BY <2>1, <2>2, <3>1, ClosedType
  <2>3. CASE out[z].ph # "open"
    <3>1. x[z] = out[z]
      BY <2>3 DEF CloseAll
    <3> QED BY <2>1, <2>3, <3>1
  <2> QED BY <2>2, <2>3
<1>3. x \in [Streams -> OutType]
  BY <1>2 DEF CloseAll
<1> HIDE DEF x
<1>4. \A z \in Streams :
           \/ x[z] = out[z]
           \/ /\ out[z].ph = "open" /\ x[z].ph = "closed" /\ x[z].chunk = 0 /\ x[z].local
              /\ in[z].ph = "open" /\ ~v.cut /\ ~cs.gone => EndComes(q, z)
  BY <1>2
<1>5. Inv(x, v, in, cs, q, toServer, body)
  BY <1>3, <1>4, CloseOut
<1>6. NoneOpen(x)
  BY <1>2 DEF NoneOpen
<1> QED BY <1>5, <1>6 DEF x

\* session.destroy() at the server, once GOAWAY is on its way.
LEMMA DestroyedServer ==
  ASSUME BothEnds, NEW v, NEW q, Inv(out, v, in, cs, q, toServer, body), ~v.gone,
         NEW k \in 0..Len(q),
         NEW w, w \in ServerType, w.win = v.win, w.initial = v.initial, w.last = v.last, w.goaway = v.goaway,
         w.closing = v.closing, w.gone, w.cut
  PROVE  Inv(CloseAll, w, in, cs, Append(SubSeq(q, 1, k), Frame("fin", 0, 0)), toServer, body)
<1> DEFINE a == [v EXCEPT !.cut = TRUE]
           e == [a EXCEPT !.gone = TRUE]
           t == SubSeq(q, 1, k)
           f == Frame("fin", 0, 0)
           r == Append(t, f)
<1>0. v \in ServerType /\ q \in Seq(Frames)
  BY Facts
<1>1. Inv(out, a, in, cs, q, toServer, body)
  BY ServerCut
<1>2. a \in ServerType /\ a.cut /\ a.win = v.win /\ a.initial = v.initial /\ a.last = v.last /\ a.goaway = v.goaway
      /\ a.closing = v.closing
  BY <1>0 DEF ServerType
<1>3. e.gone /\ e.cut /\ SameSession(e, w)
  BY <1>0, <1>2 DEF ServerType, SameSession
<1> HIDE DEF a
<1>4. Inv(CloseAll, a, in, cs, q, toServer, body) /\ NoneOpen(CloseAll)
  BY <1>1, <1>2, AllClose
<1>5. Inv(CloseAll, e, in, cs, q, toServer, body)
  BY <1>2, <1>4, ServerGone
<1> HIDE DEF e
<1>6. Inv(CloseAll, w, in, cs, q, toServer, body)
  BY <1>3, <1>5, Flags
<1>7. /\ t \in Seq(Frames) /\ In(t) \subseteq In(q) /\ Len(t) = k
      /\ \A j \in 1..k : j \in 1..Len(q) /\ t[j] = q[j] /\ SubSeq(t, 1, j) = SubSeq(q, 1, j)
      /\ \A type, S : Carried(t, type, S) \in Nat /\ Carried(t, type, S) <= Carried(q, type, S)
      /\ \A type : NumOf(t, type) \in Nat /\ NumOf(t, type) <= NumOf(q, type)
  BY <1>0, CutLeaves
<1> HIDE DEF t
<1>8. Inv(CloseAll, w, in, cs, t, toServer, body)
  BY <1>6, <1>7, PrefixClient
<1>9. f \in Frames /\ f.type = "fin"
  <2>1. 0 \in 0..MaxStreams /\ 0 \in Nat
    BY StateFacts
  <2> QED BY <2>1, FrameType
<1> HIDE DEF f
<1>10. Longer(t, f, r)
  <2>1. t \in Seq(Frames)
    BY <1>7
  <2>2. f \in Frames
    BY <1>9
  <2> QED BY <2>1, <2>2, LongerIs
<1> HIDE DEF r
<1>11. \A g \in In(t) : g.type # "fin"
  <2>1. \A g \in In(q) : g.type # "fin"
    BY NoFinYet
  <2> QED BY <1>7, <2>1
<1>12. ToClient(f, CloseAll, w)
  BY <1>9 DEF ToClient
<1>13. \A z \in Streams : ~EndFrame(f, z)
  BY <1>9 DEF EndFrame
<1>14. f.type # "data" /\ f.type # "ack"
  BY <1>9
<1>15. Inv(CloseAll, w, in, cs, r, toServer, body)
  BY <1>8, <1>10, <1>11, <1>12, <1>13, <1>14, AppendClient
<1> QED BY <1>15 DEF r, t, f

\* session.destroy() at the server.
LEMMA ServerDestroysKeeps ==
  ASSUME BothEnds, ServerDestroys
  PROVE  BothEnds'
<1> DEFINE w == [ss EXCEPT !.gone = TRUE, !.cut = TRUE, !.goaway = TRUE]
           h == Append(toClient, Frame("goaway", ss.last, 0))
           a == [ss EXCEPT !.goaway = TRUE]
<1>0. ss \in ServerType
  BY StateFacts
<1>1. /\ ~ss.gone /\ out' = CloseAll /\ ss' = w /\ UNCHANGED <<in, cs, toServer, body>>
      /\ toClient' \in CutOff(IF ss.goaway THEN toClient ELSE h)
  BY DEF ServerDestroys
<1>2. Inv(out, ss, in, cs, toClient, toServer, body)
  BY DEF BothEnds
<1>3. w \in ServerType /\ w.win = ss.win /\ w.initial = ss.initial /\ w.last = ss.last /\ w.goaway
      /\ w.closing = ss.closing /\ w.gone /\ w.cut
  BY <1>0 DEF ServerType
<1>4. a.win = ss.win /\ a.initial = ss.initial /\ a.last = ss.last /\ a.goaway /\ a.closing = ss.closing /\ a.gone = ss.gone
  BY <1>0 DEF ServerType
<1> HIDE DEF w
<1>5. CASE ss.goaway
  <2>1. PICK k \in 0..Len(toClient) : toClient' = Append(SubSeq(toClient, 1, k), Frame("fin", 0, 0))
    BY <1>1, <1>5 DEF CutOff
  <2>2. k \in 0..Len(toClient)
    BY <2>1
  <2>3. w.goaway = ss.goaway
    BY <1>0, <1>3, <1>5 DEF ServerType
  <2>4. Inv(CloseAll, w, in, cs, Append(SubSeq(toClient, 1, k), Frame("fin", 0, 0)), toServer, body)
    BY <1>1, <1>2, <1>3, <2>2, <2>3, DestroyedServer
  <2> QED BY <1>1, <2>1, <2>4 DEF BothEnds
<1>6. CASE ~ss.goaway
  <2>1. Inv(out, a, in, cs, h, toServer, body)
    BY <1>1, <1>2, <1>6, GoawaySent
  <2> HIDE DEF a, h
  <2>2. PICK k \in 0..Len(h) : toClient' = Append(SubSeq(h, 1, k), Frame("fin", 0, 0))
    BY <1>1, <1>6 DEF CutOff
  <2>3. k \in 0..Len(h)
    BY <2>2
  <2>4. w.win = a.win /\ w.initial = a.initial /\ w.last = a.last /\ w.goaway = a.goaway /\ w.closing = a.closing /\ ~a.gone
    <3>1. w.goaway \in BOOLEAN /\ a \in ServerType
      BY <1>3, <2>1, Facts DEF ServerType
    <3>2. a.goaway \in BOOLEAN
      BY <3>1 DEF ServerType
    <3> QED BY <1>1, <1>3, <1>4, <3>1, <3>2
  <2>5. Inv(CloseAll, w, in, cs, Append(SubSeq(h, 1, k), Frame("fin", 0, 0)), toServer, body)
    BY <1>3, <2>1, <2>3, <2>4, DestroyedServer
  <2> QED BY <1>1, <2>2, <2>5 DEF BothEnds
<1> QED BY <1>5, <1>6

\* What every handler of the server starts from.
LEMMA ReadingFacts ==
  ASSUME BothEnds, NEW type, Reading(type)
  PROVE  /\ Inv(out, ss, in, cs, toClient, toServer, body)
         /\ Shorter(toServer, Head(toServer), toServer') /\ Head(toServer).type = type /\ ~ss.gone
         /\ in' = in /\ cs' = cs /\ body' = body /\ toServer' = Tail(toServer)
         /\ Head(toServer) \in In(toServer) /\ ToServer(Head(toServer), out, ss, in, cs) /\ Head(toServer) \in Frames
<1>1. toServer # <<>> /\ toServer' = Tail(toServer) /\ toServer \in Seq(Frames)
  BY StateFacts DEF Reading
<1>2. Shorter(toServer, Head(toServer), Tail(toServer))
  BY <1>1, ShorterIs
<1>3. Head(toServer) \in In(toServer) /\ Head(toServer) \in Frames
  BY <1>2 DEF Shorter
<1>4. ToServer(Head(toServer), out, ss, in, cs)
  BY <1>3 DEF BothEnds, Inv, Wires
<1> QED BY <1>1, <1>2, <1>3, <1>4 DEF BothEnds, Reading

\* A request arrives.
LEMMA OnHeadersKeeps ==
  ASSUME BothEnds, OnHeaders
  PROVE  BothEnds'
<1> DEFINE f == Head(toServer)
           s == f.of
           w == [ss EXCEPT !.last = s]
<1>0. out \in [Streams -> OutType] /\ ss \in ServerType /\ toClient \in Seq(Frames) /\ body \in [Streams -> Bodies] /\ Bodies \subseteq Nat
  BY StateFacts
<1>1. /\ Inv(out, ss, in, cs, toClient, toServer, body) /\ Shorter(toServer, f, toServer') /\ f.type = "headers" /\ ~ss.gone
      /\ in' = in /\ cs' = cs /\ body' = body /\ ToServer(f, out, ss, in, cs)
  BY ReadingFacts DEF OnHeaders
<1>2. s \in Streams /\ s \in 0..MaxStreams
  <2>1. s \in Streams
    BY <1>1 DEF ToServer
  <2> QED BY <2>1, StateFacts
<1>3. w \in ServerType /\ w.last = s /\ w.win = ss.win /\ w.initial = ss.initial /\ w.goaway = ss.goaway
      /\ w.closing = ss.closing /\ w.gone = ss.gone /\ w.cut = ss.cut
  BY <1>0, <1>2 DEF ServerType
<1>4. Refuses <=> Turned(ss)
  BY DEF Refuses, Turned
<1>5. CASE Refuses
  <2> DEFINE g == Frame("refused", s, 0)
             r == Append(toClient, g)
  <2>1. ss' = w /\ toClient' = r /\ out' = out
    BY <1>5 DEF OnHeaders
  <2>2. g \in Frames /\ g.type = "refused" /\ g.of = s
    <3>1. s \in 0..MaxStreams /\ 0 \in Nat
      BY <1>2
    <3> HIDE DEF s
    <3> QED BY <3>1, FrameType
  <2> HIDE DEF f, w, g
  <2>3. Longer(toClient, g, r)
    <3>1. toClient \in Seq(Frames)
      BY <1>0
    <3>2. g \in Frames
      BY <2>2
    <3> QED BY <3>1, <3>2, LongerIs
  <2> HIDE DEF r
  <2>4. Inv(out, w, in, cs, r, toServer', body)
    BY <1>1, <1>3, <1>4, <1>5, <2>2, <2>3, HeadersRefused
  <2> QED BY <1>1, <2>1, <2>4 DEF BothEnds
<1>6. CASE ~Refuses
  <2> DEFINE y == [out[s] EXCEPT !.ph = "open", !.win = ss.initial, !.todo = body[s]]
             x == [out EXCEPT ![s] = y]
  <2>1. ss' = w /\ toClient' = toClient /\ out' = [out EXCEPT ![s].ph = "open", ![s].win = ss.initial, ![s].todo = body[s]]
    BY <1>6 DEF OnHeaders
  <2>2. out' = x
    <3> HIDE DEF s
    <3> QED BY <1>0, <1>2, <2>1
  <2>3. ss.initial \in Nat /\ ss.initial \in Int /\ body[s] \in Nat /\ out[s] \in OutType
    <3> HIDE DEF s
    <3>1. ss.initial \in Nat
      BY <1>0 DEF ServerType
    <3>2. s \in Streams
      BY <1>2
    <3>3. body[s] \in Bodies /\ out[s] \in OutType
      BY <1>0, <3>2
    <3>4. Bodies \subseteq Nat
      BY <1>0
    <3>5. body[s] \in Nat
      BY <3>3, <3>4
    <3>6. ss.initial \in Int
      BY <3>1
    <3> QED BY <3>1, <3>3, <3>5, <3>6
  <2> HIDE DEF s
  <2>4. /\ y \in OutType /\ y.ph = "open" /\ y.win = ss.initial /\ y.todo = body[s] /\ y.chunk = out[s].chunk
        /\ y.end = out[s].end /\ y.local = out[s].local
    BY <2>3 DEF OutType
  <2> HIDE DEF y
  <2>5. x \in [Streams -> OutType] /\ x[s] = y /\ \A z \in Streams : z # s => x[z] = out[z]
    BY <1>0, <1>2, <2>4
  <2> HIDE DEF x, w, f
  <2>6. s = f.of
    BY DEF s
  <2>7. /\ x[f.of].ph = "open" /\ x[f.of].win = ss.initial /\ x[f.of].todo = body[f.of] /\ x[f.of].chunk = out[f.of].chunk
        /\ x[f.of].end = out[f.of].end /\ x[f.of].local = out[f.of].local /\ \A z \in Streams : z # f.of => x[z] = out[z]
    BY <2>4, <2>5, <2>6
  <2>8. w.last = f.of
    BY <1>3, <2>6
  <2>9. Inv(x, w, in, cs, toClient, toServer', body)
    BY <1>1, <1>3, <1>4, <1>6, <2>5, <2>7, <2>8, HeadersOpen
  <2> QED BY <1>1, <2>1, <2>2, <2>9 DEF BothEnds
<1> QED BY <1>5, <1>6

\* SETTINGS arrive at the server.
LEMMA OnSettingsKeeps ==
  ASSUME BothEnds, OnSettings
  PROVE  BothEnds'
<1> DEFINE f == Head(toServer)
           n == f.n
           g == Frame("ack", 0, 0)
           r == Append(toClient, g)
           w == [ss EXCEPT !.initial = n, !.pumping = TRUE]
           x == [z \in Streams |-> IF out[z].ph = "open" THEN [out[z] EXCEPT !.win = out[z].win + n - ss.initial] ELSE out[z]]
<1>0. out \in [Streams -> OutType] /\ ss \in ServerType /\ toClient \in Seq(Frames)
  BY StateFacts
<1>1. /\ Inv(out, ss, in, cs, toClient, toServer, body) /\ Shorter(toServer, f, toServer') /\ f.type = "settings" /\ ~ss.gone
      /\ in' = in /\ cs' = cs /\ body' = body /\ f \in Frames
  BY ReadingFacts DEF OnSettings
<1>2. out' = x /\ ss' = w /\ toClient' = r
  BY DEF OnSettings
<1>3. n \in Nat /\ n = f.n
  BY <1>1 DEF Frames
<1> HIDE DEF n, f
<1>4. w \in ServerType /\ w.initial = n /\ w.win = ss.win /\ w.last = ss.last /\ w.goaway = ss.goaway
      /\ w.closing = ss.closing /\ w.gone = ss.gone /\ w.cut = ss.cut
  BY <1>0, <1>3 DEF ServerType
<1>5. ASSUME NEW z \in Streams
      PROVE  /\ x[z] \in OutType /\ x[z].ph = out[z].ph /\ x[z].chunk = out[z].chunk /\ x[z].todo = out[z].todo
             /\ x[z].end = out[z].end /\ x[z].local = out[z].local /\ x[z].queued = out[z].queued
  <2>1. out[z] \in OutType
    BY <1>0
  <2>2. out[z].win + n - ss.initial \in Int
    <3>1. out[z].win \in Int
      BY <2>1 DEF OutType
    <3>2. ss.initial \in Nat
      BY <1>0 DEF ServerType
    <3> QED BY <1>3, <3>1, <3>2
  <2> DEFINE m == out[z].win + n - ss.initial
  <2>3. x[z] = IF out[z].ph = "open" THEN [out[z] EXCEPT !.win = m] ELSE out[z]
    OBVIOUS
  <2>4. m \in Int
    BY <2>2
  <2> HIDE DEF m, x
  <2> QED BY <2>1, <2>3, <2>4 DEF OutType
<1>6. x \in [Streams -> OutType]
  BY <1>5
<1> HIDE DEF x, w
<1>7. g \in Frames /\ g.type = "ack"
  <2>1. 0 \in 0..MaxStreams /\ 0 \in Nat
    BY StateFacts
  <2> QED BY <2>1, FrameType
<1> HIDE DEF g
<1>8. Longer(toClient, g, r)
  <2>1. toClient \in Seq(Frames)
    BY <1>0
  <2>2. g \in Frames
    BY <1>7
  <2> QED BY <2>1, <2>2, LongerIs
<1> HIDE DEF r
<1>9. w.initial = f.n
  BY <1>3, <1>4
<1>10. Inv(x, w, in, cs, r, toServer', body)
  BY <1>1, <1>4, <1>5, <1>6, <1>7, <1>8, <1>9, PopSettings
<1> QED BY <1>1, <1>2, <1>10 DEF BothEnds

\* Credit arrives at the server.
LEMMA OnWindowUpdateKeeps ==
  ASSUME BothEnds, OnWindowUpdate
  PROVE  BothEnds'
<1> DEFINE f == Head(toServer)
           s == f.of
           n == f.n
<1>0. out \in [Streams -> OutType] /\ ss \in ServerType
  BY StateFacts
<1>1. /\ Inv(out, ss, in, cs, toClient, toServer, body) /\ Shorter(toServer, f, toServer') /\ f.type = "update" /\ ~ss.gone
      /\ in' = in /\ cs' = cs /\ body' = body /\ ToServer(f, out, ss, in, cs) /\ f \in Frames
  BY ReadingFacts DEF OnWindowUpdate
<1>2. toClient' = toClient
  BY DEF OnWindowUpdate
<1>3. \/ s = 0 /\ ss' = [ss EXCEPT !.win = ss.win + n, !.pumping = TRUE] /\ out' = out
      \/ s # 0 /\ out[s].ph = "open" /\ out' = [out EXCEPT ![s].win = out[s].win + n] /\ ss' = [ss EXCEPT !.pumping = TRUE]
      \/ s # 0 /\ out[s].ph # "open" /\ out' = out /\ ss' = ss
  <2>1. s # 0 => s \in Streams
    BY <1>1 DEF ToServer
  <2> HIDE DEF f
  <2>2. (s # 0 /\ out' = [out EXCEPT ![s].win = @ + n]) => out' = [out EXCEPT ![s].win = out[s].win + n]
    BY <1>0, <2>1
  <2> QED BY <1>0, <2>1, <2>2 DEF OnWindowUpdate, f
<1>4. n \in Nat
  BY <1>1 DEF Frames
<1>5. s # 0 => s \in Streams
  BY <1>1 DEF ToServer
<1> HIDE DEF f
<1>6. CASE s = 0
  <2> DEFINE w == [ss EXCEPT !.win = ss.win + n, !.pumping = TRUE]
  <2>1. ss' = w /\ out' = out
    BY <1>3, <1>6
  <2>2. ss.win + n \in Nat
    <3>1. ss.win \in Nat
      BY <1>0 DEF ServerType
    <3> QED BY <1>4, <3>1
  <2>3. w \in ServerType /\ w.win = ss.win + f.n /\ w.initial = ss.initial /\ w.last = ss.last /\ w.goaway = ss.goaway
        /\ w.closing = ss.closing /\ w.gone = ss.gone /\ w.cut = ss.cut
    <3> HIDE DEF n
    <3>1. w \in ServerType /\ w.win = ss.win + n /\ w.initial = ss.initial /\ w.last = ss.last /\ w.goaway = ss.goaway
          /\ w.closing = ss.closing /\ w.gone = ss.gone /\ w.cut = ss.cut
      BY <1>0, <2>2 DEF ServerType
    <3> QED BY <3>1 DEF n
  <2> HIDE DEF w
  <2>4. Inv(out, w, in, cs, toClient, toServer', body)
    BY <1>1, <1>6, <2>3, UpdateConn
  <2> QED BY <1>1, <1>2, <2>1, <2>4 DEF BothEnds
<1>7. CASE s # 0 /\ out[s].ph = "open"
  <2> DEFINE y == [out[s] EXCEPT !.win = out[s].win + n]
             x == [out EXCEPT ![s] = y]
             w == [ss EXCEPT !.pumping = TRUE]
  <2>0. s \in Streams
    BY <1>5, <1>7
  <2>1. out' = x /\ ss' = w
    BY <1>0, <1>3, <1>7, <2>0
  <2>2. out[s] \in OutType /\ out[s].win + n \in Int
    <3> HIDE DEF s, n
    <3>1. out[s] \in OutType
      BY <1>0, <2>0
    <3>2. out[s].win \in Int
      BY <3>1 DEF OutType
    <3> QED BY <1>4, <3>1, <3>2
  <2> HIDE DEF s, n
  <2>3. /\ y \in OutType /\ y.win = out[s].win + n /\ y.ph = out[s].ph /\ y.chunk = out[s].chunk
        /\ y.todo = out[s].todo /\ y.end = out[s].end /\ y.local = out[s].local
    BY <2>2 DEF OutType
  <2> HIDE DEF y
  <2>4. x \in [Streams -> OutType] /\ x[s] = y /\ \A z \in Streams : z # s => x[z] = out[z]
    BY <1>0, <2>0, <2>3
  <2> HIDE DEF x
  <2>5. /\ f.of \in Streams /\ \A z \in Streams : z # f.of => x[z] = out[z]
        /\ out[f.of].ph = "open" /\ x[f.of].ph = "open" /\ x[f.of].win = out[f.of].win + f.n /\ x[f.of].chunk = out[f.of].chunk
        /\ x[f.of].todo = out[f.of].todo /\ x[f.of].end = out[f.of].end /\ x[f.of].local = out[f.of].local
    BY <1>7, <2>0, <2>3, <2>4 DEF s, n
  <2>6. Inv(x, ss, in, cs, toClient, toServer', body)
    BY <1>1, <2>4, <2>5, UpdateStream
  <2>7. Inv(x, w, in, cs, toClient, toServer', body)
    <3>1. TRUE \in BOOLEAN
      OBVIOUS
    <3> QED BY <2>6, <3>1, PumpFlag
  <2> HIDE DEF w
  <2> QED BY <1>1, <1>2, <2>1, <2>7 DEF BothEnds
<1>8. CASE s # 0 /\ out[s].ph # "open"
  <2>1. out' = out /\ ss' = ss
    BY <1>3, <1>8
  <2>2. Inv(out, ss, in, cs, toClient, toServer', body)
    BY <1>1, <1>8, PopServer
  <2> QED BY <1>1, <1>2, <2>1, <2>2 DEF BothEnds
<1> QED BY <1>6, <1>7, <1>8

\* The client resets a stream.
LEMMA OnRstKeeps ==
  ASSUME BothEnds, OnRst
  PROVE  BothEnds'
<1> DEFINE f == Head(toServer)
           s == f.of
           y == Closed(out[s])
           x == [out EXCEPT ![s] = y]
<1>0. out \in [Streams -> OutType] /\ toClient \in Seq(Frames)
  BY StateFacts
<1>1. /\ Inv(out, ss, in, cs, toClient, toServer, body) /\ Shorter(toServer, f, toServer') /\ f.type = "rst"
      /\ in' = in /\ cs' = cs /\ body' = body /\ ToServer(f, out, ss, in, cs)
  BY ReadingFacts DEF OnRst
<1>2. s \in Streams /\ in[s].ph \notin {"none", "open"}
  BY <1>1 DEF ToServer
<1>3. IF out[s].ph = "open" THEN ServerTurn(x, ss, <<>>) ELSE out' = out /\ ss' = ss /\ toClient' = toClient
  BY <1>0, <1>2 DEF OnRst
<1> HIDE DEF f
<1>4. Inv(out, ss, in, cs, toClient, toServer', body)
  <2>1. f.type \notin {"settings", "headers"} /\ f.type # "update"
    BY <1>1
  <2> QED BY <1>1, <2>1, PopServer
<1>5. CASE out[s].ph = "open"
  <2> HIDE DEF s
  <2>1. y \in OutType /\ y.ph = "closed" /\ y.chunk = 0 /\ y.local
    <3>1. out[s] \in OutType
      BY <1>0, <1>2
    <3> QED BY <3>1, ClosedType
  <2> HIDE DEF y
  <2>2. x \in [Streams -> OutType] /\ x[s] = y /\ \A z \in Streams : z # s => x[z] = out[z]
    BY <1>0, <1>2, <2>1
  <2> HIDE DEF x
  <2>3. \A z \in Streams :
           \/ x[z] = out[z]
           \/ /\ out[z].ph = "open" /\ x[z].ph = "closed" /\ x[z].chunk = 0 /\ x[z].local
              /\ in[z].ph = "open" /\ ~ss.cut /\ ~cs.gone => EndComes(toClient, z)
    BY <1>2, <1>5, <2>1, <2>2
  <2>4. Inv(x, ss, in, cs, toClient, toServer', body)
    BY <1>4, <2>2, <2>3, CloseOut
  <2>5. Inv(x, ss, in', cs', toClient, toServer', body') /\ ServerTurn(x, ss, <<>>)
    BY <1>1, <1>3, <1>5, <2>4
  <2> QED BY <1>0, <2>5, ServerIsSilent
<1>6. CASE out[s].ph # "open"
  BY <1>1, <1>3, <1>4, <1>6 DEF BothEnds
<1> QED BY <1>5, <1>6

\* The client will open no more streams.
LEMMA OnGoawayKeeps ==
  ASSUME BothEnds, OnGoaway
  PROVE  BothEnds'
<1> DEFINE f == Head(toServer)
           w == [ss EXCEPT !.closing = TRUE]
<1>0. toClient \in Seq(Frames)
  BY StateFacts
<1>1. /\ Inv(out, ss, in, cs, toClient, toServer, body) /\ Shorter(toServer, f, toServer') /\ f.type = "goaway"
      /\ in' = in /\ cs' = cs /\ body' = body /\ ToServer(f, out, ss, in, cs)
  BY ReadingFacts DEF OnGoaway
<1>2. ServerTurn(out, w, <<>>)
  BY DEF OnGoaway
<1> HIDE DEF f
<1>3. Inv(out, ss, in, cs, toClient, toServer', body)
  <2>1. f.type \notin {"settings", "headers"} /\ f.type # "update"
    BY <1>1
  <2> QED BY <1>1, <2>1, PopServer
<1>4. \A g \in In(toServer') : g.type # "headers"
  <2>1. InTurn(toClient, toServer)
    BY <1>1 DEF Inv
  <2> QED BY <1>1, <2>1, TurnsShorterServer
<1>5. cs.closing \/ cs.gone
  BY <1>1 DEF ToServer
<1>6. Inv(out, w, in, cs, toClient, toServer', body)
  BY <1>3, <1>4, <1>5, ServerClosing
<1> HIDE DEF w
<1>7. Inv(out, w, in', cs', toClient, toServer', body')
  BY <1>1, <1>6
<1> QED BY <1>0, <1>2, <1>7, ServerIsSilent

\* The client is gone.
LEMMA OnFinKeeps ==
  ASSUME BothEnds, OnFin
  PROVE  BothEnds'
<1> DEFINE f == Head(toServer)
           x == CloseAll
<1>1. /\ Inv(out, ss, in, cs, toClient, toServer, body) /\ Shorter(toServer, f, toServer') /\ f.type = "fin" /\ ~ss.gone
      /\ in' = in /\ cs' = cs /\ body' = body /\ ToServer(f, out, ss, in, cs)
  BY ReadingFacts DEF OnFin
<1>2. out' = x /\ ss' = [ss EXCEPT !.gone = TRUE] /\ toClient' = Append(toClient, Frame("fin", 0, 0))
  BY DEF OnFin
<1>3. cs.gone
  BY <1>1 DEF ToServer
<1> HIDE DEF f
<1>4. Inv(x, ss, in, cs, toClient, toServer, body) /\ NoneOpen(x)
  BY <1>1, <1>3, AllClose
<1> HIDE DEF x
<1>5. Inv(x, ss, in, cs, toClient, toServer', body)
  <2>1. f.type \notin {"settings", "headers"} /\ f.type # "update"
    BY <1>1
  <2> QED BY <1>1, <1>4, <2>1, PopServer
<1>6. Inv(x, [ss EXCEPT !.gone = TRUE], in, cs, Append(toClient, Frame("fin", 0, 0)), toServer', body)
  BY <1>1, <1>3, <1>4, <1>5, ServerEnds
<1> QED BY <1>1, <1>2, <1>6 DEF BothEnds

\* session.request()
LEMMA RequestKeeps ==
  ASSUME BothEnds, Request
  PROVE  BothEnds'
<1> DEFINE s == cs.opened + 1
           y == [in[s] EXCEPT !.ph = "open", !.win = cs.local]
           x == [in EXCEPT ![s] = y]
           d == [cs EXCEPT !.opened = s]
           f == Frame("headers", s, 0)
           r == Append(toServer, f)
<1>0. in \in [Streams -> InType] /\ cs \in ClientType /\ toServer \in Seq(Frames) /\ MaxStreams \in Nat
  BY StateFacts
<1>1. /\ ~cs.gone /\ ~cs.closing /\ cs.opened < MaxStreams /\ (Settled => cs.pending = <<>>)
      /\ cs' = d /\ in' = [in EXCEPT ![s].ph = "open", ![s].win = cs.local] /\ toServer' = r
      /\ UNCHANGED <<out, ss, toClient, body>>
  BY DEF Request
<1>2. s \in Streams /\ s \in 0..MaxStreams /\ s = cs.opened + 1
  <2>1. cs.opened \in 0..MaxStreams
    BY <1>0 DEF ClientType
  <2> QED BY <1>0, <1>1, <2>1 DEF Streams
<1> HIDE DEF s
<1>3. in' = x
  BY <1>0, <1>1, <1>2
<1>4. /\ y \in InType /\ y.ph = "open" /\ y.win = cs.local /\ y.got = in[s].got /\ y.unread = in[s].unread
      /\ y.credit = in[s].credit
  <2>1. in[s] \in InType
    BY <1>0, <1>2
  <2>2. cs.local \in Int
    <3>1. cs.local \in Nat
      BY <1>0 DEF ClientType
    <3> QED BY <3>1
  <2> QED BY <2>1, <2>2 DEF InType
<1> HIDE DEF y
<1>5. x \in [Streams -> InType] /\ x[s] = y /\ \A z \in Streams : z # s => x[z] = in[z]
  BY <1>0, <1>2, <1>4
<1>6. d \in ClientType /\ d.opened = s /\ d.win = cs.win /\ d.local = cs.local /\ d.pending = cs.pending
      /\ d.closing = cs.closing /\ d.gone = cs.gone
  BY <1>0, <1>2 DEF ClientType
<1>7. f \in Frames /\ f.type = "headers" /\ f.of = s
  <2>1. s \in 0..MaxStreams /\ 0 \in Nat
    BY <1>2
  <2> QED BY <2>1, FrameType
<1> HIDE DEF x, d, f
<1>8. Longer(toServer, f, r)
  <2>1. toServer \in Seq(Frames)
    BY <1>0
  <2>2. f \in Frames
    BY <1>7
  <2> QED BY <2>1, <2>2, LongerIs
<1> HIDE DEF r
<1>9. Inv(out, ss, x, d, toClient, r, body)
  <2>1. /\ x[s].ph = "open" /\ x[s].win = cs.local /\ x[s].got = in[s].got /\ x[s].unread = in[s].unread
        /\ x[s].credit = in[s].credit
    BY <1>4, <1>5
  <2>2. Inv(out, ss, in, cs, toClient, toServer, body)
    BY DEF BothEnds
  <2> QED BY <1>1, <1>2, <1>5, <1>6, <1>7, <1>8, <2>1, <2>2, AskStream
<1> QED BY <1>1, <1>3, <1>9 DEF BothEnds

\* session.settings()
LEMMA SettingsKeeps ==
  ASSUME BothEnds, NEW n \in Wanted, Settings(n)
  PROVE  BothEnds'
<1> DEFINE e == Append(cs.pending, n)
           m == cs.asked + 1
           d == [cs EXCEPT !.asked = m, !.pending = e]
           f == Frame("settings", 0, n)
           r == Append(toServer, f)
<1>0. cs \in ClientType /\ toServer \in Seq(Frames) /\ n \in Nat /\ MaxSettings \in Nat /\ 0 \in 0..MaxStreams
  BY StateFacts, Http2Assumption
<1>1. /\ ~cs.gone /\ cs.asked < MaxSettings /\ (Settled => NoneOpen(in))
      /\ cs' = d /\ toServer' = r /\ UNCHANGED <<out, ss, in, toClient, body>>
  BY DEF Settings, NoneOpen
<1>2. cs.pending \in Seq(Nat) /\ cs.asked \in 0..MaxSettings
  BY <1>0 DEF ClientType
<1>3. e \in Seq(Nat) /\ e # <<>> /\ Len(e) = Len(cs.pending) + 1 /\ e[Len(e)] = n
  <2>1. e \in Seq(Nat) /\ Len(e) = Len(cs.pending) + 1 /\ e[Len(cs.pending) + 1] = n
    BY <1>0, <1>2, AppendProperties
  <2>2. e # <<>>
    BY SMTT(60), <1>0, <1>2, AppendProperties
  <2> HIDE DEF e
  <2> QED BY <2>1, <2>2
<1>4. m \in 0..MaxSettings
  BY <1>0, <1>1, <1>2
<1> HIDE DEF e, m
<1>5. /\ d \in ClientType /\ d.pending = e /\ d.opened = cs.opened /\ d.win = cs.win
      /\ d.closing = cs.closing /\ d.gone = cs.gone
  BY <1>0, <1>3, <1>4 DEF ClientType
<1>6. f \in Frames /\ f.type = "settings" /\ f.n = n
  BY <1>0, FrameType
<1> HIDE DEF d, f
<1>7. Longer(toServer, f, r)
  <2>1. toServer \in Seq(Frames)
    BY <1>0
  <2>2. f \in Frames
    BY <1>6
  <2> QED BY <2>1, <2>2, LongerIs
<1> HIDE DEF r
<1>8. Inv(out, ss, in, d, toClient, r, body)
  <2>1. d.pending # <<>> /\ Len(d.pending) = Len(cs.pending) + 1 /\ d.pending[Len(d.pending)] = n
    BY <1>3, <1>5
  <2>2. Inv(out, ss, in, cs, toClient, toServer, body) /\ n \in Nat
    BY <1>0 DEF BothEnds
  <2> QED BY <1>1, <1>5, <1>6, <1>7, <2>1, <2>2, AskSettings
<1> QED BY <1>1, <1>8 DEF BothEnds

\* A reader takes what is buffered.
LEMMA ReadKeeps ==
  ASSUME BothEnds, NEW s \in Streams, Read(s)
  PROVE  BothEnds'
<1> DEFINE n == in[s].credit + in[s].unread
           y == [in[s] EXCEPT !.unread = 0, !.credit = n]
           u == in[s].win + n
           a == [y EXCEPT !.win = u, !.credit = 0]
           f == Frame("update", s, n)
           r == Append(toServer, f)
<1>0. in \in [Streams -> InType] /\ in[s] \in InType /\ toServer \in Seq(Frames) /\ s \in 0..MaxStreams
  BY StateFacts
<1>1. in[s].unread \in Nat /\ in[s].credit \in Nat /\ in[s].win \in Int /\ in[s].unread > 0
  BY <1>0 DEF InType, Read
<1>2. n \in Nat /\ u \in Int
  BY <1>1
<1>3. y.win = in[s].win /\ y.credit = n /\ y.ph = in[s].ph /\ y.got = in[s].got /\ y \in InType /\ y.unread = 0
  <2> HIDE DEF n
  <2> QED BY <1>0, <1>2 DEF InType
<1>4. a \in InType /\ a.win = u /\ a.ph = in[s].ph /\ a.got = in[s].got
  <2> HIDE DEF y, u
  <2> QED BY <1>2, <1>3 DEF InType
<1>5. /\ UNCHANGED <<out, ss, cs, toClient, body>>
      /\ \/ /\ in[s].ph = "open" /\ in' = [in EXCEPT ![s] = a] /\ toServer' = r
         \/ in' = [in EXCEPT ![s] = y] /\ toServer' = toServer
  BY <1>0, <1>3 DEF Read
<1>6. out[s].ph # "none"
  <2>1. StreamStands(s, out, ss, in, cs, body)
    BY DEF BothEnds, Inv, StreamsStand
  <2>2. in[s].unread # 0
    BY <1>1
  <2> QED BY <2>1, <2>2 DEF StreamStands
<1>61. Inv(out, ss, in, cs, toClient, toServer, body)
  BY DEF BothEnds
<1>7. CASE in[s].ph = "open" /\ in' = [in EXCEPT ![s] = a] /\ toServer' = r
  <2> DEFINE x == [in EXCEPT ![s] = a]
  <2> HIDE DEF a
  <2>1. x \in [Streams -> InType] /\ x[s] = a /\ \A z \in Streams : z # s => x[z] = in[z]
    BY <1>0, <1>4
  <2> HIDE DEF x
  <2>2. f \in Frames /\ f.type = "update" /\ f.of = s /\ f.n = n
    <3> HIDE DEF n
    <3> QED BY <1>0, <1>2, FrameType
  <2> HIDE DEF f
  <2>3. Longer(toServer, f, r)
    <3>1. toServer \in Seq(Frames)
      BY <1>0
    <3>2. f \in Frames
      BY <2>2
    <3> QED BY <3>1, <3>2, LongerIs
  <2> HIDE DEF r
  <2>4. x[s].ph = in[s].ph /\ x[s].win = in[s].win + f.n /\ x[s].got = in[s].got
    <3>1. u = in[s].win + f.n
      BY <2>2
    <3> HIDE DEF u
    <3> QED BY <1>4, <2>1, <3>1
  <2>5. Inv(out, ss, x, cs, toClient, r, body)
    BY <1>6, <1>61, <1>7, <2>1, <2>2, <2>3, <2>4, SendUpdate
  <2> QED BY <1>5, <1>7, <2>5 DEF BothEnds, x
<1>8. CASE in' = [in EXCEPT ![s] = y] /\ toServer' = toServer
  <2> DEFINE x == [in EXCEPT ![s] = y]
  <2> HIDE DEF y
  <2>1. x \in [Streams -> InType] /\ x[s] = y /\ \A z \in Streams : z # s => x[z] = in[z]
    BY <1>0, <1>3
  <2> HIDE DEF x
  <2>2. \A z \in Streams : out[z].ph = "none" => in[z].unread = 0 /\ in[z].credit = 0
    BY DEF BothEnds, Inv, StreamsStand, StreamStands
  <2>3. \A z \in Streams : /\ x[z].ph = in[z].ph /\ x[z].win = in[z].win /\ x[z].got = in[z].got
                           /\ out[z].ph = "none" => x[z].unread = 0 /\ x[z].credit = 0
    BY <1>3, <1>6, <2>1, <2>2
  <2>4. Inv(out, ss, x, cs, toClient, toServer, body)
    BY <1>61, <2>1, <2>3, Reader
  <2> QED BY <1>5, <1>8, <2>4 DEF BothEnds, x
<1> QED BY <1>5, <1>7, <1>8

\* stream.close() at the client.
LEMMA ClientResetsKeeps ==
  ASSUME BothEnds, NEW s \in Streams, ClientResets(s)
  PROVE  BothEnds'
<1> DEFINE y == [in[s] EXCEPT !.ph = "reset"]
           x == [in EXCEPT ![s] = y]
           f == Frame("rst", s, 0)
           r == Append(toServer, f)
<1>0. in \in [Streams -> InType] /\ in[s] \in InType /\ toServer \in Seq(Frames) /\ s \in 0..MaxStreams
  BY StateFacts
<1>1. in[s].ph = "open" /\ ClientTurn(x, cs, << f >>) /\ UNCHANGED <<out, ss, toClient, body>>
  <2>1. [in EXCEPT ![s].ph = "reset"] = x
    BY <1>0
  <2> HIDE DEF x
  <2> QED BY <2>1 DEF ClientResets
<1>2. y \in InType /\ y.ph = "reset" /\ y.got = in[s].got /\ y.unread = in[s].unread /\ y.credit = in[s].credit
  BY <1>0 DEF InType
<1> HIDE DEF y
<1>3. x \in [Streams -> InType] /\ x[s] = y /\ \A z \in Streams : z # s => x[z] = in[z]
  BY <1>0, <1>2
<1> HIDE DEF x
<1>4. \A z \in Streams :
           \/ x[z] = in[z]
           \/ /\ in[z].ph = "open" /\ x[z].ph \notin {"none", "open"} /\ x[z].got = in[z].got
              /\ x[z].unread = in[z].unread /\ x[z].credit = in[z].credit
              /\ x[z].ph = "refused" => Turned(ss) /\ out[z].ph = "none"
              /\ x[z].ph = "lost" => ss.cut
              /\ x[z].ph = "done" => in[z].got = body[z]
  BY <1>1, <1>2, <1>3
<1>5. Inv(out, ss, x, cs, toClient, toServer, body)
  BY <1>3, <1>4, Stop DEF BothEnds
<1>6. f \in Frames /\ f.type = "rst" /\ f.of = s
  <2>1. s \in 0..MaxStreams /\ 0 \in Nat
    BY <1>0
  <2> QED BY <2>1, FrameType
<1> HIDE DEF f
<1>7. Longer(toServer, f, r)
  <2>1. toServer \in Seq(Frames)
    BY <1>0
  <2>2. f \in Frames
    BY <1>6
  <2> QED BY <2>1, <2>2, LongerIs
<1>8. ToServer(f, out, ss, x, cs)
  BY <1>2, <1>3, <1>6 DEF ToServer
<1> HIDE DEF r
<1>9. Inv(out, ss, x, cs, toClient, r, body)
  <2>1. f.type \in {"rst", "goaway", "fin"}
    BY <1>6
  <2> QED BY <1>5, <1>7, <1>8, <2>1, AppendServer
<1>10. Inv(out', ss', x, cs, toClient', Append(toServer, f), body')
  BY <1>1, <1>9 DEF r
<1>11. f \in Frames
  BY <1>6
<1> QED BY <1>0, <1>1, <1>10, <1>11, ClientSays

\* session.close() at the client.
LEMMA ClientClosesKeeps ==
  ASSUME BothEnds, ClientCloses
  PROVE  BothEnds'
<1> DEFINE d == [cs EXCEPT !.closing = TRUE, !.goaway = TRUE]
           f == Frame("goaway", 0, 0)
           r == Append(toServer, f)
<1>0. cs \in ClientType /\ toServer \in Seq(Frames) /\ 0 \in 0..MaxStreams
  BY StateFacts
<1>1. ~cs.gone /\ ClientTurn(in, d, << f >>) /\ UNCHANGED <<out, ss, toClient, body>>
  BY DEF ClientCloses
<1>2. SameClient(cs, d) /\ d.closing /\ d.gone = cs.gone
  BY <1>0 DEF ClientType, SameClient
<1>3. f \in Frames /\ f.type = "goaway"
  <2>1. 0 \in Nat
    OBVIOUS
  <2> QED BY <1>0, <2>1, FrameType
<1> HIDE DEF d, f
<1>4. Inv(out, ss, in, d, toClient, toServer, body)
  <2>1. Inv(out, ss, in, cs, toClient, toServer, body) /\ ~d.gone
    BY <1>1, <1>2 DEF BothEnds
  <2> QED BY <1>2, <2>1, ClientEnds
<1>5. Longer(toServer, f, r)
  <2>1. toServer \in Seq(Frames)
    BY <1>0
  <2>2. f \in Frames
    BY <1>3
  <2> QED BY <2>1, <2>2, LongerIs
<1>6. ToServer(f, out, ss, in, d)
  BY <1>2, <1>3 DEF ToServer
<1> HIDE DEF r
<1>7. Inv(out, ss, in, d, toClient, r, body)
  <2>1. f.type \in {"rst", "goaway", "fin"}
    BY <1>3
  <2> QED BY <1>4, <1>5, <1>6, <2>1, AppendServer
<1>8. Inv(out', ss', in, d, toClient', Append(toServer, f), body')
  BY <1>1, <1>7 DEF r
<1>9. f \in Frames
  BY <1>3
<1> QED BY <1>0, <1>1, <1>8, <1>9, ClientSays

\* What is left of the client's queue, and its end, once its session is gone.
LEMMA DestroyedClient ==
  ASSUME NEW o, NEW v, NEW i, NEW c, NEW q, NEW p, NEW b, Inv(o, v, i, c, q, p, b), c.gone, NEW h \in Seq(Frames), InTurn(q, h), \A g \in In(h) : ToServer(g, o, v, i, c), NEW k \in 0..Len(h)
  PROVE  Inv(o, v, i, c, q, Append(SubSeq(h, 1, k), Frame("fin", 0, 0)), b)
<1> DEFINE t == SubSeq(h, 1, k)
           f == Frame("fin", 0, 0)
           r == Append(t, f)
<1>1. t \in Seq(Frames) /\ In(t) \subseteq In(h) /\ Len(t) = k /\ \A j \in 1..k : j \in 1..Len(h) /\ t[j] = h[j]
  BY CutLeaves
<1>2. f \in Frames /\ f.type = "fin"
  <2>1. 0 \in 0..MaxStreams /\ 0 \in Nat
    BY Facts
  <2> QED BY <2>1, FrameType
<1> HIDE DEF t, f
<1>3. InTurn(q, t)
  BY <1>1 DEF InTurn
<1>4. Longer(t, f, r)
  <2>1. t \in Seq(Frames)
    BY <1>1
  <2>2. f \in Frames
    BY <1>2
  <2> QED BY <2>1, <2>2, LongerIs
<1> HIDE DEF r
<1>5. InTurn(q, r)
  <2>1. f.type # "headers"
    BY <1>2
  <2> QED BY <1>3, <1>4, <2>1, TurnsLongerServer
<1>6. \A g \in In(r) : ToServer(g, o, v, i, c)
  <2>1. ToServer(f, o, v, i, c)
    BY <1>2 DEF ToServer
  <2>2. In(r) = In(t) \union {f}
    BY <1>4 DEF Longer
  <2> QED BY <1>1, <2>1, <2>2
<1>7. r \in Seq(Frames)
  BY <1>4 DEF Longer
<1>8. Inv(o, v, i, c, q, r, b)
  BY <1>5, <1>6, <1>7, ClientGoneServer
<1> QED BY <1>8 DEF r, t, f

\* session.destroy() at the client.
LEMMA ClientDestroysKeeps ==
  ASSUME BothEnds, ClientDestroys
  PROVE  BothEnds'
<1> DEFINE x == [z \in Streams |-> IF in[z].ph = "open" THEN [in[z] EXCEPT !.ph = "reset"] ELSE in[z]]
           d == [cs EXCEPT !.gone = TRUE, !.goaway = TRUE]
           f == Frame("goaway", 0, 0)
           h == IF cs.goaway THEN toServer ELSE Append(toServer, f)
<1>0. in \in [Streams -> InType] /\ cs \in ClientType /\ toServer \in Seq(Frames) /\ 0 \in 0..MaxStreams
  BY StateFacts
<1>1. in' = x /\ cs' = d /\ toServer' \in CutOff(h) /\ UNCHANGED <<out, ss, toClient, body>>
  BY DEF ClientDestroys
<1>2. ASSUME NEW z \in Streams
      PROVE  /\ x[z] \in InType /\ x[z].ph # "open"
             /\ \/ x[z] = in[z]
                \/ /\ in[z].ph = "open" /\ x[z].ph = "reset" /\ x[z].got = in[z].got
                   /\ x[z].unread = in[z].unread /\ x[z].credit = in[z].credit
  <2>1. in[z] \in InType
    BY <1>0
  <2>2. x[z] = IF in[z].ph = "open" THEN [in[z] EXCEPT !.ph = "reset"] ELSE in[z]
    OBVIOUS
  <2> HIDE DEF x
  <2> QED BY <2>1, <2>2 DEF InType
<1>3. x \in [Streams -> InType]
  BY <1>2
<1> HIDE DEF x
<1>4. \A z \in Streams :
           \/ x[z] = in[z]
           \/ /\ in[z].ph = "open" /\ x[z].ph \notin {"none", "open"} /\ x[z].got = in[z].got
              /\ x[z].unread = in[z].unread /\ x[z].credit = in[z].credit
              /\ x[z].ph = "refused" => Turned(ss) /\ out[z].ph = "none"
              /\ x[z].ph = "lost" => ss.cut
              /\ x[z].ph = "done" => in[z].got = body[z]
  BY <1>2
<1>5. Inv(out, ss, x, cs, toClient, toServer, body)
  BY <1>3, <1>4, Stop DEF BothEnds
<1>6. NoneOpen(x)
  BY <1>2 DEF NoneOpen
<1>7. SameClient(cs, d) /\ d.gone
  BY <1>0 DEF ClientType, SameClient
<1> HIDE DEF d
<1>8. Inv(out, ss, x, d, toClient, toServer, body)
  BY <1>5, <1>6, <1>7, ClientEnds
<1>9. InTurn(toClient, toServer) /\ \A g \in In(toServer) : ToServer(g, out, ss, x, d)
  BY <1>8 DEF Inv, Wires
<1>10. h \in Seq(Frames) /\ InTurn(toClient, h) /\ \A g \in In(h) : ToServer(g, out, ss, x, d)
  <2>1. CASE cs.goaway
    BY <1>0, <1>9, <2>1
  <2>2. CASE ~cs.goaway
    <3> DEFINE r == Append(toServer, f)
    <3>1. f \in Frames /\ f.type = "goaway"
      <4>1. 0 \in Nat
        OBVIOUS
      <4> QED BY <1>0, <4>1, FrameType
    <3> HIDE DEF f
    <3>2. Longer(toServer, f, r)
      <4>1. toServer \in Seq(Frames)
        BY <1>0
      <4>2. f \in Frames
        BY <3>1
      <4> QED BY <4>1, <4>2, LongerIs
    <3>3. h = r
      BY <2>2
    <3> HIDE DEF r, h
    <3>4. InTurn(toClient, r)
      <4>1. f.type # "headers"
        BY <3>1
      <4> QED BY <1>9, <3>2, <4>1, TurnsLongerServer
    <3>5. ToServer(f, out, ss, x, d)
      BY <1>7, <3>1 DEF ToServer
    <3>6. In(r) = In(toServer) \union {f} /\ r \in Seq(Frames)
      BY <3>2 DEF Longer
    <3> QED BY <1>9, <3>3, <3>4, <3>5, <3>6
  <2> QED BY <2>1, <2>2
<1> HIDE DEF h
<1>11. PICK k \in 0..Len(h) : toServer' = Append(SubSeq(h, 1, k), Frame("fin", 0, 0))
  BY <1>1 DEF CutOff
<1>12. k \in 0..Len(h)
  BY <1>11
<1>13. Inv(out, ss, x, d, toClient, Append(SubSeq(h, 1, k), Frame("fin", 0, 0)), body)
  BY <1>7, <1>8, <1>10, <1>12, DestroyedClient
<1> QED BY <1>1, <1>11, <1>13 DEF BothEnds

\* What every handler of the client starts from.
LEMMA HearingFacts ==
  ASSUME BothEnds, NEW type, Hearing(type)
  PROVE  /\ Inv(out, ss, in, cs, toClient, toServer, body)
         /\ Shorter(toClient, Head(toClient), toClient') /\ Head(toClient).type = type /\ ~cs.gone
         /\ out' = out /\ ss' = ss /\ body' = body
         /\ Head(toClient) \in In(toClient) /\ ToClient(Head(toClient), out, ss) /\ Head(toClient) \in Frames
<1>1. toClient # <<>> /\ toClient' = Tail(toClient) /\ toClient \in Seq(Frames)
  BY StateFacts DEF Hearing
<1>2. Shorter(toClient, Head(toClient), Tail(toClient))
  BY <1>1, ShorterIs
<1>3. Head(toClient) \in In(toClient) /\ Head(toClient) \in Frames
  BY <1>2 DEF Shorter
<1>4. ToClient(Head(toClient), out, ss)
  BY <1>3 DEF BothEnds, Inv, Wires
<1> QED BY <1>1, <1>2, <1>3, <1>4 DEF BothEnds, Hearing

\* The credit of the connection, once the bytes that came are taken from its window.
LEMMA Credited ==
  ASSUME NEW o, NEW v, NEW i, NEW e, NEW q, NEW p, NEW b, Inv(o, v, i, e, q, p, b),
         NEW c \in ClientType, NEW n \in Nat, NEW open,
         e.win = c.win - n, e.local = c.local, e.pending = c.pending, e.opened = c.opened,
         e.closing = c.closing, e.gone = c.gone
  PROVE  LET k == CreditConnection(c, n, open)
             d == [c EXCEPT !.win = k.win, !.unacked = k.unacked]
             more == IF k.send > 0 THEN << Frame("update", 0, k.send) >> ELSE <<>>
         IN  more \in Seq(Frames) /\ Inv(o, v, i, d, q, p \o more, b)
<1> DEFINE k == CreditConnection(c, n, open)
           d == [c EXCEPT !.win = k.win, !.unacked = k.unacked]
           f == Frame("update", 0, k.send)
           more == IF k.send > 0 THEN << f >> ELSE <<>>
<1>0. e \in ClientType /\ p \in Seq(Frames) /\ 0 \in 0..MaxStreams
  BY Facts
<1>1. c.win \in Nat /\ c.unacked \in Nat /\ e.win \in Nat /\ ConnLow \in Nat /\ ConnLow > 0
  <2>1. ConnLow \in Nat /\ ConnLow > 0
    BY Http2Assumption
  <2> QED BY <1>0, <2>1 DEF ClientType
<1>2. k.win \in Nat /\ k.unacked \in Nat /\ k.send \in Nat /\ k.win = e.win + k.send
  <2>1. CASE c.unacked + n >= ConnBatch \/ c.win - n < ConnLow
    <3>1. k.win = c.win + c.unacked /\ k.unacked = 0 /\ k.send = c.unacked + n
      BY <2>1 DEF CreditConnection
    <3> HIDE DEF k
    <3> QED BY <1>1, <3>1
  <2>2. CASE ~(c.unacked + n >= ConnBatch \/ c.win - n < ConnLow)
    <3>1. k.win = c.win - n /\ k.unacked = c.unacked + n /\ k.send = 0
      BY <2>2 DEF CreditConnection
    <3> HIDE DEF k
    <3> QED BY <1>1, <3>1
  <2> QED BY <2>1, <2>2
<1> HIDE DEF k
<1>3. d \in ClientType /\ d.win = e.win + k.send /\ d.local = e.local /\ d.pending = e.pending /\ d.opened = e.opened
      /\ d.closing = e.closing /\ d.gone = e.gone
  BY <1>2 DEF ClientType
<1> HIDE DEF d
<1>4. CASE k.send > 0
  <2> DEFINE r == Append(p, f)
  <2>1. f \in Frames /\ f.type = "update" /\ f.of = 0 /\ f.n = k.send
    <3>1. k.send \in Nat
      BY <1>2
    <3> QED BY <1>0, <3>1, FrameType
  <2>2. more = << f >>
    BY <1>4
  <2> HIDE DEF f, more
  <2>3. Longer(p, f, r)
    <3>1. p \in Seq(Frames)
      BY <1>0
    <3>2. f \in Frames
      BY <2>1
    <3> QED BY <3>1, <3>2, LongerIs
  <2>4. more \in Seq(Frames)
    BY <2>1, <2>2
  <2>5. p \o more = r
    <3>1. p \in Seq(Frames)
      BY <1>0
    <3>2. f \in Frames
      BY <2>1
    <3>3. p \o << f >> = Append(p, f)
      BY <3>1, <3>2, JoinOne
    <3> QED BY <2>2, <3>3
  <2> HIDE DEF r
  <2>6. d.win = e.win + f.n
    BY <1>3, <2>1
  <2>7. Inv(o, v, i, d, q, r, b)
    BY <1>3, <2>1, <2>3, <2>6, CreditConn
  <2> QED BY <2>4, <2>5, <2>7 DEF k, d, f, more
<1>5. CASE ~(k.send > 0)
  <2>1. more = <<>>
    BY <1>5
  <2>2. SameClient(e, d)
    <3>1. d.win = e.win
      BY <1>1, <1>2, <1>3, <1>5
    <3> QED BY <1>3, <3>1 DEF SameClient
  <2>3. d.gone => NoneOpen(i)
    BY <1>3 DEF Inv, Sessions
  <2>4. Inv(o, v, i, d, q, p, b)
    BY <2>2, <2>3, ClientEnds
  <2>5. p \o <<>> = p
    BY <1>0, JoinNone
  <2>6. <<>> \in Seq(Frames)
    OBVIOUS
  <2> HIDE DEF more
  <2>7. more \in Seq(Frames) /\ Inv(o, v, i, d, q, p \o more, b)
    BY <2>1, <2>4, <2>5, <2>6
  <2> QED BY <2>7 DEF k, d, f, more
<1> QED BY <1>4, <1>5

\* The connection's window at the client holds what is on its way.
LEMMA ConnHolds ==
  ASSUME NEW o, NEW v, NEW i, NEW c, NEW q, NEW p, NEW b, Inv(o, v, i, c, q, p, b), ~c.gone, NEW f, NEW t, Shorter(q, f, t), f.type = "data", f.of \in Streams
  PROVE  f.n \in Nat /\ c.win - f.n \in Nat
<1>0. c \in ClientType /\ v \in ServerType /\ p \in Seq(Frames) /\ f \in Frames
  BY Facts DEF Shorter
<1>1. c.win \in Nat /\ v.win \in Nat /\ f.n \in Nat /\ Carried(p, "update", {0}) \in Nat
  BY <1>0, CarriedNat DEF ClientType, ServerType, Frames
<1>2. Carried(q, "data", Streams) = f.n + Carried(t, "data", Streams) /\ Carried(t, "data", Streams) \in Nat
  BY DEF Shorter
<1>3. \/ c.win >= Carried(q, "data", Streams)
      \/ c.win = v.win + Carried(q, "data", Streams) + Carried(p, "update", {0})
  BY DEF Inv, ConnAgrees
<1> QED BY <1>1, <1>2, <1>3

\* Data for a stream that is gone, or for one that it overruns: the client resets it.
LEMMA DataUnwanted ==
  ASSUME BothEnds, OnData, NEW x, NEW n, NEW e, NEW s \in Streams, s = Head(toClient).of, n = Head(toClient).n, n \in Nat,
         Inv(out, ss, x, e, toClient', toServer, body), x[s].ph \notin {"none", "open"}, NEW open,
         e.win = cs.win - n, e.local = cs.local, e.pending = cs.pending, e.opened = cs.opened,
         e.closing = cs.closing, e.gone = cs.gone,
         ClientTurn(x, [cs EXCEPT !.win = CreditConnection(cs, n, open).win, !.unacked = CreditConnection(cs, n, open).unacked],
                    << Frame("rst", s, 0) >> \o
                      IF CreditConnection(cs, n, open).send > 0
                        THEN << Frame("update", 0, CreditConnection(cs, n, open).send) >> ELSE <<>>)
  PROVE  BothEnds'
<1> DEFINE k == CreditConnection(cs, n, open)
           d == [cs EXCEPT !.win = k.win, !.unacked = k.unacked]
           more == IF k.send > 0 THEN << Frame("update", 0, k.send) >> ELSE <<>>
           f == Frame("rst", s, 0)
           r == Append(toServer, f)
           a == << f >> \o more
<1>0. toServer \in Seq(Frames) /\ cs \in ClientType /\ s \in 0..MaxStreams
  BY StateFacts
<1>1. out' = out /\ ss' = ss /\ body' = body
  BY HearingFacts DEF OnData
<1>2. f \in Frames /\ f.type = "rst" /\ f.of = s
  <2>1. s \in 0..MaxStreams /\ 0 \in Nat
    BY <1>0
  <2> QED BY <2>1, FrameType
<1>3. ClientTurn(x, d, a)
  OBVIOUS
<1> HIDE DEF f
<1>4. Longer(toServer, f, r)
  <2>1. toServer \in Seq(Frames)
    BY <1>0
  <2>2. f \in Frames
    BY <1>2
  <2> QED BY <2>1, <2>2, LongerIs
<1> HIDE DEF r
<1>5. Inv(out, ss, x, e, toClient', r, body)
  <2>1. f.type \in {"rst", "goaway", "fin"}
    BY <1>2
  <2>2. ToServer(f, out, ss, x, e)
    BY <1>2 DEF ToServer
  <2> QED BY <1>4, <2>1, <2>2, AppendServer
<1>6. more \in Seq(Frames) /\ Inv(out, ss, x, d, toClient', r \o more, body)
  BY ZenonT(60), <1>0, <1>5, Credited
<1> HIDE DEF d, more
<1>7. toServer \o a = r \o more /\ a \in Seq(Frames)
  <2> DEFINE g == << f >>
  <2>1. g \in Seq(Frames)
    BY <1>2
  <2>2. toServer \o g = r
    <3>1. f \in Frames
      BY <1>2
    <3> QED BY <1>0, <3>1, JoinOne DEF r
  <2> HIDE DEF g
  <2>3. (toServer \o g) \o more = toServer \o (g \o more) /\ g \o more \in Seq(Frames)
    BY SMTT(60), <1>0, <1>6, <2>1, ConcatAssociative, ConcatProperties
  <2> QED BY <2>2, <2>3 DEF g
<1> HIDE DEF a
<1>8. Inv(out', ss', x, d, toClient', toServer \o a, body')
  BY <1>1, <1>6, <1>7
<1>9. a \in Seq(Frames)
  BY <1>7
<1> QED BY <1>0, <1>3, <1>8, <1>9, ClientTurns

\* DATA arrives at the client.
LEMMA OnDataKeeps ==
  ASSUME BothEnds, OnData
  PROVE  BothEnds'
<1> DEFINE f == Head(toClient)
           s == f.of
           n == f.n
           open == in[s].ph = "open"
           e == [cs EXCEPT !.win = cs.win - n]
           k == CreditConnection(cs, n, open)
           d == [cs EXCEPT !.win = k.win, !.unacked = k.unacked]
           more == IF k.send > 0 THEN << Frame("update", 0, k.send) >> ELSE <<>>
           yo == [in[s] EXCEPT !.ph = "overrun", !.win = in[s].win - n]
           yd == [in[s] EXCEPT !.win = in[s].win - n, !.unread = in[s].unread + n, !.got = in[s].got + n,
                               !.ph = IF f.end THEN "done" ELSE "open"]
           xo == [in EXCEPT ![s] = yo]
           xd == [in EXCEPT ![s] = yd]
<1>0. in \in [Streams -> InType] /\ cs \in ClientType /\ toServer \in Seq(Frames)
  BY StateFacts
<1>1. /\ Inv(out, ss, in, cs, toClient, toServer, body) /\ Shorter(toClient, f, toClient') /\ f.type = "data" /\ ~cs.gone
      /\ out' = out /\ ss' = ss /\ body' = body /\ ToClient(f, out, ss) /\ f \in Frames
  BY HearingFacts DEF OnData
<1>2. s \in Streams /\ out[s].ph # "none"
  BY <1>1 DEF ToClient
<1>3. n \in Nat /\ cs.win - n \in Nat /\ f.end \in BOOLEAN
  <2>1. f.of \in Streams /\ f.end \in BOOLEAN
    BY <1>1, <1>2 DEF Frames
  <2> HIDE DEF f
  <2> QED BY <1>1, <2>1, ConnHolds
<1>4. in[s] \in InType
  <2> HIDE DEF s
  <2> QED BY <1>0, <1>2
<1>5. \/ ~open /\ ClientTurn(in, d, << Frame("rst", s, 0) >> \o more)
      \/ open /\ f.n > in[s].win /\ ClientTurn(xo, d, << Frame("rst", s, 0) >> \o more)
      \/ open /\ ClientTurn(xd, d, more)
  <2>1. open => /\ [in EXCEPT ![s].ph = "overrun", ![s].win = @ - f.n] = xo
                /\ [in EXCEPT ![s].win = @ - f.n, ![s].unread = @ + f.n, ![s].got = @ + f.n,
                                    ![s].ph = IF f.end THEN "done" ELSE @] = xd
    <3> SUFFICES ASSUME open
                 PROVE /\ [in EXCEPT ![s].ph = "overrun", ![s].win = @ - f.n] = xo
                       /\ [in EXCEPT ![s].win = @ - f.n, ![s].unread = @ + f.n, ![s].got = @ + f.n,
                                    ![s].ph = IF f.end THEN "done" ELSE @] = xd
      OBVIOUS
    <3>1. in[s].ph = "open"
      OBVIOUS
    <3> HIDE DEF f, s
    <3> QED BY <1>0, <1>2, <3>1
  <2> HIDE DEF xo, xd
  <2> QED BY <2>1 DEF OnData
<1>6. e \in ClientType /\ e.win = cs.win - n /\ e.local = cs.local /\ e.pending = cs.pending
      /\ e.opened = cs.opened /\ e.closing = cs.closing /\ e.gone = cs.gone
  <2> HIDE DEF n
  <2> QED BY <1>0, <1>3 DEF ClientType
<1>7. in[s].win - n \in Int /\ in[s].unread + n \in Nat /\ in[s].got + n \in Nat
  <2>1. in[s].win \in Int /\ in[s].unread \in Nat /\ in[s].got \in Nat
    BY <1>4 DEF InType
  <2> HIDE DEF n, s
  <2> QED BY <1>3, <2>1
<1>8. s = Head(toClient).of /\ n = Head(toClient).n
  OBVIOUS
<1> HIDE DEF e
<1>9. CASE ~open /\ ClientTurn(in, d, << Frame("rst", s, 0) >> \o more)
  <2>1. in[s].ph \notin {"none", "open"}
    <3>1. StreamStands(s, out, ss, in, cs, body) /\ ss.last <= cs.opened
      BY <1>1, <1>2 DEF Inv, StreamsStand, Sessions
    <3>2. s <= ss.last /\ (in[s].ph = "none" <=> s > cs.opened)
      BY <1>2, <3>1 DEF StreamStands
    <3>3. s \in Nat /\ ss.last \in Nat /\ cs.opened \in Nat
      <4>1. s \in Nat /\ MaxStreams \in Nat /\ ss \in ServerType
        BY <1>2, StateFacts
      <4> QED BY <1>0, <4>1 DEF ServerType, ClientType
    <3> HIDE DEF s
    <3> QED BY <1>9, <3>1, <3>2, <3>3
  <2>2. Inv(out, ss, in, e, toClient', toServer, body)
    <3>1. f.of = s /\ in[s].ph # "open"
      BY <1>9
    <3> HIDE DEF f, s
    <3>2. e.win = cs.win - f.n
      BY <1>6 DEF n
    <3> QED BY <1>0, <1>1, <1>2, <1>6, <3>1, <3>2, PopData
  <2> HIDE DEF s, n
  <2> QED BY ZenonT(60), <1>2, <1>3, <1>6, <1>8, <1>9, <2>1, <2>2, DataUnwanted
<1>10. CASE open /\ f.n > in[s].win /\ ClientTurn(xo, d, << Frame("rst", s, 0) >> \o more)
  <2>1. /\ yo \in InType /\ yo.ph = "overrun" /\ yo.got = in[s].got /\ yo.unread = in[s].unread /\ yo.credit = in[s].credit
    <3> HIDE DEF n, s
    <3> QED BY <1>4, <1>7 DEF InType
  <2> HIDE DEF yo
  <2>2. xo \in [Streams -> InType] /\ xo[s] = yo /\ \A z \in Streams : z # s => xo[z] = in[z]
    <3> HIDE DEF s
    <3> QED BY <1>0, <1>2, <2>1
  <2> HIDE DEF xo
  <2>3. \A z \in Streams :
           \/ xo[z] = in[z]
           \/ /\ in[z].ph = "open" /\ xo[z].ph \notin {"none", "open"} /\ xo[z].got = in[z].got
              /\ xo[z].unread = in[z].unread /\ xo[z].credit = in[z].credit
              /\ xo[z].ph = "refused" => Turned(ss) /\ out[z].ph = "none"
              /\ xo[z].ph = "lost" => ss.cut
              /\ xo[z].ph = "done" => in[z].got = body[z]
    <3>1. in[s].ph = "open"
      BY <1>10
    <3> HIDE DEF s
    <3> QED BY <2>1, <2>2, <3>1
  <2>4. Inv(out, ss, xo, cs, toClient, toServer, body)
    BY <1>1, <2>2, <2>3, Stop
  <2>5. xo[s].ph \notin {"none", "open"}
    BY <2>1, <2>2
  <2>6. Inv(out, ss, xo, e, toClient', toServer, body)
    <3>1. f.of = s
      OBVIOUS
    <3> HIDE DEF f, s
    <3>2. e.win = cs.win - f.n
      BY <1>6 DEF n
    <3> QED BY <1>1, <1>2, <1>6, <2>2, <2>4, <2>5, <3>1, <3>2, PopData
  <2> HIDE DEF s, n
  <2> QED BY ZenonT(60), <1>2, <1>3, <1>6, <1>8, <1>10, <2>5, <2>6, DataUnwanted
<1>11. CASE open /\ ClientTurn(xd, d, more)
  <2> DEFINE m == IF f.end THEN "done" ELSE "open"
  <2>0. m \in {"done", "open"}
    OBVIOUS
  <2>1. /\ yd \in InType /\ yd.ph = m /\ yd.got = in[s].got + n /\ yd.win = in[s].win - n
    <3>1. yd = [in[s] EXCEPT !.win = in[s].win - n, !.unread = in[s].unread + n, !.got = in[s].got + n, !.ph = m]
      OBVIOUS
    <3> HIDE DEF n, s, m, yd
    <3> QED BY <1>4, <1>7, <2>0, <3>1 DEF InType
  <2> HIDE DEF yd
  <2>2. xd \in [Streams -> InType] /\ xd[s] = yd /\ \A z \in Streams : z # s => xd[z] = in[z]
    <3> HIDE DEF s
    <3> QED BY <1>0, <1>2, <2>1
  <2> HIDE DEF xd
  <2>3. Inv(out, ss, xd, e, toClient', toServer, body)
    <3>1. f.of = s /\ in[s].ph = "open"
      BY <1>11
    <3>2. m = IF f.end THEN "done" ELSE "open"
      OBVIOUS
    <3> HIDE DEF f, s, m
    <3>3. e.win = cs.win - f.n /\ xd[s].win = in[s].win - f.n /\ xd[s].got = in[s].got + f.n
      BY <1>6, <2>1, <2>2 DEF n
    <3>4. xd[s].ph = IF f.end THEN "done" ELSE "open"
      BY <2>1, <2>2, <3>2
    <3> QED BY <1>1, <1>2, <1>6, <2>2, <3>1, <3>3, <3>4, PopData
  <2>4. more \in Seq(Frames) /\ Inv(out, ss, xd, d, toClient', toServer \o more, body)
    <3> HIDE DEF n, open
    <3> QED BY <1>0, <1>3, <1>6, <2>3, Credited
  <2> HIDE DEF d, more
  <2>5. Inv(out', ss', xd, d, toClient', toServer \o more, body')
    BY <1>1, <2>4
  <2> QED BY <1>0, <1>11, <2>4, <2>5, ClientTurns
<1> QED BY <1>5, <1>9, <1>10, <1>11

\* An acknowledgement of SETTINGS arrives.
LEMMA OnAckKeeps ==
  ASSUME BothEnds, OnAck
  PROVE  BothEnds'
<1> DEFINE f == Head(toClient)
           w == cs.pending
           h == Head(w)
           t == Tail(w)
           d == [cs EXCEPT !.local = h, !.pending = t]
<1>0. cs \in ClientType /\ ss \in ServerType /\ toServer \in Seq(Frames)
  BY StateFacts
<1>1. /\ Inv(out, ss, in, cs, toClient, toServer, body) /\ Shorter(toClient, f, toClient') /\ f.type = "ack" /\ ~cs.gone
      /\ out' = out /\ ss' = ss /\ body' = body
  BY HearingFacts DEF OnAck
<1>2. cs' = d /\ in' = in /\ toServer' = toServer
  BY <1>0 DEF OnAck
<1> HIDE DEF f
<1>3. w \in Seq(Nat)
  BY <1>0 DEF ClientType
<1>4. w # <<>>
  <2>1. NumOf(toClient, "ack") = NumOf(toClient', "ack") + 1 /\ NumOf(toClient', "ack") \in Nat
    BY <1>1, ShorterOne
  <2>2. NumOf(toServer, "settings") \in Nat
    BY <1>0, NumNat
  <2>3. \/ NumOf(toClient, "ack") <= Len(w)
        \/ Len(w) = NumOf(toServer, "settings") + NumOf(toClient, "ack")
    BY <1>1 DEF Inv, Acked
  <2>4. Len(w) \in Nat /\ Len(w) # 0
    BY <1>3, <2>1, <2>2, <2>3
  <2> QED BY <2>4
<1>5. h \in Nat /\ t \in Seq(Nat) /\ Len(w) = Len(t) + 1 /\ Len(t) \in Nat /\ h = w[1]
      /\ \A j \in 1..Len(t) : t[j] = w[j + 1]
  BY <1>3, <1>4
<1> HIDE DEF h, t, w
<1>51. t = <<>> <=> Len(t) = 0
  BY <1>5, EmptySeq
<1>6. t # <<>> => Len(t) \in 1..Len(t)
  BY <1>5, <1>51
<1>7. t = <<>> => Len(w) = 1
  BY <1>5, <1>51
<1>8. d \in ClientType /\ d.local = h /\ d.pending = t /\ d.opened = cs.opened /\ d.win = cs.win
      /\ d.closing = cs.closing /\ d.gone = cs.gone
  BY <1>0, <1>5 DEF ClientType
<1> HIDE DEF d
<1>9. LastAsked(d) = LastAsked(cs)
  <2>1. LastAsked(cs) = w[Len(w)]
    BY <1>4 DEF LastAsked, w
  <2>2. CASE t = <<>>
    <3>1. LastAsked(d) = h
      BY <1>8, <2>2 DEF LastAsked
    <3> QED BY <1>5, <1>7, <2>1, <2>2, <3>1
  <2>3. CASE t # <<>>
    <3>1. LastAsked(d) = t[Len(t)]
      BY <1>8, <2>3 DEF LastAsked
    <3>2. t[Len(t)] = w[Len(t) + 1]
      BY <1>5, <1>6, <2>3
    <3> QED BY <1>5, <2>1, <3>1, <3>2
  <2> QED BY <2>2, <2>3
<1>10. cs.pending # <<>> => Len(cs.pending) = Len(d.pending) + 1 /\ LastAsked(d) = LastAsked(cs)
  BY <1>5, <1>8, <1>9 DEF w
<1>11. Inv(out, ss, in, d, toClient', toServer, body)
  BY <1>1, <1>8, <1>10, PopAck
<1> QED BY <1>1, <1>2, <1>11 DEF BothEnds

\* A stream that is told of its end at the client.
Ended(i, s, ph) == IF i[s].ph = "open" THEN [i EXCEPT ![s].ph = ph] ELSE i

\* The others are left alone.
LEMMA OneEnds ==
  ASSUME NEW o, NEW v, NEW c, NEW q, NEW p, NEW b, NEW i \in [Streams -> InType], Inv(o, v, i, c, q, p, b), NEW s \in Streams,
         NEW ph \in {"cut", "refused"}, ph = "refused" => Turned(v) /\ o[s].ph = "none"
  PROVE  Inv(o, v, Ended(i, s, ph), c, q, p, b) /\ Ended(i, s, ph)[s].ph # "open"
<1> DEFINE y == [i[s] EXCEPT !.ph = ph]
           x == [i EXCEPT ![s] = y]
<1>0. i[s] \in InType
  OBVIOUS
<1>1. y \in InType /\ y.ph = ph /\ y.got = i[s].got /\ y.unread = i[s].unread /\ y.credit = i[s].credit
  BY <1>0 DEF InType
<1>2. CASE i[s].ph = "open"
  <2>1. [i EXCEPT ![s].ph = ph] = x
    OBVIOUS
  <2> HIDE DEF y
  <2>2. x \in [Streams -> InType] /\ x[s] = y /\ \A z \in Streams : z # s => x[z] = i[z]
    BY <1>1
  <2> HIDE DEF x
  <2>3. \A z \in Streams :
           \/ x[z] = i[z]
           \/ /\ i[z].ph = "open" /\ x[z].ph \notin {"none", "open"} /\ x[z].got = i[z].got
              /\ x[z].unread = i[z].unread /\ x[z].credit = i[z].credit
              /\ x[z].ph = "refused" => Turned(v) /\ o[z].ph = "none"
              /\ x[z].ph = "lost" => v.cut
              /\ x[z].ph = "done" => i[z].got = b[z]
    BY <1>1, <1>2, <2>2
  <2>4. Inv(o, v, x, c, q, p, b)
    BY <2>2, <2>3, Stop
  <2>5. Ended(i, s, ph) = x
    BY <1>2, <2>1 DEF Ended
  <2> QED BY <1>1, <2>2, <2>4, <2>5
<1>3. CASE i[s].ph # "open"
  BY <1>3 DEF Ended
<1> QED BY <1>2, <1>3

\* The server refused a request.
LEMMA OnRefusedKeeps ==
  ASSUME BothEnds, OnRefused
  PROVE  BothEnds'
<1> DEFINE f == Head(toClient)
           s == f.of
           x == Ended(in, s, "refused")
<1>0. in \in [Streams -> InType] /\ toServer \in Seq(Frames)
  BY StateFacts
<1>1. /\ Inv(out, ss, in, cs, toClient, toServer, body) /\ Shorter(toClient, f, toClient') /\ f.type = "refused" /\ ~cs.gone
      /\ out' = out /\ ss' = ss /\ body' = body /\ ToClient(f, out, ss)
  BY HearingFacts DEF OnRefused
<1>2. ClientTurn(x, cs, <<>>)
  BY DEF OnRefused, Ended
<1>3. s \in Streams /\ Turned(ss) /\ out[s].ph = "none" /\ s = f.of
  BY <1>1 DEF ToClient
<1> HIDE DEF f, s
<1>4. Inv(out, ss, x, cs, toClient, toServer, body) /\ x[s].ph # "open"
  <2>1. "refused" \in {"cut", "refused"}
    OBVIOUS
  <2> QED BY <1>0, <1>1, <1>3, <2>1, OneEnds
<1> HIDE DEF x
<1>5. Inv(out, ss, x, cs, toClient', toServer, body)
  <2>1. \A z \in Streams : x[z].ph = "open" => ~Ending(f, z)
    BY <1>1, <1>3, <1>4 DEF Ending, EndFrame
  <2>2. f.type \notin {"data", "ack"} /\ f.type # "goaway"
    BY <1>1
  <2> QED BY <1>1, <1>4, <2>1, <2>2, PopClient
<1>6. Inv(out', ss', x, cs, toClient', toServer, body')
  BY <1>1, <1>5
<1> QED BY <1>0, <1>2, <1>6, ClientIsSilent

\* The server reset a stream.
LEMMA OnServerRstKeeps ==
  ASSUME BothEnds, OnServerRst
  PROVE  BothEnds'
<1> DEFINE f == Head(toClient)
           s == f.of
           x == Ended(in, s, "cut")
<1>0. in \in [Streams -> InType] /\ toServer \in Seq(Frames)
  BY StateFacts
<1>1. /\ Inv(out, ss, in, cs, toClient, toServer, body) /\ Shorter(toClient, f, toClient') /\ f.type = "rst" /\ ~cs.gone
      /\ out' = out /\ ss' = ss /\ body' = body /\ ToClient(f, out, ss)
  BY HearingFacts DEF OnServerRst
<1>2. ClientTurn(x, cs, <<>>)
  BY DEF OnServerRst, Ended
<1>3. s \in Streams /\ s = f.of
  BY <1>1 DEF ToClient
<1> HIDE DEF f, s
<1>4. Inv(out, ss, x, cs, toClient, toServer, body) /\ x[s].ph # "open"
  <2>1. "cut" \in {"cut", "refused"} /\ "cut" # "refused"
    OBVIOUS
  <2> QED BY <1>0, <1>1, <1>3, <2>1, OneEnds
<1> HIDE DEF x
<1>5. Inv(out, ss, x, cs, toClient', toServer, body)
  <2>1. \A z \in Streams : x[z].ph = "open" => ~Ending(f, z)
    BY <1>1, <1>3, <1>4 DEF Ending, EndFrame
  <2>2. f.type \notin {"data", "ack"} /\ f.type # "goaway"
    BY <1>1
  <2> QED BY <1>1, <1>4, <2>1, <2>2, PopClient
<1>6. Inv(out', ss', x, cs, toClient', toServer, body')
  BY <1>1, <1>5
<1> QED BY <1>0, <1>2, <1>6, ClientIsSilent

\* The server takes no more streams.
LEMMA OnServerGoawayKeeps ==
  ASSUME BothEnds, OnServerGoaway
  PROVE  BothEnds'
<1> DEFINE f == Head(toClient)
           last == f.of
           x == [z \in Streams |-> IF in[z].ph = "open" /\ z > last THEN [in[z] EXCEPT !.ph = "refused"] ELSE in[z]]
           d == [cs EXCEPT !.closing = TRUE]
<1>0. in \in [Streams -> InType] /\ cs \in ClientType /\ toServer \in Seq(Frames) /\ \A z \in Streams : z \in Nat
  BY StateFacts
<1>1. /\ Inv(out, ss, in, cs, toClient, toServer, body) /\ Shorter(toClient, f, toClient') /\ f.type = "goaway" /\ ~cs.gone
      /\ out' = out /\ ss' = ss /\ body' = body /\ ToClient(f, out, ss) /\ f \in Frames
  BY HearingFacts DEF OnServerGoaway
<1>2. ClientTurn(x, d, <<>>)
  BY DEF OnServerGoaway
<1>3. Turned(ss) /\ (\A z \in Streams : z > last => out[z].ph = "none") /\ last = f.of /\ last \in Nat
  <2>1. MaxStreams \in Nat
    BY Http2Assumption
  <2>2. last \in Nat
    BY <1>1, <2>1 DEF Frames
  <2> QED BY <1>1, <2>2 DEF ToClient
<1> HIDE DEF f, last
<1>4. ASSUME NEW z \in Streams
      PROVE  /\ x[z] \in InType /\ (x[z].ph = "open" => ~(z > last))
             /\ \/ x[z] = in[z]
                \/ /\ in[z].ph = "open" /\ z > last /\ x[z].ph = "refused" /\ x[z].got = in[z].got
                   /\ x[z].unread = in[z].unread /\ x[z].credit = in[z].credit
  <2>1. in[z] \in InType
    BY <1>0
  <2>2. x[z] = IF in[z].ph = "open" /\ z > last THEN [in[z] EXCEPT !.ph = "refused"] ELSE in[z]
    OBVIOUS
  <2> HIDE DEF x
  <2> QED BY <2>1, <2>2 DEF InType
<1>5. x \in [Streams -> InType]
  BY <1>4
<1> HIDE DEF x
<1>6. \A z \in Streams :
           \/ x[z] = in[z]
           \/ /\ in[z].ph = "open" /\ x[z].ph \notin {"none", "open"} /\ x[z].got = in[z].got
              /\ x[z].unread = in[z].unread /\ x[z].credit = in[z].credit
              /\ x[z].ph = "refused" => Turned(ss) /\ out[z].ph = "none"
              /\ x[z].ph = "lost" => ss.cut
              /\ x[z].ph = "done" => in[z].got = body[z]
  BY <1>3, <1>4
<1>7. Inv(out, ss, x, cs, toClient, toServer, body)
  BY <1>1, <1>5, <1>6, Stop
<1>8. SameClient(cs, d) /\ d.closing /\ d.gone = cs.gone
  BY <1>0 DEF ClientType, SameClient
<1> HIDE DEF d
<1>9. Inv(out, ss, x, d, toClient, toServer, body)
  BY <1>1, <1>7, <1>8, ClientEnds
<1>10. Inv(out, ss, x, d, toClient', toServer, body)
  <2>1. \A z \in Streams : x[z].ph = "open" => ~Ending(f, z)
    <3>1. \A z \in Streams : Ending(f, z) => z > last
      BY <1>0, <1>1, <1>3 DEF Ending, EndFrame
    <3> QED BY <1>4, <3>1
  <2>2. f.type \notin {"data", "ack"}
    BY <1>1
  <2> QED BY <1>1, <1>8, <1>9, <2>1, <2>2, PopClient
<1>11. Inv(out', ss', x, d, toClient', toServer, body')
  BY <1>1, <1>10
<1> QED BY <1>0, <1>2, <1>11, ClientIsSilent

\* The server is gone.
LEMMA OnServerFinKeeps ==
  ASSUME BothEnds, OnServerFin
  PROVE  BothEnds'
<1> DEFINE f == Head(toClient)
           x == [z \in Streams |-> IF in[z].ph = "open" THEN [in[z] EXCEPT !.ph = "lost"] ELSE in[z]]
           r == Append(toServer, Frame("fin", 0, 0))
           d == [cs EXCEPT !.gone = TRUE]
<1>0. in \in [Streams -> InType] /\ cs \in ClientType
  BY StateFacts
<1>1. /\ Inv(out, ss, in, cs, toClient, toServer, body) /\ Shorter(toClient, f, toClient') /\ f.type = "fin" /\ ~cs.gone
      /\ out' = out /\ ss' = ss /\ body' = body /\ ToClient(f, out, ss)
  BY HearingFacts DEF OnServerFin
<1>2. in' = x /\ cs' = d /\ toServer' = r
  BY DEF OnServerFin
<1>3. ss.gone
  BY <1>1 DEF ToClient
<1> HIDE DEF f
<1>4. In(toClient') = {}
  <2>1. InTurn(toClient, toServer)
    BY <1>1 DEF Inv
  <2> QED BY <1>1, <2>1, TurnsShorterClient
<1>5. \A z \in Streams : in[z].ph = "open" => ss.cut
  <2> SUFFICES ASSUME NEW z \in Streams, in[z].ph = "open", ~ss.cut PROVE FALSE
    OBVIOUS
  <2>1. EndComes(toClient, z)
    BY <1>1, <1>3 DEF Inv, StreamsEnd
  <2>2. PICK g \in In(toClient) : Ending(g, z)
    BY <2>1 DEF EndComes
  <2>3. g = f
    BY <1>1, <1>4 DEF Shorter
  <2> QED BY <1>1, <2>2, <2>3 DEF Ending, EndFrame
<1>6. ASSUME NEW z \in Streams
      PROVE  /\ x[z] \in InType /\ x[z].ph # "open"
             /\ \/ x[z] = in[z]
                \/ /\ in[z].ph = "open" /\ x[z].ph = "lost" /\ x[z].got = in[z].got
                   /\ x[z].unread = in[z].unread /\ x[z].credit = in[z].credit
  <2>1. in[z] \in InType
    BY <1>0
  <2>2. x[z] = IF in[z].ph = "open" THEN [in[z] EXCEPT !.ph = "lost"] ELSE in[z]
    OBVIOUS
  <2> HIDE DEF x
  <2> QED BY <2>1, <2>2 DEF InType
<1>7. x \in [Streams -> InType] /\ NoneOpen(x)
  BY <1>6 DEF NoneOpen
<1> HIDE DEF x
<1>8. \A z \in Streams :
           \/ x[z] = in[z]
           \/ /\ in[z].ph = "open" /\ x[z].ph \notin {"none", "open"} /\ x[z].got = in[z].got
              /\ x[z].unread = in[z].unread /\ x[z].credit = in[z].credit
              /\ x[z].ph = "refused" => Turned(ss) /\ out[z].ph = "none"
              /\ x[z].ph = "lost" => ss.cut
              /\ x[z].ph = "done" => in[z].got = body[z]
  BY <1>5, <1>6
<1>9. Inv(out, ss, x, cs, toClient, toServer, body)
  BY <1>1, <1>7, <1>8, Stop
<1>10. Inv(out, ss, x, d, toClient, r, body)
  BY <1>7, <1>9, ClientFinishes
<1> HIDE DEF d, r
<1>11. Inv(out, ss, x, d, toClient', r, body)
  <2>1. \A z \in Streams : x[z].ph = "open" => ~Ending(f, z)
    BY <1>6
  <2>2. f.type \notin {"data", "ack"} /\ f.type # "goaway"
    BY <1>1
  <2> QED BY <1>1, <1>10, <2>1, <2>2, PopClient
<1> QED BY <1>1, <1>2, <1>11 DEF BothEnds

\* Nothing is on its way at first.
LEMMA NothingYet ==
  ASSUME NEW type, NEW S
  PROVE  <<>> \in Seq(Frames) /\ In(<<>>) = {} /\ Carried(<<>>, type, S) = 0 /\ NumOf(<<>>, type) = 0
<1> DEFINE q == <<>>
<1>1. q \in Seq(Frames) /\ Len(q) = 0
  OBVIOUS
<1>2. 1..Len(q) = {}
  BY <1>1
<1> HIDE DEF q
<1>3. In(q) = {}
  BY <1>2 DEF In
<1>4. Carried(q, type, S) = 0
  BY <1>1, <1>2, CarriedNone
<1>5. NumOf(q, type) = 0
  BY <1>1, <1>2, MarksType, TotalNone
<1> QED BY <1>1, <1>3, <1>4, <1>5 DEF q

\* Both ends fit together at first.
LEMMA Http2Starts == Http2Init => BothEnds
<1> SUFFICES ASSUME Http2Init PROVE BothEnds
  OBVIOUS
<1>1. MaxStreams \in Nat /\ Window \in Nat /\ ConnWindow \in Nat /\ MaxSettings \in Nat /\ Bodies \subseteq Nat
  BY Http2Assumption
<1>2. /\ \A s \in Streams : /\ out[s].ph = "none" /\ out[s].chunk = 0 /\ out[s].todo = 0 /\ ~out[s].end /\ ~out[s].local
                            /\ ~out[s].queued
                            /\ in[s].ph = "none" /\ in[s].got = 0 /\ in[s].unread = 0 /\ in[s].credit = 0
      /\ ss.win = ConnWindow /\ ss.initial = Window /\ ss.last = 0 /\ ~ss.goaway /\ ~ss.closing /\ ~ss.gone /\ ~ss.cut
      /\ cs.win = ConnWindow /\ cs.local = Window /\ cs.pending = <<>> /\ cs.opened = 0 /\ ~cs.gone /\ ~cs.closing
      /\ toClient = <<>> /\ toServer = <<>> /\ body \in [Streams -> Bodies]
  BY DEF Http2Init
<1>3. /\ out \in [Streams -> OutType] /\ in \in [Streams -> InType]
  BY DEF Http2Init, OutType, InType
<1>4. ss \in ServerType
  BY <1>1 DEF Http2Init, ServerType
<1>5. cs \in ClientType
  <2>1. 0 \in 0..MaxSettings /\ 0 \in 0..MaxStreams /\ <<>> \in Seq(Nat)
    BY <1>1
  <2> QED BY <1>1, <2>1 DEF Http2Init, ClientType
<1>6. Typed(out, ss, in, cs, toClient, toServer, body)
  BY <1>2, <1>3, <1>4, <1>5, NothingYet DEF Typed
<1>7. StreamsStand(out, ss, in, cs, body)
  <2>1. \A s \in Streams : s > 0
    BY <1>1 DEF Streams
  <2> QED BY <1>2, <2>1 DEF StreamsStand, StreamStands
<1>8. Sessions(out, ss, in, cs)
  BY <1>2 DEF Sessions
<1>9. In(toClient) = {} /\ In(toServer) = {} /\ 1..Len(toClient) = {} /\ 1..Len(toServer) = {}
      /\ (\A type, S : Carried(toClient, type, S) = 0 /\ Carried(toServer, type, S) = 0)
      /\ (\A type : NumOf(toClient, type) = 0 /\ NumOf(toServer, type) = 0)
  <2>1. 1..Len(<<>>) = {}
    OBVIOUS
  <2> QED BY <1>2, <2>1, NothingYet
<1>10. Wires(out, ss, in, cs, toClient, toServer) /\ InTurn(toClient, toServer)
  BY <1>9 DEF Wires, InTurn
<1>11. ConnAgrees(ss, cs, toClient, toServer)
  BY <1>1, <1>2, <1>9 DEF ConnAgrees
<1>12. Acked(ss, cs, toClient, toServer)
  <2>1. Len(cs.pending) = 0
    BY <1>2
  <2> QED BY <1>2, <1>9, <2>1 DEF Acked
<1>13. Asked(ss, cs, toServer)
  BY <1>2, <1>9 DEF Asked, LastAsked
<1>14. StreamsAgree(out, in, cs, toClient, toServer) /\ Bytes(out, in, toClient, body)
       /\ StreamsEnd(out, ss, in, cs, toClient, toServer) /\ Told(ss, in, cs, toClient, toServer)
  BY <1>2 DEF StreamsAgree, StreamAgrees, Bytes, BytesOf, StreamsEnd, Told
<1> QED BY <1>6, <1>7, <1>8, <1>10, <1>11, <1>12, <1>13, <1>14 DEF BothEnds, Inv

\* Every step keeps both ends in agreement.
LEMMA Http2Steps == BothEnds /\ [Http2Next]_http2Vars => BothEnds'
<1> SUFFICES ASSUME BothEnds, [Http2Next]_http2Vars PROVE BothEnds'
  OBVIOUS
<1>1. CASE Pump
  <2>1. CASE PumpDone
    BY <2>1, PumpDoneKeeps
  <2>2. CASE \E s \in Streams : PumpSends(s) \/ PumpEndsStream(s)
    BY <2>2, PumpSendsKeeps, PumpEndsStreamKeeps
  <2> QED BY <1>1, <2>1, <2>2 DEF Pump
<1>2. CASE Drain
  BY <1>2, DrainKeeps
<1>3. CASE ServerReads
  BY <1>3, OnHeadersKeeps, OnSettingsKeeps, OnWindowUpdateKeeps, OnRstKeeps, OnGoawayKeeps, OnFinKeeps DEF ServerReads
<1>4. CASE ClientReads
  BY <1>4, OnDataKeeps, OnAckKeeps, OnRefusedKeeps, OnServerRstKeeps, OnServerGoawayKeeps, OnServerFinKeeps DEF ClientReads
<1>5. CASE \E s \in Streams : Body(s) \/ Read(s) \/ ServerResets(s) \/ ClientResets(s)
  BY <1>5, WriteKeeps, EndKeeps, ReadKeeps, ServerResetsKeeps, ClientResetsKeeps DEF Body
<1>6. CASE \E n \in Wanted : Settings(n)
  BY <1>6, SettingsKeeps
<1>7. CASE Request \/ ClientCloses \/ ClientDestroys
  BY <1>7, RequestKeeps, ClientClosesKeeps, ClientDestroysKeeps
<1>8. CASE Goaway \/ ServerCloses \/ ServerDestroys
  BY <1>8, GoawayKeeps, ServerClosesKeeps, ServerDestroysKeeps
<1>9. CASE UNCHANGED http2Vars
  BY <1>9 DEF http2Vars, BothEnds
<1> QED BY <1>1, <1>2, <1>3, <1>4, <1>5, <1>6, <1>7, <1>8, <1>9 DEF Http2Next

\* The invariant of the connection, for every number of streams and every threshold: what both
\* ends hold and what is on its way between them add up (see Inv above).
THEOREM Http2Invariant == Http2Spec => []BothEnds
BY Http2Starts, Http2Steps, PTL DEF Http2Spec

\* The upsets are counted.
LEMMA UpsetsBounded == Http2Spec => [](upsets \in 0..MaxUpsets)
<1>0. MaxUpsets \in Nat
  BY Http2Assumption
<1>1. Http2Init => upsets \in 0..MaxUpsets
  BY <1>0 DEF Http2Init
<1>2. upsets \in 0..MaxUpsets /\ [Http2Next]_http2Vars => (upsets \in 0..MaxUpsets)'
  <2> SUFFICES ASSUME upsets \in 0..MaxUpsets, [Http2Next]_http2Vars PROVE upsets' \in 0..MaxUpsets
    OBVIOUS
  <2>1. upsets' = upsets \/ (upsets < MaxUpsets /\ upsets' = upsets + 1)
    <3>1. CASE Pump \/ Drain
      BY <3>1 DEF Pump, PumpDone, PumpSends, PumpEndsStream, Drain
    <3>2. CASE ServerReads
      BY <3>2 DEF ServerReads, OnHeaders, OnSettings, OnWindowUpdate, OnRst, OnGoaway, OnFin, Reading
    <3>3. CASE ClientReads
      BY <3>3 DEF ClientReads, OnData, OnAck, OnRefused, OnServerRst, OnServerGoaway, OnServerFin, Hearing
    <3>4. CASE \E s \in Streams : Body(s) \/ Read(s) \/ ServerResets(s) \/ ClientResets(s)
      <4>1. PICK s \in Streams : Body(s) \/ Read(s) \/ ServerResets(s) \/ ClientResets(s)
        BY <3>4
      <4> QED BY <4>1 DEF Body, Write, End, Read, ServerResets, ClientResets
    <3>5. CASE \E n \in Wanted : Settings(n)
      BY <3>5 DEF Settings
    <3>6. CASE Request \/ ClientCloses \/ ClientDestroys \/ Goaway \/ ServerCloses \/ ServerDestroys
      BY <3>6 DEF Request, ClientCloses, ClientDestroys, Goaway, ServerCloses, ServerDestroys
    <3>7. CASE UNCHANGED http2Vars
      BY <3>7 DEF http2Vars
    <3> QED BY <3>1, <3>2, <3>3, <3>4, <3>5, <3>6, <3>7 DEF Http2Next
  <2> QED BY <1>0, <2>1
<1> QED BY <1>1, <1>2, PTL DEF Http2Spec

\* The types of both sessions and of the frames between them. That the windows of the
\* connection are natural numbers is part of it: no end sends what the other has no room for.
THEOREM Http2Types == Http2Spec => []Http2TypeOK
<1>1. BothEnds /\ upsets \in 0..MaxUpsets => Http2TypeOK
  BY DEF BothEnds, Inv, Typed, Http2TypeOK, OutType, ServerType, InType, ClientType
<1> QED BY <1>1, Http2Invariant, UpsetsBounded, PTL

\* The window of the connection agrees at both ends, whatever the streams do and whatever
\* settings the client asks for: no credit of the connection is lost or given twice.
THEOREM Http2ConnectionWindow == Http2Spec => []ConnectionAgrees
<1>1. BothEnds => ConnectionAgrees
  BY DEF BothEnds, Inv, ConnAgrees, ConnectionAgrees
<1> QED BY <1>1, Http2Invariant, PTL

\* With the windows of the streams too, when settings() does not overlap with open streams.
THEOREM Http2Windows ==
  ASSUME Settled
  PROVE  Http2Spec => []WindowsAgree
<1>1. BothEnds => WindowsAgree
  BY DEF BothEnds, Inv, ConnAgrees, StreamsAgree, StreamAgrees, WindowsAgree, ConnectionAgrees
<1> QED BY <1>1, Http2Invariant, PTL

\* A stream is received whole or was refused before the server's program saw it, and is
\* lost only when the server's session was destroyed.
THEOREM Http2Whole == Http2Spec => []WholeOrRefused
<1>1. BothEnds => WholeOrRefused
  BY DEF BothEnds, Inv, StreamsStand, StreamStands, WholeOrRefused, EndIsWhole, RefusedIsUnprocessed, NoStreamLost
<1> QED BY <1>1, Http2Invariant, PTL

==============================================================================
