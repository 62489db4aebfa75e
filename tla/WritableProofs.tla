--------------------------- MODULE WritableProofs ---------------------------
(***************************************************************************)
(* Proofs about the Writable of node-stream.js, for any number of writes   *)
(* and any highWaterMark: the types, the order of chunks and callbacks,    *)
(* and that what the program is told is true.                              *)
(*                                                                         *)
(* None of the three is inductive.  The invariant says where every chunk   *)
(* is: sunk, then buffered (Line); whose callbacks the items of `todo`     *)
(* owe, and in which order (Owed); what was answered (Reported, Zero);     *)
(* that no chunk of the sink is forgotten while nothing fails (Kept); what *)
(* is known once an item about the end is queued (Ending); and that        *)
(* pendingcb covers everything that will count it down (Count).            *)
(***************************************************************************)
EXTENDS Writable, FiniteSetTheorems, FunctionTheorems, SequenceTheorems, TLAPS

------------------------------------------------------------------------------
(* Sequences of chunks and queues of items.                                *)

\* Items about a chunk the sink took, about callbacks that pendingcb counts, about
\* chunks that will not be written, and about the end.
Acks == {"after", "ok"}
Calls == {"after", "werror", "ok", "failed"}
Lost == {"lost"}
Ends == {"endtick", "finish"}

\* What `todo` is made of.
Items == [op : Ops, ids : Seq(Chunks)]

\* An item of one of these kinds is in the queue; and it is about chunk c.
Has(q, S) == \E i \in 1..Len(q) : q[i].op \in S
Holds(q, S, c) == \E i \in 1..Len(q) : q[i].op \in S /\ c \in Range(q[i].ids)

\* The chunks of s are numbered upwards.
Rising(s) == \A i, j \in 1..Len(s) : i < j => s[i] < s[j]

\* Every element of s is smaller than every one of t.
Below(s, t) == \A c \in Range(s), d \in Range(t) : c < d

\* The chunks of an item rise; an item about callbacks names some, one that is
\* about none names none, and end()'s callback is answered by itself.
Shaped(x) ==
  /\ Rising(x.ids)
  /\ x.op \in Calls => x.ids # <<>>
  /\ x.op \notin Calls \union Lost => x.ids = <<>>
  /\ x.op \in Lost /\ 0 \in Range(x.ids) => x.ids = <<0>>

\* Callbacks are due in the order of the chunks, no chunk is refused twice, and
\* nothing about the end or a callback comes after an item about the end.
Fit(q) ==
  /\ \A i \in 1..Len(q) : Shaped(q[i])
  /\ \A i, j \in 1..Len(q) : i < j /\ q[i].op \in Calls /\ q[j].op \in Calls =>
       Below(q[i].ids, q[j].ids)
  /\ \A i, j \in 1..Len(q) : i < j /\ q[i].op \in Lost /\ q[j].op \in Lost =>
       Range(q[i].ids) \intersect Range(q[j].ids) = {}
  /\ \A i, j \in 1..Len(q) : i < j /\ q[i].op \in Ends => q[j].op \notin Ends \union Calls

\* r may come after q.
Fits(q, r) ==
  /\ \A c, d \in Chunks : Holds(q, Calls, c) /\ Holds(r, Calls, d) => c < d
  /\ \A c \in Chunks : ~(Holds(q, Lost, c) /\ Holds(r, Lost, c))
  /\ Has(q, Ends) => ~Has(r, Ends) /\ \A c \in Chunks : ~Holds(r, Calls, c)

\* How many items are about callbacks that pendingcb counts.
DueAt(q) == {i \in 1..Len(q) : q[i].op \in Calls}
Due(q) == Cardinality(DueAt(q))

\* Items that are about no chunk and not about the end.
Plain(q) == \A i \in 1..Len(q) : q[i].op \in {"settle", "spill", "fail", "close"} /\ q[i].ids = <<>>

\* The elements of a sequence, of two in a row, of none and of one.
LEMMA RangeOf ==
  ASSUME NEW S, NEW s \in Seq(S)
  PROVE  Range(s) = {s[i] : i \in 1..Len(s)}
  BY DEF Range

\* The elements of two sequences in a row.
LEMMA RangeJoin ==
  ASSUME NEW S, NEW s \in Seq(S), NEW t \in Seq(S)
  PROVE  Range(s \o t) = Range(s) \union Range(t)
<1>1. s \o t \in Seq(S) /\ Len(s \o t) = Len(s) + Len(t) /\ Len(s) \in Nat /\ Len(t) \in Nat
  OBVIOUS
<1>2. /\ Range(s) = {s[i] : i \in 1..Len(s)} /\ Range(t) = {t[i] : i \in 1..Len(t)}
      /\ Range(s \o t) = {(s \o t)[i] : i \in 1..(Len(s) + Len(t))}
  BY <1>1, RangeOf
<1>3. ASSUME NEW i \in 1..Len(s) PROVE s[i] \in Range(s \o t)
  BY <1>1, <1>2
<1>4. ASSUME NEW i \in 1..Len(t) PROVE t[i] \in Range(s \o t)
  <2>1. Len(s) + i \in 1..(Len(s) + Len(t)) /\ (s \o t)[Len(s) + i] = t[i]
    BY <1>1
  <2> QED BY <1>2, <2>1
<1>5. ASSUME NEW i \in 1..(Len(s) + Len(t)) PROVE (s \o t)[i] \in Range(s) \union Range(t)
  <2>1. CASE i <= Len(s)
    BY <1>1, <1>2, <2>1
  <2>2. CASE i > Len(s)
    <3>1. i - Len(s) \in 1..Len(t) /\ (s \o t)[i] = t[i - Len(s)]
      BY <1>1, <2>2
    <3> QED BY <1>2, <3>1
  <2> QED BY <1>1, <2>1, <2>2
<1> QED BY <1>2, <1>3, <1>4, <1>5

\* The elements of the empty sequence and of one of a single element.
LEMMA RangeOne ==
  ASSUME NEW x
  PROVE  Range(<<>>) = {} /\ Range(<<x>>) = {x}
  BY DEF Range

\* A sequence that is below another may come before it in a rising one.
LEMMA RisingJoin ==
  ASSUME NEW s \in Seq(Chunks), NEW t \in Seq(Chunks), Rising(s), Rising(t), Below(s, t)
  PROVE  Rising(s \o t)
<1>1. Len(s \o t) = Len(s) + Len(t) /\ Len(s) \in Nat /\ Len(t) \in Nat
  OBVIOUS
<1>2. \A i \in 1..Len(s) : (s \o t)[i] = s[i] /\ s[i] \in Range(s)
  BY RangeOf
<1>3. ASSUME NEW i \in 1..Len(s \o t), i > Len(s)
      PROVE  i - Len(s) \in 1..Len(t) /\ (s \o t)[i] = t[i - Len(s)] /\ (s \o t)[i] \in Range(t)
  <2>1. i - Len(s) \in 1..Len(t) /\ (s \o t)[i] = t[i - Len(s)]
    BY <1>1, <1>3
  <2> QED BY <2>1, RangeOf
<1> SUFFICES ASSUME NEW i \in 1..Len(s \o t), NEW j \in 1..Len(s \o t), i < j
             PROVE  (s \o t)[i] < (s \o t)[j]
  BY DEF Rising
<1>4. CASE j <= Len(s)
  BY <1>1, <1>2, <1>4 DEF Rising
<1>5. CASE i <= Len(s) /\ j > Len(s)
  BY <1>1, <1>2, <1>3, <1>5 DEF Below
<1>6. CASE i > Len(s)
  <2>1. j > Len(s) /\ i - Len(s) < j - Len(s)
    BY <1>1, <1>6
  <2> QED BY <1>3, <1>6, <2>1 DEF Rising
<1> QED BY <1>1, <1>4, <1>5, <1>6

\* A rising sequence has no element twice.
LEMMA RisingOnce ==
  ASSUME NEW s \in Seq(Chunks), Rising(s)
  PROVE  \A i, j \in 1..Len(s) : s[i] = s[j] => i = j
<1> SUFFICES ASSUME NEW i \in 1..Len(s), NEW j \in 1..Len(s), s[i] = s[j], i # j PROVE FALSE
  OBVIOUS
<1>1. s[i] \in Nat /\ s[j] \in Nat
  BY WritableAssumption DEF Chunks
<1>2. i < j \/ j < i
  OBVIOUS
<1> QED BY <1>1, <1>2 DEF Rising

\* The parts of an item.
LEMMA ItemIds ==
  ASSUME NEW x \in Items
  PROVE  x.op \in Ops /\ x.ids \in Seq(Chunks) /\ Range(x.ids) \subseteq Chunks
<1>1. x.op \in Ops /\ x.ids \in Seq(Chunks)
  BY DEF Items
<1>2. \A i \in 1..Len(x.ids) : x.ids[i] \in Chunks
  BY <1>1
<1> QED BY <1>1, <1>2, RangeOf

\* Where an item of two queues in a row comes from.
LEMMA ItemOfJoin ==
  ASSUME NEW q \in Seq(Items), NEW r \in Seq(Items)
  PROVE  /\ Len(q \o r) = Len(q) + Len(r) /\ Len(q) \in Nat /\ Len(r) \in Nat
         /\ \A i \in 1..Len(q) : i \in 1..Len(q \o r) /\ (q \o r)[i] = q[i]
         /\ \A i \in 1..Len(r) : Len(q) + i \in 1..Len(q \o r) /\ (q \o r)[Len(q) + i] = r[i]
         /\ \A i \in 1..Len(q \o r) :
              i > Len(q) => i - Len(q) \in 1..Len(r) /\ (q \o r)[i] = r[i - Len(q)]
<1>1. Len(q \o r) = Len(q) + Len(r) /\ Len(q) \in Nat /\ Len(r) \in Nat
  OBVIOUS
<1>2. \A i \in 1..Len(q) : i \in 1..Len(q \o r) /\ (q \o r)[i] = q[i]
  OBVIOUS
<1>3. \A i \in 1..Len(r) : Len(q) + i \in 1..Len(q \o r) /\ (q \o r)[Len(q) + i] = r[i]
  OBVIOUS
<1>4. \A i \in 1..Len(q \o r) :
              i > Len(q) => i - Len(q) \in 1..Len(r) /\ (q \o r)[i] = r[i - Len(q)]
  BY <1>1
<1> QED BY <1>1, <1>2, <1>3, <1>4

\* What two queues in a row hold.
LEMMA HoldsInJoin ==
  ASSUME NEW q \in Seq(Items), NEW r \in Seq(Items), NEW S, NEW c
  PROVE  Holds(q \o r, S, c) <=> Holds(q, S, c) \/ Holds(r, S, c)
<1> DEFINE p == q \o r
<1>1. Len(p) = Len(q) + Len(r) /\ Len(q) \in Nat /\ Len(r) \in Nat
  BY ItemOfJoin
<1>2. \A i \in 1..Len(q) : i \in 1..Len(p) /\ p[i] = q[i]
  BY ItemOfJoin
<1>3. \A i \in 1..Len(r) : Len(q) + i \in 1..Len(p) /\ p[Len(q) + i] = r[i]
  BY ItemOfJoin
<1>4. \A i \in 1..Len(p) : i > Len(q) => i - Len(q) \in 1..Len(r) /\ p[i] = r[i - Len(q)]
  BY ItemOfJoin
<1> HIDE DEF p
<1>5. ASSUME Holds(p, S, c) PROVE Holds(q, S, c) \/ Holds(r, S, c)
  <2>1. PICK i \in 1..Len(p) : p[i].op \in S /\ c \in Range(p[i].ids)
    BY <1>5 DEF Holds
  <2>2. CASE i <= Len(q)
    BY <1>1, <1>2, <2>1, <2>2 DEF Holds
  <2>3. CASE i > Len(q)
    BY <1>4, <2>1, <2>3 DEF Holds
  <2> QED BY <1>1, <2>2, <2>3
<1>6. Holds(q, S, c) => Holds(p, S, c)
  BY <1>2 DEF Holds
<1>7. Holds(r, S, c) => Holds(p, S, c)
  BY <1>3 DEF Holds
<1> QED BY <1>5, <1>6, <1>7 DEF p

\* The kinds of the items of two queues in a row.
LEMMA HasInJoin ==
  ASSUME NEW q \in Seq(Items), NEW r \in Seq(Items), NEW S
  PROVE  Has(q \o r, S) <=> Has(q, S) \/ Has(r, S)
<1> DEFINE p == q \o r
<1>1. Len(p) = Len(q) + Len(r) /\ Len(q) \in Nat /\ Len(r) \in Nat
  BY ItemOfJoin
<1>2. \A i \in 1..Len(q) : i \in 1..Len(p) /\ p[i] = q[i]
  BY ItemOfJoin
<1>3. \A i \in 1..Len(r) : Len(q) + i \in 1..Len(p) /\ p[Len(q) + i] = r[i]
  BY ItemOfJoin
<1>4. \A i \in 1..Len(p) : i > Len(q) => i - Len(q) \in 1..Len(r) /\ p[i] = r[i - Len(q)]
  BY ItemOfJoin
<1> HIDE DEF p
<1>5. ASSUME Has(p, S) PROVE Has(q, S) \/ Has(r, S)
  <2>1. PICK i \in 1..Len(p) : p[i].op \in S
    BY <1>5 DEF Has
  <2>2. CASE i <= Len(q)
    BY <1>1, <1>2, <2>1, <2>2 DEF Has
  <2>3. CASE i > Len(q)
    BY <1>4, <2>1, <2>3 DEF Has
  <2> QED BY <1>1, <2>2, <2>3
<1>6. Has(q, S) => Has(p, S)
  BY <1>2 DEF Has
<1>7. Has(r, S) => Has(p, S)
  BY <1>3 DEF Has
<1> QED BY <1>5, <1>6, <1>7 DEF p

\* One item.
LEMMA OneItem ==
  ASSUME NEW x \in Items, NEW S, NEW c
  PROVE  /\ Holds(<<x>>, S, c) <=> x.op \in S /\ c \in Range(x.ids)
         /\ Has(<<x>>, S) <=> x.op \in S
         /\ ~Holds(<<>>, S, c) /\ ~Has(<<>>, S)
         /\ Shaped(x) => Fit(<<x>>)
  BY DEF Holds, Has, Fit

\* Two queues in a row are fit if both are and the one may follow the other.
LEMMA FitJoin ==
  ASSUME NEW q \in Seq(Items), NEW r \in Seq(Items), Fit(q), Fit(r), Fits(q, r)
  PROVE  Fit(q \o r)
<1> DEFINE p == q \o r
<1>1. Len(p) = Len(q) + Len(r) /\ Len(q) \in Nat /\ Len(r) \in Nat
  BY ItemOfJoin
<1>2. \A i \in 1..Len(q) : i \in 1..Len(p) /\ p[i] = q[i]
  BY ItemOfJoin
<1>3. \A i \in 1..Len(p) : i > Len(q) => i - Len(q) \in 1..Len(r) /\ p[i] = r[i - Len(q)]
  BY ItemOfJoin
<1>4. \A i \in 1..Len(q) : q[i].ids \in Seq(Chunks) /\ Range(q[i].ids) \subseteq Chunks
  BY ItemIds
<1>5. \A i \in 1..Len(r) : r[i].ids \in Seq(Chunks) /\ Range(r[i].ids) \subseteq Chunks
  BY ItemIds
<1>6. ASSUME NEW i \in 1..Len(q), NEW j \in 1..Len(r)
      PROVE  /\ q[i].op \in Calls /\ r[j].op \in Calls => Below(q[i].ids, r[j].ids)
             /\ q[i].op \in Lost /\ r[j].op \in Lost =>
                  Range(q[i].ids) \intersect Range(r[j].ids) = {}
             /\ q[i].op \in Ends => r[j].op \notin Ends \union Calls
  <2>1. q[i].op \in Calls /\ r[j].op \in Calls => Below(q[i].ids, r[j].ids)
    BY <1>4, <1>5 DEF Fits, Below, Holds
  <2>2. q[i].op \in Lost /\ r[j].op \in Lost =>
                  Range(q[i].ids) \intersect Range(r[j].ids) = {}
    BY <1>4, <1>5 DEF Fits, Holds
  <2>3. q[i].op \in Ends => r[j].op \notin Ends
    BY DEF Fits, Has
  <2>4. r[j].op \in Calls => \E c \in Chunks : Holds(r, Calls, c)
    <3> SUFFICES ASSUME r[j].op \in Calls PROVE \E c \in Chunks : Holds(r, Calls, c)
      OBVIOUS
    <3>1. r[j].ids # <<>>
      BY DEF Fit, Shaped
    <3>2. Range(r[j].ids) = {r[j].ids[k] : k \in 1..Len(r[j].ids)} /\ 1 \in 1..Len(r[j].ids)
      BY <3>1, <1>5, RangeOf
    <3>3. r[j].ids[1] \in Range(r[j].ids)
      BY <3>2
    <3> QED BY <1>5, <3>3 DEF Holds
  <2>5. q[i].op \in Ends => r[j].op \notin Calls
    BY <2>4 DEF Fits, Has
  <2> QED BY <2>1, <2>2, <2>3, <2>5
<1> HIDE DEF p
<1>7. ASSUME NEW i \in 1..Len(p) PROVE Shaped(p[i])
  <2>1. CASE i <= Len(q)
    BY <1>1, <1>2, <2>1 DEF Fit
  <2>2. CASE i > Len(q)
    BY <1>3, <2>2 DEF Fit
  <2> QED BY <1>1, <2>1, <2>2
<1>8. ASSUME NEW i \in 1..Len(p), NEW j \in 1..Len(p), i < j
      PROVE  /\ p[i].op \in Calls /\ p[j].op \in Calls => Below(p[i].ids, p[j].ids)
             /\ p[i].op \in Lost /\ p[j].op \in Lost =>
                  Range(p[i].ids) \intersect Range(p[j].ids) = {}
             /\ p[i].op \in Ends => p[j].op \notin Ends \union Calls
  <2>1. CASE j <= Len(q)
    <3>1. i \in 1..Len(q) /\ j \in 1..Len(q) /\ p[i] = q[i] /\ p[j] = q[j]
      BY <1>1, <1>2, <1>8, <2>1
    <3> QED BY <3>1, <1>8 DEF Fit
  <2>2. CASE i <= Len(q) /\ j > Len(q)
    <3>1. i \in 1..Len(q) /\ j - Len(q) \in 1..Len(r) /\ p[i] = q[i] /\ p[j] = r[j - Len(q)]
      BY <1>1, <1>2, <1>3, <2>2
    <3> QED BY <3>1, <1>6
  <2>3. CASE i > Len(q)
    <3>1. i - Len(q) < j - Len(q) /\ j > Len(q)
      BY <1>1, <1>8, <2>3
    <3>2. /\ i - Len(q) \in 1..Len(r) /\ j - Len(q) \in 1..Len(r)
          /\ p[i] = r[i - Len(q)] /\ p[j] = r[j - Len(q)]
      BY <1>3, <2>3, <3>1
    <3> DEFINE k == i - Len(q)
               m == j - Len(q)
    <3>3. k \in 1..Len(r) /\ m \in 1..Len(r) /\ k < m /\ p[i] = r[k] /\ p[j] = r[m]
      BY <3>1, <3>2
    <3> HIDE DEF k, m
    <3> QED BY <3>3 DEF Fit
  <2> QED BY <1>1, <1>8, <2>1, <2>2, <2>3
<1>9. Fit(p)
  BY <1>7, <1>8 DEF Fit
<1> QED BY <1>9 DEF p

\* What an item before a fit queue says of both.
LEMMA FitHead ==
  ASSUME NEW x \in Items, NEW r \in Seq(Items), Fit(<<x>> \o r)
  PROVE  Shaped(x) /\ Fit(r) /\ Fits(<<x>>, r)
<1> DEFINE p == <<x>> \o r
<1>1. <<x>> \in Seq(Items) /\ Len(<<x>>) = 1 /\ <<x>>[1] = x
  OBVIOUS
<1>2. Len(p) = 1 + Len(r) /\ Len(r) \in Nat /\ p[1] = x
  BY <1>1
<1>3. \A i \in 1..Len(r) : i + 1 \in 1..Len(p) /\ p[i + 1] = r[i]
  BY <1>1
<1> HIDE DEF p
<1>4. Fit(p)
  BY DEF p
<1>5. Shaped(x)
  BY <1>2, <1>4 DEF Fit
<1>6. Fit(r)
  <2>1. \A i \in 1..Len(r) : Shaped(r[i])
    BY <1>3, <1>4 DEF Fit
  <2>2. ASSUME NEW i \in 1..Len(r), NEW j \in 1..Len(r), i < j
        PROVE  /\ r[i].op \in Calls /\ r[j].op \in Calls => Below(r[i].ids, r[j].ids)
               /\ r[i].op \in Lost /\ r[j].op \in Lost =>
                    Range(r[i].ids) \intersect Range(r[j].ids) = {}
               /\ r[i].op \in Ends => r[j].op \notin Ends \union Calls
    <3>1. i + 1 < j + 1
      BY <2>2
    <3> DEFINE k == i + 1
               m == j + 1
    <3>2. k \in 1..Len(p) /\ m \in 1..Len(p) /\ k < m /\ r[i] = p[k] /\ r[j] = p[m]
      BY <1>3, <3>1
    <3> HIDE DEF k, m
    <3> QED BY <3>2, <1>4 DEF Fit
  <2> QED BY <2>1, <2>2 DEF Fit
<1>7. ASSUME NEW j \in 1..Len(r)
      PROVE  /\ x.op \in Calls /\ r[j].op \in Calls => Below(x.ids, r[j].ids)
             /\ x.op \in Lost /\ r[j].op \in Lost =>
                  Range(x.ids) \intersect Range(r[j].ids) = {}
             /\ x.op \in Ends => r[j].op \notin Ends \union Calls
  <2> DEFINE m == j + 1
  <2>1. 1 \in 1..Len(p) /\ m \in 1..Len(p) /\ 1 < m /\ x = p[1] /\ r[j] = p[m]
    BY <1>2, <1>3
  <2> HIDE DEF m
  <2> QED BY <2>1, <1>4 DEF Fit
<1>8. \A S, c : /\ Holds(<<x>>, S, c) <=> x.op \in S /\ c \in Range(x.ids)
                /\ Has(<<x>>, S) <=> x.op \in S
  BY <1>1 DEF Holds, Has
<1>9. Fits(<<x>>, r)
  <2>1. \A c, d \in Chunks : Holds(<<x>>, Calls, c) /\ Holds(r, Calls, d) => c < d
    BY <1>7, <1>8 DEF Holds, Below
  <2>2. \A c \in Chunks : ~(Holds(<<x>>, Lost, c) /\ Holds(r, Lost, c))
    BY <1>7, <1>8 DEF Holds
  <2>3. Has(<<x>>, Ends) => ~Has(r, Ends) /\ \A c \in Chunks : ~Holds(r, Calls, c)
    BY <1>7, <1>8 DEF Holds, Has
  <2> QED BY <2>1, <2>2, <2>3 DEF Fits
<1> QED BY <1>5, <1>6, <1>9

\* A queue that is not empty is its first item and the rest.
LEMMA HeadAndTail ==
  ASSUME NEW q \in Seq(Items), q # <<>>
  PROVE  Head(q) \in Items /\ Tail(q) \in Seq(Items) /\ q = <<Head(q)>> \o Tail(q)
  OBVIOUS

\* A queue of plain items fits and holds nothing that is counted.
LEMMA PlainQueue ==
  ASSUME NEW q \in Seq(Items), Plain(q)
  PROVE  /\ Fit(q) /\ Due(q) = 0 /\ ~Has(q, Ends)
         /\ \A S \in SUBSET (Calls \union Lost) : \A c : ~Holds(q, S, c)
         /\ \A r \in Seq(Items) : Fits(r, q) /\ Fits(q, r)
<1>1. \A i \in 1..Len(q) : q[i].op \notin Calls /\ q[i].op \notin Lost /\ q[i].op \notin Ends /\ q[i].ids = <<>>
  BY DEF Plain, Calls, Lost, Ends
<1>2. \A i \in 1..Len(q) : Shaped(q[i])
  <2>1. Rising(<<>>)
    BY DEF Rising
  <2> QED BY <1>1, <2>1 DEF Shaped
<1>3. Fit(q)
  BY <1>1, <1>2 DEF Fit
<1>4. ~Has(q, Ends)
  BY <1>1 DEF Has
<1>5. ASSUME NEW S \in SUBSET (Calls \union Lost), NEW c PROVE ~Holds(q, S, c)
  BY <1>1 DEF Holds
<1>6. Due(q) = 0
  <2>1. DueAt(q) = {}
    BY <1>1 DEF DueAt
  <2> QED BY <2>1, FS_EmptySet DEF Due
<1>7. ASSUME NEW r \in Seq(Items) PROVE Fits(r, q) /\ Fits(q, r)
  <2>1. Calls \in SUBSET (Calls \union Lost) /\ Lost \in SUBSET (Calls \union Lost)
    OBVIOUS
  <2>2. \A c : ~Holds(q, Calls, c) /\ ~Holds(q, Lost, c)
    BY <1>5, <2>1
  <2> QED BY <1>4, <2>2 DEF Fits
<1> QED BY <1>3, <1>4, <1>5, <1>6, <1>7

\* The number of callbacks due is a number, and zero only if none is due.
LEMMA DueIsNat ==
  ASSUME NEW q \in Seq(Items)
  PROVE  /\ IsFiniteSet(DueAt(q)) /\ Due(q) \in Nat
         /\ Due(q) = 0 => \A c : ~Holds(q, Calls, c)
<1>1. IsFiniteSet(1..Len(q))
  BY FS_Interval
<1>2. IsFiniteSet(DueAt(q))
  <2>1. DueAt(q) \subseteq 1..Len(q)
    BY DEF DueAt
  <2> QED BY <1>1, <2>1, FS_Subset
<1>3. Due(q) \in Nat
  BY <1>2, FS_CardinalityType DEF Due
<1>4. Due(q) = 0 => DueAt(q) = {}
  BY <1>2, FS_EmptySet DEF Due
<1>5. DueAt(q) = {} => \A c : ~Holds(q, Calls, c)
  BY DEF DueAt, Holds
<1> QED BY <1>2, <1>3, <1>4, <1>5

\* Two queues in a row: the callbacks due are those of both.
LEMMA DueJoin ==
  ASSUME NEW q \in Seq(Items), NEW r \in Seq(Items)
  PROVE  Due(q \o r) = Due(q) + Due(r)
<1> DEFINE p == q \o r
           A == DueAt(q)
           B == DueAt(r)
           C == {i \in DueAt(p) : i > Len(q)}
           f == [i \in B |-> Len(q) + i]
<1>1. Len(p) = Len(q) + Len(r) /\ Len(q) \in Nat /\ Len(r) \in Nat
  BY ItemOfJoin
<1>2. \A i \in 1..Len(q) : i \in 1..Len(p) /\ p[i] = q[i]
  BY ItemOfJoin
<1>3. \A i \in 1..Len(r) : Len(q) + i \in 1..Len(p) /\ p[Len(q) + i] = r[i]
  BY ItemOfJoin
<1>4. \A i \in 1..Len(p) : i > Len(q) => i - Len(q) \in 1..Len(r) /\ p[i] = r[i - Len(q)]
  BY ItemOfJoin
<1>5. p \in Seq(Items)
  OBVIOUS
<1> HIDE DEF p
<1>6. DueAt(p) = A \union C /\ A \intersect C = {}
  BY <1>1, <1>2 DEF DueAt
<1>7. IsFiniteSet(A) /\ IsFiniteSet(B) /\ IsFiniteSet(C)
  <2>1. C \subseteq DueAt(p) /\ IsFiniteSet(DueAt(p))
    BY <1>5, DueIsNat
  <2> QED BY <2>1, DueIsNat, FS_Subset
<1>8. Cardinality(C) = Cardinality(B)
  <2>1. \A i \in B : i \in 1..Len(r) /\ f[i] = Len(q) + i /\ f[i] \in C
    BY <1>1, <1>3 DEF DueAt
  <2>2. \A i \in C : i - Len(q) \in B /\ f[i - Len(q)] = i
    BY <1>1, <1>4 DEF DueAt
  <2>3. \A i, j \in B : f[i] = f[j] => i = j
    BY <1>1, <2>1
  <2>4. f \in [B -> C]
    BY <2>1
  <2> HIDE DEF B, C, f
  <2>5. f \in Bijection(B, C)
    <3>1. f \in Injection(B, C)
      BY <2>3, <2>4, Fun_IsInj
    <3>2. f \in Surjection(B, C)
      BY <2>2, <2>4 DEF Surjection
    <3> QED BY <3>1, <3>2 DEF Bijection
  <2> QED BY <1>7, <2>5, FS_Bijection DEF ExistsBijection
<1>9. Cardinality(A \union C) = Cardinality(A) + Cardinality(C)
  <2> HIDE DEF A, C
  <2>1. Cardinality(A \intersect C) = 0
    BY <1>6, FS_EmptySet
  <2>2. Cardinality(A) \in Nat /\ Cardinality(C) \in Nat
    BY <1>7, FS_CardinalityType
  <2>3. Cardinality(A \union C) = Cardinality(A) + Cardinality(C) - Cardinality(A \intersect C)
    BY <1>7, FS_Union
  <2> QED BY <2>1, <2>2, <2>3
<1>10. Due(p) = Due(q) + Due(r)
  BY <1>6, <1>8, <1>9 DEF Due
<1> QED BY <1>10 DEF p

\* One item counts if it is about a callback.
LEMMA DueOne ==
  ASSUME NEW x \in Items
  PROVE  /\ Due(<<>>) = 0
         /\ x.op \in Calls => Due(<<x>>) = 1
         /\ x.op \notin Calls => Due(<<x>>) = 0
<1>1. DueAt(<<>>) = {}
  BY DEF DueAt
<1>2. x.op \in Calls => DueAt(<<x>>) = {1}
  BY DEF DueAt
<1>3. x.op \notin Calls => DueAt(<<x>>) = {}
  BY DEF DueAt
<1> QED BY <1>1, <1>2, <1>3, FS_EmptySet, FS_Singleton DEF Due

------------------------------------------------------------------------------
(* The callbacks that were called.                                         *)

\* What `told` is made of.
Tellings == [id : Chunks, ok : BOOLEAN]

\* Chunk c was answered; and with success.
Said(t, c) == \E i \in 1..Len(t) : t[i].id = c
Good(c) == [id |-> c, ok |-> TRUE]
SaidOk(t, c) == \E i \in 1..Len(t) : t[i] = Good(c)

\* No chunk is answered twice, and those of S in their order.
Once(t) == \A i, j \in 1..Len(t) : t[i].id = t[j].id => i = j
InLine(t, S) ==
  \A i, j \in 1..Len(t) : i < j /\ t[i].id \in S /\ t[j].id \in S => t[i].id < t[j].id

\* The chunk of an answer.
LEMMA TellingIds ==
  ASSUME NEW t \in Seq(Tellings)
  PROVE  \A i \in 1..Len(t) : t[i].id \in Chunks
<1> SUFFICES ASSUME NEW i \in 1..Len(t) PROVE t[i].id \in Chunks
  OBVIOUS
<1>1. t[i] \in Tellings
  OBVIOUS
<1> QED BY <1>1 DEF Tellings

\* What was answered in two sequences of answers in a row.
LEMMA SaidInJoin ==
  ASSUME NEW t \in Seq(Tellings), NEW u \in Seq(Tellings), NEW c
  PROVE  /\ Said(t \o u, c) <=> Said(t, c) \/ Said(u, c)
         /\ SaidOk(t \o u, c) <=> SaidOk(t, c) \/ SaidOk(u, c)
<1> DEFINE p == t \o u
<1>1. Len(p) = Len(t) + Len(u) /\ Len(t) \in Nat /\ Len(u) \in Nat
  OBVIOUS
<1>2. \A i \in 1..Len(t) : i \in 1..Len(p) /\ p[i] = t[i]
  OBVIOUS
<1>3. \A i \in 1..Len(u) : Len(t) + i \in 1..Len(p) /\ p[Len(t) + i] = u[i]
  OBVIOUS
<1>4. \A i \in 1..Len(p) : i > Len(t) => i - Len(t) \in 1..Len(u) /\ p[i] = u[i - Len(t)]
  BY <1>1
<1> HIDE DEF p
<1>5. \A i \in 1..Len(p) : i \in 1..Len(t) \/ i > Len(t)
  BY <1>1
<1>6. Said(p, c) <=> Said(t, c) \/ Said(u, c)
  <2>1. ASSUME Said(p, c) PROVE Said(t, c) \/ Said(u, c)
    <3>1. PICK i \in 1..Len(p) : p[i].id = c
      BY <2>1 DEF Said
    <3>2. CASE i \in 1..Len(t)
      BY <1>2, <3>1, <3>2 DEF Said
    <3>3. CASE i > Len(t)
      BY <1>4, <3>1, <3>3 DEF Said
    <3> QED BY <1>5, <3>2, <3>3
  <2>2. ASSUME Said(t, c) PROVE Said(p, c)
    BY <1>2, <2>2 DEF Said
  <2>3. ASSUME Said(u, c) PROVE Said(p, c)
    BY <1>3, <2>3 DEF Said
  <2> QED BY <2>1, <2>2, <2>3
<1>7. SaidOk(p, c) <=> SaidOk(t, c) \/ SaidOk(u, c)
  BY <1>2, <1>3, <1>4, <1>5 DEF SaidOk
<1> QED BY <1>6, <1>7 DEF p

\* Answers to other chunks may follow.
LEMMA OnceJoin ==
  ASSUME NEW t \in Seq(Tellings), NEW u \in Seq(Tellings), Once(t), Once(u),
         \A c \in Chunks : ~(Said(t, c) /\ Said(u, c))
  PROVE  Once(t \o u)
<1> DEFINE p == t \o u
<1>1. Len(p) = Len(t) + Len(u) /\ Len(t) \in Nat /\ Len(u) \in Nat
  OBVIOUS
<1>2. \A i \in 1..Len(t) : i \in 1..Len(p) /\ p[i] = t[i] /\ t[i].id \in Chunks
  <2>1. \A i \in 1..Len(t) : i \in 1..Len(p) /\ p[i] = t[i]
    OBVIOUS
  <2> QED BY <2>1, TellingIds
<1>4. \A i \in 1..Len(p) : i > Len(t) => i - Len(t) \in 1..Len(u) /\ p[i] = u[i - Len(t)]
  BY <1>1
<1> HIDE DEF p
<1>5. \A i \in 1..Len(p) : i \in 1..Len(t) \/ i > Len(t)
  BY <1>1
<1>6. ASSUME NEW i \in 1..Len(t), NEW j \in 1..Len(u) PROVE t[i].id # u[j].id
  BY <1>2 DEF Said
<1>7. ASSUME NEW i \in 1..Len(p), NEW j \in 1..Len(p), p[i].id = p[j].id PROVE i = j
  <2>1. CASE i \in 1..Len(t) /\ j \in 1..Len(t)
    BY <1>2, <1>7, <2>1 DEF Once
  <2>2. CASE i > Len(t) /\ j > Len(t)
    <3>1. i - Len(t) = j - Len(t)
      <4>1. u[i - Len(t)].id = u[j - Len(t)].id /\ i - Len(t) \in 1..Len(u) /\ j - Len(t) \in 1..Len(u)
        BY <1>4, <1>7, <2>2
      <4> QED BY <4>1 DEF Once
    <3> QED BY <1>1, <3>1
  <2>3. CASE i \in 1..Len(t) /\ j > Len(t)
    BY <1>2, <1>4, <1>6, <1>7, <2>3
  <2>4. CASE i > Len(t) /\ j \in 1..Len(t)
    BY <1>2, <1>4, <1>6, <1>7, <2>4
  <2> QED BY <1>5, <2>1, <2>2, <2>3, <2>4
<1> QED BY <1>7 DEF p, Once

\* Answers to later chunks may follow.
LEMMA InLineJoin ==
  ASSUME NEW t \in Seq(Tellings), NEW u \in Seq(Tellings), NEW S, InLine(t, S), InLine(u, S),
         \A c, d \in Chunks : c \in S /\ d \in S /\ Said(t, c) /\ Said(u, d) => c < d
  PROVE  InLine(t \o u, S)
<1> DEFINE p == t \o u
<1>1. Len(p) = Len(t) + Len(u) /\ Len(t) \in Nat /\ Len(u) \in Nat
  OBVIOUS
<1>2. \A i \in 1..Len(t) : i \in 1..Len(p) /\ p[i] = t[i] /\ t[i].id \in Chunks
  <2>1. \A i \in 1..Len(t) : i \in 1..Len(p) /\ p[i] = t[i]
    OBVIOUS
  <2> QED BY <2>1, TellingIds
<1>3. \A i \in 1..Len(u) : u[i].id \in Chunks
  BY TellingIds
<1>4. \A i \in 1..Len(p) : i > Len(t) => i - Len(t) \in 1..Len(u) /\ p[i] = u[i - Len(t)]
  BY <1>1
<1> HIDE DEF p
<1>5. \A i \in 1..Len(p) : i \in 1..Len(t) \/ i > Len(t)
  BY <1>1
<1>7. ASSUME NEW i \in 1..Len(p), NEW j \in 1..Len(p), i < j, p[i].id \in S, p[j].id \in S
      PROVE  p[i].id < p[j].id
  <2>1. CASE i \in 1..Len(t) /\ j \in 1..Len(t)
    BY <1>2, <1>7, <2>1 DEF InLine
  <2>2. CASE i > Len(t) /\ j > Len(t)
    <3>1. i - Len(t) < j - Len(t)
      BY <1>1, <1>7
    <3> QED BY <1>4, <1>7, <2>2, <3>1 DEF InLine
  <2>3. CASE i \in 1..Len(t) /\ j > Len(t)
    BY <1>2, <1>3, <1>4, <1>7, <2>3 DEF Said
  <2>4. ~(i > Len(t) /\ j \in 1..Len(t))
    BY <1>1, <1>7
  <2> QED BY <1>5, <2>1, <2>2, <2>3, <2>4
<1> QED BY <1>7 DEF p, InLine

\* What the answers to the chunks of an item say.
LEMMA AnswersSay ==
  ASSUME NEW ids \in Seq(Chunks), Rising(ids), NEW ok \in BOOLEAN
  PROVE  /\ Answers(ids, ok) \in Seq(Tellings)
         /\ Once(Answers(ids, ok))
         /\ \A S : InLine(Answers(ids, ok), S)
         /\ \A c : Said(Answers(ids, ok), c) <=> c \in Range(ids)
         /\ \A c : SaidOk(Answers(ids, ok), c) <=> ok /\ c \in Range(ids)
<1> DEFINE u == Answers(ids, ok)
<1>1. DOMAIN ids = 1..Len(ids) /\ Len(ids) \in Nat /\ \A i \in 1..Len(ids) : ids[i] \in Chunks
  OBVIOUS
<1>2. u = [i \in 1..Len(ids) |-> [id |-> ids[i], ok |-> ok]]
  BY <1>1 DEF Answers
<1>3. u \in Seq(Tellings) /\ Len(u) = Len(ids)
  <2>1. u \in [1..Len(ids) -> Tellings]
    BY <1>1, <1>2 DEF Tellings
  <2> QED BY <1>1, <2>1
<1>4. \A i \in 1..Len(u) : u[i] = [id |-> ids[i], ok |-> ok] /\ u[i].id = ids[i]
  BY <1>2, <1>3
<1> HIDE DEF u
<1>5. Once(u)
  <2>1. \A i, j \in 1..Len(ids) : ids[i] = ids[j] => i = j
    BY RisingOnce
  <2>2. \A i \in 1..Len(u) : i \in 1..Len(ids) /\ u[i].id = ids[i]
    BY <1>3, <1>4
  <2> QED BY ONLY <2>1, <2>2 DEF Once
<1>6. \A S : InLine(u, S)
  BY <1>3, <1>4 DEF InLine, Rising
<1>7. Range(ids) = {ids[i] : i \in 1..Len(ids)}
  BY RangeOf
<1>8. \A c : Said(u, c) <=> c \in Range(ids)
  BY <1>3, <1>4, <1>7 DEF Said
<1>9. \A c : SaidOk(u, c) <=> ok /\ c \in Range(ids)
  <2>1. ASSUME NEW i \in 1..Len(u), NEW c PROVE u[i] = Good(c) <=> ok /\ ids[i] = c
    <3>1. u[i] = [id |-> ids[i], ok |-> ok]
      BY <1>4
    <3>3. ok /\ ids[i] = c => u[i] = Good(c)
      BY <3>1 DEF Good
    <3>4. u[i] = Good(c) => ids[i] = c
      BY <3>1 DEF Good
    <3>5. ok = FALSE => u[i] # Good(c)
      BY <3>1 DEF Good
    <3> QED BY <3>3, <3>4, <3>5
  <2> QED BY <1>3, <1>7, <2>1 DEF SaidOk
<1>10. u \in Seq(Tellings)
  BY <1>3
<1> QED BY <1>5, <1>6, <1>8, <1>9, <1>10 DEF u

\* One answer.
LEMMA OneAnswer ==
  ASSUME NEW d \in Chunks, NEW ok \in BOOLEAN
  PROVE  LET u == <<[id |-> d, ok |-> ok]>>
         IN  /\ u \in Seq(Tellings) /\ Once(u) /\ \A S : InLine(u, S)
             /\ \A c : Said(u, c) <=> c = d
             /\ \A c : SaidOk(u, c) <=> ok /\ c = d
<1> DEFINE u == <<[id |-> d, ok |-> ok]>>
<1>1. u \in Seq(Tellings)
  BY DEF Tellings
<1>2. Len(u) = 1 /\ u[1] = [id |-> d, ok |-> ok]
  OBVIOUS
<1> HIDE DEF u
<1>3. Once(u) /\ \A S : InLine(u, S)
  BY <1>2 DEF Once, InLine
<1>4. \A c : Said(u, c) <=> c = d
  BY <1>2 DEF Said
<1>5. \A c : SaidOk(u, c) <=> ok /\ c = d
  BY <1>2 DEF SaidOk, Good
<1> QED BY <1>1, <1>3, <1>4, <1>5 DEF u

------------------------------------------------------------------------------
(* The inductive invariant.                                                *)

\* The values of w.
States ==
  [corked : 0..1, pendingcb : Nat, needDrain : BOOLEAN, ending : BOOLEAN,
   final : {"no", "called", "done"}, endcb : BOOLEAN, finished : BOOLEAN,
   errored : BOOLEAN, destroyed : BOOLEAN, closing : BOOLEAN, closed : BOOLEAN,
   writev : BOOLEAN, hasFinal : BOOLEAN]

\* Chunks go from the buffer to the sink in their order.
Line ==
  /\ Rising(sunk) /\ Rising(buffered) /\ Rising(writing)
  /\ Below(sunk, buffered)
  /\ Range(sunk) \subseteq 1..n /\ Range(buffered) \subseteq 1..n
  /\ Range(writing) \subseteq Range(sunk)

\* A stream that may write buffers nothing.
Flow == writing = <<>> /\ w.corked = 0 /\ ~w.errored /\ ~w.destroyed => buffered = <<>>

\* Whose callbacks are due: of chunks the sink got before those it works on, and
\* of chunks it will never get.
Owed ==
  /\ Fit(todo)
  /\ \A c \in Chunks :
       /\ Holds(todo, Calls, c) => c \in Range(sunk) /\ \A d \in Range(writing) : c < d
       /\ Holds(todo, Acks, c) => c \in took
       /\ Holds(todo, Lost, c) =>
            c \notin Range(sunk) /\ c \notin Range(buffered) /\ ~Said(told, c) /\ c <= n

\* What was answered, and that what is still to be answered comes later.
Reported ==
  /\ Once(told) /\ InLine(told, Range(sunk))
  /\ \A c \in Chunks :
       /\ Said(told, c) => c <= n /\ c \notin Range(buffered)
       /\ Said(told, c) /\ c \in Range(sunk) => \A d \in Range(writing) : c < d
       /\ \A d \in Chunks : Said(told, c) /\ c \in Range(sunk) /\ Holds(todo, Calls, d) => c < d
       /\ SaidOk(told, c) /\ c > 0 => c \in took

\* While nothing fails, no chunk the sink got is forgotten.
Kept ==
  ~w.errored =>
    \A c \in Range(sunk) :
      c \in Range(writing) \/ (c \in took /\ (SaidOk(told, c) \/ Holds(todo, Acks, c)))

\* end()'s callback is answered, or about to be, once, and not while it waits.
Zero ==
  Said(told, 0) \/ Holds(todo, Lost, 0) =>
    ~w.endcb /\ (w.ending \/ (w.errored /\ w.destroyed))

\* Nothing is left, and every chunk was answered or its callback is due.
Whole ==
  /\ buffered = <<>> /\ writing = <<>>
  /\ \A c \in Range(sunk) : c \in took /\ (SaidOk(told, c) \/ Holds(todo, Acks, c))

\* Nothing is left and no callback is due.
Idle ==
  /\ buffered = <<>> /\ writing = <<>>
  /\ \A c \in Chunks : ~Holds(todo, Calls, c)

\* What is known when the stream is about to finish, or has finished.
Ending ==
  /\ Has(todo, Ends) \/ w.final # "no" \/ w.finished => w.ending
  /\ Has(todo, {"finish"}) => Whole
  /\ Has(todo, {"endtick"}) => Idle
  /\ FinishIsWhole
  /\ Has(todo, Ends) => w.final # "called" /\ (w.hasFinal => w.final # "no")

\* pendingcb counts what is due, being written and buffered, and the end.
Busy == IF writing = <<>> THEN 0 ELSE 1
Slot == IF Has(todo, Ends) \/ w.final = "called" THEN 1 ELSE 0
Count == Due(todo) + Busy + Len(buffered) + Slot <= w.pendingcb

\* What is known of the chunks, and of the end and pendingcb as well.
ChunksInv == Line /\ Flow /\ Owed /\ Reported /\ Kept /\ Zero
Inv == ChunksInv /\ Ending /\ Count

\* The variables' types, by name.
LEMMA Types ==
  TypeOK <=> /\ w \in States /\ buffered \in Seq(Chunks) /\ writing \in Seq(Chunks)
             /\ sunk \in Seq(Chunks) /\ todo \in Seq(Items) /\ n \in 0..MaxWrites
             /\ took \subseteq Chunks /\ told \in Seq(Tellings)
  BY DEF TypeOK, States, Items, Tellings

------------------------------------------------------------------------------
(* Steps that leave the chunks where they are.                             *)

\* Two queues hold the same chunks.
Alike(q, r) ==
  \A c \in Chunks : /\ Holds(r, Calls, c) <=> Holds(q, Calls, c)
                    /\ Holds(r, Acks, c) <=> Holds(q, Acks, c)
                    /\ Holds(r, Lost, c) <=> Holds(q, Lost, c)

\* The flags only rise, and the stream does not begin to write.
Steady ==
  /\ w.errored => w'.errored
  /\ w.destroyed => w'.destroyed
  /\ w.ending => w'.ending
  /\ w'.corked = 0 => w.corked = 0 \/ buffered = <<>> \/ writing # <<>>

\* Nobody is answered, and only a stream that has not ended waits for its end; or
\* end()'s callback is answered and waits no more.
Untold ==
  told' = told /\ (w'.endcb => w.endcb \/ ~(w.ending \/ (w.errored /\ w.destroyed)))
EndTold ==
  /\ w.endcb /\ ~w'.endcb /\ w'.ending
  /\ \E b \in BOOLEAN : told' = Append(told, [id |-> 0, ok |-> b])

\* What such a step adds to the answers.
ToldStep ==
  /\ \A c \in Chunks : /\ Said(told, c) => Said(told', c)
                       /\ SaidOk(told, c) => SaidOk(told', c)
                       /\ c # 0 /\ Said(told', c) => Said(told, c)
                       /\ c # 0 /\ SaidOk(told', c) => SaidOk(told, c)
  /\ Said(told', 0) => Said(told, 0) \/ (~Holds(todo, Lost, 0) /\ ~w'.endcb /\ w'.ending)

\* 0 stands for end()'s callback.
LEMMA ZeroIsChunk == 0 \in Chunks /\ Chunks \subseteq Nat
  BY WritableAssumption DEF Chunks

\* What is answered after a step that answers at most end()'s callback.
LEMMA ToldNext ==
  ASSUME TypeOK, Zero, Reported, Untold \/ EndTold
  PROVE  /\ told' \in Seq(Tellings) /\ Once(told')
         /\ 0 \notin Range(sunk) => InLine(told', Range(sunk))
         /\ ToldStep
<1>1. told \in Seq(Tellings)
  BY Types
<1>2. CASE Untold
  BY <1>1, <1>2 DEF Untold, Reported, ToldStep
<1>3. CASE EndTold
  <2>1. PICK b \in BOOLEAN : told' = Append(told, [id |-> 0, ok |-> b])
    BY <1>3 DEF EndTold
  <2> DEFINE u == <<[id |-> 0, ok |-> b]>>
  <2>2. told' = told \o u
    BY <1>1, <2>1 DEF Tellings
  <2>3. /\ u \in Seq(Tellings) /\ Once(u) /\ \A S : InLine(u, S)
        /\ \A c : Said(u, c) <=> c = 0
        /\ \A c : SaidOk(u, c) <=> b /\ c = 0
    BY OneAnswer, ZeroIsChunk
  <2> HIDE DEF u
  <2>4. ~Said(told, 0) /\ ~Holds(todo, Lost, 0)
    BY <1>3 DEF EndTold, Zero
  <2>5. told' \in Seq(Tellings)
    BY <1>1, <2>2, <2>3
  <2>6. Once(told')
    <3>1. \A c \in Chunks : ~(Said(told, c) /\ Said(u, c))
      BY <2>3, <2>4
    <3> QED BY <1>1, <2>2, <2>3, <3>1, OnceJoin DEF Reported
  <2>7. ASSUME 0 \notin Range(sunk) PROVE InLine(told', Range(sunk))
    <3>1. \A c, d \in Chunks : c \in Range(sunk) /\ d \in Range(sunk) /\ Said(told, c) /\ Said(u, d) => c < d
      BY <2>3, <2>7
    <3>2. InLine(told, Range(sunk)) /\ InLine(u, Range(sunk))
      BY <2>3 DEF Reported
    <3> QED BY <1>1, <2>2, <2>3, <3>1, <3>2, InLineJoin
  <2>8. \A c : /\ Said(told', c) <=> Said(told, c) \/ Said(u, c)
               /\ SaidOk(told', c) <=> SaidOk(told, c) \/ SaidOk(u, c)
    BY <1>1, <2>2, <2>3, SaidInJoin
  <2>9. ~w'.endcb /\ w'.ending
    BY <1>3 DEF EndTold
  <2>10. ToldStep
    BY <2>3, <2>4, <2>8, <2>9 DEF ToldStep
  <2> QED BY <2>5, <2>6, <2>7, <2>10
<1> QED BY <1>2, <1>3

\* A step that leaves the chunks where they are, and the queue with the same
\* callbacks, keeps what is known of the chunks.
LEMMA Still ==
  ASSUME TypeOK, ChunksInv, w' \in States, todo' \in Seq(Items),
         UNCHANGED <<buffered, writing, n, sunk, took>>,
         Fit(todo'), Alike(todo, todo'), Steady, Untold \/ EndTold
  PROVE  TypeOK' /\ ChunksInv'
<1> USE DEF ChunksInv
<1>0. /\ buffered \in Seq(Chunks) /\ writing \in Seq(Chunks)
      /\ sunk \in Seq(Chunks) /\ todo \in Seq(Items) /\ n \in 0..MaxWrites
      /\ took \subseteq Chunks /\ told \in Seq(Tellings) /\ w \in States
  BY Types
<1>1. /\ told' \in Seq(Tellings) /\ Once(told')
      /\ 0 \notin Range(sunk) => InLine(told', Range(sunk))
      /\ ToldStep
  BY ToldNext
<1>2. TypeOK'
  <2>1. /\ w' \in States /\ buffered' \in Seq(Chunks) /\ writing' \in Seq(Chunks)
        /\ sunk' \in Seq(Chunks) /\ todo' \in Seq(Items) /\ n' \in 0..MaxWrites
        /\ took' \subseteq Chunks /\ told' \in Seq(Tellings)
    BY <1>0, <1>1
  <2> QED BY <2>1 DEF TypeOK, States, Items, Tellings
<1>3. Line'
  BY DEF Line
<1>4. Flow'
  BY DEF Flow, Steady
<1>5. 0 \notin Range(sunk) /\ 0 \notin Range(buffered) /\ n \in Nat
  BY <1>0 DEF Line
<1>7. ASSUME NEW c \in Chunks, Holds(todo', Lost, c) PROVE ~Said(told', c)
  <2>1. Holds(todo, Lost, c) /\ ~Said(told, c)
    BY <1>7 DEF Alike, Owed
  <2> QED BY <1>1, <2>1, ZeroIsChunk DEF ToldStep
<1>8. Owed'
  BY <1>7 DEF Owed, Alike
<1>9. Reported'
  <2>1. ASSUME NEW c \in Chunks, Said(told', c)
        PROVE  /\ c <= n /\ c \notin Range(buffered)
               /\ c \in Range(sunk) => Said(told, c)
    BY <1>1, <1>5, <2>1, ZeroIsChunk DEF Reported, ToldStep
  <2>2. ASSUME NEW c \in Chunks, SaidOk(told', c), c > 0 PROVE c \in took
    BY <1>1, <2>2, ZeroIsChunk DEF Reported, ToldStep
  <2>3. InLine(told', Range(sunk))
    BY <1>1, <1>5 DEF Reported
  <2>4. ASSUME NEW c \in Chunks, NEW d \in Chunks, Said(told', c), c \in Range(sunk), Holds(todo', Calls, d)
        PROVE  c < d
    BY <2>1, <2>4 DEF Reported, Alike
  <2>5. ASSUME NEW c \in Chunks, Said(told', c), c \in Range(sunk), NEW d \in Range(writing) PROVE c < d
    BY <2>1, <2>5 DEF Reported
  <2> QED BY <1>1, <2>1, <2>2, <2>3, <2>4, <2>5 DEF Reported
<1>10. Kept'
  <2> SUFFICES ASSUME ~w'.errored, NEW c \in Range(sunk), c \notin Range(writing)
               PROVE  c \in took /\ (SaidOk(told', c) \/ Holds(todo', Acks, c))
    BY DEF Kept
  <2>1. c \in took /\ (SaidOk(told, c) \/ Holds(todo, Acks, c))
    BY DEF Kept, Steady
  <2>2. c \in Chunks
    BY <1>0, <2>1
  <2> QED BY <1>1, <2>1, <2>2 DEF Alike, ToldStep
<1>11. Zero'
  <2>1. CASE Said(told, 0) \/ Holds(todo, Lost, 0)
    <3>1. ~w.endcb /\ (w.ending \/ (w.errored /\ w.destroyed))
      BY <2>1 DEF Zero
    <3>2. ~w'.endcb /\ (w'.ending \/ (w'.errored /\ w'.destroyed))
      BY <3>1 DEF Steady, Untold, EndTold
    <3> QED BY <3>2 DEF Zero
  <2>2. CASE ~(Said(told, 0) \/ Holds(todo, Lost, 0))
    BY <1>1, <2>2, ZeroIsChunk DEF Zero, Alike, ToldStep
  <2> QED BY <2>1, <2>2
<1> QED BY <1>2, <1>3, <1>4, <1>8, <1>9, <1>10, <1>11

\* An item about the end is a tick of finishMaybe or finish.
LEMMA EndKinds ==
  ASSUME NEW q
  PROVE  Has(q, Ends) <=> Has(q, {"finish"}) \/ Has(q, {"endtick"})
  BY DEF Has, Ends

\* The success of a chunk is an element of the answers.
LEMMA SaidOkInRange ==
  ASSUME NEW t \in Seq(Tellings), NEW c
  PROVE  SaidOk(t, c) <=> [id |-> c, ok |-> TRUE] \in Range(t)
<1>1. Range(t) = {t[i] : i \in 1..Len(t)}
  BY RangeOf
<1> QED BY <1>1 DEF SaidOk, Good

\* What the end needs of a step that leaves the chunks where they are.
EndsWell ==
  /\ w'.hasFinal = w.hasFinal
  /\ Has(todo', {"finish"}) => Has(todo, {"finish"}) \/ Whole
  /\ Has(todo', {"endtick"}) => Has(todo, {"endtick"}) \/ Idle
  /\ Has(todo', Ends) \/ w'.final # "no" \/ w'.finished => w'.ending
  /\ Has(todo', Ends) => w'.final # "called" /\ (w'.hasFinal => w'.final # "no")
  /\ w'.finished => w.finished \/ (Whole /\ Idle)
  /\ w.pendingcb + Slot' <= w'.pendingcb + Slot

\* A step that leaves the chunks where they are, the queue with the same
\* callbacks and the end in order keeps the invariant.
LEMMA Quiet ==
  ASSUME TypeOK, Inv, w' \in States, todo' \in Seq(Items),
         UNCHANGED <<buffered, writing, n, sunk, took>>,
         Fit(todo'), Alike(todo, todo'), Due(todo') = Due(todo),
         Steady, Untold \/ EndTold, EndsWell
  PROVE  TypeOK' /\ Inv'
<1>1. TypeOK' /\ ChunksInv'
  BY Still DEF Inv
<1>2. /\ told \in Seq(Tellings) /\ told' \in Seq(Tellings) /\ sunk \in Seq(Chunks)
      /\ Range(sunk) \subseteq Chunks /\ w \in States /\ todo \in Seq(Items) /\ buffered \in Seq(Chunks)
  <2>1. /\ told \in Seq(Tellings) /\ sunk \in Seq(Chunks) /\ w \in States
        /\ todo \in Seq(Items) /\ buffered \in Seq(Chunks)
    BY Types
  <2>2. told' \in Seq(Tellings)
    BY ToldNext DEF Inv, ChunksInv
  <2> QED BY <2>1, <2>2, RangeOf
<1>3. \A c \in Chunks : SaidOk(told, c) => SaidOk(told', c)
  BY ToldNext DEF Inv, ChunksInv, ToldStep
<1>4. Whole => Whole'
  BY <1>2, <1>3 DEF Whole, Alike
<1>5. Idle => Idle'
  BY DEF Idle, Alike
<1>6. Whole /\ Idle => \A i \in DOMAIN sunk : sunk[i] \in took /\ SaidOk(told, sunk[i])
  <2> SUFFICES ASSUME Whole, Idle, NEW i \in DOMAIN sunk
               PROVE  sunk[i] \in took /\ SaidOk(told, sunk[i])
    OBVIOUS
  <2>1. sunk[i] \in Range(sunk)
    BY <1>2 DEF Range
  <2>2. sunk[i] \in took /\ (SaidOk(told, sunk[i]) \/ Holds(todo, Acks, sunk[i]))
    BY <2>1 DEF Whole
  <2>3. ~Holds(todo, Calls, sunk[i])
    BY <1>2, <2>1 DEF Idle
  <2>4. ~Holds(todo, Acks, sunk[i])
    BY <2>3 DEF Holds, Acks, Calls
  <2> QED BY <2>2, <2>4
<1>7. FinishIsWhole'
  <2> SUFFICES ASSUME w'.finished
               PROVE  /\ buffered = <<>> /\ writing = <<>>
                      /\ \A i \in DOMAIN sunk : sunk[i] \in took /\ [id |-> sunk[i], ok |-> TRUE] \in Range(told')
    BY DEF FinishIsWhole
  <2>1. /\ buffered = <<>> /\ writing = <<>>
        /\ \A i \in DOMAIN sunk : sunk[i] \in took /\ SaidOk(told, sunk[i])
    <3>1. CASE w.finished
      BY <1>2, <3>1, SaidOkInRange DEF Inv, Ending, FinishIsWhole
    <3>2. CASE Whole /\ Idle
      BY <1>6, <3>2 DEF Whole
    <3> QED BY <3>1, <3>2 DEF EndsWell
  <2>2. \A i \in DOMAIN sunk : SaidOk(told', sunk[i])
    BY <1>2, <1>3, <2>1
  <2> QED BY <1>2, <2>1, <2>2, SaidOkInRange
<1>8. Ending'
  BY <1>4, <1>5, <1>7 DEF Ending, EndsWell, Inv
<1>9. Count'
  <2>1. /\ Due(todo) \in Nat /\ Busy \in Nat /\ Slot \in Nat /\ Slot' \in Nat /\ Len(buffered) \in Nat
        /\ w.pendingcb \in Nat /\ w'.pendingcb \in Nat
    BY <1>2, DueIsNat DEF Busy, Slot, States
  <2>2. Due(todo) + Busy + Len(buffered) + Slot <= w.pendingcb
    BY DEF Inv, Count
  <2>3. Due(todo') = Due(todo) /\ Busy' = Busy /\ Len(buffered') = Len(buffered)
    BY DEF Busy
  <2>4. w.pendingcb + Slot' <= w'.pendingcb + Slot
    BY DEF EndsWell
  <2>5. Due(todo') + Busy' + Len(buffered') + Slot' <= w'.pendingcb
    BY SMTT(60), <2>1, <2>2, <2>3, <2>4
  <2> QED BY <2>5 DEF Count
<1> QED BY <1>1, <1>8, <1>9 DEF Inv

------------------------------------------------------------------------------
(* Changes of the queue.                                                   *)

\* r is fit, holds the callbacks that q holds, and as many.
SameCalls(q, r) ==
  /\ r \in Seq(Items) /\ Fit(r) /\ Alike(q, r) /\ Due(r) = Due(q)

\* No kind of item about the end is new.
SameEnds(q, r) ==
  /\ Has(r, {"finish"}) <=> Has(q, {"finish"})
  /\ Has(r, {"endtick"}) <=> Has(q, {"endtick"})
  /\ Has(r, Ends) <=> Has(q, Ends)

\* The first item is gone, and was not about a callback.
LEMMA DropHead ==
  ASSUME todo \in Seq(Items), Fit(todo), NEW op, Take(op), op \notin Calls, op \notin Lost
  PROVE  /\ SameCalls(todo, Tail(todo))
         /\ \A S : Has(todo, S) <=> op \in S \/ Has(Tail(todo), S)
         /\ op \in Ends => ~Has(Tail(todo), Ends) /\ \A c \in Chunks : ~Holds(todo, Calls, c)
<1> DEFINE h == Head(todo)
           T == Tail(todo)
<1>1. h \in Items /\ T \in Seq(Items) /\ todo = <<h>> \o T /\ h.op = op /\ <<h>> \in Seq(Items)
  BY HeadAndTail DEF Take
<1> HIDE DEF h, T
<1>2. Shaped(h) /\ Fit(T) /\ Fits(<<h>>, T)
  BY <1>1, FitHead
<1>3. \A S, c : Holds(todo, S, c) <=> (op \in S /\ c \in Range(h.ids)) \/ Holds(T, S, c)
  <2> TAKE S, c
  <2>1. Holds(todo, S, c) <=> Holds(<<h>>, S, c) \/ Holds(T, S, c)
    BY <1>1, HoldsInJoin
  <2> QED BY <1>1, <2>1, OneItem
<1>4. \A S : Has(todo, S) <=> op \in S \/ Has(T, S)
  <2> TAKE S
  <2>1. Has(todo, S) <=> Has(<<h>>, S) \/ Has(T, S)
    BY <1>1, HasInJoin
  <2> QED BY <1>1, <2>1, OneItem
<1>5. op \notin Acks
  BY DEF Acks, Calls
<1>6. Alike(todo, T)
  BY <1>3, <1>5 DEF Alike
<1>7. Due(T) = Due(todo)
  <2>1. Due(todo) = Due(<<h>>) + Due(T) /\ Due(<<h>>) = 0 /\ Due(T) \in Nat
    BY <1>1, DueJoin, DueOne, DueIsNat
  <2> QED BY <2>1
<1>8. op \in Ends => ~Has(T, Ends) /\ \A c \in Chunks : ~Holds(todo, Calls, c)
  <2>1. Has(<<h>>, Ends) <=> op \in Ends
    BY <1>1, OneItem
  <2> QED BY <1>2, <1>3, <2>1 DEF Fits
<1>9. SameCalls(todo, T)
  BY <1>1, <1>2, <1>6, <1>7 DEF SameCalls
<1> QED BY <1>4, <1>8, <1>9 DEF T

\* A queue that holds the same as one that holds the same.
LEMMA SameTwice ==
  ASSUME NEW p, NEW q, NEW r, SameCalls(p, q), SameCalls(q, r)
  PROVE  SameCalls(p, r)
  BY DEF SameCalls, Alike

\* Plain items at the end of the queue.
LEMMA AddPlain ==
  ASSUME NEW q \in Seq(Items), Fit(q), NEW b \in Seq(Items), Plain(b)
  PROVE  SameCalls(q, q \o b) /\ SameEnds(q, q \o b)
<1> DEFINE r == q \o b
<1>1. /\ Fit(b) /\ Due(b) = 0 /\ ~Has(b, Ends) /\ Fits(q, b)
      /\ \A S \in SUBSET (Calls \union Lost) : \A c : ~Holds(b, S, c)
  BY PlainQueue
<1>2. r \in Seq(Items) /\ Fit(r)
  BY <1>1, FitJoin
<1>3. Due(r) = Due(q)
  <2>1. Due(r) = Due(q) + Due(b) /\ Due(q) \in Nat
    BY DueJoin, DueIsNat
  <2> QED BY <1>1, <2>1
<1>4. Alike(q, r)
  <2>1. Calls \in SUBSET (Calls \union Lost) /\ Acks \in SUBSET (Calls \union Lost) /\ Lost \in SUBSET (Calls \union Lost)
    BY DEF Acks, Calls
  <2>2. \A c : ~Holds(b, Calls, c) /\ ~Holds(b, Acks, c) /\ ~Holds(b, Lost, c)
    BY <1>1, <2>1
  <2>3. \A S, c : Holds(r, S, c) <=> Holds(q, S, c) \/ Holds(b, S, c)
    BY HoldsInJoin
  <2> QED BY <2>2, <2>3 DEF Alike
<1>5. \A S : Has(r, S) <=> Has(q, S) \/ Has(b, S)
  BY HasInJoin
<1>6. ~Has(b, {"finish"}) /\ ~Has(b, {"endtick"})
  BY <1>1, EndKinds
<1>7. SameEnds(q, r)
  BY <1>1, <1>5, <1>6 DEF SameEnds
<1>8. SameCalls(q, r)
  BY <1>2, <1>3, <1>4 DEF SameCalls
<1> QED BY <1>7, <1>8

\* The item of the end is an item.
LEMMA EndItem ==
  ASSUME NEW e \in Ends
  PROVE  /\ Do(e) \in Items /\ Do(e).op = e /\ Shaped(Do(e)) /\ Due(<<Do(e)>>) = 0 /\ <<Do(e)>> \in Seq(Items)
         /\ e \notin Calls /\ e \notin Acks /\ e \notin Lost
<1>1. e \notin Calls /\ e \notin Acks /\ e \notin Lost /\ e \in Ops
  BY DEF Ends, Calls, Acks, Lost, Ops
<1>2. Do(e) \in Items /\ Do(e).op = e /\ Do(e).ids = <<>>
  BY <1>1 DEF Do, Item, Items
<1>3. Shaped(Do(e))
  BY <1>1, <1>2 DEF Shaped, Rising
<1> QED BY <1>1, <1>2, <1>3, DueOne

\* An item about the end behind a queue that has none.
LEMMA AddEnd ==
  ASSUME NEW q \in Seq(Items), Fit(q), NEW e \in Ends, ~Has(q, Ends)
  PROVE  /\ SameCalls(q, Append(q, Do(e)))
         /\ \A S : Has(Append(q, Do(e)), S) <=> Has(q, S) \/ e \in S
<1> DEFINE b == <<Do(e)>>
           r == q \o b
<1>1. /\ Do(e) \in Items /\ Do(e).op = e /\ Shaped(Do(e)) /\ Due(b) = 0 /\ b \in Seq(Items)
      /\ e \notin Calls /\ e \notin Acks /\ e \notin Lost
  BY EndItem
<1>2. Append(q, Do(e)) = r
  BY <1>1
<1>3. \A S, c : /\ Holds(b, S, c) <=> e \in S /\ c \in Range(Do(e).ids)
                /\ Has(b, S) <=> e \in S
  BY <1>1, OneItem
<1>4. Fit(b)
  BY <1>1, OneItem
<1> HIDE DEF b
<1>5. Fits(q, b)
  BY <1>1, <1>3 DEF Fits
<1>6. r \in Seq(Items) /\ Fit(r)
  BY <1>1, <1>4, <1>5, FitJoin
<1>7. Due(r) = Due(q)
  <2>1. Due(r) = Due(q) + Due(b) /\ Due(q) \in Nat
    BY <1>1, DueJoin, DueIsNat
  <2> QED BY <1>1, <2>1
<1>8. \A S, c : Holds(r, S, c) <=> Holds(q, S, c) \/ Holds(b, S, c)
  BY <1>1, HoldsInJoin
<1>9. Alike(q, r)
  BY <1>1, <1>3, <1>8 DEF Alike
<1>10. \A S : Has(r, S) <=> Has(q, S) \/ e \in S
  <2>1. \A S : Has(r, S) <=> Has(q, S) \/ Has(b, S)
    BY <1>1, HasInJoin
  <2> QED BY <1>3, <2>1
<1> HIDE DEF r
<1>11. SameCalls(q, r)
  BY <1>6, <1>7, <1>9 DEF SameCalls
<1> QED BY <1>2, <1>10, <1>11

\* An item about the end before a queue that has none and no callbacks.
LEMMA PutEnd ==
  ASSUME NEW q \in Seq(Items), Fit(q), NEW e \in Ends, ~Has(q, Ends),
         \A c \in Chunks : ~Holds(q, Calls, c)
  PROVE  /\ SameCalls(q, <<Do(e)>> \o q)
         /\ \A S : Has(<<Do(e)>> \o q, S) <=> Has(q, S) \/ e \in S
<1> DEFINE b == <<Do(e)>>
           r == b \o q
<1>1. /\ Do(e) \in Items /\ Do(e).op = e /\ Shaped(Do(e)) /\ Due(b) = 0 /\ b \in Seq(Items)
      /\ e \notin Calls /\ e \notin Acks /\ e \notin Lost
  BY EndItem
<1>3. \A S, c : /\ Holds(b, S, c) <=> e \in S /\ c \in Range(Do(e).ids)
                /\ Has(b, S) <=> e \in S
  BY <1>1, OneItem
<1>4. Fit(b)
  BY <1>1, OneItem
<1> HIDE DEF b
<1>5. Fits(b, q)
  BY <1>1, <1>3 DEF Fits
<1>6. r \in Seq(Items) /\ Fit(r)
  BY <1>1, <1>4, <1>5, FitJoin
<1>7. Due(r) = Due(q)
  <2>1. Due(r) = Due(b) + Due(q) /\ Due(q) \in Nat
    BY <1>1, DueJoin, DueIsNat
  <2> QED BY <1>1, <2>1
<1>8. \A S, c : Holds(r, S, c) <=> Holds(b, S, c) \/ Holds(q, S, c)
  BY <1>1, HoldsInJoin
<1>9. Alike(q, r)
  BY <1>1, <1>3, <1>8 DEF Alike
<1>10. \A S : Has(r, S) <=> Has(q, S) \/ e \in S
  <2>1. \A S : Has(r, S) <=> Has(b, S) \/ Has(q, S)
    BY <1>1, HasInJoin
  <2> QED BY <1>3, <2>1
<1> HIDE DEF r
<1>11. SameCalls(q, r)
  BY <1>6, <1>7, <1>9 DEF SameCalls
<1> QED BY <1>10, <1>11 DEF r, b

\* What destroy() leaves as it was.
Softened(v, u) ==
  /\ u \in States
  /\ u.corked = v.corked /\ u.pendingcb = v.pendingcb /\ u.ending = v.ending
  /\ u.final = v.final /\ u.endcb = v.endcb /\ u.finished = v.finished
  /\ u.hasFinal = v.hasFinal
  /\ v.errored => u.errored
  /\ v.destroyed => u.destroyed

\* destroy() adds plain items at most.
LEMMA DestroyAdds ==
  ASSUME NEW v \in States, NEW q \in Seq(Items), Fit(q), NEW failed \in BOOLEAN, NEW spill \in BOOLEAN,
         DestroyWith(v, q, failed, spill)
  PROVE  Softened(v, w') /\ SameCalls(q, todo') /\ SameEnds(q, todo')
<1>1. CASE v.destroyed
  <2>1. w' = v /\ todo' = q
    BY <1>1 DEF DestroyWith
  <2>2. Softened(v, w')
    BY <2>1 DEF Softened
  <2>3. SameCalls(q, q) /\ SameEnds(q, q)
    BY DEF SameCalls, SameEnds, Alike
  <2> QED BY <2>1, <2>2, <2>3
<1>2. CASE ~v.destroyed
  <2>1. PICK soon \in BOOLEAN :
          /\ w' = [v EXCEPT !.destroyed = TRUE, !.errored = @ \/ failed, !.closing = ~soon]
          /\ todo' = q \o (IF spill THEN <<Do("spill")>> ELSE <<>>)
                       \o (IF soon THEN <<Do("close")>> ELSE <<>>)
    BY <1>2 DEF DestroyWith
  <2>2. Softened(v, w')
    BY ZenonT(60), <2>1 DEF Softened, States
  <2> DEFINE b1 == IF spill THEN <<Do("spill")>> ELSE <<>>
             b2 == IF soon THEN <<Do("close")>> ELSE <<>>
  <2>3. Do("spill") \in Items /\ Do("close") \in Items
    BY DEF Items, Do, Item, Ops
  <2>4. b1 \in Seq(Items) /\ b2 \in Seq(Items)
    BY <2>3
  <2>5. Plain(b1) /\ Plain(b2)
    BY DEF Plain, Do, Item
  <2>6. todo' = (q \o b1) \o b2
    BY <2>1, <2>4
  <2> HIDE DEF b1, b2
  <2>7. SameCalls(q, q \o b1) /\ SameEnds(q, q \o b1)
    BY <2>4, <2>5, AddPlain
  <2>8. q \o b1 \in Seq(Items) /\ Fit(q \o b1)
    BY <2>7 DEF SameCalls
  <2>9. SameCalls(q \o b1, todo') /\ SameEnds(q \o b1, todo')
    BY <2>4, <2>5, <2>6, <2>8, AddPlain
  <2> QED BY <2>2, <2>7, <2>9, SameTwice DEF SameEnds
<1> QED BY <1>1, <1>2

------------------------------------------------------------------------------
(* The steps that leave the chunks where they are.                         *)

\* No chunk moves.
Stays == UNCHANGED <<buffered, writing, n, sunk, took>>

\* The same, with the queue's callbacks the same too.
LEMMA QuietQueue ==
  ASSUME TypeOK, Inv, w' \in States, Stays, SameCalls(todo, todo'),
         Steady, Untold \/ EndTold, EndsWell
  PROVE  TypeOK' /\ Inv'
  BY Quiet DEF Stays, SameCalls

\* What the parts of the invariant say of the queue.
LEMMA Basics ==
  ASSUME TypeOK, Inv
  PROVE  /\ w \in States /\ todo \in Seq(Items) /\ Fit(todo)
         /\ Due(todo) \in Nat /\ Busy \in Nat /\ Len(buffered) \in Nat /\ Slot \in Nat
         /\ w.pendingcb \in Nat /\ Due(todo) + Busy + Len(buffered) + Slot <= w.pendingcb
         /\ SameCalls(todo, todo) /\ SameEnds(todo, todo)
<1>1. w \in States /\ todo \in Seq(Items) /\ Fit(todo) /\ buffered \in Seq(Chunks)
  BY Types DEF Inv, ChunksInv, Owed
<1>2. w.pendingcb \in Nat
  BY <1>1 DEF States
<1> QED BY <1>1, <1>2, DueIsNat DEF Inv, Count, Busy, Slot, SameCalls, SameEnds, Alike

\* A step that only touches flags the invariant does not speak of.
LEMMA FlagStep ==
  ASSUME TypeOK, Inv, Stays, told' = told, SameCalls(todo, todo'), SameEnds(todo, todo'),
         Softened(w, w')
  PROVE  TypeOK' /\ Inv'
<1>1. w \in States /\ w' \in States
  BY Basics DEF Softened
<1>2. Steady
  BY DEF Steady, Softened
<1>3. Untold
  BY DEF Untold, Softened
<1>4. w.pendingcb + Slot' <= w'.pendingcb + Slot
  <2>1. Slot' = Slot /\ w'.pendingcb = w.pendingcb
    BY DEF Softened, Slot, SameEnds
  <2> QED BY <2>1, Basics
<1>5. EndsWell
  BY <1>4 DEF EndsWell, Softened, SameEnds, Inv, Ending
<1> QED BY <1>1, <1>2, <1>3, <1>5, QuietQueue

\* The first item is gone, and was not about a callback or the end.
LEMMA DropPlain ==
  ASSUME TypeOK, Inv, NEW op, Take(op), op \notin Calls, op \notin Lost, op \notin Ends
  PROVE  SameCalls(todo, Tail(todo)) /\ SameEnds(todo, Tail(todo))
<1>1. /\ SameCalls(todo, Tail(todo))
      /\ \A S : Has(todo, S) <=> op \in S \/ Has(Tail(todo), S)
  BY Basics, DropHead
<1>2. op \notin {"finish"} /\ op \notin {"endtick"}
  BY DEF Ends
<1> QED BY <1>1, <1>2 DEF SameEnds

\* cork() buffers what comes, and moves nothing.
LEMMA CorkStep ==
  ASSUME TypeOK, Inv, Cork
  PROVE  TypeOK' /\ Inv'
<1>1. /\ w' \in States /\ w \in States /\ w.corked = 0 /\ w'.corked = 1
      /\ w'.pendingcb = w.pendingcb /\ w'.ending = w.ending
      /\ w'.final = w.final /\ w'.endcb = w.endcb /\ w'.finished = w.finished
      /\ w'.hasFinal = w.hasFinal /\ w'.errored = w.errored /\ w'.destroyed = w.destroyed
      /\ told' = told /\ todo' = todo /\ Stays
  BY SMTT(60), Basics DEF Cork, States, Stays
<1>2. Steady
  BY <1>1 DEF Steady
<1>3. Untold
  BY <1>1 DEF Untold
<1>4. w.pendingcb + Slot' <= w'.pendingcb + Slot
  BY <1>1, Basics DEF Slot
<1>5. EndsWell
  BY <1>1, <1>4 DEF EndsWell, Inv, Ending
<1>6. SameCalls(todo, todo')
  BY <1>1, Basics
<1> QED BY <1>1, <1>2, <1>3, <1>5, <1>6, QuietQueue

\* 'close' is emitted.
LEMMA CloseStep ==
  ASSUME TypeOK, Inv, Close
  PROVE  TypeOK' /\ Inv'
<1>1. Softened(w, w') /\ told' = told /\ todo' = Tail(todo) /\ Stays /\ Take("close")
  BY Basics DEF Close, States, Stays, Softened
<1>2. SameCalls(todo, todo') /\ SameEnds(todo, todo')
  BY <1>1, DropPlain DEF Calls, Lost, Ends
<1> QED BY <1>1, <1>2, FlagStep

\* An asynchronous _destroy answers, and 'close' is queued.
LEMMA DestroyDoneStep ==
  ASSUME TypeOK, Inv, DestroyDone
  PROVE  TypeOK' /\ Inv'
<1>1. Softened(w, w') /\ told' = told /\ todo' = <<Do("close")>> /\ todo = <<>> /\ Stays
  BY Basics DEF DestroyDone, States, Stays, Softened
<1>2. Do("close") \in Items
  BY DEF Items, Do, Item, Ops
<1>3. Plain(<<Do("close")>>) /\ <<Do("close")>> \in Seq(Items) /\ todo' = todo \o <<Do("close")>>
  BY <1>1, <1>2 DEF Plain, Do, Item
<1>4. SameCalls(todo, todo') /\ SameEnds(todo, todo')
  BY <1>3, Basics, AddPlain
<1> QED BY <1>1, <1>4, FlagStep

\* The program calls destroy().
LEMMA CallDestroyStep ==
  ASSUME TypeOK, Inv, CallDestroy
  PROVE  TypeOK' /\ Inv'
<1>1. PICK failed \in BOOLEAN : Destroy(w, todo, failed)
  BY DEF CallDestroy
<1>2. told' = told /\ Stays
  BY DEF CallDestroy, Stays
<1>3. (buffered # <<>> \/ w.endcb) \in BOOLEAN
  BY Basics DEF States
<1>4. Softened(w, w') /\ SameCalls(todo, todo') /\ SameEnds(todo, todo')
  BY <1>1, <1>3, Basics, DestroyAdds DEF Destroy
<1> QED BY <1>2, <1>4, FlagStep

\* errorOrDestroy of an autoDestroy stream.
LEMMA FailStep ==
  ASSUME TypeOK, Inv, Fail
  PROVE  TypeOK' /\ Inv'
<1>1. Destroy(w, Tail(todo), TRUE) /\ told' = told /\ Stays /\ Take("fail")
  BY DEF Fail, Stays
<1>2. SameCalls(todo, Tail(todo)) /\ SameEnds(todo, Tail(todo))
  BY <1>1, DropPlain DEF Calls, Lost, Ends
<1>3. (buffered # <<>> \/ w.endcb) \in BOOLEAN
  BY Basics DEF States
<1>4. Softened(w, w') /\ SameCalls(Tail(todo), todo') /\ SameEnds(Tail(todo), todo')
  BY <1>1, <1>2, <1>3, Basics, DestroyAdds DEF Destroy, SameCalls
<1>5. SameCalls(todo, todo') /\ SameEnds(todo, todo')
  BY <1>2, <1>4, SameTwice DEF SameEnds
<1> QED BY <1>1, <1>4, <1>5, FlagStep

\* An item about a callback that takes the place of the first one, with plain
\* items after it.
LEMMA ChangeHead ==
  ASSUME NEW q \in Seq(Items), Fit(q), q # <<>>, NEW x \in Items, x.ids = Head(q).ids,
         Head(q).op \in Calls, x.op \in Calls, x.op \in Acks <=> Head(q).op \in Acks,
         NEW b \in Seq(Items), Plain(b)
  PROVE  LET r == <<x>> \o (b \o Tail(q))
         IN  SameCalls(q, r) /\ SameEnds(q, r)
<1> DEFINE h == Head(q)
           T == Tail(q)
           m == b \o T
           r == <<x>> \o m
<1>1. h \in Items /\ T \in Seq(Items) /\ q = <<h>> \o T /\ <<h>> \in Seq(Items) /\ <<x>> \in Seq(Items)
  BY HeadAndTail
<1>2. x.ids = h.ids /\ h.op \in Calls /\ (x.op \in Acks <=> h.op \in Acks)
  OBVIOUS
<1> HIDE DEF h, T
<1>3. Shaped(h) /\ Fit(T) /\ Fits(<<h>>, T)
  BY <1>1, FitHead
<1>4. /\ h.op \notin Lost /\ x.op \notin Lost /\ h.op \notin Ends /\ x.op \notin Ends
      /\ x.op \notin {"finish"} /\ x.op \notin {"endtick"} /\ h.op \notin {"finish"} /\ h.op \notin {"endtick"}
  BY <1>2 DEF Calls, Lost, Ends
<1>5. Shaped(x)
  BY <1>2, <1>3, <1>4 DEF Shaped
<1>6. /\ Fit(b) /\ Due(b) = 0 /\ ~Has(b, Ends) /\ Fits(b, T)
      /\ \A S \in SUBSET (Calls \union Lost) : \A c : ~Holds(b, S, c)
  BY <1>1, PlainQueue
<1>7. m \in Seq(Items) /\ Fit(m)
  BY <1>1, <1>3, <1>6, FitJoin
<1>8. \A S \in SUBSET (Calls \union Lost) : \A c : Holds(m, S, c) <=> Holds(T, S, c)
  <2>1. \A S, c : Holds(m, S, c) <=> Holds(b, S, c) \/ Holds(T, S, c)
    BY <1>1, HoldsInJoin
  <2> QED BY <1>6, <2>1
<1>9. \A S : Has(m, S) <=> Has(b, S) \/ Has(T, S)
  BY <1>1, HasInJoin
<1>10. ~Has(b, {"finish"}) /\ ~Has(b, {"endtick"})
  BY <1>6, EndKinds
<1>11. Due(m) = Due(T) /\ Due(T) \in Nat
  <2>1. Due(m) = Due(b) + Due(T) /\ Due(T) \in Nat
    BY <1>1, DueJoin, DueIsNat
  <2> QED BY <1>6, <2>1
<1> HIDE DEF m
<1>12. Calls \in SUBSET (Calls \union Lost) /\ Acks \in SUBSET (Calls \union Lost) /\ Lost \in SUBSET (Calls \union Lost)
  BY DEF Acks, Calls
<1>13. \A c : /\ Holds(m, Calls, c) <=> Holds(T, Calls, c)
              /\ Holds(m, Acks, c) <=> Holds(T, Acks, c)
              /\ Holds(m, Lost, c) <=> Holds(T, Lost, c)
  BY <1>8, <1>12
<1>14. \A S, c : /\ Holds(<<x>>, S, c) <=> x.op \in S /\ c \in Range(x.ids)
                 /\ Has(<<x>>, S) <=> x.op \in S
                 /\ Holds(<<h>>, S, c) <=> h.op \in S /\ c \in Range(h.ids)
                 /\ Has(<<h>>, S) <=> h.op \in S
  BY <1>1, OneItem
<1>15. Fits(<<x>>, m)
  BY <1>2, <1>3, <1>4, <1>13, <1>14 DEF Fits
<1>16. Fit(<<x>>)
  BY <1>5, OneItem
<1>17. r \in Seq(Items) /\ Fit(r)
  <2>1. <<x>> \in Seq(Items) /\ m \in Seq(Items) /\ Fit(<<x>>) /\ Fit(m) /\ Fits(<<x>>, m)
    BY <1>1, <1>7, <1>15, <1>16
  <2>2. Fit(<<x>> \o m)
    BY <2>1, FitJoin
  <2> QED BY <2>1, <2>2
<1>18. \A S, c : Holds(r, S, c) <=> Holds(<<x>>, S, c) \/ Holds(m, S, c)
  BY <1>1, <1>7, HoldsInJoin
<1>19. \A S, c : Holds(q, S, c) <=> Holds(<<h>>, S, c) \/ Holds(T, S, c)
  BY <1>1, HoldsInJoin
<1>20. Alike(q, r)
  BY <1>2, <1>4, <1>13, <1>14, <1>18, <1>19 DEF Alike
<1>21. Due(r) = Due(q)
  <2>1. Due(r) = Due(<<x>>) + Due(m) /\ Due(q) = Due(<<h>>) + Due(T)
    BY <1>1, <1>7, DueJoin
  <2>2. Due(<<x>>) = 1 /\ Due(<<h>>) = 1
    BY <1>1, <1>2, DueOne
  <2> QED BY <1>11, <2>1, <2>2
<1>22. \A S : /\ Has(r, S) <=> Has(<<x>>, S) \/ Has(m, S)
              /\ Has(q, S) <=> Has(<<h>>, S) \/ Has(T, S)
  BY <1>1, <1>7, HasInJoin
<1>23. SameEnds(q, r)
  BY <1>4, <1>6, <1>9, <1>10, <1>14, <1>22 DEF SameEnds
<1>24. SameCalls(q, r)
  BY <1>17, <1>20, <1>21 DEF SameCalls
<1> QED BY <1>23, <1>24 DEF r, m, T

\* 'drain', then the callbacks that were due are called one by one.
LEMMA AfterWriteStep ==
  ASSUME TypeOK, Inv, AfterWrite
  PROVE  TypeOK' /\ Inv'
<1> DEFINE x == Item("ok", Head(todo).ids)
           b == <<Do("settle")>>
<1>1. /\ Softened(w, w') /\ told' = told /\ Stays /\ todo # <<>> /\ Head(todo).op = "after"
      /\ todo' = <<x, Do("settle")>> \o Tail(todo)
  BY Basics DEF AfterWrite, States, Stays, Softened, Take
<1>2. Head(todo) \in Items /\ Tail(todo) \in Seq(Items)
  BY <1>1, Basics, HeadAndTail
<1>3. Do("settle") \in Items /\ x \in Items /\ x.op = "ok" /\ x.ids = Head(todo).ids
  BY <1>2 DEF Items, Do, Item, Ops
<1>4. b \in Seq(Items) /\ Plain(b)
  BY <1>3 DEF Plain, Do, Item
<1> HIDE DEF x
<1>5. todo' = <<x>> \o (b \o Tail(todo))
  BY <1>1, <1>2, <1>3
<1> HIDE DEF b
<1>6. "ok" \in Calls /\ "after" \in Calls /\ "ok" \in Acks /\ "after" \in Acks
  BY DEF Calls, Acks
<1>7. SameCalls(todo, todo') /\ SameEnds(todo, todo')
  BY <1>1, <1>3, <1>4, <1>5, <1>6, Basics, ChangeHead
<1> QED BY <1>1, <1>7, FlagStep

\* onwriteError: the callback is called with the error, then the stream fails.
LEMMA WriteErrorStep ==
  ASSUME TypeOK, Inv, WriteError
  PROVE  TypeOK' /\ Inv'
<1> DEFINE x == Item("failed", Head(todo).ids)
           b == <<Do("spill"), Do("fail")>>
<1>1. /\ Softened(w, w') /\ told' = told /\ Stays /\ todo # <<>> /\ Head(todo).op = "werror"
      /\ todo' = <<x, Do("spill"), Do("fail")>> \o Tail(todo)
  BY Basics DEF WriteError, Stays, Softened, Take
<1>2. Head(todo) \in Items /\ Tail(todo) \in Seq(Items)
  BY <1>1, Basics, HeadAndTail
<1>3. Do("spill") \in Items /\ Do("fail") \in Items /\ x \in Items /\ x.op = "failed" /\ x.ids = Head(todo).ids
  BY <1>2 DEF Items, Do, Item, Ops
<1>4. b \in Seq(Items) /\ Plain(b)
  BY <1>3 DEF Plain, Do, Item
<1> HIDE DEF x
<1>5. todo' = <<x>> \o (b \o Tail(todo))
  BY <1>1, <1>2, <1>3
<1> HIDE DEF b
<1>6. "failed" \in Calls /\ "werror" \in Calls /\ "failed" \notin Acks /\ "werror" \notin Acks
  BY DEF Calls, Acks
<1>7. SameCalls(todo, todo') /\ SameEnds(todo, todo')
  BY <1>1, <1>3, <1>4, <1>5, <1>6, Basics, ChangeHead
<1> QED BY <1>1, <1>7, FlagStep

------------------------------------------------------------------------------
(* The end of the stream.                                                  *)

\* The tick looks again whether there is nothing left to do.
LEMMA EndTickStep ==
  ASSUME TypeOK, Inv, EndTick
  PROVE  TypeOK' /\ Inv'
<1> DEFINE T == Tail(todo)
<1>1. Take("endtick") /\ Stays /\ told' = told
  BY DEF EndTick, Stays
<1>2. "endtick" \in Ends /\ "finish" \in Ends /\ "endtick" \notin Calls /\ "endtick" \notin Lost
  BY DEF Ends, Calls, Lost
<1>3. /\ SameCalls(todo, T)
      /\ \A S : Has(todo, S) <=> "endtick" \in S \/ Has(T, S)
      /\ ~Has(T, Ends) /\ \A c \in Chunks : ~Holds(todo, Calls, c)
  BY <1>1, <1>2, Basics, DropHead
<1>4. Has(todo, Ends) /\ Has(todo, {"endtick"}) /\ ~Has(T, {"finish"}) /\ ~Has(T, {"endtick"})
  BY <1>2, <1>3, EndKinds
<1>5. Idle /\ w.ending /\ w.final # "called" /\ (w.hasFinal => w.final # "no") /\ Slot = 1
  BY <1>4 DEF Inv, Ending, Slot
<1>6. T \in Seq(Items) /\ Fit(T) /\ \A c \in Chunks : ~Holds(T, Calls, c)
  BY <1>3 DEF SameCalls, Alike
<1> HIDE DEF T
<1>7. CASE NeedFinish(w, Length)
  <2>1. todo' = <<Do("finish")>> \o T /\ w' = w
    BY <1>7 DEF EndTick, T
  <2>2. /\ SameCalls(T, todo')
        /\ \A S : Has(todo', S) <=> Has(T, S) \/ "finish" \in S
    BY <1>2, <1>3, <1>6, <2>1, PutEnd
  <2>3. SameCalls(todo, todo')
    BY <1>3, <2>2, SameTwice
  <2>4. Whole
    <3>1. ~w.errored
      BY <1>7, Basics DEF NeedFinish
    <3>2. ASSUME NEW c \in Range(sunk) PROVE c \in took /\ (SaidOk(told, c) \/ Holds(todo, Acks, c))
      <4>1. writing = <<>> /\ Range(writing) = {}
        BY <1>5, RangeOne DEF Idle
      <4> QED BY <3>1, <4>1 DEF Inv, ChunksInv, Kept
    <3> QED BY <1>5, <3>2 DEF Whole, Idle
  <2>5. ~Has(todo', {"endtick"})
    BY <1>4, <2>2
  <2>6. Slot' = 1
    BY <1>2, <2>2 DEF Slot
  <2>7. w.pendingcb + Slot' <= w'.pendingcb + Slot
    BY <1>5, <2>1, <2>6, Basics
  <2>8. EndsWell
    BY <1>5, <2>1, <2>4, <2>5, <2>7 DEF EndsWell, Inv, Ending
  <2>9. Steady /\ Untold /\ w' \in States
    BY <1>1, <2>1, Basics DEF Steady, Untold
  <2> QED BY <1>1, <2>3, <2>8, <2>9, QuietQueue
<1>8. CASE ~NeedFinish(w, Length)
  <2>1. todo' = T /\ w' = [w EXCEPT !.pendingcb = @ - 1]
    BY <1>8 DEF EndTick, T
  <2>2. w.pendingcb >= 1
    BY <1>5, Basics
  <2>3. /\ w' \in States /\ w \in States /\ w'.corked = w.corked
        /\ w'.pendingcb = w.pendingcb - 1 /\ w'.ending = w.ending
        /\ w'.final = w.final /\ w'.endcb = w.endcb /\ w'.finished = w.finished
        /\ w'.hasFinal = w.hasFinal /\ w'.errored = w.errored /\ w'.destroyed = w.destroyed
    <3>1. w \in States /\ w.pendingcb - 1 \in Nat
      BY <2>2, Basics
    <3> QED BY <2>1, <3>1 DEF States
  <2>4. Slot' = 0
    BY <1>3, <1>5, <2>1, <2>3 DEF Slot
  <2>5. w.pendingcb + Slot' <= w'.pendingcb + Slot
    BY <1>5, <2>3, <2>4, Basics
  <2>6. EndsWell
    BY <1>3, <1>4, <1>5, <2>1, <2>3, <2>5 DEF EndsWell
  <2>7. Steady
    BY <2>3 DEF Steady
  <2>8. Untold
    BY <1>1, <2>3 DEF Untold
  <2>9. SameCalls(todo, todo')
    BY <1>3, <2>1
  <2> QED BY <1>1, <2>3, <2>6, <2>7, <2>8, <2>9, QuietQueue
<1> QED BY <1>7, <1>8

\* The answer to end() in a step that also destroys the stream.
LEMMA ToldTheEnd ==
  ASSUME NEW v, NEW ok \in BOOLEAN, v.ending, w.endcb \in BOOLEAN, w'.endcb = FALSE, w'.ending = v.ending,
         told' = IF w.endcb THEN Append(told, [id |-> 0, ok |-> ok]) ELSE told
  PROVE  Untold \/ EndTold
  BY DEF Untold, EndTold

\* 'finish' and the answer to end().
LEMMA FinishStep ==
  ASSUME TypeOK, Inv, Finish
  PROVE  TypeOK' /\ Inv'
<1> DEFINE T == Tail(todo)
           v == [w EXCEPT !.pendingcb = @ - 1, !.finished = TRUE, !.endcb = FALSE]
<1>1. /\ Take("finish") /\ Stays /\ Destroy(v, T, FALSE)
      /\ told' = IF w.endcb THEN Append(told, [id |-> 0, ok |-> TRUE]) ELSE told
  BY DEF Finish, Stays
<1>2. "finish" \in Ends /\ "finish" \notin Calls /\ "finish" \notin Lost
  BY DEF Ends, Calls, Lost
<1>3. /\ SameCalls(todo, T)
      /\ \A S : Has(todo, S) <=> "finish" \in S \/ Has(T, S)
      /\ ~Has(T, Ends) /\ \A c \in Chunks : ~Holds(todo, Calls, c)
  BY <1>1, <1>2, Basics, DropHead
<1>4. Has(todo, Ends) /\ Has(todo, {"finish"}) /\ ~Has(T, {"finish"}) /\ ~Has(T, {"endtick"})
  BY <1>2, <1>3, EndKinds
<1>5. Whole /\ w.ending /\ w.final # "called" /\ Slot = 1
  BY <1>4 DEF Inv, Ending, Slot
<1>6. Idle
  BY <1>3, <1>5 DEF Idle, Whole
<1>7. /\ v \in States /\ v.corked = w.corked /\ v.pendingcb = w.pendingcb - 1
      /\ v.ending = w.ending /\ v.final = w.final /\ v.endcb = FALSE /\ v.finished = TRUE
      /\ v.hasFinal = w.hasFinal /\ v.errored = w.errored /\ v.destroyed = w.destroyed
      /\ (buffered # <<>> \/ v.endcb) \in BOOLEAN
  <2>1. w.pendingcb >= 1
    BY <1>5, Basics
  <2>2. w \in States /\ w.pendingcb - 1 \in Nat
    BY <2>1, Basics
  <2> QED BY <2>2 DEF States
<1>8. T \in Seq(Items) /\ Fit(T)
  BY <1>3 DEF SameCalls
<1> HIDE DEF T, v
<1>9. Softened(v, w') /\ SameCalls(T, todo') /\ SameEnds(T, todo')
  BY <1>1, <1>7, <1>8, DestroyAdds DEF Destroy
<1>10. SameCalls(todo, todo')
  BY <1>3, <1>9, SameTwice
<1>11. ~Has(todo', Ends) /\ ~Has(todo', {"finish"}) /\ ~Has(todo', {"endtick"})
  BY <1>3, <1>4, <1>9 DEF SameEnds
<1>12. Slot' = 0
  BY <1>5, <1>7, <1>9, <1>11 DEF Slot, Softened
<1>13. w.pendingcb + Slot' <= w'.pendingcb + Slot
  BY <1>5, <1>7, <1>9, <1>12, Basics DEF Softened
<1>14. EndsWell
  BY <1>5, <1>6, <1>7, <1>9, <1>11, <1>13 DEF EndsWell, Softened
<1>15. Steady
  BY <1>7, <1>9 DEF Steady, Softened
<1>16. Untold \/ EndTold
  <2>1. w'.endcb = FALSE /\ w'.ending = v.ending /\ v.ending /\ w.endcb \in BOOLEAN
    BY <1>5, <1>7, <1>9, Basics DEF Softened, States
  <2> QED BY <1>1, <2>1, ToldTheEnd
<1> QED BY <1>1, <1>9, <1>10, <1>14, <1>15, <1>16, QuietQueue DEF Softened

\* The sink's _final answers from the event loop.
LEMMA FinalDoneStep ==
  ASSUME TypeOK, Inv, FinalDone
  PROVE  TypeOK' /\ Inv'
<1>1. /\ todo = <<>> /\ w.final = "called" /\ Stays /\ told' = told
      /\ w' = [w EXCEPT !.final = "done", !.pendingcb = IF NeedFinish(w, Length) THEN @ ELSE @ - 1]
      /\ todo' = IF NeedFinish(w, Length) THEN <<Do("finish")>> ELSE <<>>
  BY DEF FinalDone, Stays
<1>2. w.ending /\ Slot = 1 /\ ~Has(todo, Ends)
  BY <1>1 DEF Inv, Ending, Slot
<1>3. w.pendingcb >= 1
  BY <1>2, Basics
<1>4. /\ w' \in States /\ w \in States /\ w'.corked = w.corked /\ w'.ending = w.ending
      /\ w'.final = "done" /\ w'.endcb = w.endcb /\ w'.finished = w.finished
      /\ w'.hasFinal = w.hasFinal /\ w'.errored = w.errored /\ w'.destroyed = w.destroyed
      /\ w'.pendingcb = IF NeedFinish(w, Length) THEN w.pendingcb ELSE w.pendingcb - 1
  <2>1. w \in States /\ w.pendingcb - 1 \in Nat
    BY <1>3, Basics
  <2>2. CASE NeedFinish(w, Length)
    BY <1>1, <2>1, <2>2 DEF States
  <2>3. CASE ~NeedFinish(w, Length)
    BY <1>1, <2>1, <2>3 DEF States
  <2> QED BY <2>2, <2>3
<1>5. Steady /\ Untold
  BY <1>1, <1>4 DEF Steady, Untold
<1>6. CASE NeedFinish(w, Length)
  <2>1. todo' = Append(todo, Do("finish")) /\ "finish" \in Ends
    BY <1>1, <1>6, EndItem DEF Ends
  <2>2. /\ SameCalls(todo, todo')
        /\ \A S : Has(todo', S) <=> Has(todo, S) \/ "finish" \in S
    BY <1>2, <2>1, Basics, AddEnd
  <2>3. buffered = <<>> /\ writing = <<>> /\ ~w.errored
    <3>1. buffered \in Seq(Chunks) /\ writing \in Seq(Chunks)
      BY Types
    <3>2. Len(buffered) + Len(writing) = 0 /\ ~w.errored
      BY <1>6, Basics DEF NeedFinish, Length
    <3> QED BY <3>1, <3>2
  <2>4. Whole
    <3>1. Range(writing) = {}
      BY <2>3, RangeOne
    <3> QED BY <2>3, <3>1 DEF Inv, ChunksInv, Kept, Whole
  <2>5. ~Has(todo', {"endtick"})
    BY <1>2, <2>2, EndKinds
  <2>6. w.pendingcb + Slot' <= w'.pendingcb + Slot
    BY <1>2, <1>4, <1>6, Basics DEF Slot
  <2>7. EndsWell
    BY <1>2, <1>4, <2>4, <2>5, <2>6 DEF EndsWell, Inv, Ending
  <2> QED BY <1>1, <1>4, <1>5, <2>2, <2>7, QuietQueue
<1>7. CASE ~NeedFinish(w, Length)
  <2>1. todo' = todo
    BY <1>1, <1>7
  <2>2. w.pendingcb + Slot' <= w'.pendingcb + Slot
    BY <1>2, <1>4, <1>7, <2>1, Basics DEF Slot
  <2>3. EndsWell
    BY <1>2, <1>4, <2>1, <2>2 DEF EndsWell, Inv, Ending
  <2>4. SameCalls(todo, todo')
    BY <2>1, Basics
  <2> QED BY <1>1, <1>4, <1>5, <2>3, <2>4, QuietQueue
<1> QED BY <1>6, <1>7

\* _final answers late that it failed, and end()'s callback is told.
LEMMA FinalFailedStep ==
  ASSUME TypeOK, Inv, FinalFailed
  PROVE  TypeOK' /\ Inv'
<1> DEFINE v == [w EXCEPT !.final = "done", !.endcb = FALSE, !.pendingcb = @ - 1]
<1>1. /\ todo = <<>> /\ w.final = "called" /\ Stays /\ Destroy(v, <<>>, TRUE)
      /\ told' = IF w.endcb THEN Append(told, [id |-> 0, ok |-> FALSE]) ELSE told
  BY DEF FinalFailed, Stays
<1>2. w.ending /\ Slot = 1 /\ ~Has(todo, Ends)
  BY <1>1 DEF Inv, Ending, Slot
<1>3. w.pendingcb >= 1
  BY <1>2, Basics
<1>4. /\ v \in States /\ v.corked = w.corked /\ v.pendingcb = w.pendingcb - 1
      /\ v.ending = w.ending /\ v.final = "done" /\ v.endcb = FALSE /\ v.finished = w.finished
      /\ v.hasFinal = w.hasFinal /\ v.errored = w.errored /\ v.destroyed = w.destroyed
      /\ (buffered # <<>> \/ v.endcb) \in BOOLEAN
  <2>1. w \in States /\ w.pendingcb - 1 \in Nat
    BY <1>3, Basics
  <2> QED BY <2>1 DEF States
<1> HIDE DEF v
<1>5. Softened(v, w') /\ SameCalls(todo, todo') /\ SameEnds(todo, todo')
  BY <1>1, <1>4, Basics, DestroyAdds DEF Destroy
<1>6. w.pendingcb + Slot' <= w'.pendingcb + Slot
  <2>1. Slot' = 0
    BY <1>2, <1>4, <1>5 DEF Slot, Softened, SameEnds
  <2> QED BY <1>2, <1>4, <1>5, <2>1, Basics DEF Softened
<1>7. EndsWell
  BY <1>2, <1>4, <1>5, <1>6 DEF EndsWell, Softened, SameEnds, Inv, Ending
<1>8. Steady
  BY <1>4, <1>5 DEF Steady, Softened
<1>9. Untold \/ EndTold
  <2>1. w'.endcb = FALSE /\ w'.ending = v.ending /\ v.ending /\ w.endcb \in BOOLEAN
    BY <1>2, <1>4, <1>5, Basics DEF Softened, States
  <2> QED BY <1>1, <2>1, ToldTheEnd
<1> QED BY <1>1, <1>5, <1>7, <1>8, <1>9, QuietQueue DEF Softened

\* What finishMaybe starts from: the flags after end(), or those there were.
MayFinish(v, sync) ==
  /\ v \in States
  /\ v.pendingcb = w.pendingcb /\ v.final = w.final /\ v.finished = w.finished
  /\ v.hasFinal = w.hasFinal /\ v.errored = w.errored /\ v.destroyed = w.destroyed
  /\ w.ending => v.ending
  /\ v.corked = 0 => w.corked = 0 \/ buffered = <<>> \/ writing # <<>>
  /\ v.endcb => w.endcb \/ ~(w.ending \/ (w.errored /\ w.destroyed))
  /\ ~sync => v.endcb = w.endcb

\* If there is nothing left to do, every chunk was answered or is about to be.
LEMMA NothingLeft ==
  ASSUME TypeOK, Inv, NEW v, v.errored = w.errored, NeedFinish(v, Length)
  PROVE  Whole /\ v.ending /\ buffered = <<>> /\ writing = <<>>
<1>1. buffered \in Seq(Chunks) /\ writing \in Seq(Chunks)
  BY Types
<1>2. Len(buffered) + Len(writing) = 0 /\ ~w.errored /\ v.ending
  BY DEF NeedFinish, Length
<1>3. buffered = <<>> /\ writing = <<>>
  BY <1>1, <1>2
<1>4. Range(writing) = {}
  BY <1>3, RangeOne
<1> QED BY <1>2, <1>3, <1>4 DEF Inv, ChunksInv, Kept, Whole

\* callFinal keeps the invariant.
LEMMA CallFinalStep ==
  ASSUME TypeOK, Inv, Stays, NEW sync \in BOOLEAN, NEW v, MayFinish(v, sync),
         NEW q, SameCalls(todo, q), SameEnds(todo, q),
         NeedFinish(v, Length), v.hasFinal, v.final = "no", CallFinal(v, q, sync)
  PROVE  TypeOK' /\ Inv'
<1>1. Whole /\ v.ending
  BY NothingLeft DEF MayFinish
<1>2. /\ w.hasFinal /\ w.final = "no" /\ ~Has(todo, Ends) /\ Slot = 0
      /\ q \in Seq(Items) /\ Fit(q) /\ ~Has(q, Ends) /\ ~Has(q, {"finish"}) /\ ~Has(q, {"endtick"})
  <2>1. w.hasFinal /\ w.final = "no"
    BY DEF MayFinish
  <2>2. ~Has(todo, Ends)
    BY <2>1 DEF Inv, Ending
  <2> QED BY <2>1, <2>2, EndKinds DEF SameEnds, SameCalls, Slot
<1>3. v \in States /\ v.pendingcb = w.pendingcb /\ w.pendingcb \in Nat
  BY Basics DEF MayFinish
<1>4. CASE /\ w' = [v EXCEPT !.final = "called", !.pendingcb = @ + 1]
           /\ todo' = q /\ UNCHANGED told
  <2>1. /\ w' \in States /\ w'.corked = v.corked /\ w'.pendingcb = v.pendingcb + 1
        /\ w'.ending = v.ending /\ w'.final = "called" /\ w'.endcb = v.endcb /\ w'.finished = v.finished
        /\ w'.hasFinal = v.hasFinal /\ w'.errored = v.errored /\ w'.destroyed = v.destroyed
    <3>1. v \in States /\ v.pendingcb + 1 \in Nat
      BY <1>3
    <3>2. w' \in States
      BY <1>4, <3>1 DEF States
    <3> QED BY <1>4, <3>1, <3>2 DEF States
  <2>2. w.pendingcb + Slot' <= w'.pendingcb + Slot
    BY <1>2, <1>3, <1>4, <2>1 DEF Slot
  <2>3. EndsWell
    BY <1>1, <1>2, <1>4, <2>1, <2>2 DEF EndsWell, MayFinish
  <2>4. Steady
    BY <2>1 DEF Steady, MayFinish
  <2>5. Untold
    BY <1>4, <2>1 DEF Untold, MayFinish
  <2> QED BY <1>4, <2>1, <2>3, <2>4, <2>5, QuietQueue
<1>5. CASE /\ w' = [v EXCEPT !.final = "done", !.pendingcb = @ + 1]
           /\ todo' = Append(q, Do("finish")) /\ UNCHANGED told
  <2>1. /\ w' \in States /\ w'.corked = v.corked /\ w'.pendingcb = v.pendingcb + 1
        /\ w'.ending = v.ending /\ w'.final = "done" /\ w'.endcb = v.endcb /\ w'.finished = v.finished
        /\ w'.hasFinal = v.hasFinal /\ w'.errored = v.errored /\ w'.destroyed = v.destroyed
    <3>1. v \in States /\ v.pendingcb + 1 \in Nat
      BY <1>3
    <3>2. w' \in States
      BY <1>5, <3>1 DEF States
    <3> QED BY <1>5, <3>1, <3>2 DEF States
  <2>2. /\ SameCalls(q, todo')
        /\ \A S : Has(todo', S) <=> Has(q, S) \/ "finish" \in S
    BY <1>2, <1>5, AddEnd DEF Ends
  <2>3. SameCalls(todo, todo')
    BY <2>2, SameTwice
  <2>4. ~Has(todo', {"endtick"})
    BY <1>2, <2>2
  <2>5. w.pendingcb + Slot' <= w'.pendingcb + Slot
    BY <1>2, <1>3, <2>1 DEF Slot
  <2>6. EndsWell
    BY <1>1, <1>2, <2>1, <2>4, <2>5 DEF EndsWell, MayFinish
  <2>7. Steady
    BY <2>1 DEF Steady, MayFinish
  <2>8. Untold
    BY <1>5, <2>1 DEF Untold, MayFinish
  <2> QED BY <2>1, <2>3, <2>6, <2>7, <2>8, QuietQueue
<1>6. CASE /\ told' = IF v.endcb /\ ~sync THEN Append(told, [id |-> 0, ok |-> FALSE]) ELSE told
           /\ Destroy([v EXCEPT !.final = "done", !.endcb = @ /\ sync], q, TRUE)
  <2> DEFINE u == [v EXCEPT !.final = "done", !.endcb = @ /\ sync]
  <2>1. /\ u \in States /\ u.corked = v.corked /\ u.pendingcb = v.pendingcb
        /\ u.ending = v.ending /\ u.final = "done" /\ (u.endcb <=> v.endcb /\ sync) /\ u.finished = v.finished
        /\ u.hasFinal = v.hasFinal /\ u.errored = v.errored /\ u.destroyed = v.destroyed
        /\ (buffered # <<>> \/ u.endcb) \in BOOLEAN
    BY <1>3 DEF States
  <2>2. Destroy(u, q, TRUE)
    BY <1>6
  <2> HIDE DEF u
  <2>3. Softened(u, w') /\ SameCalls(q, todo') /\ SameEnds(q, todo')
    BY <1>2, <2>1, <2>2, DestroyAdds DEF Destroy
  <2>4. SameCalls(todo, todo') /\ SameEnds(todo, todo')
    BY <2>3, SameTwice DEF SameEnds
  <2>5. Slot' = 0
    BY <1>2, <2>1, <2>3, <2>4 DEF Slot, Softened, SameEnds
  <2>6. w.pendingcb + Slot' <= w'.pendingcb + Slot
    BY <1>2, <1>3, <2>1, <2>3, <2>5 DEF Softened
  <2>7. EndsWell
    BY <1>1, <1>2, <2>1, <2>3, <2>4, <2>6 DEF EndsWell, Softened, SameEnds, MayFinish
  <2>8. Steady
    BY <2>1, <2>3 DEF Steady, Softened, MayFinish
  <2>9. Untold \/ EndTold
    <3>1. CASE v.endcb /\ ~sync
      <4>1. w.endcb /\ ~w'.endcb /\ w'.ending
        BY <1>1, <2>1, <2>3, <3>1 DEF Softened, MayFinish
      <4> QED BY <1>6, <3>1, <4>1 DEF EndTold
    <3>2. CASE ~(v.endcb /\ ~sync)
      <4>1. w'.endcb => w.endcb \/ ~(w.ending \/ (w.errored /\ w.destroyed))
        BY <2>1, <2>3 DEF Softened, MayFinish
      <4> QED BY <1>6, <3>2, <4>1 DEF Untold
    <3> QED BY <3>1, <3>2
  <2>10. w' \in States
    BY <2>3 DEF Softened
  <2> QED BY <2>4, <2>7, <2>8, <2>9, <2>10, QuietQueue
<1> QED BY <1>4, <1>5, <1>6 DEF CallFinal

\* So does finishMaybe.
LEMMA FinishMaybeStep ==
  ASSUME TypeOK, Inv, Stays, NEW sync \in BOOLEAN, NEW v, MayFinish(v, sync),
         NEW q, SameCalls(todo, q), SameEnds(todo, q), FinishMaybe(v, Length, q, sync)
  PROVE  TypeOK' /\ Inv'
<1>1. v \in States /\ v.pendingcb = w.pendingcb /\ w.pendingcb \in Nat /\ q \in Seq(Items) /\ Fit(q)
  BY Basics DEF MayFinish, SameCalls
<1>2. ASSUME w' = v, todo' = q, UNCHANGED told PROVE TypeOK' /\ Inv'
  <2>1. w.pendingcb + Slot' <= w'.pendingcb + Slot
    <3>1. Slot' = Slot
      BY <1>2 DEF Slot, MayFinish, SameEnds
    <3> QED BY <1>1, <1>2, <3>1, Basics
  <2>2. EndsWell
    BY <1>2, <2>1 DEF EndsWell, MayFinish, SameEnds, Inv, Ending
  <2>3. Steady
    BY <1>2 DEF Steady, MayFinish
  <2>4. Untold
    BY <1>2 DEF Untold, MayFinish
  <2> QED BY <1>1, <1>2, <2>2, <2>3, <2>4, QuietQueue
<1>3. ASSUME NeedFinish(v, Length), v.hasFinal => v.final # "no", ~(v.pendingcb > 0),
             w' = [v EXCEPT !.pendingcb = 1], UNCHANGED told,
             todo' = IF sync THEN Append(q, Do("endtick")) ELSE <<Do("finish")>> \o q
      PROVE  TypeOK' /\ Inv'
  <2>1. /\ w' \in States /\ w'.corked = v.corked /\ w'.pendingcb = 1
        /\ w'.ending = v.ending /\ w'.final = v.final /\ w'.endcb = v.endcb /\ w'.finished = v.finished
        /\ w'.hasFinal = v.hasFinal /\ w'.errored = v.errored /\ w'.destroyed = v.destroyed
    BY <1>1, <1>3 DEF States
  <2>2. w.pendingcb = 0 /\ Due(todo) = 0 /\ Slot = 0
    BY <1>1, <1>3, Basics
  <2>3. ~Has(todo, Ends) /\ w.final # "called" /\ \A c \in Chunks : ~Holds(todo, Calls, c)
    <3>1. ~Has(todo, Ends) /\ w.final # "called"
      BY <2>2 DEF Slot
    <3> QED BY <2>2, <3>1, Basics, DueIsNat
  <2>4. ~Has(q, Ends) /\ ~Has(q, {"finish"}) /\ ~Has(q, {"endtick"}) /\ \A c \in Chunks : ~Holds(q, Calls, c)
    BY <2>3, EndKinds DEF SameEnds, SameCalls, Alike
  <2>5. Whole /\ v.ending /\ Idle
    <3>1. Whole /\ v.ending /\ buffered = <<>> /\ writing = <<>>
      BY <1>3, NothingLeft DEF MayFinish
    <3> QED BY <2>3, <3>1 DEF Idle
  <2>6. /\ SameCalls(q, todo')
        /\ Has(todo', Ends)
    <3>1. CASE sync
      BY <1>1, <1>3, <2>4, <3>1, AddEnd DEF Ends
    <3>2. CASE ~sync
      BY <1>1, <1>3, <2>4, <3>2, PutEnd DEF Ends
    <3> QED BY <3>1, <3>2
  <2>7. SameCalls(todo, todo')
    BY <2>6, SameTwice
  <2>8. w.pendingcb + Slot' <= w'.pendingcb + Slot
    BY <2>1, <2>2, <2>6 DEF Slot
  <2>9. EndsWell
    BY <1>3, <2>1, <2>3, <2>5, <2>8 DEF EndsWell, MayFinish
  <2>10. Steady
    BY <2>1 DEF Steady, MayFinish
  <2>11. Untold
    BY <1>3, <2>1 DEF Untold, MayFinish
  <2> QED BY <2>1, <2>7, <2>9, <2>10, <2>11, QuietQueue
<1>4. \/ ~NeedFinish(v, Length) /\ w' = v /\ todo' = q /\ UNCHANGED told
      \/ NeedFinish(v, Length) /\ v.hasFinal /\ v.final = "no" /\ CallFinal(v, q, sync)
      \/ /\ NeedFinish(v, Length) /\ (v.hasFinal => v.final # "no")
         /\ IF v.pendingcb > 0 THEN w' = v /\ todo' = q
            ELSE /\ w' = [v EXCEPT !.pendingcb = 1]
                 /\ todo' = IF sync THEN Append(q, Do("endtick")) ELSE <<Do("finish")>> \o q
         /\ UNCHANGED told
  BY DEF FinishMaybe
<1> QED BY <1>2, <1>3, <1>4, CallFinalStep

\* The rest of afterWrite of a stream that is not destroyed.
LEMMA SettleStep ==
  ASSUME TypeOK, Inv, Settle
  PROVE  TypeOK' /\ Inv'
<1>1. Take("settle") /\ Stays /\ FinishMaybe(w, Length, Tail(todo), FALSE)
  BY DEF Settle, Stays
<1>2. SameCalls(todo, Tail(todo)) /\ SameEnds(todo, Tail(todo))
  BY <1>1, DropPlain DEF Calls, Lost, Ends
<1>3. MayFinish(w, FALSE)
  BY Basics DEF MayFinish
<1> QED BY <1>1, <1>2, <1>3, FinishMaybeStep

\* The flags that end() sets.
LEMMA EndFlags ==
  ASSUME NEW v \in States
  PROVE  /\ [v EXCEPT !.corked = 0, !.ending = TRUE, !.endcb = TRUE] \in States
         /\ [v EXCEPT !.corked = 0, !.endcb = TRUE] \in States
<1>1. ASSUME NEW z \in 0..1
      PROVE  /\ [v EXCEPT !.corked = z, !.ending = TRUE, !.endcb = TRUE] \in States
             /\ [v EXCEPT !.corked = z, !.endcb = TRUE] \in States
  BY DEF States
<1>2. 0 \in 0..1
  OBVIOUS
<1> QED BY ONLY <1>1, <1>2

\* end() of a stream that was not ended: it may finish, or it failed and waits.
LEMMA EndStep ==
  ASSUME TypeOK, Inv, Stays, w.corked = 0 \/ buffered = <<>>, ~w.ending, ~w.endcb,
         \/ /\ ~w.errored
            /\ FinishMaybe([w EXCEPT !.corked = 0, !.ending = TRUE, !.endcb = TRUE], Length, todo, TRUE)
         \/ /\ w.errored /\ ~w.destroyed
            /\ w' = [w EXCEPT !.corked = 0, !.endcb = TRUE] /\ UNCHANGED <<todo, told>>
  PROVE  TypeOK' /\ Inv'
<1>1. CASE ~w.errored /\ FinishMaybe([w EXCEPT !.corked = 0, !.ending = TRUE, !.endcb = TRUE], Length, todo, TRUE)
  <2> DEFINE v == [w EXCEPT !.corked = 0, !.ending = TRUE, !.endcb = TRUE]
  <2>1. FinishMaybe(v, Length, todo, TRUE)
    BY <1>1
  <2>2. MayFinish(v, TRUE)
    <3>1. w \in States
      BY Basics
    <3>2. v \in States
      BY <3>1, EndFlags
    <3>3. /\ v.pendingcb = w.pendingcb /\ v.final = w.final /\ v.finished = w.finished
          /\ v.hasFinal = w.hasFinal /\ v.errored = w.errored /\ v.destroyed = w.destroyed /\ v.ending
      BY <3>1 DEF States
    <3> QED BY <1>1, <3>2, <3>3 DEF MayFinish
  <2> HIDE DEF v
  <2> QED BY <2>1, <2>2, Basics, FinishMaybeStep
<1>2. CASE /\ w.errored /\ ~w.destroyed
           /\ w' = [w EXCEPT !.corked = 0, !.endcb = TRUE] /\ UNCHANGED <<todo, told>>
  <2>1. /\ w' \in States /\ w'.corked = 0
        /\ w'.pendingcb = w.pendingcb /\ w'.ending = w.ending
        /\ w'.final = w.final /\ w'.finished = w.finished
        /\ w'.hasFinal = w.hasFinal /\ w'.errored = w.errored /\ w'.destroyed = w.destroyed
    <3>1. w \in States
      BY Basics
    <3>2. w' \in States
      BY <1>2, <3>1, EndFlags
    <3> QED BY <1>2, <3>1, <3>2 DEF States
  <2>2. Steady
    BY <2>1 DEF Steady
  <2>3. Untold
    BY <1>2 DEF Untold
  <2>4. w.pendingcb + Slot' <= w'.pendingcb + Slot
    BY <1>2, <2>1, Basics DEF Slot
  <2>5. EndsWell
    BY <1>2, <2>1, <2>4 DEF EndsWell, Inv, Ending
  <2>6. SameCalls(todo, todo')
    BY <1>2, Basics
  <2> QED BY <2>1, <2>2, <2>3, <2>5, <2>6, QuietQueue
<1> QED BY <1>1, <1>2

------------------------------------------------------------------------------
(* Steps that refuse chunks, answer them or buffer one.                    *)

\* The elements of the sequences are chunks.
LEMMA ChunkRanges ==
  ASSUME TypeOK
  PROVE  /\ Range(sunk) \subseteq Chunks /\ Range(buffered) \subseteq Chunks
         /\ Range(writing) \subseteq Chunks /\ n \in Nat /\ n \in Chunks
<1>1. sunk \in Seq(Chunks) /\ buffered \in Seq(Chunks) /\ writing \in Seq(Chunks) /\ n \in 0..MaxWrites
  BY Types
<1>2. n \in Nat /\ n \in Chunks
  BY <1>1, WritableAssumption DEF Chunks
<1>3. \A i \in 1..Len(sunk) : sunk[i] \in Chunks
  BY <1>1
<1>4. \A i \in 1..Len(buffered) : buffered[i] \in Chunks
  BY <1>1
<1>5. \A i \in 1..Len(writing) : writing[i] \in Chunks
  BY <1>1
<1>6. Range(sunk) = {sunk[i] : i \in 1..Len(sunk)}
  BY <1>1, RangeOf
<1>7. Range(buffered) = {buffered[i] : i \in 1..Len(buffered)}
  BY <1>1, RangeOf
<1>8. Range(writing) = {writing[i] : i \in 1..Len(writing)}
  BY <1>1, RangeOf
<1> QED BY <1>2, <1>3, <1>4, <1>5, <1>6, <1>7, <1>8

\* The chunks Z will not be written, and their answer is due.
Loses(Z) ==
  /\ todo' \in Seq(Items) /\ Fit(todo') /\ Due(todo') = Due(todo) /\ SameEnds(todo, todo')
  /\ \A c \in Chunks : /\ Holds(todo', Calls, c) <=> Holds(todo, Calls, c)
                       /\ Holds(todo', Acks, c) <=> Holds(todo, Acks, c)
                       /\ Holds(todo', Lost, c) <=> Holds(todo, Lost, c) \/ c \in Z

\* A step that does no more than that keeps the invariant.
LEMMA LoseStep ==
  ASSUME TypeOK, Inv, Softened(w, w'), UNCHANGED <<writing, sunk, took, told>>,
         n' \in 0..MaxWrites, n <= n', buffered' = buffered \/ buffered' = <<>>,
         NEW Z, Loses(Z),
         \A c \in Z : c \notin Range(sunk) /\ c \notin Range(buffered') /\ ~Said(told, c) /\ c <= n',
         0 \in Z => ~w'.endcb /\ (w'.ending \/ (w'.errored /\ w'.destroyed))
  PROVE  TypeOK' /\ Inv'
<1>0. /\ buffered \in Seq(Chunks) /\ writing \in Seq(Chunks)
      /\ sunk \in Seq(Chunks) /\ took \subseteq Chunks /\ told \in Seq(Tellings)
      /\ w \in States /\ n \in Nat /\ n' \in Nat
  BY Types, ChunkRanges
<1>1. TypeOK'
  <2>1. /\ w' \in States /\ buffered' \in Seq(Chunks) /\ writing' \in Seq(Chunks)
        /\ sunk' \in Seq(Chunks) /\ todo' \in Seq(Items) /\ n' \in 0..MaxWrites
        /\ took' \subseteq Chunks /\ told' \in Seq(Tellings)
    <3>1. buffered' \in Seq(Chunks)
      <4>1. CASE buffered' = buffered
        BY <1>0, <4>1
      <4>2. CASE buffered' = <<>>
        BY <4>2
      <4> QED BY <4>1, <4>2
    <3> QED BY <1>0, <3>1 DEF Softened, Loses
  <2> QED BY <2>1 DEF TypeOK, States, Items, Tellings
<1>2. /\ Range(buffered') \subseteq Range(buffered) /\ Len(buffered') <= Len(buffered)
      /\ Len(buffered) \in Nat /\ Len(buffered') \in Nat /\ (buffered = <<>> => buffered' = <<>>)
  <2>1. Range(<<>>) = {} /\ Len(<<>>) = 0
    BY RangeOne
  <2> QED BY <1>0, <2>1
<1>3. Line'
  <2>1. Rising(buffered')
    BY DEF Inv, ChunksInv, Line, Rising
  <2>2. Below(sunk', buffered')
    BY <1>2 DEF Inv, ChunksInv, Line, Below
  <2>3. 1..n \subseteq 1..n'
    BY <1>0
  <2> QED BY <1>2, <2>1, <2>2, <2>3 DEF Inv, ChunksInv, Line
<1>4. Flow'
  BY <1>2 DEF Inv, ChunksInv, Flow, Softened
<1>5. Owed'
  <2>1. ASSUME NEW c \in Chunks, Holds(todo', Lost, c)
        PROVE  c \notin Range(sunk) /\ c \notin Range(buffered') /\ ~Said(told, c) /\ c <= n'
    <3>1. CASE Holds(todo, Lost, c)
      <4>1. c \in Nat /\ c <= n
        BY <3>1, ZeroIsChunk DEF Inv, ChunksInv, Owed
      <4> QED BY <1>0, <1>2, <3>1, <4>1 DEF Inv, ChunksInv, Owed
    <3>2. CASE c \in Z
      BY <3>2
    <3> QED BY <2>1, <3>1, <3>2 DEF Loses
  <2> QED BY <2>1 DEF Inv, ChunksInv, Owed, Loses
<1>6. Reported'
  <2>1. ASSUME NEW c \in Chunks, Said(told, c)
        PROVE  c <= n' /\ c \notin Range(buffered')
    <3>1. c \in Nat /\ c <= n /\ c \notin Range(buffered)
      BY <2>1, ZeroIsChunk DEF Inv, ChunksInv, Reported
    <3> QED BY <1>0, <1>2, <3>1
  <2> QED BY <2>1 DEF Inv, ChunksInv, Reported, Loses
<1>7. Kept'
  <2>1. Range(sunk) \subseteq Chunks
    BY ChunkRanges
  <2> QED BY <2>1 DEF Inv, ChunksInv, Kept, Loses, Softened
<1>8. Zero'
  BY ZeroIsChunk DEF Inv, ChunksInv, Zero, Loses, Softened
<1>9. Whole => Whole'
  <2>1. Range(sunk) \subseteq Chunks
    BY ChunkRanges
  <2> QED BY <1>2, <2>1 DEF Whole, Loses
<1>10. Idle => Idle'
  BY <1>2 DEF Idle, Loses
<1>11. Ending'
  <2>1. FinishIsWhole'
    BY <1>2 DEF Inv, Ending, FinishIsWhole, Softened
  <2> QED BY <1>9, <1>10, <2>1 DEF Inv, Ending, Loses, SameEnds, Softened
<1>12. Count'
  <2>1. Slot' = Slot /\ Busy' = Busy /\ Due(todo') = Due(todo) /\ w'.pendingcb = w.pendingcb
    BY DEF Slot, Busy, Loses, SameEnds, Softened
  <2>2. Due(todo') + Busy' + Len(buffered') + Slot' <= w'.pendingcb
    BY <1>2, <2>1, Basics
  <2> QED BY <2>2 DEF Count
<1> QED BY <1>1, <1>3, <1>4, <1>5, <1>6, <1>7, <1>8, <1>11, <1>12 DEF Inv, ChunksInv

\* A refused chunk behind a queue that does not refuse it yet.
LEMMA AddLost ==
  ASSUME NEW q \in Seq(Items), Fit(q), NEW z \in Chunks, ~Holds(q, Lost, z)
  PROVE  LET r == Append(q, Item("lost", <<z>>))
         IN  /\ r \in Seq(Items) /\ Fit(r) /\ Due(r) = Due(q) /\ SameEnds(q, r)
             /\ \A c \in Chunks : /\ Holds(r, Calls, c) <=> Holds(q, Calls, c)
                                  /\ Holds(r, Acks, c) <=> Holds(q, Acks, c)
                                  /\ Holds(r, Lost, c) <=> Holds(q, Lost, c) \/ c = z
<1> DEFINE x == Item("lost", <<z>>)
           b == <<x>>
           r == q \o b
<1>1. /\ x \in Items /\ x.op = "lost" /\ x.ids = <<z>> /\ b \in Seq(Items)
      /\ Range(x.ids) = {z}
  BY RangeOne DEF Item, Items, Ops
<1>2. "lost" \in Lost /\ "lost" \notin Calls /\ "lost" \notin Acks /\ "lost" \notin Ends
      /\ "lost" \notin {"finish"} /\ "lost" \notin {"endtick"}
  BY DEF Lost, Calls, Acks, Ends
<1>3. Append(q, x) = r
  BY <1>1
<1>4. Shaped(x)
  <2>1. Rising(<<z>>)
    BY DEF Rising
  <2> QED BY <1>1, <1>2, <2>1 DEF Shaped
<1>5. Fit(b)
  BY <1>1, <1>4, OneItem
<1>6. \A S, c : /\ Holds(b, S, c) <=> "lost" \in S /\ c = z
                /\ Has(b, S) <=> "lost" \in S
  <2> TAKE S, c
  <2>1. /\ Holds(b, S, c) <=> x.op \in S /\ c \in Range(x.ids)
        /\ Has(b, S) <=> x.op \in S
    BY <1>1, OneItem
  <2> QED BY <1>1, <2>1
<1>7. Due(b) = 0
  BY <1>1, <1>2, DueOne
<1> HIDE DEF b, x
<1>8. Fits(q, b)
  <2>1. \A c \in Chunks : ~Holds(b, Calls, c)
    BY <1>2, <1>6
  <2>2. \A c \in Chunks : Holds(b, Lost, c) => c = z
    BY <1>6
  <2>3. ~Has(b, Ends)
    BY <1>2, <1>6
  <2> QED BY <2>1, <2>2, <2>3 DEF Fits
<1>9. r \in Seq(Items) /\ Fit(r)
  BY <1>1, <1>5, <1>8, FitJoin
<1>10. Due(r) = Due(q)
  <2>1. Due(r) = Due(q) + Due(b) /\ Due(q) \in Nat
    BY <1>1, DueJoin, DueIsNat
  <2> QED BY <1>7, <2>1
<1>11. \A S, c : Holds(r, S, c) <=> Holds(q, S, c) \/ Holds(b, S, c)
  BY <1>1, HoldsInJoin
<1>12. \A S : Has(r, S) <=> Has(q, S) \/ Has(b, S)
  BY <1>1, HasInJoin
<1> HIDE DEF r
<1>13. SameEnds(q, r)
  BY <1>2, <1>6, <1>12 DEF SameEnds
<1>14. \A c \in Chunks : /\ Holds(r, Calls, c) <=> Holds(q, Calls, c)
                         /\ Holds(r, Acks, c) <=> Holds(q, Acks, c)
                         /\ Holds(r, Lost, c) <=> Holds(q, Lost, c) \/ c = z
  BY <1>2, <1>6, <1>11
<1>15. r = Append(q, Item("lost", <<z>>))
  BY <1>3 DEF x
<1> QED BY ONLY <1>9, <1>10, <1>13, <1>14, <1>15

\* What holds no chunk twice holds what it held.
LEMMA LosesOne ==
  ASSUME NEW z \in Chunks, NEW r \in Seq(Items), Due(r) = Due(todo), SameEnds(todo, r),
         \A c \in Chunks : /\ Holds(r, Calls, c) <=> Holds(todo, Calls, c)
                           /\ Holds(r, Acks, c) <=> Holds(todo, Acks, c)
                           /\ Holds(r, Lost, c) <=> Holds(todo, Lost, c) \/ c = z,
         SameCalls(r, todo'), SameEnds(r, todo')
  PROVE  Loses({z})
  BY DEF Loses, SameCalls, SameEnds, Alike

\* A write after end() or destroy().
LEMMA WriteRefusedStep ==
  ASSUME TypeOK, Inv, WriteRefused
  PROVE  TypeOK' /\ Inv'
<1> DEFINE z == n + 1
           r == Append(todo, Item("lost", <<z>>))
<1>1. /\ n < MaxWrites /\ n' = n + 1 /\ Destroy(w, r, TRUE)
      /\ UNCHANGED <<buffered, writing, sunk, took, told>>
  BY DEF WriteRefused
<1>2. n \in Nat /\ z \in Chunks /\ n' \in 0..MaxWrites /\ n <= n' /\ z = n' /\ z > n /\ z # 0
  BY <1>1, ChunkRanges, WritableAssumption DEF Chunks
<1>3. z \notin Range(sunk) /\ z \notin Range(buffered) /\ ~Said(told, z) /\ ~Holds(todo, Lost, z)
  BY <1>2 DEF Inv, ChunksInv, Line, Reported, Owed
<1> HIDE DEF z
<1>4. /\ r \in Seq(Items) /\ Fit(r) /\ Due(r) = Due(todo) /\ SameEnds(todo, r)
      /\ \A c \in Chunks : /\ Holds(r, Calls, c) <=> Holds(todo, Calls, c)
                           /\ Holds(r, Acks, c) <=> Holds(todo, Acks, c)
                           /\ Holds(r, Lost, c) <=> Holds(todo, Lost, c) \/ c = z
  BY <1>2, <1>3, Basics, AddLost
<1> HIDE DEF r
<1>5. (buffered # <<>> \/ w.endcb) \in BOOLEAN
  BY Basics DEF States
<1>6. Softened(w, w') /\ SameCalls(r, todo') /\ SameEnds(r, todo')
  BY <1>1, <1>4, <1>5, Basics, DestroyAdds DEF Destroy
<1>7. Loses({z})
  BY <1>2, <1>4, <1>6, LosesOne
<1> QED BY <1>1, <1>2, <1>3, <1>6, <1>7, LoseStep

\* end() of a destroyed stream is refused in a tick.
LEMMA EndRefusedStep ==
  ASSUME TypeOK, Inv, Stays, ~w.endcb, w.errored, w.destroyed,
         \A i \in DOMAIN told : told[i].id # 0,
         \A i \in DOMAIN todo : todo[i] # Item("lost", << 0 >>),
         todo' = Append(todo, Item("lost", << 0 >>)), UNCHANGED <<w, told>>
  PROVE  TypeOK' /\ Inv'
<1>1. 0 \in Chunks /\ n \in Nat /\ 0 <= n
  BY ZeroIsChunk, ChunkRanges
<1>2. ~Said(told, 0)
  <2>1. told \in Seq(Tellings)
    BY Types
  <2> QED BY <2>1 DEF Said
<1>3. 0 \notin Range(sunk) /\ 0 \notin Range(buffered)
  BY <1>1 DEF Inv, ChunksInv, Line
<1>4. ~Holds(todo, Lost, 0)
  <2> SUFFICES ASSUME NEW i \in 1..Len(todo), todo[i].op \in Lost, 0 \in Range(todo[i].ids)
               PROVE  FALSE
    BY DEF Holds
  <2>1. todo[i] \in Items /\ Shaped(todo[i]) /\ i \in DOMAIN todo
    BY Basics DEF Fit
  <2>2. todo[i].ids = <<0>> /\ todo[i].op = "lost"
    BY <2>1 DEF Shaped, Lost
  <2>3. todo[i] = Item("lost", <<0>>)
    BY <2>1, <2>2 DEF Items, Item
  <2> QED BY <2>1, <2>3
<1> DEFINE r == Append(todo, Item("lost", <<0>>))
<1>5. /\ r \in Seq(Items) /\ Fit(r) /\ Due(r) = Due(todo) /\ SameEnds(todo, r)
      /\ \A c \in Chunks : /\ Holds(r, Calls, c) <=> Holds(todo, Calls, c)
                           /\ Holds(r, Acks, c) <=> Holds(todo, Acks, c)
                           /\ Holds(r, Lost, c) <=> Holds(todo, Lost, c) \/ c = 0
  BY <1>1, <1>4, Basics, AddLost
<1>6. todo' = r
  OBVIOUS
<1> HIDE DEF r
<1>7. Loses({0})
  BY <1>5, <1>6 DEF Loses
<1>8. Softened(w, w') /\ UNCHANGED <<writing, sunk, took, told>> /\ n' = n /\ buffered' = buffered
      /\ n' \in 0..MaxWrites
  BY Basics, Types DEF Stays, Softened
<1> QED BY <1>1, <1>2, <1>3, <1>7, <1>8, LoseStep

\* errorBuffer refuses what is buffered.
LEMMA ErrorBufferStep ==
  ASSUME TypeOK, Inv, ErrorBuffer
  PROVE  TypeOK' /\ Inv'
<1> DEFINE T == Tail(todo)
           x == Item("lost", buffered)
           b == <<x>>
           r == b \o T
<1>1. /\ UNCHANGED <<w, writing, n, sunk, took, told>>
      /\ IF writing # <<>> THEN todo' = T /\ UNCHANGED buffered ELSE todo' = r /\ buffered' = <<>>
  BY DEF ErrorBuffer
<1>2. SameCalls(todo, T) /\ SameEnds(todo, T)
  <2>1. Take("spill") \/ Take("settle")
    BY DEF ErrorBuffer
  <2> QED BY <2>1, DropPlain DEF Calls, Lost, Ends
<1>3. Softened(w, w')
  BY <1>1, Basics DEF Softened
<1>4. CASE writing # <<>>
  <2>1. Stays /\ told' = told /\ todo' = T
    BY <1>1, <1>4 DEF Stays
  <2> QED BY <1>2, <1>3, <2>1, FlagStep
<1>5. CASE writing = <<>>
  <2>1. todo' = r /\ buffered' = <<>>
    BY <1>1, <1>5
  <2>2. buffered \in Seq(Chunks) /\ Rising(buffered) /\ 0 \notin Range(buffered)
    BY Types, ZeroIsChunk DEF Inv, ChunksInv, Line
  <2>3. x \in Items /\ x.op = "lost" /\ x.ids = buffered /\ b \in Seq(Items)
    BY <2>2 DEF Item, Items, Ops
  <2>4. "lost" \in Lost /\ "lost" \notin Calls /\ "lost" \notin Acks /\ "lost" \notin Ends
        /\ "lost" \notin {"finish"} /\ "lost" \notin {"endtick"}
    BY DEF Lost, Calls, Acks, Ends
  <2>5. Shaped(x)
    BY <2>2, <2>3, <2>4 DEF Shaped
  <2>6. Fit(b)
    BY <2>3, <2>5, OneItem
  <2>7. \A S, c : /\ Holds(b, S, c) <=> "lost" \in S /\ c \in Range(buffered)
                  /\ Has(b, S) <=> "lost" \in S
    <3> TAKE S, c
    <3>1. /\ Holds(b, S, c) <=> x.op \in S /\ c \in Range(x.ids)
          /\ Has(b, S) <=> x.op \in S
      BY <2>3, OneItem
    <3> QED BY <2>3, <3>1
  <2>8. Due(b) = 0
    BY <2>3, <2>4, DueOne
  <2>9. T \in Seq(Items) /\ Fit(T)
    BY <1>2 DEF SameCalls
  <2> HIDE DEF b, x, T
  <2>10. Fits(b, T)
    <3>1. \A c \in Chunks : ~(c \in Range(buffered) /\ Holds(T, Lost, c))
      BY <1>2 DEF SameCalls, Alike, Inv, ChunksInv, Owed
    <3> QED BY <2>4, <2>7, <3>1 DEF Fits
  <2>11. r \in Seq(Items) /\ Fit(r)
    BY <2>3, <2>6, <2>9, <2>10, FitJoin
  <2>12. Due(r) = Due(T)
    <3>1. Due(r) = Due(b) + Due(T) /\ Due(T) \in Nat
      BY <2>3, <2>9, DueJoin, DueIsNat
    <3> QED BY <2>8, <3>1
  <2>13. \A S, c : Holds(r, S, c) <=> Holds(b, S, c) \/ Holds(T, S, c)
    BY <2>3, <2>9, HoldsInJoin
  <2>14. \A S : Has(r, S) <=> Has(b, S) \/ Has(T, S)
    BY <2>3, <2>9, HasInJoin
  <2> HIDE DEF r
  <2>15. Loses(Range(buffered))
    <3>1. SameEnds(T, r)
      BY <2>4, <2>7, <2>14 DEF SameEnds
    <3>2. \A c \in Chunks : /\ Holds(r, Calls, c) <=> Holds(T, Calls, c)
                            /\ Holds(r, Acks, c) <=> Holds(T, Acks, c)
                            /\ Holds(r, Lost, c) <=> Holds(T, Lost, c) \/ c \in Range(buffered)
      BY <2>4, <2>7, <2>13
    <3> QED BY <1>2, <2>1, <2>11, <2>12, <3>1, <3>2 DEF Loses, SameCalls, SameEnds, Alike
  <2>16. ASSUME NEW c \in Range(buffered)
         PROVE  c \notin Range(sunk) /\ c \notin Range(buffered') /\ ~Said(told, c) /\ c <= n'
    <3>1. c \in Chunks /\ c \in Nat
      BY ChunkRanges, ZeroIsChunk
    <3>2. c \notin Range(sunk)
      BY <3>1 DEF Inv, ChunksInv, Line, Below
    <3>3. c \notin Range(buffered')
      BY <2>1, RangeOne
    <3>4. c <= n' /\ ~Said(told, c)
      BY <1>1, <3>1, ChunkRanges DEF Inv, ChunksInv, Line, Reported
    <3> QED BY <3>2, <3>3, <3>4
  <2>17. n' \in 0..MaxWrites /\ n <= n'
    BY <1>1, Types, ChunkRanges
  <2> QED BY <1>1, <1>3, <2>1, <2>2, <2>15, <2>16, <2>17, LoseStep
<1> QED BY <1>4, <1>5

\* A chunk at the end of a rising sequence.
LEMMA RisingAppend ==
  ASSUME NEW s \in Seq(Chunks), Rising(s), NEW z \in Chunks, \A c \in Range(s) : c < z
  PROVE  /\ Append(s, z) \in Seq(Chunks) /\ Rising(Append(s, z)) /\ Len(Append(s, z)) = Len(s) + 1
         /\ Range(Append(s, z)) = Range(s) \union {z}
<1>1. <<z>> \in Seq(Chunks) /\ Rising(<<z>>) /\ Append(s, z) = s \o <<z>>
  BY DEF Rising
<1>2. Range(<<z>>) = {z}
  BY RangeOne
<1>3. Below(s, <<z>>)
  BY <1>2 DEF Below
<1>4. Rising(s \o <<z>>)
  BY <1>1, <1>3, RisingJoin
<1>5. Range(s \o <<z>>) = Range(s) \union Range(<<z>>)
  BY ZenonT(60), <1>1, RangeJoin
<1> QED BY <1>1, <1>2, <1>4, <1>5

\* A write that is buffered.
LEMMA WriteBufferedStep ==
  ASSUME TypeOK, Inv, WriteBuffered
  PROVE  TypeOK' /\ Inv'
<1> DEFINE z == n + 1
<1>1. /\ n < MaxWrites /\ n' = z /\ ~w.ending /\ ~w.destroyed /\ ~Free
      /\ buffered' = Append(buffered, z) /\ w' = Accepted
      /\ UNCHANGED <<writing, todo, sunk, took, told>>
  BY DEF WriteBuffered
<1>2. n \in Nat /\ z \in Chunks /\ z \in Nat /\ n' \in 0..MaxWrites /\ z > n
  BY <1>1, ChunkRanges, WritableAssumption DEF Chunks
<1>3. /\ buffered \in Seq(Chunks) /\ writing \in Seq(Chunks) /\ Len(buffered) \in Nat /\ Len(writing) \in Nat
      /\ sunk \in Seq(Chunks) /\ took \subseteq Chunks /\ told \in Seq(Tellings)
      /\ w \in States /\ todo \in Seq(Items) /\ Range(sunk) \subseteq Chunks /\ Range(buffered) \subseteq Chunks
  BY Types, ChunkRanges
<1>4. /\ w' \in States /\ w'.corked = w.corked /\ w'.pendingcb = w.pendingcb + 1
      /\ w'.ending = w.ending /\ w'.final = w.final /\ w'.endcb = w.endcb /\ w'.finished = w.finished
      /\ w'.hasFinal = w.hasFinal /\ w'.errored = w.errored /\ w'.destroyed = w.destroyed
  <2>1. w.pendingcb + 1 \in Nat /\ (w.needDrain \/ Length + 1 >= HighWaterMark) \in BOOLEAN
    BY <1>3 DEF States
  <2> QED BY <1>1, <1>3, <2>1 DEF States, Accepted
<1> HIDE DEF z
<1>5. \A c \in Range(buffered) \union Range(sunk) : c < z
  BY <1>2, <1>3, ZeroIsChunk DEF Inv, ChunksInv, Line
<1>6. /\ buffered' \in Seq(Chunks) /\ Rising(buffered') /\ Len(buffered') = Len(buffered) + 1
      /\ Range(buffered') = Range(buffered) \union {z}
  BY <1>1, <1>2, <1>3, <1>5, RisingAppend DEF Inv, ChunksInv, Line
<1>7. TypeOK'
  <2>1. /\ w' \in States /\ buffered' \in Seq(Chunks) /\ writing' \in Seq(Chunks)
        /\ sunk' \in Seq(Chunks) /\ todo' \in Seq(Items) /\ n' \in 0..MaxWrites
        /\ took' \subseteq Chunks /\ told' \in Seq(Tellings)
    BY <1>1, <1>2, <1>3, <1>4, <1>6
  <2> QED BY <2>1 DEF TypeOK, States, Items, Tellings
<1>8. Line'
  <2>1. Below(sunk, buffered')
    BY <1>3, <1>5, <1>6 DEF Inv, ChunksInv, Line, Below
  <2>2. 1..n \subseteq 1..z /\ z \in 1..z
    BY <1>2
  <2> QED BY <1>1, <1>6, <2>1, <2>2 DEF Inv, ChunksInv, Line
<1>9. Flow'
  <2>1. ~(writing = <<>> /\ w.corked = 0 /\ ~w.errored)
    BY <1>1 DEF Free
  <2> QED BY <1>1, <1>4, <2>1 DEF Flow
<1>10. \A c \in Chunks : Said(told, c) \/ Holds(todo, Lost, c) => c <= z /\ c # z
  BY <1>2, ZeroIsChunk DEF Inv, ChunksInv, Owed, Reported
<1>11. Owed'
  BY <1>1, <1>6, <1>10 DEF Inv, ChunksInv, Owed
<1>12. Reported'
  BY <1>1, <1>6, <1>10 DEF Inv, ChunksInv, Reported
<1>13. Kept'
  BY <1>1, <1>4 DEF Inv, ChunksInv, Kept
<1>14. Zero'
  BY <1>1, <1>4 DEF Inv, ChunksInv, Zero
<1>15. ~Has(todo, Ends) /\ w.final = "no" /\ ~w.finished
  BY <1>1 DEF Inv, Ending
<1>16. Ending'
  <2>1. ~Has(todo, {"finish"}) /\ ~Has(todo, {"endtick"})
    BY <1>15, EndKinds
  <2> QED BY <1>1, <1>4, <1>15, <2>1 DEF Ending, FinishIsWhole
<1>17. Count'
  <2>1. Slot' = Slot /\ Busy' = Busy /\ Due(todo') = Due(todo)
    BY <1>1, <1>4 DEF Slot, Busy
  <2>2. Due(todo') + Busy' + Len(buffered') + Slot' <= w'.pendingcb
    BY <1>4, <1>6, <2>1, Basics
  <2> QED BY <2>2 DEF Count
<1> QED BY <1>7, <1>8, <1>9, <1>11, <1>12, <1>13, <1>14, <1>16, <1>17 DEF Inv, ChunksInv

\* The sink's answer that it failed.
LEMMA SinkFailedStep ==
  ASSUME TypeOK, Inv, SinkFailed
  PROVE  TypeOK' /\ Inv'
<1> DEFINE x == Item("werror", writing)
<1>1. /\ todo = <<>> /\ writing # <<>> /\ w' = [w EXCEPT !.errored = TRUE]
      /\ writing' = <<>> /\ todo' = <<x>> /\ UNCHANGED <<buffered, n, sunk, took, told>>
  BY DEF SinkFailed
<1>2. /\ buffered \in Seq(Chunks) /\ writing \in Seq(Chunks)
      /\ sunk \in Seq(Chunks) /\ took \subseteq Chunks /\ told \in Seq(Tellings) /\ n \in 0..MaxWrites
      /\ w \in States /\ Range(sunk) \subseteq Chunks /\ Range(writing) \subseteq Range(sunk)
      /\ Range(writing') = {} /\ Rising(writing)
  BY <1>1, Types, ChunkRanges, RangeOne DEF Inv, ChunksInv, Line
<1>3. /\ w' \in States /\ w'.corked = w.corked /\ w'.pendingcb = w.pendingcb
      /\ w'.ending = w.ending /\ w'.final = w.final /\ w'.endcb = w.endcb /\ w'.finished = w.finished
      /\ w'.hasFinal = w.hasFinal /\ w'.errored /\ w'.destroyed = w.destroyed
  BY <1>1, <1>2 DEF States
<1>4. x \in Items /\ x.op = "werror" /\ x.ids = writing
  BY <1>2 DEF Item, Items, Ops
<1>5. "werror" \in Calls /\ "werror" \notin Acks /\ "werror" \notin Lost /\ "werror" \notin Ends
      /\ "werror" \notin {"finish"} /\ "werror" \notin {"endtick"}
  BY DEF Calls, Acks, Lost, Ends
<1>6. Shaped(x)
  BY <1>1, <1>2, <1>4, <1>5 DEF Shaped
<1>7. \A S, c : /\ Holds(<<x>>, S, c) <=> "werror" \in S /\ c \in Range(writing)
                /\ Has(<<x>>, S) <=> "werror" \in S
  <2> TAKE S, c
  <2>1. /\ Holds(<<x>>, S, c) <=> x.op \in S /\ c \in Range(x.ids)
        /\ Has(<<x>>, S) <=> x.op \in S
    BY <1>4, OneItem
  <2> QED BY <1>4, <2>1
<1>8. Fit(<<x>>) /\ Due(<<x>>) = 1 /\ <<x>> \in Seq(Items)
  BY <1>4, <1>5, <1>6, OneItem, DueOne
<1> HIDE DEF x
<1>9. TypeOK'
  <2>1. /\ w' \in States /\ buffered' \in Seq(Chunks) /\ writing' \in Seq(Chunks)
        /\ sunk' \in Seq(Chunks) /\ todo' \in Seq(Items) /\ n' \in 0..MaxWrites
        /\ took' \subseteq Chunks /\ told' \in Seq(Tellings)
    BY <1>1, <1>2, <1>3, <1>8
  <2> QED BY <2>1 DEF TypeOK, States, Items, Tellings
<1>10. Line'
  <2>1. Rising(<<>>)
    BY DEF Rising
  <2> QED BY <1>1, <1>2, <2>1 DEF Inv, ChunksInv, Line
<1>11. Flow'
  BY <1>3 DEF Flow
<1>12. Owed'
  BY <1>1, <1>2, <1>5, <1>7, <1>8 DEF Owed
<1>13. Reported'
  BY <1>1, <1>2, <1>5, <1>7 DEF Inv, ChunksInv, Reported
<1>14. Kept'
  BY <1>3 DEF Kept
<1>15. Zero'
  BY <1>1, <1>3, <1>5, <1>7 DEF Inv, ChunksInv, Zero, Softened
<1>16. ~Has(todo', Ends) /\ ~Has(todo', {"finish"}) /\ ~Has(todo', {"endtick"})
  BY <1>1, <1>5, <1>7
<1>17. Ending'
  <2>1. ~w.finished
    BY <1>1 DEF Inv, Ending, FinishIsWhole
  <2> QED BY <1>3, <1>16, <2>1 DEF Inv, Ending, FinishIsWhole
<1>18. Count'
  <2>1. Slot' <= Slot /\ Slot' \in Nat
    BY <1>3, <1>16 DEF Slot
  <2>2. Busy' = 0 /\ Busy = 1
    BY <1>1 DEF Busy
  <2>3. Due(todo') = 1
    BY <1>1, <1>8
  <2>4. Due(todo') + Busy' + Len(buffered') + Slot' <= w'.pendingcb
    BY <1>1, <1>3, <2>1, <2>2, <2>3, Basics
  <2> QED BY <2>4 DEF Count
<1> QED BY <1>9, <1>10, <1>11, <1>12, <1>13, <1>14, <1>15, <1>17, <1>18 DEF Inv, ChunksInv

\* A callback is called.
LEMMA CallBackStep ==
  ASSUME TypeOK, Inv, CallBack
  PROVE  TypeOK' /\ Inv'
<1> DEFINE h == Head(todo)
           T == Tail(todo)
           ok == h.op = "ok"
           u == Answers(h.ids, ok)
<1>1. /\ todo # <<>> /\ h.op \in {"ok", "failed", "lost"}
      /\ told' = told \o u /\ todo' = T
      /\ w' = [w EXCEPT !.pendingcb = IF h.op = "lost" THEN @ ELSE @ - 1]
      /\ UNCHANGED <<buffered, writing, n, sunk, took>>
  BY DEF CallBack, Take
<1>2. h \in Items /\ T \in Seq(Items) /\ todo = <<h>> \o T /\ <<h>> \in Seq(Items)
  BY <1>1, Basics, HeadAndTail
<1>3. /\ buffered \in Seq(Chunks) /\ writing \in Seq(Chunks)
      /\ sunk \in Seq(Chunks) /\ took \subseteq Chunks /\ told \in Seq(Tellings) /\ n \in 0..MaxWrites
      /\ w \in States /\ Range(sunk) \subseteq Chunks /\ Range(writing) \subseteq Range(sunk)
      /\ 0 \notin Range(sunk)
  BY Types, ChunkRanges DEF Inv, ChunksInv, Line
<1>4. h.ids \in Seq(Chunks) /\ Range(h.ids) \subseteq Chunks /\ ok \in BOOLEAN
  BY <1>2, ItemIds
<1> HIDE DEF h, T
<1>5. Shaped(h) /\ Fit(T) /\ Fits(<<h>>, T)
  BY <1>2, Basics, FitHead
<1>6. /\ u \in Seq(Tellings) /\ Once(u) /\ InLine(u, Range(sunk))
      /\ \A c \in Chunks : Said(u, c) <=> c \in Range(h.ids)
      /\ \A c \in Chunks : SaidOk(u, c) <=> ok /\ c \in Range(h.ids)
  BY <1>4, <1>5, AnswersSay DEF Shaped
<1> HIDE DEF u
<1>7. \A S, c : Holds(todo, S, c) <=> (h.op \in S /\ c \in Range(h.ids)) \/ Holds(T, S, c)
  <2> TAKE S, c
  <2>1. Holds(todo, S, c) <=> Holds(<<h>>, S, c) \/ Holds(T, S, c)
    BY <1>2, HoldsInJoin
  <2> QED BY <1>2, <2>1, OneItem
<1>8. \A S : Has(todo, S) <=> h.op \in S \/ Has(T, S)
  <2> TAKE S
  <2>1. Has(todo, S) <=> Has(<<h>>, S) \/ Has(T, S)
    BY <1>2, HasInJoin
  <2> QED BY <1>2, <2>1, OneItem
<1>9. /\ h.op # "lost" => h.op \in Calls
      /\ h.op = "lost" <=> h.op \in Lost
      /\ ok <=> h.op \in Acks
      /\ h.op \notin Ends /\ h.op \notin {"finish"} /\ h.op \notin {"endtick"}
      /\ h.op \in Calls => h.op # "lost"
  BY <1>1 DEF Calls, Lost, Acks, Ends
<1> HIDE DEF ok
<1>10. \A c \in Range(h.ids) :
         /\ h.op \in Calls => /\ c \in Range(sunk) /\ \A d \in Range(writing) : c < d
                              /\ \A d \in Chunks : Holds(T, Calls, d) => c < d
         /\ h.op \in Lost => /\ c \notin Range(sunk) /\ c \notin Range(buffered) /\ ~Said(told, c) /\ c <= n
                             /\ ~Holds(T, Lost, c)
         /\ ok => c \in took
  <2> SUFFICES ASSUME NEW c \in Range(h.ids)
               PROVE  /\ h.op \in Calls => /\ c \in Range(sunk) /\ \A d \in Range(writing) : c < d
                              /\ \A d \in Chunks : Holds(T, Calls, d) => c < d
                      /\ h.op \in Lost => /\ c \notin Range(sunk) /\ c \notin Range(buffered) /\ ~Said(told, c) /\ c <= n
                             /\ ~Holds(T, Lost, c)
                      /\ ok => c \in took
    OBVIOUS
  <2>1. c \in Chunks
    BY <1>4
  <2>2. \A S : h.op \in S => Holds(todo, S, c) /\ Holds(<<h>>, S, c)
    BY <1>2, <1>7, OneItem
  <2>3. h.op \in Calls => c \in Range(sunk) /\ \A d \in Range(writing) : c < d
    BY <2>1, <2>2 DEF Inv, ChunksInv, Owed
  <2>4. h.op \in Calls => \A d \in Chunks : Holds(T, Calls, d) => c < d
    BY <1>5, <2>1, <2>2 DEF Fits
  <2>5. h.op \in Lost => c \notin Range(sunk) /\ c \notin Range(buffered) /\ ~Said(told, c) /\ c <= n
    BY <2>1, <2>2 DEF Inv, ChunksInv, Owed
  <2>6. h.op \in Lost => ~Holds(T, Lost, c)
    BY <1>5, <2>1, <2>2 DEF Fits
  <2>7. ok => c \in took
    BY <1>9, <2>1, <2>2 DEF Inv, ChunksInv, Owed
  <2> QED BY <2>3, <2>4, <2>5, <2>6, <2>7
<1>11. \A c \in Range(h.ids) : ~Said(told, c)
  <2> SUFFICES ASSUME NEW c \in Range(h.ids), Said(told, c), h.op \in Calls PROVE FALSE
    BY <1>9, <1>10
  <2>1. c \in Chunks /\ c \in Range(sunk) /\ Holds(todo, Calls, c)
    BY <1>4, <1>7, <1>10
  <2>2. c < c
    BY <2>1 DEF Inv, ChunksInv, Reported
  <2> QED BY <2>1, <2>2, ZeroIsChunk
<1>12. /\ told' \in Seq(Tellings)
       /\ \A c \in Chunks : Said(told', c) <=> Said(told, c) \/ c \in Range(h.ids)
       /\ \A c \in Chunks : SaidOk(told', c) <=> SaidOk(told, c) \/ (ok /\ c \in Range(h.ids))
  <2>1. \A c \in Chunks : /\ Said(told', c) <=> Said(told, c) \/ Said(u, c)
                          /\ SaidOk(told', c) <=> SaidOk(told, c) \/ SaidOk(u, c)
    BY <1>1, <1>3, <1>6, SaidInJoin
  <2>2. told' \in Seq(Tellings)
    BY <1>1, <1>3, <1>6
  <2> QED BY <1>6, <2>1, <2>2
<1>13. Once(told')
  <2>1. \A c \in Chunks : ~(Said(told, c) /\ Said(u, c))
    BY <1>6, <1>11
  <2> QED BY <1>1, <1>3, <1>6, <2>1, OnceJoin DEF Inv, ChunksInv, Reported
<1>14. InLine(told', Range(sunk))
  <2>1. \A c, d \in Chunks : c \in Range(sunk) /\ d \in Range(sunk) /\ Said(told, c) /\ Said(u, d) => c < d
    <3> SUFFICES ASSUME NEW c \in Range(sunk), NEW d \in Range(h.ids), d \in Range(sunk), Said(told, c)
                 PROVE  c < d
      BY <1>6
    <3>1. h.op \in Calls
      BY <1>9, <1>10
    <3>2. Holds(todo, Calls, d) /\ c \in Chunks /\ d \in Chunks
      BY <1>3, <1>7, <3>1
    <3> QED BY <3>2 DEF Inv, ChunksInv, Reported
  <2> QED BY <1>1, <1>3, <1>6, <2>1, InLineJoin DEF Inv, ChunksInv, Reported
<1>15. /\ w'.corked = w.corked /\ w'.ending = w.ending /\ w'.final = w.final /\ w'.endcb = w.endcb
       /\ w'.finished = w.finished /\ w'.hasFinal = w.hasFinal /\ w'.errored = w.errored
       /\ w'.destroyed = w.destroyed /\ w'.pendingcb = IF h.op = "lost" THEN w.pendingcb ELSE w.pendingcb - 1
  BY <1>1, <1>3 DEF States
<1>16. /\ Due(T) \in Nat
       /\ h.op = "lost" => Due(todo) = Due(T)
       /\ h.op # "lost" => Due(todo) = Due(T) + 1
  <2>1. Due(todo) = Due(<<h>>) + Due(T) /\ Due(T) \in Nat
    BY <1>2, DueJoin, DueIsNat
  <2>2. /\ h.op = "lost" => Due(<<h>>) = 0
        /\ h.op # "lost" => Due(<<h>>) = 1
    BY <1>2, <1>9, DueOne
  <2> QED BY <2>1, <2>2
<1>17. w' \in States
  <2>1. h.op # "lost" => w.pendingcb - 1 \in Nat
    BY <1>16, Basics
  <2>2. CASE h.op # "lost"
    BY <1>1, <1>3, <2>1, <2>2 DEF States
  <2>3. CASE h.op = "lost"
    BY <1>1, <1>3, <2>3 DEF States
  <2> QED BY <2>2, <2>3
<1>18. TypeOK'
  <2>1. /\ w' \in States /\ buffered' \in Seq(Chunks) /\ writing' \in Seq(Chunks)
        /\ sunk' \in Seq(Chunks) /\ todo' \in Seq(Items) /\ n' \in 0..MaxWrites
        /\ took' \subseteq Chunks /\ told' \in Seq(Tellings)
    BY <1>1, <1>2, <1>3, <1>12, <1>17
  <2> QED BY <2>1 DEF TypeOK, States, Items, Tellings
<1>19. Line' /\ Flow'
  BY <1>1, <1>15 DEF Inv, ChunksInv, Line, Flow
<1>20. Owed'
  <2>1. ASSUME NEW c \in Chunks, Holds(T, Lost, c) PROVE ~Said(told', c)
    <3>1. ~Said(told, c) /\ c \notin Range(sunk)
      BY <1>7, <2>1 DEF Inv, ChunksInv, Owed
    <3>2. c \notin Range(h.ids)
      BY <1>9, <1>10, <2>1, <3>1
    <3> QED BY <1>12, <3>1, <3>2
  <2> QED BY <1>1, <1>5, <1>7, <2>1 DEF Inv, ChunksInv, Owed
<1>21. Reported'
  <2>1. ASSUME NEW c \in Chunks, Said(told', c)
        PROVE  /\ c <= n /\ c \notin Range(buffered)
               /\ c \in Range(sunk) => /\ \A d \in Range(writing) : c < d
                                       /\ \A d \in Chunks : Holds(T, Calls, d) => c < d
    <3>1. CASE Said(told, c)
      BY <1>7, <3>1 DEF Inv, ChunksInv, Reported
    <3>2. CASE c \in Range(h.ids) /\ h.op \in Calls
      <4>1. c \in Range(sunk)
        BY <1>10, <3>2
      <4>2. c \in 1..n /\ c \notin Range(buffered)
        BY <4>1, ZeroIsChunk DEF Inv, ChunksInv, Line, Below
      <4>3. c <= n
        BY <4>2
      <4> QED BY <1>10, <3>2, <4>2, <4>3
    <3>3. CASE c \in Range(h.ids) /\ h.op \in Lost
      BY <1>10, <3>3
    <3> QED BY <1>9, <1>12, <2>1, <3>1, <3>2, <3>3
  <2>2. ASSUME NEW c \in Chunks, SaidOk(told', c), c > 0 PROVE c \in took
    BY <1>10, <1>12, <2>2 DEF Inv, ChunksInv, Reported
  <2> QED BY <1>1, <1>13, <1>14, <2>1, <2>2 DEF Reported
<1>22. \A c \in Range(sunk) : SaidOk(told, c) \/ Holds(todo, Acks, c) => SaidOk(told', c) \/ Holds(T, Acks, c)
  BY <1>3, <1>7, <1>9, <1>12
<1>23. Kept'
  BY <1>1, <1>15, <1>22 DEF Inv, ChunksInv, Kept
<1>24. Zero'
  <2>1. 0 \in Range(h.ids) => Holds(todo, Lost, 0)
    BY <1>3, <1>7, <1>9, <1>10
  <2>2. Said(told', 0) \/ Holds(T, Lost, 0) => Said(told, 0) \/ Holds(todo, Lost, 0)
    BY <1>7, <1>12, <2>1, ZeroIsChunk
  <2> QED BY <1>1, <1>15, <2>2 DEF Inv, ChunksInv, Zero
<1>25. /\ Has(T, Ends) <=> Has(todo, Ends)
       /\ Has(T, {"finish"}) <=> Has(todo, {"finish"})
       /\ Has(T, {"endtick"}) <=> Has(todo, {"endtick"})
  BY <1>8, <1>9
<1>26. FinishIsWhole'
  <2> SUFFICES ASSUME w'.finished
               PROVE  /\ buffered = <<>> /\ writing = <<>>
                      /\ \A i \in DOMAIN sunk : sunk[i] \in took /\ [id |-> sunk[i], ok |-> TRUE] \in Range(told')
    BY <1>1 DEF FinishIsWhole
  <2>1. /\ buffered = <<>> /\ writing = <<>>
        /\ \A i \in DOMAIN sunk : sunk[i] \in took /\ SaidOk(told, sunk[i])
    BY <1>3, <1>15, SaidOkInRange DEF Inv, Ending, FinishIsWhole
  <2>2. \A i \in DOMAIN sunk : SaidOk(told', sunk[i])
    BY <1>3, <1>12, <2>1
  <2> QED BY <1>12, <2>1, <2>2, SaidOkInRange
<1>27. Whole => Whole'
  BY <1>1, <1>22 DEF Whole
<1>28. Idle => Idle'
  BY <1>1, <1>7 DEF Idle
<1>29. Ending'
  BY <1>1, <1>15, <1>25, <1>26, <1>27, <1>28 DEF Inv, Ending
<1>30. Count'
  <2>1. Slot' = Slot /\ Busy' = Busy
    BY <1>1, <1>15, <1>25 DEF Slot, Busy
  <2>2. Due(todo') + Busy' + Len(buffered') + Slot' <= w'.pendingcb
    <3>1. PICK d \in Nat, e \in Nat, b \in Nat, l \in Nat, t \in Nat, v \in Nat :
            /\ d = Due(todo) /\ e = Due(T) /\ b = Busy /\ l = Len(buffered) /\ t = Slot
            /\ v = w.pendingcb
      BY <1>16, Basics
    <3>2. d + b + l + t <= v
      BY <3>1, Basics
    <3>3. Due(todo') = e /\ Busy' = b /\ Len(buffered') = l /\ Slot' = t
      BY <1>1, <2>1, <3>1
    <3>4. CASE h.op = "lost"
      <4>1. w'.pendingcb = v /\ d = e
        BY <1>15, <1>16, <3>1, <3>4
      <4> QED BY ONLY <3>2, <3>3, <4>1
    <3>5. CASE h.op # "lost"
      <4>1. w'.pendingcb = v - 1 /\ d = e + 1
        BY <1>15, <1>16, <3>1, <3>5
      <4>2. e + b + l + t <= v - 1
        BY ONLY <3>2, <4>1
      <4> QED BY <3>3, <4>1, <4>2
    <3> QED BY <3>4, <3>5
  <2> QED BY <2>2 DEF Count
<1> QED BY <1>18, <1>19, <1>20, <1>21, <1>23, <1>24, <1>29, <1>30 DEF Inv, ChunksInv

------------------------------------------------------------------------------
(* Steps that give chunks to the sink.                                     *)

\* The answer of the sink, if it gave one, is before the queue q now; took0 is
\* what it took so far.
Answered(q, took0) ==
  /\ q \in Seq(Items) /\ Fit(q) /\ took0 \subseteq Chunks /\ took \subseteq took0
  /\ \A S : Has(q, S) <=> Has(todo, S) \/ (writing # <<>> /\ "after" \in S)
  /\ Due(q) = Due(todo) + Busy
  /\ \A c \in Chunks : /\ Holds(q, Calls, c) <=> Holds(todo, Calls, c) \/ c \in Range(writing)
                       /\ Holds(q, Acks, c) <=> Holds(todo, Acks, c) \/ c \in Range(writing)
                       /\ Holds(q, Lost, c) <=> Holds(todo, Lost, c)
  /\ \A c \in Range(writing) : c \in took0

\* Without a chunk at the sink nothing was answered.
LEMMA AnsweredNothing ==
  ASSUME TypeOK, Inv, writing = <<>>
  PROVE  Answered(todo, took)
<1>1. todo \in Seq(Items) /\ Fit(todo) /\ took \subseteq Chunks /\ Due(todo) \in Nat
  BY Types, Basics
<1>2. Range(writing) = {} /\ Busy = 0
  BY RangeOne DEF Busy
<1> QED BY <1>1, <1>2 DEF Answered

\* The sink's answer that it took what it was given.
LEMMA AnsweredTook ==
  ASSUME TypeOK, Inv, todo = <<>>, writing # <<>>
  PROVE  Answered(<<Item("after", writing)>>, took \union Range(writing))
<1> DEFINE x == Item("after", writing)
           q == <<x>>
<1>1. /\ writing \in Seq(Chunks) /\ took \subseteq Chunks /\ Range(writing) \subseteq Chunks /\ Rising(writing)
  BY Types, ChunkRanges DEF Inv, ChunksInv, Line
<1>2. x \in Items /\ x.op = "after" /\ x.ids = writing
  BY <1>1 DEF Item, Items, Ops
<1>3. "after" \in Calls /\ "after" \in Acks /\ "after" \notin Lost
  BY DEF Calls, Acks, Lost
<1>4. Shaped(x)
  BY <1>1, <1>2, <1>3 DEF Shaped
<1>5. \A S, c : /\ Holds(q, S, c) <=> "after" \in S /\ c \in Range(writing)
                /\ Has(q, S) <=> "after" \in S
                /\ ~Holds(todo, S, c) /\ ~Has(todo, S)
  <2> TAKE S, c
  <2>1. /\ Holds(q, S, c) <=> x.op \in S /\ c \in Range(x.ids)
        /\ Has(q, S) <=> x.op \in S
        /\ ~Holds(<<>>, S, c) /\ ~Has(<<>>, S)
    BY <1>2, OneItem
  <2> QED BY <1>2, <2>1
<1>6. Fit(q) /\ Due(q) = 1 /\ Due(todo) = 0 /\ q \in Seq(Items) /\ Busy = 1
  BY <1>2, <1>3, <1>4, OneItem, DueOne DEF Busy
<1> HIDE DEF q, x
<1>7. Answered(q, took \union Range(writing))
  BY <1>1, <1>3, <1>5, <1>6 DEF Answered
<1> QED BY <1>7 DEF q, x

\* p was given and answered, k given and kept, and m are the items of the answers.
Gives(p, k, m) ==
  /\ p \in Seq(Chunks) /\ k \in Seq(Chunks) /\ m \in Seq(Items)
  /\ Rising(p) /\ Rising(k) /\ Below(p, k)
  /\ Fit(m) /\ ~Has(m, Ends)
  /\ \A c \in Chunks : /\ Holds(m, Calls, c) <=> c \in Range(p)
                       /\ Holds(m, Acks, c) => c \in took'
                       /\ ~Holds(m, Lost, c)
  /\ ~w'.errored => \A c \in Range(p) : Holds(m, Acks, c)

\* What giving chunks to the sink leaves of the flags.
Given ==
  /\ w' \in States
  /\ w'.ending = w.ending /\ w'.final = w.final /\ w'.endcb = w.endcb
  /\ w'.finished = w.finished /\ w'.hasFinal = w.hasFinal /\ w'.destroyed = w.destroyed
  /\ w.errored => w'.errored

\* Chunks that nobody was told of go to the sink, in their order and after those
\* it got before; some are answered at once, the rest stays with the sink.
LEMMA GiveStep ==
  ASSUME TypeOK, Inv, NEW q, NEW took0, Answered(q, took0),
         NEW p, NEW k, NEW m, Gives(p, k, m), Given, Flow',
         todo' = q \o m, writing' = k, sunk' = sunk \o (p \o k),
         took0 \subseteq took', took' \subseteq Chunks, told' = told,
         n' \in 0..MaxWrites, n <= n', buffered' \in Seq(Chunks), Rising(buffered'),
         Range(buffered') \subseteq Range(buffered),
         NEW G, G = Range(p) \union Range(k), G \subseteq 1..n',
         \A c \in Range(sunk), d \in G : c < d,
         \A c \in G, d \in Range(buffered') : c < d,
         \A c \in G : ~Said(told, c) /\ ~Holds(todo, Lost, c),
         w.ending /\ buffered = <<>> => p = <<>> /\ k = <<>>,
         Due(m) + (IF k = <<>> THEN 0 ELSE 1) + Len(buffered') + w.pendingcb
           <= w'.pendingcb + Len(buffered)
  PROVE  TypeOK' /\ Inv'
<1>1. /\ buffered \in Seq(Chunks) /\ writing \in Seq(Chunks)
      /\ sunk \in Seq(Chunks) /\ took \subseteq Chunks /\ told \in Seq(Tellings) /\ n \in Nat /\ n' \in Nat
      /\ w \in States /\ todo \in Seq(Items)
      /\ Range(sunk) \subseteq Chunks /\ Range(buffered) \subseteq Chunks /\ Range(writing) \subseteq Range(sunk)
  BY Types, ChunkRanges DEF Inv, ChunksInv, Line
<1>2. q \in Seq(Items) /\ m \in Seq(Items) /\ p \in Seq(Chunks) /\ k \in Seq(Chunks)
  BY DEF Answered, Gives
<1>3. G \subseteq Chunks
  <2>1. 1..n' \subseteq Chunks
    BY <1>1, WritableAssumption DEF Chunks
  <2> QED BY <2>1
<1>4. /\ p \o k \in Seq(Chunks) /\ Rising(p \o k) /\ Range(p \o k) = G
  <2>1. Rising(p) /\ Rising(k) /\ Below(p, k)
    BY DEF Gives
  <2>2. Range(p \o k) = Range(p) \union Range(k)
    BY <1>2, RangeJoin
  <2> QED BY <1>2, <2>1, <2>2, RisingJoin
<1>5. /\ sunk' \in Seq(Chunks) /\ Rising(sunk') /\ Range(sunk') = Range(sunk) \union G
  <2> DEFINE g == p \o k
  <2>1. g \in Seq(Chunks) /\ Rising(g) /\ Range(g) = G /\ sunk' = sunk \o g
    BY <1>4
  <2> HIDE DEF g
  <2>2. Below(sunk, g)
    BY <2>1 DEF Below
  <2>3. Rising(sunk) /\ Rising(sunk \o g) /\ Range(sunk \o g) = Range(sunk) \union Range(g)
    BY <1>1, <2>1, <2>2, RisingJoin, RangeJoin DEF Inv, ChunksInv, Line
  <2> QED BY <1>1, <2>1, <2>3
<1>6. Has(todo, Ends) \/ w.finished => p = <<>> /\ k = <<>> /\ buffered = <<>> /\ writing = <<>> /\ w.ending
  <2>1. Has(todo, Ends) => (Whole \/ Idle) /\ w.ending
    BY EndKinds DEF Inv, Ending
  <2>2. w.finished => buffered = <<>> /\ writing = <<>> /\ w.ending
    BY DEF Inv, Ending, FinishIsWhole
  <2> QED BY <2>1, <2>2 DEF Whole, Idle
<1>7. "after" \notin Ends /\ "after" \notin {"finish"} /\ "after" \notin {"endtick"}
  BY DEF Ends
<1>8. /\ Has(q, Ends) <=> Has(todo, Ends)
      /\ Has(q, {"finish"}) <=> Has(todo, {"finish"})
      /\ Has(q, {"endtick"}) <=> Has(todo, {"endtick"})
  BY <1>7 DEF Answered
<1>9. Fits(q, m)
  <2>1. ASSUME NEW c \in Chunks, NEW d \in Chunks, Holds(q, Calls, c), Holds(m, Calls, d) PROVE c < d
    <3>1. c \in Range(sunk)
      BY <1>1, <2>1 DEF Answered, Inv, ChunksInv, Owed
    <3>2. d \in G
      BY <2>1 DEF Gives
    <3> QED BY <3>1, <3>2
  <2>2. \A c \in Chunks : ~Holds(m, Lost, c)
    BY DEF Gives
  <2>3. Has(q, Ends) => ~Has(m, Ends) /\ \A c \in Chunks : ~Holds(m, Calls, c)
    <3>1. Range(<<>>) = {}
      BY RangeOne
    <3> QED BY <1>6, <1>8, <3>1 DEF Gives
  <2> QED BY <2>1, <2>2, <2>3 DEF Fits
<1>10. todo' \in Seq(Items) /\ Fit(todo')
  <2>1. Fit(q) /\ Fit(m)
    BY DEF Answered, Gives
  <2> QED BY <1>2, <1>9, <2>1, FitJoin
<1>11. \A c \in Chunks :
         /\ Holds(todo', Calls, c) <=> Holds(todo, Calls, c) \/ c \in Range(writing) \/ c \in Range(p)
         /\ Holds(todo', Acks, c) <=> Holds(todo, Acks, c) \/ c \in Range(writing) \/ Holds(m, Acks, c)
         /\ Holds(todo', Lost, c) <=> Holds(todo, Lost, c)
  <2>1. \A S, c : Holds(todo', S, c) <=> Holds(q, S, c) \/ Holds(m, S, c)
    BY <1>2, HoldsInJoin
  <2> QED BY <2>1 DEF Answered, Gives
<1>12. /\ Has(todo', Ends) <=> Has(todo, Ends)
       /\ Has(todo', {"finish"}) <=> Has(todo, {"finish"})
       /\ Has(todo', {"endtick"}) <=> Has(todo, {"endtick"})
  <2>1. \A S : Has(todo', S) <=> Has(q, S) \/ Has(m, S)
    BY <1>2, HasInJoin
  <2>2. ~Has(m, Ends) /\ ~Has(m, {"finish"}) /\ ~Has(m, {"endtick"})
    BY EndKinds DEF Gives
  <2> QED BY <1>8, <2>1, <2>2
<1>13. TypeOK'
  <2>1. /\ w' \in States /\ buffered' \in Seq(Chunks) /\ writing' \in Seq(Chunks)
        /\ sunk' \in Seq(Chunks) /\ todo' \in Seq(Items) /\ n' \in 0..MaxWrites
        /\ took' \subseteq Chunks /\ told' \in Seq(Tellings)
    BY <1>1, <1>2, <1>5, <1>10 DEF Given
  <2> QED BY <2>1 DEF TypeOK, States, Items, Tellings
<1>14. Line'
  <2>1. Below(sunk', buffered')
    BY <1>5 DEF Inv, ChunksInv, Line, Below
  <2>2. 1..n \subseteq 1..n'
    BY <1>1
  <2>3. Rising(writing') /\ Range(writing') \subseteq Range(sunk')
    BY <1>5 DEF Gives
  <2> QED BY <1>5, <2>1, <2>2, <2>3 DEF Inv, ChunksInv, Line
<1>15. Owed'
  <2>1. ASSUME NEW c \in Chunks, Holds(todo', Calls, c)
        PROVE  c \in Range(sunk') /\ \A d \in Range(k) : c < d
    <3>1. CASE Holds(todo, Calls, c) \/ c \in Range(writing)
      <4>1. c \in Range(sunk)
        BY <1>1, <3>1 DEF Inv, ChunksInv, Owed
      <4> QED BY <1>5, <4>1
    <3>2. CASE c \in Range(p)
      BY <1>5, <3>2 DEF Gives, Below
    <3> QED BY <1>11, <2>1, <3>1, <3>2
  <2>2. ASSUME NEW c \in Chunks, Holds(todo', Acks, c) PROVE c \in took'
    BY <1>11, <2>2 DEF Inv, ChunksInv, Owed, Answered, Gives
  <2>3. ASSUME NEW c \in Chunks, Holds(todo', Lost, c)
        PROVE  c \notin Range(sunk') /\ c \notin Range(buffered') /\ ~Said(told', c) /\ c <= n'
    <3>1. Holds(todo, Lost, c) /\ c \in Nat
      BY <1>11, <2>3, ZeroIsChunk
    <3>2. c \notin Range(sunk) /\ c \notin Range(buffered) /\ ~Said(told, c) /\ c <= n
      BY <3>1 DEF Inv, ChunksInv, Owed
    <3> QED BY <1>1, <1>5, <3>1, <3>2
  <2> QED BY <1>10, <2>1, <2>2, <2>3 DEF Owed
<1>16. Reported'
  <2>1. ASSUME NEW c \in Chunks, Said(told, c) PROVE c <= n' /\ c \notin Range(buffered')
    <3>1. c \in Nat /\ c <= n /\ c \notin Range(buffered)
      BY <2>1, ZeroIsChunk DEF Inv, ChunksInv, Reported
    <3> QED BY <1>1, <3>1
  <2>2. ASSUME NEW c \in Chunks, Said(told, c), c \in Range(sunk') PROVE c \in Range(sunk)
    BY <1>5, <2>2
  <2>3. ASSUME NEW c \in Chunks, Said(told, c), c \in Range(sunk') PROVE \A d \in Range(k) : c < d
    BY <2>2, <2>3
  <2>4. ASSUME NEW c \in Chunks, Said(told, c), c \in Range(sunk'), NEW d \in Chunks, Holds(todo', Calls, d)
        PROVE  c < d
    <3>1. c \in Range(sunk)
      BY <2>2, <2>4
    <3>2. CASE Holds(todo, Calls, d) \/ d \in Range(writing)
      BY <2>4, <3>1, <3>2 DEF Inv, ChunksInv, Reported
    <3>3. CASE d \in Range(p)
      BY <3>1, <3>3
    <3> QED BY <1>11, <2>4, <3>2, <3>3
  <2>5. ASSUME NEW c \in Chunks, SaidOk(told, c), c > 0 PROVE c \in took'
    BY <2>5 DEF Inv, ChunksInv, Reported, Answered
  <2>6. InLine(told, Range(sunk'))
    <3>1. \A i \in 1..Len(told) : told[i].id \in Chunks /\ Said(told, told[i].id)
      BY <1>1, TellingIds DEF Said
    <3>2. \A i \in 1..Len(told) : told[i].id \in Range(sunk') => told[i].id \in Range(sunk)
      BY <2>2, <3>1
    <3>3. InLine(told, Range(sunk))
      BY DEF Inv, ChunksInv, Reported
    <3> QED BY <3>2, <3>3 DEF InLine
  <2>7. Once(told)
    BY DEF Inv, ChunksInv, Reported
  <2> QED BY <2>1, <2>3, <2>4, <2>5, <2>6, <2>7 DEF Reported
<1>17. Kept'
  <2> SUFFICES ASSUME ~w'.errored, NEW c \in Range(sunk'), c \notin Range(k)
               PROVE  c \in took' /\ (SaidOk(told, c) \/ Holds(todo', Acks, c))
    BY DEF Kept
  <2>1. ~w.errored
    BY DEF Given
  <2>2. CASE c \in Range(sunk)
    <3>1. CASE c \in Range(writing)
      BY <1>1, <1>11, <2>2, <3>1 DEF Answered
    <3>2. CASE c \notin Range(writing)
      BY <1>1, <1>11, <2>1, <2>2, <3>2 DEF Inv, ChunksInv, Kept, Answered
    <3> QED BY <3>1, <3>2
  <2>3. CASE c \in Range(p)
    <3>1. c \in Chunks /\ Holds(m, Acks, c)
      BY <1>3, <2>3 DEF Gives
    <3> QED BY <1>11, <3>1 DEF Gives
  <2> QED BY <1>5, <2>2, <2>3
<1>18. Zero'
  BY <1>11, ZeroIsChunk DEF Inv, ChunksInv, Zero, Given
<1>19. /\ Has(todo, Ends) \/ w.finished => sunk' = sunk /\ buffered' = <<>> /\ writing' = <<>> /\ Range(p) = {}
       /\ Has(todo, Ends) \/ w.finished => Range(writing) = {}
  <2> SUFFICES ASSUME Has(todo, Ends) \/ w.finished
               PROVE  sunk' = sunk /\ buffered' = <<>> /\ writing' = <<>> /\ Range(p) = {} /\ Range(writing) = {}
    OBVIOUS
  <2>1. p = <<>> /\ k = <<>> /\ buffered = <<>> /\ writing = <<>>
    BY <1>6
  <2>2. Range(<<>>) = {}
    BY RangeOne
  <2>3. sunk' = sunk
    BY <1>1, <2>1
  <2>4. buffered' = <<>>
    <3>1. Range(buffered') = {}
      BY <2>1, <2>2
    <3>2. Range(buffered') = {buffered'[i] : i \in 1..Len(buffered')}
      BY RangeOf
    <3>3. buffered' # <<>> => 1 \in 1..Len(buffered')
      OBVIOUS
    <3> QED BY <3>1, <3>2, <3>3
  <2> QED BY <2>1, <2>2, <2>3, <2>4
<1>20. Ending'
  <2>1. Has(todo', {"finish"}) => Whole'
    <3> SUFFICES ASSUME Has(todo', {"finish"}) PROVE Whole'
      OBVIOUS
    <3>1. Has(todo, {"finish"}) /\ Has(todo, Ends)
      BY <1>12, EndKinds
    <3>2. Whole
      BY <3>1 DEF Inv, Ending
    <3>3. \A c \in Range(sunk) : c \in took' /\ (SaidOk(told, c) \/ Holds(todo', Acks, c))
      BY <1>1, <1>11, <3>2 DEF Whole, Answered
    <3> QED BY <1>19, <3>1, <3>3 DEF Whole
  <2>2. Has(todo', {"endtick"}) => Idle'
    <3> SUFFICES ASSUME Has(todo', {"endtick"}) PROVE Idle'
      OBVIOUS
    <3>1. Has(todo, {"endtick"}) /\ Has(todo, Ends)
      BY <1>12, EndKinds
    <3>2. Idle
      BY <3>1 DEF Inv, Ending
    <3> QED BY <1>11, <1>19, <3>1, <3>2 DEF Idle
  <2>3. FinishIsWhole'
    <3> SUFFICES ASSUME w'.finished
                 PROVE  /\ buffered' = <<>> /\ writing' = <<>>
                        /\ \A i \in DOMAIN sunk' : sunk'[i] \in took' /\ [id |-> sunk'[i], ok |-> TRUE] \in Range(told)
      BY DEF FinishIsWhole
    <3>1. w.finished
      BY DEF Given
    <3> QED BY <1>19, <3>1 DEF Inv, Ending, FinishIsWhole, Answered
  <2>4. /\ Has(todo', Ends) \/ w'.final # "no" \/ w'.finished => w'.ending
        /\ Has(todo', Ends) => w'.final # "called" /\ (w'.hasFinal => w'.final # "no")
    BY <1>12 DEF Inv, Ending, Given
  <2> QED BY <2>1, <2>2, <2>3, <2>4 DEF Ending
<1>21. Count'
  <2>1. Slot' = Slot /\ Busy' = IF k = <<>> THEN 0 ELSE 1
    BY <1>12 DEF Slot, Busy, Given
  <2>2. Due(todo') = Due(q) + Due(m) /\ Due(m) \in Nat /\ Due(q) = Due(todo) + Busy
    BY <1>2, DueJoin, DueIsNat DEF Answered
  <2>3. Len(buffered') \in Nat /\ w'.pendingcb \in Nat /\ Busy' \in Nat
    BY <2>1 DEF Given, States
  <2>4. Due(m) + Busy' + Len(buffered') + w.pendingcb <= w'.pendingcb + Len(buffered)
    BY <2>1
  <2>5. /\ Due(todo) \in Nat /\ Busy \in Nat /\ Len(buffered) \in Nat /\ Slot \in Nat /\ w.pendingcb \in Nat
        /\ Due(todo) + Busy + Len(buffered) + Slot <= w.pendingcb
    BY Basics
  <2>6. Due(todo') = Due(todo) + Busy + Due(m) /\ Slot' = Slot
    BY <2>1, <2>2
  <2>7. Due(todo') + Busy' + Len(buffered') + Slot' <= w'.pendingcb
    <3>1. PICK d \in Nat, b \in Nat, l \in Nat, t \in Nat, v \in Nat :
            d = Due(todo) /\ b = Busy /\ l = Len(buffered) /\ t = Slot /\ v = w.pendingcb
      BY <2>5
    <3>2. PICK e \in Nat, f \in Nat, g \in Nat, u \in Nat :
            e = Due(m) /\ f = Busy' /\ g = Len(buffered') /\ u = w'.pendingcb
      BY <2>2, <2>3
    <3>3. d + b + l + t <= v /\ e + f + g + v <= u + l
      BY ONLY <2>4, <2>5, <3>1, <3>2
    <3>4. ((d + b) + e) + f + g + t <= u
      BY ONLY <3>3
    <3>5. Due(todo') = (d + b) + e /\ Slot' = t
      BY ONLY <2>6, <3>1, <3>2
    <3> QED BY ONLY <3>2, <3>4, <3>5
  <2> QED BY <2>7 DEF Count
<1> QED BY <1>13, <1>14, <1>15, <1>16, <1>17, <1>18, <1>20, <1>21 DEF Inv, ChunksInv

\* What the sink was given and answered, given and kept, and the answer's item.
NowGiven(now, s) == IF now = "later" THEN <<>> ELSE s
NowKept(now, s) == IF now = "later" THEN s ELSE <<>>
NowDone(now, s) == IF now = "later" THEN <<>> ELSE <<Item(now, s)>>

\* A sequence given as a whole makes one item, unless the sink answers later.
LEMMA GivesOne ==
  ASSUME NEW now \in Outcomes \union {"later"}, NEW s \in Seq(Chunks), s # <<>>, Rising(s),
         now = "after" => Range(s) \subseteq took', now = "werror" => w'.errored
  PROVE  /\ Gives(NowGiven(now, s), NowKept(now, s), NowDone(now, s))
         /\ Range(NowGiven(now, s)) \union Range(NowKept(now, s)) = Range(s)
         /\ NowGiven(now, s) \o NowKept(now, s) = s
         /\ Due(NowDone(now, s)) \in Nat
         /\ Due(NowDone(now, s)) + (IF NowKept(now, s) = <<>> THEN 0 ELSE 1) = 1
<1> DEFINE p == NowGiven(now, s)
           k == NowKept(now, s)
           m == NowDone(now, s)
<1>1. /\ Range(<<>>) = {} /\ Rising(<<>>) /\ Fit(<<>>) /\ <<>> \in Seq(Chunks) /\ <<>> \in Seq(Items)
      /\ Due(<<>>) = 0 /\ \A S, c : ~Holds(<<>>, S, c) /\ ~Has(<<>>, S)
  <2>5. Range(<<>>) = {}
    BY RangeOne
  <2>6. <<>> \in Seq(Chunks) /\ <<>> \in Seq(Items)
    OBVIOUS
  <2>1. Range(<<>>) = {} /\ <<>> \in Seq(Chunks) /\ <<>> \in Seq(Items)
    BY <2>5, <2>6
  <2>4. Rising(<<>>)
    BY DEF Rising
  <2>2. \A S, c : ~Holds(<<>>, S, c) /\ ~Has(<<>>, S)
    BY DEF Holds, Has
  <2>3. Plain(<<>>)
    BY DEF Plain
  <2> QED BY <2>1, <2>2, <2>3, <2>4, PlainQueue
<1>2. CASE now = "later"
  <2>1. p = <<>> /\ k = s /\ m = <<>>
    BY <1>2 DEF NowGiven, NowKept, NowDone
  <2> HIDE DEF p, k, m
  <2>2. Below(p, k) /\ p \o k = s
    BY <1>1, <2>1 DEF Below
  <2>3. Gives(p, k, m)
    BY <1>1, <2>1, <2>2 DEF Gives
  <2> QED BY <1>1, <2>1, <2>2, <2>3 DEF p, k, m
<1>3. CASE now # "later"
  <2> DEFINE x == Item(now, s)
             a == <<x>>
  <2>1. p = s /\ k = <<>> /\ m = a
    BY <1>3 DEF NowGiven, NowKept, NowDone
  <2> HIDE DEF p, k, m
  <2>2. Below(p, k) /\ p \o k = s
    BY <1>1, <2>1 DEF Below
  <2>3. now \in {"after", "werror"} /\ x.op = now /\ x.ids = s /\ x \in Items
    BY <1>3 DEF Outcomes, Item, Items, Ops
  <2>4. now \in Calls /\ now \notin Lost /\ now \notin Ends /\ (now \in Acks <=> now = "after")
    BY <2>3 DEF Calls, Lost, Ends, Acks
  <2>5. Shaped(x)
    BY <2>3, <2>4 DEF Shaped
  <2>6. \A S, c : /\ Holds(a, S, c) <=> now \in S /\ c \in Range(s)
                  /\ Has(a, S) <=> now \in S
    <3> TAKE S, c
    <3>1. /\ Holds(a, S, c) <=> x.op \in S /\ c \in Range(x.ids)
          /\ Has(a, S) <=> x.op \in S
      BY <2>3, OneItem
    <3> QED BY <2>3, <3>1
  <2>7. Fit(a) /\ Due(a) = 1 /\ a \in Seq(Items)
    BY <2>3, <2>4, <2>5, OneItem, DueOne
  <2> HIDE DEF a, x
  <2>8. \A c \in Range(s) : Holds(m, Acks, c) <=> now = "after"
    BY <2>1, <2>4, <2>6
  <2>9. \A c \in Chunks :
          /\ Holds(m, Calls, c) <=> c \in Range(p)
          /\ Holds(m, Acks, c) => c \in took'
          /\ ~Holds(m, Lost, c)
    <3> TAKE c \in Chunks
    <3>1. Holds(m, Calls, c) <=> c \in Range(p)
      BY <2>1, <2>4, <2>6
    <3>2. Holds(m, Acks, c) => c \in took'
      <4> SUFFICES ASSUME Holds(m, Acks, c) PROVE c \in took'
        OBVIOUS
      <4>1. now = "after" /\ c \in Range(s)
        BY <2>1, <2>4, <2>6
      <4> QED BY <4>1
    <3>3. ~Holds(m, Lost, c)
      BY <2>1, <2>4, <2>6
    <3> QED BY <3>1, <3>2, <3>3
  <2>10. ~w'.errored => \A c \in Range(p) : Holds(m, Acks, c)
    BY <2>1, <2>3, <2>8
  <2>11. ~Has(m, Ends)
    BY <2>1, <2>4, <2>6
  <2>12. Gives(p, k, m)
    <3>1. p \in Seq(Chunks) /\ k \in Seq(Chunks) /\ m \in Seq(Items) /\ Rising(p) /\ Rising(k) /\ Fit(m)
      BY <1>1, <2>1, <2>7
    <3> QED BY <2>2, <2>9, <2>10, <2>11, <3>1 DEF Gives
  <2> QED BY <1>1, <2>1, <2>2, <2>7, <2>12 DEF p, k, m
<1> QED BY <1>2, <1>3

\* A write that goes to the sink at once.
LEMMA WriteThroughStep ==
  ASSUME TypeOK, Inv, WriteThrough
  PROVE  TypeOK' /\ Inv'
<1> DEFINE z == n + 1
           s == <<z>>
<1>1. PICK now \in Outcomes \union {"later"} :
        /\ n < MaxWrites /\ n' = z /\ ~w.ending /\ ~w.destroyed /\ Free
        /\ sunk' = Append(sunk, z)
        /\ writing' = (IF now = "later" THEN s ELSE <<>>)
        /\ took' = (IF now = "after" THEN took \union {z} ELSE took)
        /\ w' = [Accepted EXCEPT !.errored = now = "werror"]
        /\ todo' = (IF now = "later" THEN todo ELSE Append(todo, Item(now, s)))
        /\ UNCHANGED <<buffered, told>>
  BY DEF WriteThrough
<1>2. n \in Nat /\ z \in Chunks /\ z \in Nat /\ n' \in 0..MaxWrites /\ z > n /\ {z} \subseteq 1..z
  BY <1>1, ChunkRanges, WritableAssumption DEF Chunks
<1>3. /\ buffered \in Seq(Chunks) /\ writing \in Seq(Chunks) /\ Len(buffered) \in Nat /\ Len(writing) \in Nat
      /\ sunk \in Seq(Chunks) /\ took \subseteq Chunks /\ w \in States /\ todo \in Seq(Items)
      /\ Range(sunk) \subseteq Chunks
  BY Types, ChunkRanges
<1>4. writing = <<>> /\ w.corked = 0 /\ ~w.errored /\ buffered = <<>>
  BY <1>1 DEF Free, Inv, ChunksInv, Flow
<1>5. /\ w' \in States /\ w'.pendingcb = w.pendingcb + 1
      /\ w'.ending = w.ending /\ w'.final = w.final /\ w'.endcb = w.endcb /\ w'.finished = w.finished
      /\ w'.hasFinal = w.hasFinal /\ w'.errored = (now = "werror") /\ w'.destroyed = w.destroyed
  <2>1. w.pendingcb + 1 \in Nat /\ (w.needDrain \/ Length + 1 >= HighWaterMark) \in BOOLEAN
    BY <1>3 DEF States
  <2>2. (now = "werror") \in BOOLEAN
    OBVIOUS
  <2> QED BY <1>1, <1>3, <2>1, <2>2 DEF States, Accepted
<1>6. s \in Seq(Chunks) /\ s # <<>> /\ Rising(s) /\ Range(s) = {z} /\ Append(sunk, z) = sunk \o s
  <2>1. Rising(<<z>>)
    BY <1>2 DEF Rising
  <2>2. Range(<<z>>) = {z}
    BY RangeOne
  <2> QED BY <1>2, <1>3, <2>1, <2>2
<1> HIDE DEF z
<1>7. took \subseteq took' /\ took' \subseteq Chunks /\ (now = "after" => Range(s) \subseteq took')
  BY <1>1, <1>2, <1>3, <1>6
<1> HIDE DEF s
<1> DEFINE p == NowGiven(now, s)
           k == NowKept(now, s)
           m == NowDone(now, s)
<1>8. todo' = todo \o m
  <2>1. CASE now = "later"
    BY <1>1, <1>3, <2>1 DEF NowDone
  <2>2. CASE now # "later"
    <3>1. Item(now, s) \in Items
      BY <1>6, <2>2 DEF Item, Items, Ops, Outcomes
    <3> QED BY <1>1, <1>3, <2>2, <3>1 DEF NowDone
  <2> QED BY <2>1, <2>2
<1>9. writing' = k
  BY <1>1 DEF NowKept
<1>10. /\ Gives(p, k, m) /\ Range(p) \union Range(k) = Range(s) /\ p \o k = s
       /\ Due(m) \in Nat /\ Due(m) + (IF k = <<>> THEN 0 ELSE 1) = 1
  <2>1. now = "werror" => w'.errored
    BY <1>5
  <2>5. now \in Outcomes \union {"later"}
    BY <1>1
  <2> QED BY <1>6, <1>7, <2>1, <2>5, GivesOne
<1> HIDE DEF p, k, m
<1>11. sunk' = sunk \o (p \o k)
  BY <1>1, <1>6, <1>10
<1>12. Given /\ Answered(todo, took)
  BY <1>4, <1>5, AnsweredNothing DEF Given
<1>13. buffered' = <<>> /\ Rising(buffered') /\ Range(buffered') = {} /\ buffered' \in Seq(Chunks) /\ Len(buffered') = 0
  <2>1. Rising(<<>>)
    BY DEF Rising
  <2>2. Range(<<>>) = {}
    BY RangeOne
  <2> QED BY <1>1, <1>4, <2>1, <2>2
<1>14. Flow'
  BY <1>13 DEF Flow
<1>15. ~Said(told, z) /\ ~Holds(todo, Lost, z) /\ \A c \in Range(sunk) : c < z
  <2>1. ~(z <= n)
    BY <1>2
  <2>2. ~Said(told, z) /\ ~Holds(todo, Lost, z)
    BY <1>2, <2>1 DEF Inv, ChunksInv, Reported, Owed
  <2>3. \A c \in Range(sunk) : c \in 1..n
    BY DEF Inv, ChunksInv, Line
  <2> QED BY <1>2, <2>2, <2>3
<1>16. Due(m) + (IF k = <<>> THEN 0 ELSE 1) + Len(buffered') + w.pendingcb <= w'.pendingcb + Len(buffered)
  <2>1. w.pendingcb \in Nat /\ Len(buffered) = 0
    BY <1>3, <1>4 DEF States
  <2> QED BY <1>5, <1>10, <1>13, <2>1
<1> DEFINE G == Range(p) \union Range(k)
<1>17. G = {z}
  BY <1>6, <1>10
<1>18. n' = z /\ n <= n' /\ n' \in 0..MaxWrites /\ G \subseteq 1..n'
  BY <1>1, <1>2, <1>17
<1>19. G = Range(p) \union Range(k)
  OBVIOUS
<1> HIDE DEF G
<1>20. told' = told /\ Range(buffered') \subseteq Range(buffered)
  BY <1>1, <1>13
<1>21. \A c \in Range(sunk), d \in G : c < d
  BY <1>15, <1>17
<1>22. \A c \in G, d \in Range(buffered') : c < d
  BY <1>13
<1>23. \A c \in G : ~Said(told, c) /\ ~Holds(todo, Lost, c)
  BY <1>15, <1>17
<1>24. w.ending /\ buffered = <<>> => p = <<>> /\ k = <<>>
  BY <1>1
<1> QED BY <1>7, <1>8, <1>9, <1>10, <1>11, <1>12, <1>13, <1>14, <1>16, <1>18, <1>19, <1>20, <1>21, <1>22, <1>23, <1>24, GiveStep

------------------------------------------------------------------------------
(* clearBuffer.                                                            *)

\* A rising sequence cut in three: the first k, the next, the rest.
LEMMA Cut ==
  ASSUME NEW s \in Seq(Chunks), Rising(s), NEW k \in 0..Len(s)
  PROVE  LET p == SubSeq(s, 1, k)
             h == IF k < Len(s) THEN <<s[k + 1]>> ELSE <<>>
             r == SubSeq(s, k + 2, Len(s))
         IN  /\ p \in Seq(Chunks) /\ h \in Seq(Chunks) /\ r \in Seq(Chunks)
             /\ Rising(p) /\ Rising(h) /\ Rising(r) /\ Below(p, h)
             /\ Range(p) = {s[i] : i \in 1..k}
             /\ Range(p) \union Range(h) \subseteq Range(s) /\ Range(r) \subseteq Range(s)
             /\ \A c \in Range(p) \union Range(h), d \in Range(r) : c < d
             /\ k + (IF h = <<>> THEN 0 ELSE 1) + Len(r) = Len(s)
             /\ h = <<>> => r = <<>>
<1> DEFINE p == SubSeq(s, 1, k)
           h == IF k < Len(s) THEN <<s[k + 1]>> ELSE <<>>
           r == SubSeq(s, k + 2, Len(s))
<1>1. Len(s) \in Nat /\ k \in Nat /\ k <= Len(s)
  OBVIOUS
<1>2. p \in Seq(Chunks) /\ Len(p) = k /\ \A i \in 1..k : i \in 1..Len(s) /\ p[i] = s[i]
  BY <1>1
<1>3. /\ r \in Seq(Chunks) /\ Len(r) = (IF k < Len(s) THEN Len(s) - k - 1 ELSE 0)
      /\ \A i \in 1..Len(r) : k + 1 + i \in 1..Len(s) /\ r[i] = s[k + 1 + i]
  <2>1. CASE k < Len(s)
    BY <1>1, <2>1
  <2>2. CASE k = Len(s)
    BY <1>1, <2>2
  <2> QED BY <1>1, <2>1, <2>2
<1>4. /\ h \in Seq(Chunks) /\ Len(h) = (IF k < Len(s) THEN 1 ELSE 0) /\ (h = <<>> <=> ~(k < Len(s)))
      /\ \A i \in 1..Len(h) : i = 1 /\ k + 1 \in 1..Len(s) /\ h[i] = s[k + 1]
  <2>1. CASE k < Len(s)
    BY <1>1, <2>1
  <2>2. CASE ~(k < Len(s))
    BY <1>1, <2>2
  <2> QED BY <2>1, <2>2
<1> HIDE DEF p, h, r
<1>5. /\ Range(p) = {p[i] : i \in 1..k} /\ Range(h) = {h[i] : i \in 1..Len(h)}
      /\ Range(r) = {r[i] : i \in 1..Len(r)} /\ Range(s) = {s[i] : i \in 1..Len(s)}
  <2>1. Range(p) = {p[i] : i \in 1..Len(p)}
    BY <1>2, RangeOf
  <2>2. Range(h) = {h[i] : i \in 1..Len(h)}
    BY <1>4, RangeOf
  <2>3. Range(r) = {r[i] : i \in 1..Len(r)}
    BY <1>3, RangeOf
  <2>4. Range(s) = {s[i] : i \in 1..Len(s)}
    BY RangeOf
  <2> QED BY <1>2, <2>1, <2>2, <2>3, <2>4
<1>6. \A i, j \in 1..Len(s) : i < j => s[i] < s[j]
  BY DEF Rising
<1>7. Rising(p)
  BY <1>1, <1>2, <1>6 DEF Rising
<1>8. Rising(h)
  BY <1>1, <1>4 DEF Rising
<1>9. Rising(r)
  <2> SUFFICES ASSUME NEW i \in 1..Len(r), NEW j \in 1..Len(r), i < j PROVE r[i] < r[j]
    BY DEF Rising
  <2>1. k + 1 + i \in 1..Len(s) /\ k + 1 + j \in 1..Len(s) /\ k + 1 + i < k + 1 + j
    BY <1>1, <1>3
  <2> QED BY <1>3, <1>6, <2>1
<1>10. Range(p) = {s[i] : i \in 1..k}
  BY <1>2, <1>5
<1>11. \A c \in Range(p) : \E i \in 1..Len(s) : i <= k /\ c = s[i]
  BY <1>1, <1>2, <1>10
<1>12. \A c \in Range(h) : \E i \in 1..Len(s) : i = k + 1 /\ c = s[i]
  BY <1>1, <1>4, <1>5
<1>13. \A c \in Range(r) : \E i \in 1..Len(s) : i > k + 1 /\ c = s[i]
  <2> SUFFICES ASSUME NEW j \in 1..Len(r) PROVE \E i \in 1..Len(s) : i > k + 1 /\ r[j] = s[i]
    BY <1>5
  <2>1. k + 1 + j \in 1..Len(s) /\ k + 1 + j > k + 1
    BY <1>1, <1>3
  <2> QED BY <1>3, <2>1
<1>14. Range(p) \union Range(h) \subseteq Range(s) /\ Range(r) \subseteq Range(s)
  BY <1>5, <1>11, <1>12, <1>13
<1>15. Below(p, h)
  <2> SUFFICES ASSUME NEW c \in Range(p), NEW d \in Range(h) PROVE c < d
    BY DEF Below
  <2>1. PICK i \in 1..Len(s) : i <= k /\ c = s[i]
    BY <1>11
  <2>2. PICK j \in 1..Len(s) : j = k + 1 /\ d = s[j]
    BY <1>12
  <2>3. i < j
    BY <1>1, <2>1, <2>2
  <2> QED BY <1>6, <2>1, <2>2, <2>3
<1>16. ASSUME NEW c \in Range(p) \union Range(h), NEW d \in Range(r) PROVE c < d
  <2>1. PICK i \in 1..Len(s) : i <= k + 1 /\ c = s[i]
    BY <1>1, <1>11, <1>12
  <2>2. PICK j \in 1..Len(s) : j > k + 1 /\ d = s[j]
    BY <1>13
  <2>3. i < j
    BY <1>1, <2>1, <2>2
  <2> QED BY <1>6, <2>1, <2>2, <2>3
<1>17. k + (IF h = <<>> THEN 0 ELSE 1) + Len(r) = Len(s)
  BY <1>1, <1>3, <1>4
<1>18. h = <<>> => r = <<>>
  BY <1>1, <1>3, <1>4
<1>19. p \in Seq(Chunks) /\ h \in Seq(Chunks) /\ r \in Seq(Chunks)
  BY <1>2, <1>3, <1>4
<1> QED BY <1>7, <1>8, <1>9, <1>10, <1>14, <1>15, <1>16, <1>17, <1>18, <1>19 DEF p, h, r

\* One item for each of the first chunks of a rising sequence.
EachDone(s, k, o) == [i \in 1..k |-> Item(o[i], <<s[i]>>)]

\* It fits, and answers them.
LEMMA OneEach ==
  ASSUME NEW s \in Seq(Chunks), Rising(s), NEW k \in 0..Len(s), NEW o \in [1..k -> Outcomes]
  PROVE  LET m == EachDone(s, k, o)
         IN  /\ m \in Seq(Items) /\ Fit(m) /\ ~Has(m, Ends) /\ Due(m) = k
             /\ \A c \in Chunks : /\ Holds(m, Calls, c) <=> \E i \in 1..k : c = s[i]
                                  /\ Holds(m, Acks, c) <=> \E i \in 1..k : o[i] = "after" /\ c = s[i]
                                  /\ ~Holds(m, Lost, c)
<1> DEFINE m == EachDone(s, k, o)
<1>1. Len(s) \in Nat /\ k \in Nat /\ \A i \in 1..k : i \in 1..Len(s) /\ s[i] \in Chunks
  OBVIOUS
<1>2. \A i \in 1..k : Item(o[i], <<s[i]>>) \in Items
  BY <1>1 DEF Item, Items, Ops, Outcomes
<1>3. m \in Seq(Items) /\ Len(m) = k
  BY <1>1, <1>2 DEF EachDone
<1>4. ASSUME NEW i \in 1..k
      PROVE  /\ m[i].op = o[i] /\ m[i].ids = <<s[i]>> /\ Range(m[i].ids) = {s[i]}
             /\ o[i] \in {"after", "werror"}
  <2>1. Range(<<s[i]>>) = {s[i]}
    BY RangeOne
  <2>2. m[i] = Item(o[i], <<s[i]>>)
    BY DEF EachDone
  <2>3. m[i].op = o[i] /\ m[i].ids = <<s[i]>>
    BY <2>2 DEF Item
  <2> QED BY <2>1, <2>3 DEF Outcomes
<1> HIDE DEF m
<1>5. \A i \in 1..k : m[i].op \in Calls /\ m[i].op \notin Lost /\ m[i].op \notin Ends /\ (m[i].op \in Acks <=> o[i] = "after")
  BY <1>4 DEF Calls, Lost, Ends, Acks
<1>6. ASSUME NEW i \in 1..k PROVE Shaped(m[i])
  <2>1. Rising(<<s[i]>>)
    BY DEF Rising
  <2>2. <<s[i]>> # <<>>
    OBVIOUS
  <2>3. m[i].ids = <<s[i]>> /\ m[i].op \in Calls /\ m[i].op \notin Lost
    BY <1>4, <1>5
  <2> QED BY ONLY <2>1, <2>2, <2>3 DEF Shaped
<1>7. ASSUME NEW i \in 1..k, NEW j \in 1..k, i < j PROVE Below(m[i].ids, m[j].ids)
  <2>1. s[i] < s[j]
    BY <1>1, <1>7 DEF Rising
  <2> QED BY <1>4, <2>1 DEF Below
<1>8. Fit(m)
  BY <1>3, <1>5, <1>6, <1>7 DEF Fit
<1>9. ~Has(m, Ends)
  BY <1>3, <1>5 DEF Has
<1>10. Due(m) = k
  <2>1. DueAt(m) = 1..k
    BY <1>3, <1>5 DEF DueAt
  <2>2. Cardinality(1..k) = k
    <3>1. Cardinality(1..k) = IF 1 > k THEN 0 ELSE k - 1 + 1
      BY <1>1, FS_Interval
    <3> QED BY <1>1, <3>1
  <2> QED BY <2>1, <2>2 DEF Due
<1>11. \A c \in Chunks : /\ Holds(m, Calls, c) <=> \E i \in 1..k : c = s[i]
                         /\ Holds(m, Acks, c) <=> \E i \in 1..k : o[i] = "after" /\ c = s[i]
                         /\ ~Holds(m, Lost, c)
  <2> TAKE c \in Chunks
  <2>1. \A S : Holds(m, S, c) <=> \E i \in 1..k : m[i].op \in S /\ c \in Range(m[i].ids)
    BY <1>3 DEF Holds
  <2>2. \A i \in 1..k : c \in Range(m[i].ids) <=> c = s[i]
    BY <1>4
  <2> QED BY <1>5, <2>1, <2>2
<1> QED BY <1>3, <1>8, <1>9, <1>10, <1>11 DEF m

\* A state of the flags that differs at most in what the invariant does not read
\* or, uncorked, in corked.
SameFlags(v) ==
  /\ v \in States
  /\ v.pendingcb = w.pendingcb /\ v.ending = w.ending /\ v.final = w.final /\ v.endcb = w.endcb
  /\ v.finished = w.finished /\ v.hasFinal = w.hasFinal /\ v.errored = w.errored
  /\ v.destroyed = w.destroyed

\* Before: buffered chunks come after those the sink got, and nobody was told of them.
LEMMA BufferedAreNew ==
  ASSUME TypeOK, Inv
  PROVE  /\ Range(buffered) \subseteq 1..n /\ Rising(buffered) /\ Range(buffered) \subseteq Chunks
         /\ \A c \in Range(sunk), d \in Range(buffered) : c < d
         /\ \A c \in Range(buffered) : ~Said(told, c) /\ ~Holds(todo, Lost, c)
<1>1. Range(buffered) \subseteq Chunks
  BY ChunkRanges
<1> QED BY <1>1 DEF Inv, ChunksInv, Line, Below, Reported, Owed

\* Nothing to give, or the stream may not.
LEMMA ClearNothing ==
  ASSUME TypeOK, Inv, NEW v, SameFlags(v), NEW acked, NEW q, Answered(q, took \union acked),
         v.corked > 0 \/ v.destroyed \/ buffered = <<>>,
         w' = v, todo' = q, writing' = <<>>, took' = took \union acked,
         UNCHANGED <<buffered, sunk, n, told>>
  PROVE  TypeOK' /\ Inv'
<1>1. /\ buffered \in Seq(Chunks) /\ sunk \in Seq(Chunks) /\ n \in Nat /\ n \in 0..MaxWrites
      /\ Len(buffered) \in Nat /\ w.pendingcb \in Nat
  BY Types, ChunkRanges, Basics
<1>2. Range(<<>>) = {} /\ <<>> \in Seq(Chunks)
  <2>1. Range(<<>>) = {}
    BY RangeOne
  <2>2. <<>> \in Seq(Chunks)
    OBVIOUS
  <2> QED BY <2>1, <2>2
<1>3. <<>> \in Seq(Items) /\ Due(<<>>) = 0
  <2>1. <<>> \in Seq(Items)
    OBVIOUS
  <2>2. Do("close") \in Items
    BY DEF Items, Do, Item, Ops
  <2> QED BY <2>1, <2>2, DueOne
<1>4. Gives(<<>>, <<>>, <<>>)
  <2>1. \A S, c : ~Holds(<<>>, S, c) /\ ~Has(<<>>, S)
    BY DEF Holds, Has
  <2>2. Rising(<<>>)
    BY DEF Rising
  <2>3. Plain(<<>>)
    BY DEF Plain
  <2>4. Fit(<<>>)
    BY <1>3, <2>3, PlainQueue
  <2>5. Below(<<>>, <<>>)
    BY <1>2 DEF Below
  <2> QED BY <1>2, <1>3, <2>1, <2>2, <2>4, <2>5 DEF Gives
<1>5. Given
  BY DEF Given, SameFlags
<1>6. Flow'
  <2>1. w'.corked \in 0..1
    BY DEF SameFlags, States
  <2> QED BY <2>1 DEF Flow
<1>7. todo' = q \o <<>> /\ sunk' = sunk \o (<<>> \o <<>>)
  <2>1. q \in Seq(Items)
    BY DEF Answered
  <2> QED BY <1>1, <2>1
<1>8. took \union acked \subseteq took' /\ took' \subseteq Chunks
  BY DEF Answered
<1>9. buffered' \in Seq(Chunks) /\ Rising(buffered') /\ Range(buffered') \subseteq Range(buffered)
  BY <1>1, BufferedAreNew
<1>10. Due(<<>>) + (IF <<>> = <<>> THEN 0 ELSE 1) + Len(buffered') + w.pendingcb <= w'.pendingcb + Len(buffered)
  BY <1>1, <1>3 DEF SameFlags
<1>11. {} = Range(<<>>) \union Range(<<>>)
  BY <1>2
<1>12. n' \in 0..MaxWrites /\ n <= n' /\ writing' = <<>> /\ told' = told
  BY <1>1
<1> QED BY ZenonT(60), <1>4, <1>5, <1>6, <1>7, <1>8, <1>9, <1>10, <1>11, <1>12, GiveStep

\* _writev takes everything that is buffered.
LEMMA ClearAtOnceStep ==
  ASSUME TypeOK, Inv, NEW v, SameFlags(v), NEW acked, NEW q, Answered(q, took \union acked),
         Len(buffered) > 1, ClearAtOnce(v, q, acked), n' = n, told' = told
  PROVE  TypeOK' /\ Inv'
<1>1. PICK now \in Outcomes \union {"later"} :
        /\ writing' = (IF now = "later" THEN buffered ELSE <<>>)
        /\ buffered' = <<>>
        /\ sunk' = sunk \o buffered
        /\ took' = took \union acked \union (IF now = "after" THEN Range(buffered) ELSE {})
        /\ w' = [v EXCEPT !.errored = @ \/ now = "werror", !.pendingcb = @ - (Len(buffered) - 1)]
        /\ todo' = (IF now = "later" THEN q ELSE Append(q, Item(now, buffered)))
  BY DEF ClearAtOnce
<1>2. /\ buffered \in Seq(Chunks) /\ sunk \in Seq(Chunks) /\ n \in Nat /\ n \in 0..MaxWrites
      /\ Len(buffered) \in Nat /\ w.pendingcb \in Nat /\ took \subseteq Chunks /\ q \in Seq(Items)
      /\ buffered # <<>>
  BY Types, ChunkRanges, Basics DEF Answered
<1>3. /\ Range(buffered) \subseteq 1..n /\ Rising(buffered) /\ Range(buffered) \subseteq Chunks
      /\ \A c \in Range(sunk), d \in Range(buffered) : c < d
      /\ \A c \in Range(buffered) : ~Said(told, c) /\ ~Holds(todo, Lost, c)
  BY BufferedAreNew
<1>4. w.pendingcb - (Len(buffered) - 1) \in Nat
  <2>1. PICK d \in Nat, b \in Nat, l \in Nat, t \in Nat, u \in Nat :
          d = Due(todo) /\ b = Busy /\ l = Len(buffered) /\ t = Slot /\ u = w.pendingcb
    BY Basics
  <2>2. d + b + l + t <= u /\ l > 1
    BY <2>1, Basics
  <2>3. u - (l - 1) \in Nat
    BY ONLY <2>2
  <2> QED BY <2>1, <2>3
<1>5. /\ w' \in States /\ w'.pendingcb = w.pendingcb - (Len(buffered) - 1)
      /\ w'.ending = w.ending /\ w'.final = w.final /\ w'.endcb = w.endcb /\ w'.finished = w.finished
      /\ w'.hasFinal = w.hasFinal /\ w'.errored = (w.errored \/ now = "werror") /\ w'.destroyed = w.destroyed
  <2>1. (w.errored \/ now = "werror") \in BOOLEAN
    BY Basics DEF States
  <2> QED BY <1>1, <1>4, <2>1 DEF SameFlags, States
<1> DEFINE p == NowGiven(now, buffered)
           k == NowKept(now, buffered)
           m == NowDone(now, buffered)
<1>6. todo' = q \o m
  <2>1. CASE now = "later"
    BY <1>1, <1>2, <2>1 DEF NowDone
  <2>2. CASE now # "later"
    <3>1. Item(now, buffered) \in Items
      BY <1>2, <2>2 DEF Item, Items, Ops, Outcomes
    <3> QED BY <1>1, <1>2, <2>2, <3>1 DEF NowDone
  <2> QED BY <2>1, <2>2
<1>7. writing' = k
  BY <1>1 DEF NowKept
<1>8. /\ Gives(p, k, m) /\ Range(p) \union Range(k) = Range(buffered) /\ p \o k = buffered
      /\ Due(m) \in Nat /\ Due(m) + (IF k = <<>> THEN 0 ELSE 1) = 1
  <2>1. now = "werror" => w'.errored
    BY <1>5
  <2>2. now = "after" => Range(buffered) \subseteq took'
    BY <1>1
  <2>3. now \in Outcomes \union {"later"}
    BY <1>1
  <2> QED BY <1>2, <1>3, <2>1, <2>2, <2>3, GivesOne
<1> HIDE DEF p, k, m
<1>9. sunk' = sunk \o (p \o k)
  BY <1>1, <1>8
<1>10. Given
  BY <1>5 DEF Given
<1>11. buffered' = <<>> /\ Rising(buffered') /\ Range(buffered') = {} /\ buffered' \in Seq(Chunks) /\ Len(buffered') = 0
  <2>1. Rising(<<>>)
    BY DEF Rising
  <2>2. Range(<<>>) = {}
    BY RangeOne
  <2> QED BY <1>1, <1>2, <2>1, <2>2
<1>12. Flow'
  BY <1>11 DEF Flow
<1>13. took \union acked \subseteq took' /\ took' \subseteq Chunks
  BY <1>1, <1>3 DEF Answered
<1>14. Due(m) + (IF k = <<>> THEN 0 ELSE 1) + Len(buffered') + w.pendingcb <= w'.pendingcb + Len(buffered)
  <2>1. PICK e \in Nat, f \in Nat, l \in Nat, u \in Nat :
          e = Due(m) /\ f = (IF k = <<>> THEN 0 ELSE 1) /\ l = Len(buffered) /\ u = w.pendingcb
    BY <1>2, <1>8
  <2>2. e + f = 1 /\ w'.pendingcb = u - (l - 1) /\ Len(buffered') = 0
    BY <1>5, <1>8, <1>11, <2>1
  <2>3. e + f + 0 + u <= (u - (l - 1)) + l
    BY ONLY <2>2
  <2> QED BY <2>1, <2>2, <2>3
<1> DEFINE G == Range(p) \union Range(k)
<1>15. G = Range(buffered)
  BY <1>8
<1>16. G = Range(p) \union Range(k)
  OBVIOUS
<1> HIDE DEF G
<1>17. n' \in 0..MaxWrites /\ n <= n' /\ G \subseteq 1..n' /\ Range(buffered') \subseteq Range(buffered)
  BY <1>2, <1>3, <1>11, <1>15
<1>18. \A c \in Range(sunk), d \in G : c < d
  BY <1>3, <1>15
<1>19. \A c \in G, d \in Range(buffered') : c < d
  BY <1>11
<1>20. \A c \in G : ~Said(told, c) /\ ~Holds(todo, Lost, c)
  BY <1>3, <1>15
<1>21. w.ending /\ buffered = <<>> => p = <<>> /\ k = <<>>
  BY <1>2
<1> QED BY ZenonT(60), <1>6, <1>7, <1>8, <1>9, <1>10, <1>11, <1>12, <1>13, <1>14, <1>16, <1>17, <1>18, <1>19, <1>20, <1>21, GiveStep

\* The loop: the sink answers k chunks before _write returns, and keeps the next.
LEMMA ClearOneByOneStep ==
  ASSUME TypeOK, Inv, NEW v, SameFlags(v), NEW acked, NEW q, Answered(q, took \union acked),
         buffered # <<>>, ClearOneByOne(v, q, acked), n' = n, told' = told
  PROVE  TypeOK' /\ Inv'
<1>1. PICK k \in 0..Len(buffered) : \E o \in [1..k -> Outcomes] :
        /\ writing' = (IF k < Len(buffered) THEN <<buffered[k + 1]>> ELSE <<>>)
        /\ buffered' = SubSeq(buffered, k + 2, Len(buffered))
        /\ sunk' = sunk \o SubSeq(buffered, 1, k) \o writing'
        /\ took' = took \union acked \union {buffered[i] : i \in {j \in 1..k : o[j] = "after"}}
        /\ w' = [v EXCEPT !.errored = @ \/ \E i \in 1..k : o[i] = "werror"]
        /\ todo' = q \o [i \in 1..k |-> Item(o[i], <<buffered[i]>>)]
  BY DEF ClearOneByOne, Clear
<1>2. PICK o \in [1..k -> Outcomes] :
        /\ writing' = (IF k < Len(buffered) THEN <<buffered[k + 1]>> ELSE <<>>)
        /\ buffered' = SubSeq(buffered, k + 2, Len(buffered))
        /\ sunk' = sunk \o SubSeq(buffered, 1, k) \o writing'
        /\ took' = took \union acked \union {buffered[i] : i \in {j \in 1..k : o[j] = "after"}}
        /\ w' = [v EXCEPT !.errored = @ \/ \E i \in 1..k : o[i] = "werror"]
        /\ todo' = q \o [i \in 1..k |-> Item(o[i], <<buffered[i]>>)]
  BY <1>1
<1>3. /\ buffered \in Seq(Chunks) /\ sunk \in Seq(Chunks) /\ n \in Nat /\ n \in 0..MaxWrites
      /\ Len(buffered) \in Nat /\ w.pendingcb \in Nat /\ took \subseteq Chunks /\ q \in Seq(Items)
      /\ k \in 0..Len(buffered) /\ k \in Nat
  BY Types, ChunkRanges, Basics DEF Answered
<1>4. /\ Range(buffered) \subseteq 1..n /\ Rising(buffered) /\ Range(buffered) \subseteq Chunks
      /\ \A c \in Range(sunk), d \in Range(buffered) : c < d
      /\ \A c \in Range(buffered) : ~Said(told, c) /\ ~Holds(todo, Lost, c)
  BY BufferedAreNew
<1>5. /\ w' \in States /\ w'.pendingcb = w.pendingcb
      /\ w'.ending = w.ending /\ w'.final = w.final /\ w'.endcb = w.endcb /\ w'.finished = w.finished
      /\ w'.hasFinal = w.hasFinal /\ w'.destroyed = w.destroyed
      /\ w'.errored = (w.errored \/ \E i \in 1..k : o[i] = "werror")
  <2> DEFINE b == v.errored \/ \E i \in 1..k : o[i] = "werror"
  <2>1. b \in BOOLEAN
    BY DEF SameFlags, States
  <2>2. w' = [v EXCEPT !.errored = b]
    BY <1>2
  <2>3. b = (w.errored \/ \E i \in 1..k : o[i] = "werror")
    BY DEF SameFlags
  <2> HIDE DEF b
  <2>4. w'.errored = b /\ w' \in States
    BY <2>1, <2>2 DEF SameFlags, States
  <2> QED BY <2>2, <2>3, <2>4 DEF SameFlags, States
<1> DEFINE p == SubSeq(buffered, 1, k)
           h == IF k < Len(buffered) THEN <<buffered[k + 1]>> ELSE <<>>
           r == SubSeq(buffered, k + 2, Len(buffered))
           m == EachDone(buffered, k, o)
<1>6. /\ p \in Seq(Chunks) /\ h \in Seq(Chunks) /\ r \in Seq(Chunks)
      /\ Rising(p) /\ Rising(h) /\ Rising(r) /\ Below(p, h)
      /\ Range(p) = {buffered[i] : i \in 1..k}
      /\ Range(p) \union Range(h) \subseteq Range(buffered) /\ Range(r) \subseteq Range(buffered)
      /\ \A c \in Range(p) \union Range(h), d \in Range(r) : c < d
      /\ k + (IF h = <<>> THEN 0 ELSE 1) + Len(r) = Len(buffered)
      /\ h = <<>> => r = <<>>
  BY ONLY <1>3, <1>4, Cut
<1>7. /\ m \in Seq(Items) /\ Fit(m) /\ ~Has(m, Ends) /\ Due(m) = k
      /\ \A c \in Chunks : /\ Holds(m, Calls, c) <=> \E i \in 1..k : c = buffered[i]
                           /\ Holds(m, Acks, c) <=> \E i \in 1..k : o[i] = "after" /\ c = buffered[i]
                           /\ ~Holds(m, Lost, c)
  <2>1. o \in [1..k -> Outcomes]
    OBVIOUS
  <2> QED BY ONLY <1>3, <1>4, <2>1, OneEach
<1>8. writing' = h /\ buffered' = r /\ todo' = q \o m /\ sunk' = (sunk \o p) \o h
  BY <1>2 DEF EachDone
<1> HIDE DEF p, h, r, m
<1>9. sunk' = sunk \o (p \o h)
  <2>1. (sunk \o p) \o h = sunk \o (p \o h)
    <3>1. sunk \in Seq(Chunks) /\ p \in Seq(Chunks) /\ h \in Seq(Chunks)
      BY <1>3, <1>6
    <3> QED BY ONLY <3>1, ConcatAssociative
  <2> QED BY <1>8, <2>1
<1>10. Gives(p, h, m)
  <2>1. ASSUME NEW c \in Chunks, Holds(m, Acks, c) PROVE c \in took'
    BY <1>2, <1>7, <2>1
  <2>2. ASSUME ~w'.errored, NEW c \in Range(p) PROVE Holds(m, Acks, c)
    <3>1. PICK i \in 1..k : c = buffered[i]
      BY <1>6
    <3>2. o[i] = "after"
      BY <1>5, <2>2 DEF Outcomes
    <3>3. c \in Chunks
      BY <1>4, <1>6
    <3> QED BY <1>7, <3>1, <3>2, <3>3
  <2>3. \A c \in Chunks : Holds(m, Calls, c) <=> c \in Range(p)
    BY <1>6, <1>7
  <2> QED BY <1>6, <1>7, <2>1, <2>2, <2>3 DEF Gives
<1>11. Given
  BY <1>5 DEF Given
<1>12. Flow'
  BY <1>6, <1>8 DEF Flow
<1>13. took \union acked \subseteq took' /\ took' \subseteq Chunks
  <2>1. \A i \in 1..k : buffered[i] \in Chunks
    BY <1>3
  <2> QED BY <1>2, <2>1 DEF Answered
<1>14. Due(m) + (IF h = <<>> THEN 0 ELSE 1) + Len(buffered') + w.pendingcb <= w'.pendingcb + Len(buffered)
  <2>1. PICK f \in Nat, g \in Nat, l \in Nat, u \in Nat :
          f = (IF h = <<>> THEN 0 ELSE 1) /\ g = Len(r) /\ l = Len(buffered) /\ u = w.pendingcb
    <3>1. Len(r) \in Nat /\ (IF h = <<>> THEN 0 ELSE 1) \in Nat
      BY <1>6
    <3> QED BY <1>3, <3>1
  <2>2. k + f + g = l
    BY <1>6, <2>1
  <2>3. k + f + g + u <= u + l
    BY ONLY <1>3, <2>2
  <2> QED BY <1>5, <1>7, <1>8, <2>1, <2>3
<1> DEFINE G == Range(p) \union Range(h)
<1>15. G \subseteq Range(buffered)
  BY <1>6
<1>16. G = Range(p) \union Range(h)
  OBVIOUS
<1>17. \A c \in G, d \in Range(buffered') : c < d
  BY <1>6, <1>8
<1> HIDE DEF G
<1>18. n' \in 0..MaxWrites /\ n <= n' /\ G \subseteq 1..n' /\ Range(buffered') \subseteq Range(buffered)
       /\ buffered' \in Seq(Chunks) /\ Rising(buffered')
  BY <1>3, <1>4, <1>6, <1>8, <1>15
<1>19. \A c \in Range(sunk), d \in G : c < d
  BY <1>4, <1>15
<1>20. \A c \in G : ~Said(told, c) /\ ~Holds(todo, Lost, c)
  BY <1>4, <1>15
<1>21. w.ending /\ buffered = <<>> => p = <<>> /\ h = <<>>
  OBVIOUS
<1> QED BY <1>8, <1>9, <1>10, <1>11, <1>12, <1>13, <1>14, <1>16, <1>17, <1>18, <1>19, <1>20, <1>21, GiveStep

\* The loop of clearBuffer, or the one call of _writev, or neither.
LEMMA ClearBufferStep ==
  ASSUME TypeOK, Inv, NEW v, SameFlags(v), NEW acked, NEW q, Answered(q, took \union acked),
         ClearBuffer(v, q, acked), n' = n, told' = told
  PROVE  TypeOK' /\ Inv'
<1>1. CASE v.corked > 0 \/ v.destroyed \/ buffered = <<>>
  <2>1. /\ w' = v /\ todo' = q /\ writing' = <<>> /\ took' = took \union acked
        /\ UNCHANGED <<buffered, sunk>>
    BY <1>1 DEF ClearBuffer
  <2> QED BY <1>1, <2>1, ClearNothing
<1>2. CASE ~(v.corked > 0 \/ v.destroyed \/ buffered = <<>>) /\ v.writev /\ Len(buffered) > 1
  <2>1. ClearAtOnce(v, q, acked)
    BY <1>2 DEF ClearBuffer
  <2> QED BY <1>2, <2>1, ClearAtOnceStep
<1>3. CASE ~(v.corked > 0 \/ v.destroyed \/ buffered = <<>>) /\ ~(v.writev /\ Len(buffered) > 1)
  <2>1. ClearOneByOne(v, q, acked)
    BY <1>3 DEF ClearBuffer
  <2> QED BY <1>3, <2>1, ClearOneByOneStep
<1> QED BY <1>1, <1>2, <1>3

\* The sink's answer, and what it is given next.
LEMMA SinkTookStep ==
  ASSUME TypeOK, Inv, SinkTook
  PROVE  TypeOK' /\ Inv'
<1> DEFINE q == <<Item("after", writing)>>
<1>1. /\ todo = <<>> /\ writing # <<>> /\ ClearBuffer(w, q, Range(writing)) /\ n' = n /\ told' = told
  BY DEF SinkTook
<1>2. Answered(q, took \union Range(writing))
  BY <1>1, AnsweredTook
<1>3. SameFlags(w)
  BY Basics DEF SameFlags
<1> HIDE DEF q
<1> QED BY <1>1, <1>2, <1>3, ClearBufferStep

\* uncork(), and what the sink is given then.
LEMMA UncorkStep ==
  ASSUME TypeOK, Inv, Uncork
  PROVE  TypeOK' /\ Inv'
<1>1. w.corked = 1 /\ n' = n /\ told' = told
  BY DEF Uncork
<1> DEFINE v == [w EXCEPT !.corked = 0]
<1>2. SameFlags(v) /\ v.corked = 0
  <2>1. w \in States
    BY Basics
  <2>2. \A z \in 0..1 : [w EXCEPT !.corked = z] \in States
    BY <2>1 DEF States
  <2>3. v \in States
    BY <2>2
  <2> QED BY <2>1, <2>3 DEF SameFlags, States
<1>3. CASE writing = <<>>
  <2>1. ClearBuffer(v, todo, {})
    BY <1>3 DEF Uncork
  <2>2. Answered(todo, took \union {})
    <3>1. took \union {} = took
      OBVIOUS
    <3> QED BY <1>3, <3>1, AnsweredNothing
  <2> HIDE DEF v
  <2> QED BY <1>1, <1>2, <2>1, <2>2, ClearBufferStep
<1>4. CASE writing # <<>>
  <2>1. w' = v /\ UNCHANGED <<buffered, writing, todo, sunk, took>>
    BY <1>4 DEF Uncork
  <2> HIDE DEF v
  <2>2. /\ w' \in States /\ w'.pendingcb = w.pendingcb /\ w'.ending = w.ending
        /\ w'.final = w.final /\ w'.endcb = w.endcb /\ w'.finished = w.finished
        /\ w'.hasFinal = w.hasFinal /\ w'.errored = w.errored /\ w'.destroyed = w.destroyed
        /\ told' = told /\ todo' = todo /\ Stays
    BY <1>1, <1>2, <2>1 DEF SameFlags, Stays
  <2>3. Steady
    BY <1>4, <2>2 DEF Steady
  <2>4. Untold
    BY <2>2 DEF Untold
  <2>5. w.pendingcb + Slot' <= w'.pendingcb + Slot
    BY <2>2, Basics DEF Slot
  <2>6. EndsWell
    BY <2>2, <2>5 DEF EndsWell, Inv, Ending
  <2>7. SameCalls(todo, todo')
    BY <2>2, Basics
  <2> QED BY <2>2, <2>3, <2>4, <2>6, <2>7, QuietQueue
<1> QED BY <1>3, <1>4

------------------------------------------------------------------------------
(* The theorems.                                                           *)

\* A new stream: nothing was written, and nothing is to do.
LEMMA InvAtInit ==
  ASSUME Init
  PROVE  TypeOK /\ Inv
<1>1. /\ buffered = <<>> /\ writing = <<>> /\ todo = <<>> /\ n = 0
      /\ sunk = <<>> /\ took = {} /\ told = <<>>
  BY DEF Init
<1>2. PICK v \in BOOLEAN, f \in BOOLEAN :
        w = [corked |-> 0, pendingcb |-> 0, needDrain |-> FALSE, ending |-> FALSE,
             final |-> "no", endcb |-> FALSE, finished |-> FALSE, errored |-> FALSE,
             destroyed |-> FALSE, closing |-> FALSE, closed |-> FALSE,
             writev |-> v, hasFinal |-> f]
  BY DEF Init
<1>3. /\ w \in States /\ w.pendingcb = 0 /\ ~w.ending /\ w.final = "no" /\ ~w.endcb /\ ~w.finished
  <2>1. \A c \in 0..1 :
          [corked |-> c, pendingcb |-> 0, needDrain |-> FALSE, ending |-> FALSE,
           final |-> "no", endcb |-> FALSE, finished |-> FALSE, errored |-> FALSE,
           destroyed |-> FALSE, closing |-> FALSE, closed |-> FALSE,
           writev |-> v, hasFinal |-> f] \in States
    BY DEF States
  <2> QED BY <1>2, <2>1
<1>4. Range(<<>>) = {}
  BY RangeOne
<1>5. \A S, c : ~Holds(todo, S, c) /\ ~Has(todo, S)
  BY <1>1 DEF Holds, Has
<1>6. \A c : ~Said(told, c) /\ ~SaidOk(told, c)
  BY <1>1 DEF Said, SaidOk
<1>7. TypeOK
  <2>1. /\ buffered \in Seq(Chunks) /\ writing \in Seq(Chunks) /\ sunk \in Seq(Chunks)
        /\ told \in Seq(Tellings) /\ todo \in Seq(Items)
    BY <1>1
  <2>2. n \in 0..MaxWrites /\ took \subseteq Chunks
    BY <1>1, WritableAssumption
  <2> QED BY <1>3, <2>1, <2>2, Types
<1>8. Fit(todo) /\ Due(todo) = 0
  <2>1. todo \in Seq(Items)
    BY <1>7, Types
  <2>2. Plain(todo)
    BY <1>1 DEF Plain
  <2> QED BY <2>1, <2>2, PlainQueue
<1>9. Line
  <2>1. Rising(<<>>)
    BY DEF Rising
  <2> QED BY <1>1, <1>4, <2>1 DEF Line, Below
<1>10. Flow
  BY <1>1 DEF Flow
<1>11. Owed
  BY <1>5, <1>8 DEF Owed
<1>12. Reported
  <2>1. Once(told) /\ InLine(told, Range(sunk))
    BY <1>1 DEF Once, InLine
  <2> QED BY <1>6, <2>1 DEF Reported
<1>13. Kept
  BY <1>1, <1>4 DEF Kept
<1>14. Zero
  BY <1>5, <1>6 DEF Zero
<1>15. Ending
  <2>1. FinishIsWhole
    BY <1>3 DEF FinishIsWhole
  <2> QED BY <1>3, <1>5, <2>1 DEF Ending
<1>16. Count
  <2>1. Busy = 0 /\ Slot = 0 /\ Len(buffered) = 0
    BY <1>1, <1>3, <1>5 DEF Busy, Slot
  <2> QED BY <1>3, <1>8, <2>1 DEF Count
<1> QED BY <1>7, <1>9, <1>10, <1>11, <1>12, <1>13, <1>14, <1>15, <1>16 DEF Inv, ChunksInv

\* Every step keeps the invariant.
LEMMA InvAtNext ==
  ASSUME TypeOK, Inv, [Next]_vars
  PROVE  TypeOK' /\ Inv'
<1>1. CASE Run
  <2>1. CASE AfterWrite
    BY <2>1, AfterWriteStep
  <2>2. CASE WriteError
    BY <2>2, WriteErrorStep
  <2>3. CASE CallBack
    BY <2>3, CallBackStep
  <2>4. CASE ErrorBuffer
    BY <2>4, ErrorBufferStep
  <2>5. CASE Settle
    BY <2>5, SettleStep
  <2>6. CASE Fail
    BY <2>6, FailStep
  <2>7. CASE EndTick
    BY <2>7, EndTickStep
  <2>8. CASE Finish
    BY <2>8, FinishStep
  <2>9. CASE Close
    BY <2>9, CloseStep
  <2> QED BY <1>1, <2>1, <2>2, <2>3, <2>4, <2>5, <2>6, <2>7, <2>8, <2>9 DEF Run
<1>2. CASE Sink
  <2>1. CASE SinkTook
    BY <2>1, SinkTookStep
  <2>2. CASE SinkFailed
    BY <2>2, SinkFailedStep
  <2> QED BY <1>2, <2>1, <2>2 DEF Sink
<1>3. CASE FinalDone
  BY <1>3, FinalDoneStep
<1>4. CASE FinalFailed
  BY <1>4, FinalFailedStep
<1>5. CASE DestroyDone
  BY <1>5, DestroyDoneStep
<1>6. CASE Program
  <2>1. CASE WriteRefused
    BY <2>1, WriteRefusedStep
  <2>2. CASE WriteBuffered
    BY <2>2, WriteBufferedStep
  <2>3. CASE WriteThrough
    BY <2>3, WriteThroughStep
  <2>4. CASE Cork
    BY <2>4, CorkStep
  <2>5. CASE Uncork
    BY <2>5, UncorkStep
  <2>6. CASE End
    <3>1. Stays /\ (w.corked = 0 \/ buffered = <<>>) /\ ~w.ending /\ ~w.endcb
      BY <2>6 DEF End, Stays
    <3>2. CASE w.errored /\ w.destroyed
      <4>1. /\ \A i \in DOMAIN told : told[i].id # 0
            /\ \A i \in DOMAIN todo : todo[i] # Item("lost", <<0>>)
            /\ todo' = Append(todo, Item("lost", <<0>>)) /\ UNCHANGED <<w, told>>
        BY <2>6, <3>2 DEF End
      <4> QED BY <3>1, <3>2, <4>1, EndRefusedStep
    <3>3. CASE ~(w.errored /\ w.destroyed)
      <4>1. \/ /\ ~w.errored
               /\ FinishMaybe([w EXCEPT !.corked = 0, !.ending = TRUE, !.endcb = TRUE], Length, todo, TRUE)
            \/ /\ w.errored /\ ~w.destroyed
               /\ w' = [w EXCEPT !.corked = 0, !.endcb = TRUE] /\ UNCHANGED <<todo, told>>
        BY <2>6, <3>3 DEF End
      <4> QED BY <3>1, <4>1, EndStep
    <3> QED BY <3>2, <3>3
  <2>7. CASE CallDestroy
    BY <2>7, CallDestroyStep
  <2> QED BY <1>6, <2>1, <2>2, <2>3, <2>4, <2>5, <2>6, <2>7 DEF Program
<1>7. CASE UNCHANGED vars
  <2> USE <1>7 DEF vars
  <2>1. TypeOK'
    BY DEF TypeOK
  <2>2. Line' /\ Flow' /\ Zero'
    BY DEF Inv, ChunksInv, Line, Flow, Zero
  <2>3. Owed' /\ Reported' /\ Kept'
    BY DEF Inv, ChunksInv, Owed, Reported, Kept
  <2>4. Ending'
    BY DEF Inv, Ending, Whole, Idle, FinishIsWhole
  <2>5. Count'
    BY DEF Inv, Count, Busy, Slot
  <2> QED BY <2>1, <2>2, <2>3, <2>4, <2>5 DEF Inv, ChunksInv
<1> QED BY <1>1, <1>2, <1>3, <1>4, <1>5, <1>6, <1>7 DEF Next

\* The invariant holds in every state.
LEMMA InvHolds == Spec => [](TypeOK /\ Inv)
<1>1. Init => TypeOK /\ Inv
  BY InvAtInit
<1>2. TypeOK /\ Inv /\ [Next]_vars => (TypeOK /\ Inv)'
  BY InvAtNext
<1> QED BY <1>1, <1>2, PTL DEF Spec

\* The flags and counters of WritableState, the buffer and the queue of what the
\* stream has to do stay what they are meant to be: above all pendingcb, which
\* afterWrite, onwriteError, callFinal and finishMaybe count down, is never
\* counted below zero.
THEOREM TypesHold == Spec => []TypeOK
<1>1. TypeOK /\ Inv => TypeOK
  OBVIOUS
<1> QED BY <1>1, InvHolds, PTL

\* Chunks and their callbacks keep the order of write(), whatever is buffered,
\* corked, given together to _writev, answered at once or later, or fails
\* (writeOrBuffer, clearBuffer, onwrite, errorBuffer).
THEOREM OrderHolds == Spec => []OrderIsKept
<1>1. ASSUME TypeOK, Inv PROVE OrderIsKept
  <2>1. sunk \in Seq(Chunks) /\ told \in Seq(Tellings)
    BY <1>1, Types
  <2>2. DOMAIN sunk = 1..Len(sunk) /\ DOMAIN told = 1..Len(told)
    BY <2>1
  <2>3. Rising(sunk) /\ InLine(told, Range(sunk))
    BY <1>1 DEF Inv, ChunksInv, Line, Reported
  <2>4. SinkInOrder
    BY <2>2, <2>3 DEF SinkInOrder, Rising
  <2>5. CallbacksInOrder
    BY <2>2, <2>3 DEF CallbacksInOrder, InLine
  <2> QED BY <2>4, <2>5 DEF OrderIsKept
<1>2. TypeOK /\ Inv => OrderIsKept
  BY <1>1
<1> QED BY <1>2, InvHolds, PTL

\* What the program is told is true: every callback is called once, with success
\* only for a chunk the sink took, and 'finish' and the success of end() come
\* after the sink took, and every callback reported, every chunk it was given
\* (afterWrite, errorBuffer, finishMaybe, finish).
THEOREM ReportsHold == Spec => []ReportsAreTrue
<1>1. ASSUME TypeOK, Inv PROVE ReportsAreTrue
  <2>1. told \in Seq(Tellings)
    BY <1>1, Types
  <2>2. DOMAIN told = 1..Len(told)
    BY <2>1
  <2>3. Once(told) /\ \A c \in Chunks : SaidOk(told, c) /\ c > 0 => c \in took
    BY <1>1 DEF Inv, ChunksInv, Reported
  <2>4. ASSUME NEW i \in 1..Len(told), told[i].ok, told[i].id > 0 PROVE told[i].id \in took
    <3>1. told[i] \in Tellings
      BY <2>1
    <3>2. PICK c \in Chunks, b \in BOOLEAN : told[i] = [id |-> c, ok |-> b]
      BY <3>1 DEF Tellings
    <3>3. told[i].id = c /\ told[i].ok = b
      BY <3>2
    <3>4. b = TRUE
      BY <2>4, <3>3
    <3>5. told[i] = Good(c)
      BY <3>2, <3>4 DEF Good
    <3>6. SaidOk(told, c)
      BY <3>5 DEF SaidOk
    <3> QED BY <2>3, <2>4, <3>3, <3>6
  <2>5. ToldOnceAndTruly
    BY <2>2, <2>3, <2>4 DEF ToldOnceAndTruly, Once
  <2>6. FinishIsWhole
    BY <1>1 DEF Inv, Ending
  <2> QED BY <2>5, <2>6 DEF ReportsAreTrue
<1>2. TypeOK /\ Inv => ReportsAreTrue
  BY <1>1
<1> QED BY <1>2, InvHolds, PTL

=============================================================================
