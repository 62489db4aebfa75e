------------------------------- MODULE IpcSpec -------------------------------
(***************************************************************************)
(* What fork()'s channel promises the programs at its two ends: messages   *)
(* arrive in the order they were sent, none skipped and none invented, and *)
(* nothing arrives after 'disconnect'.  Messages may be lost only from the *)
(* end, and are repeated only to an end whose listener threw.              *)
(*                                                                         *)
(* The messages of an end are numbered in the order it sends them.         *)
(***************************************************************************)
EXTENDS Naturals, Sequences

CONSTANTS
  Ends,       \* the two ends
  Opposite    \* of an end

VARIABLES
  sent,    \* how many messages each end's program handed to send()
  got,     \* the 'message' events each end emitted
  threw,   \* ends with a listener that threw
  over     \* ends that emitted 'disconnect'

vars == <<sent, got, threw, over>>

\* The message that was received last.
Latest(e) == IF got[e] = <<>> THEN 0 ELSE got[e][Len(got[e])]

Init ==
  /\ sent = [e \in Ends |-> 0]
  /\ got = [e \in Ends |-> <<>>]
  /\ threw = {} /\ over = {}

\* send() on a connected end.
Send(e) ==
  /\ e \notin over
  /\ sent' = [sent EXCEPT ![e] = @ + 1]
  /\ UNCHANGED <<got, threw, over>>

\* A 'message' event: the next message, or after a throw one again.
Deliver(e) ==
  /\ e \notin over
  /\ \E m \in 1..sent[Opposite[e]] :
       /\ m = Latest(e) + 1 \/ (e \in threw /\ m <= Latest(e))
       /\ got' = [got EXCEPT ![e] = Append(@, m)]
  /\ UNCHANGED <<sent, threw, over>>

\* A listener throws.
Throw(e) ==
  /\ threw' = threw \union {e}
  /\ UNCHANGED <<sent, got, over>>

\* The 'disconnect' event.
Finish(e) ==
  /\ over' = over \union {e}
  /\ UNCHANGED <<sent, got, threw>>

Next == \E e \in Ends : Send(e) \/ Deliver(e) \/ Throw(e) \/ Finish(e)

Spec == Init /\ [][Next]_vars
==============================================================================
