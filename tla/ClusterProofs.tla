---------------------------- MODULE ClusterProofs ----------------------------
(***************************************************************************)
(* Proofs about Cluster, for any number of workers and addresses: the type *)
(* invariant; from the inductive invariant WorkerEnds the order in which   *)
(* the primary learns of a worker's end; and from the inductive invariant  *)
(* Agreement that every server which listens is one the primary routes to. *)
(***************************************************************************)
EXTENDS Cluster, FiniteSetTheorems, TLAPS

------------------------------------------------------------------------------
(* What the helpers of the model do to the state they touch.               *)

\* HangUp (Channel.close, the primary's side) keeps the types.
LEMMA HangUpType ==
  ASSUME TypeOK, NEW H \in SUBSET Workers, HangUp(H)
  PROVE  /\ pconn' \in [Workers -> BOOLEAN]
         /\ discEv' \in [Workers -> {"no", "queued", "done"}]
  BY DEF TypeOK, HangUp

\* DropMembers (removeHandlesForWorker, closeServer) keeps the types.
LEMMA DropMembersType ==
  ASSUME TypeOK, NEW T \in SUBSET Workers, NEW ks \in SUBSET Keys, DropMembers(T, ks)
  PROVE  /\ members' \in [Keys -> SUBSET Workers]
         /\ phase' \in [Keys -> {"none", "binding", "failing", "bound"}]
         /\ waiters' \in [Keys -> SUBSET Workers]
         /\ late' \subseteq Orphan
<1>1. \A k \in Keys : Unsettled(k) \in Orphan
  BY DEF TypeOK, Unsettled, Orphan
<1>2. members' \in [Keys -> SUBSET Workers]
  BY DEF TypeOK, DropMembers
<1>3. phase' \in [Keys -> {"none", "binding", "failing", "bound"}]
  BY DEF TypeOK, DropMembers
<1>4. waiters' \in [Keys -> SUBSET Workers]
  BY DEF TypeOK, DropMembers
<1>5. late' \subseteq Orphan
  BY <1>1 DEF TypeOK, DropMembers, Dropped
<1> QED BY <1>2, <1>3, <1>4, <1>5

\* SendTo (send() on the primary's side) keeps the types.
LEMMA SendToType ==
  ASSUME TypeOK, NEW T \in SUBSET Workers, NEW m \in DownMsg,
         NEW read \in [Workers -> Seq(UpMsg)], SendTo(T, m, read)
  PROVE  /\ toWorker' \in [Workers -> Seq(DownMsg)]
         /\ toPrimary' \in [Workers -> Seq(UpMsg)]
         /\ pconn' \in [Workers -> BOOLEAN]
         /\ discEv' \in [Workers -> {"no", "queued", "done"}]
<1>1. \A w \in Workers : Append(toWorker[w], m) \in Seq(DownMsg)
  BY DEF TypeOK
<1>2. toWorker' \in [Workers -> Seq(DownMsg)]
  BY <1>1 DEF TypeOK, SendTo
<1>3. toPrimary' \in [Workers -> Seq(UpMsg)]
  <2>1. <<>> \in Seq(UpMsg)
    OBVIOUS
  <2> QED BY <2>1 DEF SendTo
<1>4. Broken(T) \in SUBSET Workers /\ HangUp(Broken(T))
  BY DEF SendTo, Broken
<1> QED BY <1>2, <1>3, <1>4, HangUpType

\* Report (send() and disconnect() on a worker's side) keeps the types.
LEMMA ReportType ==
  ASSUME TypeOK, NEW w \in Workers, NEW ms \in Seq(UpMsg),
         NEW inbox \in Seq(DownMsg), NEW leave \in BOOLEAN,
         Report(w, ms, inbox, leave)
  PROVE  /\ toPrimary' \in [Workers -> Seq(UpMsg)]
         /\ toWorker' \in [Workers -> Seq(DownMsg)]
         /\ wconn' \in [Workers -> BOOLEAN]
         /\ wdisc' \in [Workers -> {"no", "queued", "done"}]
         /\ proc' \in [Workers -> {"unborn", "booting", "running", "dead",
                                   "errored", "faulted"}]
<1>1. toPrimary' \in [Workers -> Seq(UpMsg)]
  <2>1. toPrimary[w] \o ms \in Seq(UpMsg)
    BY DEF TypeOK
  <2> QED BY <2>1 DEF TypeOK, Report
<1>2. toWorker' \in [Workers -> Seq(DownMsg)]
  <2> DEFINE hung == wconn[w] /\ (leave \/ (ms # <<>> /\ ~PrimaryEnd(w)))
  <2>1. \E kept \in {inbox, <<>>} :
          toWorker' = [toWorker EXCEPT ![w] = IF hung THEN kept ELSE inbox]
    BY Zenon DEF Report
  <2> HIDE DEF hung
  <2>2. PICK kept \in {inbox, <<>>} :
          toWorker' = [toWorker EXCEPT ![w] = IF hung THEN kept ELSE inbox]
    BY <2>1
  <2>3. <<>> \in Seq(DownMsg)
    OBVIOUS
  <2>4. kept \in Seq(DownMsg)
    BY <2>2, <2>3
  <2>5. (IF hung THEN kept ELSE inbox) \in Seq(DownMsg)
    BY <2>4
  <2> QED BY <2>2, <2>5 DEF TypeOK
<1>3. wconn' \in [Workers -> BOOLEAN]
  BY DEF TypeOK, Report
<1>4. wdisc' \in [Workers -> {"no", "queued", "done"}]
  BY DEF TypeOK, Report
<1>5. proc' \in [Workers -> {"unborn", "booting", "running", "dead",
                             "errored", "faulted"}]
  BY DEF TypeOK, Report
<1> QED BY <1>1, <1>2, <1>3, <1>4, <1>5

\* Every message the two sides exchange is one of UpMsg or DownMsg.
LEMMA MessageType ==
  /\ \A k \in Keys : /\ Up("queryServer", k) \in UpMsg
                     /\ Up("listening", k) \in UpMsg
                     /\ Up("closeServer", k) \in UpMsg
                     /\ \A result \in {"ok", "error", "null"} :
                          Down("queryServerReply", k, result) \in DownMsg
  /\ Up("online", None) \in UpMsg
  /\ Up("exitedAfterDisconnect", None) \in UpMsg
  /\ Down("disconnect", None, "none") \in DownMsg
BY DEF Up, Down, UpMsg, DownMsg

\* What disconnectWorker() sends is a sequence of messages.
LEMMA CloseOrdersType ==
  ASSUME NEW S \in SUBSET Keys, NEW ms \in CloseOrders(S)
  PROVE  ms \in Seq(UpMsg)
<1>1. IsFiniteSet(S)
  BY KeysAssumption, FS_Subset
<1>2. Cardinality(S) \in Nat
  BY <1>1, FS_CardinalityType
<1>3. {Up("closeServer", k) : k \in S} \subseteq UpMsg
  BY MessageType
<1> QED BY <1>2, <1>3 DEF CloseOrders

\* What a handler leaves of an inbox is an inbox.
LEMMA RestType ==
  ASSUME TypeOK, NEW w \in Workers, toPrimary[w] # <<>>
  PROVE  /\ Rest(w) \in [Workers -> Seq(UpMsg)]
         /\ Head(toPrimary[w]) \in UpMsg
         /\ Head(toPrimary[w]).act \in {"queryServer", "listening", "closeServer"}
              => Head(toPrimary[w]).key \in Keys
<1>1. Tail(toPrimary[w]) \in Seq(UpMsg) /\ Head(toPrimary[w]) \in UpMsg
  BY DEF TypeOK
<1>2. Rest(w) \in [Workers -> Seq(UpMsg)]
  BY <1>1 DEF TypeOK, Rest
<1> QED BY <1>1, <1>2 DEF UpMsg

\* The same of a worker's inbox.
LEMMA InboxType ==
  ASSUME TypeOK, NEW w \in Workers, toWorker[w] # <<>>
  PROVE  /\ Tail(toWorker[w]) \in Seq(DownMsg)
         /\ Head(toWorker[w]) \in DownMsg
         /\ Head(toWorker[w]).act = "queryServerReply"
              => Head(toWorker[w]).key \in Keys
<1>1. Tail(toWorker[w]) \in Seq(DownMsg) /\ Head(toWorker[w]) \in DownMsg
  BY DEF TypeOK
<1> QED BY <1>1 DEF DownMsg

------------------------------------------------------------------------------
(* Type correctness, one lemma for each group of actions.                  *)

\* The handlers of a worker's internal messages keep the types.
LEMMA OnInternalType ==
  ASSUME TypeOK, NEW w \in Workers, OnInternal(w), UNCHANGED upsets
  PROVE  TypeOK'
<1>1. toPrimary[w] # <<>>
  BY DEF OnInternal, OnOnline, OnListening, OnExitedAfterDisconnect, OnCloseServer,
         QueryFirst, QueryWaiting, QueryBound, Dispatching
<1>2. Rest(w) \in [Workers -> Seq(UpMsg)]
  BY <1>1, RestType
<1> DEFINE key == Head(toPrimary[w]).key
<1>3. CASE OnOnline(w)
  BY <1>2, <1>3 DEF OnOnline, TypeOK, entryVars, workerVars
<1>4. CASE OnListening(w)
  BY <1>2, <1>4 DEF OnListening, TypeOK, entryVars, workerVars
<1>5. CASE OnExitedAfterDisconnect(w)
  BY <1>2, <1>5 DEF OnExitedAfterDisconnect, TypeOK, entryVars, workerVars
<1>6. CASE OnCloseServer(w)
  <2>1. {w} \in SUBSET Workers /\ {key} \in SUBSET Keys
    BY <1>1, <1>6, RestType DEF OnCloseServer, Dispatching
  <2>2. DropMembers({w}, {key})
    BY <1>6 DEF OnCloseServer
  <2> QED
    BY <1>2, <1>6, <2>1, <2>2, DropMembersType DEF OnCloseServer, TypeOK, workerVars
<1>7. CASE QueryFirst(w)
  <2>1. key \in Keys
    BY <1>1, <1>7, RestType DEF QueryFirst, Dispatching
  <2> QED BY <1>2, <1>7, <2>1 DEF QueryFirst, TypeOK, workerVars
<1>8. CASE QueryWaiting(w)
  <2>1. key \in Keys
    BY <1>1, <1>8, RestType DEF QueryWaiting, Dispatching
  <2> QED BY <1>2, <1>8, <2>1 DEF QueryWaiting, TypeOK, workerVars
<1>9. CASE QueryBound(w)
  <2>1. key \in Keys
    BY <1>1, <1>9, RestType DEF QueryBound, Dispatching
  <2>2. Down("queryServerReply", key, "ok") \in DownMsg
    BY <2>1, MessageType
  <2>3. SendTo({w}, Down("queryServerReply", key, "ok"), Rest(w))
    BY <1>9 DEF QueryBound
  <2>4. {w} \in SUBSET Workers
    OBVIOUS
  <2> HIDE DEF key
  <2>5. /\ toWorker' \in [Workers -> Seq(DownMsg)]
        /\ toPrimary' \in [Workers -> Seq(UpMsg)]
        /\ pconn' \in [Workers -> BOOLEAN]
        /\ discEv' \in [Workers -> {"no", "queued", "done"}]
    BY <1>2, <2>2, <2>3, <2>4, SendToType
  <2> QED BY <1>9, <2>1, <2>5 DEF QueryBound, TypeOK, workerVars, key
<1> QED
  BY <1>3, <1>4, <1>5, <1>6, <1>7, <1>8, <1>9 DEF OnInternal

\* End (the exit of a worker's process) keeps the types.
LEMMA EndType ==
  ASSUME TypeOK, NEW w \in Workers, NEW how \in {"dead", "faulted"}, End(w, how)
  PROVE  /\ proc' \in [Workers -> {"unborn", "booting", "running", "dead",
                                   "errored", "faulted"}]
         /\ wconn' \in [Workers -> BOOLEAN]
         /\ toWorker' \in [Workers -> Seq(DownMsg)]
         /\ busy' \in [Workers -> SUBSET Keys]
         /\ UNCHANGED <<wdisc, srv, waits, wvol, dying>>
<1>1. <<>> \in Seq(DownMsg)
  OBVIOUS
<1> QED BY <1>1 DEF TypeOK, End

\* The outcome of the primary's listen() keeps the types.
LEMMA ListenOutcomeType ==
  ASSUME TypeOK, UNCHANGED upsets,
         \/ \E k \in Keys : ListenDone(k) \/ ListenFailed(k)
         \/ \E o \in late : ListenSettledLate(o)
  PROVE  TypeOK'
<1> DEFINE Sent == /\ toWorker' \in [Workers -> Seq(DownMsg)]
                   /\ toPrimary' \in [Workers -> Seq(UpMsg)]
                   /\ pconn' \in [Workers -> BOOLEAN]
                   /\ discEv' \in [Workers -> {"no", "queued", "done"}]
<1>1. toPrimary \in [Workers -> Seq(UpMsg)]
  BY DEF TypeOK
<1>2. ASSUME NEW T \in SUBSET Workers, NEW m \in DownMsg, SendTo(T, m, toPrimary)
      PROVE  Sent
  BY <1>1, <1>2, SendToType
<1>3. ASSUME NEW k \in Keys, ListenDone(k)
      PROVE  TypeOK'
  <2>1. waiters[k] \in SUBSET Workers /\ Down("queryServerReply", k, "ok") \in DownMsg
    BY MessageType DEF TypeOK
  <2>2. SendTo(waiters[k], Down("queryServerReply", k, "ok"), toPrimary)
    BY <1>3 DEF ListenDone
  <2>3. Sent
    BY <1>2, <2>1, <2>2
  <2> QED BY <1>3, <2>3 DEF ListenDone, TypeOK, workerVars
<1>4. ASSUME NEW k \in Keys, ListenFailed(k)
      PROVE  TypeOK'
  <2>1. waiters[k] \in SUBSET Workers /\ Down("queryServerReply", k, "error") \in DownMsg
    BY MessageType DEF TypeOK
  <2>2. SendTo(waiters[k], Down("queryServerReply", k, "error"), toPrimary)
    BY <1>4 DEF ListenFailed
  <2>3. Sent
    BY <1>2, <2>1, <2>2
  <2> QED BY <1>4, <2>3 DEF ListenFailed, TypeOK, workerVars
<1>5. ASSUME NEW o \in late, ListenSettledLate(o)
      PROVE  TypeOK'
  <2>1. o \in Orphan
    BY DEF TypeOK
  <2>2. o.waiters \in SUBSET Workers /\ Down("queryServerReply", o.key, o.result) \in DownMsg
    BY <2>1, MessageType DEF Orphan
  <2>3. SendTo(o.waiters, Down("queryServerReply", o.key, o.result), toPrimary)
    BY <1>5 DEF ListenSettledLate
  <2>4. Sent
    BY <1>2, <2>2, <2>3
  <2> QED BY <1>5, <2>4 DEF ListenSettledLate, TypeOK, workerVars
<1> QED
  BY <1>3, <1>4, <1>5

\* The end of a worker, seen from the primary, keeps the types.
LEMMA PrimaryEventsType ==
  ASSUME TypeOK, NEW w \in Workers, PrimaryEvents(w), UNCHANGED upsets
  PROVE  TypeOK'
<1>1. {w} \in SUBSET Workers /\ Broken(Workers) \in SUBSET Workers /\ Keys \in SUBSET Keys
  BY DEF Broken
<1>2. CASE PrimaryEOF(w)
  <2>1. HangUp({w})
    BY <1>2 DEF PrimaryEOF
  <2> QED BY <1>1, <1>2, <2>1, HangUpType DEF PrimaryEOF, TypeOK, entryVars, workerVars
<1>3. CASE Reap(w)
  <2>1. HangUp({w} \cap Broken(Workers)) /\ {w} \cap Broken(Workers) \in SUBSET Workers
    BY <1>1, <1>3 DEF Reap
  <2> QED BY <1>3, <2>1, HangUpType DEF Reap, TypeOK, entryVars, workerVars
<1>4. CASE DisconnectEvent(w)
  <2>1. /\ members' \in [Keys -> SUBSET Workers]
        /\ phase' \in [Keys -> {"none", "binding", "failing", "bound"}]
        /\ waiters' \in [Keys -> SUBSET Workers]
        /\ late' \subseteq Orphan
    BY <1>1, <1>4, DropMembersType DEF DisconnectEvent
  <2>2. /\ proc' \in [Workers -> {"unborn", "booting", "running", "dead",
                                  "errored", "faulted"}]
        /\ wconn' \in [Workers -> BOOLEAN]
        /\ toWorker' \in [Workers -> Seq(DownMsg)]
        /\ busy' \in [Workers -> SUBSET Keys]
        /\ UNCHANGED <<wdisc, srv, waits, wvol, dying>>
    <3>1. CASE End(w, "dead")
      BY <3>1, EndType
    <3>2. CASE UNCHANGED <<workerVars, toWorker>>
      BY <3>2 DEF TypeOK, workerVars
    <3> QED BY <1>4, <3>1, <3>2 DEF DisconnectEvent
  <2> QED BY <1>4, <2>1, <2>2 DEF DisconnectEvent, TypeOK, Known
<1>5. CASE ExitEvent(w)
  <2>1. /\ members' \in [Keys -> SUBSET Workers]
        /\ phase' \in [Keys -> {"none", "binding", "failing", "bound"}]
        /\ waiters' \in [Keys -> SUBSET Workers]
        /\ late' \subseteq Orphan
        /\ listed' \subseteq Workers
    <3>1. CASE ~pconn[w]
      BY ZenonT(60), <1>1, <1>5, <3>1, DropMembersType DEF ExitEvent, TypeOK
    <3>2. CASE pconn[w]
      BY <1>5, <3>2 DEF ExitEvent, TypeOK, entryVars
    <3> QED BY <3>1, <3>2
  <2> QED BY <1>5, <2>1 DEF ExitEvent, TypeOK, workerVars, Known
<1> QED
  BY <1>2, <1>3, <1>4, <1>5 DEF PrimaryEvents

\* What the primary's program does keeps the types.
LEMMA PrimaryProgramType ==
  ASSUME TypeOK, upsets' \in 0..MaxUpsets,
         \/ DisconnectAll \/ PrimaryExit
         \/ \E w \in Workers : AskDisconnect(w) \/ AskKill(w) \/ ProcessDisconnect(w)
  PROVE  TypeOK'
<1> DEFINE Told == /\ toWorker' \in [Workers -> Seq(DownMsg)]
                   /\ toPrimary' \in [Workers -> Seq(UpMsg)]
                   /\ pconn' \in [Workers -> BOOLEAN]
                   /\ discEv' \in [Workers -> {"no", "queued", "done"}]
                   /\ members' \in [Keys -> SUBSET Workers]
                   /\ phase' \in [Keys -> {"none", "binding", "failing", "bound"}]
                   /\ waiters' \in [Keys -> SUBSET Workers]
                   /\ late' \subseteq Orphan
<1>1. ASSUME NEW T \in SUBSET Workers, DropMembers(T, Keys),
             SendTo(T, Down("disconnect", None, "none"), toPrimary)
      PROVE  Told
  <2>1. toPrimary \in [Workers -> Seq(UpMsg)]
    BY DEF TypeOK
  <2>2. Down("disconnect", None, "none") \in DownMsg
    BY MessageType
  <2>3. /\ toWorker' \in [Workers -> Seq(DownMsg)]
        /\ toPrimary' \in [Workers -> Seq(UpMsg)]
        /\ pconn' \in [Workers -> BOOLEAN]
        /\ discEv' \in [Workers -> {"no", "queued", "done"}]
    BY <1>1, <2>1, <2>2, SendToType
  <2>4. Keys \in SUBSET Keys
    OBVIOUS
  <2> QED BY <1>1, <2>3, <2>4, DropMembersType
<1>2. ASSUME NEW w \in Workers, AskDisconnect(w)
      PROVE  TypeOK'
  <2>1. Told
    BY <1>1, <1>2 DEF AskDisconnect
  <2> QED BY <1>2, <2>1 DEF AskDisconnect, TypeOK, workerVars
<1>3. ASSUME NEW w \in Workers, AskKill(w)
      PROVE  TypeOK'
  <2>1. Told
    BY <1>1, <1>3 DEF AskKill
  <2> QED BY <1>3, <2>1 DEF AskKill, TypeOK, workerVars
<1>4. CASE DisconnectAll
  <2> DEFINE all == {w \in listed : pconn[w]}
  <2>1. all \in SUBSET Workers
    BY DEF TypeOK
  <2>2. Told
    BY <1>1, <1>4, <2>1 DEF DisconnectAll
  <2> QED BY <1>4, <2>1, <2>2 DEF DisconnectAll, TypeOK, workerVars
<1>5. ASSUME NEW w \in Workers, ProcessDisconnect(w)
      PROVE  TypeOK'
  <2>1. HangUp({w}) /\ {w} \in SUBSET Workers
    BY <1>5 DEF ProcessDisconnect
  <2>2. <<>> \in Seq(UpMsg)
    OBVIOUS
  <2>3. PICK read \in {toPrimary[w], <<>>} : toPrimary' = [toPrimary EXCEPT ![w] = read]
    BY <1>5 DEF ProcessDisconnect
  <2>4. toPrimary[w] \in Seq(UpMsg) /\ toPrimary \in [Workers -> Seq(UpMsg)]
    BY DEF TypeOK
  <2>5. read \in Seq(UpMsg)
    BY <2>2, <2>3, <2>4
  <2>6. toPrimary' \in [Workers -> Seq(UpMsg)]
    BY <2>3, <2>4, <2>5
  <2> QED BY <1>5, <2>1, <2>6, HangUpType DEF ProcessDisconnect, TypeOK, entryVars, workerVars
<1>6. CASE PrimaryExit
  BY <1>6 DEF PrimaryExit, TypeOK, entryVars, workerVars
<1> QED
  BY <1>2, <1>3, <1>4, <1>5, <1>6

\* What reaches a worker keeps the types.
LEMMA WorkerReadsType ==
  ASSUME TypeOK, NEW w \in Workers, upsets' \in 0..MaxUpsets,
         \/ OnReply(w) \/ WorkerEOF(w) \/ WorkerDiscEvent(w)
         \/ OnDisconnect(w) \/ CallDisconnect(w)
  PROVE  TypeOK'
<1>1. CASE OnReply(w)
  <2> DEFINE k == Head(toWorker[w]).key
             inbox == Tail(toWorker[w])
  <2>1. k \in Keys /\ inbox \in Seq(DownMsg)
    BY <1>1, InboxType DEF OnReply, Inbox
  <2>2. <<Up("listening", k)>> \in Seq(UpMsg) /\ <<>> \in Seq(UpMsg) /\ <<>> \in Seq(DownMsg)
    BY <2>1, MessageType
  <2>3. /\ toPrimary' \in [Workers -> Seq(UpMsg)]
        /\ toWorker' \in [Workers -> Seq(DownMsg)]
        /\ wconn' \in [Workers -> BOOLEAN]
        /\ wdisc' \in [Workers -> {"no", "queued", "done"}]
        /\ proc' \in [Workers -> {"unborn", "booting", "running", "dead",
                                  "errored", "faulted"}]
        /\ srv' \in [Workers -> [Keys -> {"none", "starting", "aborted", "querying",
                                         "listening", "closing", "closed"}]]
    <3>1. CASE Head(toWorker[w]).result = "ok"
      <4>1. Report(w, <<Up("listening", k)>>, inbox, FALSE)
        BY <1>1, <3>1 DEF OnReply
      <4>2. srv' = [srv EXCEPT ![w][k] = IF srv[w][k] = "querying" THEN "listening" ELSE @]
        BY <1>1, <3>1 DEF OnReply
      <4> HIDE DEF k, inbox
      <4>3. srv' \in [Workers -> [Keys -> {"none", "starting", "aborted", "querying",
                                          "listening", "closing", "closed"}]]
        BY <2>1, <4>2 DEF TypeOK
      <4> QED BY <2>1, <2>2, <4>1, <4>3, ReportType
    <3>2. CASE Head(toWorker[w]).result = "error"
      <4>1. Report(w, <<>>, inbox, FALSE)
        BY <1>1, <3>2 DEF OnReply
      <4>2. srv' = [srv EXCEPT ![w][k] = IF srv[w][k] = "querying" THEN "closing" ELSE @]
        BY <1>1, <3>2 DEF OnReply
      <4> HIDE DEF k, inbox
      <4>3. srv' \in [Workers -> [Keys -> {"none", "starting", "aborted", "querying",
                                          "listening", "closing", "closed"}]]
        BY <2>1, <4>2 DEF TypeOK
      <4> QED BY <2>1, <2>2, <4>1, <4>3, ReportType
    <3>3. CASE Head(toWorker[w]).result \notin {"ok", "error"}
      <4>1. /\ proc' = [proc EXCEPT ![w] = "faulted"]
            /\ wconn' = [wconn EXCEPT ![w] = FALSE]
            /\ toWorker' = [toWorker EXCEPT ![w] = <<>>]
            /\ UNCHANGED <<srv, toPrimary, wdisc>>
        BY <1>1, <3>3 DEF OnReply
      <4> QED BY <2>2, <4>1 DEF TypeOK
    <3> QED BY <3>1, <3>2, <3>3
  <2> QED BY <1>1, <2>3 DEF OnReply, TypeOK, primaryVars, entryVars
<1>2. CASE WorkerEOF(w)
  BY <1>2 DEF WorkerEOF, TypeOK, primaryVars, entryVars
<1>3. CASE WorkerDiscEvent(w)
  <2>1. /\ proc' \in [Workers -> {"unborn", "booting", "running", "dead",
                                  "errored", "faulted"}]
        /\ busy' \in [Workers -> SUBSET Keys]
    <3>1. \/ proc' = [proc EXCEPT ![w] = "dead"] /\ busy' = [busy EXCEPT ![w] = {}]
          \/ UNCHANGED <<proc, busy>>
      BY <1>3 DEF WorkerDiscEvent
    <3>2. /\ proc \in [Workers -> {"unborn", "booting", "running", "dead",
                                   "errored", "faulted"}]
          /\ busy \in [Workers -> SUBSET Keys]
      BY DEF TypeOK
    <3>3. CASE UNCHANGED <<proc, busy>>
      BY <3>2, <3>3
    <3>4. CASE proc' = [proc EXCEPT ![w] = "dead"] /\ busy' = [busy EXCEPT ![w] = {}]
      BY <3>2, <3>4
    <3> QED BY <3>1, <3>3, <3>4
  <2>2. wdisc' \in [Workers -> {"no", "queued", "done"}]
    BY <1>3 DEF WorkerDiscEvent, TypeOK
  <2> QED BY <1>3, <2>1, <2>2 DEF WorkerDiscEvent, TypeOK, primaryVars, entryVars
<1>4. ASSUME NEW inbox \in Seq(DownMsg), DisconnectWorker(w, inbox)
      PROVE  TypeOK'
  <2>1. Serving(w) \in SUBSET Keys
    BY DEF Serving
  <2>2. PICK ms \in CloseOrders(Serving(w)) : Report(w, ms, inbox, Serving(w) = {})
    BY <1>4 DEF DisconnectWorker
  <2>3. ms \in Seq(UpMsg)
    BY <2>1, <2>2, CloseOrdersType
  <2>4. /\ toPrimary' \in [Workers -> Seq(UpMsg)]
        /\ toWorker' \in [Workers -> Seq(DownMsg)]
        /\ wconn' \in [Workers -> BOOLEAN]
        /\ wdisc' \in [Workers -> {"no", "queued", "done"}]
        /\ proc' \in [Workers -> {"unborn", "booting", "running", "dead",
                                  "errored", "faulted"}]
    BY <2>2, <2>3, <1>4, ReportType
  <2>5. srv' \in [Workers -> [Keys -> {"none", "starting", "aborted", "querying",
                                      "listening", "closing", "closed"}]]
    BY <1>4 DEF DisconnectWorker, TypeOK
  <2>6. waits' \in [Workers -> SUBSET SUBSET Keys] /\ wvol' \in [Workers -> BOOLEAN]
    BY <1>4, <2>1 DEF DisconnectWorker, TypeOK
  <2> QED BY <1>4, <2>4, <2>5, <2>6 DEF DisconnectWorker, TypeOK, primaryVars, entryVars
<1>5. CASE OnDisconnect(w)
  BY <1>4, <1>5, InboxType DEF OnDisconnect, Inbox
<1>6. CASE CallDisconnect(w)
  <2>1. toWorker[w] \in Seq(DownMsg)
    BY DEF TypeOK
  <2> QED BY <1>4, <1>6, <2>1 DEF CallDisconnect
<1> QED
  BY <1>1, <1>2, <1>3, <1>5, <1>6

\* What a worker and its program do, the steps of servers aside, keeps the types.
LEMMA WorkerProgramType ==
  ASSUME TypeOK, NEW w \in Workers, upsets' \in 0..MaxUpsets,
         Fork(w) \/ Boot(w) \/ CallKill(w) \/ KillSent(w) \/ Exit(w)
  PROVE  TypeOK'
<1> DEFINE Told == /\ toPrimary' \in [Workers -> Seq(UpMsg)]
                   /\ toWorker' \in [Workers -> Seq(DownMsg)]
                   /\ wconn' \in [Workers -> BOOLEAN]
                   /\ wdisc' \in [Workers -> {"no", "queued", "done"}]
                   /\ proc' \in [Workers -> {"unborn", "booting", "running", "dead",
                                            "errored", "faulted"}]
<1>1. toWorker[w] \in Seq(DownMsg) /\ toPrimary[w] \in Seq(UpMsg)
  BY DEF TypeOK
<1>2. ASSUME NEW ms \in Seq(UpMsg), NEW leave \in BOOLEAN, Report(w, ms, toWorker[w], leave)
      PROVE  Told
  BY <1>1, <1>2, ReportType
<1>3. /\ <<>> \in Seq(UpMsg)
      /\ <<Up("exitedAfterDisconnect", None)>> \in Seq(UpMsg)
      /\ Append(toPrimary[w], Up("online", None)) \in Seq(UpMsg)
  BY <1>1, MessageType
<1>4. CASE Fork(w)
  BY <1>4 DEF Fork, TypeOK, entryVars
<1>5. CASE Boot(w)
  <2>1. Told
    <3>1. \/ /\ toPrimary' = [toPrimary EXCEPT ![w] = Append(@, Up("online", None))]
             /\ UNCHANGED <<wconn, wdisc>>
          \/ /\ wconn' = [wconn EXCEPT ![w] = FALSE]
             /\ wdisc' = [wdisc EXCEPT ![w] = "queued"]
             /\ UNCHANGED toPrimary
      BY <1>5 DEF Boot
    <3>2. /\ toPrimary \in [Workers -> Seq(UpMsg)]
          /\ wconn \in [Workers -> BOOLEAN]
          /\ wdisc \in [Workers -> {"no", "queued", "done"}]
      BY DEF TypeOK
    <3>3. toPrimary' \in [Workers -> Seq(UpMsg)]
      BY <1>3, <3>1, <3>2
    <3>4. wconn' \in [Workers -> BOOLEAN] /\ wdisc' \in [Workers -> {"no", "queued", "done"}]
      BY <3>1, <3>2
    <3>5. toWorker' = toWorker /\ proc' = [proc EXCEPT ![w] = "running"]
      BY <1>5 DEF Boot
    <3> QED BY <3>3, <3>4, <3>5 DEF TypeOK
  <2> QED BY <1>5, <2>1 DEF Boot, TypeOK, primaryVars, entryVars
<1>6. CASE CallKill(w)
  <2>1. CASE wconn[w]
    <3>1. Report(w, <<Up("exitedAfterDisconnect", None)>>, toWorker[w], FALSE)
      BY <1>6, <2>1 DEF CallKill
    <3>2. Told
      BY <1>2, <1>3, <3>1
    <3>3. wvol' \in [Workers -> BOOLEAN] /\ dying' \in [Workers -> BOOLEAN]
      <4>1. wvol \in [Workers -> BOOLEAN] /\ dying \in [Workers -> BOOLEAN]
        BY DEF TypeOK
      <4>2. wvol' = [wvol EXCEPT ![w] = TRUE] /\ dying' = [dying EXCEPT ![w] = TRUE]
        BY <1>6, <2>1 DEF CallKill
      <4> QED BY <4>1, <4>2
    <3> QED BY <1>6, <2>1, <3>2, <3>3 DEF CallKill, TypeOK, primaryVars, entryVars
  <2>2. CASE ~wconn[w]
    <3>1. /\ proc' = [proc EXCEPT ![w] = "dead"]
          /\ busy' = [busy EXCEPT ![w] = {}]
          /\ UNCHANGED <<toPrimary, toWorker, wconn, wdisc, srv, waits, wvol, dying>>
      BY <1>6, <2>2 DEF CallKill
    <3>2. UNCHANGED primaryVars
      BY <1>6 DEF CallKill
    <3> QED BY <3>1, <3>2 DEF TypeOK, primaryVars, entryVars
  <2> QED BY <2>1, <2>2
<1>7. CASE KillSent(w)
  <2>1. Told
    BY <1>2, <1>3, <1>7 DEF KillSent
  <2> QED BY <1>7, <2>1 DEF KillSent, TypeOK, primaryVars, entryVars
<1>8. CASE Exit(w)
  <2>1. End(w, "dead")
    BY <1>8 DEF Exit
  <2> QED BY <1>8, <2>1, EndType DEF Exit, TypeOK, primaryVars, entryVars
<1> QED
  BY <1>4, <1>5, <1>6, <1>7, <1>8

\* The steps of a worker's servers and of the clients keep the types.
LEMMA ServerStepsType ==
  ASSUME TypeOK, NEW w \in Workers, NEW k \in Keys, upsets' \in 0..MaxUpsets,
         \/ Listen(w, k) \/ ServerSteps(w, k) \/ CloseStarting(w, k) \/ Close(w, k)
         \/ Route(w, k) \/ ConnectionEnds(w, k)
  PROVE  TypeOK'
<1> DEFINE Servers == [Workers -> [Keys -> {"none", "starting", "aborted", "querying",
                                           "listening", "closing", "closed"}]]
           Told == /\ toPrimary' \in [Workers -> Seq(UpMsg)]
                   /\ toWorker' \in [Workers -> Seq(DownMsg)]
                   /\ wconn' \in [Workers -> BOOLEAN]
                   /\ wdisc' \in [Workers -> {"no", "queued", "done"}]
                   /\ proc' \in [Workers -> {"unborn", "booting", "running", "dead",
                                             "errored", "faulted"}]
<1>1. toWorker[w] \in Seq(DownMsg)
  BY DEF TypeOK
<1>2. ASSUME NEW ms \in Seq(UpMsg), NEW leave \in BOOLEAN, Report(w, ms, toWorker[w], leave)
      PROVE  Told
  BY <1>1, <1>2, ReportType
<1>3. /\ <<>> \in Seq(UpMsg)
      /\ <<Up("queryServer", k)>> \in Seq(UpMsg)
      /\ <<Up("closeServer", k)>> \in Seq(UpMsg)
  BY MessageType
<1>4. CASE Listen(w, k)
  BY <1>4 DEF Listen, TypeOK, primaryVars, entryVars
<1>5. CASE Begin(w, k)
  <2>1. Told
    BY <1>2, <1>3, <1>5 DEF Begin
  <2>2. srv' \in Servers
    BY <1>5 DEF Begin, TypeOK
  <2> QED BY <1>5, <2>1, <2>2 DEF Begin, TypeOK, primaryVars, entryVars
<1>6. CASE BeginAborted(w, k)
  <2>1. End(w, "faulted")
    BY <1>6 DEF BeginAborted
  <2> QED BY <1>6, <2>1, EndType DEF BeginAborted, TypeOK, primaryVars, entryVars
<1>7. CASE ServerClosed(w, k)
  <2>1. Report(w, <<>>, toWorker[w], {k} \in waits[w])
    BY <1>7 DEF ServerClosed
  <2>2. Told
    <3> DEFINE leave == {k} \in waits[w]
    <3>1. leave \in BOOLEAN
      OBVIOUS
    <3>2. Report(w, <<>>, toWorker[w], leave)
      BY <2>1
    <3> HIDE DEF leave
    <3> QED BY <1>2, <1>3, <3>1, <3>2
  <2>3. srv' \in Servers
    BY <1>7 DEF ServerClosed, TypeOK
  <2>4. waits' \in [Workers -> SUBSET SUBSET Keys]
    BY <1>7 DEF ServerClosed, TypeOK
  <2> QED BY <1>7, <2>2, <2>3, <2>4 DEF ServerClosed, TypeOK, primaryVars, entryVars
<1>8. CASE CloseStarting(w, k)
  BY <1>8 DEF CloseStarting, TypeOK, primaryVars, entryVars
<1>9. CASE Close(w, k)
  <2>1. Told
    BY <1>2, <1>3, <1>9 DEF Close
  <2>2. srv' \in Servers
    BY <1>9 DEF Close, TypeOK
  <2> QED BY <1>9, <2>1, <2>2 DEF Close, TypeOK, primaryVars, entryVars
<1>10. CASE Route(w, k)
  BY <1>10 DEF Route, TypeOK, primaryVars, entryVars
<1>11. CASE ConnectionEnds(w, k)
  BY <1>11 DEF ConnectionEnds, TypeOK, primaryVars, entryVars
<1> QED
  BY <1>4, <1>5, <1>6, <1>7, <1>8, <1>9, <1>10, <1>11
  DEF ServerSteps

\* The type invariant holds for every number of workers and addresses.
THEOREM TypeCorrect == Spec => []TypeOK
<1>1. Init => TypeOK
  BY BoundAssumption DEF Init, TypeOK
<1>2. TypeOK /\ [Next]_vars => TypeOK'
  <2> SUFFICES ASSUME TypeOK, [Next]_vars
               PROVE  TypeOK'
    OBVIOUS
  <2>1. upsets' \in 0..MaxUpsets
    BY BoundAssumption DEF TypeOK, Next, vars
  <2>2. CASE UNCHANGED vars
    BY <2>2 DEF TypeOK, vars, stateVars, primaryVars, workerVars
  <2>3. CASE Loops /\ UNCHANGED upsets
    <3>1. CASE \/ \E k \in Keys : ListenDone(k) \/ ListenFailed(k)
               \/ \E o \in late : ListenSettledLate(o)
      BY <2>3, <3>1, ListenOutcomeType
    <3>2. ASSUME NEW w \in Workers, OnInternal(w) \/ PrimaryEvents(w)
          PROVE  TypeOK'
      BY <2>3, <3>2, OnInternalType, PrimaryEventsType
    <3>3. ASSUME NEW w \in Workers, WorkerReads(w) \/ WorkerDiscEvent(w)
          PROVE  TypeOK'
      BY <2>1, <3>3, WorkerReadsType DEF WorkerReads
    <3>4. ASSUME NEW w \in Workers, Boot(w) \/ KillSent(w)
          PROVE  TypeOK'
      BY <2>1, <3>4, WorkerProgramType
    <3>5. ASSUME NEW w \in Workers, NEW k \in Keys, ServerSteps(w, k)
          PROVE  TypeOK'
      BY <2>1, <3>5, ServerStepsType
    <3> QED
      BY <2>3, <3>1, <3>2, <3>3, <3>4, <3>5 DEF Loops
  <2>4. CASE Uses
    <3>1. ASSUME NEW w \in Workers, Fork(w)
          PROVE  TypeOK'
      BY <2>1, <3>1, WorkerProgramType
    <3>2. ASSUME NEW w \in Workers, NEW k \in Keys,
                 Listen(w, k) \/ Route(w, k) \/ ConnectionEnds(w, k)
          PROVE  TypeOK'
      BY <2>1, <3>2, ServerStepsType
    <3> QED
      BY <2>4, <3>1, <3>2 DEF Uses
  <2>5. CASE Upset
    <3>1. CASE \/ DisconnectAll \/ PrimaryExit
               \/ \E w \in Workers : AskDisconnect(w) \/ AskKill(w) \/ ProcessDisconnect(w)
      BY <2>1, <3>1, PrimaryProgramType
    <3>2. ASSUME NEW w \in Workers, CallDisconnect(w)
          PROVE  TypeOK'
      BY <2>1, <3>2, WorkerReadsType
    <3>3. ASSUME NEW w \in Workers, CallKill(w) \/ Exit(w)
          PROVE  TypeOK'
      BY <2>1, <3>3, WorkerProgramType
    <3>4. ASSUME NEW w \in Workers, NEW k \in Keys, CloseStarting(w, k) \/ Close(w, k)
          PROVE  TypeOK'
      BY <2>1, <3>4, ServerStepsType
    <3> QED
      BY <2>5, <3>1, <3>2, <3>3, <3>4 DEF Upset
  <2> QED
    BY <2>2, <2>3, <2>4, <2>5 DEF Next
<1> QED
  BY <1>1, <1>2, PTL DEF Spec

------------------------------------------------------------------------------
(* The end of a worker.  Quiet is what every step but fork(), reaping and  *)
(* the two events may do to the state WorkerEnds speaks of.                *)

QuietFor(v) ==
  /\ \/ pconn'[v] = pconn[v] /\ discEv'[v] = discEv[v]
     \/ pconn[v] /\ ~pconn'[v] /\ discEv'[v] = "queued"
  /\ proc'[v] = "unborn" <=> proc[v] = "unborn"
  /\ Gone(v) => Gone(v)'
  /\ Gone(v)' => Gone(v) \/ ~wconn'[v]
  /\ wconn'[v] => wconn[v]
  /\ wdisc'[v] = wdisc[v] \/ (proc[v] # "unborn" /\ ~wconn'[v])
  /\ exitEv'[v] = exitEv[v]
  /\ v \in listed' => v \in listed
  /\ \A k \in Keys : v \in members'[k] => v \in members[k] \/ discEv[v] # "done"
  /\ \/ pstate'[v] = pstate[v]
     \/ discEv[v] # "done" /\ pstate'[v] \in {"online", "listening"}

Quiet == \A v \in Workers : QuietFor(v)

\* worker.state never leaves "disconnected" but for "dead", nor "dead" at all.
OrderOf(w) ==
  pstate'[w] # pstate[w] =>
    /\ pstate[w] # "dead"
    /\ pstate[w] = "disconnected" => pstate'[w] = "dead"

StateOrder == \A w \in Workers : OrderOf(w)

\* A quiet step keeps the order of a worker's end.
LEMMA QuietKeeps ==
  ASSUME TypeOK, WorkerEnds, Quiet
  PROVE  WorkerEnds' /\ StateOrder
<1> SUFFICES ASSUME NEW w \in Workers
             PROVE  EndsOf(w)' /\ OrderOf(w)
  BY DEF WorkerEnds, StateOrder
<1>1. EndsOf(w)
  BY DEF WorkerEnds
<1>2. QuietFor(w)
  BY DEF Quiet
<1>3. OrderOf(w)
  BY <1>1, <1>2 DEF EndsOf, QuietFor, OrderOf
<1>4. (\A k \in Keys : w \notin members[k] \/ discEv[w] # "done")
        => (\A k \in Keys : w \notin members'[k] \/ discEv'[w] # "done")
  BY <1>2 DEF QuietFor
<1>5. EndsOf(w)'
  BY <1>1, <1>2, <1>4 DEF TypeOK, EndsOf, QuietFor, Gone
<1> QED BY <1>3, <1>5

\* send() on the primary's side ends a connection, or leaves it alone.
LEMMA SendToEffect ==
  ASSUME TypeOK, NEW T \in SUBSET Workers, NEW m, NEW read, SendTo(T, m, read),
         NEW v \in Workers
  PROVE  \/ pconn'[v] = pconn[v] /\ discEv'[v] = discEv[v]
         \/ pconn[v] /\ ~pconn'[v] /\ discEv'[v] = "queued"
BY DEF TypeOK, SendTo, HangUp, Broken

\* Dropping members adds none, and drops those it was asked to drop.
LEMMA DropMembersEffect ==
  ASSUME TypeOK, NEW T \in SUBSET Workers, NEW ks, DropMembers(T, ks), NEW k \in Keys
  PROVE  /\ members'[k] \subseteq members[k]
         /\ k \in ks => members'[k] \cap T = {}
BY DEF TypeOK, DropMembers

\* send() and disconnect() on a worker's side: a process that an error ends has
\* closed its channel before.
LEMMA ReportEffect ==
  ASSUME TypeOK, NEW w \in Workers, Alive(w), NEW ms \in Seq(UpMsg), NEW inbox, NEW leave,
         Report(w, ms, inbox, leave), NEW v \in Workers
  PROVE  /\ proc'[v] = proc[v] \/ (v = w /\ proc'[v] = "errored" /\ ~wconn'[v])
         /\ wconn'[v] => wconn[v]
         /\ wdisc'[v] = wdisc[v] \/ (v = w /\ ~wconn'[v])
<1> DEFINE cut == ms # <<>> /\ ~PrimaryEnd(w)
           hung == wconn[w] /\ (leave \/ cut)
           lost == ~dying[w] /\ (IF wconn[w] THEN cut /\ Len(ms) > 1 ELSE ms # <<>>)
<1>1. /\ wconn' = [wconn EXCEPT ![w] = @ /\ ~hung]
      /\ wdisc' = [wdisc EXCEPT ![w] = IF hung THEN "queued" ELSE @]
      /\ proc' = [proc EXCEPT ![w] = IF lost THEN "errored" ELSE @]
  BY DEF Report
<1>2. wconn \in [Workers -> BOOLEAN] /\ DOMAIN proc = Workers /\ DOMAIN wdisc = Workers
  BY DEF TypeOK
<1>3. lost => hung \/ ~wconn[w]
  OBVIOUS
<1> HIDE DEF hung, lost
<1>4. CASE v = w
  BY <1>1, <1>2, <1>3, <1>4
<1>5. CASE v # w
  BY <1>1, <1>2, <1>5
<1> QED BY <1>4, <1>5

\* A line is dispatched only before the 'disconnect' event.
LEMMA DispatchingEffect ==
  ASSUME WorkerEnds, NEW w \in Workers, NEW act, Dispatching(w, act)
  PROVE  discEv[w] # "done"
BY DEF WorkerEnds, EndsOf, Dispatching

\* The handlers of a worker's internal messages are quiet.
LEMMA OnInternalQuiet ==
  ASSUME TypeOK, WorkerEnds, NEW w \in Workers, OnInternal(w)
  PROVE  Quiet
<1>1. discEv[w] # "done"
  BY DispatchingEffect DEF OnInternal, OnOnline, OnListening, OnExitedAfterDisconnect,
     OnCloseServer, QueryFirst, QueryWaiting, QueryBound
<1>2. CASE OnOnline(w)
  BY <1>1, <1>2 DEF OnOnline, TypeOK, Quiet, QuietFor, Gone, entryVars, workerVars
<1>3. CASE OnListening(w)
  BY <1>1, <1>3 DEF OnListening, TypeOK, Quiet, QuietFor, Gone, entryVars, workerVars
<1>4. CASE OnExitedAfterDisconnect(w)
  BY <1>4 DEF OnExitedAfterDisconnect, Quiet, QuietFor, Gone, entryVars, workerVars
<1>5. CASE OnCloseServer(w)
  <2>1. \A k \in Keys : members'[k] \subseteq members[k]
    BY <1>5, DropMembersEffect DEF OnCloseServer
  <2> QED BY <1>5, <2>1 DEF OnCloseServer, Quiet, QuietFor, Gone, workerVars
<1>6. CASE QueryFirst(w)
  BY <1>1, <1>6 DEF QueryFirst, TypeOK, Quiet, QuietFor, Gone, workerVars
<1>7. CASE QueryWaiting(w)
  BY <1>1, <1>7 DEF QueryWaiting, TypeOK, Quiet, QuietFor, Gone, workerVars
<1>8. CASE QueryBound(w)
  <2>1. \A k \in Keys : members'[k] \subseteq members[k] \cup {w}
    BY <1>8 DEF QueryBound, TypeOK
  <2>2. ASSUME NEW v \in Workers
        PROVE  \/ pconn'[v] = pconn[v] /\ discEv'[v] = discEv[v]
               \/ pconn[v] /\ ~pconn'[v] /\ discEv'[v] = "queued"
    BY <1>8, SendToEffect DEF QueryBound
  <2> QED BY <1>1, <1>8, <2>1, <2>2 DEF QueryBound, Quiet, QuietFor, Gone, workerVars
<1> QED
  BY <1>2, <1>3, <1>4, <1>5, <1>6, <1>7, <1>8 DEF OnInternal

\* The primary's listen() outcomes and the program's requests are quiet.
LEMMA PrimaryQuiet ==
  ASSUME TypeOK, WorkerEnds,
         \/ \E k \in Keys : ListenDone(k) \/ ListenFailed(k)
         \/ \E o \in late : ListenSettledLate(o)
         \/ DisconnectAll \/ PrimaryExit
         \/ \E w \in Workers : \/ AskDisconnect(w) \/ AskKill(w) \/ ProcessDisconnect(w)
                               \/ PrimaryEOF(w)
  PROVE  Quiet
<1> DEFINE Hung(v) == \/ pconn'[v] = pconn[v] /\ discEv'[v] = discEv[v]
                      \/ pconn[v] /\ ~pconn'[v] /\ discEv'[v] = "queued"
           Rest1 == /\ \A k \in Keys : members'[k] \subseteq members[k]
                    /\ listed' \subseteq listed
                    /\ UNCHANGED <<exitEv, pstate, workerVars>>
<1>1. ASSUME \A v \in Workers : Hung(v), Rest1
      PROVE  Quiet
  BY <1>1 DEF Quiet, QuietFor, Gone, workerVars
<1>2. ASSUME NEW k \in Keys, ListenDone(k)
      PROVE  Quiet
  <2>1. waiters[k] \in SUBSET Workers
    BY DEF TypeOK
  <2>2. ASSUME NEW v \in Workers
        PROVE  Hung(v)
    BY <1>2, <2>1, SendToEffect DEF ListenDone
  <2>3. Rest1
    BY <1>2 DEF ListenDone
  <2> QED BY <1>1, <2>2, <2>3
<1>3. ASSUME NEW k \in Keys, ListenFailed(k)
      PROVE  Quiet
  <2>1. waiters[k] \in SUBSET Workers
    BY DEF TypeOK
  <2>2. ASSUME NEW v \in Workers
        PROVE  Hung(v)
    BY <1>3, <2>1, SendToEffect DEF ListenFailed
  <2>3. Rest1
    BY <1>3 DEF ListenFailed, TypeOK
  <2> QED BY <1>1, <2>2, <2>3
<1>4. ASSUME NEW o \in late, ListenSettledLate(o)
      PROVE  Quiet
  <2>1. o.waiters \in SUBSET Workers
    BY DEF TypeOK, Orphan
  <2>2. ASSUME NEW v \in Workers
        PROVE  Hung(v)
    BY <1>4, <2>1, SendToEffect DEF ListenSettledLate
  <2>3. Rest1
    BY <1>4 DEF ListenSettledLate
  <2> QED BY <1>1, <2>2, <2>3
<1>5. ASSUME NEW T \in SUBSET Workers, DropMembers(T, Keys), listed' = listed \ T,
             SendTo(T, Down("disconnect", None, "none"), toPrimary),
             UNCHANGED <<exitEv, pstate, workerVars>>
      PROVE  Quiet
  <2>1. ASSUME NEW v \in Workers
        PROVE  Hung(v)
    BY <1>5, SendToEffect
  <2>2. Rest1
    BY <1>5, DropMembersEffect
  <2> QED BY <1>1, <2>1, <2>2
<1>6. CASE DisconnectAll
  <2>1. {w \in listed : pconn[w]} \in SUBSET Workers
    BY DEF TypeOK
  <2> QED BY <1>5, <1>6, <2>1 DEF DisconnectAll
<1>7. CASE PrimaryExit
  BY <1>7 DEF PrimaryExit, Quiet, QuietFor, Gone, entryVars, workerVars
<1>8. ASSUME NEW w \in Workers, AskDisconnect(w) \/ AskKill(w)
      PROVE  Quiet
  BY <1>5, <1>8 DEF AskDisconnect, AskKill
<1>9. ASSUME NEW w \in Workers, ProcessDisconnect(w) \/ PrimaryEOF(w)
      PROVE  Quiet
  <2>1. HangUp({w}) /\ pconn[w]
    BY <1>9 DEF ProcessDisconnect, PrimaryEOF
  <2>2. ASSUME NEW v \in Workers
        PROVE  Hung(v)
    <3>1. pconn \in [Workers -> BOOLEAN]
      BY DEF TypeOK
    <3>2. CASE v = w
      BY <2>1, <3>2 DEF HangUp
    <3>3. CASE v # w
      <4>1. pconn'[v] = pconn[v] /\ discEv'[v] = discEv[v]
        BY <2>1, <3>1, <3>3 DEF HangUp
      <4> QED BY <4>1
    <3> QED BY <3>2, <3>3
  <2>3. Rest1
    BY <1>9 DEF ProcessDisconnect, PrimaryEOF, entryVars
  <2> QED BY <1>1, <2>2, <2>3
<1> QED
  BY <1>2, <1>3, <1>4, <1>6, <1>7, <1>8, <1>9

\* What a worker's process does is quiet.
LEMMA WorkerQuiet ==
  ASSUME TypeOK, WorkerEnds, NEW w \in Workers,
         \/ Boot(w) \/ WorkerReads(w) \/ WorkerDiscEvent(w) \/ KillSent(w)
         \/ CallDisconnect(w) \/ CallKill(w) \/ Exit(w)
         \/ \E k \in Keys : \/ ServerSteps(w, k) \/ Listen(w, k) \/ CloseStarting(w, k)
                          \/ Close(w, k) \/ Route(w, k) \/ ConnectionEnds(w, k)
  PROVE  Quiet
<1> DEFINE Ended(v) == /\ proc'[v] = "unborn" <=> proc[v] = "unborn"
                       /\ Gone(v) => Gone(v)'
                       /\ Gone(v)' => Gone(v) \/ ~wconn'[v]
                       /\ wconn'[v] => wconn[v]
                       /\ wdisc'[v] = wdisc[v] \/ (proc[v] # "unborn" /\ ~wconn'[v])
<1>1. ASSUME \A v \in Workers : Ended(v), UNCHANGED primaryVars
      PROVE  Quiet
  BY <1>1 DEF Quiet, QuietFor, primaryVars, entryVars
<1>2. ASSUME NEW ms \in Seq(UpMsg), NEW inbox, NEW leave, Alive(w),
             Report(w, ms, inbox, leave), UNCHANGED primaryVars
      PROVE  Quiet
  <2>1. ASSUME NEW v \in Workers
        PROVE  Ended(v)
    BY <1>2, ReportEffect DEF Alive, Gone
  <2> QED BY <1>1, <1>2, <2>1
<1>3. ASSUME NEW how \in {"dead", "faulted"}, proc[w] # "unborn", End(w, how),
             UNCHANGED primaryVars
      PROVE  Quiet
  <2>1. ASSUME NEW v \in Workers
        PROVE  Ended(v)
    BY <1>3 DEF End, Gone, TypeOK
  <2> QED BY <1>1, <1>3, <2>1
<1>4. <<>> \in Seq(UpMsg)
  OBVIOUS
<1>5. CASE Boot(w)
  <2>1. ASSUME NEW v \in Workers
        PROVE  Ended(v)
    BY <1>5 DEF Boot, Gone, TypeOK
  <2> QED BY <1>1, <1>5, <2>1 DEF Boot
<1>6. CASE OnReply(w)
  <2> DEFINE k == Head(toWorker[w]).key
             result == Head(toWorker[w]).result
  <2>1. k \in Keys /\ Alive(w) /\ UNCHANGED primaryVars
    BY <1>6, InboxType DEF OnReply, Inbox
  <2>2. CASE result = "ok"
    <3>1. Report(w, <<Up("listening", k)>>, Tail(toWorker[w]), FALSE)
      BY <1>6, <2>2 DEF OnReply
    <3>2. <<Up("listening", k)>> \in Seq(UpMsg)
      BY <2>1, MessageType
    <3> QED BY <1>2, <2>1, <3>1, <3>2
  <2>3. CASE result = "error"
    <3>1. Report(w, <<>>, Tail(toWorker[w]), FALSE)
      BY <1>6, <2>3 DEF OnReply
    <3> QED BY <1>2, <1>4, <2>1, <3>1
  <2>4. CASE result \notin {"ok", "error"}
    <3>1. /\ proc' = [proc EXCEPT ![w] = "faulted"]
          /\ wconn' = [wconn EXCEPT ![w] = FALSE]
          /\ UNCHANGED wdisc
      BY <1>6, <2>4 DEF OnReply
    <3>2. ASSUME NEW v \in Workers
          PROVE  Ended(v)
      BY <2>1, <3>1 DEF Alive, Gone, TypeOK
    <3> QED BY <1>1, <2>1, <3>2
  <2> QED BY <2>2, <2>3, <2>4
<1>7. ASSUME NEW inbox, Alive(w), DisconnectWorker(w, inbox)
      PROVE  Quiet
  <2>1. Serving(w) \in SUBSET Keys
    BY DEF Serving
  <2>2. PICK ms \in CloseOrders(Serving(w)) : Report(w, ms, inbox, Serving(w) = {})
    BY <1>7 DEF DisconnectWorker
  <2>3. ms \in Seq(UpMsg)
    BY <2>1, <2>2, CloseOrdersType
  <2>4. UNCHANGED primaryVars
    BY <1>7 DEF DisconnectWorker
  <2> QED BY <1>2, <1>7, <2>2, <2>3, <2>4
<1>8. CASE OnDisconnect(w)
  BY <1>7, <1>8 DEF OnDisconnect, Inbox
<1>9. CASE CallDisconnect(w)
  BY <1>7, <1>9 DEF CallDisconnect
<1>10. CASE WorkerEOF(w)
  <2>1. ASSUME NEW v \in Workers
        PROVE  Ended(v)
    BY <1>10 DEF WorkerEOF, Alive, Gone, TypeOK
  <2> QED BY <1>1, <1>10, <2>1 DEF WorkerEOF
<1>11. ASSUME Alive(w), ~wconn[w], UNCHANGED <<primaryVars, wconn>>,
              wdisc' = wdisc \/ wdisc' = [wdisc EXCEPT ![w] = "done"],
              proc' = proc \/ proc' = [proc EXCEPT ![w] = "dead"]
       PROVE  Quiet
  <2>1. ASSUME NEW v \in Workers
        PROVE  Ended(v)
    BY <1>11 DEF Alive, Gone, TypeOK
  <2> QED BY <1>1, <1>11, <2>1
<1>12. CASE WorkerDiscEvent(w)
  <2>1. ~wconn[w]
    BY <1>12 DEF WorkerDiscEvent, WorkerEnds, EndsOf
  <2> QED BY <1>11, <1>12, <2>1 DEF WorkerDiscEvent
<1>13. CASE CallKill(w)
  <2>1. CASE wconn[w]
    <3>1. <<Up("exitedAfterDisconnect", None)>> \in Seq(UpMsg)
      BY MessageType
    <3> QED BY <1>2, <1>13, <2>1, <3>1 DEF CallKill
  <2>2. CASE ~wconn[w]
    BY <1>11, <1>13, <2>2 DEF CallKill
  <2> QED BY <2>1, <2>2
<1>14. CASE KillSent(w)
  BY <1>2, <1>4, <1>14 DEF KillSent
<1>15. CASE Exit(w)
  BY <1>3, <1>15 DEF Exit
<1>16. ASSUME NEW k \in Keys, Begin(w, k) \/ Close(w, k)
       PROVE  Quiet
  <2>1. /\ <<Up("queryServer", k)>> \in Seq(UpMsg)
        /\ <<Up("closeServer", k)>> \in Seq(UpMsg)
    BY MessageType
  <2> QED BY <1>2, <1>16, <2>1 DEF Begin, Close
<1>17. ASSUME NEW k \in Keys, BeginAborted(w, k)
       PROVE  Quiet
  BY <1>3, <1>17 DEF BeginAborted, Alive
<1>18. ASSUME NEW k \in Keys, ServerClosed(w, k)
       PROVE  Quiet
  BY <1>2, <1>4, <1>18 DEF ServerClosed
<1>19. ASSUME NEW k \in Keys, Listen(w, k) \/ CloseStarting(w, k) \/ Route(w, k)
                             \/ ConnectionEnds(w, k)
       PROVE  Quiet
  <2>1. UNCHANGED <<primaryVars, proc, wconn, wdisc>>
    BY <1>19 DEF Listen, CloseStarting, Route, ConnectionEnds
  <2> QED BY <1>1, <2>1 DEF Gone
<1> QED
  BY <1>5, <1>6, <1>8, <1>9, <1>10, <1>12, <1>13, <1>14, <1>15, <1>16, <1>17, <1>18,
     <1>19 DEF WorkerReads, ServerSteps

\* Every step keeps the order of a worker's end, and that of worker.state.
LEMMA StepEnds ==
  ASSUME TypeOK, WorkerEnds, [Next]_vars
  PROVE  WorkerEnds' /\ StateOrder
<1>1. CASE Quiet
  BY <1>1, QuietKeeps
<1>2. ASSUME NEW w \in Workers, Fork(w)
      PROVE  WorkerEnds' /\ StateOrder
  <2>1. ASSUME NEW v \in Workers
        PROVE  EndsOf(v)' /\ OrderOf(v)
    BY <1>2 DEF Fork, TypeOK, WorkerEnds, EndsOf, OrderOf, Gone, entryVars
  <2> QED BY <2>1 DEF WorkerEnds, StateOrder
<1>3. ASSUME NEW w \in Workers, Reap(w)
      PROVE  WorkerEnds' /\ StateOrder
  <2>1. HangUp({w} \cap Broken(Workers)) /\ Gone(w) /\ exitEv[w] = "no"
    BY <1>3 DEF Reap
  <2>2. Broken(Workers) = {v \in Workers : pconn[v] /\ ~wconn[v]}
    BY DEF Broken
  <2>3. ASSUME NEW v \in Workers
        PROVE  EndsOf(v)' /\ OrderOf(v)
    <3>1. EndsOf(v) /\ UNCHANGED <<listed, pstate, members, workerVars>>
      BY <1>3 DEF Reap, WorkerEnds, entryVars
    <3>2. CASE v = w
      BY <1>3, <2>1, <2>2, <3>1, <3>2
      DEF Reap, HangUp, TypeOK, EndsOf, OrderOf, Gone, workerVars
    <3>3. CASE v # w
      BY <1>3, <2>1, <2>2, <3>1, <3>3
      DEF Reap, HangUp, TypeOK, EndsOf, OrderOf, Gone, workerVars
    <3> QED BY <3>2, <3>3
  <2> QED BY <2>3 DEF WorkerEnds, StateOrder
<1>4. ASSUME NEW w \in Workers, DisconnectEvent(w)
      PROVE  WorkerEnds' /\ StateOrder
  <2>1. \A k \in Keys : members'[k] \subseteq members[k] /\ w \notin members'[k]
    <3>1. DropMembers({w}, Keys) /\ {w} \in SUBSET Workers
      BY <1>4 DEF DisconnectEvent
    <3>2. ASSUME NEW k \in Keys
          PROVE  members'[k] \subseteq members[k] /\ members'[k] \cap {w} = {}
      BY <3>1, DropMembersEffect
    <3> QED BY <3>2
  <2>2. EndsOf(w)
    BY DEF WorkerEnds
  <2>3. discEv[w] = "queued" /\ ~pconn[w] /\ proc[w] # "unborn" /\ exitEv[w] # "done"
    BY <1>4, <2>2 DEF DisconnectEvent, EndsOf, TypeOK
  <2>4. \/ proc' = [proc EXCEPT ![w] = "dead"] /\ wconn' = [wconn EXCEPT ![w] = FALSE]
        \/ UNCHANGED <<proc, wconn>>
    BY <1>4 DEF DisconnectEvent, End, workerVars
  <2>5. wdisc' = wdisc
    BY <1>4 DEF DisconnectEvent, End, workerVars
  <2>6. ASSUME NEW v \in Workers
        PROVE  EndsOf(v)' /\ OrderOf(v)
    <3>1. EndsOf(v)
      BY DEF WorkerEnds
    <3>2. listed' \subseteq listed /\ pconn' = pconn /\ exitEv' = exitEv
      BY <1>4 DEF DisconnectEvent
    <3>3. CASE v = w
      BY <1>4, <2>1, <2>3, <2>4, <2>5, <3>1, <3>2, <3>3
      DEF DisconnectEvent, TypeOK, EndsOf, OrderOf, Gone
    <3>4. CASE v # w
      BY <1>4, <2>1, <2>4, <2>5, <3>1, <3>2, <3>4
      DEF DisconnectEvent, TypeOK, EndsOf, OrderOf, Gone
    <3> QED BY <3>3, <3>4
  <2> QED BY <2>6 DEF WorkerEnds, StateOrder
<1>5. ASSUME NEW w \in Workers, ExitEvent(w)
      PROVE  WorkerEnds' /\ StateOrder
  <2>1. EndsOf(w)
    BY DEF WorkerEnds
  <2>2. exitEv[w] = "queued" /\ ~pconn[w] /\ discEv[w] = "done" /\ Gone(w)
    BY <1>5, <2>1 DEF ExitEvent, EndsOf, TypeOK, Gone
  <2>3. listed' = listed \ {w} /\ \A k \in Keys : members'[k] \subseteq members[k]
    BY <1>5, <2>2, DropMembersEffect DEF ExitEvent
  <2>4. ASSUME NEW v \in Workers
        PROVE  EndsOf(v)' /\ OrderOf(v)
    <3>1. EndsOf(v)
      BY DEF WorkerEnds
    <3>2. CASE v = w
      BY <1>5, <2>2, <2>3, <3>1, <3>2
      DEF ExitEvent, TypeOK, EndsOf, OrderOf, Gone, workerVars
    <3>3. CASE v # w
      BY <1>5, <2>3, <3>1, <3>3
      DEF ExitEvent, TypeOK, EndsOf, OrderOf, Gone, workerVars
    <3> QED BY <3>2, <3>3
  <2> QED BY <2>4 DEF WorkerEnds, StateOrder
<1>6. CASE UNCHANGED vars
  BY <1>1, <1>6 DEF Quiet, QuietFor, Gone, vars, stateVars, primaryVars, entryVars, workerVars
<1>7. CASE Loops
  <2>1. CASE \/ \E k \in Keys : ListenDone(k) \/ ListenFailed(k)
             \/ \E o \in late : ListenSettledLate(o)
    BY <1>1, <2>1, PrimaryQuiet
  <2>2. ASSUME NEW w \in Workers, OnInternal(w)
        PROVE  WorkerEnds' /\ StateOrder
    BY <1>1, <2>2, OnInternalQuiet
  <2>3. ASSUME NEW w \in Workers, PrimaryEvents(w)
        PROVE  WorkerEnds' /\ StateOrder
    BY <1>1, <1>3, <1>4, <1>5, <2>3, PrimaryQuiet DEF PrimaryEvents
  <2>4. ASSUME NEW w \in Workers,
               \/ Boot(w) \/ WorkerReads(w) \/ WorkerDiscEvent(w) \/ KillSent(w)
               \/ \E k \in Keys : ServerSteps(w, k)
        PROVE  WorkerEnds' /\ StateOrder
    BY <1>1, <2>4, WorkerQuiet
  <2> QED
    BY <1>7, <2>1, <2>2, <2>3, <2>4 DEF Loops
<1>8. CASE Uses
  <2>1. ASSUME NEW w \in Workers, NEW k \in Keys,
               Listen(w, k) \/ Route(w, k) \/ ConnectionEnds(w, k)
        PROVE  WorkerEnds' /\ StateOrder
    BY <1>1, <2>1, WorkerQuiet
  <2> QED
    BY <1>2, <1>8, <2>1 DEF Uses
<1>9. CASE Upset
  <2>1. CASE \/ DisconnectAll \/ PrimaryExit
             \/ \E w \in Workers : AskDisconnect(w) \/ AskKill(w) \/ ProcessDisconnect(w)
    BY <1>1, <2>1, PrimaryQuiet
  <2>2. ASSUME NEW w \in Workers,
               \/ CallDisconnect(w) \/ CallKill(w) \/ Exit(w)
               \/ \E k \in Keys : CloseStarting(w, k) \/ Close(w, k)
        PROVE  WorkerEnds' /\ StateOrder
    BY <1>1, <2>2, WorkerQuiet
  <2> QED
    BY <1>9, <2>1, <2>2 DEF Upset
<1> QED
  BY <1>6, <1>7, <1>8, <1>9 DEF Next

\* The order in which a worker ends holds for every number of workers.
THEOREM WorkerEndsHolds == Spec => []WorkerEnds
<1>1. Init => WorkerEnds
  BY DEF Init, WorkerEnds, EndsOf, Gone
<1>2. TypeOK /\ WorkerEnds /\ [Next]_vars => WorkerEnds'
  BY StepEnds
<1> QED
  BY <1>1, <1>2, TypeCorrect, PTL DEF Spec

\* Once a worker's 'disconnect' event has run no address lists it any more.
THEOREM GoneWorkerIsUnlisted == Spec => []NoHandleForGoneWorker
<1>1. WorkerEnds => NoHandleForGoneWorker
  BY DEF WorkerEnds, EndsOf, NoHandleForGoneWorker
<1> QED
  BY <1>1, WorkerEndsHolds, PTL

\* 'disconnect' precedes 'exit', and a worker that exited is in no list.
THEOREM ExitComesLast == Spec => []ExitIsLast
<1>1. WorkerEnds => ExitIsLast
  BY DEF WorkerEnds, EndsOf, ExitIsLast
<1> QED
  BY <1>1, WorkerEndsHolds, PTL

\* What a worker leaves behind, for every number of workers and addresses: no address lists
\* it after 'disconnect', which comes before 'exit', after which cluster.workers has lost it.
THEOREM WorkersLeaveCleanly == Spec => []WorkerLeavesCleanly
<1>1. NoHandleForGoneWorker /\ ExitIsLast => WorkerLeavesCleanly
  BY DEF WorkerLeavesCleanly
<1> QED
  BY <1>1, GoneWorkerIsUnlisted, ExitComesLast, PTL

\* worker.state: after 'disconnect' only 'exit' changes it, and "dead" is final.
THEOREM StateIsOrdered == Spec => StateNeverRegresses
<1>1. TypeOK /\ WorkerEnds /\ [Next]_vars => [StateOrder]_pstate
  BY StepEnds
<1>2. [StateOrder]_pstate
        <=> [\A w \in Workers : pstate'[w] # pstate[w] =>
               /\ pstate[w] # "dead"
               /\ pstate[w] = "disconnected" => pstate'[w] = "dead"]_pstate
  BY DEF StateOrder, OrderOf
<1> QED
  BY <1>1, <1>2, TypeCorrect, WorkerEndsHolds, PTL DEF Spec, StateNeverRegresses

------------------------------------------------------------------------------
(* Queues of messages.                                                     *)

Holds(q, m) == \E i \in 1..Len(q) : q[i] = m
Once(q, m) == \A i, j \in 1..Len(q) : q[i] = m /\ q[j] = m => i = j
Followed(q, m, p) ==
  \A i \in 1..Len(q) : q[i] = m => \E j \in 1..Len(q) : j > i /\ q[j] = p

\* An empty queue holds no message.
LEMMA HoldsInNothing ==
  ASSUME NEW m, NEW p
  PROVE  ~Holds(<<>>, m) /\ Once(<<>>, m) /\ Followed(<<>>, m, p)
BY DEF Holds, Once, Followed

\* A queue of one message holds that one only.
LEMMA HoldsInOne ==
  ASSUME NEW e, NEW m
  PROVE  Holds(<<e>>, m) <=> e = m
BY DEF Holds

\* What a queue holds once messages were written behind it.
LEMMA HoldsInConcat ==
  ASSUME NEW S, NEW s \in Seq(S), NEW t \in Seq(S), NEW m
  PROVE  Holds(s \o t, m) <=> Holds(s, m) \/ Holds(t, m)
<1>1. Len(s \o t) = Len(s) + Len(t) /\ Len(s) \in Nat /\ Len(t) \in Nat
  OBVIOUS
<1>2. \A i \in 1..Len(s) : (s \o t)[i] = s[i]
  OBVIOUS
<1>3. \A i \in 1..Len(t) : (s \o t)[Len(s) + i] = t[i]
  OBVIOUS
<1>4. ASSUME Holds(s \o t, m) PROVE Holds(s, m) \/ Holds(t, m)
  <2>1. PICK i \in 1..Len(s \o t) : (s \o t)[i] = m
    BY <1>4 DEF Holds
  <2>2. CASE i <= Len(s)
    BY <1>1, <1>2, <2>1, <2>2 DEF Holds
  <2>3. CASE i > Len(s)
    <3>1. i - Len(s) \in 1..Len(t) /\ Len(s) + (i - Len(s)) = i
      BY <1>1, <2>3
    <3>2. t[i - Len(s)] = m
      BY <1>3, <2>1, <3>1
    <3> QED BY <3>1, <3>2 DEF Holds
  <2> QED BY <1>1, <2>2, <2>3
<1>5. ASSUME Holds(s, m) PROVE Holds(s \o t, m)
  <2>1. PICK i \in 1..Len(s) : s[i] = m
    BY <1>5 DEF Holds
  <2>2. i \in 1..Len(s \o t) /\ (s \o t)[i] = m
    BY <1>1, <1>2, <2>1
  <2> QED BY <2>2 DEF Holds
<1>6. ASSUME Holds(t, m) PROVE Holds(s \o t, m)
  <2>1. PICK i \in 1..Len(t) : t[i] = m
    BY <1>6 DEF Holds
  <2>2. Len(s) + i \in 1..Len(s \o t) /\ (s \o t)[Len(s) + i] = m
    BY <1>1, <1>3, <2>1
  <2> QED BY <2>2 DEF Holds
<1> QED BY <1>4, <1>5, <1>6

\* What a queue holds once one message was written behind it.
LEMMA HoldsInAppend ==
  ASSUME NEW S, NEW s \in Seq(S), NEW e \in S, NEW m
  PROVE  Holds(Append(s, e), m) <=> Holds(s, m) \/ e = m
<1> DEFINE t == <<e>>
<1>1. Append(s, e) = s \o t /\ t \in Seq(S)
  OBVIOUS
<1>2. Holds(t, m) <=> e = m
  BY HoldsInOne
<1> HIDE DEF t
<1>3. Holds(s \o t, m) <=> Holds(s, m) \/ Holds(t, m)
  BY <1>1, HoldsInConcat
<1> QED BY <1>1, <1>2, <1>3

\* What is added at the end does not come before what was there.
LEMMA AddedBehind ==
  ASSUME NEW S, NEW s \in Seq(S), NEW t \in Seq(S), NEW m, NEW p, ~Holds(t, m)
  PROVE  /\ Once(s, m) => Once(s \o t, m)
         /\ Followed(s, m, p) \/ Holds(t, p) => Followed(s \o t, m, p)
<1>1. Len(s \o t) = Len(s) + Len(t) /\ Len(s) \in Nat /\ Len(t) \in Nat
  OBVIOUS
<1>2. \A i \in 1..Len(s) : (s \o t)[i] = s[i]
  OBVIOUS
<1>3. \A i \in 1..Len(t) : (s \o t)[Len(s) + i] = t[i]
  OBVIOUS
<1>4. ASSUME NEW i \in 1..Len(s \o t), (s \o t)[i] = m
      PROVE  i \in 1..Len(s) /\ s[i] = m
  <2>1. CASE i <= Len(s)
    BY <1>1, <1>2, <1>4, <2>1
  <2>2. CASE i > Len(s)
    <3>1. i - Len(s) \in 1..Len(t) /\ Len(s) + (i - Len(s)) = i
      BY <1>1, <2>2
    <3>2. t[i - Len(s)] = m
      BY <1>3, <1>4, <3>1
    <3> QED BY <3>1, <3>2 DEF Holds
  <2> QED BY <1>1, <2>1, <2>2
<1>5. Once(s, m) => Once(s \o t, m)
  BY <1>4 DEF Once
<1>6. ASSUME Followed(s, m, p) PROVE Followed(s \o t, m, p)
  <2>1. ASSUME NEW i \in 1..Len(s \o t), (s \o t)[i] = m
        PROVE  \E j \in 1..Len(s \o t) : j > i /\ (s \o t)[j] = p
    <3>1. PICK j \in 1..Len(s) : j > i /\ s[j] = p
      BY <1>4, <1>6, <2>1 DEF Followed
    <3>2. j \in 1..Len(s \o t) /\ (s \o t)[j] = p
      BY <1>1, <1>2, <3>1
    <3> QED BY <3>1, <3>2
  <2> QED BY <2>1 DEF Followed
<1>7. ASSUME Holds(t, p) PROVE Followed(s \o t, m, p)
  <2>1. PICK n \in 1..Len(t) : t[n] = p
    BY <1>7 DEF Holds
  <2>2. Len(s) + n \in 1..Len(s \o t) /\ (s \o t)[Len(s) + n] = p /\ Len(s) + n > Len(s)
    BY <1>1, <1>3, <2>1
  <2>3. ASSUME NEW i \in 1..Len(s \o t), (s \o t)[i] = m
        PROVE  Len(s) + n > i
    <3>1. i \in 1..Len(s)
      BY <1>4, <2>3
    <3> QED BY <1>1, <2>1, <3>1
  <2> QED BY <2>2, <2>3 DEF Followed
<1> QED BY <1>5, <1>6, <1>7

\* A message that the queue did not hold is in it once after it was written.
LEMMA OnceAdded ==
  ASSUME NEW S, NEW s \in Seq(S), NEW m \in S, ~Holds(s, m)
  PROVE  Once(s \o <<m>>, m)
<1>1. /\ Len(s \o <<m>>) = Len(s) + 1 /\ Len(s) \in Nat
      /\ \A i \in 1..Len(s) : (s \o <<m>>)[i] = s[i]
  OBVIOUS
<1>2. ASSUME NEW i \in 1..Len(s \o <<m>>), (s \o <<m>>)[i] = m
      PROVE  i = Len(s) + 1
  BY <1>1, <1>2 DEF Holds
<1> QED BY <1>1, <1>2 DEF Once

\* What reading the first message leaves of a queue.
LEMMA HoldsInTail ==
  ASSUME NEW S, NEW s \in Seq(S), s # <<>>, NEW m, NEW p
  PROVE  /\ Holds(s, m) <=> Head(s) = m \/ Holds(Tail(s), m)
         /\ Once(s, m) => Once(Tail(s), m)
         /\ Followed(s, m, p) => Followed(Tail(s), m, p)
         /\ Head(s) = m /\ Once(s, m) => ~Holds(Tail(s), m)
         /\ Head(s) = m /\ Followed(s, m, p) => Holds(Tail(s), p)
<1>1. Len(Tail(s)) = Len(s) - 1 /\ Len(s) \in Nat \ {0} /\ Head(s) = s[1]
  OBVIOUS
<1>2. \A i \in 1..Len(Tail(s)) : Tail(s)[i] = s[i + 1] /\ i + 1 \in 1..Len(s)
  BY <1>1
<1>3. \A i \in 1..Len(s) : i # 1 => i - 1 \in 1..Len(Tail(s)) /\ Tail(s)[i - 1] = s[i]
  <2>1. ASSUME NEW i \in 1..Len(s), i # 1
        PROVE  i - 1 \in 1..Len(Tail(s)) /\ (i - 1) + 1 = i
    BY <1>1, <2>1
  <2> QED BY <1>2, <2>1
<1>4. Holds(s, m) <=> Head(s) = m \/ Holds(Tail(s), m)
  <2>1. ASSUME Holds(s, m) PROVE Head(s) = m \/ Holds(Tail(s), m)
    <3>1. PICK i \in 1..Len(s) : s[i] = m
      BY <2>1 DEF Holds
    <3> QED BY <1>1, <1>3, <3>1 DEF Holds
  <2>2. ASSUME Head(s) = m PROVE Holds(s, m)
    BY <1>1, <2>2 DEF Holds
  <2>3. ASSUME Holds(Tail(s), m) PROVE Holds(s, m)
    <3>1. PICK i \in 1..Len(Tail(s)) : Tail(s)[i] = m
      BY <2>3 DEF Holds
    <3> QED BY <1>2, <3>1 DEF Holds
  <2> QED BY <2>1, <2>2, <2>3
<1>5. Once(s, m) => Once(Tail(s), m)
  <2>1. ASSUME Once(s, m), NEW i \in 1..Len(Tail(s)), NEW j \in 1..Len(Tail(s)),
               Tail(s)[i] = m, Tail(s)[j] = m
        PROVE  i = j
    <3>1. i + 1 = j + 1
      BY <1>2, <2>1 DEF Once
    <3> QED BY <3>1
  <2> QED BY <2>1 DEF Once
<1>6. Followed(s, m, p) => Followed(Tail(s), m, p)
  <2>1. ASSUME Followed(s, m, p), NEW i \in 1..Len(Tail(s)), Tail(s)[i] = m
        PROVE  \E j \in 1..Len(Tail(s)) : j > i /\ Tail(s)[j] = p
    <3>1. PICK j \in 1..Len(s) : j > i + 1 /\ s[j] = p
      BY <1>2, <2>1 DEF Followed
    <3>2. j - 1 \in 1..Len(Tail(s)) /\ j - 1 > i /\ Tail(s)[j - 1] = p
      BY <1>1, <1>3, <3>1
    <3> QED BY <3>2
  <2> QED BY <2>1 DEF Followed
<1>7. Head(s) = m /\ Once(s, m) => ~Holds(Tail(s), m)
  <2>1. ASSUME s[1] = m, Once(s, m), NEW i \in 1..Len(Tail(s)), Tail(s)[i] = m
        PROVE  FALSE
    <3>1. i + 1 = 1
      BY <1>1, <1>2, <2>1 DEF Once
    <3> QED BY <3>1
  <2> QED BY <1>1, <2>1 DEF Holds
<1>8. Head(s) = m /\ Followed(s, m, p) => Holds(Tail(s), p)
  <2>1. ASSUME s[1] = m, Followed(s, m, p)
        PROVE  Holds(Tail(s), p)
    <3>1. PICK j \in 1..Len(s) : j > 1 /\ s[j] = p
      BY <1>1, <2>1 DEF Followed
    <3> QED BY <1>3, <3>1 DEF Holds
  <2> QED BY <1>1, <2>1
<1> QED BY <1>4, <1>5, <1>6, <1>7, <1>8

\* A message the queue does not hold is in it at most once, and followed by any.
LEMMA NotHeldIsFollowed ==
  ASSUME NEW q, NEW m, NEW p, ~Holds(q, m)
  PROVE  Followed(q, m, p) /\ Once(q, m)
BY DEF Holds, Followed, Once

------------------------------------------------------------------------------
(* Routing.  What a pair of a worker and an address has asked for, is owed *)
(* and was told, while messages are on the way.                            *)

Query(k)   == Up("queryServer", k)
Order(k)   == Up("closeServer", k)
Reply(k, result) == Down("queryServerReply", k, result)
Bye        == Down("disconnect", None, "none")

\* The server was announced to the primary, or is about to be.
Asked(w, k) == srv[w][k] \notin {"none", "starting", "aborted"}

\* A dropped entry has yet to answer the worker.
Owed(w, k) == \E o \in late : o.key = k /\ w \in o.waiters

Linked(w) == Alive(w) /\ wconn[w] /\ PrimaryEnd(w)

Leaving(w) == Holds(toWorker[w], Bye)

\* The worker's server is open, or the primary is about to hear that it is not.
Sound(w, k) == (Alive(w) /\ k \in Serving(w)) \/ discEv[w] = "queued" \/ ~wconn[w]

Routed(w, k) == (phase[k] = "bound" /\ w \in members[k]) \/ Leaving(w)

Newborn(w, k) == proc[w] \in {"unborn", "booting"} => srv[w][k] = "none"

\* Nothing concerns a server that never asked.
Traced(w, k) ==
  \/ Holds(toPrimary[w], Query(k)) \/ w \in waiters[k] \/ w \in members[k] \/ Owed(w, k)
  \/ Holds(toWorker[w], Reply(k, "ok")) \/ Holds(toWorker[w], Reply(k, "error"))
  => Asked(w, k)

\* A query is sent once, and is not answered before it was read.
AskedOnce(w, k) ==
  /\ Once(toPrimary[w], Query(k))
  /\ w \in waiters[k] \/ Holds(toWorker[w], Reply(k, "error")) \/ Owed(w, k)
       => ~Holds(toPrimary[w], Query(k))

\* A worker that is told of an error, or will be, is in no entry.
Refused(w, k) ==
  Holds(toWorker[w], Reply(k, "error")) \/ Owed(w, k) => w \notin members[k]

\* A closed server's closeServer follows its query, and finds the worker listed or not.
Ordered(w, k) ==
  /\ Holds(toPrimary[w], Order(k)) => srv[w][k] \in {"closing", "closed"}
  /\ up /\ w \in members[k] => Sound(w, k) \/ Holds(toPrimary[w], Order(k))
  /\ up => Sound(w, k) \/ Followed(toPrimary[w], Query(k), Order(k))

\* A server that was told it listens, or is being told, is listed by a bound entry.
Served(w, k) ==
  Linked(w) =>
    /\ srv[w][k] = "listening" => Routed(w, k)
    /\ srv[w][k] = "querying" /\ Holds(toWorker[w], Reply(k, "ok")) => Routed(w, k)
    /\ srv[w][k] = "querying" /\ w \in waiters[k] => w \in members[k] \/ Leaving(w)

Agreed(w, k) ==
  /\ Newborn(w, k) /\ Traced(w, k) /\ AskedOnce(w, k)
  /\ Refused(w, k) /\ Ordered(w, k) /\ Served(w, k)

Agreement == \A w \in Workers, k \in Keys : Agreed(w, k)

\* The primary takes m from the worker's messages.
Popped(w, m) ==
  /\ toPrimary[w] # <<>> /\ Head(toPrimary[w]) = m
  /\ toPrimary'[w] \in {Tail(toPrimary[w]), <<>>}

\* What a step of the primary may do to a pair.
PrimaryFor(w, k) ==
  /\ srv' = srv
  /\ \/ proc'[w] = proc[w] /\ (wconn'[w] => wconn[w])
     \/ proc[w] # "unborn" /\ proc'[w] = "dead" /\ ~wconn'[w]
  /\ up' => up
  /\ pconn'[w] => pconn[w]
  /\ \/ toPrimary'[w] = toPrimary[w]
     \/ toPrimary'[w] = <<>> /\ (discEv'[w] = "queued" \/ ~wconn'[w])
     \/ toPrimary[w] # <<>> /\ toPrimary'[w] = Tail(toPrimary[w])
  /\ w \in members'[k] => w \in members[k] \/ Popped(w, Query(k))
  /\ w \in waiters'[k] => w \in waiters[k] \/ Popped(w, Query(k))
  /\ Popped(w, Order(k)) => w \notin members'[k] \/ discEv'[w] = "queued" \/ ~wconn'[w]
  /\ Owed(w, k)' => Owed(w, k) \/ (w \in waiters[k] /\ w \notin members'[k])
  /\ Holds(toWorker'[w], Reply(k, "error"))
       => \/ Holds(toWorker[w], Reply(k, "error")) \/ Owed(w, k)
          \/ w \in waiters[k] /\ w \notin members'[k]
  /\ Holds(toWorker'[w], Reply(k, "ok"))
       => Holds(toWorker[w], Reply(k, "ok")) \/ w \in waiters[k] \/ Popped(w, Query(k))
  /\ \/ discEv'[w] \in {discEv[w], "queued"}
     \/ toPrimary'[w] = <<>> /\ w \notin members'[k]
  /\ Served(w, k)'

\* A step of the primary that does no more than PrimaryFor allows keeps the agreement
\* of that worker and address.
LEMMA PrimaryKeeps ==
  ASSUME TypeOK, NEW w \in Workers, NEW k \in Keys, Agreed(w, k), PrimaryFor(w, k)
  PROVE  Agreed(w, k)'
<1> DEFINE q == toPrimary[w]
           r == toPrimary'[w]
<1>1. /\ Holds(r, Query(k)) => Holds(q, Query(k))
      /\ Holds(r, Order(k)) => Holds(q, Order(k))
      /\ Once(q, Query(k)) => Once(r, Query(k))
      /\ Followed(q, Query(k), Order(k)) => Followed(r, Query(k), Order(k))
      /\ Popped(w, Query(k)) => Holds(q, Query(k))
      /\ Popped(w, Query(k)) /\ Once(q, Query(k)) => ~Holds(r, Query(k))
      /\ Popped(w, Query(k)) /\ Followed(q, Query(k), Order(k))
           => Holds(r, Order(k)) \/ discEv'[w] = "queued" \/ ~wconn'[w]
      /\ Holds(q, Order(k)) => \/ Holds(r, Order(k)) \/ Popped(w, Order(k))
                               \/ discEv'[w] = "queued" \/ ~wconn'[w]
      /\ r = <<>> => ~Holds(r, Query(k)) /\ Followed(r, Query(k), Order(k))
  <2>1. q \in Seq(UpMsg)
    BY DEF TypeOK
  <2>2. \A m : Popped(w, m) <=> q # <<>> /\ Head(q) = m /\ r \in {Tail(q), <<>>}
    BY DEF Popped
  <2> HIDE DEF q, r
  <2>3. ASSUME q # <<>>, r = Tail(q), NEW m, NEW p
        PROVE  /\ Holds(q, m) <=> Head(q) = m \/ Holds(r, m)
               /\ Once(q, m) => Once(r, m)
               /\ Followed(q, m, p) => Followed(r, m, p)
               /\ Head(q) = m /\ Once(q, m) => ~Holds(r, m)
               /\ Head(q) = m /\ Followed(q, m, p) => Holds(r, p)
    BY <2>1, <2>3, HoldsInTail
  <2>4. \A m, p : ~Holds(<<>>, m) /\ Once(<<>>, m) /\ Followed(<<>>, m, p)
    BY HoldsInNothing
  <2>5. CASE q # <<>> /\ r = Tail(q)
    BY <2>2, <2>3, <2>4, <2>5
  <2>6. \A m : q # <<>> /\ Head(q) = m => Holds(q, m)
    BY <2>1, HoldsInTail
  <2>7. CASE r = <<>> /\ (discEv'[w] = "queued" \/ ~wconn'[w])
    BY <2>2, <2>4, <2>6, <2>7
  <2>8. CASE r = q /\ ~(q # <<>> /\ r = Tail(q))
    BY <2>2, <2>4, <2>8
  <2> QED BY <2>5, <2>7, <2>8 DEF PrimaryFor, q, r
<1> HIDE DEF q, r
<1>2. Newborn(w, k)'
  BY DEF Agreed, Newborn, PrimaryFor
<1>3. Traced(w, k)'
  BY <1>1 DEF Agreed, Traced, PrimaryFor, Asked, q, r
<1>4. AskedOnce(w, k)'
  BY <1>1 DEF Agreed, AskedOnce, PrimaryFor, q, r
<1>5. Refused(w, k)'
  BY <1>1 DEF Agreed, Refused, AskedOnce, PrimaryFor, q, r
<1>6. Ordered(w, k)'
  <2>1. Sound(w, k) => Sound(w, k)' \/ (r = <<>> /\ w \notin members'[k])
    BY DEF Sound, Alive, Serving, PrimaryFor, r
  <2>2. discEv'[w] = "queued" \/ ~wconn'[w] => Sound(w, k)'
    BY DEF Sound
  <2> QED BY <1>1, <2>1, <2>2 DEF Agreed, Ordered, PrimaryFor, q, r
<1> QED BY <1>2, <1>3, <1>4, <1>5, <1>6 DEF Agreed, PrimaryFor

\* What a step of a worker may do to a pair.
WorkerFor(w, k) ==
  /\ UNCHANGED primaryVars
  /\ wconn'[w] => wconn[w]
  /\ proc'[w] \in {"unborn", "booting"} => proc'[w] = proc[w] /\ srv'[w] = srv[w]
  /\ Asked(w, k) => Asked(w, k)'
  /\ srv[w][k] \in {"closing", "closed"} => srv'[w][k] \in {"closing", "closed"}
  /\ srv'[w][k] = "listening"
       => \/ srv[w][k] = "listening"
          \/ srv[w][k] = "querying" /\ Holds(toWorker[w], Reply(k, "ok"))
  /\ srv'[w][k] = "querying" => srv[w][k] \in {"querying", "starting"}
  /\ \A result : Holds(toWorker'[w], Reply(k, result)) => Holds(toWorker[w], Reply(k, result))
  /\ Linked(w)' /\ k \in Serving(w)' => Linked(w) /\ (Leaving(w) => Leaving(w)')
  /\ \E ms \in Seq(UpMsg) :
       /\ toPrimary'[w] = toPrimary[w] \o ms
       /\ Holds(ms, Query(k)) => /\ ms = <<Query(k)>>
                                 /\ srv[w][k] = "starting" /\ srv'[w][k] = "querying"
                                 /\ Sound(w, k)'
       /\ Holds(ms, Order(k)) => srv'[w][k] \in {"closing", "closed"}
       /\ Alive(w) /\ k \in Serving(w)
            => \/ Sound(w, k)' \/ Holds(ms, Order(k))
               \/ Holds(toWorker[w], Reply(k, "error"))

\* A step of the workers that does no more than WorkerFor allows keeps the agreement
\* of that worker and address.
LEMMA WorkerKeeps ==
  ASSUME TypeOK, NEW w \in Workers, NEW k \in Keys, Agreed(w, k), WorkerFor(w, k)
  PROVE  Agreed(w, k)'
<1> DEFINE q == toPrimary[w]
           r == toPrimary'[w]
<1>1. PICK ms \in Seq(UpMsg) :
        /\ r = q \o ms
        /\ Holds(ms, Query(k)) => /\ ms = <<Query(k)>>
                                  /\ srv[w][k] = "starting" /\ srv'[w][k] = "querying"
                                  /\ Sound(w, k)'
        /\ Holds(ms, Order(k)) => srv'[w][k] \in {"closing", "closed"}
        /\ Alive(w) /\ k \in Serving(w)
             => \/ Sound(w, k)' \/ Holds(ms, Order(k))
                \/ Holds(toWorker[w], Reply(k, "error"))
  BY DEF WorkerFor
<1>2. q \in Seq(UpMsg)
  BY DEF TypeOK
<1> HIDE DEF q, r
<1>3. /\ Holds(r, Query(k)) <=> Holds(q, Query(k)) \/ Holds(ms, Query(k))
      /\ Holds(r, Order(k)) <=> Holds(q, Order(k)) \/ Holds(ms, Order(k))
  BY <1>1, <1>2, HoldsInConcat
<1>4. ~Holds(ms, Query(k))
        => /\ Once(q, Query(k)) => Once(r, Query(k))
           /\ Followed(q, Query(k), Order(k)) \/ Holds(ms, Order(k))
                => Followed(r, Query(k), Order(k))
  BY <1>1, <1>2, AddedBehind
<1>5. ~Holds(q, Query(k)) /\ ms = <<Query(k)>> => Once(r, Query(k))
  BY <1>1, <1>2, OnceAdded
<1>6. ~Holds(r, Query(k)) => Once(r, Query(k)) /\ Followed(r, Query(k), Order(k))
  BY NotHeldIsFollowed
<1>7. ~Holds(q, Query(k)) => Followed(q, Query(k), Order(k))
  BY NotHeldIsFollowed
<1>8. UNCHANGED <<up, pconn, discEv, phase, members, waiters, late>> /\ (Owed(w, k)' <=> Owed(w, k))
  BY DEF WorkerFor, primaryVars, Owed
<1>9. Asked(w, k) <=> srv[w][k] \notin {"none", "starting", "aborted"}
  BY DEF Asked
<1>10. Newborn(w, k)'
  BY DEF Agreed, Newborn, WorkerFor
<1>11. Traced(w, k)'
  BY <1>1, <1>3, <1>8 DEF Agreed, Traced, WorkerFor, Asked, q, r
<1>12. AskedOnce(w, k)'
  BY <1>1, <1>3, <1>4, <1>5, <1>6, <1>8, <1>9 DEF Agreed, AskedOnce, Traced, WorkerFor, q, r
<1>13. Refused(w, k)'
  BY <1>8 DEF Agreed, Refused, WorkerFor
<1>14. Ordered(w, k)'
  <2>1. Holds(r, Order(k)) => srv'[w][k] \in {"closing", "closed"}
    BY <1>1, <1>3 DEF Agreed, Ordered, WorkerFor, q
  <2>2. Sound(w, k) => \/ Sound(w, k)' \/ Holds(ms, Order(k))
                       \/ Holds(toWorker[w], Reply(k, "error"))
    BY <1>1, <1>8 DEF Sound, WorkerFor
  <2>3. Holds(toWorker[w], Reply(k, "error")) => w \notin members[k] /\ ~Holds(q, Query(k))
    BY DEF Agreed, Refused, AskedOnce, q
  <2>4. Holds(ms, Query(k)) => Sound(w, k)'
    BY <1>1
  <2>5. up' /\ w \in members'[k] => Sound(w, k)' \/ Holds(r, Order(k))
    BY <1>3, <1>8, <2>2, <2>3 DEF Agreed, Ordered, q
  <2>6. up' => Sound(w, k)' \/ Followed(r, Query(k), Order(k))
    BY <1>3, <1>4, <1>6, <1>7, <1>8, <2>2, <2>3, <2>4 DEF Agreed, Ordered, q
  <2> QED BY <2>1, <2>5, <2>6 DEF Ordered, r
<1>15. Served(w, k)'
  <2>1. /\ srv'[w][k] \in {"querying", "listening"} => k \in Serving(w)'
        /\ srv'[w][k] = "querying" /\ srv[w][k] # "querying"
             => w \notin waiters[k] /\ ~Holds(toWorker[w], Reply(k, "ok"))
    BY <1>9 DEF Serving, WorkerFor, Agreed, Traced
  <2> QED BY <1>8, <2>1 DEF Agreed, Served, Routed, WorkerFor
<1> QED BY <1>10, <1>11, <1>12, <1>13, <1>14, <1>15 DEF Agreed

\* Reading a message changes the queue.
LEMMA TailDiffers ==
  ASSUME NEW S, NEW q \in Seq(S), q # <<>>
  PROVE  Tail(q) # q
<1> DEFINE t == Tail(q)
<1>1. Len(t) = Len(q) - 1 /\ Len(q) \in Nat
  OBVIOUS
<1> HIDE DEF t
<1>2. t # q
  BY <1>1
<1> QED BY <1>2 DEF t

\* send() on the primary's side adds its message to the inboxes it reaches.
LEMMA SendToDelivers ==
  ASSUME TypeOK, NEW T \in SUBSET Workers, NEW m \in DownMsg,
         NEW read \in [Workers -> Seq(UpMsg)], SendTo(T, m, read), NEW w \in Workers
  PROVE  /\ pconn'[w] => pconn[w]
         /\ discEv'[w] \in {discEv[w], "queued"}
         /\ toPrimary'[w] = read[w] \/ (toPrimary'[w] = <<>> /\ discEv'[w] = "queued")
         /\ toWorker'[w] = toWorker[w] \/ (w \in T /\ toWorker'[w] = Append(toWorker[w], m))
         /\ w \in T /\ pconn'[w] /\ wconn[w] => toWorker'[w] = Append(toWorker[w], m)
<1>1. PICK kept \in SUBSET Broken(T) :
        /\ toWorker' = [v \in Workers |->
             IF v \in Reached(T) THEN Append(toWorker[v], m) ELSE toWorker[v]]
        /\ toPrimary' = [v \in Workers |->
             IF v \in Broken(T) \ kept THEN <<>> ELSE read[v]]
        /\ HangUp(Broken(T))
  BY DEF SendTo
<1>2. /\ pconn'[w] <=> pconn[w] /\ w \notin Broken(T)
      /\ discEv'[w] = IF w \in Broken(T) THEN "queued" ELSE discEv[w]
  BY <1>1 DEF HangUp
<1>3. toPrimary'[w] = read[w] \/ (toPrimary'[w] = <<>> /\ w \in Broken(T))
  BY <1>1
<1>4. w \in Reached(T) <=> w \in T /\ pconn[w] /\ wconn[w]
  BY DEF Reached
<1>5. w \in Broken(T) <=> w \in T /\ pconn[w] /\ ~wconn[w]
  BY DEF Broken
<1>6. toWorker'[w] = IF w \in Reached(T) THEN Append(toWorker[w], m) ELSE toWorker[w]
  BY <1>1
<1> QED BY <1>2, <1>3, <1>4, <1>5, <1>6

\* The inbox that such a message is added to.
LEMMA InboxAfter ==
  ASSUME TypeOK, NEW w \in Workers, NEW m \in DownMsg, NEW x
  PROVE  Holds(Append(toWorker[w], m), x) <=> Holds(toWorker[w], x) \/ x = m
<1>1. toWorker[w] \in Seq(DownMsg)
  BY DEF TypeOK
<1> QED BY <1>1, HoldsInAppend

\* Dropping members leaves the entries of the others alone; who was waiting is owed.
LEMMA DropMembersOwes ==
  ASSUME TypeOK, NEW T \in SUBSET Workers, NEW ks \in SUBSET Keys, DropMembers(T, ks),
         NEW w \in Workers, NEW k \in Keys
  PROVE  /\ w \in members'[k] => w \in members[k]
         /\ w \in waiters'[k] => w \in waiters[k]
         /\ w \in T /\ k \in ks => w \notin members'[k]
         /\ (w \notin T \/ k \notin ks) /\ w \in members[k]
              => w \in members'[k] /\ phase'[k] = phase[k]
         /\ Owed(w, k)' => Owed(w, k) \/ (w \in waiters[k] /\ w \notin members'[k])
<1>1. members'[k] = IF k \in ks THEN members[k] \ T ELSE members[k]
  BY DEF DropMembers
<1>2. phase'[k] = IF k \in Dropped(T, ks) THEN "none" ELSE phase[k]
  BY DEF DropMembers
<1>3. waiters'[k] = IF k \in Dropped(T, ks) THEN {} ELSE waiters[k]
  BY DEF DropMembers
<1>4. k \in Dropped(T, ks) => k \in ks /\ members[k] \subseteq T
  BY DEF Dropped
<1>5. Owed(w, k)' => Owed(w, k) \/ (w \in waiters[k] /\ w \notin members'[k])
  <2>1. ASSUME Owed(w, k)', ~Owed(w, k)
        PROVE  w \in waiters[k] /\ w \notin members'[k]
    <3>1. PICK o \in late' : o.key = k /\ w \in o.waiters
      BY <2>1 DEF Owed
    <3>2. o \notin late
      BY <2>1, <3>1 DEF Owed
    <3>3. PICK j \in Dropped(T, ks) : o = Unsettled(j)
      BY <3>1, <3>2 DEF DropMembers
    <3>4. o.key = j /\ o.waiters = waiters[j]
      BY <3>3 DEF Unsettled
    <3> QED BY <1>1, <1>4, <3>1, <3>3, <3>4
  <2> QED BY <2>1
<1> QED BY <1>1, <1>2, <1>3, <1>4, <1>5

\* The message a handler takes, and what it leaves.
LEMMA HeadEffect ==
  ASSUME TypeOK, NEW v \in Workers, NEW act, Dispatching(v, act)
  PROVE  /\ toPrimary[v] # <<>> /\ Head(toPrimary[v]) \in UpMsg
         /\ Rest(v) \in [Workers -> Seq(UpMsg)]
         /\ act \in {"queryServer", "closeServer"} => Head(toPrimary[v]).key \in Keys
         /\ Head(toPrimary[v]) = Up(act, Head(toPrimary[v]).key)
         /\ \A w \in Workers : Rest(v)[w] = IF w = v THEN Tail(toPrimary[v]) ELSE toPrimary[w]
<1>1. toPrimary[v] # <<>> /\ Head(toPrimary[v]).act = act /\ up
  BY DEF Dispatching
<1>2. \A m \in UpMsg : m = Up(m.act, m.key)
  BY DEF UpMsg, Up
<1>3. \A w \in Workers : Rest(v)[w] = IF w = v THEN Tail(toPrimary[v]) ELSE toPrimary[w]
  BY DEF Rest, TypeOK
<1> QED BY <1>1, <1>2, <1>3, RestType

\* Reading a message that concerns no entry.
LEMMA OnNoticeFor ==
  ASSUME TypeOK, Agreement, NEW v \in Workers, NEW w \in Workers, NEW k \in Keys,
         OnOnline(v) \/ OnListening(v) \/ OnExitedAfterDisconnect(v)
  PROVE  PrimaryFor(w, k)
<1>1. PICK act \in {"online", "listening", "exitedAfterDisconnect"} : Dispatching(v, act)
  BY DEF OnOnline, OnListening, OnExitedAfterDisconnect
<1>2. /\ toPrimary' = Rest(v)
      /\ UNCHANGED <<up, pconn, discEv, entryVars, toWorker, workerVars>>
  BY DEF OnOnline, OnListening, OnExitedAfterDisconnect
<1>3. toPrimary'[w] = IF w = v THEN Tail(toPrimary[v]) ELSE toPrimary[w]
  BY <1>1, <1>2, HeadEffect
<1>4. toPrimary[w] # <<>> => Tail(toPrimary[w]) # toPrimary[w]
  BY TailDiffers DEF TypeOK
<1>5. toPrimary[v] # <<>> /\ Head(toPrimary[v]).act = act
  BY <1>1 DEF Dispatching
<1>6. ~Popped(w, Order(k))
  BY <1>3, <1>4, <1>5 DEF Popped, Order, Up
<1>7. Served(w, k)'
  BY <1>2 DEF Agreement, Agreed, Served, Routed, Leaving, Linked, Alive, PrimaryEnd,
         entryVars, workerVars
<1> QED BY <1>2, <1>3, <1>5, <1>6, <1>7 DEF PrimaryFor, Owed, entryVars, workerVars

\* What a pair keeps when neither its entry nor its messages lose anything.
LEMMA ServedStays ==
  ASSUME TypeOK, Agreement, NEW w \in Workers, NEW k \in Keys,
         UNCHANGED <<srv, proc, wconn>>, up' => up, pconn'[w] => pconn[w],
         Linked(w)' /\ Linked(w) =>
           /\ Leaving(w) => Leaving(w)'
           /\ \/ Leaving(w)'
              \/ /\ phase[k] = "bound" /\ w \in members[k]
                      => phase'[k] = "bound" /\ w \in members'[k]
                 /\ w \in waiters'[k] /\ w \notin members'[k]
                      => w \in waiters[k] /\ w \notin members[k]
                 /\ Holds(toWorker'[w], Reply(k, "ok"))
                      => Holds(toWorker[w], Reply(k, "ok")) \/ Routed(w, k)'
              \/ srv[w][k] \in {"closing", "closed"}
  PROVE  Served(w, k)'
<1>1. Linked(w)' => Linked(w)
  BY DEF Linked, Alive, PrimaryEnd
<1>2. Served(w, k)
  BY DEF Agreement, Agreed
<1> QED BY <1>1, <1>2 DEF Served, Routed

\* closeServer: the worker leaves the entry.
LEMMA OnCloseServerFor ==
  ASSUME TypeOK, Agreement, NEW v \in Workers, NEW w \in Workers, NEW k \in Keys,
         OnCloseServer(v)
  PROVE  PrimaryFor(w, k)
<1> DEFINE key == Head(toPrimary[v]).key
<1>1. Dispatching(v, "closeServer") /\ DropMembers({v}, {key})
  BY DEF OnCloseServer
<1>2. /\ toPrimary' = Rest(v)
      /\ UNCHANGED <<up, pconn, discEv, toWorker, workerVars>>
  BY DEF OnCloseServer
<1>3. /\ toPrimary'[w] = IF w = v THEN Tail(toPrimary[v]) ELSE toPrimary[w]
      /\ key \in Keys /\ Head(toPrimary[v]) = Order(key) /\ toPrimary[v] # <<>>
  BY <1>1, <1>2, HeadEffect DEF Order
<1>4. toPrimary[w] # <<>> => Tail(toPrimary[w]) # toPrimary[w]
  BY TailDiffers DEF TypeOK
<1>5. {v} \in SUBSET Workers /\ {key} \in SUBSET Keys
  BY <1>3
<1>6. /\ w \in members'[k] => w \in members[k]
      /\ w \in waiters'[k] => w \in waiters[k]
      /\ w \in {v} /\ k \in {key} => w \notin members'[k]
      /\ (w \notin {v} \/ k \notin {key}) /\ w \in members[k]
           => w \in members'[k] /\ phase'[k] = phase[k]
      /\ Owed(w, k)' => Owed(w, k) \/ (w \in waiters[k] /\ w \notin members'[k])
  BY <1>1, <1>5, DropMembersOwes
<1> HIDE DEF key
<1>7. Popped(w, Order(k)) => w = v /\ k = key
  BY <1>3, <1>4 DEF Popped, Order, Up
<1>8. w = v /\ k = key => srv[w][k] \in {"closing", "closed"}
  <2>1. ASSUME w = v, k = key
        PROVE  Holds(toPrimary[w], Order(k))
    <3>1. toPrimary[w] \in Seq(UpMsg)
      BY DEF TypeOK
    <3> QED BY <1>3, <2>1, <3>1, HoldsInTail
  <2> QED BY <2>1 DEF Agreement, Agreed, Ordered
<1>9. Served(w, k)'
  BY <1>2, <1>6, <1>8, ServedStays DEF Leaving, workerVars
<1> QED BY <1>2, <1>3, <1>6, <1>7, <1>9 DEF PrimaryFor, workerVars

\* queryServer: the worker enters the entry, is answered or waits.
LEMMA OnQueryFor ==
  ASSUME TypeOK, Agreement, NEW v \in Workers, NEW w \in Workers, NEW k \in Keys,
         QueryFirst(v) \/ QueryWaiting(v) \/ QueryBound(v)
  PROVE  PrimaryFor(w, k)
<1> DEFINE key == Head(toPrimary[v]).key
<1>1. Dispatching(v, "queryServer") /\ UNCHANGED <<up, late, workerVars>>
  BY DEF QueryFirst, QueryWaiting, QueryBound
<1>2. /\ Rest(v) \in [Workers -> Seq(UpMsg)]
      /\ Rest(v)[w] = IF w = v THEN Tail(toPrimary[v]) ELSE toPrimary[w]
      /\ key \in Keys /\ Head(toPrimary[v]) = Query(key) /\ toPrimary[v] # <<>>
  BY <1>1, HeadEffect DEF Query
<1> HIDE DEF key
<1>3. /\ pconn'[w] => pconn[w]
      /\ discEv'[w] \in {discEv[w], "queued"}
      /\ toPrimary'[w] = Rest(v)[w] \/ (toPrimary'[w] = <<>> /\ discEv'[w] = "queued")
      /\ \A x : Holds(toWorker'[w], x)
                  => \/ Holds(toWorker[w], x)
                     \/ w = v /\ x = Reply(key, "ok") /\ phase[key] = "bound"
      /\ \A x : Holds(toWorker[w], x) => Holds(toWorker'[w], x)
  <2>1. CASE QueryBound(v)
    <3>1. SendTo({v}, Reply(key, "ok"), Rest(v)) /\ phase[key] = "bound"
      BY <2>1 DEF QueryBound, key, Reply
    <3>2. {v} \in SUBSET Workers /\ Reply(key, "ok") \in DownMsg
      BY <1>2, MessageType DEF Reply
    <3>3. /\ pconn'[w] => pconn[w]
          /\ discEv'[w] \in {discEv[w], "queued"}
          /\ toPrimary'[w] = Rest(v)[w] \/ (toPrimary'[w] = <<>> /\ discEv'[w] = "queued")
          /\ \/ toWorker'[w] = toWorker[w]
             \/ w \in {v} /\ toWorker'[w] = Append(toWorker[w], Reply(key, "ok"))
      BY <1>2, <3>1, <3>2, SendToDelivers
    <3>4. ASSUME NEW x
          PROVE  Holds(Append(toWorker[w], Reply(key, "ok")), x)
                   <=> Holds(toWorker[w], x) \/ x = Reply(key, "ok")
      BY <3>2, InboxAfter
    <3> QED BY <3>1, <3>3, <3>4
  <2>2. CASE QueryFirst(v) \/ QueryWaiting(v)
    BY <2>2 DEF QueryFirst, QueryWaiting
  <2> QED BY <2>1, <2>2
<1>4. /\ members'[k] = IF k = key THEN (IF phase[k] = "none" THEN {} ELSE members[k]) \cup {v}
                       ELSE members[k]
      /\ k # key => phase'[k] = phase[k] /\ waiters'[k] = waiters[k]
      /\ phase[k] = "bound" => phase'[k] = "bound" /\ waiters'[k] = waiters[k]
      /\ phase[k] = "none" /\ k = key => waiters'[k] = {v}
      /\ waiters'[k] \subseteq waiters[k] \cup {v}
  <2>1. CASE QueryFirst(v)
    <3>1. /\ phase[key] = "none"
          /\ members' = [members EXCEPT ![key] = {v}] /\ waiters' = [waiters EXCEPT ![key] = {v}]
      BY <2>1 DEF QueryFirst, key
    <3>2. PICK fails \in BOOLEAN :
            phase' = [phase EXCEPT ![key] = IF fails THEN "failing" ELSE "binding"]
      BY <2>1 DEF QueryFirst, key
    <3>3. k # key => phase'[k] = phase[k]
      BY <1>2, <3>2 DEF TypeOK
    <3> QED BY ZenonT(60), <1>2, <3>1, <3>3 DEF TypeOK
  <2>2. CASE QueryWaiting(v)
    <3>1. /\ phase[key] \in {"binding", "failing"} /\ phase' = phase
          /\ members' = [members EXCEPT ![key] = @ \cup {v}]
          /\ waiters' = [waiters EXCEPT ![key] = @ \cup {v}]
      BY <2>2 DEF QueryWaiting, key
    <3> QED BY <1>2, <3>1 DEF TypeOK
  <2>3. CASE QueryBound(v)
    <3>1. /\ phase[key] = "bound" /\ phase' = phase /\ waiters' = waiters
          /\ members' = [members EXCEPT ![key] = @ \cup {v}]
      BY <2>3 DEF QueryBound, key
    <3> QED BY <1>2, <3>1 DEF TypeOK
  <2> QED BY <2>1, <2>2, <2>3
<1>5. toPrimary[w] # <<>> => Tail(toPrimary[w]) # toPrimary[w]
  BY TailDiffers DEF TypeOK
<1>6. w = v /\ k = key => Popped(w, Query(k))
  BY <1>2, <1>3 DEF Popped
<1>7. Popped(w, Order(k)) => discEv'[w] = "queued"
  <2>1. CASE w = v
    BY <1>2, <2>1 DEF Popped, Order, Query, Up
  <2>2. CASE w # v
    BY <1>2, <1>3, <1>5, <2>2 DEF Popped
  <2> QED BY <2>1, <2>2
<1>8. Reply(key, "ok") = Reply(k, "ok") <=> key = k
  BY DEF Reply, Down
<1>9. Reply(key, "ok") # Reply(k, "error")
  BY DEF Reply, Down
<1>10. Served(w, k)'
  BY <1>1, <1>3, <1>4, <1>8, ServedStays DEF Leaving, Routed, workerVars
<1>11. /\ srv' = srv
       /\ proc'[w] = proc[w] /\ (wconn'[w] => wconn[w])
       /\ up' => up
  BY <1>1 DEF workerVars
<1>12. \/ toPrimary'[w] = toPrimary[w]
       \/ toPrimary'[w] = <<>> /\ discEv'[w] = "queued"
       \/ toPrimary[w] # <<>> /\ toPrimary'[w] = Tail(toPrimary[w])
  BY <1>2, <1>3
<1>13. /\ w \in members'[k] => w \in members[k] \/ Popped(w, Query(k))
       /\ w \in waiters'[k] => w \in waiters[k] \/ Popped(w, Query(k))
  BY <1>4, <1>6
<1>14. Owed(w, k)' => Owed(w, k)
  BY <1>1 DEF Owed
<1>15. Holds(toWorker'[w], Reply(k, "error")) => Holds(toWorker[w], Reply(k, "error"))
  BY <1>3, <1>9
<1>16. Holds(toWorker'[w], Reply(k, "ok")) => Holds(toWorker[w], Reply(k, "ok")) \/ Popped(w, Query(k))
  BY <1>3, <1>6, <1>8
<1> QED BY <1>3, <1>7, <1>10, <1>11, <1>12, <1>13, <1>14, <1>15, <1>16 DEF PrimaryFor

\* A queue that stays as it was had no message read.
LEMMA NotPopped ==
  ASSUME TypeOK, NEW w \in Workers, toPrimary'[w] = toPrimary[w], NEW m
  PROVE  ~Popped(w, m)
<1>1. toPrimary[w] # <<>> => Tail(toPrimary[w]) # toPrimary[w]
  BY TailDiffers DEF TypeOK
<1> QED BY <1>1 DEF Popped

\* What listen() comes to.
LEMMA ListenDoneFor ==
  ASSUME TypeOK, Agreement, NEW j \in Keys, ListenDone(j), NEW w \in Workers, NEW k \in Keys
  PROVE  PrimaryFor(w, k)
<1>1. waiters[j] \in SUBSET Workers /\ Reply(j, "ok") \in DownMsg
      /\ toPrimary \in [Workers -> Seq(UpMsg)]
  BY MessageType DEF TypeOK, Reply
<1>2. /\ SendTo(waiters[j], Reply(j, "ok"), toPrimary)
      /\ UNCHANGED <<up, members, late, workerVars>>
  BY DEF ListenDone, Reply
<1>3. /\ pconn'[w] => pconn[w]
      /\ discEv'[w] \in {discEv[w], "queued"}
      /\ toPrimary'[w] = toPrimary[w] \/ (toPrimary'[w] = <<>> /\ discEv'[w] = "queued")
      /\ \/ toWorker'[w] = toWorker[w]
         \/ w \in waiters[j] /\ toWorker'[w] = Append(toWorker[w], Reply(j, "ok"))
  BY <1>1, <1>2, SendToDelivers
<1>4. ASSUME NEW x
      PROVE  Holds(Append(toWorker[w], Reply(j, "ok")), x) <=> Holds(toWorker[w], x) \/ x = Reply(j, "ok")
  BY <1>1, InboxAfter
<1>5. /\ Reply(j, "ok") = Reply(k, "ok") <=> k = j
      /\ Reply(j, "ok") # Reply(k, "error")
  BY DEF Reply, Down
<1>6. /\ waiters'[k] = IF k = j THEN {} ELSE waiters[k]
      /\ phase'[k] = IF k = j THEN "bound" ELSE phase[k]
  BY DEF ListenDone, TypeOK
<1>7. Popped(w, Order(k)) => discEv'[w] = "queued"
  BY <1>3, NotPopped
<1>8. Owed(w, k)' => Owed(w, k)
  BY <1>2 DEF Owed
<1>9. /\ Holds(toWorker[w], Bye) => Holds(toWorker'[w], Bye)
      /\ Holds(toWorker'[w], Reply(k, "ok"))
           => Holds(toWorker[w], Reply(k, "ok")) \/ (w \in waiters[k] /\ k = j)
      /\ Holds(toWorker'[w], Reply(k, "error")) => Holds(toWorker[w], Reply(k, "error"))
  BY <1>3, <1>4, <1>5
<1>10. Served(w, k)'
  <2>1. Linked(w)' => Linked(w)
    BY <1>2, <1>3 DEF Linked, Alive, PrimaryEnd, workerVars
  <2>2. Served(w, k)
    BY DEF Agreement, Agreed
  <2> QED BY <1>2, <1>6, <1>9, <2>1, <2>2 DEF Served, Routed, Leaving, workerVars
<1> QED BY <1>2, <1>3, <1>6, <1>7, <1>8, <1>9, <1>10 DEF PrimaryFor, workerVars

\* What a listen() that fails (EADDRINUSE) does to a worker and an address.
LEMMA ListenFailedFor ==
  ASSUME TypeOK, Agreement, NEW j \in Keys, ListenFailed(j), NEW w \in Workers, NEW k \in Keys
  PROVE  PrimaryFor(w, k)
<1>1. waiters[j] \in SUBSET Workers /\ Reply(j, "error") \in DownMsg
      /\ toPrimary \in [Workers -> Seq(UpMsg)]
  BY MessageType DEF TypeOK, Reply
<1>2. /\ SendTo(waiters[j], Reply(j, "error"), toPrimary)
      /\ UNCHANGED <<up, late, workerVars>>
  BY DEF ListenFailed, Reply
<1>3. /\ pconn'[w] => pconn[w]
      /\ discEv'[w] \in {discEv[w], "queued"}
      /\ toPrimary'[w] = toPrimary[w] \/ (toPrimary'[w] = <<>> /\ discEv'[w] = "queued")
      /\ \/ toWorker'[w] = toWorker[w]
         \/ w \in waiters[j] /\ toWorker'[w] = Append(toWorker[w], Reply(j, "error"))
  BY <1>1, <1>2, SendToDelivers
<1>4. ASSUME NEW x
      PROVE  Holds(Append(toWorker[w], Reply(j, "error")), x) <=> Holds(toWorker[w], x) \/ x = Reply(j, "error")
  BY <1>1, InboxAfter
<1>5. /\ Reply(j, "error") = Reply(k, "error") <=> k = j
      /\ Reply(j, "error") # Reply(k, "ok")
  BY DEF Reply, Down
<1>6. /\ waiters'[k] = IF k = j THEN {} ELSE waiters[k]
      /\ members'[k] = IF k = j THEN {} ELSE members[k]
      /\ phase'[k] = IF k = j THEN "none" ELSE phase[k]
      /\ phase[j] = "failing"
  BY DEF ListenFailed, TypeOK
<1>7. Popped(w, Order(k)) => discEv'[w] = "queued"
  BY <1>3, NotPopped
<1>8. Owed(w, k)' => Owed(w, k)
  BY <1>2 DEF Owed
<1>9. /\ Holds(toWorker[w], Bye) => Holds(toWorker'[w], Bye)
      /\ Holds(toWorker'[w], Reply(k, "error"))
           => Holds(toWorker[w], Reply(k, "error")) \/ (w \in waiters[k] /\ k = j)
      /\ Holds(toWorker'[w], Reply(k, "ok")) => Holds(toWorker[w], Reply(k, "ok"))
  BY <1>3, <1>4, <1>5
<1>10. Served(w, k)'
  BY <1>2, <1>3, <1>6, <1>9, ServedStays DEF Leaving, workerVars
<1> QED BY <1>2, <1>3, <1>6, <1>7, <1>8, <1>9, <1>10 DEF PrimaryFor, workerVars

\* What the answer of an entry that was dropped while it was binding does to them.
LEMMA ListenSettledLateFor ==
  ASSUME TypeOK, Agreement, NEW o \in late, ListenSettledLate(o), NEW w \in Workers, NEW k \in Keys
  PROVE  PrimaryFor(w, k)
<1> DEFINE m == Down("queryServerReply", o.key, o.result)
<1>1. /\ o.waiters \in SUBSET Workers /\ o.key \in Keys /\ o.result \in {"error", "null"}
      /\ m \in DownMsg /\ toPrimary \in [Workers -> Seq(UpMsg)]
  <2>1. o \in Orphan
    BY DEF TypeOK
  <2> QED BY <2>1, MessageType DEF Orphan, TypeOK
<1>2. /\ SendTo(o.waiters, m, toPrimary)
      /\ late' = late \ {o}
      /\ UNCHANGED <<up, phase, members, waiters, workerVars>>
  BY DEF ListenSettledLate
<1>3. /\ m # Reply(k, "ok")
      /\ m = Reply(k, "error") => k = o.key
  BY <1>1 DEF Reply, Down
<1> HIDE DEF m
<1>4. /\ pconn'[w] => pconn[w]
      /\ discEv'[w] \in {discEv[w], "queued"}
      /\ toPrimary'[w] = toPrimary[w] \/ (toPrimary'[w] = <<>> /\ discEv'[w] = "queued")
      /\ \/ toWorker'[w] = toWorker[w]
         \/ w \in o.waiters /\ toWorker'[w] = Append(toWorker[w], m)
  BY <1>1, <1>2, SendToDelivers
<1>5. ASSUME NEW x
      PROVE  Holds(Append(toWorker[w], m), x) <=> Holds(toWorker[w], x) \/ x = m
  BY <1>1, InboxAfter
<1>6. Popped(w, Order(k)) => discEv'[w] = "queued"
  BY <1>4, NotPopped
<1>7. /\ Owed(w, k)' => Owed(w, k)
      /\ w \in o.waiters /\ k = o.key => Owed(w, k)
  BY <1>2 DEF Owed
<1>8. /\ Holds(toWorker[w], Bye) => Holds(toWorker'[w], Bye)
      /\ Holds(toWorker'[w], Reply(k, "error")) => Holds(toWorker[w], Reply(k, "error")) \/ Owed(w, k)
      /\ Holds(toWorker'[w], Reply(k, "ok")) => Holds(toWorker[w], Reply(k, "ok"))
  BY <1>3, <1>4, <1>5, <1>7
<1>9. Served(w, k)'
  BY <1>2, <1>4, <1>8, ServedStays DEF Leaving, workerVars
<1> QED BY <1>2, <1>4, <1>6, <1>7, <1>8, <1>9 DEF PrimaryFor, workerVars

\* The end of a worker, seen from the primary.
LEMMA HangUpFor ==
  ASSUME TypeOK, Agreement, NEW H \in SUBSET Workers, HangUp(H),
         UNCHANGED <<up, entryVars, toWorker, workerVars>>,
         NEW w \in Workers, NEW k \in Keys,
         toPrimary'[w] = toPrimary[w] \/ (toPrimary'[w] = <<>> /\ w \in H)
  PROVE  PrimaryFor(w, k)
<1>1. /\ pconn'[w] => pconn[w]
      /\ discEv'[w] = IF w \in H THEN "queued" ELSE discEv[w]
  BY DEF HangUp
<1>2. Popped(w, Order(k)) => discEv'[w] = "queued"
  BY <1>1, NotPopped
<1>3. Served(w, k)'
  BY <1>1, ServedStays DEF Leaving, entryVars, workerVars
<1> QED BY <1>1, <1>2, <1>3 DEF PrimaryFor, Owed, entryVars, workerVars

\* What the 'disconnect' event of a worker does to a worker and an address.
LEMMA DisconnectEventFor ==
  ASSUME TypeOK, WorkerEnds, Agreement, NEW v \in Workers, DisconnectEvent(v),
         NEW w \in Workers, NEW k \in Keys
  PROVE  PrimaryFor(w, k)
<1>1. /\ ~pconn[v] /\ proc[v] # "unborn" /\ toPrimary[v] = <<>>
      /\ discEv' = [discEv EXCEPT ![v] = "done"]
      /\ DropMembers({v}, Keys)
      /\ UNCHANGED <<up, pconn, toPrimary, srv>>
      /\ \/ End(v, "dead") \/ UNCHANGED <<workerVars, toWorker>>
  BY DEF DisconnectEvent, WorkerEnds, EndsOf, End, workerVars
<1>2. {v} \in SUBSET Workers /\ Keys \in SUBSET Keys
  OBVIOUS
<1>3. /\ w \in members'[k] => w \in members[k]
      /\ w \in waiters'[k] => w \in waiters[k]
      /\ w \in {v} /\ k \in Keys => w \notin members'[k]
      /\ (w \notin {v} \/ k \notin Keys) /\ w \in members[k]
           => w \in members'[k] /\ phase'[k] = phase[k]
      /\ Owed(w, k)' => Owed(w, k) \/ (w \in waiters[k] /\ w \notin members'[k])
  BY <1>1, <1>2, DropMembersOwes
<1>4. ~Popped(w, Order(k))
  BY <1>1, NotPopped
<1>5. /\ w # v => proc'[w] = proc[w] /\ (wconn'[w] <=> wconn[w]) /\ toWorker'[w] = toWorker[w]
      /\ \/ proc'[v] = proc[v] /\ (wconn'[v] => wconn[v]) /\ toWorker'[v] = toWorker[v]
         \/ proc'[v] = "dead" /\ ~wconn'[v] /\ toWorker'[v] = <<>>
  BY <1>1 DEF End, TypeOK, workerVars
<1>6. \A x : Holds(toWorker'[w], x) => Holds(toWorker[w], x)
  BY <1>5, HoldsInNothing
<1>7. discEv'[w] = IF w = v THEN "done" ELSE discEv[w]
  BY <1>1 DEF TypeOK
<1>8. Served(w, k)'
  <2>1. CASE w = v
    BY <1>1, <2>1 DEF Served, Linked, PrimaryEnd
  <2>2. CASE w # v
    <3>1. Linked(w)' => Linked(w)
      BY <1>1, <1>5, <2>2 DEF Linked, Alive, PrimaryEnd
    <3>2. Served(w, k)
      BY DEF Agreement, Agreed
    <3> QED BY <1>1, <1>3, <1>5, <2>2, <3>1, <3>2 DEF Served, Routed, Leaving
  <2> QED BY <2>1, <2>2
<1> QED BY <1>1, <1>3, <1>4, <1>5, <1>6, <1>7, <1>8 DEF PrimaryFor

\* What the 'exit' event of a worker does to them.
LEMMA ExitEventFor ==
  ASSUME TypeOK, WorkerEnds, Agreement, NEW v \in Workers, ExitEvent(v),
         NEW w \in Workers, NEW k \in Keys
  PROVE  PrimaryFor(w, k)
<1>1. /\ ~pconn[v] /\ DropMembers({v}, Keys)
      /\ UNCHANGED <<up, pconn, discEv, toPrimary, toWorker, workerVars>>
  BY DEF ExitEvent, WorkerEnds, EndsOf, TypeOK
<1>2. {v} \in SUBSET Workers /\ Keys \in SUBSET Keys
  OBVIOUS
<1>3. /\ w \in members'[k] => w \in members[k]
      /\ w \in waiters'[k] => w \in waiters[k]
      /\ (w \notin {v} \/ k \notin Keys) /\ w \in members[k]
           => w \in members'[k] /\ phase'[k] = phase[k]
      /\ Owed(w, k)' => Owed(w, k) \/ (w \in waiters[k] /\ w \notin members'[k])
  BY <1>1, <1>2, DropMembersOwes
<1>4. ~Popped(w, Order(k))
  BY <1>1, NotPopped
<1>5. Served(w, k)'
  <2>1. CASE w = v
    BY <1>1, <2>1 DEF Served, Linked, PrimaryEnd
  <2>2. CASE w # v
    BY <1>1, <1>3, <2>2, ServedStays DEF Leaving, workerVars
  <2> QED BY <2>1, <2>2
<1> QED BY <1>1, <1>3, <1>4, <1>5 DEF PrimaryFor, workerVars

\* disconnect: the worker leaves every entry and is told so.
LEMMA AskedToLeaveFor ==
  ASSUME TypeOK, Agreement, NEW T \in SUBSET Workers, DropMembers(T, Keys),
         SendTo(T, Bye, toPrimary), UNCHANGED <<up, workerVars>>,
         NEW w \in Workers, NEW k \in Keys
  PROVE  PrimaryFor(w, k)
<1>1. Bye \in DownMsg /\ toPrimary \in [Workers -> Seq(UpMsg)] /\ Keys \in SUBSET Keys
  BY MessageType DEF TypeOK, Bye
<1>2. /\ pconn'[w] => pconn[w]
      /\ discEv'[w] \in {discEv[w], "queued"}
      /\ toPrimary'[w] = toPrimary[w] \/ (toPrimary'[w] = <<>> /\ discEv'[w] = "queued")
      /\ toWorker'[w] = toWorker[w] \/ (w \in T /\ toWorker'[w] = Append(toWorker[w], Bye))
      /\ w \in T /\ pconn'[w] /\ wconn[w] => toWorker'[w] = Append(toWorker[w], Bye)
  BY ZenonT(60), <1>1, SendToDelivers
<1>3. ASSUME NEW x
      PROVE  Holds(Append(toWorker[w], Bye), x) <=> Holds(toWorker[w], x) \/ x = Bye
  BY <1>1, InboxAfter
<1>4. Bye # Reply(k, "ok") /\ Bye # Reply(k, "error")
  BY DEF Bye, Reply, Down
<1>5. /\ w \in members'[k] => w \in members[k]
      /\ w \in waiters'[k] => w \in waiters[k]
      /\ (w \notin T \/ k \notin Keys) /\ w \in members[k]
           => w \in members'[k] /\ phase'[k] = phase[k]
      /\ Owed(w, k)' => Owed(w, k) \/ (w \in waiters[k] /\ w \notin members'[k])
  BY <1>1, DropMembersOwes
<1>6. Popped(w, Order(k)) => discEv'[w] = "queued"
  BY <1>2, NotPopped
<1>7. /\ Holds(toWorker[w], Bye) => Holds(toWorker'[w], Bye)
      /\ w \in T /\ pconn'[w] /\ wconn[w] => Holds(toWorker'[w], Bye)
      /\ Holds(toWorker'[w], Reply(k, "error")) => Holds(toWorker[w], Reply(k, "error"))
      /\ Holds(toWorker'[w], Reply(k, "ok")) => Holds(toWorker[w], Reply(k, "ok"))
  BY <1>2, <1>3, <1>4
<1>8. Served(w, k)'
  <2>1. CASE w \in T
    BY <1>2, <1>7, <2>1, ServedStays DEF Leaving, Linked, PrimaryEnd, workerVars
  <2>2. CASE w \notin T
    BY <1>2, <1>5, <1>7, <2>2, ServedStays DEF Leaving, workerVars
  <2> QED BY <2>1, <2>2
<1> QED BY <1>2, <1>5, <1>6, <1>7, <1>8 DEF PrimaryFor, workerVars

\* Every step of the primary but fork() keeps the agreement.
LEMMA PrimaryAgrees ==
  ASSUME TypeOK, WorkerEnds, Agreement,
         \/ \E k \in Keys : ListenDone(k) \/ ListenFailed(k)
         \/ \E o \in late : ListenSettledLate(o)
         \/ DisconnectAll \/ PrimaryExit
         \/ \E v \in Workers : \/ OnInternal(v) \/ PrimaryEvents(v)
                               \/ AskDisconnect(v) \/ AskKill(v) \/ ProcessDisconnect(v)
  PROVE  Agreement'
<1> SUFFICES ASSUME NEW w \in Workers, NEW k \in Keys
             PROVE  PrimaryFor(w, k)
  BY PrimaryKeeps DEF Agreement
<1>1. ASSUME NEW j \in Keys, ListenDone(j) \/ ListenFailed(j)
      PROVE  PrimaryFor(w, k)
  BY <1>1, ListenDoneFor, ListenFailedFor
<1>2. ASSUME NEW o \in late, ListenSettledLate(o)
      PROVE  PrimaryFor(w, k)
  BY <1>2, ListenSettledLateFor
<1>3. CASE DisconnectAll
  <2>1. {v \in listed : pconn[v]} \in SUBSET Workers
    BY DEF TypeOK
  <2> QED BY <1>3, <2>1, AskedToLeaveFor DEF DisconnectAll, Bye
<1>4. CASE PrimaryExit
  <2>1. ~Popped(w, Order(k))
    BY <1>4, NotPopped DEF PrimaryExit
  <2>2. Served(w, k)'
    BY <1>4 DEF PrimaryExit, Served, Linked, PrimaryEnd
  <2> QED BY <1>4, <2>1, <2>2 DEF PrimaryExit, PrimaryFor, Owed, entryVars, workerVars
<1>5. ASSUME NEW v \in Workers, OnInternal(v)
      PROVE  PrimaryFor(w, k)
  BY <1>5, OnNoticeFor, OnCloseServerFor, OnQueryFor DEF OnInternal
<1>6. ASSUME NEW v \in Workers, PrimaryEOF(v) \/ Reap(v) \/ ProcessDisconnect(v)
      PROVE  PrimaryFor(w, k)
  <2>1. \E H \in SUBSET Workers :
          /\ HangUp(H)
          /\ toPrimary'[w] = toPrimary[w] \/ (toPrimary'[w] = <<>> /\ w \in H)
    <3>1. CASE PrimaryEOF(v)
      BY <3>1 DEF PrimaryEOF
    <3>2. CASE Reap(v)
      <4>1. {v} \cap Broken(Workers) \in SUBSET Workers
        OBVIOUS
      <4> QED BY <3>2, <4>1 DEF Reap
    <3>3. CASE ProcessDisconnect(v)
      <4>1. {v} \in SUBSET Workers /\ HangUp({v})
        BY <3>3 DEF ProcessDisconnect
      <4>2. toPrimary'[w] = toPrimary[w] \/ (toPrimary'[w] = <<>> /\ w \in {v})
        BY <3>3 DEF ProcessDisconnect, TypeOK
      <4> QED BY <4>1, <4>2
    <3> QED BY <1>6, <3>1, <3>2, <3>3
  <2>2. UNCHANGED <<up, entryVars, toWorker, workerVars>>
    BY <1>6 DEF PrimaryEOF, Reap, ProcessDisconnect
  <2> QED BY <2>1, <2>2, HangUpFor
<1>7. ASSUME NEW v \in Workers, PrimaryEvents(v)
      PROVE  PrimaryFor(w, k)
  BY <1>6, <1>7, DisconnectEventFor, ExitEventFor DEF PrimaryEvents
<1>8. ASSUME NEW v \in Workers, AskDisconnect(v) \/ AskKill(v)
      PROVE  PrimaryFor(w, k)
  <2>1. /\ DropMembers({v}, Keys) /\ SendTo({v}, Bye, toPrimary) /\ UNCHANGED <<up, workerVars>>
        /\ {v} \in SUBSET Workers
    BY <1>8 DEF AskDisconnect, AskKill, Bye
  <2> QED BY <2>1, AskedToLeaveFor
<1> QED
  BY <1>1, <1>2, <1>3, <1>4, <1>5, <1>6, <1>7, <1>8

\* fork(): a worker that nothing concerns yet.
LEMMA ForkAgrees ==
  ASSUME TypeOK, Agreement, NEW v \in Workers, Fork(v)
  PROVE  Agreement'
<1> SUFFICES ASSUME NEW w \in Workers, NEW k \in Keys
             PROVE  Agreed(w, k)'
  BY DEF Agreement
<1>1. Agreed(w, k)
  BY DEF Agreement
<1>2. UNCHANGED <<up, discEv, entryVars, toPrimary, toWorker, srv>>
  BY DEF Fork
<1>3. CASE w = v
  <2>1. proc[w] = "unborn" /\ proc'[w] = "booting"
    BY <1>3 DEF Fork, TypeOK
  <2>2. srv[w][k] = "none" /\ ~Asked(w, k)
    BY <1>1, <2>1 DEF Agreed, Newborn, Asked
  <2>3. /\ ~Holds(toPrimary[w], Query(k)) /\ w \notin members[k] /\ w \notin waiters[k] /\ ~Owed(w, k)
        /\ ~Holds(toWorker[w], Reply(k, "ok")) /\ ~Holds(toWorker[w], Reply(k, "error"))
        /\ ~Holds(toPrimary[w], Order(k))
    BY <1>1, <2>2 DEF Agreed, Traced, Ordered
  <2>4. Followed(toPrimary[w], Query(k), Order(k)) /\ Once(toPrimary[w], Query(k))
    BY <2>3, NotHeldIsFollowed
  <2> QED BY <1>2, <2>1, <2>2, <2>3, <2>4
          DEF Agreed, Newborn, Traced, AskedOnce, Refused, Ordered, Served, Owed, Linked, Alive, entryVars
<1>4. CASE w # v
  <2>1. proc'[w] = proc[w] /\ (wconn'[w] <=> wconn[w]) /\ (pconn'[w] <=> pconn[w])
    BY <1>4 DEF Fork, TypeOK
  <2>2. /\ (Owed(w, k)' <=> Owed(w, k)) /\ (Asked(w, k)' <=> Asked(w, k)) /\ (Leaving(w)' <=> Leaving(w))
        /\ (Sound(w, k)' <=> Sound(w, k)) /\ (Linked(w)' <=> Linked(w))
    BY <1>2, <2>1 DEF Owed, Asked, Leaving, Sound, Linked, Alive, Serving, PrimaryEnd, entryVars
  <2> QED BY <1>1, <1>2, <2>1, <2>2
          DEF Agreed, Newborn, Traced, AskedOnce, Refused, Ordered, Served, Routed, entryVars
<1> QED BY <1>3, <1>4

------------------------------------------------------------------------------
(* The same of the workers' steps.                                         *)

\* A worker that a step does not touch.
LEMMA UntouchedFor ==
  ASSUME TypeOK, Agreement, NEW w \in Workers, NEW k \in Keys, UNCHANGED primaryVars,
         proc'[w] = proc[w], wconn'[w] <=> wconn[w], srv'[w] = srv[w],
         toPrimary'[w] = toPrimary[w], toWorker'[w] = toWorker[w]
  PROVE  WorkerFor(w, k)
<1>1. toPrimary'[w] = toPrimary[w] \o <<>> /\ <<>> \in Seq(UpMsg)
  BY DEF TypeOK
<1>2. ~Holds(<<>>, Query(k)) /\ ~Holds(<<>>, Order(k))
  BY HoldsInNothing
<1>3. Asked(w, k) => Asked(w, k)'
  BY DEF Asked
<1>4. Linked(w)' => Linked(w) /\ (Leaving(w) => Leaving(w)')
  BY DEF Linked, Alive, PrimaryEnd, Leaving, primaryVars
<1>5. Alive(w) /\ k \in Serving(w) => Sound(w, k)'
  BY DEF Sound, Alive, Serving
<1>6. \A result : Holds(toWorker'[w], Reply(k, result)) => Holds(toWorker[w], Reply(k, result))
  OBVIOUS
<1> QED BY <1>1, <1>2, <1>3, <1>4, <1>5, <1>6 DEF WorkerFor

\* A worker that only its inbox, its connection and its end concern: it announces nothing.
LEMMA SilentFor ==
  ASSUME TypeOK, Agreement, NEW w \in Workers, NEW k \in Keys, UNCHANGED primaryVars,
         wconn'[w] => wconn[w], proc'[w] = proc[w] \/ ~wconn'[w],
         proc'[w] \in {"unborn", "booting"} => proc'[w] = proc[w] /\ srv'[w] = srv[w],
         toPrimary'[w] = toPrimary[w],
         toWorker'[w] \in {toWorker[w], <<>>}, toWorker'[w] = toWorker[w] \/ ~wconn'[w],
         \/ srv'[w][k] = srv[w][k]
         \/ srv[w][k] = "none" /\ srv'[w][k] = "starting"
         \/ srv[w][k] = "starting" /\ srv'[w][k] = "aborted"
         \/ srv[w][k] = "closing" /\ srv'[w][k] = "closed"
  PROVE  WorkerFor(w, k)
<1>1. toPrimary'[w] = toPrimary[w] \o <<>> /\ <<>> \in Seq(UpMsg)
  BY DEF TypeOK
<1>2. ~Holds(<<>>, Query(k)) /\ ~Holds(<<>>, Order(k))
  BY HoldsInNothing
<1>3. Asked(w, k) => Asked(w, k)'
  BY DEF Asked
<1>4. Linked(w)' => Linked(w) /\ (Leaving(w) => Leaving(w)')
  BY DEF Linked, Alive, PrimaryEnd, Leaving, primaryVars
<1>5. Alive(w) /\ k \in Serving(w) => Sound(w, k)'
  BY DEF Sound, Alive, Serving
<1>6. \A result : Holds(toWorker'[w], Reply(k, result)) => Holds(toWorker[w], Reply(k, result))
  BY HoldsInNothing
<1> QED BY <1>1, <1>2, <1>3, <1>4, <1>5, <1>6 DEF WorkerFor

\* send() on a worker's side: what it does not deliver closes the channel.
LEMMA ReportSends ==
  ASSUME TypeOK, NEW w \in Workers, NEW ms \in Seq(UpMsg), NEW inbox \in Seq(DownMsg),
         NEW leave \in BOOLEAN, Report(w, ms, inbox, leave), NEW v \in Workers
  PROVE  /\ v = w => /\ wconn'[w] => wconn[w] /\ ~leave
                     /\ toPrimary'[w] \in {toPrimary[w] \o ms, toPrimary[w]}
                     /\ wconn'[w] => toPrimary'[w] = toPrimary[w] \o ms
                     /\ toWorker'[w] \in {inbox, <<>>}
                     /\ wconn'[w] => toWorker'[w] = inbox
                     /\ proc'[w] \in {proc[w], "errored"}
                     /\ wconn'[w] => proc'[w] = proc[w]
         /\ v # w => /\ proc'[v] = proc[v] /\ (wconn'[v] <=> wconn[v])
                     /\ toPrimary'[v] = toPrimary[v] /\ toWorker'[v] = toWorker[v]
<1> DEFINE cut  == ms # <<>> /\ ~PrimaryEnd(w)
           hung == wconn[w] /\ (leave \/ cut)
           lost == ~dying[w] /\ (IF wconn[w] THEN cut /\ Len(ms) > 1 ELSE ms # <<>>)
<1>1. /\ toPrimary' = IF wconn[w] /\ PrimaryEnd(w)
                     THEN [toPrimary EXCEPT ![w] = @ \o ms] ELSE toPrimary
      /\ wconn' = [wconn EXCEPT ![w] = @ /\ ~hung]
      /\ proc' = [proc EXCEPT ![w] = IF lost THEN "errored" ELSE @]
  BY DEF Report
<1>2. \E kept \in {inbox, <<>>} : toWorker' = [toWorker EXCEPT ![w] = IF hung THEN kept ELSE inbox]
  BY Zenon DEF Report
<1>3. /\ hung <=> wconn[w] /\ (leave \/ cut)
      /\ lost => cut \/ ~wconn[w]
      /\ cut <=> ms # <<>> /\ ~PrimaryEnd(w)
  OBVIOUS
<1> HIDE DEF cut, hung, lost
<1>4. PICK kept \in {inbox, <<>>} : toWorker' = [toWorker EXCEPT ![w] = IF hung THEN kept ELSE inbox]
  BY <1>2
<1>5. ms = <<>> => toPrimary[w] \o ms = toPrimary[w]
  BY DEF TypeOK
<1>6. CASE v = w
  <2>1. /\ wconn'[w] <=> wconn[w] /\ ~hung
        /\ proc'[w] = IF lost THEN "errored" ELSE proc[w]
        /\ toWorker'[w] = IF hung THEN kept ELSE inbox
    BY ZenonT(60), <1>1, <1>4 DEF TypeOK
  <2>2. toPrimary'[w] = IF wconn[w] /\ PrimaryEnd(w) THEN toPrimary[w] \o ms ELSE toPrimary[w]
    BY <1>1 DEF TypeOK
  <2> QED BY <1>3, <1>5, <1>6, <2>1, <2>2
<1>7. CASE v # w
  BY <1>1, <1>4, <1>7 DEF TypeOK
<1> QED BY <1>6, <1>7

\* What a worker that sends ms does to a pair.
LEMMA ReportFor ==
  ASSUME TypeOK, Agreement, NEW w \in Workers, NEW k \in Keys, Alive(w),
         NEW ms \in Seq(UpMsg), NEW inbox \in Seq(DownMsg), NEW leave \in BOOLEAN,
         Report(w, ms, inbox, leave), UNCHANGED primaryVars,
         Holds(ms, Query(k)) => /\ ms = <<Query(k)>>
                                /\ srv[w][k] = "starting" /\ srv'[w][k] = "querying",
         Holds(ms, Order(k)) => srv'[w][k] \in {"closing", "closed"},
         Asked(w, k) => Asked(w, k)',
         srv[w][k] \in {"closing", "closed"} => srv'[w][k] \in {"closing", "closed"},
         srv'[w][k] = "listening" => \/ srv[w][k] = "listening"
                                     \/ srv[w][k] = "querying" /\ Holds(toWorker[w], Reply(k, "ok")),
         srv'[w][k] = "querying" => srv[w][k] \in {"querying", "starting"},
         k \in Serving(w) => \/ k \in Serving(w)' \/ Holds(ms, Order(k))
                             \/ Holds(toWorker[w], Reply(k, "error")),
         \A result : Holds(inbox, Reply(k, result)) => Holds(toWorker[w], Reply(k, result)),
         ~leave /\ k \in Serving(w)' /\ Leaving(w) => Holds(inbox, Bye)
  PROVE  WorkerFor(w, k)
<1>1. /\ wconn'[w] => wconn[w] /\ ~leave
      /\ toPrimary'[w] \in {toPrimary[w] \o ms, toPrimary[w]}
      /\ wconn'[w] => toPrimary'[w] = toPrimary[w] \o ms
      /\ toWorker'[w] \in {inbox, <<>>}
      /\ wconn'[w] => toWorker'[w] = inbox
      /\ proc'[w] \in {proc[w], "errored"}
      /\ wconn'[w] => proc'[w] = proc[w]
  BY ReportSends
<1>2. toPrimary[w] = toPrimary[w] \o <<>> /\ <<>> \in Seq(UpMsg)
  BY DEF TypeOK
<1>3. PICK sent \in Seq(UpMsg) :
        sent \in {ms, <<>>} /\ toPrimary'[w] = toPrimary[w] \o sent /\ (wconn'[w] => sent = ms)
  <2>1. CASE toPrimary'[w] = toPrimary[w] \o ms
    BY <2>1
  <2>2. CASE toPrimary'[w] = toPrimary[w] /\ ~wconn'[w]
    BY <1>2, <2>2
  <2> QED BY <1>1, <2>1, <2>2
<1>4. \A m : Holds(sent, m) => Holds(ms, m)
  BY <1>3, HoldsInNothing
<1>5. proc'[w] \notin {"unborn", "booting"}
  BY <1>1 DEF Alive
<1>6. wconn'[w] /\ k \in Serving(w)' => Sound(w, k)'
  BY <1>1 DEF Sound, Alive
<1>7. ~wconn'[w] => Sound(w, k)'
  BY DEF Sound
<1>8. Holds(sent, Query(k)) => /\ sent = <<Query(k)>> /\ srv[w][k] = "starting"
                               /\ srv'[w][k] = "querying" /\ Sound(w, k)'
  <2>1. Holds(sent, Query(k)) => sent = ms
    BY <1>3, HoldsInNothing
  <2>2. srv'[w][k] = "querying" => k \in Serving(w)'
    BY DEF Serving
  <2> QED BY <1>4, <1>6, <1>7, <2>1, <2>2
<1>9. Holds(sent, Order(k)) => srv'[w][k] \in {"closing", "closed"}
  BY <1>4
<1>10. k \in Serving(w) => \/ Sound(w, k)' \/ Holds(sent, Order(k))
                           \/ Holds(toWorker[w], Reply(k, "error"))
  BY <1>3, <1>6, <1>7
<1>11. \A result : Holds(toWorker'[w], Reply(k, result)) => Holds(toWorker[w], Reply(k, result))
  BY <1>1, HoldsInNothing
<1>12. Linked(w)' /\ k \in Serving(w)' => Linked(w) /\ (Leaving(w) => Leaving(w)')
  BY <1>1 DEF Linked, Leaving, PrimaryEnd, primaryVars
<1>13. wconn'[w] => wconn[w]
  BY <1>1
<1> QED BY <1>3, <1>5, <1>8, <1>9, <1>10, <1>11, <1>12, <1>13 DEF WorkerFor

\* disconnectWorker() sends one closeServer for each of the servers.
LEMMA CloseOrdersHold ==
  ASSUME NEW S \in SUBSET Keys, NEW ms \in CloseOrders(S), NEW k \in Keys
  PROVE  /\ ~Holds(ms, Query(k))
         /\ Holds(ms, Order(k)) <=> k \in S
<1>1. ms \in Seq(UpMsg)
  BY CloseOrdersType
<1>2. /\ \A i \in 1..Len(ms) : \E j \in S : ms[i] = Order(j)
      /\ \A j \in S : \E i \in 1..Len(ms) : ms[i].key = j
  <2>1. DOMAIN ms = 1..Len(ms)
    BY <1>1
  <2>2. /\ ms \in [1..Cardinality(S) -> {Up("closeServer", j) : j \in S}]
        /\ \A j \in S : \E i \in DOMAIN ms : ms[i].key = j
    BY DEF CloseOrders
  <2> QED BY ZenonT(60), <2>1, <2>2 DEF Order
<1>3. \A j : Order(j).key = j /\ Order(j) # Query(k)
  BY DEF Order, Query, Up
<1>4. ~Holds(ms, Query(k))
  BY <1>2, <1>3 DEF Holds
<1>5. ASSUME Holds(ms, Order(k)) PROVE k \in S
  <2>1. PICK i \in 1..Len(ms) : ms[i] = Order(k)
    BY <1>5 DEF Holds
  <2> QED BY <1>2, <1>3, <2>1
<1>6. ASSUME k \in S PROVE Holds(ms, Order(k))
  <2>1. PICK i \in 1..Len(ms) : ms[i].key = k
    BY <1>2, <1>6
  <2>2. ms[i] = Order(k)
    BY <1>2, <1>3, <2>1
  <2> QED BY <2>2 DEF Holds
<1> QED BY <1>4, <1>5, <1>6

\* What a worker leaves of its inbox.
LEMMA InboxRest ==
  ASSUME TypeOK, NEW w \in Workers, toWorker[w] # <<>>, NEW x
  PROVE  /\ Holds(Tail(toWorker[w]), x) => Holds(toWorker[w], x)
         /\ Head(toWorker[w]) # x /\ Holds(toWorker[w], x) => Holds(Tail(toWorker[w]), x)
         /\ Holds(toWorker[w], Head(toWorker[w]))
<1>1. toWorker[w] \in Seq(DownMsg)
  BY DEF TypeOK
<1> QED BY <1>1, HoldsInTail

\* The worker's answer to queryServerReply keeps the agreement.
LEMMA OnReplyAgrees ==
  ASSUME TypeOK, Agreement, NEW w \in Workers, OnReply(w)
  PROVE  Agreement'
<1> SUFFICES ASSUME NEW v \in Workers, NEW k \in Keys
             PROVE  WorkerFor(v, k)
  BY WorkerKeeps DEF Agreement
<1> DEFINE j == Head(toWorker[w]).key
           result == Head(toWorker[w]).result
           rest == Tail(toWorker[w])
           waiting == srv[w][j] = "querying"
           notice == <<Up("listening", j)>>
<1>1. /\ Alive(w) /\ toWorker[w] # <<>> /\ UNCHANGED primaryVars /\ j \in Keys
      /\ rest \in Seq(DownMsg) /\ Head(toWorker[w]) = Reply(j, result)
  <2>1. Inbox(w, "queryServerReply") /\ UNCHANGED primaryVars
    BY DEF OnReply
  <2>2. \A m \in DownMsg : m.act = "queryServerReply" => m = Down(m.act, m.key, m.result)
    BY DEF DownMsg, Down
  <2> QED BY <2>1, <2>2, InboxType DEF Inbox, Reply
<1>2. /\ \A x : Holds(rest, x) => Holds(toWorker[w], x)
      /\ Holds(toWorker[w], Bye) => Holds(rest, Bye)
      /\ Holds(toWorker[w], Reply(j, result))
  <2>1. Head(toWorker[w]) # Bye
    BY <1>1 DEF Bye, Reply, Down
  <2> QED BY <1>1, <2>1, InboxRest
<1>3. /\ result = "ok"
           => /\ srv' = [srv EXCEPT ![w][j] = IF waiting THEN "listening" ELSE @]
              /\ Report(w, notice, rest, FALSE)
      /\ result = "error"
           => /\ srv' = [srv EXCEPT ![w][j] = IF waiting THEN "closing" ELSE @]
              /\ Report(w, <<>>, rest, FALSE)
      /\ result \notin {"ok", "error"}
           => /\ proc' = [proc EXCEPT ![w] = "faulted"]
              /\ wconn' = [wconn EXCEPT ![w] = FALSE]
              /\ toWorker' = [toWorker EXCEPT ![w] = <<>>]
              /\ UNCHANGED <<srv, toPrimary>>
  BY DEF OnReply
<1>4. notice \in Seq(UpMsg) /\ <<>> \in Seq(UpMsg)
  BY <1>1, MessageType
<1>5. ~Holds(notice, Query(k)) /\ ~Holds(notice, Order(k)) /\ ~Holds(<<>>, Query(k)) /\ ~Holds(<<>>, Order(k))
  <2>1. Up("listening", j) # Query(k) /\ Up("listening", j) # Order(k)
    BY DEF Query, Order, Up
  <2>2. ASSUME NEW m PROVE Holds(notice, m) <=> Up("listening", j) = m
    BY HoldsInOne
  <2> HIDE DEF notice
  <2> QED BY <2>1, <2>2, HoldsInNothing
<1> HIDE DEF j, result, rest, notice
<1>6. CASE result \notin {"ok", "error"}
  <2>1. /\ proc'[w] = "faulted" /\ ~wconn'[w] /\ toWorker'[w] = <<>>
        /\ v # w => proc'[v] = proc[v] /\ (wconn'[v] <=> wconn[v]) /\ toWorker'[v] = toWorker[v]
        /\ srv' = srv /\ toPrimary' = toPrimary
    BY <1>3, <1>6 DEF TypeOK
  <2>2. WorkerFor(w, k)
    BY <1>1, <2>1, SilentFor
  <2>3. v # w => WorkerFor(v, k)
    BY <1>1, <2>1, UntouchedFor
  <2> QED BY <2>2, <2>3
<1>7. CASE result = "ok"
  <2>1. srv'[v][k] = IF v = w /\ k = j /\ waiting THEN "listening" ELSE srv[v][k]
    BY <1>1, <1>3, <1>7 DEF TypeOK
  <2>2. v # w => srv'[v] = srv[v]
    BY <1>1, <1>3, <1>7 DEF TypeOK
  <2>3. CASE v = w
    <3>1. k \in Serving(w) => k \in Serving(w)'
      BY <2>1, <2>3 DEF Serving
    <3>2. Asked(w, k) => Asked(w, k)'
      BY <2>1, <2>3 DEF Asked
    <3>3. srv'[w][k] = "listening" => \/ srv[w][k] = "listening"
                                      \/ srv[w][k] = "querying" /\ Holds(toWorker[w], Reply(k, "ok"))
      BY <1>2, <1>7, <2>1, <2>3
    <3>4. /\ srv[w][k] \in {"closing", "closed"} => srv'[w][k] \in {"closing", "closed"}
          /\ srv'[w][k] = "querying" => srv[w][k] \in {"querying", "starting"}
      BY <2>1, <2>3
    <3>5. Report(w, notice, rest, FALSE) /\ FALSE \in BOOLEAN
      BY <1>3, <1>7
    <3>6. /\ \A r : Holds(rest, Reply(k, r)) => Holds(toWorker[w], Reply(k, r))
          /\ Leaving(w) => Holds(rest, Bye)
      BY <1>2 DEF Leaving
    <3>7. WorkerFor(w, k)
      BY <1>1, <1>4, <1>5, <3>1, <3>2, <3>3, <3>4, <3>5, <3>6, ReportFor
    <3> QED BY <2>3, <3>7
  <2>4. CASE v # w
    <3>1. /\ proc'[v] = proc[v] /\ (wconn'[v] <=> wconn[v])
          /\ toPrimary'[v] = toPrimary[v] /\ toWorker'[v] = toWorker[v]
      BY <1>1, <1>3, <1>4, <1>7, <2>4, ReportSends
    <3> QED BY <1>1, <2>2, <2>4, <3>1, UntouchedFor
  <2> QED BY <2>3, <2>4
<1>8. CASE result = "error"
  <2>1. srv'[v][k] = IF v = w /\ k = j /\ waiting THEN "closing" ELSE srv[v][k]
    BY <1>1, <1>3, <1>8 DEF TypeOK
  <2>2. v # w => srv'[v] = srv[v]
    BY <1>1, <1>3, <1>8 DEF TypeOK
  <2>3. CASE v = w
    <3>1. k \in Serving(w) => k \in Serving(w)' \/ Holds(toWorker[w], Reply(k, "error"))
      BY <1>2, <1>8, <2>1, <2>3 DEF Serving
    <3>2. Asked(w, k) => Asked(w, k)'
      BY <2>1, <2>3 DEF Asked
    <3> QED BY <1>1, <1>2, <1>3, <1>4, <1>5, <1>8, <2>1, <2>3, <3>1, <3>2, ReportFor DEF Leaving
  <2>4. CASE v # w
    <3>1. /\ proc'[v] = proc[v] /\ (wconn'[v] <=> wconn[v])
          /\ toPrimary'[v] = toPrimary[v] /\ toWorker'[v] = toWorker[v]
      BY <1>1, <1>3, <1>4, <1>8, <2>4, ReportSends
    <3> QED BY <1>1, <2>2, <2>4, <3>1, UntouchedFor
  <2> QED BY <2>3, <2>4
<1> QED BY <1>6, <1>7, <1>8

\* disconnectWorker, which closes every server of the worker, keeps the agreement.
LEMMA DisconnectWorkerAgrees ==
  ASSUME TypeOK, Agreement, NEW w \in Workers, Alive(w), NEW inbox \in Seq(DownMsg),
         DisconnectWorker(w, inbox),
         \A x : Holds(inbox, x) => Holds(toWorker[w], x)
  PROVE  Agreement'
<1> SUFFICES ASSUME NEW v \in Workers, NEW k \in Keys
             PROVE  WorkerFor(v, k)
  <2>1. UNCHANGED primaryVars
    BY DEF DisconnectWorker
  <2> QED BY WorkerKeeps DEF Agreement
<1> DEFINE S == Serving(w)
           leave == S = {}
<1>1. UNCHANGED primaryVars
      /\ srv' = [srv EXCEPT ![w] = [l \in Keys |-> IF l \in S THEN "closing" ELSE @[l]]]
  BY DEF DisconnectWorker
<1>2. PICK ms \in CloseOrders(S) : Report(w, ms, inbox, leave)
  BY DEF DisconnectWorker
<1>3. S \in SUBSET Keys /\ leave \in BOOLEAN
  BY DEF Serving
<1>4. ms \in Seq(UpMsg) /\ ~Holds(ms, Query(k)) /\ (Holds(ms, Order(k)) <=> k \in S)
  BY <1>2, <1>3, CloseOrdersType, CloseOrdersHold
<1>5. srv'[v][k] = IF v = w /\ k \in S THEN "closing" ELSE srv[v][k]
  BY <1>1 DEF TypeOK
<1>6. k \in S <=> srv[w][k] \in {"querying", "listening"}
  BY DEF Serving
<1>7. leave => k \notin S
  OBVIOUS
<1> HIDE DEF S, leave
<1>8. CASE v = w
  <2>1. srv'[w][k] \notin {"querying", "listening"}
    BY <1>5, <1>6, <1>8
  <2>2. k \notin Serving(w)'
    BY <2>1 DEF Serving
  <2>3. Asked(w, k) => Asked(w, k)'
    BY <1>5, <1>8 DEF Asked
  <2>4. k \in Serving(w) => Holds(ms, Order(k))
    BY <1>4 DEF S
  <2>5. /\ Holds(ms, Order(k)) => srv'[w][k] \in {"closing", "closed"}
        /\ srv[w][k] \in {"closing", "closed"} => srv'[w][k] \in {"closing", "closed"}
    BY <1>4, <1>5, <1>8
  <2>6. \A r : Holds(inbox, Reply(k, r)) => Holds(toWorker[w], Reply(k, r))
    OBVIOUS
  <2>7. WorkerFor(w, k)
    BY <1>1, <1>2, <1>3, <1>4, <2>1, <2>2, <2>3, <2>4, <2>5, <2>6, ReportFor
  <2> QED BY <1>8, <2>7
<1>9. CASE v # w
  <2>1. /\ proc'[v] = proc[v] /\ (wconn'[v] <=> wconn[v])
        /\ toPrimary'[v] = toPrimary[v] /\ toWorker'[v] = toWorker[v]
    BY <1>2, <1>3, <1>4, <1>9, ReportSends
  <2>2. srv'[v] = srv[v]
    BY <1>1, <1>9 DEF TypeOK
  <2> QED BY <1>1, <1>9, <2>1, <2>2, UntouchedFor
<1> QED BY <1>8, <1>9

\* A worker that is told to leave, or leaves by itself, keeps the agreement.
LEMMA ToldToLeaveAgrees ==
  ASSUME TypeOK, Agreement, NEW w \in Workers, OnDisconnect(w) \/ CallDisconnect(w)
  PROVE  Agreement'
<1>1. CASE OnDisconnect(w)
  <2>1. Alive(w) /\ toWorker[w] # <<>> /\ DisconnectWorker(w, Tail(toWorker[w]))
    BY <1>1 DEF OnDisconnect, Inbox
  <2>2. Tail(toWorker[w]) \in Seq(DownMsg)
    BY <2>1, InboxType
  <2>3. \A x : Holds(Tail(toWorker[w]), x) => Holds(toWorker[w], x)
    BY <2>1, InboxRest
  <2> QED BY <2>1, <2>2, <2>3, DisconnectWorkerAgrees
<1>2. CASE CallDisconnect(w)
  <2>1. toWorker[w] \in Seq(DownMsg)
    BY DEF TypeOK
  <2> QED BY <1>2, <2>1, DisconnectWorkerAgrees DEF CallDisconnect
<1> QED BY <1>1, <1>2

\* A step of w that sends nothing.
LEMMA SilentAgrees ==
  ASSUME TypeOK, Agreement, NEW w \in Workers, UNCHANGED <<primaryVars, toPrimary>>,
         \A v \in Workers : v # w => /\ proc'[v] = proc[v] /\ (wconn'[v] <=> wconn[v])
                                     /\ srv'[v] = srv[v] /\ toWorker'[v] = toWorker[v],
         wconn'[w] => wconn[w], proc'[w] = proc[w] \/ ~wconn'[w],
         proc'[w] \in {"unborn", "booting"} => proc'[w] = proc[w] /\ srv'[w] = srv[w],
         toWorker'[w] \in {toWorker[w], <<>>}, toWorker'[w] = toWorker[w] \/ ~wconn'[w],
         \A k \in Keys : \/ srv'[w][k] = srv[w][k]
                         \/ srv[w][k] = "none" /\ srv'[w][k] = "starting"
                         \/ srv[w][k] = "starting" /\ srv'[w][k] = "aborted"
  PROVE  Agreement'
<1> SUFFICES ASSUME NEW v \in Workers, NEW k \in Keys
             PROVE  WorkerFor(v, k)
  BY WorkerKeeps DEF Agreement
<1>1. WorkerFor(w, k)
  BY SilentFor
<1>2. v # w => WorkerFor(v, k)
  BY UntouchedFor
<1> QED BY <1>1, <1>2

\* A step of w that sends ms and leaves its inbox alone.
LEMMA ReportAgrees ==
  ASSUME TypeOK, Agreement, NEW w \in Workers, Alive(w), NEW ms \in Seq(UpMsg),
         NEW leave \in BOOLEAN, Report(w, ms, toWorker[w], leave), UNCHANGED primaryVars,
         \A v \in Workers : v # w => srv'[v] = srv[v],
         \A k \in Keys :
           \/ srv'[w][k] = srv[w][k] /\ ~Holds(ms, Query(k)) /\ ~Holds(ms, Order(k))
           \/ srv[w][k] = "starting" /\ srv'[w][k] = "querying" /\ ms = <<Query(k)>>
           \/ k \in Serving(w) /\ srv'[w][k] = "closing" /\ ms = <<Order(k)>>
           \/ srv[w][k] = "closing" /\ srv'[w][k] = "closed" /\ ms = <<>>
  PROVE  Agreement'
<1> SUFFICES ASSUME NEW v \in Workers, NEW k \in Keys
             PROVE  WorkerFor(v, k)
  BY WorkerKeeps DEF Agreement
<1> DEFINE inbox == toWorker[w]
<1>1. inbox \in Seq(DownMsg) /\ Report(w, ms, inbox, leave)
  BY DEF TypeOK
<1>2. /\ \A r : Holds(inbox, Reply(k, r)) => Holds(toWorker[w], Reply(k, r))
      /\ Leaving(w) => Holds(inbox, Bye)
  BY DEF Leaving
<1>3. v # w => WorkerFor(v, k)
  <2>1. ASSUME v # w
        PROVE  /\ proc'[v] = proc[v] /\ (wconn'[v] <=> wconn[v])
               /\ toPrimary'[v] = toPrimary[v] /\ toWorker'[v] = toWorker[v]
    BY <1>1, <2>1, ReportSends
  <2> QED BY <2>1, UntouchedFor
<1>4. Query(k) # Order(k)
  BY DEF Query, Order, Up
<1>5. /\ ms = <<Query(k)>> => ~Holds(ms, Order(k))
      /\ ms = <<Order(k)>> => ~Holds(ms, Query(k)) /\ Holds(ms, Order(k))
      /\ ms = <<>> => ~Holds(ms, Query(k)) /\ ~Holds(ms, Order(k))
  <2>1. ~Holds(<<Query(k)>>, Order(k)) /\ ~Holds(<<Order(k)>>, Query(k))
    BY <1>4, HoldsInOne
  <2>2. Holds(<<Order(k)>>, Order(k))
    BY HoldsInOne
  <2>3. ~Holds(<<>>, Query(k)) /\ ~Holds(<<>>, Order(k))
    BY HoldsInNothing
  <2> HIDE DEF inbox
  <2> QED BY <2>1, <2>2, <2>3
<1>6. k \in Serving(w) <=> srv[w][k] \in {"querying", "listening"}
  BY DEF Serving
<1>7. k \in Serving(w)' <=> srv'[w][k] \in {"querying", "listening"}
  BY DEF Serving
<1>8. /\ Holds(ms, Query(k)) => /\ ms = <<Query(k)>>
                                /\ srv[w][k] = "starting" /\ srv'[w][k] = "querying"
      /\ Holds(ms, Order(k)) => srv'[w][k] \in {"closing", "closed"}
      /\ srv[w][k] \in {"closing", "closed"} => srv'[w][k] \in {"closing", "closed"}
      /\ srv'[w][k] = "listening" => srv[w][k] = "listening"
      /\ srv'[w][k] = "querying" => srv[w][k] \in {"querying", "starting"}
      /\ k \in Serving(w) => k \in Serving(w)' \/ Holds(ms, Order(k))
  BY <1>5, <1>6, <1>7
<1>9. Asked(w, k) => Asked(w, k)'
  BY <1>6 DEF Asked
<1> HIDE DEF inbox
<1>10. WorkerFor(w, k)
  BY <1>1, <1>2, <1>8, <1>9, ReportFor
<1> QED BY <1>3, <1>10

\* The worker's first message.
LEMMA BootAgrees ==
  ASSUME TypeOK, Agreement, NEW w \in Workers, Boot(w)
  PROVE  Agreement'
<1> SUFFICES ASSUME NEW v \in Workers, NEW k \in Keys
             PROVE  WorkerFor(v, k)
  BY WorkerKeeps DEF Agreement
<1>1. /\ proc[w] = "booting" /\ UNCHANGED <<primaryVars, toWorker, srv>>
      /\ proc' = [proc EXCEPT ![w] = "running"]
      /\ \/ /\ toPrimary' = [toPrimary EXCEPT ![w] = Append(@, Up("online", None))]
            /\ UNCHANGED wconn
         \/ UNCHANGED toPrimary /\ wconn' = [wconn EXCEPT ![w] = FALSE]
  BY DEF Boot
<1>2. srv[w][k] = "none"
  BY <1>1 DEF Agreement, Agreed, Newborn
<1>3. CASE v # w
  <2>1. /\ proc'[v] = proc[v] /\ (wconn'[v] <=> wconn[v]) /\ srv'[v] = srv[v]
        /\ toPrimary'[v] = toPrimary[v] /\ toWorker'[v] = toWorker[v]
    BY <1>1, <1>3 DEF TypeOK
  <2> QED BY <1>1, <2>1, UntouchedFor
<1>4. CASE v = w
  <2> DEFINE notice == <<Up("online", None)>>
  <2>1. /\ notice \in Seq(UpMsg) /\ <<>> \in Seq(UpMsg)
        /\ toPrimary[w] \o notice = Append(toPrimary[w], Up("online", None))
        /\ toPrimary[w] \o <<>> = toPrimary[w]
    BY MessageType DEF TypeOK
  <2>2. Up("online", None) # Query(k) /\ Up("online", None) # Order(k)
    BY DEF Query, Order, Up
  <2>3. ASSUME NEW m PROVE Holds(notice, m) <=> Up("online", None) = m
    BY HoldsInOne
  <2> HIDE DEF notice
  <2>4. PICK ms \in {notice, <<>>} : toPrimary'[w] = toPrimary[w] \o ms
    BY <1>1, <2>1 DEF TypeOK
  <2>5. ms \in Seq(UpMsg) /\ ~Holds(ms, Query(k)) /\ ~Holds(ms, Order(k))
    BY <2>1, <2>2, <2>3, <2>4, HoldsInNothing
  <2>6. k \notin Serving(w) /\ k \notin Serving(w)' /\ ~Asked(w, k)
    BY <1>1, <1>2 DEF Serving, Asked
  <2>7. proc'[w] = "running" /\ (wconn'[w] => wconn[w])
    BY <1>1 DEF TypeOK
  <2>8. WorkerFor(w, k)
    BY <1>1, <1>2, <2>4, <2>5, <2>6, <2>7 DEF WorkerFor
  <2> QED BY <1>4, <2>8
<1> QED BY <1>3, <1>4

\* Every step of a worker keeps the agreement.
LEMMA WorkerAgrees ==
  ASSUME TypeOK, WorkerEnds, Agreement, NEW w \in Workers,
         \/ Boot(w) \/ WorkerReads(w) \/ WorkerDiscEvent(w) \/ KillSent(w)
         \/ CallDisconnect(w) \/ CallKill(w) \/ Exit(w)
         \/ \E k \in Keys : \/ ServerSteps(w, k) \/ Listen(w, k) \/ CloseStarting(w, k)
                            \/ Close(w, k) \/ Route(w, k) \/ ConnectionEnds(w, k)
  PROVE  Agreement'
<1>1. /\ \A m : ~Holds(<<>>, m)
      /\ <<>> \in Seq(UpMsg)
  BY HoldsInNothing
<1>2. ASSUME UNCHANGED <<primaryVars, toPrimary, srv>>,
             toWorker' \in {toWorker, [toWorker EXCEPT ![w] = <<>>]},
             proc' = proc \/ \E how \in {"dead", "faulted"} : proc' = [proc EXCEPT ![w] = how],
             wconn' \in {wconn, [wconn EXCEPT ![w] = FALSE]},
             (proc' = proc /\ toWorker' = toWorker) \/ ~wconn'[w]
      PROVE  Agreement'
  <2>1. \A v \in Workers : v # w => /\ proc'[v] = proc[v] /\ (wconn'[v] <=> wconn[v])
                                    /\ srv'[v] = srv[v] /\ toWorker'[v] = toWorker[v]
    BY <1>2 DEF TypeOK
  <2>2. /\ wconn'[w] => wconn[w]
        /\ proc'[w] = proc[w] \/ (~wconn'[w] /\ proc'[w] \in {"dead", "faulted"})
        /\ toWorker'[w] \in {toWorker[w], <<>>}
        /\ toWorker'[w] = toWorker[w] \/ ~wconn'[w]
        /\ \A k \in Keys : srv'[w][k] = srv[w][k]
        /\ srv'[w] = srv[w]
    BY <1>2 DEF TypeOK
  <2> QED BY <1>2, <2>1, <2>2, SilentAgrees
<1>3. ASSUME NEW leave \in BOOLEAN, Report(w, <<>>, toWorker[w], leave), Alive(w), srv' = srv,
             UNCHANGED primaryVars
      PROVE  Agreement'
  BY <1>1, <1>3, ReportAgrees
<1>4. CASE WorkerEOF(w)
  BY <1>2, <1>4 DEF WorkerEOF, TypeOK
<1>5. CASE WorkerDiscEvent(w)
  <2>1. ~wconn[w]
    BY <1>5 DEF WorkerDiscEvent, WorkerEnds, EndsOf
  <2> QED BY <1>2, <1>5, <2>1 DEF WorkerDiscEvent
<1>6. CASE KillSent(w)
  BY <1>3, <1>6 DEF KillSent
<1>7. CASE CallKill(w)
  <2>1. CASE wconn[w]
    <3> DEFINE notice == <<Up("exitedAfterDisconnect", None)>>
    <3>1. notice \in Seq(UpMsg)
      BY MessageType
    <3>2. ASSUME NEW k \in Keys
          PROVE  ~Holds(notice, Query(k)) /\ ~Holds(notice, Order(k))
      <4>1. /\ Up("exitedAfterDisconnect", None) # Query(k)
            /\ Up("exitedAfterDisconnect", None) # Order(k)
        BY DEF Query, Order, Up
      <4> QED BY <4>1, HoldsInOne
    <3>3. Report(w, notice, toWorker[w], FALSE) /\ Alive(w) /\ UNCHANGED <<primaryVars, srv>>
      BY <1>7, <2>1 DEF CallKill
    <3> HIDE DEF notice
    <3> QED BY <3>1, <3>2, <3>3, ReportAgrees
  <2>2. CASE ~wconn[w]
    BY <1>2, <1>7, <2>2 DEF CallKill
  <2> QED BY <2>1, <2>2
<1>8. ASSUME NEW how \in {"dead", "faulted"}, End(w, how), UNCHANGED <<primaryVars, toPrimary>>
      PROVE  Agreement'
  <2>1. ~wconn'[w]
    BY <1>8 DEF End, TypeOK
  <2> QED BY <1>2, <1>8, <2>1 DEF End
<1>9. CASE Exit(w)
  BY <1>8, <1>9 DEF Exit
<1>10. ASSUME NEW k \in Keys, BeginAborted(w, k)
       PROVE  Agreement'
  BY <1>8, <1>10 DEF BeginAborted
<1>11. ASSUME NEW k \in Keys, Route(w, k) \/ ConnectionEnds(w, k)
       PROVE  Agreement'
  BY <1>2, <1>11 DEF Route, ConnectionEnds
<1>12. ASSUME NEW k \in Keys, Listen(w, k) \/ CloseStarting(w, k)
       PROVE  Agreement'
  <2>1. /\ Alive(w) /\ UNCHANGED <<primaryVars, toPrimary, toWorker, proc, wconn>>
        /\ \E new \in {"starting", "aborted"} :
             /\ srv' = [srv EXCEPT ![w][k] = new]
             /\ new = "starting" => srv[w][k] = "none"
             /\ new = "aborted" => srv[w][k] = "starting"
    BY <1>12 DEF Listen, CloseStarting
  <2>2. /\ \A v \in Workers : v # w => srv'[v] = srv[v]
        /\ \A l \in Keys : \/ srv'[w][l] = srv[w][l]
                           \/ srv[w][l] = "none" /\ srv'[w][l] = "starting"
                           \/ srv[w][l] = "starting" /\ srv'[w][l] = "aborted"
    BY <2>1 DEF TypeOK
  <2>3. proc'[w] \notin {"unborn", "booting"}
    BY <2>1 DEF Alive
  <2> QED BY <2>1, <2>2, <2>3, SilentAgrees
<1>13. ASSUME NEW k \in Keys, NEW ms \in Seq(UpMsg), NEW leave \in BOOLEAN, NEW old, NEW new,
              Alive(w), Report(w, ms, toWorker[w], leave), UNCHANGED primaryVars,
              srv[w][k] = old, srv' = [srv EXCEPT ![w][k] = new],
              \/ old = "starting" /\ new = "querying" /\ ms = <<Query(k)>>
              \/ old \in {"querying", "listening"} /\ new = "closing" /\ ms = <<Order(k)>>
              \/ old = "closing" /\ new = "closed" /\ ms = <<>>
       PROVE  Agreement'
  <2>1. /\ \A v \in Workers : v # w => srv'[v] = srv[v]
        /\ srv'[w][k] = new
        /\ \A l \in Keys : l # k => srv'[w][l] = srv[w][l]
    BY <1>13 DEF TypeOK
  <2>2. ASSUME NEW l \in Keys, l # k
        PROVE  ~Holds(ms, Query(l)) /\ ~Holds(ms, Order(l))
    <3>1. /\ Query(k) # Query(l) /\ Query(k) # Order(l)
          /\ Order(k) # Query(l) /\ Order(k) # Order(l)
      BY <2>2 DEF Query, Order, Up
    <3> QED BY <1>1, <1>13, <3>1, HoldsInOne
  <2>3. old \in {"querying", "listening"} => k \in Serving(w)
    BY <1>13 DEF Serving
  <2>4. ASSUME NEW l \in Keys
        PROVE  \/ srv'[w][l] = srv[w][l] /\ ~Holds(ms, Query(l)) /\ ~Holds(ms, Order(l))
               \/ srv[w][l] = "starting" /\ srv'[w][l] = "querying" /\ ms = <<Query(l)>>
               \/ l \in Serving(w) /\ srv'[w][l] = "closing" /\ ms = <<Order(l)>>
               \/ srv[w][l] = "closing" /\ srv'[w][l] = "closed" /\ ms = <<>>
    BY <1>13, <2>1, <2>2, <2>3
  <2> QED BY <1>13, <2>1, <2>4, ReportAgrees
<1>14. ASSUME NEW k \in Keys, Begin(w, k)
       PROVE  Agreement'
  <2>1. <<Query(k)>> \in Seq(UpMsg)
    BY MessageType DEF Query
  <2> QED BY <1>13, <1>14, <2>1 DEF Begin, Query
<1>15. ASSUME NEW k \in Keys, Close(w, k)
       PROVE  Agreement'
  <2>1. <<Order(k)>> \in Seq(UpMsg)
    BY MessageType DEF Order
  <2> QED BY <1>13, <1>15, <2>1 DEF Close, Order, Serving
<1>16. ASSUME NEW k \in Keys, ServerClosed(w, k)
       PROVE  Agreement'
  <2>1. ({k} \in waits[w]) \in BOOLEAN
    OBVIOUS
  <2>2. /\ Alive(w) /\ srv[w][k] = "closing" /\ srv' = [srv EXCEPT ![w][k] = "closed"]
        /\ Report(w, <<>>, toWorker[w], {k} \in waits[w]) /\ UNCHANGED primaryVars
    BY <1>16 DEF ServerClosed
  <2> QED BY <1>1, <1>13, <2>1, <2>2
<1> QED
  BY <1>4, <1>5, <1>6, <1>7, <1>9, <1>10, <1>11, <1>12, <1>14, <1>15, <1>16,
     BootAgrees, OnReplyAgrees, ToldToLeaveAgrees DEF WorkerReads, ServerSteps

\* Every step keeps the agreement.
LEMMA StepAgrees ==
  ASSUME TypeOK, WorkerEnds, Agreement, [Next]_vars
  PROVE  Agreement'
<1>1. CASE UNCHANGED vars
  BY <1>1 DEF vars, stateVars, primaryVars, entryVars, workerVars, Agreement, Agreed, Newborn,
     Traced, AskedOnce, Refused, Ordered, Served, Routed, Leaving, Sound, Asked, Owed,
     Linked, Alive, Serving, PrimaryEnd
<1>2. CASE Loops
  BY <1>2, PrimaryAgrees, WorkerAgrees DEF Loops
<1>3. CASE Uses
  BY <1>3, ForkAgrees, WorkerAgrees DEF Uses
<1>4. CASE Upset
  BY <1>4, PrimaryAgrees, WorkerAgrees DEF Upset
<1> QED
  BY <1>1, <1>2, <1>3, <1>4 DEF Next

\* What the primary and each worker believe of each other, message by message.
THEOREM AgreementHolds == Spec => []Agreement
<1>1. Init => Agreement
  <2> SUFFICES ASSUME Init, NEW w \in Workers, NEW k \in Keys
               PROVE  Agreed(w, k)
    BY DEF Agreement
  <2>1. /\ \A m : ~Holds(<<>>, m)
        /\ Once(<<>>, Query(k)) /\ Followed(<<>>, Query(k), Order(k))
    BY HoldsInNothing
  <2>2. /\ toPrimary[w] = <<>> /\ toWorker[w] = <<>> /\ srv[w][k] = "none" /\ late = {}
        /\ members[k] = {} /\ waiters[k] = {} /\ proc[w] = "unborn"
    BY DEF Init
  <2>3. ~Linked(w) /\ ~Owed(w, k)
    BY <2>2 DEF Linked, Alive, Owed
  <2> QED BY <2>1, <2>2, <2>3 DEF Agreed, Newborn, Traced, AskedOnce, Refused, Ordered, Served
<1>2. TypeOK /\ WorkerEnds /\ Agreement /\ [Next]_vars => Agreement'
  BY StepAgrees
<1> QED
  BY <1>1, <1>2, TypeCorrect, WorkerEndsHolds, PTL DEF Spec

\* Clients go to workers that listen, and workers that listen get clients, but for what is on
\* its way: for every number of workers and addresses, whatever fails, closes or disconnects.
THEOREM RoutingIsRight == Spec => []RoutingAgrees
<1>1. ASSUME TypeOK, Agreement
      PROVE  StaleMemberIsTransient
  <2> SUFFICES ASSUME up, NEW k \in Keys, NEW w \in members[k]
               PROVE  \/ Alive(w) /\ k \in Serving(w)
                      \/ \E i \in DOMAIN toPrimary[w] : toPrimary[w][i] = Up("closeServer", k)
                      \/ discEv[w] = "queued" \/ ~wconn[w]
    BY DEF StaleMemberIsTransient
  <2>1. w \in Workers /\ DOMAIN toPrimary[w] = 1..Len(toPrimary[w])
    BY <1>1 DEF TypeOK
  <2>2. Sound(w, k) \/ Holds(toPrimary[w], Order(k))
    BY <1>1, <2>1 DEF Agreement, Agreed, Ordered
  <2> QED BY <2>1, <2>2 DEF Sound, Holds, Order
<1>2. ASSUME TypeOK, Agreement
      PROVE  AcknowledgedIsRouted
  <2> SUFFICES ASSUME NEW w \in Workers, NEW k \in Keys, Linked(w), srv[w][k] = "listening"
               PROVE  \/ phase[k] = "bound" /\ w \in members[k]
                      \/ \E i \in DOMAIN toWorker[w] : toWorker[w][i].act = "disconnect"
    BY DEF AcknowledgedIsRouted, Linked
  <2>1. DOMAIN toWorker[w] = 1..Len(toWorker[w])
    BY <1>2 DEF TypeOK
  <2>2. Routed(w, k)
    BY <1>2 DEF Agreement, Agreed, Served
  <2>3. Bye.act = "disconnect"
    BY DEF Bye, Down
  <2> QED BY <2>1, <2>2, <2>3 DEF Routed, Leaving, Holds
<1>3. TypeOK /\ Agreement => RoutingAgrees
  BY <1>1, <1>2 DEF RoutingAgrees
<1> QED
  BY <1>3, TypeCorrect, AgreementHolds, PTL
==============================================================================
