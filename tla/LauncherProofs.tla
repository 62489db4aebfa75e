---------------------------- MODULE LauncherProofs ----------------------------
(***************************************************************************)
(* The launcher loads a program with the files of its build, and without   *)
(* others' files, for any set of builds and files, if the user is Careful. *)
(***************************************************************************)
EXTENDS Launcher, TLAPS

\* What list and unlisted say of app: every file that is there is accounted for.
Accounted ==
  \A f \in Files : app[f] # None =>
    \/ f \in unlisted \union Touched
    \/ at \notin {"prune", "list"} /\ f \in list
    \/ at = "prune" /\ f \in left

\* A stamp can be trusted while no extraction is unfinished and the entry of
\* its build is there.
StampIsTrue ==
  at = "off" /\ ~unfinished /\ stamp # None /\ app[Entry[stamp]] # None =>
    Whole(stamp) /\ list = Content[stamp]

\* How far the launch is.
Progress ==
  /\ at = "write" =>
       /\ old = list
       /\ left \subseteq Content[ver] /\ open \in left \union {None}
       /\ \A f \in Content[ver] \ left : app[f] = ver
  /\ at = "prune" => left \subseteq list \ Content[ver]
  /\ at \notin {"off", "write"} => Whole(ver)
  /\ at \in {"stamp", "load"} => list = Content[ver]
  /\ at = "load" => stamp = ver
  /\ at # "write" => open = None

Inv == TypeOK /\ Accounted /\ StampIsTrue /\ Progress

USE ArchiveAssumption, NamesAssumption

LEMMA InitInv == Init => Inv
  BY DEF Init, Inv, TypeOK, Accounted, Touched, StampIsTrue, Progress

\* A launch starts: it trusts the stamp, or takes on the list.
LEMMA StartInv ==
  ASSUME Inv, Careful, NEW v \in Versions, Start(v)
  PROVE Inv'
<1> USE DEF Inv, disk
<1>1. TypeOK'
  BY DEF TypeOK, Start, Previous
<1>2. Accounted'
  <2>1. CASE Installed(v)
    BY <2>1 DEF TypeOK, Start, Installed, Accounted, Touched
  <2>2. CASE ~Installed(v)
    BY <2>2 DEF Start, Accounted, Touched
  <2>3. QED
    BY <2>1, <2>2
<1>3. StampIsTrue'
  BY DEF Start, StampIsTrue
<1>4. Progress'
  <2>1. CASE Installed(v)
    BY <2>1 DEF TypeOK, Start, Installed, Progress, StampIsTrue, Whole
  <2>2. CASE ~Installed(v)
    BY <2>2 DEF Start, Previous, Progress
  <2>3. QED
    BY <2>1, <2>2
<1>5. QED
  BY <1>1, <1>2, <1>3, <1>4

\* A file is written: only this file changes.
LEMMA OpenFileInv ==
  ASSUME Inv, NEW f \in Files, OpenFile(f)
  PROVE Inv'
<1> USE DEF Inv, OpenFile
<1>1. TypeOK'
  BY DEF TypeOK
<1>2. Accounted'
  BY DEF TypeOK, Accounted, Progress, Touched
<1>3. StampIsTrue'
  BY DEF StampIsTrue
<1>4. Progress'
  BY DEF TypeOK, Progress
<1>5. QED
  BY <1>1, <1>2, <1>3, <1>4

LEMMA FillFileInv ==
  ASSUME Inv, FillFile
  PROVE Inv'
<1> USE DEF Inv, FillFile
<1>1. TypeOK'
  BY DEF TypeOK
<1>2. Accounted'
  BY DEF TypeOK, Accounted, Progress, Touched
<1>3. StampIsTrue'
  BY DEF StampIsTrue
<1>4. Progress'
  BY DEF TypeOK, Progress
<1>5. QED
  BY <1>1, <1>2, <1>3, <1>4

LEMMA WrittenInv ==
  ASSUME Inv, Written
  PROVE Inv'
<1> USE DEF Inv, Written, disk
<1>1. TypeOK'
  BY DEF TypeOK
<1>2. Accounted'
  BY DEF TypeOK, Accounted, Progress, Touched
<1>3. StampIsTrue'
  BY DEF StampIsTrue
<1>4. Progress'
  BY DEF TypeOK, Progress, Whole
<1>5. QED
  BY <1>1, <1>2, <1>3, <1>4

LEMMA UnlinkInv ==
  ASSUME Inv, NEW f \in Files, Unlink(f)
  PROVE Inv'
<1> USE DEF Inv, Unlink
<1>1. TypeOK'
  BY DEF TypeOK
<1>2. Accounted'
  BY DEF TypeOK, Accounted, Touched
<1>3. StampIsTrue'
  BY DEF StampIsTrue
<1>4. Progress'
  BY DEF TypeOK, Progress, Whole
<1>5. QED
  BY <1>1, <1>2, <1>3, <1>4

\* The list, the stamp and the loading of the program: app/ stays as it is.
LEMMA TailInv ==
  ASSUME Inv, OpenList \/ FillList \/ OpenStamp \/ FillStamp \/ Load
  PROVE Inv'
<1> USE DEF Inv, OpenList, FillList, OpenStamp, FillStamp, Load, disk, launch
<1>1. TypeOK'
  BY DEF TypeOK
<1>2. Accounted'
  BY DEF TypeOK, Accounted, Progress, Touched
<1>3. StampIsTrue'
  BY DEF StampIsTrue, Progress, Whole
<1>4. Progress'
  BY DEF Progress, Whole
<1>5. QED
  BY <1>1, <1>2, <1>3, <1>4

\* A launch is cut off: what it touched is in the list or in unlisted.
LEMMA InterruptInv ==
  ASSUME Inv, Interrupt
  PROVE Inv'
<1> USE DEF Inv, Interrupt, disk
<1>1. Touched \subseteq Files
  BY DEF TypeOK, Touched
<1>2. TypeOK'
  BY <1>1 DEF TypeOK
<1>3. Accounted'
  BY DEF TypeOK, Accounted, Progress, Touched
<1>4. StampIsTrue' /\ Progress'
  BY DEF StampIsTrue, Progress
<1>5. QED
  BY <1>2, <1>3, <1>4

LEMMA RemoveAppInv ==
  ASSUME Inv, RemoveApp
  PROVE Inv'
<1> USE DEF Inv, RemoveApp, launch
<1>1. TypeOK'
  BY DEF TypeOK
<1>2. Accounted'
  BY DEF Accounted, Touched
<1>3. StampIsTrue'
  BY DEF TypeOK, StampIsTrue
<1>4. Progress'
  BY DEF Progress
<1>5. QED
  BY <1>1, <1>2, <1>3, <1>4

LEMMA StutterInv ==
  ASSUME Inv, UNCHANGED vars
  PROVE Inv'
  BY DEF Inv, vars, disk, launch, TypeOK, Accounted, Touched, StampIsTrue,
  Progress, Whole

LEMMA Invariance ==
  ASSUME Careful
  PROVE Spec => []Inv
<1>1. Inv /\ [Next]_vars => Inv'
  BY StartInv, OpenFileInv, FillFileInv, WrittenInv, UnlinkInv, TailInv,
     InterruptInv, RemoveAppInv, StutterInv
  DEF Next, Extract
<1>2. QED
  BY InitInv, <1>1, PTL DEF Spec

------------------------------------------------------------------------------

\* The files, the list and the stamp always hold what the launcher can read.
THEOREM LauncherTypeCorrect ==
  ASSUME Careful
  PROVE Spec => []TypeOK
<1>1. Inv => TypeOK
  BY DEF Inv
<1>2. QED
  BY Invariance, <1>1, PTL

\* loadEntry() finds the files of its own build, after any sequence of
\* upgrades, returns, removals and cut off extractions.
THEOREM ProgramIsWhole ==
  ASSUME Careful
  PROVE Spec => []LoadsItsVersion
<1>1. Inv => LoadsItsVersion
  BY DEF Inv, Progress, LoadsItsVersion
<1>2. QED
  BY Invariance, <1>1, PTL

\* Pruning by the list forgets only what was never listed.
THEOREM OnlyUnlistedFilesStay ==
  ASSUME Careful
  PROVE Spec => []StaleFilesGo
<1>1. Inv => StaleFilesGo
  BY DEF Inv, Accounted, Progress, Touched, StaleFilesGo
<1>2. QED
  BY Invariance, <1>1, PTL

==============================================================================
