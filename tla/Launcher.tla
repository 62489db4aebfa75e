------------------------------- MODULE Launcher -------------------------------
(***************************************************************************)
(* The launcher of a Node.js build (launcher.ts): before it loads the      *)
(* program it makes sure that the files of the embedded archive are in its *)
(* home, the directory app/ beside the list of what was extracted and the  *)
(* stamp of what was extracted whole.                                      *)
(*                                                                         *)
(* One launch runs at a time.  It may stop at any step (a kill, a power    *)
(* failure, a full disk), and the next one may be of another build.        *)
(***************************************************************************)
EXTENDS FiniteSets

CONSTANTS
  Versions,   \* builds of a program, by the hash of their archive
  Files,      \* paths in app/
  Content,    \* the files in the archive of a build
  Entry,      \* the entry point of a build
  None,       \* no file, no stamp
  Torn,       \* what a file holds whose writing did not end
  Careful     \* the user does not start the build the stamp names while the
              \* extraction of any build is unfinished

ASSUME ArchiveAssumption ==
  /\ Content \in [Versions -> SUBSET Files]
  /\ Entry \in [Versions -> Files]
  /\ \A v \in Versions : Entry[v] \in Content[v]
ASSUME NamesAssumption ==
  /\ None \notin Versions \union Files /\ Torn \notin Versions /\ None # Torn
ASSUME CarefulAssumption == Careful \in BOOLEAN

VARIABLES
  \* ---- on the disk
  app,      \* the build each file in app/ is from
  list,     \* .graak-files.json; missing or torn it reads as empty
  stamp,    \* .graak-stamp; torn it names no build
  \* ---- the launcher
  at,       \* off, write, prune, list, stamp, load: what it does next
  ver,      \* its build
  old,      \* extract's `previous`
  left,     \* files it has still to write, or to remove
  open,     \* the file it is writing
  \* ---- history
  unfinished,   \* an extraction was cut off, and none was completed since
  unlisted      \* files written by extractions cut off before their list

disk == <<app, list, stamp>>
launch == <<at, ver, old, left, open>>
vars == <<disk, launch, unfinished, unlisted>>

TypeOK ==
  /\ app \in [Files -> Versions \union {None, Torn}]
  /\ list \subseteq Files
  /\ stamp \in Versions \union {None}
  /\ at \in {"off", "write", "prune", "list", "stamp", "load"}
  /\ ver \in Versions
  /\ old \subseteq Files /\ left \subseteq Files
  /\ open \in Files \union {None}
  /\ unfinished \in BOOLEAN
  /\ unlisted \subseteq Files

Init ==
  /\ app = [f \in Files |-> None]
  /\ list = {} /\ stamp = None
  /\ at = "off" /\ ver \in Versions
  /\ old = {} /\ left = {} /\ open = None
  /\ unfinished = FALSE /\ unlisted = {}

------------------------------------------------------------------------------
(* A launch.                                                               *)

\* A mistake: only the stamp is looked at.
StampOnly(v) == stamp = v

\* The stamp is the build's, and its entry exists.
Installed(v) == stamp = v /\ app[Entry[v]] # None

\* A mistake: what the stamped build shipped is taken for what is there.
ShippedByStamp == IF stamp = None THEN {} ELSE Content[stamp]

\* What earlier extractions left, as far as the list says.
Previous == list

\* main() up to the decision to extract, and extract() up to its first file.
Start(v) ==
  /\ at = "off"
  /\ Careful /\ unfinished => stamp # v
  /\ ver' = v
  /\ \/ /\ Installed(v)
        /\ at' = "load"
        /\ UNCHANGED <<old, left>>
     \/ /\ ~Installed(v)
        /\ at' = "write"
        /\ old' = Previous
        /\ left' = Content[v]
  /\ UNCHANGED <<disk, open, unfinished, unlisted>>

\* writeFileSync opens the next file of the archive and truncates it ...
OpenFile(f) ==
  /\ at = "write" /\ open = None /\ f \in left
  /\ open' = f
  /\ app' = [app EXCEPT ![f] = Torn]
  /\ UNCHANGED <<list, stamp, at, ver, old, left, unfinished, unlisted>>

\* ... and fills it.
FillFile ==
  /\ at = "write" /\ open # None
  /\ app' = [app EXCEPT ![open] = ver]
  /\ left' = left \ {open}
  /\ open' = None
  /\ UNCHANGED <<list, stamp, at, ver, old, unfinished, unlisted>>

\* Every file is written: those of earlier extractions are next.
Written ==
  /\ at = "write" /\ left = {}
  /\ at' = "prune"
  /\ left' = old \ Content[ver]
  /\ UNCHANGED <<disk, ver, old, open, unfinished, unlisted>>

Unlink(f) ==
  /\ at = "prune" /\ f \in left
  /\ app' = [app EXCEPT ![f] = None]
  /\ left' = left \ {f}
  /\ UNCHANGED <<list, stamp, at, ver, old, open, unfinished, unlisted>>

\* The list is truncated and written.
OpenList ==
  /\ at = "prune" /\ left = {}
  /\ at' = "list"
  /\ list' = {}
  /\ UNCHANGED <<app, stamp, ver, old, left, open, unfinished, unlisted>>

FillList ==
  /\ at = "list"
  /\ list' = Content[ver]
  /\ at' = "stamp"
  /\ UNCHANGED <<app, stamp, ver, old, left, open, unfinished, unlisted>>

\* The stamp is truncated and written.
OpenStamp ==
  /\ at = "stamp" /\ stamp # None
  /\ stamp' = None
  /\ UNCHANGED <<app, list, launch, unfinished, unlisted>>

FillStamp ==
  /\ at = "stamp" /\ stamp = None
  /\ stamp' = ver
  /\ at' = "load"
  /\ unfinished' = FALSE
  /\ UNCHANGED <<app, list, ver, old, left, open, unlisted>>

\* The launcher hands over to the program.
Load ==
  /\ at = "load"
  /\ at' = "off"
  /\ UNCHANGED <<disk, ver, old, left, open, unfinished, unlisted>>

------------------------------------------------------------------------------
(* The environment.                                                        *)

\* The files this launch has touched and not listed yet.
Touched ==
  CASE at = "write" -> (Content[ver] \ left) \union ({open} \ {None})
    [] at \in {"prune", "list"} -> Content[ver]
    [] OTHER -> {}

\* The launch stops in the middle of an extraction.
Interrupt ==
  /\ at \notin {"off", "load"}
  /\ at' = "off"
  /\ open' = None
  /\ unfinished' = TRUE
  /\ unlisted' = unlisted \union Touched
  /\ UNCHANGED <<disk, ver, old, left>>

\* The user removes app/, or the whole home.
RemoveApp ==
  /\ at = "off"
  /\ app' = [f \in Files |-> None]
  /\ unfinished' = FALSE
  /\ \/ UNCHANGED <<list, stamp>>
     \/ list' = {} /\ stamp' = None
  /\ UNCHANGED <<launch, unlisted>>

------------------------------------------------------------------------------
Extract ==
  \/ \E f \in Files : OpenFile(f) \/ Unlink(f)
  \/ FillFile \/ Written \/ OpenList \/ FillList \/ OpenStamp \/ FillStamp

Next ==
  \/ \E v \in Versions : Start(v)
  \/ Extract \/ Load
  \/ Interrupt \/ RemoveApp

Spec == Init /\ [][Next]_vars

------------------------------------------------------------------------------
(* Properties.                                                             *)

\* The files of a build are all there, as its archive has them.
Whole(v) == \A f \in Content[v] : app[f] = v

\* A program is loaded only with the files of its own build, whatever was cut
\* off, removed or upgraded before: "changes trigger re-extraction".
LoadsItsVersion == at = "load" => Whole(ver)

\* A program is loaded without files of other builds, except those an
\* extraction wrote and was cut off before it could list them.
StaleFilesGo ==
  at = "load" =>
    \A f \in Files : app[f] # None => f \in Content[ver] \union unlisted

==============================================================================
