---------------------------- MODULE MCChildProcess ----------------------------
EXTENDS ChildProcess, TLC

CONSTANTS a, b

\* A child with every kind of pipe, and one that takes over a free index.
OneAndStdin == a :> {"in", "out", "ipc"} @@ b :> {"in"}

\* Two spawns with the default stdio.
TwoDefaults == a :> {"in", "out"} @@ b :> {"in", "out"}
==============================================================================
