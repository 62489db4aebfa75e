------------------------------ MODULE MCLauncher ------------------------------
EXTENDS Launcher, TLC

CONSTANTS v1, v2, v3, main, lib, extra

\* Three builds that share files, each with one another has not.
Archives ==
  v1 :> {main, lib} @@ v2 :> {main, extra} @@ v3 :> {lib, extra}

\* The third build moved its entry point.
Entries == v1 :> main @@ v2 :> main @@ v3 :> lib
==============================================================================
