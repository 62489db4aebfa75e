------------------------------ MODULE MCKvQueue ------------------------------
(* Two processes on one file: one listens and writes the key, one enqueues. *)
EXTENDS KvQueue

CONSTANTS p1, p2, m1, m2

MCProcs == {p1, p2}

MCMsgs == {m1}

MCTwoMsgs == {m1, m2}

MCListeners == {p1}

MCWriters == {p1}

MCReaders == {p2}

MCMortal == {p1}

MCBothWrite == {p1, p2}

==============================================================================
