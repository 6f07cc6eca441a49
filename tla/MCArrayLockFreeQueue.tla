------------------------ MODULE MCArrayLockFreeQueue ------------------------
(***************************************************************************)
(* ArrayLockFreeQueue for TLC: the constants come from the cfg files.      *)
(***************************************************************************)
EXTENDS ArrayLockFreeQueue, TLC

\* Items are interchangeable; threads of one role are too.
Symmetry == Permutations(Items) \cup Permutations(Producers) \cup Permutations(Consumers)
=============================================================================
