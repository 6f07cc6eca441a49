----------------------------- MODULE MCTimeWheel -----------------------------
(***************************************************************************)
(* TimeWheel for TLC on small wheels.                                      *)
(***************************************************************************)
EXTENDS TimeWheel, TLC

\* Wheel of 2 + 4 levels of 2 slots (UINT = 32), two timers: one delay per level that fits.
EdgeDelays == {0, 1, 3, 6}
\* Wheel of 2 + 4 levels of 4 slots (UINT = 512): delays for t[1] and t[3].
WideDelays == {9, 130}
Symmetry == Permutations(Nodes)
=============================================================================
