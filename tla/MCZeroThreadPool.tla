--------------------------- MODULE MCZeroThreadPool ---------------------------
(***************************************************************************)
(* ZeroThreadPool for TLC: the constants come from the cfg files; negative *)
(* numbers cannot be written there.                                        *)
(***************************************************************************)
EXTENDS ZeroThreadPool

\* No limit, the two negative values that straddle the expiry test, a positive one.
AllTimeouts == {-2, -1, 0, 5}
OnlyZero == {0}
=============================================================================
