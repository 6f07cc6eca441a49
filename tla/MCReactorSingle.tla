--------------------------- MODULE MCReactorSingle ---------------------------
(***************************************************************************)
(* ReactorSingle for TLC: the constants come from the cfg files.           *)
(***************************************************************************)
EXTENDS ReactorSingle
=============================================================================
