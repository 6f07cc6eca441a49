------------------------------- MODULE MCRbTree -------------------------------
(***************************************************************************)
(* RbTree for TLC: the constants come from the cfg files.                  *)
(***************************************************************************)
EXTENDS RbTree
=============================================================================
