----------------------------- MODULE MCWebServer -----------------------------
(***************************************************************************)
(* WebServer for TLC: the constants come from the cfg files.               *)
(***************************************************************************)
EXTENDS WebServer
=============================================================================
