----------------------------- MODULE MCDnsClient -----------------------------
(***************************************************************************)
(* DnsClient for TLC: the constants come from the cfg files.               *)
(***************************************************************************)
EXTENDS DnsClient
=============================================================================
