----------------------------- MODULE MCPairing -----------------------------
(***************************************************************************)
(* Two processes, scripts and hooks in any combination, and two codes.     *)
(***************************************************************************)
EXTENDS PluginCalls

CONSTANTS k1, k2, p1, p2
=============================================================================
