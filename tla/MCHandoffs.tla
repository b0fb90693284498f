----------------------------- MODULE MCHandoffs -----------------------------
(***************************************************************************)
(* Small instances of Handoffs: enough handoffs for a draft, a published   *)
(* one and a version of it, a built-in capability of which a second,       *)
(* perhaps untrusted, version may appear, and two requests at a time.      *)
(***************************************************************************)
EXTENDS Handoffs, TLC

CONSTANTS c1, c2, h1, h2, h3

Symmetry == Permutations(Clients) \union Permutations(HandoffIds)
=============================================================================
