--------------------------- MODULE MCProposals ---------------------------
(***************************************************************************)
(* Small instances of Proposals.  The seed holds an active fact, old, and  *)
(* an active boundary decision, rule.  The drafts cover each operation and *)
(* each way a confirmation can fail: two boundary decisions (one of them   *)
(* superseding old) that rule forbids until retire invalidates it, a rival *)
(* supersession of old, an incomplete episode, and a payload that names a  *)
(* key which is taken.                                                     *)
(***************************************************************************)
EXTENDS Proposals, TLC

CONSTANTS c1, c2, boundary, supersede, rival, retire, blank, collide,
          old, rule, new1, new2, new3, none

Fact(claim) == [type |-> "fact", status |-> "active", claim |-> claim]

MCSeed == [m \in MemoryIds |-> IF m = old THEN Fact("plain")
                               ELSE IF m = rule THEN Fact("boundary")
                               ELSE none]

DraftOf(op, target, id, claim, complete) ==
    [op |-> op, target |-> target, id |-> id, status |-> "active",
     claim |-> claim, complete |-> complete]

AllDrafts ==
    (boundary :> DraftOf("record_fact", none, none, "boundary", TRUE)) @@
    (supersede :> DraftOf("supersede_fact", old, none, "boundary", TRUE)) @@
    (rival :> DraftOf("supersede_fact", old, none, "plain", TRUE)) @@
    (retire :> DraftOf("invalidate_fact", rule, none, "plain", TRUE)) @@
    (blank :> DraftOf("remember_episode", none, none, "merge", FALSE)) @@
    (collide :> DraftOf("record_fact", none, rule, "plain", TRUE))

MCDraft == [p \in ProposalIds |-> AllDrafts[p]]

\* Requests are alike, and so are the keys no draft names.
Symmetry == Permutations(Clients) \union Permutations({new1, new2, new3})
=============================================================================
