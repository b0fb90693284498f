-------------------------- MODULE HandoffLifecycle --------------------------
(***************************************************************************)
(* What the handoff lifecycle promises: a draft is published, a handoff is *)
(* revoked, revocation is for good, and only what was published is ever    *)
(* loaded.  A load that was under way when its handoff was revoked may     *)
(* still leave its receipt.                                                *)
(***************************************************************************)
CONSTANT HandoffIds

VARIABLES
    stage,      \* HandoffIds -> "absent" or the handoff's status
    approved,   \* the handoffs that were ever published
    receipts    \* the handoffs that were ever loaded

vars == <<stage, approved, receipts>>

Init ==
    /\ stage = [h \in HandoffIds |-> "absent"]
    /\ approved = {}
    /\ receipts = {}

Draft(h) ==
    /\ stage[h] = "absent"
    /\ stage' = [stage EXCEPT ![h] = "draft"]
    /\ UNCHANGED <<approved, receipts>>

Publish(h) ==
    /\ stage[h] = "draft"
    /\ stage' = [stage EXCEPT ![h] = "published"]
    /\ approved' = approved \union {h}
    /\ UNCHANGED receipts

Revoke(h) ==
    /\ stage[h] \in {"draft", "published"}
    /\ stage' = [stage EXCEPT ![h] = "revoked"]
    /\ UNCHANGED <<approved, receipts>>

Load(h) ==
    /\ h \in approved
    /\ receipts' = receipts \union {h}
    /\ UNCHANGED <<stage, approved>>

Next == \E h \in HandoffIds : Draft(h) \/ Publish(h) \/ Revoke(h) \/ Load(h)

Spec == Init /\ [][Next]_vars
=============================================================================
