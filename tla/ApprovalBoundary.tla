-------------------------- MODULE ApprovalBoundary --------------------------
(***************************************************************************)
(* What the approval boundary promises: the memories table changes only    *)
(* when a pending proposal is confirmed, by exactly what that proposal     *)
(* says, judged against the table as it is at that instant; every proposal *)
(* is resolved at most once.  No transactions, no clients, no retries.     *)
(***************************************************************************)
EXTENDS MemoryModel

VARIABLES
    status,     \* ProposalIds -> "absent" or the proposal's status
    memories,   \* MemoryIds -> the row, or NoMemory
    memoryOf    \* ProposalIds -> proposals.memory_id

vars == <<status, memories, memoryOf>>

Init ==
    /\ status = [p \in ProposalIds |-> "absent"]
    /\ memories = Seed
    /\ memoryOf = [p \in ProposalIds |-> NoMemory]

Propose(p) ==
    /\ status[p] = "absent"
    /\ status' = [status EXCEPT ![p] = "pending"]
    /\ UNCHANGED <<memories, memoryOf>>

\* A draft that records something is acceptable while it contradicts no
\* active boundary, is complete, and the fact it supersedes is still active.
Acceptable(p) ==
    /\ Draft[p].claim # "plain" => Boundaries(memories) = {}
    /\ Draft[p].complete
    /\ Supersedes(p) => IsActiveFact(memories, Draft[p].target)

ConfirmRecord(p, m) ==
    /\ status[p] = "pending" /\ Records(p) /\ Acceptable(p)
    /\ memories[m] = NoMemory
    /\ memories' = [k \in MemoryIds |->
                      IF k = m THEN NewRow(p)
                      ELSE IF Supersedes(p) /\ k = Draft[p].target
                           THEN [memories[k] EXCEPT !.status = "superseded"]
                           ELSE memories[k]]
    /\ status' = [status EXCEPT ![p] = "confirmed"]
    /\ memoryOf' = [memoryOf EXCEPT ![p] = m]

ConfirmInvalidate(p) ==
    LET target == Draft[p].target IN
    /\ status[p] = "pending" /\ Invalidates(p) /\ IsFact(memories, target)
    /\ memories' = [memories EXCEPT ![target].status = "inactive"]
    /\ status' = [status EXCEPT ![p] = "confirmed"]
    /\ memoryOf' = [memoryOf EXCEPT ![p] = target]

Dismiss(p, outcome) ==
    /\ status[p] = "pending"
    /\ status' = [status EXCEPT ![p] = outcome]
    /\ UNCHANGED <<memories, memoryOf>>

Next ==
    \E p \in ProposalIds :
        \/ Propose(p)
        \/ \E m \in MemoryIds : ConfirmRecord(p, m)
        \/ ConfirmInvalidate(p)
        \/ Dismiss(p, "rejected")
        \/ Dismiss(p, "failed")

Spec == Init /\ [][Next]_vars
=============================================================================
