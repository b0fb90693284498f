--------------------------- MODULE SnapshotLedger ---------------------------
(***************************************************************************)
(* What the architecture store promises of its snapshots: a corpus is      *)
(* judged once for a repository; when it is accepted it becomes the only   *)
(* current one and the one before is kept as history; when it is refused   *)
(* nothing else changes.                                                   *)
(***************************************************************************)
CONSTANTS RepoIds, Corpora

VARIABLES
    current,    \* RepoIds -> the corpora that are active
    history,    \* RepoIds -> the corpora that were active before
    refused     \* RepoIds -> the corpora that were rejected

vars == <<current, history, refused>>

Nothing == [r \in RepoIds |-> {}]

Init == current = Nothing /\ history = Nothing /\ refused = Nothing

Unjudged(r, k) == k \notin current[r] \union history[r] \union refused[r]

Accept(r, k) ==
    /\ Unjudged(r, k)
    /\ current' = [current EXCEPT ![r] = {k}]
    /\ history' = [history EXCEPT ![r] = @ \union current[r]]
    /\ UNCHANGED refused

Refuse(r, k) ==
    /\ Unjudged(r, k)
    /\ refused' = [refused EXCEPT ![r] = @ \union {k}]
    /\ UNCHANGED <<current, history>>

Next == \E r \in RepoIds, k \in Corpora : Accept(r, k) \/ Refuse(r, k)

Spec == Init /\ [][Next]_vars
=============================================================================
