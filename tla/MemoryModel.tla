---------------------------- MODULE MemoryModel ----------------------------
(***************************************************************************)
(* The rows of the memories table and the drafts that propose to change    *)
(* them, as far as the approval boundary tells them apart.                 *)
(*                                                                         *)
(* A draft is an operation with its payload.  create_proposal stores it    *)
(* and nothing updates it, so the drafts are a constant function of the    *)
(* proposal ids: whichever proposal is created, its draft is known.        *)
(***************************************************************************)
CONSTANTS
    ProposalIds,    \* ids create_proposal may hand out
    MemoryIds,      \* primary keys of the memories table
    NoMemory,       \* NULL, and the row of an id that is not in the table
    Draft,          \* ProposalIds -> Drafts
    Seed            \* the memories table after Database.seed

Operations == {"remember_episode", "record_fact", "supersede_fact", "invalidate_fact"}

\* What the MUD guard sees in a text: no "merge" at all; the word "merge"; or
\* the word "merge" in a decision that says "not merge".
Claims == {"plain", "merge", "boundary"}

MemoryStatus == {"active", "superseded", "inactive"}

Memory == [type: {"fact", "episode"}, status: MemoryStatus, claim: Claims]

\* id and status are optional payload keys (insert_memory honours both);
\* complete says that project, title and content are all present.
Drafts == [op: Operations, target: MemoryIds \union {NoMemory},
           id: MemoryIds \union {NoMemory}, status: MemoryStatus,
           claim: Claims, complete: BOOLEAN]

ASSUME NoMemoryAssumption == NoMemory \notin MemoryIds /\ NoMemory \notin Memory
ASSUME DraftAssumption == Draft \in [ProposalIds -> Drafts]
ASSUME SeedAssumption == Seed \in [MemoryIds -> Memory \union {NoMemory}]

Invalidates(p) == Draft[p].op = "invalidate_fact"
Supersedes(p) == Draft[p].op = "supersede_fact"
Records(p) == ~Invalidates(p)

IsFact(table, m) ==
    /\ m \in MemoryIds
    /\ table[m] # NoMemory
    /\ table[m].type = "fact"

IsActiveFact(table, m) == IsFact(table, m) /\ table[m].status = "active"

\* The rows the MUD guard's query returns.
Boundaries(table) ==
    {m \in MemoryIds : /\ table[m] # NoMemory
                       /\ table[m].claim = "boundary"
                       /\ table[m].status = "active"}

\* The row insert_memory writes for p's payload.
NewRow(p) ==
    [type   |-> IF Draft[p].op = "remember_episode" THEN "episode" ELSE "fact",
     status |-> Draft[p].status,
     claim  |-> Draft[p].claim]

\* Ids that some payload names: a fresh uuid never equals one of these.
NamedIds == {Draft[p].id : p \in ProposalIds} \ {NoMemory}
============================================================================
