---------------------------- MODULE MemoryRecall ----------------------------
(***************************************************************************)
(* EmbeddingStore and Retriever: the dense index over memories, kept up to *)
(* date by the confirm endpoint and read by recalls.  Confirmations are    *)
(* taken from Proposals: here they are the changes they make to a memory's *)
(* status.                                                                 *)
(***************************************************************************)
EXTENDS VectorIndex

CONSTANTS Seeded    \* the memories of the seed file

ASSUME SeededAssumption == Seeded \subseteq Items /\ {"active", "superseded"} \subseteq Surfaces

VARIABLES
    memory,         \* memories: the status of each
    held            \* recall: the vectors it has read

memoryVars == <<memory, held>>

MemoryTypeOK ==
    /\ memory \in [Items -> {"absent", "active", "superseded", "inactive"}]
    /\ pc \in [Clients -> {"idle", "ask", "vectors", "ids"} \union SyncSteps]
    /\ held \in [Clients -> Seq(Vector)]

MemoryInit ==
    /\ memory = [i \in Items |-> IF i \in Seeded THEN "active" ELSE "absent"]
    /\ held = [c \in Clients |-> <<>>]

\* list_memories leaves out inactive facts only; the index superseded ones too.
Listed == [i \in Items |-> IF memory[i] \in {"active", "superseded"} THEN memory[i] ELSE Nothing]
Eligible == {i \in Items : memory[i] = "active"}
Indexed == {i \in Eligible : embeddings[i] # Nothing}

\* The workspace syncs when it is loaded, if anything is pending.
LoadMemories(c) ==
    /\ Load(c, Eligible)
    /\ degraded' = FALSE
    /\ IF Cardinality(Eligible) > Cardinality(Indexed)
       THEN server' = c /\ Goto(c, "list") /\ alone' = c
       ELSE server' = "up" /\ UNCHANGED <<pc, alone>>
    /\ UNCHANGED <<embeddings, wanted, cached, seen, memoryVars>>

\* A confirmation commits, and the endpoint calls sync.
Confirm(c) ==
    /\ Serving(c)
    /\ \/ \E new \in Items :
            /\ memory[new] = "absent"
            /\ memory' = [memory EXCEPT ![new] = "active"]
       \/ \E old, new \in Items :
            /\ memory[old] = "active" /\ memory[new] = "absent"
            /\ memory' = [memory EXCEPT ![old] = "superseded", ![new] = "active"]
       \/ \E old \in Items :
            /\ memory[old] \in {"active", "superseded"}
            /\ memory' = [memory EXCEPT ![old] = "inactive"]
    /\ Goto(c, "list")
    /\ Begins(c)
    /\ UNCHANGED <<embeddings, ids, vectors, degraded, server, wanted, cached, seen, held>>

\* POST /index/sync.
AskSync(c) ==
    /\ Serving(c)
    /\ Goto(c, "list")
    /\ Begins(c)
    /\ UNCHANGED <<embeddings, ids, vectors, degraded, server, wanted, cached, seen,
                   memoryVars>>

\* One attribute holds the index: it is replaced as a whole.
SyncAssign(c) ==
    /\ pc[c] = "assign"
    /\ Indexes(seen[c])
    /\ Returns(c)
    /\ UNCHANGED <<embeddings, degraded, alone>>

SyncMemories(c) ==
    /\ \/ SyncList(c, Listed)
       \/ SyncCached(c)
       \/ SyncWrite(c, {i \in Items : memory[i] # "absent"})
       \/ SyncRead(c, Eligible)
       \/ SyncAssign(c)
       \/ Abandon(c)
    /\ UNCHANGED memoryVars

-----------------------------------------------------------------------------
(* recall *)

\* An empty index answers at once.
Recall(c) ==
    /\ Serving(c)
    /\ IF ids = <<>> THEN UNCHANGED pc ELSE Goto(c, "ask")
    /\ UNCHANGED <<embeddings, ids, vectors, degraded, server, wanted, cached, seen, alone,
                   memoryVars>>

AskProvider(c) ==
    /\ pc[c] = "ask"
    /\ \/ Goto(c, "vectors") /\ UNCHANGED degraded
       \/ Goto(c, "idle") /\ degraded' = TRUE
    /\ UNCHANGED <<embeddings, ids, vectors, server, wanted, cached, seen, alone,
                   memoryVars>>

\* query reads self.index for the scores...
ReadVectors(c) ==
    /\ pc[c] = "vectors"
    /\ held' = [held EXCEPT ![c] = vectors]
    /\ Goto(c, "ids")
    /\ UNCHANGED <<embeddings, ids, vectors, degraded, server, wanted, cached, seen, alone,
                   memory>>

\* ... and again for the ids; zip is strict.
PairIds(c) ==
    /\ pc[c] = "ids"
    /\ degraded' = (degraded \/ Len(held[c]) # Len(ids))
    /\ held' = [held EXCEPT ![c] = <<>>]
    /\ Goto(c, "idle")
    /\ UNCHANGED <<embeddings, ids, vectors, server, wanted, cached, seen, alone, memory>>

StopMemories ==
    /\ Stop
    /\ held' = [c \in Clients |-> <<>>]
    /\ UNCHANGED memory

MemoryNext ==
    \/ \E c \in Clients :
        \/ LoadMemories(c) \/ Confirm(c) \/ AskSync(c) \/ SyncMemories(c)
        \/ Recall(c) \/ AskProvider(c) \/ ReadVectors(c) \/ PairIds(c)
    \/ StopMemories

-----------------------------------------------------------------------------
(* Properties *)

\* The index holds each active memory once, in the order of the ids, with the
\* vector of its current text.
Fresh(is, vs) ==
    /\ is = InOrder(Eligible)
    /\ vs = [n \in DOMAIN is |-> <<is[n], "active">>]

\* A sync that ends without a failure, and that no other sync and no
\* confirmation has overlapped since it began, leaves the index equal to the
\* active memories, whatever overlapping, failed and abandoned ones before it
\* have left in the table (sync recomputes all from hashes).
SyncHeals(c) ==
    pc[c] = "assign" /\ pc'[c] = "idle" /\ server' # "down" /\ alone = c => Fresh(ids', vectors')
=============================================================================
