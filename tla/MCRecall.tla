------------------------------ MODULE MCRecall ------------------------------
(***************************************************************************)
(* Small instances of MemoryRecall, DeclaredDocuments, Packets and         *)
(* WorkspaceLoad.  The two stores share the code of the index but no       *)
(* state, a packet is made of what they have answered, and all of it waits *)
(* until the workspace is loaded: a behaviour follows one of the four, and *)
(* their product would add no interleaving.                                *)
(***************************************************************************)
EXTENDS MemoryRecall, DeclaredDocuments, Packets, WorkspaceLoad, TLC

CONSTANTS
    c1, c2,
    Followed        \* the stores that the behaviours follow

VARIABLE store      \* what a behaviour follows

MCOrder == <<1, 2, 3>>
MCFiles == <<"a.md", "b.md">>
MCCardsOf ==
    ("a.md" :> {[id |-> 1, text |-> "v1"], [id |-> 1, text |-> "inactive"], [id |-> 2, text |-> "v1"]})
    @@ ("b.md" :> {[id |-> 1, text |-> "v1"], [id |-> 2, text |-> "v1"]})

\* Two of the weights of intent.PROFILES: exact_match and exploratory.
MCProfiles == {<<100, 20, 40, 30>>, <<45, 75, 50, 95>>}
MCParentOf == ("x1" :> "x") @@ ("x2" :> "x") @@ ("y1" :> "y")
MCTargets == ("x" :> {"x", "y"}) @@ ("y" :> {"x", "z"}) @@ ("z" :> {})
MCUnresolved == ("x" :> {}) @@ ("y" :> {}) @@ ("z" :> {"gone"})
MCEditPoints ==
    ("x" :> {"p", "q"}) @@ ("y" :> {"q"}) @@ ("z" :> {})
    @@ ("d1" :> {"q", "r"}) @@ ("d2" :> {}) @@ ("d3" :> {})
MCRisks ==
    ("x" :> {}) @@ ("y" :> {"q"}) @@ ("z" :> {"p", "q"})
    @@ ("d1" :> {}) @@ ("d2" :> {"q", "r"}) @@ ("d3" :> {})
MCRequests == [budget : {512, 900, 4000}, memories : {1, 2}, documents : {1, 2}, sections : {2}]
MCBuiltins == <<"redesign", "deployment">>
MCSize == [i \in Facts \union Papers \union Cards \union Sections |->
    IF i \in Facts THEN 900 ELSE IF i \in Papers THEN 1500 ELSE IF i \in Cards THEN 700
    ELSE IF i = "x2" THEN 2400 ELSE 1000]

vars == <<indexVars, memoryVars, documentVars, packetVars, loadVars, store>>

Init ==
    /\ IndexInit /\ MemoryInit /\ DocumentInit
    /\ store \in Followed
    /\ store # "documents" => ~rooted
    /\ IF store = "packets" THEN PacketInit ELSE PacketIdle
    /\ IF store = "load" THEN LoadInit ELSE LoadIdle

NextMemories ==
    store = "memories" /\ MemoryNext /\ UNCHANGED <<documentVars, packetVars, loadVars, store>>
NextDocuments ==
    /\ store = "documents" /\ DocumentNext
    /\ UNCHANGED <<memoryVars, packetVars, loadVars, store>>
NextPackets ==
    /\ store = "packets" /\ PacketNext
    /\ UNCHANGED <<indexVars, memoryVars, documentVars, loadVars, store>>

NextLoad ==
    /\ store = "load" /\ LoadNext
    /\ UNCHANGED <<indexVars, memoryVars, documentVars, packetVars, store>>

Next == NextMemories \/ NextDocuments \/ NextPackets \/ NextLoad

Spec == Init /\ [][Next]_vars

\* Rows, index, packets, requests and histories have their types.
TypeOK ==
    /\ IndexTypeOK
    /\ store = "memories" => MemoryTypeOK
    /\ store = "documents" => DocumentTypeOK
    /\ store = "packets" => PacketTypeOK
    /\ LoadTypeOK

\* SyncHeals of every sync of memories (EmbeddingStore.sync).
LoneSyncHeals == [][store = "memories" => \A c \in Clients : SyncHeals(c)]_vars

\* IngestIndexes of every ingestion (DeclaredDocumentStore.ingest_tree).
LoneIngestIndexes == [][store = "documents" => \A c \in Clients : IngestIndexes(c)]_vars

Symmetry == Permutations(Clients)
=============================================================================
