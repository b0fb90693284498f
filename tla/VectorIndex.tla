----------------------------- MODULE VectorIndex -----------------------------
(***************************************************************************)
(* The dense index that EmbeddingStore keeps over memories and             *)
(* DeclaredDocumentStore over documents: a table of embeddings, an index   *)
(* in memory that is read back from it, and the sync that brings both up   *)
(* to date, run by concurrent requests without a lock.                     *)
(*                                                                         *)
(* A surface stands for the text of an item, its content hash and its      *)
(* embedding; a vector remembers the item it was computed from.  Every     *)
(* connection to the database, and every read and every store of a shared  *)
(* attribute, is a step.  MemoryRecall and DeclaredDocuments say what is   *)
(* indexed, and how what was read back is stored.                          *)
(***************************************************************************)
EXTENDS Naturals, FiniteSets, ListOps

CONSTANTS
    Items,          \* ids of what is indexed
    Order,          \* the items in the order of their ids
    Surfaces,       \* what an item can say
    Nothing,        \* no row
    Nobody,         \* no request
    Clients         \* request threads

ASSUME OrderAssumption ==
    /\ Order \in Seq(Items)
    /\ \A i \in Items : \E n \in DOMAIN Order : Order[n] = i
    /\ \A m, n \in DOMAIN Order : Order[m] = Order[n] => m = n
ASSUME NothingAssumption ==
    /\ Nothing \notin Surfaces
    /\ {Nobody, "down", "up"} \intersect Clients = {}

VARIABLES
    embeddings,     \* the table: the surface each item was embedded from
    ids, vectors,   \* the index in memory
    degraded,       \* an embedding failed since the server started
    server,         \* "down", "up", or the request that is loading the workspace
    pc,             \* what each request does next
    wanted,         \* sync: the surfaces it has listed
    cached,         \* sync: the hashes it has found in the table
    seen,           \* reload: the rows it has read
    alone           \* history: the request that has written alone since it began

indexVars ==
    <<embeddings, ids, vectors, degraded, server, pc, wanted, cached, seen, alone>>

Table == [Items -> Surfaces \union {Nothing}]
Empty == [i \in Items |-> Nothing]
Vector == Items \X Surfaces

SyncSteps == {"list", "cached", "embed", "read", "assign", "complete"}

IndexTypeOK ==
    /\ embeddings \in Table
    /\ ids \in Seq(Items) /\ vectors \in Seq(Vector)
    /\ degraded \in BOOLEAN
    /\ server \in {"down", "up"} \union Clients
    /\ wanted \in [Clients -> Table] /\ cached \in [Clients -> Table]
    /\ seen \in [Clients -> Table]
    /\ alone \in Clients \union {Nobody}
    /\ server \in Clients => pc[server] # "idle"

IndexInit ==
    /\ embeddings = Empty
    /\ ids = <<>> /\ vectors = <<>>
    /\ degraded = FALSE
    /\ server = "down"
    /\ pc = [c \in Clients |-> "idle"]
    /\ wanted = [c \in Clients |-> Empty]
    /\ cached = [c \in Clients |-> Empty]
    /\ seen = [c \in Clients |-> Empty]
    /\ alone = Nobody

-----------------------------------------------------------------------------

Goto(c, step) == pc' = [pc EXCEPT ![c] = step]

Serving(c) == pc[c] = "idle" /\ server = "up"

InOrder(S) == Picked(Order, S)

\* The index a set of rows makes.
IdsOf(rows) == InOrder({i \in Items : rows[i] # Nothing})
VectorsOf(rows) == [n \in DOMAIN IdsOf(rows) |-> <<IdsOf(rows)[n], rows[IdsOf(rows)[n]]>>]

\* Mutation: the reload reads every embedding.
AllRows(visible) == embeddings

Rows(visible) == [i \in Items |-> IF i \in visible THEN embeddings[i] ELSE Nothing]

Indexes(rows) == ids' = IdsOf(rows) /\ vectors' = VectorsOf(rows)

\* A request that writes begins: from now on no other one is alone.
Begins(c) ==
    alone' = IF \A d \in Clients \ {c} : pc[d] \notin SyncSteps \union {"take", "put"}
             THEN c ELSE Nobody

\* The workspace is loaded by the first request: the index is read back.
Load(c, visible) ==
    /\ server = "down" /\ pc[c] = "idle"
    /\ Indexes(Rows(visible))

-----------------------------------------------------------------------------
(* sync *)

SyncList(c, listed) ==
    /\ pc[c] = "list"
    /\ wanted' = [wanted EXCEPT ![c] = listed]
    /\ Goto(c, "cached")
    /\ UNCHANGED <<embeddings, ids, vectors, degraded, server, cached, seen, alone>>

SyncCached(c) ==
    /\ pc[c] = "cached"
    /\ cached' = [cached EXCEPT ![c] = embeddings]
    /\ Goto(c, "embed")
    /\ UNCHANGED <<embeddings, ids, vectors, degraded, server, wanted, seen, alone>>

Changed(c) == {i \in Items : wanted[c][i] # Nothing /\ cached[c][i] # wanted[c][i]}
Stale(c) == {i \in Items : cached[c][i] # Nothing /\ wanted[c][i] = Nothing}

\* The except clause: whatever raised, the reload follows.
Fails(c) ==
    /\ degraded' = TRUE
    /\ alone' = IF alone = c THEN Nobody ELSE alone
    /\ UNCHANGED embeddings

\* Mutation: what vanished keeps its embedding.
WrittenOver(c) == [i \in Items |-> IF i \in Changed(c) THEN wanted[c][i] ELSE embeddings[i]]

Written(c) ==
    [i \in Items |-> IF i \in Changed(c) THEN wanted[c][i]
                     ELSE IF i \in Stale(c) THEN Nothing ELSE embeddings[i]]

\* The provider answers and one transaction stores the batch, or one of them
\* raises.  An embedding refers to its item: if a changed one is gone by now
\* the whole batch is rolled back.
SyncWrite(c, known) ==
    /\ pc[c] = "embed"
    /\ \/ /\ Changed(c) \subseteq known
          /\ embeddings' = Written(c)
          /\ UNCHANGED <<degraded, alone>>
       \/ Fails(c)
    /\ wanted' = [wanted EXCEPT ![c] = Empty]
    /\ cached' = [cached EXCEPT ![c] = Empty]
    /\ Goto(c, "read")
    /\ UNCHANGED <<ids, vectors, server, seen>>

SyncRead(c, visible) ==
    /\ pc[c] = "read"
    /\ seen' = [seen EXCEPT ![c] = Rows(visible)]
    /\ Goto(c, "assign")
    /\ UNCHANGED <<embeddings, ids, vectors, degraded, server, wanted, cached, alone>>

Forget(c) ==
    /\ wanted' = [wanted EXCEPT ![c] = Empty]
    /\ cached' = [cached EXCEPT ![c] = Empty]
    /\ seen' = [seen EXCEPT ![c] = Empty]

\* The sync returns; the workspace it was loading is ready.
Returns(c) ==
    /\ server' = IF server = c THEN "up" ELSE server
    /\ Goto(c, "idle")
    /\ Forget(c)

-----------------------------------------------------------------------------
(* Failures *)

\* Mutation: a workspace whose loading failed stays half loaded.
DiesLoading(c) ==
    /\ alone' = IF alone = c THEN Nobody ELSE alone
    /\ Goto(c, "idle")
    /\ Forget(c)
    /\ UNCHANGED <<embeddings, ids, vectors, degraded, server>>

\* The request dies: the database is locked for too long, or what it calls
\* raises.  A workspace that was being loaded is thrown away.
Dies(c) ==
    /\ server' = IF server = c THEN "down" ELSE server
    /\ alone' = IF alone = c THEN Nobody ELSE alone
    /\ Goto(c, "idle")
    /\ Forget(c)
    /\ UNCHANGED <<embeddings, ids, vectors, degraded>>

Abandon(c) == pc[c] \in {"list", "cached", "read"} /\ Dies(c)

\* The process stops: what is in memory is lost.
Stop ==
    /\ server # "down"
    /\ server' = "down"
    /\ ids' = <<>> /\ vectors' = <<>>
    /\ degraded' = FALSE
    /\ alone' = Nobody
    /\ pc' = [c \in Clients |-> "idle"]
    /\ wanted' = [c \in Clients |-> Empty]
    /\ cached' = [c \in Clients |-> Empty]
    /\ seen' = [c \in Clients |-> Empty]
    /\ UNCHANGED embeddings
=============================================================================
