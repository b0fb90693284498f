------------------------ MODULE ArchitectureSnapshots ------------------------
(***************************************************************************)
(* ArchitectureStore: the registry of repositories and the versioned       *)
(* snapshots of their declared architecture, under concurrent syncs and    *)
(* architecture briefs.                                                    *)
(*                                                                         *)
(* A corpus stands for the source revision, manifest hash and documents of *)
(* a sync: with the repository's id they determine the snapshot's id.      *)
(* Every connection is a step.  A sync's transaction is one step on either *)
(* database: on Postgres its first write locks the repository's row.       *)
(***************************************************************************)
EXTENDS Naturals, Sequences, FiniteSets

CONSTANTS
    RepoIds,        \* repository ids
    Names,          \* names and aliases, up to case
    Aliases,        \* the alias lists a sync may bring, as sets
    Rank,           \* the order of names and ids: RepoIds \union Names -> Nat
    Corpora,        \* what can be synced
    Documents,      \* Corpora -> the parsed documents of each
    CardIds,        \* stable ids of architecture cards
    Sources,        \* source URIs
    NoCard,         \* a document without an architecture card
    Anyone,         \* a card that names no repository
    Nobody,         \* NULL
    Clients         \* request threads

References == RepoIds \union Names

Document == [source: Sources, card: CardIds \union {NoCard}, owner: Names \union {Anyone},
             sound: BOOLEAN,            \* the parser found no error in it
             depends: SUBSET CardIds,   \* depends_on
             relates: SUBSET CardIds]   \* targets of well-formed relationships

Registration == [name: Names, aliases: SUBSET References]

ASSUME CorpusAssumption ==
    /\ Documents \in [Corpora -> Seq(Document) \ {<<>>}]
    /\ NoCard \notin CardIds /\ Anyone \notin Names
    /\ Nobody \notin RepoIds \union Corpora \union Sources \union Registration
ASSUME NameAssumption ==
    /\ Rank \in [References -> Nat]
    /\ \A a, b \in References : Rank[a] = Rank[b] => a = b
    /\ Aliases \subseteq SUBSET References

VARIABLES
    registered,     \* architecture_repositories
    snapshots,      \* architecture_snapshots.status, by repository and corpus
    edges,          \* architecture_edges between cards, by snapshot
    issues,         \* architecture_issues about those edges, by snapshot
    pc,             \* what each request does next
    repo,           \* the repository it syncs, or that its brief is about
    corpus,         \* the corpus it syncs
    resolved,       \* the repository active_snapshot has resolved the id to
    snapshot        \* the snapshot its brief is built from

tables == <<registered, snapshots, edges, issues>>
locals == <<repo, corpus, resolved, snapshot>>
vars == <<tables, pc, locals>>

SnapshotIds == RepoIds \X Corpora
Statuses == {"absent", "active", "historical", "rejected"}
Edge == [from: Sources, field: {"depends_on", "relationships"}, ref: CardIds,
         resolution: {"resolved", "unresolved", "ambiguous"}, to: Sources \union {Nobody}]

TypeOK ==
    /\ registered \in [RepoIds -> Registration \union {Nobody}]
    /\ snapshots \in [SnapshotIds -> Statuses]
    /\ edges \in [SnapshotIds -> SUBSET Edge]
    /\ issues \in [SnapshotIds -> SUBSET (Sources \X CardIds)]
    /\ pc \in [Clients -> {"idle", "known", "store", "resolve", "select", "answer"}]
    /\ repo \in [Clients -> RepoIds \union {Nobody}]
    /\ corpus \in [Clients -> Corpora \union {Nobody}]
    /\ resolved \in [Clients -> RepoIds \union {Nobody}]
    /\ snapshot \in [Clients -> SnapshotIds \union {Nobody}]
    /\ \A c \in Clients : pc[c] # "idle" => repo[c] # Nobody
    /\ \A c \in Clients : pc[c] \in {"resolve", "select", "answer"} =>
           registered[repo[c]] # Nobody
    /\ \A s \in SnapshotIds : snapshots[s] # "absent" => registered[s[1]] # Nobody

Init ==
    /\ registered = [r \in RepoIds |-> Nobody]
    /\ snapshots = [s \in SnapshotIds |-> "absent"]
    /\ edges = [s \in SnapshotIds |-> {}]
    /\ issues = [s \in SnapshotIds |-> {}]
    /\ pc = [c \in Clients |-> "idle"]
    /\ repo = [c \in Clients |-> Nobody]
    /\ corpus = [c \in Clients |-> Nobody]
    /\ resolved = [c \in Clients |-> Nobody]
    /\ snapshot = [c \in Clients |-> Nobody]

Goto(c, step) == pc' = [pc EXCEPT ![c] = step]

\* Mutation: the request forgets its repository and goes on.
ReturnBusy(c) ==
    /\ repo' = [repo EXCEPT ![c] = Nobody]
    /\ UNCHANGED <<pc, corpus, resolved, snapshot>>

Return(c) ==
    /\ Goto(c, "idle")
    /\ repo' = [repo EXCEPT ![c] = Nobody]
    /\ corpus' = [corpus EXCEPT ![c] = Nobody]
    /\ resolved' = [resolved EXCEPT ![c] = Nobody]
    /\ snapshot' = [snapshot EXCEPT ![c] = Nobody]

-----------------------------------------------------------------------------
(* Validation and edges of a corpus *)

Docs(k) == Documents[k]
Cards(k) == {i \in DOMAIN Docs(k) : Docs(k)[i].card # NoCard}

\* Mutation: two cards may share an id.
RejectedByDocument(k, name) ==
    \/ \E i \in DOMAIN Docs(k) : ~Docs(k)[i].sound
    \/ \E i \in Cards(k) : Docs(k)[i].owner \notin {Anyone, name}
    \/ \E i, j \in DOMAIN Docs(k) : i # j /\ Docs(k)[i].source = Docs(k)[j].source
    \/ Cards(k) = {}

\* _validation_issues finds an error: in a document, in whose it is, or in
\* what the documents are together.  Only the name can differ between two
\* syncs of one snapshot id.
Rejected(k, name) ==
    \/ \E i \in DOMAIN Docs(k) : ~Docs(k)[i].sound
    \/ \E i \in Cards(k) : Docs(k)[i].owner \notin {Anyone, name}
    \/ \E i, j \in DOMAIN Docs(k) : i # j /\ Docs(k)[i].source = Docs(k)[j].source
    \/ \E i, j \in Cards(k) : i # j /\ Docs(k)[i].card = Docs(k)[j].card
    \/ Cards(k) = {}

\* The sources with a document version: the first document of a source, when
\* it has a card.
Versions(k) ==
    {Docs(k)[i].source : i \in {j \in Cards(k) :
        \A h \in 1..(j - 1) : Docs(k)[h].source # Docs(k)[j].source}}

\* stable_versions: the documents a reference to the card may mean.
Matches(k, ref) ==
    {i \in Cards(k) : Docs(k)[i].card = ref /\ Docs(k)[i].source \in Versions(k)}

EdgeTo(k, i, field, ref) ==
    LET found == Matches(k, ref) IN
    [from |-> Docs(k)[i].source, field |-> field, ref |-> ref,
     resolution |-> IF Cardinality(found) = 1 THEN "resolved"
                    ELSE IF found = {} THEN "unresolved" ELSE "ambiguous",
     to |-> IF Cardinality(found) = 1
            THEN Docs(k)[CHOOSE j \in found : TRUE].source ELSE Nobody]

Versioned(k) == {i \in Cards(k) : Docs(k)[i].source \in Versions(k)}

\* _materialize_edges, for the edges between cards.  Relationships follow the
\* dependencies but leave no issue.
Materialized(k) ==
    UNION {{EdgeTo(k, i, "depends_on", ref) : ref \in Docs(k)[i].depends}
           \union {EdgeTo(k, i, "relationships", ref) : ref \in Docs(k)[i].relates}
           : i \in Versioned(k)}

EdgeIssues(k) ==
    {<<e.from, e.ref>> : e \in {f \in Materialized(k) :
        f.field = "depends_on" /\ f.resolution # "resolved"}}

-----------------------------------------------------------------------------
(* Sync *)

\* activate finds the snapshot: it is the answer, whatever its status.
SyncKnown(c, r, k) ==
    /\ pc[c] = "idle"
    /\ snapshots[<<r, k>>] # "absent"
    /\ Goto(c, "known")
    /\ repo' = [repo EXCEPT ![c] = r]
    /\ corpus' = [corpus EXCEPT ![c] = k]
    /\ UNCHANGED <<tables, resolved, snapshot>>

SyncNew(c, r, k) ==
    /\ pc[c] = "idle"
    /\ snapshots[<<r, k>>] = "absent"
    /\ Goto(c, "store")
    /\ repo' = [repo EXCEPT ![c] = r]
    /\ corpus' = [corpus EXCEPT ![c] = k]
    /\ UNCHANGED <<tables, resolved, snapshot>>

\* Mutation: the prior snapshot makes way before the new one is judged.
StatusesRetiring(r, k, name) ==
    [s \in SnapshotIds |->
        IF s = <<r, k>> THEN IF Rejected(k, name) THEN "rejected" ELSE "active"
        ELSE IF s[1] = r /\ snapshots[s] = "active"
             THEN "historical" ELSE snapshots[s]]

StatusesAfter(r, k, name) ==
    [s \in SnapshotIds |->
        IF s = <<r, k>> THEN IF Rejected(k, name) THEN "rejected" ELSE "active"
        ELSE IF ~Rejected(k, name) /\ s[1] = r /\ snapshots[s] = "active"
             THEN "historical" ELSE snapshots[s]]

\* The transaction.  The repository is registered anew whatever the verdict.
\* A snapshot that another request has stored meanwhile raises (Crash).
Store(c, name, aliases) ==
    LET r == repo[c]  k == corpus[c]  s == <<r, k>> IN
    /\ pc[c] = "store"
    /\ snapshots[s] = "absent"
    /\ registered' = [registered EXCEPT ![r] = [name |-> name, aliases |-> aliases]]
    /\ snapshots' = StatusesAfter(r, k, name)
    /\ edges' = [edges EXCEPT ![s] = Materialized(k)]
    /\ issues' = [issues EXCEPT ![s] = EdgeIssues(k)]
    /\ Return(c)

\* The request dies or raises; its transaction is rolled back.
Crash(c) ==
    /\ pc[c] # "idle"
    /\ Return(c)
    /\ UNCHANGED tables

-----------------------------------------------------------------------------
(* Briefs *)

\* ORDER BY name,id
Before(q, r) ==
    \/ Rank[registered[q].name] < Rank[registered[r].name]
    \/ registered[q].name = registered[r].name /\ Rank[q] < Rank[r]

Named(value) ==
    {r \in RepoIds : /\ registered[r] # Nobody
                     /\ value \in {r, registered[r].name} \union registered[r].aliases}

\* resolve_repository: the first that has the value for id, name or alias.
ResolvesTo(value, r) ==
    /\ r \in Named(value)
    /\ \A q \in Named(value) : q # r => Before(r, q)

\* build resolves the repository the request names ...
Brief(c, value) ==
    /\ pc[c] = "idle"
    /\ \E r \in RepoIds :
          /\ ResolvesTo(value, r)
          /\ repo' = [repo EXCEPT ![c] = r]
    /\ Goto(c, "resolve")
    /\ UNCHANGED <<tables, corpus, resolved, snapshot>>

\* ... active_snapshot resolves the id that was found ...
ResolveAgain(c) ==
    /\ pc[c] = "resolve"
    /\ \E r \in RepoIds :
          /\ ResolvesTo(repo[c], r)
          /\ resolved' = [resolved EXCEPT ![c] = r]
    /\ Goto(c, "select")
    /\ UNCHANGED <<tables, repo, corpus, snapshot>>

\* Mutation: a snapshot of the repository, active or not.
SelectAny(c) ==
    /\ pc[c] = "select"
    /\ \E k \in Corpora :
          /\ snapshots[<<resolved[c], k>>] # "absent"
          /\ snapshot' = [snapshot EXCEPT ![c] = <<resolved[c], k>>]
    /\ Goto(c, "answer")
    /\ UNCHANGED <<tables, repo, corpus, resolved>>

\* ... and selects the active snapshot of that.
Select(c) ==
    /\ pc[c] = "select"
    /\ \E k \in Corpora :
          /\ snapshots[<<resolved[c], k>>] = "active"
          /\ snapshot' = [snapshot EXCEPT ![c] = <<resolved[c], k>>]
    /\ Goto(c, "answer")
    /\ UNCHANGED <<tables, repo, corpus, resolved>>

\* No snapshot is active: a degraded brief without one.
SelectNone(c) ==
    /\ pc[c] = "select"
    /\ \A k \in Corpora : snapshots[<<resolved[c], k>>] # "active"
    /\ Return(c)
    /\ UNCHANGED tables

\* A brief is put together from the snapshot's rows, which never change; a sync
\* adds the health of the snapshot it answers with.
Answer(c) ==
    /\ pc[c] \in {"answer", "known"}
    /\ Return(c)
    /\ UNCHANGED tables

Next ==
    \E c \in Clients :
        \/ \E r \in RepoIds, k \in Corpora : SyncKnown(c, r, k) \/ SyncNew(c, r, k)
        \/ \E name \in Names, aliases \in Aliases : Store(c, name, aliases)
        \/ \E value \in References : Brief(c, value)
        \/ ResolveAgain(c) \/ Select(c) \/ SelectNone(c) \/ Answer(c)
        \/ Crash(c)

Spec == Init /\ [][Next]_vars

-----------------------------------------------------------------------------
(* Properties *)

Accepted(s) == snapshots[s] \in {"active", "historical"}

\* Validation and edges agree: in a snapshot that was ever active no edge is
\* ambiguous, and an edge is resolved exactly when one document declares its
\* target, to which it then leads (store.py: _materialize_edges).
EdgesOfAccepted ==
    \A s \in SnapshotIds : Accepted(s) =>
        \A e \in edges[s] :
            LET declaring == {i \in Cards(s[2]) : Docs(s[2])[i].card = e.ref} IN
            /\ e.resolution # "ambiguous"
            /\ e.resolution = "resolved" <=> declaring # {}
            /\ e.resolution = "resolved" => {Docs(s[2])[i].source : i \in declaring} = {e.to}

\* A brief is built from a snapshot that was accepted, whatever is synced
\* between its reads (compiler.py: build).
BriefOfAccepted ==
    \A c \in Clients : pc[c] = "answer" => Accepted(snapshot[c])

\* The tables implement the ledger of snapshots: one is active, a rejected
\* one replaces nothing, and history is never rewritten.
WithStatus(status) ==
    [r \in RepoIds |-> {k \in Corpora : snapshots[<<r, k>>] = status}]
Ledger == INSTANCE SnapshotLedger WITH
    current <- WithStatus("active"),
    history <- WithStatus("historical"),
    refused <- WithStatus("rejected")
ImplementsLedger == Ledger!Spec

\* docs/architecture-awareness.md, "Versioned storage": a valid snapshot
\* activates.  A sync answered with a snapshot that was accepted leaves it active.
SyncedIsActive ==
    [][\A r \in RepoIds, k \in Corpora :
          (\E c \in Clients : SyncKnown(c, r, k)) /\ Accepted(<<r, k>>) =>
              snapshots'[<<r, k>>] = "active"]_vars

\* docs/architecture-awareness.md, "Operating boundaries": a client receives
\* context for its repository, so a brief's snapshot is of the repository it names.
BriefOfItsRepository ==
    \A c \in Clients : pc[c] = "answer" => snapshot[c][1] = repo[c]
=============================================================================
