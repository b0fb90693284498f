------------------------- MODULE ArchitectureProofs -------------------------
(***************************************************************************)
(* Proofs about the architecture snapshots, for any repositories, names,   *)
(* alias lists, corpora and requests: they implement the ledger, a brief   *)
(* is built from a snapshot that was accepted, and what validation accepts *)
(* has edges that lead where their targets are declared.                   *)
(*                                                                         *)
(* The argument: a snapshot that is not absent changes only from active to *)
(* historical (Progress), so whatever a request has selected stays         *)
(* accepted; and a transaction judges a corpus whose snapshot is absent,   *)
(* which makes it a step of the ledger.                                    *)
(***************************************************************************)
EXTENDS ArchitectureSnapshots, FiniteSetTheorems, TLAPS

\* What a request holds at each of its steps.
RequestOf(c) ==
    /\ pc[c] = "store" => repo[c] \in RepoIds /\ corpus[c] \in Corpora
    /\ pc[c] = "resolve" => repo[c] \in RepoIds
    /\ pc[c] = "select" => repo[c] \in RepoIds /\ resolved[c] \in RepoIds
    /\ pc[c] = "answer" => snapshot[c] \in SnapshotIds /\ Accepted(snapshot[c])

RequestInv ==
    /\ snapshots \in [SnapshotIds -> Statuses]
    /\ pc \in [Clients -> {"idle", "known", "store", "resolve", "select", "answer"}]
    /\ repo \in [Clients -> RepoIds \union {Nobody}]
    /\ corpus \in [Clients -> Corpora \union {Nobody}]
    /\ resolved \in [Clients -> RepoIds \union {Nobody}]
    /\ snapshot \in [Clients -> SnapshotIds \union {Nobody}]
    /\ \A c \in Clients : RequestOf(c)

\* A step leaves the snapshots alone or stores one that was absent.
LEMMA OneStores ==
    ASSUME [Next]_vars
    PROVE  \/ UNCHANGED snapshots
           \/ \E c \in Clients, name \in Names, aliases \in Aliases : Store(c, name, aliases)
BY DEF Next, vars, tables, SyncKnown, SyncNew, Brief, ResolveAgain, Select, SelectNone,
       Answer, Crash

\* activate's two UPDATEs: the new snapshot is judged and an active one may
\* become historical, all others stay as they are.
LEMMA StatusesStored ==
    ASSUME NEW r \in RepoIds, NEW k \in Corpora, NEW name, NEW s \in SnapshotIds,
           snapshots \in [SnapshotIds -> Statuses]
    PROVE  /\ StatusesAfter(r, k, name) \in [SnapshotIds -> Statuses]
           /\ s # <<r, k>> /\ Accepted(s) =>
                StatusesAfter(r, k, name)[s] \in {"active", "historical"}
BY DEF StatusesAfter, Statuses, Accepted

\* What was accepted stays accepted.
LEMMA Progress ==
    ASSUME RequestInv, [Next]_vars, NEW s \in SnapshotIds, Accepted(s)
    PROVE  Accepted(s)'
<1>1. CASE UNCHANGED snapshots
  BY <1>1 DEF Accepted
<1>2. ASSUME NEW c \in Clients, NEW name \in Names, NEW aliases \in Aliases,
             Store(c, name, aliases)
      PROVE  Accepted(s)'
  <2>1. repo[c] \in RepoIds /\ corpus[c] \in Corpora
    BY <1>2 DEF RequestInv, RequestOf, Store
  <2>2. s # <<repo[c], corpus[c]>>
    BY <1>2 DEF Store, Accepted
  <2>3. QED BY <1>2, <2>1, <2>2, StatusesStored DEF RequestInv, Store, Accepted
<1>3. QED BY <1>1, <1>2, OneStores

\* Every step keeps what the requests hold.
LEMMA RequestStep ==
    ASSUME RequestInv, [Next]_vars
    PROVE  RequestInv'
<1>1. snapshots' \in [SnapshotIds -> Statuses]
  <2>1. ASSUME NEW c \in Clients, NEW name \in Names, NEW aliases \in Aliases,
               Store(c, name, aliases)
        PROVE  snapshots' \in [SnapshotIds -> Statuses]
    <3>1. repo[c] \in RepoIds /\ corpus[c] \in Corpora
      BY <2>1 DEF RequestInv, RequestOf, Store
    <3>2. <<repo[c], corpus[c]>> \in SnapshotIds
      BY <3>1 DEF SnapshotIds
    <3>3. QED BY <2>1, <3>1, <3>2, StatusesStored DEF RequestInv, Store
  <2>2. QED BY <2>1, OneStores DEF RequestInv
<1>2. \A s \in SnapshotIds : Accepted(s) => Accepted(s)'
  BY Progress
<1>3. CASE UNCHANGED vars
  BY <1>3 DEF RequestInv, RequestOf, Accepted, vars, tables, locals
<1>4. ASSUME NEW c \in Clients,
             \/ \E r \in RepoIds, k \in Corpora : SyncKnown(c, r, k) \/ SyncNew(c, r, k)
             \/ \E name \in Names, aliases \in Aliases : Store(c, name, aliases)
             \/ \E value \in References : Brief(c, value)
             \/ ResolveAgain(c) \/ Select(c) \/ SelectNone(c) \/ Answer(c)
             \/ Crash(c)
      PROVE  RequestInv'
  <2> DEFINE Typed ==
        /\ pc' \in [Clients -> {"idle", "known", "store", "resolve", "select", "answer"}]
        /\ repo' \in [Clients -> RepoIds \union {Nobody}]
        /\ corpus' \in [Clients -> Corpora \union {Nobody}]
        /\ resolved' \in [Clients -> RepoIds \union {Nobody}]
        /\ snapshot' \in [Clients -> SnapshotIds \union {Nobody}]
        /\ \A d \in Clients \ {c} :
              /\ pc'[d] = pc[d] /\ repo'[d] = repo[d] /\ corpus'[d] = corpus[d]
              /\ resolved'[d] = resolved[d] /\ snapshot'[d] = snapshot[d]
        /\ RequestOf(c)'
  <2>1. ASSUME NEW r \in RepoIds, NEW k \in Corpora, SyncKnown(c, r, k) \/ SyncNew(c, r, k)
        PROVE  Typed
    BY <2>1 DEF SyncKnown, SyncNew, Goto, RequestInv, RequestOf
  <2>2. ASSUME \/ \E name \in Names, aliases \in Aliases : Store(c, name, aliases)
               \/ SelectNone(c) \/ Answer(c) \/ Crash(c)
        PROVE  Typed
    BY <2>2 DEF Store, SelectNone, Answer, Crash, Return, Goto, RequestInv, RequestOf
  <2>3. ASSUME NEW value \in References, Brief(c, value)
        PROVE  Typed
    BY <2>3 DEF Brief, Goto, RequestInv, RequestOf
  <2>4. ASSUME ResolveAgain(c) PROVE Typed
    BY <2>4 DEF ResolveAgain, Goto, RequestInv, RequestOf
  <2>5. ASSUME Select(c) PROVE Typed
    BY <2>5 DEF Select, Goto, RequestInv, RequestOf, SnapshotIds, Accepted, tables
  <2>6. Typed
    BY <1>4, <2>1, <2>2, <2>3, <2>4, <2>5
  <2>7. ASSUME NEW d \in Clients \ {c} PROVE RequestOf(d)'
    BY <1>2, <2>6 DEF RequestInv, RequestOf
  <2>8. QED BY <1>1, <2>6, <2>7 DEF RequestInv
<1>5. QED BY <1>3, <1>4 DEF Next

\* The invariant the theorems rest on.
LEMMA RequestInvariant == Spec => []RequestInv
<1>1. Init => RequestInv
  BY DEF Init, RequestInv, RequestOf, Statuses
<1>2. RequestInv /\ [Next]_vars => RequestInv'
  BY RequestStep
<1>3. QED BY <1>1, <1>2, PTL DEF Spec

\* A brief is built from a snapshot that was accepted, whatever is synced
\* between its reads (compiler.py: build).
THEOREM BriefsAccepted == Spec => []BriefOfAccepted
<1>1. RequestInv => BriefOfAccepted
  BY DEF RequestInv, RequestOf, BriefOfAccepted
<1>2. QED BY <1>1, RequestInvariant, PTL

-----------------------------------------------------------------------------
(* The ledger *)

\* A transaction accepts or refuses its corpus.
LEMMA StoreJudges ==
    ASSUME RequestInv, NEW c \in Clients, NEW name \in Names, NEW aliases \in Aliases,
           Store(c, name, aliases)
    PROVE  Ledger!Next
<1> DEFINE r == repo[c]
           k == corpus[c]
<1>1. r \in RepoIds /\ k \in Corpora /\ <<r, k>> \in SnapshotIds
  BY DEF RequestInv, RequestOf, Store, SnapshotIds
<1>2. \A q \in RepoIds, j \in Corpora : <<q, j>> \in SnapshotIds
  BY DEF SnapshotIds
<1>3. snapshots[<<r, k>>] = "absent" /\ snapshots' = StatusesAfter(r, k, name)
  BY DEF Store
<1>4. Ledger!Unjudged(r, k)
  BY <1>1, <1>3 DEF Ledger!Unjudged, WithStatus
<1>5. CASE Rejected(k, name)
  <2>1. \A q \in RepoIds, j \in Corpora :
            snapshots'[<<q, j>>] = IF q = r /\ j = k THEN "rejected" ELSE snapshots[<<q, j>>]
    BY <1>2, <1>3, <1>5 DEF StatusesAfter
  <2>2. WithStatus("rejected")' = [WithStatus("rejected") EXCEPT ![r] = @ \union {k}]
    <3>1. \A q \in RepoIds : {j \in Corpora : snapshots'[<<q, j>>] = "rejected"} =
              IF q = r THEN {j \in Corpora : snapshots[<<q, j>>] = "rejected"} \union {k}
                       ELSE {j \in Corpora : snapshots[<<q, j>>] = "rejected"}
      BY <1>1, <2>1
    <3>2. QED BY <1>1, <3>1 DEF WithStatus
  <2>3. WithStatus("active")' = WithStatus("active")
        /\ WithStatus("historical")' = WithStatus("historical")
    BY <1>1, <1>3, <2>1 DEF WithStatus
  <2>4. Ledger!Refuse(r, k)
    BY <1>4, <2>2, <2>3 DEF Ledger!Refuse
  <2>5. QED BY <1>1, <2>4 DEF Ledger!Next
<1>6. CASE ~Rejected(k, name)
  <2>1. \A q \in RepoIds, j \in Corpora :
            snapshots'[<<q, j>>] =
                IF q = r /\ j = k THEN "active"
                ELSE IF q = r /\ snapshots[<<q, j>>] = "active" THEN "historical"
                ELSE snapshots[<<q, j>>]
    BY <1>2, <1>3, <1>6 DEF StatusesAfter
  <2>2. WithStatus("active")' = [WithStatus("active") EXCEPT ![r] = {k}]
    <3>1. \A q \in RepoIds : {j \in Corpora : snapshots'[<<q, j>>] = "active"} =
              IF q = r THEN {k} ELSE {j \in Corpora : snapshots[<<q, j>>] = "active"}
      BY <1>1, <2>1
    <3>2. QED BY <1>1, <3>1 DEF WithStatus
  <2>3. WithStatus("historical")' =
            [WithStatus("historical") EXCEPT ![r] = @ \union WithStatus("active")[r]]
    <3>1. \A q \in RepoIds : {j \in Corpora : snapshots'[<<q, j>>] = "historical"} =
              IF q = r THEN {j \in Corpora : snapshots[<<q, j>>] = "historical"}
                            \union {j \in Corpora : snapshots[<<q, j>>] = "active"}
                       ELSE {j \in Corpora : snapshots[<<q, j>>] = "historical"}
      BY <1>1, <1>3, <2>1
    <3>2. QED BY <1>1, <3>1 DEF WithStatus
  <2>4. WithStatus("rejected")' = WithStatus("rejected")
    BY <1>1, <1>3, <2>1 DEF WithStatus
  <2>5. Ledger!Accept(r, k)
    BY <1>4, <2>2, <2>3, <2>4 DEF Ledger!Accept
  <2>6. QED BY <1>1, <2>5 DEF Ledger!Next
<1>7. QED BY <1>5, <1>6

\* One snapshot is active per repository, a rejected one replaces nothing and
\* history is never rewritten (store.py: activate).
THEOREM SnapshotsImplementLedger == Spec => ImplementsLedger
<1>1. Init => Ledger!Init
  BY DEF Init, Ledger!Init, Ledger!Nothing, WithStatus, SnapshotIds
<1>2. RequestInv /\ [Next]_vars => [Ledger!Next]_Ledger!vars
  BY OneStores, StoreJudges DEF WithStatus, Ledger!vars
<1>3. QED BY <1>1, <1>2, RequestInvariant, PTL DEF Spec, ImplementsLedger, Ledger!Spec
-----------------------------------------------------------------------------
(* Edges *)

\* When validation finds no error every card has a version, and a reference
\* matches the one document that declares its target, if there is one.
LEMMA MatchesAccepted ==
    ASSUME NEW k \in Corpora, NEW name, ~Rejected(k, name), NEW ref
    PROVE  /\ Matches(k, ref) = {i \in Cards(k) : Docs(k)[i].card = ref}
           /\ \/ Matches(k, ref) = {}
              \/ \E i \in Cards(k) : Matches(k, ref) = {i}
<1>1. Docs(k) \in Seq(Document)
  BY CorpusAssumption DEF Docs
<1>2. DOMAIN Docs(k) = 1..Len(Docs(k)) /\ Len(Docs(k)) \in Nat
  BY <1>1
<1>3. ASSUME NEW i \in Cards(k) PROVE Docs(k)[i].source \in Versions(k)
  <2>1. i \in 1..Len(Docs(k))
    BY <1>2 DEF Cards
  <2>2. ASSUME NEW h \in 1..(i - 1) PROVE Docs(k)[h].source # Docs(k)[i].source
    <3>1. h \in DOMAIN Docs(k) /\ i \in DOMAIN Docs(k) /\ h # i
      BY <1>2, <2>1
    <3>2. QED BY <3>1 DEF Rejected
  <2>3. QED BY <2>2 DEF Versions
<1>4. Matches(k, ref) = {i \in Cards(k) : Docs(k)[i].card = ref}
  BY <1>3 DEF Matches
<1>5. \A i, j \in Matches(k, ref) : i = j
  BY <1>4 DEF Rejected
<1>6. QED BY <1>4, <1>5

\* What EdgesOfAccepted says of an edge.
Explained(k, e) ==
    LET declaring == {i \in Cards(k) : Docs(k)[i].card = e.ref} IN
    /\ e.resolution # "ambiguous"
    /\ e.resolution = "resolved" <=> declaring # {}
    /\ e.resolution = "resolved" => {Docs(k)[i].source : i \in declaring} = {e.to}

\* So its edge is resolved to that document, or unresolved.
LEMMA EdgeAccepted ==
    ASSUME NEW k \in Corpora, NEW name, ~Rejected(k, name), NEW i, NEW field, NEW ref
    PROVE  Explained(k, EdgeTo(k, i, field, ref))
<1> DEFINE found == Matches(k, ref)
<1>1. found = {j \in Cards(k) : Docs(k)[j].card = ref}
  BY MatchesAccepted
<1>2. CASE found = {}
  <2>1. Cardinality(found) # 1
    BY <1>2, FS_EmptySet
  <2>2. QED BY <1>1, <1>2, <2>1 DEF EdgeTo, Explained
<1>3. ASSUME NEW j \in Cards(k), found = {j}
      PROVE  Explained(k, EdgeTo(k, i, field, ref))
  <2>1. Cardinality(found) = 1
    BY <1>3, FS_Singleton
  <2>2. (CHOOSE h \in found : TRUE) = j
    BY <1>3
  <2>3. EdgeTo(k, i, field, ref) =
            [from |-> Docs(k)[i].source, field |-> field, ref |-> ref,
             resolution |-> "resolved", to |-> Docs(k)[j].source]
    BY <2>1, <2>2 DEF EdgeTo
  <2>4. {h \in Cards(k) : Docs(k)[h].card = ref} = {j}
    BY <1>1, <1>3
  <2>5. QED BY <2>3, <2>4 DEF Explained
<1>4. QED BY <1>2, <1>3, MatchesAccepted

\* The edges of an accepted snapshot are those of its corpus, which some name
\* made acceptable.
EdgeInv ==
    /\ edges = [s \in SnapshotIds |-> edges[s]]
    /\ \A s \in SnapshotIds : Accepted(s) =>
          /\ edges[s] = Materialized(s[2])
          /\ \E name \in Names : ~Rejected(s[2], name)

\* Edges are written by the transaction that judges the snapshot, and by no other.
LEMMA EdgeStep ==
    ASSUME RequestInv, EdgeInv, [Next]_vars
    PROVE  EdgeInv'
<1>1. CASE UNCHANGED <<snapshots, edges>>
  BY <1>1 DEF EdgeInv, Accepted
<1>2. ASSUME NEW c \in Clients, NEW name \in Names, NEW aliases \in Aliases,
             Store(c, name, aliases)
      PROVE  EdgeInv'
  <2> DEFINE new == <<repo[c], corpus[c]>>
  <2>1. repo[c] \in RepoIds /\ corpus[c] \in Corpora /\ new \in SnapshotIds
    BY <1>2 DEF RequestInv, RequestOf, Store, SnapshotIds
  <2>2. edges' = [edges EXCEPT ![new] = Materialized(corpus[c])]
    BY <1>2 DEF Store
  <2>3. edges' = [s \in SnapshotIds |-> edges'[s]]
    BY <2>2 DEF EdgeInv
  <2>4. ASSUME NEW s \in SnapshotIds, Accepted(s)'
        PROVE  edges'[s] = Materialized(s[2]) /\ \E n \in Names : ~Rejected(s[2], n)
    <3>1. CASE s = new
      <4>1. snapshots'[s] = IF Rejected(corpus[c], name) THEN "rejected" ELSE "active"
        BY <1>2, <3>1 DEF Store, StatusesAfter
      <4>2. ~Rejected(corpus[c], name)
        BY <2>4, <4>1 DEF Accepted
      <4>3. edges'[s] = Materialized(corpus[c])
        BY <2>1, <2>2, <3>1 DEF EdgeInv
      <4>4. QED BY <3>1, <4>2, <4>3
    <3>2. CASE s # new
      <4>1. Accepted(s)
        BY <1>2, <2>4, <3>2 DEF Store, StatusesAfter, Accepted
      <4>2. edges'[s] = edges[s]
        BY <2>2, <3>2 DEF EdgeInv
      <4>3. QED BY <4>1, <4>2 DEF EdgeInv
    <3>3. QED BY <3>1, <3>2
  <2>5. QED BY <2>3, <2>4 DEF EdgeInv
<1>3. UNCHANGED <<snapshots, edges>> \/
      \E c \in Clients, name \in Names, aliases \in Aliases : Store(c, name, aliases)
  BY DEF Next, vars, tables, SyncKnown, SyncNew, Brief, ResolveAgain, Select, SelectNone,
     Answer, Crash
<1>4. QED BY <1>1, <1>2, <1>3

\* Validation and edges agree: in a snapshot that was ever active no edge is
\* ambiguous, and an edge is resolved exactly when one document declares its
\* target, to which it then leads (store.py: _materialize_edges).
THEOREM EdgesAgree == Spec => []EdgesOfAccepted
<1>1. Init => EdgeInv
  BY DEF Init, EdgeInv, Accepted
<1>2. RequestInv /\ EdgeInv /\ [Next]_vars => EdgeInv'
  BY EdgeStep
<1>3. EdgeInv => EdgesOfAccepted
  <2>1. ASSUME EdgeInv, NEW s \in SnapshotIds, Accepted(s), NEW e \in edges[s]
        PROVE  Explained(s[2], e)
    <3>1. s[2] \in Corpora
      BY DEF SnapshotIds
    <3>2. PICK name \in Names : ~Rejected(s[2], name)
      BY <2>1 DEF EdgeInv
    <3>3. \E i, field, ref : e = EdgeTo(s[2], i, field, ref)
      BY <2>1 DEF EdgeInv, Materialized
    <3>4. QED BY <3>1, <3>2, <3>3, EdgeAccepted
  <2>2. QED BY <2>1 DEF EdgesOfAccepted, Explained
<1>4. QED BY <1>1, <1>2, <1>3, RequestInvariant, PTL DEF Spec
-----------------------------------------------------------------------------
(* Types *)

\* What the parser hands over (models.py: ArchitectureParseResult).
LEMMA DocumentType ==
    ASSUME NEW k \in Corpora, NEW i \in DOMAIN Docs(k)
    PROVE  Docs(k)[i] \in Document
<1>1. Docs(k) \in Seq(Document)
  BY CorpusAssumption DEF Docs
<1>2. i \in 1..Len(Docs(k))
  BY <1>1
<1>3. QED BY <1>1, <1>2

\* An edge between cards is a row of architecture_edges.
LEMMA EdgeType ==
    ASSUME NEW k \in Corpora, NEW i \in Cards(k), NEW field \in {"depends_on", "relationships"},
           NEW ref \in CardIds
    PROVE  EdgeTo(k, i, field, ref) \in Edge
<1> DEFINE found == Matches(k, ref)
<1>1. \A j \in DOMAIN Docs(k) : Docs(k)[j].source \in Sources
  BY DocumentType DEF Document
<1>2. \A j \in found \union {i} : j \in DOMAIN Docs(k)
  BY DEF Cards, Matches
<1>3. Cardinality(found) = 1 => \E j \in found : TRUE
  BY FS_EmptySet
<1>4. Cardinality(found) = 1 => (CHOOSE j \in found : TRUE) \in found
  BY <1>3
<1>5. Docs(k)[i].source \in Sources
  BY <1>1, <1>2
<1>6. Cardinality(found) = 1 => Docs(k)[CHOOSE j \in found : TRUE].source \in Sources
  BY <1>1, <1>2, <1>4
<1>7. QED BY <1>5, <1>6 DEF EdgeTo, Edge

\* So are all that _materialize_edges writes, with the issues about them.
LEMMA MaterializedType ==
    ASSUME NEW k \in Corpora
    PROVE  /\ Materialized(k) \subseteq Edge
           /\ EdgeIssues(k) \subseteq Sources \X CardIds
<1>1. \A i \in Cards(k) : Docs(k)[i].depends \subseteq CardIds /\ Docs(k)[i].relates \subseteq CardIds
  BY DocumentType DEF Document, Cards
<1>2. Materialized(k) \subseteq Edge
  BY <1>1, EdgeType DEF Materialized, Versioned
<1>3. QED BY <1>2 DEF EdgeIssues, Edge

\* The rest of TypeOK: the tables, and that what a request works on is registered.
TableInv ==
    /\ registered \in [RepoIds -> Registration \union {Nobody}]
    /\ edges \in [SnapshotIds -> SUBSET Edge]
    /\ issues \in [SnapshotIds -> SUBSET (Sources \X CardIds)]
    /\ \A c \in Clients : pc[c] # "idle" => repo[c] \in RepoIds
    /\ \A c \in Clients : pc[c] \in {"resolve", "select", "answer"} =>
           registered[repo[c]] # Nobody
    /\ \A s \in SnapshotIds : snapshots[s] # "absent" => registered[s[1]] # Nobody

\* A repository once registered stays so, and a sync registers its own.
LEMMA Registered ==
    ASSUME TableInv, RequestInv, [Next]_vars
    PROVE  /\ registered' \in [RepoIds -> Registration \union {Nobody}]
           /\ \A r \in RepoIds : registered[r] # Nobody => registered'[r] # Nobody
           /\ \A s \in SnapshotIds : snapshots'[s] # "absent" => registered'[s[1]] # Nobody
<1>1. CASE UNCHANGED <<registered, snapshots>>
  BY <1>1 DEF TableInv
<1>2. ASSUME NEW c \in Clients, NEW name \in Names, NEW aliases \in Aliases,
             Store(c, name, aliases)
      PROVE  /\ registered' \in [RepoIds -> Registration \union {Nobody}]
             /\ \A r \in RepoIds : registered[r] # Nobody => registered'[r] # Nobody
             /\ \A s \in SnapshotIds : snapshots'[s] # "absent" => registered'[s[1]] # Nobody
  <2> DEFINE row == [name |-> name, aliases |-> aliases]
  <2>1. row \in Registration /\ row # Nobody
    BY NameAssumption, CorpusAssumption DEF Registration
  <2>2. repo[c] \in RepoIds
    BY <1>2 DEF RequestInv, RequestOf, Store
  <2>3. registered' = [registered EXCEPT ![repo[c]] = row]
    BY <1>2 DEF Store
  <2>4. \A r \in RepoIds : registered'[r] = IF r = repo[c] THEN row ELSE registered[r]
    BY <2>3 DEF TableInv
  <2>5. ASSUME NEW s \in SnapshotIds, snapshots'[s] # "absent"
        PROVE  s[1] = repo[c] \/ snapshots[s] # "absent"
    BY <1>2, <2>5 DEF Store, StatusesAfter
  <2>6. \A s \in SnapshotIds : s[1] \in RepoIds
    BY DEF SnapshotIds
  <2>7. registered' \in [RepoIds -> Registration \union {Nobody}]
    BY <2>1, <2>2, <2>3 DEF TableInv
  <2>8. QED BY <2>1, <2>4, <2>5, <2>6, <2>7 DEF TableInv
<1>3. UNCHANGED <<registered, snapshots>> \/
      \E c \in Clients, name \in Names, aliases \in Aliases : Store(c, name, aliases)
  BY DEF Next, vars, tables, SyncKnown, SyncNew, Brief, ResolveAgain, Select, SelectNone,
     Answer, Crash
<1>4. QED BY <1>1, <1>2, <1>3

\* A transaction writes rows of the right types.
LEMMA RowsTyped ==
    ASSUME TableInv, RequestInv, [Next]_vars
    PROVE  /\ edges' \in [SnapshotIds -> SUBSET Edge]
           /\ issues' \in [SnapshotIds -> SUBSET (Sources \X CardIds)]
<1>1. CASE UNCHANGED <<edges, issues>>
  BY <1>1 DEF TableInv
<1>2. ASSUME NEW c \in Clients, NEW name \in Names, NEW aliases \in Aliases,
             Store(c, name, aliases)
      PROVE  /\ edges' \in [SnapshotIds -> SUBSET Edge]
             /\ issues' \in [SnapshotIds -> SUBSET (Sources \X CardIds)]
  <2>1. corpus[c] \in Corpora
    BY <1>2 DEF RequestInv, RequestOf, Store
  <2>2. Materialized(corpus[c]) \in SUBSET Edge
        /\ EdgeIssues(corpus[c]) \in SUBSET (Sources \X CardIds)
    BY <2>1, MaterializedType
  <2>3. QED BY <1>2, <2>2 DEF Store, TableInv
<1>3. UNCHANGED <<edges, issues>> \/
      \E c \in Clients, name \in Names, aliases \in Aliases : Store(c, name, aliases)
  BY DEF Next, vars, tables, SyncKnown, SyncNew, Brief, ResolveAgain, Select, SelectNone,
     Answer, Crash
<1>4. QED BY <1>1, <1>2, <1>3

\* Every step keeps the tables and what the requests work on.
LEMMA TableStep ==
    ASSUME TableInv, RequestInv, [Next]_vars
    PROVE  TableInv'
<1> DEFINE Works(c) ==
      /\ pc'[c] # "idle" => repo'[c] \in RepoIds
      /\ pc'[c] \in {"resolve", "select", "answer"} => registered'[repo'[c]] # Nobody
<1>1. \A r \in RepoIds : registered[r] # Nobody => registered'[r] # Nobody
  BY Registered
<1>2. ASSUME NEW c \in Clients, UNCHANGED <<pc, repo>> PROVE Works(c)
  BY <1>1, <1>2 DEF TableInv
<1>3. ASSUME NEW c \in Clients, NEW d \in Clients,
             \/ \E r \in RepoIds, k \in Corpora : SyncKnown(c, r, k) \/ SyncNew(c, r, k)
             \/ ResolveAgain(c) \/ Select(c)
      PROVE  Works(d)
  BY <1>1, <1>3 DEF SyncKnown, SyncNew, ResolveAgain, Select, Goto, RequestInv, TableInv
<1>4. ASSUME NEW c \in Clients, NEW d \in Clients,
             NEW value \in References, Brief(c, value)
      PROVE  Works(d)
  BY <1>1, <1>4 DEF Brief, ResolvesTo, Named, Goto, RequestInv, TableInv, tables
<1>5. ASSUME NEW c \in Clients, NEW d \in Clients,
             \/ \E name \in Names, aliases \in Aliases : Store(c, name, aliases)
             \/ SelectNone(c) \/ Answer(c) \/ Crash(c)
      PROVE  Works(d)
  <2>1. Return(c)
    BY <1>5 DEF Store, SelectNone, Answer, Crash
  <2>2. QED BY <1>1, <2>1 DEF Return, Goto, RequestInv, TableInv
<1>6. \A d \in Clients : Works(d)
  BY <1>2, <1>3, <1>4, <1>5 DEF Next, vars, locals
<1>7. QED BY <1>6, Registered, RowsTyped DEF TableInv

\* Every variable keeps its type, and a snapshot belongs to a registered
\* repository (store.py, db.py).
THEOREM TypeCorrect == Spec => []TypeOK
<1>1. Init => TableInv
  BY DEF Init, TableInv
<1>2. TableInv /\ RequestInv /\ [Next]_vars => TableInv'
  BY TableStep
<1>3. TableInv /\ RequestInv => TypeOK
  BY CorpusAssumption DEF TableInv, RequestInv, TypeOK
<1>4. QED BY <1>1, <1>2, <1>3, RequestInvariant, PTL DEF Spec
=============================================================================
