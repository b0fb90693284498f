---------------------------- MODULE RecallProofs ----------------------------
(***************************************************************************)
(* Proofs about VectorIndex, MemoryRecall, DeclaredDocuments and           *)
(* WorkspaceLoad, in the composition of MCRecall, for any number of        *)
(* requests, items, files, edits, loads, seed memories and built-in        *)
(* capabilities.                                                           *)
(***************************************************************************)
EXTENDS MCRecall, FiniteSetTheorems, WellFoundedInduction, TLAPS

-----------------------------------------------------------------------------
(* What the proofs are built on *)

Writers == SyncSteps \union {"take", "put"}
Steps == Writers \union {"idle", "ask", "vectors", "ids", "lexical", "dense"}

IndexShape ==
    /\ IndexTypeOK
    /\ pc \in [Clients -> Steps]
    /\ server \in Clients => pc[server] \in Writers

MemoryShape == store = "memories" => MemoryTypeOK

\* A card that is about to be written has been read from the first file left.
WalkShape ==
    /\ DocumentTypeOK
    /\ \A c \in Clients : pc[c] = "put" => todo[c] # <<>> /\ read[c] # NoCard

DocumentShape ==
    IF store = "documents" THEN WalkShape
    ELSE rounds = 0 /\ \A i \in Items : documents[i] = Missing

Shape == IndexShape /\ MemoryShape /\ DocumentShape

\* What a sync has to leave in the table, and in the index.
Wants == IF store = "memories" THEN Listed ELSE ListedDocuments
Shows == IF store = "memories" THEN [i \in Items |-> IF i \in Eligible THEN "active" ELSE Nothing]
         ELSE ListedDocuments

\* Until the workspace is loaded only the request that loads it is under way;
\* a request that has written alone is the only one that writes.
Alone ==
    /\ \A c \in Clients : pc[c] # "idle" => server \in {"up", c}
    /\ \A c, d \in Clients : alone = c /\ pc[d] \in Writers => c = d

\* What such a request has read is still so.
Synced ==
    \A c \in Clients : alone = c =>
        /\ pc[c] \in {"cached", "embed"} => wanted[c] = Wants
        /\ pc[c] = "embed" => cached[c] = embeddings
        /\ pc[c] = "read" => embeddings = Wants
        /\ pc[c] \in {"assign", "complete"} => seen[c] = Shows
        /\ pc[c] = "complete" => ids = IdsOf(Shows)

-----------------------------------------------------------------------------
(* What TreeMirrored rests on *)

Walking(c) == pc[c] \in {"take", "put"}

\* A file has one row at most.
OneRow == \A i, j \in Existing : documents[i].source = documents[j].source => i = j

\* The ids that cards declare, and a card that has a row which says what it does.
Declared == {tree[f].id : f \in Declaring}
HasRow(f) == \E i \in Existing : documents[i].source = f /\ documents[i].text = tree[f].text

\* After an edit nobody is alone until the walks that were under way are over.
Quiet == alone # Nobody \/ rounds >= 1

\* What a walk has behind it: only ids that are declared; each card that is not
\* before it has been found, and has its row.
Behind(c) ==
    /\ found[c] \subseteq Declared
    /\ \A f \in Declaring : f \in Range(todo[c]) \/ (tree[f].id \in found[c] /\ HasRow(f))

\* Once it is quiet a walk has read the files as they are.
Walked ==
    Quiet => \A c \in Clients :
        /\ pc[c] = "put" => read[c] = tree[Head(todo[c])]
        /\ Walking(c) => Behind(c)

MirrorInv == store = "documents" => OneRow /\ Walked /\ TreeMirrored

-----------------------------------------------------------------------------
(* Picking elements of a sequence *)

LEMMA Least ==
    ASSUME NEW T, T \subseteq Nat, T # {}
    PROVE  \E k \in T : \A j \in T : k <= j
<1>1. PICK k \in T : \A j \in T : ~ (<<j, k>> \in OpToRel(<, Nat))
  BY WFMin, NatLessThanWellFounded
<1>2. ASSUME NEW j \in T PROVE k <= j
  <2>1. j \in Nat /\ k \in Nat
    OBVIOUS
  <2>2. j < k => <<j, k>> \in OpToRel(<, Nat)
    BY <2>1 DEF OpToRel
  <2>3. ~ (j < k)
    BY <1>1, <2>2
  <2>4. QED BY <2>1, <2>3
<1>3. QED BY <1>2

\* The function that Picked is defined by exists.
LEMMA PickedSteps ==
    ASSUME NEW T, NEW s \in Seq(T), NEW S
    PROVE  \E p : /\ \A n \in 0..Len(s) :
                        p[n] = IF n = 0 THEN <<>>
                               ELSE IF s[n] \in S THEN Append(p[n - 1], s[n]) ELSE p[n - 1]
                  /\ Picked(s, S) = p[Len(s)]
<1> DEFINE Step(p, n) == IF n = 0 THEN <<>>
                         ELSE IF s[n] \in S THEN Append(p[n - 1], s[n]) ELSE p[n - 1]
           Good(m) == \E p : p = [n \in 0..m |-> Step(p, n)]
           Bad == {m \in Nat : ~Good(m)}
<1>1. ASSUME NEW m \in Nat PROVE Good(m)
  <2> SUFFICES ASSUME Bad # {} PROVE FALSE
    OBVIOUS
  <2>1. PICK k \in Bad : \A j \in Bad : k <= j
    <3>1. Bad \subseteq Nat
      OBVIOUS
    <3> HIDE DEF Bad
    <3>2. QED BY <3>1, Least
  <2>2. CASE k = 0
    <3>1. [n \in {0} |-> <<>>] = [n \in 0..0 |-> Step([i \in {0} |-> <<>>], n)]
      OBVIOUS
    <3>2. Good(0)
      BY <3>1
    <3>3. QED BY <2>2, <3>2
  <2>3. CASE k # 0
    <3>1. k - 1 \in Nat /\ k - 1 < k /\ k \in Nat
      BY <2>3
    <3>2. Good(k - 1)
      <4>1. k - 1 \notin Bad
        <5> HIDE DEF Bad
        <5>1. QED BY <2>1, <3>1
      <4> HIDE DEF Good
      <4>2. QED BY <3>1, <4>1
    <3>3. PICK p : p = [n \in 0..(k - 1) |-> Step(p, n)]
      BY <3>2
    <3> DEFINE q == [n \in 0..k |-> IF n = k THEN Step(p, k) ELSE p[n]]
    <3>4. ASSUME NEW n \in 0..k PROVE q[n] = Step(q, n)
      <4>1. CASE n = k
        <5>1. k - 1 \in 0..k /\ k - 1 # k
          BY <3>1
        <5>2. q[k - 1] = p[k - 1] /\ q[k] = Step(p, k)
          BY <3>1, <5>1
        <5>3. QED BY <2>3, <4>1, <5>2
      <4>2. CASE n # k /\ n = 0
        <5>1. n \in 0..(k - 1)
          BY <3>1, <4>2
        <5>2. p[n] = Step(p, n)
          BY <3>3, <5>1
        <5>3. q[n] = p[n]
          BY <3>1, <4>2
        <5>4. QED BY <4>2, <5>2, <5>3
      <4>3. CASE n # k /\ n # 0
        <5>1. n \in 0..(k - 1) /\ n - 1 \in 0..k /\ n - 1 # k
          BY <3>1, <4>3
        <5>2. q[n] = p[n] /\ q[n - 1] = p[n - 1]
          BY <4>3, <5>1
        <5>3. p[n] = Step(p, n)
          BY <3>3, <5>1
        <5>4. QED BY <4>3, <5>2, <5>3
      <4>4. QED BY <4>1, <4>2, <4>3
    <3>5. q = [n \in 0..k |-> Step(q, n)]
      <4>1. q = [n \in 0..k |-> q[n]]
        OBVIOUS
      <4> HIDE DEF q
      <4>2. QED BY <3>4, <4>1
    <3>6. Good(k)
      BY <3>5
    <3>7. QED BY <3>6
  <2>4. QED BY <2>2, <2>3
<1>2. Len(s) \in Nat
  OBVIOUS
<1>3. Good(Len(s))
  BY <1>1, <1>2
<1> DEFINE f == CHOOSE p : p = [n \in 0..Len(s) |-> Step(p, n)]
<1>4. f = [n \in 0..Len(s) |-> Step(f, n)]
  BY <1>3
<1>5. Picked(s, S) = f[Len(s)]
  BY DEF Picked
<1> HIDE DEF f
<1>6. \A n \in 0..Len(s) : f[n] = Step(f, n)
  BY <1>4
<1>7. QED BY <1>5, <1>6

\* What is picked is in S and in s, and nothing of it is left out.
LEMMA PickedFacts ==
    ASSUME NEW T, NEW s \in Seq(T), NEW S
    PROVE  /\ Picked(s, S) \in Seq(T)
           /\ \A k \in 1..Len(Picked(s, S)) :
                  Picked(s, S)[k] \in S /\ \E n \in 1..Len(s) : s[n] = Picked(s, S)[k]
           /\ \A n \in 1..Len(s) : s[n] \in S =>
                  \E k \in 1..Len(Picked(s, S)) : Picked(s, S)[k] = s[n]
<1>1. PICK p : /\ \A n \in 0..Len(s) :
                        p[n] = IF n = 0 THEN <<>>
                               ELSE IF s[n] \in S THEN Append(p[n - 1], s[n]) ELSE p[n - 1]
               /\ Picked(s, S) = p[Len(s)]
  BY PickedSteps
<1>2. Len(s) \in Nat /\ \A n \in 1..Len(s) : s[n] \in T
  OBVIOUS
<1> DEFINE Sound(n) == /\ p[n] \in Seq(T)
                       /\ \A k \in 1..Len(p[n]) : p[n][k] \in S /\ \E m \in 1..n : s[m] = p[n][k]
                       /\ \A m \in 1..n : s[m] \in S => \E k \in 1..Len(p[n]) : p[n][k] = s[m]
           Bad == {n \in 0..Len(s) : ~Sound(n)}
<1>3. ASSUME NEW n \in 0..Len(s), n # 0, Sound(n - 1)
      PROVE  Sound(n)
  <2>1. n - 1 \in 0..Len(s) /\ n \in 1..Len(s) /\ n \in 1..n /\ 1..n = (1..(n - 1)) \union {n}
    BY <1>2, <1>3
  <2>2. CASE s[n] \in S
    <3> DEFINE q == p[n - 1]
    <3>1. p[n] = Append(q, s[n]) /\ q \in Seq(T) /\ s[n] \in T
      BY <1>1, <1>2, <1>3, <2>1, <2>2
    <3>2. /\ p[n] \in Seq(T) /\ Len(p[n]) = Len(q) + 1 /\ Len(q) \in Nat
          /\ p[n][Len(q) + 1] = s[n] /\ \A k \in 1..Len(q) : p[n][k] = q[k]
      <4> HIDE DEF q
      <4>1. QED BY <3>1
    <3>3. ASSUME NEW k \in 1..Len(p[n])
          PROVE  p[n][k] \in S /\ \E m \in 1..n : s[m] = p[n][k]
      <4>1. CASE k = Len(q) + 1
        BY <2>1, <2>2, <3>2, <4>1
      <4>2. CASE k # Len(q) + 1
        <5>1. k \in 1..Len(q) /\ p[n][k] = q[k]
          <6> HIDE DEF q
          <6>1. QED BY <3>2, <4>2
        <5>2. q[k] \in S /\ \E m \in 1..(n - 1) : s[m] = q[k]
          BY <1>3, <5>1
        <5>3. QED BY <2>1, <5>1, <5>2
      <4>3. QED BY <4>1, <4>2
    <3>4. ASSUME NEW m \in 1..n, s[m] \in S
          PROVE  \E k \in 1..Len(p[n]) : p[n][k] = s[m]
      <4>1. CASE m = n
        <5>1. Len(q) + 1 \in 1..Len(p[n])
          <6> HIDE DEF q
          <6>1. QED BY <3>2
        <5>2. QED BY <3>2, <4>1, <5>1
      <4>2. CASE m # n
        <5>1. PICK k \in 1..Len(q) : q[k] = s[m]
          BY <1>3, <2>1, <3>4, <4>2
        <5>2. k \in 1..Len(p[n]) /\ p[n][k] = q[k]
          <6> HIDE DEF q
          <6>1. QED BY <3>2
        <5>3. QED BY <5>1, <5>2
      <4>3. QED BY <4>1, <4>2
    <3>5. QED BY <3>2, <3>3, <3>4
  <2>3. CASE s[n] \notin S
    <3>1. p[n] = p[n - 1]
      BY <1>1, <1>3, <2>3
    <3>2. QED BY <1>3, <2>1, <2>3, <3>1
  <2>4. QED BY <2>2, <2>3
<1>4. Sound(0)
  <2>1. p[0] = <<>> /\ 1..0 = {} /\ 1..Len(<<>>) = {}
    BY <1>1, <1>2
  <2>2. QED BY <2>1
<1>5. Bad = {}
  <2> SUFFICES ASSUME Bad # {} PROVE FALSE
    OBVIOUS
  <2>1. Bad \subseteq Nat
    OBVIOUS
  <2>2. PICK n \in Bad : \A m \in Bad : n <= m
    <3> HIDE DEF Bad
    <3>1. QED BY <2>1, Least
  <2> HIDE DEF Sound
  <2>3. n # 0 /\ n \in 0..Len(s) /\ ~Sound(n)
    BY <1>4
  <2>4. n - 1 \in 0..Len(s) /\ ~(n <= n - 1)
    BY <1>2, <2>3
  <2>5. Sound(n - 1)
    BY <2>2, <2>4
  <2>6. QED BY <1>3, <2>3, <2>5
<1>6. Sound(Len(s))
  <2> HIDE DEF Sound
  <2>1. Len(s) \in 0..Len(s)
    BY <1>2
  <2>2. QED BY <1>5, <2>1
<1>7. QED BY <1>1, <1>6

\* The ids of an index are the items that have a row, each with its vector.
LEMMA IndexOfRows ==
    ASSUME NEW rows \in Table
    PROVE  /\ IdsOf(rows) \in Seq(Items) /\ VectorsOf(rows) \in Seq(Vector)
           /\ Len(VectorsOf(rows)) = Len(IdsOf(rows))
           /\ \A n \in DOMAIN IdsOf(rows) : VectorsOf(rows)[n][1] = IdsOf(rows)[n]
           /\ \A n \in DOMAIN IdsOf(rows) :
                  IdsOf(rows)[n] \in Items /\ rows[IdsOf(rows)[n]] # Nothing
<1> DEFINE S == {i \in Items : rows[i] # Nothing}
           is == IdsOf(rows)
<1>1. is \in Seq(Items) /\ \A k \in 1..Len(is) : is[k] \in S
  BY OrderAssumption, PickedFacts DEF IdsOf, InOrder, OrderAssumption
<1>2. \A k \in 1..Len(is) : is[k] \in Items /\ rows[is[k]] \in Surfaces
  <2> HIDE DEF is
  <2>1. QED BY <1>1 DEF Table
<1>3. VectorsOf(rows) = [n \in 1..Len(is) |-> <<is[n], rows[is[n]]>>]
  <2>1. DOMAIN is = 1..Len(is)
    <3> HIDE DEF is
    <3>1. QED BY <1>1
  <2>2. QED BY <2>1 DEF VectorsOf
<1> HIDE DEF is
<1>4. Len(is) \in Nat /\ DOMAIN is = 1..Len(is)
  BY <1>1
<1>5. \A n \in 1..Len(is) : <<is[n], rows[is[n]]>> \in Vector
  BY <1>2 DEF Vector
<1>6. VectorsOf(rows) \in Seq(Vector) /\ Len(VectorsOf(rows)) = Len(is)
  BY <1>3, <1>4, <1>5
<1>7. \A n \in 1..Len(is) : VectorsOf(rows)[n][1] = is[n]
  BY <1>3
<1>8. \A n \in 1..Len(is) : is[n] \in Items /\ rows[is[n]] # Nothing
  BY <1>1
<1>9. QED BY <1>1, <1>4, <1>6, <1>7, <1>8 DEF is

-----------------------------------------------------------------------------
(* Types, and the pairing of ids and vectors: the index *)

LEMMA EmptyTable == Empty \in Table
BY DEF Empty, Table

LEMMA RowsTable == ASSUME embeddings \in Table, NEW visible PROVE Rows(visible) \in Table
BY DEF Rows, Table

LEMMA IndexStart == IndexInit => IndexShape
<1> SUFFICES ASSUME IndexInit PROVE IndexShape
  OBVIOUS
<1>1. ids \in Seq(Items) /\ vectors \in Seq(Vector)
  BY DEF IndexInit
<1>2. /\ wanted \in [Clients -> Table] /\ cached \in [Clients -> Table]
      /\ seen \in [Clients -> Table] /\ pc \in [Clients -> Steps]
  BY EmptyTable DEF IndexInit, Steps
<1>3. server = "down" /\ "down" \notin Clients
  BY NothingAssumption DEF IndexInit
<1>4. QED BY <1>1, <1>2, <1>3, EmptyTable DEF IndexInit, IndexShape, IndexTypeOK

\* A step that leaves table and index alone.
LEMMA MoveShape ==
    ASSUME IndexShape, NEW c \in Clients, NEW step \in Steps, pc' = [pc EXCEPT ![c] = step],
           UNCHANGED <<embeddings, ids, vectors, wanted, cached, seen>>,
           degraded' \in BOOLEAN, alone' \in Clients \union {Nobody},
           \/ server' = server /\ (server = c => step \in Writers)
           \/ server' = c /\ step \in Writers
           \/ server' = "up"
    PROVE  IndexShape'
<1>1. pc' \in [Clients -> Steps]
  BY DEF IndexShape
<1>2. "up" \notin Clients /\ "idle" \notin Writers
  BY NothingAssumption DEF Writers, SyncSteps
<1>3. server' \in {"down", "up"} \union Clients /\ (server' \in Clients => pc'[server'] \in Writers)
  BY <1>2 DEF IndexShape, IndexTypeOK
<1>4. IndexTypeOK'
  BY <1>2, <1>3 DEF IndexShape, IndexTypeOK
<1>5. QED BY <1>1, <1>3, <1>4 DEF IndexShape

\* The index is read back from some rows.
LEMMA ReplaceShape ==
    ASSUME IndexShape, NEW rows \in Table, Indexes(rows), embeddings' = embeddings,
           wanted' \in [Clients -> Table], cached' \in [Clients -> Table],
           seen' \in [Clients -> Table], degraded' \in BOOLEAN, pc' \in [Clients -> Steps],
           alone' \in Clients \union {Nobody}, server' \in {"down", "up"} \union Clients,
           server' \in Clients => pc'[server'] \in Writers
    PROVE  IndexShape'
<1>1. ids' \in Seq(Items) /\ vectors' \in Seq(Vector)
  BY IndexOfRows DEF Indexes
<1>2. "idle" \notin Writers
  BY DEF Writers, SyncSteps
<1>3. IndexTypeOK'
  BY <1>1, <1>2 DEF IndexShape, IndexTypeOK
<1>4. QED BY <1>3 DEF IndexShape

\* A sync returns, with a part of the index replaced.
LEMMA ReturnsShape ==
    ASSUME IndexShape, NEW c \in Clients, Returns(c), UNCHANGED <<embeddings, degraded, alone>>,
           ids' \in Seq(Items), vectors' \in Seq(Vector)
    PROVE  IndexShape' /\ pc' = [pc EXCEPT ![c] = "idle"]
<1>1. /\ pc' = [pc EXCEPT ![c] = "idle"] /\ wanted' \in [Clients -> Table]
      /\ cached' \in [Clients -> Table] /\ seen' \in [Clients -> Table]
      /\ server' = IF server = c THEN "up" ELSE server
  BY EmptyTable DEF Returns, Goto, Forget, IndexShape, IndexTypeOK
<1>2. pc' \in [Clients -> Steps] /\ \A d \in Clients \ {c} : pc'[d] = pc[d]
  BY <1>1 DEF IndexShape, Steps
<1>3. server' \in {"down", "up"} \union Clients /\ (server' \in Clients => pc'[server'] \in Writers)
  BY <1>1, <1>2, NothingAssumption DEF IndexShape, IndexTypeOK
<1>4. "idle" \notin Writers
  BY DEF Writers, SyncSteps
<1>5. IndexTypeOK'
  BY <1>1, <1>3, <1>4 DEF IndexShape, IndexTypeOK
<1>6. QED BY <1>1, <1>2, <1>3, <1>5 DEF IndexShape

LEMMA DiesShape == ASSUME IndexShape, NEW c \in Clients, Dies(c) PROVE IndexShape'
<1>1. /\ pc' \in [Clients -> Steps] /\ wanted' \in [Clients -> Table]
      /\ cached' \in [Clients -> Table] /\ seen' \in [Clients -> Table]
      /\ \A d \in Clients \ {c} : pc'[d] = pc[d]
  BY EmptyTable DEF Dies, Goto, Forget, IndexShape, IndexTypeOK, Steps
<1>2. /\ server' = (IF server = c THEN "down" ELSE server) /\ alone' \in {Nobody, alone}
      /\ UNCHANGED <<embeddings, ids, vectors, degraded>>
  BY DEF Dies
<1>3. server' \in {"down", "up"} \union Clients /\ (server' \in Clients => pc'[server'] \in Writers)
  BY <1>1, <1>2, NothingAssumption DEF IndexShape, IndexTypeOK
<1>4. "idle" \notin Writers
  BY DEF Writers, SyncSteps
<1>5. IndexTypeOK'
  BY <1>1, <1>2, <1>3, <1>4 DEF IndexShape, IndexTypeOK
<1>6. QED BY <1>1, <1>3, <1>5 DEF IndexShape

LEMMA StopShape == IndexShape /\ Stop => IndexShape'
<1> SUFFICES ASSUME IndexShape, Stop PROVE IndexShape'
  OBVIOUS
<1>1. ids' \in Seq(Items) /\ vectors' \in Seq(Vector)
  BY DEF Stop
<1>2. /\ wanted' \in [Clients -> Table] /\ cached' \in [Clients -> Table]
      /\ seen' \in [Clients -> Table] /\ pc' \in [Clients -> Steps]
  BY EmptyTable DEF Stop, Steps
<1>3. server' = "down" /\ "down" \notin Clients
  BY NothingAssumption DEF Stop
<1>4. QED BY <1>1, <1>2, <1>3 DEF Stop, IndexShape, IndexTypeOK

LEMMA WrittenTable ==
    ASSUME IndexShape, NEW c \in Clients PROVE Written(c) \in Table
BY DEF Written, Changed, Stale, IndexShape, IndexTypeOK, Table

\* The steps of a sync, whatever it lists and reads.
LEMMA SyncShape ==
    ASSUME IndexShape, NEW c \in Clients, NEW listed \in Table, NEW kept, NEW visible,
           \/ SyncList(c, listed) \/ SyncCached(c) \/ SyncWrite(c, kept)
           \/ SyncRead(c, visible) \/ Abandon(c)
    PROVE  IndexShape' /\ \E step \in SyncSteps \union {"idle"} : pc' = [pc EXCEPT ![c] = step]
<1>1. CASE SyncList(c, listed)
  <2>1. pc' = [pc EXCEPT ![c] = "cached"] /\ wanted' \in [Clients -> Table]
    BY <1>1 DEF SyncList, Goto, IndexShape, IndexTypeOK
  <2>2. pc' \in [Clients -> Steps] /\ (server \in Clients => pc'[server] \in Writers)
    BY <2>1 DEF IndexShape, Steps, Writers, SyncSteps
  <2>3. QED BY <1>1, <2>1, <2>2 
        DEF SyncList, IndexShape, IndexTypeOK, Writers, SyncSteps
<1>2. CASE SyncCached(c)
  <2>1. pc' = [pc EXCEPT ![c] = "embed"] /\ cached' \in [Clients -> Table]
    BY <1>2 DEF SyncCached, Goto, IndexShape, IndexTypeOK
  <2>2. pc' \in [Clients -> Steps] /\ (server \in Clients => pc'[server] \in Writers)
    BY <2>1 DEF IndexShape, Steps, Writers, SyncSteps
  <2>3. QED BY <1>2, <2>1, <2>2 
        DEF SyncCached, IndexShape, IndexTypeOK, Writers, SyncSteps
<1>3. CASE SyncWrite(c, kept)
  <2>1. /\ pc' = [pc EXCEPT ![c] = "read"] /\ wanted' \in [Clients -> Table]
        /\ cached' \in [Clients -> Table] /\ UNCHANGED <<ids, vectors, server, seen>>
    BY <1>3, EmptyTable DEF SyncWrite, Goto, IndexShape, IndexTypeOK
  <2>2. pc' \in [Clients -> Steps] /\ (server \in Clients => pc'[server] \in Writers)
    BY <2>1 DEF IndexShape, Steps, Writers, SyncSteps
  <2>3. embeddings' \in Table /\ degraded' \in BOOLEAN /\ alone' \in Clients \union {Nobody}
    BY <1>3, WrittenTable DEF SyncWrite, Fails, IndexShape, IndexTypeOK
  <2>4. QED BY <2>1, <2>2, <2>3 DEF IndexShape, IndexTypeOK, Writers, SyncSteps
<1>4. CASE SyncRead(c, visible)
  <2>1. pc' = [pc EXCEPT ![c] = "assign"] /\ seen' \in [Clients -> Table]
    BY <1>4, RowsTable DEF SyncRead, Goto, IndexShape, IndexTypeOK
  <2>2. pc' \in [Clients -> Steps] /\ (server \in Clients => pc'[server] \in Writers)
    BY <2>1 DEF IndexShape, Steps, Writers, SyncSteps
  <2>3. QED BY <1>4, <2>1, <2>2 
        DEF SyncRead, IndexShape, IndexTypeOK, Writers, SyncSteps
<1>5. CASE Abandon(c)
  BY <1>5, DiesShape DEF Abandon, Dies, Goto
<1>6. QED BY <1>1, <1>2, <1>3, <1>4, <1>5

-----------------------------------------------------------------------------
(* Types: memories *)

LEMMA ListedTable == MemoryTypeOK => Listed \in Table
BY SeededAssumption DEF MemoryTypeOK, Listed, Table

LEMMA MemoryLoads ==
    ASSUME IndexShape, MemoryTypeOK, NEW c \in Clients, LoadMemories(c)
    PROVE  IndexShape' /\ MemoryTypeOK'
<1>1. /\ UNCHANGED <<embeddings, wanted, cached, seen, memory, held>> /\ degraded' = FALSE
      /\ Indexes(Rows(Eligible)) /\ server = "down"
  BY DEF LoadMemories, Load, memoryVars
<1>2. /\ wanted' \in [Clients -> Table] /\ cached' \in [Clients -> Table]
      /\ seen' \in [Clients -> Table] /\ Rows(Eligible) \in Table
  BY <1>1, RowsTable DEF IndexShape, IndexTypeOK
<1>3. CASE server' = c /\ Goto(c, "list") /\ alone' = c
  <2>1. /\ pc' = [pc EXCEPT ![c] = "list"] /\ pc' \in [Clients -> Steps]
        /\ pc'[server'] \in Writers
    BY <1>3 DEF Goto, IndexShape, Steps, Writers, SyncSteps
  <2>2. IndexShape'
    BY <1>1, <1>2, <1>3, <2>1, ReplaceShape
  <2>3. QED BY <1>1, <2>1, <2>2 DEF MemoryTypeOK, SyncSteps
<1>4. CASE server' = "up" /\ UNCHANGED <<pc, alone>>
  <2>1. server' \notin Clients /\ pc' \in [Clients -> Steps] /\ alone' \in Clients \union {Nobody}
    BY <1>4, NothingAssumption DEF IndexShape, IndexTypeOK
  <2>2. IndexShape'
    BY <1>1, <1>2, <1>4, <2>1, ReplaceShape
  <2>3. QED BY <1>1, <1>4, <2>2 DEF MemoryTypeOK
<1>5. QED BY <1>3, <1>4 DEF LoadMemories

LEMMA BeginsType == ASSUME NEW c \in Clients, Begins(c) PROVE alone' \in Clients \union {Nobody}
BY DEF Begins

LEMMA MemoryWrites ==
    ASSUME IndexShape, MemoryTypeOK, NEW c \in Clients, Confirm(c) \/ AskSync(c)
    PROVE  IndexShape' /\ MemoryTypeOK'
<1>1. /\ pc' = [pc EXCEPT ![c] = "list"]
      /\ UNCHANGED <<embeddings, ids, vectors, degraded, server, wanted, cached, seen, held>>
      /\ alone' \in Clients \union {Nobody}
  BY BeginsType DEF Confirm, AskSync, Goto, memoryVars
<1>2. "list" \in Steps /\ "list" \in Writers /\ degraded' \in BOOLEAN
  BY <1>1 DEF Steps, Writers, SyncSteps, IndexShape, IndexTypeOK
<1>3. IndexShape'
  BY <1>1, <1>2, MoveShape
<1>4. memory' \in [Items -> {"absent", "active", "superseded", "inactive"}]
  <2>1. CASE AskSync(c)
    BY <2>1 DEF AskSync, memoryVars, MemoryTypeOK
  <2>2. CASE Confirm(c)
    BY <2>2 DEF Confirm, MemoryTypeOK
  <2>3. QED BY <2>1, <2>2
<1>5. QED BY <1>1, <1>3, <1>4 DEF MemoryTypeOK, SyncSteps

\* A recall is never the request that loads the workspace.
LEMMA MemoryRecalls ==
    ASSUME IndexShape, MemoryTypeOK, NEW c \in Clients,
           Recall(c) \/ AskProvider(c) \/ ReadVectors(c) \/ PairIds(c)
    PROVE  IndexShape' /\ MemoryTypeOK'
<1>1. /\ UNCHANGED <<embeddings, ids, vectors, server, wanted, cached, seen, alone, memory>>
      /\ \E step \in {"idle", "ask", "vectors", "ids"} : pc' = [pc EXCEPT ![c] = step]
  <2>1. CASE Recall(c)
    <3>1. pc[c] = "idle" /\ pc \in [Clients -> Steps]
      BY <2>1 DEF Recall, Serving, IndexShape
    <3>2. pc = [pc EXCEPT ![c] = "idle"]
      BY <3>1
    <3>3. QED BY <2>1, <3>2 DEF Recall, Goto, memoryVars
  <2>2. CASE AskProvider(c) \/ ReadVectors(c) \/ PairIds(c)
    BY <2>2 DEF AskProvider, ReadVectors, PairIds, Goto, memoryVars
  <2>3. QED BY <2>1, <2>2
<1>2. server # c
  <2>1. server \in Clients => pc[server] \in Writers
    BY DEF IndexShape
  <2>2. pc[c] \notin Writers
    BY DEF Recall, AskProvider, ReadVectors, PairIds, Serving, Writers, SyncSteps
  <2>3. QED BY <2>1, <2>2
<1>3. degraded' \in BOOLEAN /\ alone' \in Clients \union {Nobody}
  <2>1. degraded \in BOOLEAN /\ alone \in Clients \union {Nobody}
    BY DEF IndexShape, IndexTypeOK
  <2>2. CASE Recall(c) \/ ReadVectors(c) \/ AskProvider(c)
    BY <1>1, <2>1, <2>2 DEF Recall, ReadVectors, AskProvider
  <2>3. CASE PairIds(c)
    BY <1>1, <2>1, <2>3 DEF PairIds
  <2>4. QED BY <2>2, <2>3
<1>4. PICK step \in {"idle", "ask", "vectors", "ids"} : pc' = [pc EXCEPT ![c] = step]
  BY <1>1
<1>5. step \in Steps
  BY DEF Steps
<1>6. IndexShape'
  BY <1>1, <1>2, <1>3, <1>4, <1>5, MoveShape
<1>7. held' \in [Clients -> Seq(Vector)]
  <2>1. vectors \in Seq(Vector) /\ <<>> \in Seq(Vector) /\ held \in [Clients -> Seq(Vector)]
    BY DEF IndexShape, IndexTypeOK, MemoryTypeOK
  <2>2. QED BY <2>1 DEF Recall, AskProvider, ReadVectors, PairIds, memoryVars
<1>8. QED BY <1>1, <1>4, <1>6, <1>7 DEF MemoryTypeOK

LEMMA AssignShape ==
    ASSUME IndexShape, NEW c \in Clients, SyncAssign(c)
    PROVE  IndexShape' /\ pc' = [pc EXCEPT ![c] = "idle"]
<1>1. seen[c] \in Table
  BY DEF IndexShape, IndexTypeOK
<1>2. ids' \in Seq(Items) /\ vectors' \in Seq(Vector)
  BY <1>1, IndexOfRows DEF SyncAssign, Indexes
<1>3. QED BY <1>2, ReturnsShape DEF SyncAssign

LEMMA MemoryShapeStep ==
    ASSUME IndexShape, MemoryTypeOK, MemoryNext PROVE IndexShape' /\ MemoryTypeOK'
<1>1. ASSUME NEW c \in Clients, SyncMemories(c)
      PROVE  IndexShape' /\ MemoryTypeOK'
  <2>1. IndexShape' /\ \E step \in SyncSteps \union {"idle"} : pc' = [pc EXCEPT ![c] = step]
    BY <1>1, ListedTable, SyncShape, AssignShape DEF SyncMemories
  <2>2. UNCHANGED <<memory, held>>
    BY <1>1 DEF SyncMemories, memoryVars
  <2>3. QED BY <2>1, <2>2 DEF MemoryTypeOK
<1>2. CASE StopMemories
  <2>1. IndexShape'
    BY <1>2, StopShape DEF StopMemories
  <2>2. QED BY <1>2, <2>1 DEF StopMemories, Stop, MemoryTypeOK
<1>3. QED BY <1>1, <1>2, MemoryLoads, MemoryWrites, MemoryRecalls DEF MemoryNext

-----------------------------------------------------------------------------
(* Types: documents *)

\* What a file, a row or a card is made of, and what it is not.
LEMMA CardFacts ==
    /\ \A card \in Card : card.id \in Items /\ card.text \in Texts /\ card # NoCard
    /\ Missing # NoCard /\ {NoCard, Missing} \intersect Card = {} /\ Missing \notin Document
    /\ Nothing \notin Texts /\ Nothing \notin Range(Files)
    /\ Missing.source = Nothing /\ Missing.text = Nothing
    /\ \A row \in Document : row.source \in Range(Files) /\ row.text \in Texts
    /\ \A f \in Range(Files), t \in Texts : [source |-> f, text |-> t] \in Document
<1>1. Nothing \notin Texts /\ Nothing \notin Range(Files)
  BY NothingAssumption, DocumentAssumption DEF NothingAssumption, DocumentAssumption
<1>2. Missing # NoCard
  <2>1. "id" \in DOMAIN NoCard /\ "id" \notin DOMAIN Missing
    BY DEF NoCard, Missing
  <2>2. QED BY <2>1
<1>3. \A card \in Card : card.id \in Items /\ card.text \in Texts
  BY DEF Card
<1>4. NoCard.text = Nothing /\ Missing.text = Nothing /\ Missing.source = Nothing
  BY DEF NoCard, Missing
<1>5. \A row \in Document : row.source \in Range(Files) /\ row.text \in Texts
  BY DEF Document
<1>6. \A f \in Range(Files), t \in Texts : [source |-> f, text |-> t] \in Document
  BY DEF Document
<1>7. QED BY <1>1, <1>2, <1>3, <1>4, <1>5, <1>6

LEMMA ListedDocumentsTable == DocumentTypeOK => ListedDocuments \in Table
<1> SUFFICES ASSUME DocumentTypeOK PROVE ListedDocuments \in Table
  OBVIOUS
<1>1. \A i \in Active : i \in Items /\ documents[i].text \in Surfaces
  <2> SUFFICES ASSUME NEW i \in Active PROVE i \in Items /\ documents[i].text \in Surfaces
    OBVIOUS
  <2>1. i \in Items /\ documents[i] # Missing
    BY DEF Active, Existing
  <2>2. documents[i] \in Document
    BY <2>1 DEF DocumentTypeOK
  <2>3. QED BY <2>1, <2>2, CardFacts, DocumentAssumption DEF DocumentAssumption
<1>2. QED BY <1>1 DEF ListedDocuments, Table

\* The walk lists the files that are there.
LEMMA PresentFiles ==
    /\ Present \in Seq(Range(Files))
    /\ \A f \in Range(Files) : tree[f] # Missing => f \in Range(Present)
<1>1. /\ Files \in Seq(Range(Files))
      /\ \A f \in Range(Files) : \E n \in 1..Len(Files) : Files[n] = f
  <2>1. Files \in Seq(STRING) /\ Range(Files) = {Files[n] : n \in DOMAIN Files}
    BY DocumentAssumption DEF DocumentAssumption, Range
  <2>2. Len(Files) \in Nat /\ DOMAIN Files = 1..Len(Files) /\ Files = [n \in 1..Len(Files) |-> Files[n]]
    BY <2>1
  <2>3. \A n \in 1..Len(Files) : Files[n] \in Range(Files)
    BY <2>1, <2>2
  <2>4. Files \in Seq(Range(Files))
    BY <2>2, <2>3
  <2>5. QED BY <2>1, <2>2, <2>4
<1>2. Present \in Seq(Range(Files))
  BY <1>1, PickedFacts DEF Present
<1>3. ASSUME NEW f \in Range(Files), tree[f] # Missing
      PROVE  f \in Range(Present)
  <2>1. PICK n \in 1..Len(Files) : Files[n] = f
    BY <1>1
  <2> DEFINE S == {g \in Range(Files) : tree[g] # Missing}
  <2>2. Files[n] \in S /\ Present = Picked(Files, S)
    BY <1>3, <2>1 DEF Present
  <2> HIDE DEF S
  <2>3. PICK k \in 1..Len(Present) : Present[k] = f
    <3>1. Files \in Seq(Range(Files))
      BY <1>1
    <3>2. \A m \in 1..Len(Files) : Files[m] \in S =>
              \E k \in 1..Len(Picked(Files, S)) : Picked(Files, S)[k] = Files[m]
      BY <3>1, PickedFacts
    <3>3. QED BY <2>1, <2>2, <3>2
  <2>4. DOMAIN Present = 1..Len(Present)
    BY <1>2
  <2>5. QED BY <2>3, <2>4 DEF Range
<1>4. QED BY <1>2, <1>3

LEMMA WalkFacts ==
    ASSUME WalkShape, NEW c \in Clients
    PROVE  /\ todo[c] \in Seq(Range(Files))
           /\ todo[c] # <<>> => /\ Head(todo[c]) \in Range(Files)
                                /\ Tail(todo[c]) \in Seq(Range(Files))
           /\ pc[c] = "put" => todo[c] # <<>> /\ read[c] \in Card
<1>1. todo[c] \in Seq(Range(Files))
  BY DEF WalkShape, DocumentTypeOK
<1>2. todo[c] # <<>> => Head(todo[c]) \in Range(Files) /\ Tail(todo[c]) \in Seq(Range(Files))
  BY <1>1
<1>3. pc[c] = "put" => todo[c] # <<>> /\ read[c] \in Card
  BY DEF WalkShape, DocumentTypeOK
<1>4. QED BY <1>1, <1>2, <1>3

\* A step that moves one request, in the documents' store.
LEMMA WalkMoves ==
    ASSUME WalkShape, NEW c \in Clients, NEW step, pc' = [pc EXCEPT ![c] = step],
           step \in {"idle", "take", "put", "lexical", "dense", "ids", "vectors"} \union SyncSteps,
           UNCHANGED folderVars, rounds' \in 0..2,
           documents' \in [Items -> Document \union {Missing}],
           todo' \in [Clients -> Seq(Range(Files))], read' \in [Clients -> Card \union {NoCard}],
           found' \in [Clients -> SUBSET Items], known' \in [Clients -> SUBSET Items],
           taken' \in [Clients -> Seq(Items)], calm' \in [Clients -> BOOLEAN],
           \A d \in Clients \ {c} : todo'[d] = todo[d] /\ read'[d] = read[d],
           step = "put" => todo'[c] # <<>> /\ read'[c] # NoCard
    PROVE  WalkShape'
<1>1. /\ pc' \in [Clients -> {"idle", "take", "put", "lexical", "dense", "ids", "vectors"} \union SyncSteps]
      /\ pc'[c] = step /\ \A d \in Clients \ {c} : pc'[d] = pc[d]
  BY DEF WalkShape, DocumentTypeOK
<1>2. DocumentTypeOK'
  BY <1>1 DEF WalkShape, DocumentTypeOK, folderVars
<1>3. ASSUME NEW d \in Clients, pc'[d] = "put"
      PROVE  todo'[d] # <<>> /\ read'[d] # NoCard
  <2>1. CASE d = c
    BY <1>1, <1>3, <2>1
  <2>2. CASE d # c
    BY <1>1, <1>3, <2>2 DEF WalkShape
  <2>3. QED BY <2>1, <2>2
<1>4. QED BY <1>2, <1>3 DEF WalkShape

LEMMA ScanWalks ==
    ASSUME WalkShape, NEW c \in Clients, Scan(c) PROVE WalkShape'
<1>1. todo' \in [Clients -> Seq(Range(Files))] /\ \A d \in Clients \ {c} : todo'[d] = todo[d]
  BY PresentFiles DEF Scan, WalkShape, DocumentTypeOK
<1>2. found' \in [Clients -> SUBSET Items]
  BY DEF Scan, WalkShape, DocumentTypeOK
<1>3. /\ read' = read /\ known' = known /\ taken' = taken /\ calm' = calm
      /\ documents' = documents /\ rounds' = rounds /\ UNCHANGED folderVars
      /\ pc' = [pc EXCEPT ![c] = "take"]
  BY DEF Scan, Goto, recallVars
<1>4. /\ taken \in [Clients -> Seq(Items)] /\ read \in [Clients -> Card \union {NoCard}] /\ known \in [Clients -> SUBSET Items]
      /\ calm \in [Clients -> BOOLEAN] /\ rounds \in 0..2
      /\ documents \in [Items -> Document \union {Missing}]
  BY DEF WalkShape, DocumentTypeOK
<1>5. QED BY <1>1, <1>2, <1>3, <1>4, WalkMoves

LEMMA DocumentLoads ==
    ASSUME IndexShape, WalkShape, NEW c \in Clients, LoadDocuments(c) \/ Ingest(c)
    PROVE  IndexShape' /\ WalkShape'
<1>1. CASE LoadDocuments(c)
  <2>1. /\ Indexes(Rows(Items)) /\ UNCHANGED <<embeddings, wanted, cached, seen>>
        /\ degraded' = FALSE
    BY <1>1 DEF LoadDocuments, Load
  <2>2. /\ wanted' \in [Clients -> Table] /\ cached' \in [Clients -> Table]
        /\ seen' \in [Clients -> Table] /\ Rows(Items) \in Table
    BY <2>1, RowsTable DEF IndexShape, IndexTypeOK
  <2>3. CASE Scan(c) /\ server' = c /\ alone' = c
    <3>1. "take" \in Steps /\ "take" \in Writers
      BY DEF Steps, Writers
    <3>2. pc' \in [Clients -> Steps] /\ pc'[c] \in Writers
      BY <2>3, <3>1 DEF Scan, Goto, IndexShape
    <3>3. QED BY <2>1, <2>2, <2>3, <3>2, ReplaceShape, ScanWalks
  <2>4. CASE server' = "up" /\ UNCHANGED <<pc, alone, documentVars>>
    <3>1. pc' \in [Clients -> Steps] /\ alone' \in Clients \union {Nobody} /\ "up" \notin Clients
      BY <2>4, NothingAssumption DEF IndexShape, IndexTypeOK
    <3>2. IndexShape'
      BY <2>1, <2>2, <2>4, <3>1, ReplaceShape
    <3>3. QED BY <2>4, <3>2
          DEF WalkShape, DocumentTypeOK, documentVars, folderVars, walkVars, recallVars
  <2>5. QED BY <1>1, <2>3, <2>4 DEF LoadDocuments
<1>2. CASE Ingest(c)
  <2>1. /\ UNCHANGED <<embeddings, ids, vectors, degraded, server, wanted, cached, seen>>
        /\ alone' \in Clients \union {Nobody} /\ degraded' \in BOOLEAN
    BY <1>2, BeginsType DEF Ingest, IndexShape, IndexTypeOK
  <2>2. Scan(c) /\ pc' = [pc EXCEPT ![c] = "take"] /\ "take" \in Steps /\ "take" \in Writers
    BY <1>2 DEF Ingest, Scan, Goto, Steps, Writers
  <2>3. QED BY <2>1, <2>2, MoveShape, ScanWalks
<1>3. QED BY <1>1, <1>2

LEMMA AbortsWalk ==
    ASSUME IndexShape, WalkShape, NEW c \in Clients, Aborts(c)
    PROVE  IndexShape' /\ WalkShape'
<1>1. IndexShape'
  BY DiesShape DEF Aborts
<1>2. /\ todo' \in [Clients -> Seq(Range(Files))] /\ \A d \in Clients \ {c} : todo'[d] = todo[d]
      /\ read' \in [Clients -> Card \union {NoCard}]
      /\ \A d \in Clients \ {c} : read'[d] = read[d]
      /\ found' \in [Clients -> SUBSET Items]
  BY DEF Aborts, WalkShape, DocumentTypeOK
<1>3. /\ UNCHANGED <<known, taken, calm, documents, rounds, folderVars>>
      /\ pc' = [pc EXCEPT ![c] = "idle"]
  BY DEF Aborts, Dies, Goto, recallVars
<1>4. /\ known \in [Clients -> SUBSET Items] /\ taken \in [Clients -> Seq(Items)]
      /\ calm \in [Clients -> BOOLEAN] /\ rounds \in 0..2
      /\ documents \in [Items -> Document \union {Missing}]
  BY DEF WalkShape, DocumentTypeOK
<1>5. QED BY <1>1, <1>2, <1>3, <1>4, WalkMoves

\* The request that is walking may be the one that loads.
LEMMA DocumentTakes ==
    ASSUME IndexShape, WalkShape, NEW c \in Clients, TakeFile(c)
    PROVE  IndexShape' /\ WalkShape'
<1> DEFINE card == tree[Head(todo[c])]
<1>1. todo[c] # <<>> /\ card \in Card \union {NoCard, Missing}
  BY WalkFacts DEF TakeFile, WalkShape, DocumentTypeOK
<1>2. CASE Aborts(c)
  BY <1>2, AbortsWalk
<1>3. CASE /\ todo' = [todo EXCEPT ![c] = Tail(@)]
           /\ UNCHANGED <<indexVars, folderVars, documents, read, found, rounds, recallVars>>
  <2>1. todo' \in [Clients -> Seq(Range(Files))] /\ pc[c] = "take"
    BY <1>1, <1>3, WalkFacts DEF TakeFile, WalkShape, DocumentTypeOK
  <2>2. IndexShape'
    BY <1>3 DEF indexVars, IndexShape, IndexTypeOK
  <2>3. DocumentTypeOK'
    BY <1>3, <2>1 DEF indexVars, folderVars, recallVars, WalkShape, DocumentTypeOK
  <2>4. \A d \in Clients : pc'[d] = "put" => todo'[d] # <<>> /\ read'[d] # NoCard
    BY <1>3, <2>1 DEF indexVars, WalkShape, DocumentTypeOK
  <2>5. QED BY <2>2, <2>3, <2>4 DEF WalkShape
<1>4. CASE /\ card \notin {Missing, NoCard} /\ read' = [read EXCEPT ![c] = card] /\ Goto(c, "put")
           /\ UNCHANGED <<embeddings, ids, vectors, degraded, server, wanted, cached, seen,
                          alone, folderVars, documents, todo, found, rounds, recallVars>>
  <2>1. /\ pc' = [pc EXCEPT ![c] = "put"] /\ "put" \in Steps /\ "put" \in Writers
        /\ degraded' \in BOOLEAN /\ alone' \in Clients \union {Nobody}
    BY <1>4 DEF Goto, Steps, Writers, IndexShape, IndexTypeOK
  <2>2. IndexShape'
    BY <1>4, <2>1, MoveShape
  <2>3. card \in Card /\ card # NoCard
    BY <1>1, <1>4
  <2>4. read' \in [Clients -> Card \union {NoCard}] /\ read'[c] # NoCard
        /\ \A d \in Clients \ {c} : read'[d] = read[d]
    <3> HIDE DEF card
    <3>1. QED BY <1>4, <2>3 DEF WalkShape, DocumentTypeOK
  <2>5. /\ known \in [Clients -> SUBSET Items] /\ found \in [Clients -> SUBSET Items]
        /\ taken \in [Clients -> Seq(Items)]
        /\ calm \in [Clients -> BOOLEAN] /\ rounds \in 0..2
        /\ documents \in [Items -> Document \union {Missing}]
        /\ todo \in [Clients -> Seq(Range(Files))]
    BY DEF WalkShape, DocumentTypeOK
  <2>6. todo'[c] # <<>> /\ UNCHANGED <<known, taken, calm>>
    BY <1>1, <1>4 DEF recallVars
  <2>7. WalkShape'
    BY <1>4, <2>1, <2>4, <2>5, <2>6, WalkMoves
  <2>8. QED BY <2>2, <2>7
<1>5. QED BY <1>2, <1>3, <1>4 DEF TakeFile

\* The row a card is written to: its id is one of the items.
LEMMA TargetItems ==
    ASSUME WalkShape, NEW c \in Clients, pc[c] = "put"
    PROVE  Target(c) \subseteq Items
BY WalkFacts, CardFacts DEF Target, RowsOf, Existing

LEMMA DocumentPuts ==
    ASSUME IndexShape, WalkShape, NEW c \in Clients, PutCard(c)
    PROVE  IndexShape' /\ WalkShape'
<1>1. CASE Aborts(c)
  BY <1>1, AbortsWalk
<1>2. CASE ~Aborts(c)
  <2> DEFINE row == [source |-> Head(todo[c]), text |-> read[c].text]
  <2>1. /\ pc[c] = "put"
        /\ \E i \in Target(c) : documents' = [documents EXCEPT ![i] = row]
        /\ found' = [found EXCEPT ![c] = @ \union {read[c].id}]
        /\ todo' = [todo EXCEPT ![c] = Tail(@)]
        /\ read' = [read EXCEPT ![c] = NoCard]
        /\ calm' = [d \in Clients |-> pc[d] # "lexical"]
        /\ pc' = [pc EXCEPT ![c] = "take"]
        /\ UNCHANGED <<embeddings, ids, vectors, degraded, server, wanted, cached, seen,
                       alone, folderVars, known, taken, rounds>>
    BY <1>2 DEF PutCard, Goto
  <2>2. row \in Document /\ read[c].id \in Items
    BY <2>1, WalkFacts, CardFacts
  <2> HIDE DEF row
  <2>3. documents' \in [Items -> Document \union {Missing}]
    BY <2>1, <2>2, TargetItems DEF WalkShape, DocumentTypeOK
  <2>4. /\ todo' \in [Clients -> Seq(Range(Files))] /\ \A d \in Clients \ {c} : todo'[d] = todo[d]
        /\ read' \in [Clients -> Card \union {NoCard}]
        /\ \A d \in Clients \ {c} : read'[d] = read[d]
    BY <2>1, WalkFacts DEF WalkShape, DocumentTypeOK
  <2>5. found' \in [Clients -> SUBSET Items] /\ calm' \in [Clients -> BOOLEAN]
    BY <2>1, <2>2 DEF WalkShape, DocumentTypeOK
  <2>6. known \in [Clients -> SUBSET Items] /\ taken \in [Clients -> Seq(Items)] /\ rounds \in 0..2
    BY DEF WalkShape, DocumentTypeOK
  <2>7. WalkShape'
    BY <2>1, <2>3, <2>4, <2>5, <2>6, WalkMoves
  <2>8. /\ "take" \in Steps /\ "take" \in Writers
        /\ degraded' \in BOOLEAN /\ alone' \in Clients \union {Nobody}
    BY <2>1 DEF Steps, Writers, IndexShape, IndexTypeOK
  <2>9. IndexShape'
    BY <2>1, <2>8, MoveShape
  <2>10. QED BY <2>7, <2>9
<1>3. QED BY <1>1, <1>2

LEMMA DocumentPrunes ==
    ASSUME IndexShape, WalkShape, NEW c \in Clients, Prune(c)
    PROVE  IndexShape' /\ WalkShape'
<1>1. pc' = [pc EXCEPT ![c] = "list"] /\ "list" \in SyncSteps
  BY DEF Prune, EndsWalk, Goto, SyncSteps
<1>2. documents' \in [Items -> Document \union {Missing}]
  BY DEF Prune, Delete, WalkShape, DocumentTypeOK
<1>3. found' \in [Clients -> SUBSET Items] /\ calm' \in [Clients -> BOOLEAN]
  BY DEF Prune, EndsWalk, recallVars, WalkShape, DocumentTypeOK
<1>4. rounds' \in 0..2
  BY DEF Prune, EndsWalk, WalkShape, DocumentTypeOK
<1>5. /\ UNCHANGED <<todo, read, known, taken, folderVars>>
      /\ UNCHANGED <<ids, vectors, degraded, server, wanted, cached, seen, alone>>
  BY DEF Prune, EndsWalk, recallVars
<1>6. /\ known \in [Clients -> SUBSET Items] /\ todo \in [Clients -> Seq(Range(Files))]
      /\ taken \in [Clients -> Seq(Items)] /\ read \in [Clients -> Card \union {NoCard}]
  BY DEF WalkShape, DocumentTypeOK
<1>7. WalkShape'
  <2>1. "list" # "put"
    OBVIOUS
  <2>2. QED BY <1>1, <1>2, <1>3, <1>4, <1>5, <1>6, <2>1, WalkMoves
<1>8. embeddings' \in Table
  BY DEF Prune, Delete, IndexShape, IndexTypeOK, Table
<1>9. pc' \in [Clients -> Steps] /\ (server \in Clients => pc'[server] \in Writers)
  BY <1>1 DEF IndexShape, Steps, Writers
<1>10. IndexShape'
  <2>1. IndexTypeOK'
    BY <1>5, <1>8, <1>9 DEF IndexShape, IndexTypeOK, Writers, SyncSteps
  <2>2. QED BY <1>5, <1>9, <2>1 DEF IndexShape
<1>11. QED BY <1>7, <1>10

\* The two halves of a store of the index.
LEMMA HalvesShape ==
    ASSUME IndexShape, NEW c \in Clients, AssignIds(c) \/ CompleteIndex(c)
    PROVE  IndexShape' /\ \E step \in {"complete", "idle"} : pc' = [pc EXCEPT ![c] = step]
<1>1. seen[c] \in Table /\ ids \in Seq(Items) /\ vectors \in Seq(Vector)
  BY DEF IndexShape, IndexTypeOK
<1>2. IdsOf(seen[c]) \in Seq(Items) /\ VectorsOf(seen[c]) \in Seq(Vector)
  BY <1>1, IndexOfRows
<1>3. CASE AssignIds(c)
  <2>1. /\ pc' = [pc EXCEPT ![c] = "complete"] /\ ids' \in Seq(Items)
        /\ UNCHANGED <<embeddings, vectors, degraded, server, wanted, cached, seen, alone>>
    BY <1>2, <1>3 DEF AssignIds, Goto
  <2>2. pc' \in [Clients -> Steps] /\ (server \in Clients => pc'[server] \in Writers)
    BY <2>1 DEF IndexShape, Steps, Writers, SyncSteps
  <2>3. QED BY <2>1, <2>2 DEF IndexShape, IndexTypeOK, Writers, SyncSteps
<1>4. CASE CompleteIndex(c)
  <2>1. ids' \in Seq(Items) /\ vectors' \in Seq(Vector)
    BY <1>1, <1>2, <1>4 DEF CompleteIndex
  <2>2. QED BY <1>4, <2>1, ReturnsShape DEF CompleteIndex
<1>5. QED BY <1>3, <1>4

LEMMA DocumentSyncs ==
    ASSUME IndexShape, WalkShape, NEW c \in Clients, SyncDocuments(c)
    PROVE  IndexShape' /\ WalkShape'
<1>1. IndexShape' /\ \E step \in SyncSteps \union {"idle"} : pc' = [pc EXCEPT ![c] = step]
  <2>1. CASE AssignIds(c) \/ CompleteIndex(c)
    BY <2>1, HalvesShape DEF SyncSteps
  <2>2. QED BY <2>1, ListedDocumentsTable, SyncShape DEF SyncDocuments, WalkShape
<1>2. UNCHANGED documentVars
  BY DEF SyncDocuments
<1>3. PICK step \in SyncSteps \union {"idle"} : pc' = [pc EXCEPT ![c] = step]
  BY <1>1
<1>4. step # "put"
  BY DEF SyncSteps
<1>5. /\ UNCHANGED folderVars /\ documents' = documents /\ todo' = todo /\ read' = read
      /\ found' = found /\ known' = known /\ taken' = taken /\ rounds' = rounds /\ calm' = calm
  BY <1>2 DEF documentVars, walkVars, recallVars
<1>6. /\ known \in [Clients -> SUBSET Items] /\ found \in [Clients -> SUBSET Items]
      /\ taken \in [Clients -> Seq(Items)]
      /\ calm \in [Clients -> BOOLEAN] /\ rounds \in 0..2
      /\ documents \in [Items -> Document \union {Missing}]
      /\ todo \in [Clients -> Seq(Range(Files))] /\ read \in [Clients -> Card \union {NoCard}]
  BY DEF WalkShape, DocumentTypeOK
<1>7. QED BY <1>1, <1>3, <1>4, <1>5, <1>6, WalkMoves

\* A step of a recall of documents.
Answering(c) ==
    RecallDocuments(c) \/ Lexical(c) \/ Dense(c) \/ TakeIds(c) \/ PairVectors(c)

LEMMA DocumentRecalls ==
    ASSUME IndexShape, WalkShape, NEW c \in Clients, Answering(c)
    PROVE  IndexShape' /\ WalkShape'
<1>1. /\ UNCHANGED <<embeddings, ids, vectors, server, wanted, cached, seen, alone>>
      /\ UNCHANGED <<folderVars, documents, todo, read, found, rounds>>
      /\ \E step \in {"lexical", "dense", "ids", "vectors", "idle"} :
             pc' = [pc EXCEPT ![c] = step]
  BY DEF Answering, RecallDocuments, AnswersFrom, Lexical, Dense, TakeIds, PairVectors, Ends, Goto,
         walkVars
<1>2. known' \in [Clients -> SUBSET Items] /\ calm' \in [Clients -> BOOLEAN]
  <2>1. Active \subseteq Items
    BY DEF Active, Existing
  <2>2. known \in [Clients -> SUBSET Items] /\ calm \in [Clients -> BOOLEAN]
    BY DEF WalkShape, DocumentTypeOK
  <2>3. QED BY <2>1, <2>2 DEF Answering, RecallDocuments, AnswersFrom, Lexical, Dense, TakeIds,
                              PairVectors, Ends, recallVars
<1>3. taken' \in [Clients -> Seq(Items)]
  <2>1. taken \in [Clients -> Seq(Items)] /\ ids \in Seq(Items) /\ <<>> \in Seq(Items)
    BY DEF WalkShape, DocumentTypeOK, IndexShape, IndexTypeOK
  <2>2. QED BY <2>1 DEF Answering, RecallDocuments, AnswersFrom, Lexical, Dense, TakeIds,
                        PairVectors, Ends, recallVars
<1>4. degraded' \in BOOLEAN /\ alone' \in Clients \union {Nobody}
  <2>1. degraded \in BOOLEAN /\ alone \in Clients \union {Nobody} /\ alone' = alone
    BY <1>1 DEF IndexShape, IndexTypeOK
  <2>2. CASE PairVectors(c)
    BY <2>1, <2>2 DEF PairVectors
  <2>3. CASE ~PairVectors(c)
    BY <2>1, <2>3 DEF Answering, RecallDocuments, AnswersFrom, Lexical, Dense, TakeIds
  <2>4. QED BY <2>2, <2>3
<1>5. server # c
  BY DEF Answering, RecallDocuments, AnswersFrom, Lexical, Dense, TakeIds, PairVectors, Serving,
         Writers, SyncSteps, IndexShape
<1>6. PICK step \in {"lexical", "dense", "ids", "vectors", "idle"} : pc' = [pc EXCEPT ![c] = step]
  BY <1>1
<1>7. step \in Steps /\ step # "put"
  BY DEF Steps
<1>8. IndexShape'
  BY <1>1, <1>4, <1>5, <1>6, <1>7, MoveShape
<1>9. /\ found \in [Clients -> SUBSET Items] /\ rounds \in 0..2
      /\ documents \in [Items -> Document \union {Missing}]
      /\ todo \in [Clients -> Seq(Range(Files))] /\ read \in [Clients -> Card \union {NoCard}]
  BY DEF WalkShape, DocumentTypeOK
<1>10. WalkShape'
  BY <1>1, <1>2, <1>3, <1>6, <1>7, <1>9, WalkMoves
<1>11. QED BY <1>8, <1>10

\* What somebody may leave in a file.
LEMMA EditedFile ==
    ASSUME NEW f \in Range(Files), NEW content \in Contents(f)
    PROVE  content \in Card \union {NoCard, Missing}
<1>1. CardsOf[f] \subseteq Card
  BY DocumentAssumption DEF DocumentAssumption, Card
<1>2. QED BY <1>1 DEF Contents

LEMMA EditedTree ==
    ASSUME WalkShape, Edit
    PROVE  /\ tree' \in [Range(Files) -> Card \union {NoCard, Missing}] /\ rooted' \in BOOLEAN
           /\ ~rooted' => tree' = [f \in Range(Files) |-> Missing]
<1>1. /\ tree \in [Range(Files) -> Card \union {NoCard, Missing}] /\ rooted \in BOOLEAN
      /\ ~rooted => tree = [f \in Range(Files) |-> Missing]
  BY DEF WalkShape, DocumentTypeOK
<1>2. ASSUME NEW f \in Range(Files), NEW content \in Contents(f),
             tree' = [tree EXCEPT ![f] = content], rooted' = (rooted \/ content # Missing)
      PROVE  /\ tree' \in [Range(Files) -> Card \union {NoCard, Missing}] /\ rooted' \in BOOLEAN
             /\ ~rooted' => tree' = [g \in Range(Files) |-> Missing]
  <2>1. content \in Card \union {NoCard, Missing}
    BY EditedFile
  <2>2. QED BY <1>1, <1>2, <2>1
<1>3. ASSUME NEW f \in Range(Files), NEW g \in Range(Files), tree[f] \in Contents(g) \ {Missing},
             tree' = [tree EXCEPT ![f] = Missing, ![g] = tree[f]], UNCHANGED rooted
      PROVE  /\ tree' \in [Range(Files) -> Card \union {NoCard, Missing}] /\ rooted' \in BOOLEAN
             /\ ~rooted' => tree' = [h \in Range(Files) |-> Missing]
  BY <1>1, <1>3
<1>4. CASE rooted' = FALSE /\ tree' = [f \in Range(Files) |-> Missing]
  BY <1>4
<1>5. QED BY <1>2, <1>3, <1>4 DEF Edit

LEMMA DocumentEnds ==
    ASSUME IndexShape, WalkShape, Edit \/ StopDocuments
    PROVE  IndexShape' /\ WalkShape'
<1>1. CASE Edit
  <2>1. /\ tree' \in [Range(Files) -> Card \union {NoCard, Missing}] /\ rooted' \in BOOLEAN
        /\ ~rooted' => tree' = [f \in Range(Files) |-> Missing]
    BY <1>1, EditedTree
  <2>2. edits' \in 0..MaxEdits /\ rounds' \in 0..2
    <3>1. edits \in 0..MaxEdits /\ edits < MaxEdits /\ edits' = edits + 1 /\ rounds' = 0
      BY <1>1 DEF Edit, WalkShape, DocumentTypeOK
    <3>2. MaxEdits \in Nat
      BY DocumentAssumption DEF DocumentAssumption
    <3>3. QED BY <3>1, <3>2
  <2>3. /\ UNCHANGED <<embeddings, ids, vectors, degraded, server, pc, wanted, cached, seen,
                       documents, todo, read, found, known, taken, calm>>
        /\ alone' = Nobody
    BY <1>1 DEF Edit, recallVars
  <2>4. WalkShape'
    BY <2>1, <2>2, <2>3 DEF WalkShape, DocumentTypeOK
  <2>5. IndexShape'
    BY <2>3 DEF IndexShape, IndexTypeOK
  <2>6. QED BY <2>4, <2>5
<1>2. CASE StopDocuments
  <2>1. IndexShape'
    BY <1>2, StopShape DEF StopDocuments
  <2>2. <<>> \in Seq(Range(Files)) /\ <<>> \in Seq(Items)
    OBVIOUS
  <2>3. /\ pc' = [c \in Clients |-> "idle"] /\ todo' = [c \in Clients |-> <<>>]
        /\ read' = [c \in Clients |-> NoCard] /\ found' = [c \in Clients |-> {}]
        /\ known' = [c \in Clients |-> {}] /\ calm' = [c \in Clients |-> TRUE]
        /\ taken' = [c \in Clients |-> <<>>]
        /\ UNCHANGED <<rooted, tree, edits, documents, rounds>>
    BY <1>2 DEF StopDocuments, Stop, folderVars
  <2>4. /\ pc' \in [Clients -> {"idle", "take", "put", "lexical", "dense", "ids", "vectors"}
                               \union SyncSteps]
        /\ \A c \in Clients : pc'[c] = "idle"
        /\ todo' \in [Clients -> Seq(Range(Files))] /\ read' \in [Clients -> Card \union {NoCard}]
        /\ found' \in [Clients -> SUBSET Items] /\ known' \in [Clients -> SUBSET Items]
        /\ taken' \in [Clients -> Seq(Items)] /\ calm' \in [Clients -> BOOLEAN]
    BY <2>2, <2>3, Zenon
  <2>5. WalkShape'
    BY <2>3, <2>4 DEF WalkShape, DocumentTypeOK
  <2>6. QED BY <2>1, <2>5
<1>3. QED BY <1>1, <1>2

-----------------------------------------------------------------------------
(* Types: the composition *)

LEMMA ShapeStart == Init => Shape
<1> SUFFICES ASSUME Init PROVE Shape
  OBVIOUS
<1>1. IndexShape
  BY IndexStart DEF Init
<1>2. MemoryTypeOK
  <2>1. pc = [c \in Clients |-> "idle"] /\ held = [c \in Clients |-> <<>>]
    BY DEF Init, IndexInit, MemoryInit
  <2>2. <<>> \in Seq(Vector)
    OBVIOUS
  <2>3. /\ pc \in [Clients -> {"idle", "ask", "vectors", "ids"} \union SyncSteps]
        /\ held \in [Clients -> Seq(Vector)]
    BY <2>1, <2>2, Zenon
  <2>4. memory \in [Items -> {"absent", "active", "superseded", "inactive"}]
    BY DEF Init, MemoryInit
  <2>5. QED BY <2>3, <2>4 DEF MemoryTypeOK
<1>3. WalkShape
  <2>1. /\ pc = [c \in Clients |-> "idle"] /\ todo = [c \in Clients |-> <<>>]
        /\ read = [c \in Clients |-> NoCard] /\ found = [c \in Clients |-> {}]
        /\ known = [c \in Clients |-> {}] /\ calm = [c \in Clients |-> TRUE]
        /\ taken = [c \in Clients |-> <<>>] /\ documents = [i \in Items |-> Missing]
    BY DEF Init, IndexInit, DocumentInit
  <2>2. <<>> \in Seq(Range(Files)) /\ <<>> \in Seq(Items)
    OBVIOUS
  <2>3. /\ pc \in [Clients -> {"idle", "take", "put", "lexical", "dense", "ids", "vectors"}
                              \union SyncSteps]
        /\ \A c \in Clients : pc[c] = "idle"
        /\ todo \in [Clients -> Seq(Range(Files))] /\ read \in [Clients -> Card \union {NoCard}]
        /\ found \in [Clients -> SUBSET Items] /\ known \in [Clients -> SUBSET Items]
        /\ taken \in [Clients -> Seq(Items)] /\ calm \in [Clients -> BOOLEAN]
        /\ documents \in [Items -> Document \union {Missing}]
    BY <2>1, <2>2, Zenon
  <2>4. /\ rooted \in BOOLEAN /\ \E T : tree \in [Range(Files) -> T]
        /\ \A f \in Range(Files) : tree[f] \in IF rooted THEN Contents(f) ELSE {Missing}
    BY DEF Init, DocumentInit
  <2>5. tree = [f \in Range(Files) |-> tree[f]]
    BY <2>4
  <2>6. \A f \in Range(Files) : tree[f] \in Card \union {NoCard, Missing}
    BY <2>4, EditedFile
  <2>7. /\ tree \in [Range(Files) -> Card \union {NoCard, Missing}]
        /\ ~rooted => tree = [f \in Range(Files) |-> Missing]
    BY <2>4, <2>5, <2>6
  <2>8. edits \in 0..MaxEdits /\ rounds \in 0..2
    <3>1. MaxEdits \in Nat
      BY DocumentAssumption DEF DocumentAssumption
    <3>2. 0 \in 0..MaxEdits /\ 0 \in 0..2
      BY <3>1
    <3>3. QED BY <3>2 DEF Init, DocumentInit
  <2>9. QED BY <2>3, <2>4, <2>7, <2>8 DEF WalkShape, DocumentTypeOK
<1>4. rounds = 0 /\ \A i \in Items : documents[i] = Missing
  BY DEF Init, DocumentInit
<1>5. QED BY <1>1, <1>2, <1>3, <1>4 DEF Shape, MemoryShape, DocumentShape

LEMMA DocumentShapeStep ==
    ASSUME IndexShape, WalkShape, DocumentNext PROVE IndexShape' /\ WalkShape'
BY DocumentLoads, DocumentTakes, DocumentPuts, DocumentPrunes, DocumentSyncs, DocumentRecalls,
   DocumentEnds DEF DocumentNext, Answering

LEMMA ShapeStep == Shape /\ [Next]_vars => Shape'
<1> SUFFICES ASSUME Shape, [Next]_vars PROVE Shape'
  OBVIOUS
<1>1. ASSUME UNCHANGED <<indexVars, documentVars, store>>,
             UNCHANGED memoryVars
      PROVE  Shape'
  <2>1. IndexShape'
    BY <1>1 DEF indexVars, Shape, IndexShape, IndexTypeOK
  <2>2. MemoryShape'
    BY <1>1 DEF indexVars, memoryVars, Shape, MemoryShape, MemoryTypeOK
  <2>3. DocumentShape'
    BY <1>1 DEF indexVars, documentVars, folderVars, walkVars, recallVars, Shape, DocumentShape,
                WalkShape, DocumentTypeOK
  <2>4. QED BY <2>1, <2>2, <2>3 DEF Shape
<1>2. CASE NextMemories
  <2>1. /\ store = "memories" /\ store' = store /\ UNCHANGED documentVars
        /\ IndexShape' /\ MemoryTypeOK'
    BY <1>2, MemoryShapeStep DEF NextMemories, Shape, MemoryShape
  <2>2. DocumentShape'
    BY <2>1 DEF documentVars, walkVars, Shape, DocumentShape
  <2>3. QED BY <2>1, <2>2 DEF Shape, MemoryShape
<1>3. CASE NextDocuments
  <2>1. store = "documents" /\ store' = store /\ IndexShape' /\ WalkShape'
    BY <1>3, DocumentShapeStep DEF NextDocuments, Shape, DocumentShape
  <2>2. QED BY <2>1 DEF Shape, MemoryShape, DocumentShape
<1>4. QED BY <1>1, <1>2, <1>3 DEF Next, NextPackets, NextLoad, vars

\* The types of table and index hold in every store, and those of memories and
\* documents in a behaviour that follows them.
RecallTypeOK ==
    /\ IndexTypeOK
    /\ store = "memories" => MemoryTypeOK
    /\ store = "documents" => DocumentTypeOK

\* The index, the memories, the documents and what each request has read have
\* their types.
THEOREM StoreTypesCorrect == Spec => []RecallTypeOK
<1>1. Shape => RecallTypeOK
  BY DEF Shape, IndexShape, MemoryShape, DocumentShape, WalkShape, RecallTypeOK
<1>2. QED BY <1>1, ShapeStart, ShapeStep, PTL DEF Spec

-----------------------------------------------------------------------------
(* A recall that no ingestion has disturbed answers *)

\* What a recall has listed stays complete while it is calm.
LEMMA CalmAnswers ==
    ASSUME WalkShape, LoneRecallAnswers, NEW c \in Clients, NEW step, step # "lexical",
           pc' = [pc EXCEPT ![c] = step], UNCHANGED known,
           \/ Active' \subseteq Active /\ UNCHANGED calm
           \/ calm' = [d \in Clients |-> pc[d] # "lexical"]
    PROVE  LoneRecallAnswers'
<1> SUFFICES ASSUME NEW d \in Clients, pc'[d] = "lexical", calm'[d]
             PROVE  Active' \subseteq known'[d]
  BY DEF LoneRecallAnswers
<1>1. pc[d] = "lexical"
  BY DEF WalkShape, DocumentTypeOK
<1>2. Active' \subseteq Active /\ UNCHANGED calm
  BY <1>1
<1>3. QED BY <1>1, <1>2 DEF LoneRecallAnswers

LEMMA AnswersStep == Shape /\ LoneRecallAnswers /\ [Next]_vars => LoneRecallAnswers'
<1> SUFFICES ASSUME Shape, LoneRecallAnswers, [Next]_vars PROVE LoneRecallAnswers'
  OBVIOUS
<1>1. CASE store # "documents"
  <2>1. store' # "documents" /\ Shape'
    BY <1>1, ShapeStep DEF Next, NextMemories, NextDocuments, NextPackets, NextLoad, vars
  <2>2. Active' = {}
    BY <2>1 DEF Shape, DocumentShape, Active, Existing
  <2>3. QED BY <2>2 DEF LoneRecallAnswers
<1>2. CASE store = "documents" /\ UNCHANGED vars
  <2>1. UNCHANGED <<pc, documents, calm, known>>
    BY <1>2 DEF vars, indexVars, documentVars, walkVars, recallVars
  <2>2. Active' = Active
    BY <2>1 DEF Active, Existing
  <2>3. QED BY <2>1, <2>2 DEF LoneRecallAnswers
<1>3. CASE store = "documents" /\ DocumentNext
  <2>1. WalkShape
    BY <1>3 DEF Shape, DocumentShape
  <2>2. ASSUME NEW c \in Clients,
               LoadDocuments(c) \/ Ingest(c) \/ TakeFile(c) \/ PutCard(c)
        PROVE  LoneRecallAnswers'
    <3>1. UNCHANGED known
      BY <2>2 DEF LoadDocuments, Ingest, Scan, TakeFile, PutCard, Aborts, documentVars, recallVars
    <3>2. UNCHANGED <<documents, calm>> \/ calm' = [d \in Clients |-> pc[d] # "lexical"]
      BY <2>2 DEF LoadDocuments, Ingest, Scan, TakeFile, PutCard, Aborts, documentVars, walkVars,
                  recallVars
    <3>3. UNCHANGED documents => Active' = Active
      BY DEF Active, Existing
    <3>4. \/ \E step \in {"take", "put", "idle"} : pc' = [pc EXCEPT ![c] = step]
          \/ UNCHANGED <<pc, documents, calm>>
      BY <2>2 DEF LoadDocuments, Ingest, Scan, TakeFile, PutCard, Aborts, Dies, Goto, indexVars,
                  documentVars, walkVars, recallVars
    <3>5. CASE UNCHANGED <<pc, documents, calm>>
      BY <3>1, <3>3, <3>5 DEF LoneRecallAnswers
    <3>6. QED BY <2>1, <3>1, <3>2, <3>3, <3>4, <3>5, CalmAnswers
  <2>3. ASSUME NEW c \in Clients, Prune(c)
        PROVE  LoneRecallAnswers'
    <3>1. Active' \subseteq Active
      BY <2>3 DEF Prune, Delete, Active, Existing
    <3>2. UNCHANGED <<calm, known>> /\ pc' = [pc EXCEPT ![c] = "list"]
      BY <2>3 DEF Prune, EndsWalk, Goto, recallVars
    <3>3. QED BY <2>1, <3>1, <3>2, CalmAnswers
  <2>4. ASSUME NEW c \in Clients, SyncDocuments(c)
        PROVE  LoneRecallAnswers'
    <3>1. \E step \in SyncSteps \union {"idle"} : pc' = [pc EXCEPT ![c] = step]
      <4>1. IndexShape
        BY DEF Shape
      <4>2. CASE AssignIds(c) \/ CompleteIndex(c)
        BY <4>1, <4>2, HalvesShape DEF SyncSteps
      <4>3. QED BY <2>1, <2>4, <4>1, <4>2, ListedDocumentsTable, SyncShape
            DEF SyncDocuments, WalkShape
    <3>2. UNCHANGED <<documents, calm, known>>
      BY <2>4 DEF SyncDocuments, documentVars, walkVars, recallVars
    <3>3. Active' = Active
      BY <3>2 DEF Active, Existing
    <3>4. "lexical" \notin SyncSteps \union {"idle"}
      BY DEF SyncSteps
    <3>5. QED BY <2>1, <3>1, <3>2, <3>3, <3>4, CalmAnswers
  <2>5. ASSUME NEW c \in Clients, Answering(c)
        PROVE  LoneRecallAnswers'
    <3>1. UNCHANGED documents /\ Active' = Active
      BY <2>5 DEF Answering, RecallDocuments, AnswersFrom, Lexical, Dense, TakeIds, PairVectors,
                  walkVars, Active, Existing
    <3>2. \A d \in Clients \ {c} : /\ pc'[d] = pc[d] /\ calm'[d] = calm[d]
                                    /\ known'[d] = known[d]
      BY <2>1, <2>5
      DEF Answering, RecallDocuments, AnswersFrom, Lexical, Dense, TakeIds, PairVectors, Ends, Goto,
          recallVars, WalkShape, DocumentTypeOK
    <3>3. pc'[c] = "lexical" => known'[c] = Active
      BY <2>1, <2>5
      DEF Answering, RecallDocuments, AnswersFrom, Lexical, Dense, TakeIds, PairVectors, Ends, Goto,
          WalkShape, DocumentTypeOK
    <3>4. QED BY <3>1, <3>2, <3>3 DEF LoneRecallAnswers
  <2>6. CASE Edit
    <3>1. UNCHANGED <<pc, documents, calm, known>>
      BY <2>6 DEF Edit, recallVars
    <3>2. Active' = Active
      BY <3>1 DEF Active, Existing
    <3>3. QED BY <3>1, <3>2 DEF LoneRecallAnswers
  <2>7. CASE StopDocuments
    <3>1. \A c \in Clients : pc'[c] = "idle"
      BY <2>7, Zenon DEF StopDocuments, Stop
    <3>2. QED BY <3>1 DEF LoneRecallAnswers
  <2>8. QED BY <1>3, <2>2, <2>3, <2>4, <2>5, <2>6, <2>7 DEF DocumentNext, Answering
<1>4. QED BY <1>1, <1>2, <1>3 DEF Next, NextMemories, NextPackets, NextLoad, NextDocuments, vars

\* A recall fails only when a card was put since it listed the documents,
\* whoever else recalls, edits, deletes, syncs or restarts meanwhile.
THEOREM RecallsAnswer == Spec => []LoneRecallAnswers
<1>1. Init => LoneRecallAnswers
  <2> SUFFICES ASSUME Init PROVE LoneRecallAnswers
    OBVIOUS
  <2>1. \A c \in Clients : pc[c] = "idle"
    BY DEF Init, IndexInit
  <2>2. QED BY <2>1 DEF LoneRecallAnswers
<1>2. QED BY <1>1, ShapeStart, ShapeStep, AnswersStep, PTL DEF Spec

-----------------------------------------------------------------------------
(* Who is alone *)

\* A step of one request: it goes on where the server lets it, and whoever is
\* alone afterwards was so before, or begins with nobody else writing.
LEMMA AloneMoves ==
    ASSUME IndexShape, Alone, NEW c \in Clients, NEW step, pc' = [pc EXCEPT ![c] = step],
           step = "idle" \/ server' \in {"up", c},
           server' \in {server, "up"} \/ server \in {"down", c},
           \/ alone' = Nobody
           \/ alone' = alone /\ (step \in Writers => pc[c] \in Writers)
           \/ alone' = c /\ \A d \in Clients \ {c} : pc[d] \notin Writers
    PROVE  Alone'
<1>1. pc'[c] = step /\ \A d \in Clients \ {c} : pc'[d] = pc[d]
  BY DEF IndexShape
<1>2. ASSUME NEW d \in Clients, pc'[d] # "idle"
      PROVE  server' \in {"up", d}
  <2>1. CASE d = c
    BY <1>1, <1>2, <2>1
  <2>2. CASE d # c
    <3>1. server \in {"up", d}
      BY <1>1, <1>2, <2>2 DEF Alone
    <3>2. server \notin {"down", c}
      BY <2>2, <3>1, NothingAssumption DEF NothingAssumption
    <3>3. QED BY <3>1, <3>2
  <2>3. QED BY <2>1, <2>2
<1>3. ASSUME NEW a \in Clients, NEW d \in Clients, alone' = a, pc'[d] \in Writers
      PROVE  a = d
  <2>1. alone' # Nobody
    BY <1>3, NothingAssumption DEF NothingAssumption
  <2>2. CASE alone' = alone /\ (step \in Writers => pc[c] \in Writers)
    BY <1>1, <1>3, <2>2 DEF Alone
  <2>3. CASE alone' = c /\ \A e \in Clients \ {c} : pc[e] \notin Writers
    BY <1>1, <1>3, <2>3
  <2>4. QED BY <2>1, <2>2, <2>3
<1>4. QED BY <1>2, <1>3 DEF Alone

LEMMA DiesAlone ==
    ASSUME IndexShape, Alone, NEW c \in Clients, Dies(c) PROVE Alone'
<1>1. /\ pc' = [pc EXCEPT ![c] = "idle"] /\ alone' \in {alone, Nobody}
      /\ server' \in {server, "up"} \/ server \in {"down", c}
  BY DEF Dies, Goto
<1>2. "idle" \notin Writers
  BY DEF Writers, SyncSteps
<1>3. QED BY <1>1, <1>2, AloneMoves

\* A step that stores the index, or a part of it.
Assigns(c) == SyncAssign(c) \/ AssignIds(c) \/ CompleteIndex(c)

LEMMA SyncAlone ==
    ASSUME IndexShape, Alone, NEW c \in Clients, NEW listed, NEW kept, NEW visible,
           \/ SyncList(c, listed) \/ SyncCached(c) \/ SyncWrite(c, kept)
           \/ SyncRead(c, visible) \/ Assigns(c) \/ Abandon(c)
    PROVE  Alone' /\ pc[c] \in Writers /\ alone' \in {alone, Nobody}
<1>1. pc[c] \in Writers /\ pc[c] # "idle"
  BY DEF SyncList, SyncCached, SyncWrite, SyncRead, Assigns, SyncAssign, AssignIds, CompleteIndex,
         Abandon, Writers, SyncSteps
<1>2. server \in {"up", c}
  BY <1>1 DEF Alone
<1>3. CASE SyncList(c, listed) \/ SyncCached(c) \/ SyncWrite(c, kept) \/ SyncRead(c, visible)
  <2>1. /\ \E step \in SyncSteps : pc' = [pc EXCEPT ![c] = step]
        /\ alone' \in {alone, Nobody} /\ server' = server
    BY <1>3 DEF SyncList, SyncCached, SyncWrite, Fails, SyncRead, Goto, SyncSteps
  <2>2. QED BY <1>1, <1>2, <2>1, AloneMoves
<1>4. CASE Assigns(c)
  <2>1. /\ \E step \in {"complete", "idle"} : pc' = [pc EXCEPT ![c] = step]
        /\ alone' = alone /\ server' \in {server, "up"}
    BY <1>4 DEF Assigns, SyncAssign, AssignIds, CompleteIndex, Returns, Goto
  <2>2. QED BY <1>1, <1>2, <2>1, AloneMoves
<1>5. CASE Abandon(c)
  BY <1>1, <1>5, DiesAlone DEF Abandon, Dies
<1>6. QED BY <1>3, <1>4, <1>5

\* A request that begins is alone if no other one writes.
LEMMA BeginsAlone ==
    ASSUME NEW c \in Clients, Begins(c)
    PROVE  \/ alone' = Nobody
           \/ alone' = c /\ \A d \in Clients \ {c} : pc[d] \notin Writers
BY DEF Begins, Writers

LEMMA LoadAlone ==
    ASSUME IndexShape, Alone, server = "down" PROVE \A c \in Clients : pc[c] = "idle"
BY NothingAssumption DEF Alone, NothingAssumption

LEMMA AloneStep ==
    ASSUME Shape, Alone, [Next]_vars PROVE Alone'
<1>1. IndexShape
  BY DEF Shape
<1>2. ASSUME UNCHANGED indexVars
      PROVE  Alone'
  BY <1>2 DEF indexVars, Alone
<1>3. ASSUME NEW c \in Clients, LoadMemories(c) \/ LoadDocuments(c)
      PROVE  Alone'
  <2>1. server = "down" /\ \A d \in Clients : pc[d] = "idle"
    BY <1>1, <1>3, LoadAlone DEF LoadMemories, LoadDocuments, Load
  <2>2. CASE server' = c /\ alone' = c /\ \E step \in {"list", "take"} : Goto(c, step)
    <3>1. "idle" \notin Writers
      BY DEF Writers, SyncSteps
    <3>2. QED BY <1>1, <2>1, <2>2, <3>1, AloneMoves DEF Goto
  <2>3. CASE UNCHANGED pc
    BY <2>1, <2>3 DEF Alone, Writers, SyncSteps
  <2>4. QED BY <1>3, <2>2, <2>3 DEF LoadMemories, LoadDocuments, Scan
<1>4. ASSUME NEW c \in Clients, Confirm(c) \/ AskSync(c) \/ Ingest(c)
      PROVE  Alone'
  <2>1. /\ server' = server /\ server = "up" /\ Begins(c)
        /\ \E step \in {"list", "take"} : pc' = [pc EXCEPT ![c] = step]
    BY <1>4 DEF Confirm, AskSync, Ingest, Scan, Serving, Goto
  <2>2. QED BY <1>1, <2>1, BeginsAlone, AloneMoves
<1>5. ASSUME NEW c \in Clients, SyncMemories(c) \/ SyncDocuments(c)
      PROVE  Alone'
  BY <1>1, <1>5, SyncAlone DEF SyncMemories, SyncDocuments, Assigns
<1>6. ASSUME NEW c \in Clients,
             Recall(c) \/ AskProvider(c) \/ ReadVectors(c) \/ PairIds(c) \/ Answering(c)
      PROVE  Alone'
  <2>1. server' = server /\ alone' = alone
    BY <1>6 DEF Recall, AskProvider, ReadVectors, PairIds, Answering, RecallDocuments, AnswersFrom,
                Lexical, Dense, TakeIds, PairVectors
  <2>2. server \in {"up", c}
    BY <1>6
    DEF Recall, AskProvider, ReadVectors, PairIds, Answering, RecallDocuments, AnswersFrom, Lexical,
        Dense, TakeIds, PairVectors, Serving, Alone
  <2>3. \/ UNCHANGED pc
        \/ \E step \in {"idle", "ask", "vectors", "ids", "lexical", "dense"} :
               pc' = [pc EXCEPT ![c] = step]
    BY <1>6
    DEF Recall, AskProvider, ReadVectors, PairIds, Answering, RecallDocuments, AnswersFrom, Lexical,
        Dense, TakeIds, PairVectors, Ends, Goto
  <2>4. \A step \in {"idle", "ask", "vectors", "ids", "lexical", "dense"} : step \notin Writers
    BY DEF Writers, SyncSteps
  <2>5. CASE UNCHANGED pc
    BY <2>1, <2>5 DEF Alone
  <2>6. QED BY <1>1, <2>1, <2>2, <2>3, <2>4, <2>5, AloneMoves
<1>7. ASSUME NEW c \in Clients, TakeFile(c) \/ PutCard(c) \/ Prune(c)
      PROVE  Alone'
  <2>1. pc[c] \in {"take", "put"} /\ pc[c] \in Writers /\ server \in {"up", c}
    BY <1>7 DEF TakeFile, PutCard, Prune, EndsWalk, Writers, Alone
  <2>2. CASE Aborts(c)
    BY <1>1, <2>2, DiesAlone DEF Aborts
  <2>3. CASE UNCHANGED indexVars
    BY <1>2, <2>3
  <2>4. CASE /\ \E step \in {"take", "put", "list"} : pc' = [pc EXCEPT ![c] = step]
             /\ UNCHANGED <<server, alone>>
    BY <1>1, <2>1, <2>4, AloneMoves
  <2>5. QED BY <1>7, <2>2, <2>3, <2>4 DEF TakeFile, PutCard, Prune, EndsWalk, Goto
<1>8. CASE Edit
  BY <1>8, NothingAssumption DEF Edit, Alone, NothingAssumption
<1>9. CASE StopMemories \/ StopDocuments
  <2>1. \A c \in Clients : pc'[c] = "idle"
    BY <1>9, Zenon DEF StopMemories, StopDocuments, Stop
  <2>2. QED BY <2>1 DEF Alone, Writers, SyncSteps
<1>10. QED BY <1>2, <1>3, <1>4, <1>5, <1>6, <1>7, <1>8, <1>9
       DEF Next, NextMemories, NextDocuments, NextPackets, NextLoad, MemoryNext, DocumentNext,
           Answering, vars

-----------------------------------------------------------------------------
(* What a sync that is alone leaves *)

\* Whatever the table held, what is written over it makes it what was listed.
LEMMA WrittenWants ==
    ASSUME IndexShape, NEW c \in Clients, cached[c] = embeddings, wanted[c] \in Table
    PROVE  Written(c) = wanted[c]
BY DEF Written, Changed, Stale, IndexShape, IndexTypeOK, Table

\* The others of a sync, and who has not begun one, see nothing new.
LEMMA SyncedMoves ==
    ASSUME IndexShape, Synced, NEW c \in Clients, NEW step, pc' = [pc EXCEPT ![c] = step],
           step \notin {"cached", "embed", "read", "assign", "complete"},
           alone' \in {alone, Nobody, c},
           \/ alone' \in {c, Nobody}
           \/ UNCHANGED <<embeddings, ids, wanted, cached, seen, Wants, Shows>>
    PROVE  Synced'
<1> SUFFICES ASSUME NEW a \in Clients, alone' = a
             PROVE  /\ pc'[a] \in {"cached", "embed"} => wanted'[a] = Wants'
                    /\ pc'[a] = "embed" => cached'[a] = embeddings'
                    /\ pc'[a] = "read" => embeddings' = Wants'
                    /\ pc'[a] \in {"assign", "complete"} => seen'[a] = Shows'
                    /\ pc'[a] = "complete" => ids' = IdsOf(Shows')
  BY DEF Synced
<1>1. a # Nobody
  BY NothingAssumption DEF NothingAssumption
<1>2. CASE a = c
  <2>1. pc'[a] = step
    BY <1>2 DEF IndexShape
  <2>2. QED BY <2>1
<1>3. CASE a # c
  <2>1. /\ alone = a /\ pc'[a] = pc[a]
        /\ UNCHANGED <<embeddings, ids, wanted, cached, seen, Wants, Shows>>
    BY <1>1, <1>3 DEF IndexShape
  <2>2. QED BY <2>1 DEF Synced
<1>4. QED BY <1>2, <1>3

LEMMA SyncedSyncs ==
    ASSUME IndexShape, Alone, Synced, UNCHANGED <<Wants, Shows>>, Wants \in Table,
           NEW c \in Clients, NEW kept, NEW visible,
           embeddings = Wants => Rows(visible) = Shows,
           \/ SyncList(c, Wants) \/ SyncCached(c) \/ SyncWrite(c, kept)
           \/ SyncRead(c, visible) \/ Assigns(c) \/ Abandon(c)
    PROVE  Synced'
<1>1. pc[c] \in Writers /\ alone' \in {alone, Nobody}
  BY SyncAlone
<1> SUFFICES ASSUME alone' = c
             PROVE  /\ pc'[c] \in {"cached", "embed"} => wanted'[c] = Wants
                    /\ pc'[c] = "embed" => cached'[c] = embeddings'
                    /\ pc'[c] = "read" => embeddings' = Wants
                    /\ pc'[c] \in {"assign", "complete"} => seen'[c] = Shows
                    /\ pc'[c] = "complete" => ids' = IdsOf(Shows)
  <2>1. Nobody \notin Clients
    BY NothingAssumption DEF NothingAssumption
  <2>2. \A a \in Clients : alone' = a => a = c
    BY <1>1, <2>1 DEF Alone
  <2>3. QED BY <2>2 DEF Synced
<1>2. alone = c
  BY <1>1, NothingAssumption DEF NothingAssumption
<1>3. /\ pc[c] \in {"cached", "embed"} => wanted[c] = Wants
      /\ pc[c] = "embed" => cached[c] = embeddings
      /\ pc[c] = "read" => embeddings = Wants
      /\ pc[c] = "assign" => seen[c] = Shows
  BY <1>2 DEF Synced
<1>4. CASE SyncList(c, Wants)
  <2>1. pc'[c] = "cached" /\ wanted'[c] = Wants
    BY <1>4 DEF SyncList, Goto, IndexShape, IndexTypeOK
  <2>2. QED BY <2>1
<1>5. CASE SyncCached(c)
  <2>1. pc'[c] = "embed" /\ wanted' = wanted /\ cached'[c] = embeddings /\ embeddings' = embeddings
    BY <1>5 DEF SyncCached, Goto, IndexShape, IndexTypeOK
  <2>2. pc[c] = "cached"
    BY <1>5 DEF SyncCached
  <2>3. QED BY <1>3, <2>1, <2>2
<1>6. CASE SyncWrite(c, kept)
  <2>1. pc[c] = "embed" /\ pc'[c] = "read"
    BY <1>6 DEF SyncWrite, Goto, IndexShape
  <2>2. ~Fails(c)
    BY <1>2, NothingAssumption DEF Fails, NothingAssumption
  <2>3. embeddings' = Written(c)
    BY <1>6, <2>2 DEF SyncWrite
  <2>4. embeddings' = Wants
    BY <1>3, <2>1, <2>3, WrittenWants
  <2>5. QED BY <2>1, <2>4
<1>7. CASE SyncRead(c, visible)
  <2>1. pc[c] = "read" /\ pc'[c] = "assign" /\ seen'[c] = Rows(visible)
    BY <1>7 DEF SyncRead, Goto, IndexShape, IndexTypeOK
  <2>2. QED BY <1>3, <2>1
<1>8. CASE AssignIds(c)
  <2>1. pc[c] = "assign" /\ pc'[c] = "complete" /\ seen' = seen /\ ids' = IdsOf(seen[c])
    BY <1>8 DEF AssignIds, Goto, IndexShape, IndexTypeOK
  <2>2. QED BY <1>3, <2>1
<1>9. CASE SyncAssign(c) \/ CompleteIndex(c) \/ Abandon(c)
  <2>1. pc'[c] = "idle"
    BY <1>9 DEF SyncAssign, CompleteIndex, Returns, Abandon, Dies, Goto, IndexShape
  <2>2. QED BY <2>1
<1>10. QED BY <1>4, <1>5, <1>6, <1>7, <1>8, <1>9 DEF Assigns

\* Once the table is what was listed, a reload reads what is to be shown.
LEMMA RowsShown ==
    ASSUME Shape, embeddings = Wants
    PROVE  /\ store = "memories" => Rows(Eligible) = Shows
           /\ store = "documents" => Rows(Items) = Shows
<1>1. ASSUME store = "memories"
      PROVE  Rows(Eligible) = Shows
  <2>1. \A i \in Eligible : i \in Items /\ embeddings[i] = "active"
    BY <1>1 DEF Wants, Listed, Eligible
  <2>2. QED BY <1>1, <2>1 DEF Rows, Shows
<1>2. ASSUME store = "documents"
      PROVE  Rows(Items) = Shows
  <2>1. embeddings = ListedDocuments /\ Shows = ListedDocuments
    BY <1>2 DEF Wants, Shows
  <2>2. QED BY <2>1 DEF Rows, ListedDocuments
<1>3. QED BY <1>1, <1>2

LEMMA WantsTable ==
    Shape => /\ store = "memories" => Wants \in Table
             /\ store = "documents" => Wants \in Table
BY ListedTable, ListedDocumentsTable DEF Shape, MemoryShape, DocumentShape, WalkShape, Wants

LEMMA MemorySynced ==
    ASSUME Shape, Alone, Synced, store = "memories", store' = store, MemoryNext,
           UNCHANGED documentVars
    PROVE  Synced'
<1>1. IndexShape
  BY DEF Shape
<1>2. ASSUME memory' = memory
      PROVE  UNCHANGED <<Wants, Shows>>
  BY <1>2 DEF Wants, Shows, Listed, Eligible
<1>3. ASSUME NEW c \in Clients, LoadMemories(c)
      PROVE  Synced'
  <2>1. CASE alone' = c /\ Goto(c, "list")
    BY <1>1, <2>1, SyncedMoves DEF Goto
  <2>2. CASE UNCHANGED <<pc, alone>>
    <3>1. \A a \in Clients : pc'[a] = "idle"
      BY <1>1, <1>3, <2>2, LoadAlone DEF LoadMemories, Load
    <3>2. QED BY <3>1 DEF Synced
  <2>3. QED BY <1>3, <2>1, <2>2 DEF LoadMemories
<1>4. ASSUME NEW c \in Clients, Confirm(c) \/ AskSync(c)
      PROVE  Synced'
  <2>1. pc' = [pc EXCEPT ![c] = "list"] /\ alone' \in {c, Nobody}
    BY <1>4, BeginsAlone DEF Confirm, AskSync, Goto
  <2>2. QED BY <1>1, <2>1, SyncedMoves
<1>5. ASSUME NEW c \in Clients, SyncMemories(c)
      PROVE  Synced'
  <2>1. UNCHANGED <<Wants, Shows>>
    BY <1>2, <1>5 DEF SyncMemories, memoryVars
  <2>2. Listed = Wants
    BY DEF Wants
  <2>3. \E kept : \/ SyncList(c, Wants) \/ SyncCached(c) \/ SyncWrite(c, kept)
                   \/ SyncRead(c, Eligible) \/ Assigns(c) \/ Abandon(c)
    BY <1>5, <2>2 DEF SyncMemories, Assigns
  <2>4. QED BY <1>1, <2>1, <2>3, RowsShown, WantsTable, SyncedSyncs
<1>6. ASSUME NEW c \in Clients, Recall(c) \/ AskProvider(c) \/ ReadVectors(c) \/ PairIds(c)
      PROVE  Synced'
  <2>1. UNCHANGED <<embeddings, ids, wanted, cached, seen, alone, memory>>
    BY <1>6 DEF Recall, AskProvider, ReadVectors, PairIds, memoryVars
  <2>2. \/ UNCHANGED pc
        \/ \E step \in {"idle", "ask", "vectors", "ids"} : pc' = [pc EXCEPT ![c] = step]
    BY <1>6 DEF Recall, AskProvider, ReadVectors, PairIds, Goto
  <2>3. UNCHANGED <<Wants, Shows>>
    BY <1>2, <2>1
  <2>4. CASE UNCHANGED pc
    BY <2>1, <2>3, <2>4 DEF Synced
  <2>5. QED BY <1>1, <2>1, <2>2, <2>3, <2>4, SyncedMoves
<1>7. CASE StopMemories
  BY <1>7, NothingAssumption DEF StopMemories, Stop, Synced, NothingAssumption
<1>8. QED BY <1>3, <1>4, <1>5, <1>6, <1>7 DEF MemoryNext

LEMMA DocumentSynced ==
    ASSUME Shape, Alone, Synced, store = "documents", store' = store, DocumentNext,
           UNCHANGED memoryVars
    PROVE  Synced'
<1>1. IndexShape
  BY DEF Shape
<1>2. ASSUME documents' = documents
      PROVE  UNCHANGED <<Wants, Shows>>
  <2>1. Active' = Active
    BY <1>2 DEF Active, Existing
  <2>2. ListedDocuments' = ListedDocuments
    BY <1>2, <2>1 DEF ListedDocuments
  <2>3. QED BY <2>2 DEF Wants, Shows
<1>3. ASSUME NEW c \in Clients, LoadDocuments(c) \/ Ingest(c)
      PROVE  Synced'
  <2>1. CASE Goto(c, "take") /\ alone' \in {c, Nobody}
    BY <1>1, <2>1, SyncedMoves DEF Goto
  <2>2. CASE LoadDocuments(c) /\ UNCHANGED pc
    <3>1. \A a \in Clients : pc'[a] = "idle"
      BY <1>1, <2>2, LoadAlone DEF LoadDocuments, Load
    <3>2. QED BY <3>1 DEF Synced
  <2>3. QED BY <1>3, <2>1, <2>2, BeginsAlone DEF LoadDocuments, Ingest, Scan
<1>4. ASSUME NEW c \in Clients, TakeFile(c) \/ PutCard(c) \/ Prune(c)
      PROVE  Synced'
  <2>1. pc[c] \in Writers /\ alone' \in {alone, Nobody}
    BY <1>4 DEF TakeFile, PutCard, Prune, EndsWalk, Aborts, Dies, Writers, indexVars
  <2>2. alone' \in Clients => alone' = c
    BY <2>1, NothingAssumption DEF Alone, NothingAssumption
  <2>3. \/ \E step \in {"take", "put", "list", "idle"} : pc' = [pc EXCEPT ![c] = step]
        \/ UNCHANGED pc /\ pc[c] = "take"
    BY <1>4 DEF TakeFile, PutCard, Prune, EndsWalk, Aborts, Dies, Goto, indexVars
  <2>4. pc'[c] \in {"take", "put", "list", "idle"}
    BY <1>1, <2>3 DEF IndexShape
  <2>5. QED BY <2>2, <2>4 DEF Synced
<1>5. ASSUME NEW c \in Clients, SyncDocuments(c)
      PROVE  Synced'
  <2>1. UNCHANGED <<Wants, Shows>>
    BY <1>2, <1>5 DEF SyncDocuments, documentVars, walkVars
  <2>2. ListedDocuments = Wants
    BY DEF Wants
  <2>3. \E kept : \/ SyncList(c, Wants) \/ SyncCached(c) \/ SyncWrite(c, kept)
                   \/ SyncRead(c, Items) \/ Assigns(c) \/ Abandon(c)
    BY <1>5, <2>2 DEF SyncDocuments, Assigns
  <2>4. QED BY <1>1, <2>1, <2>3, RowsShown, WantsTable, SyncedSyncs
<1>6. ASSUME NEW c \in Clients, Answering(c)
      PROVE  Synced'
  <2>1. UNCHANGED <<embeddings, ids, wanted, cached, seen, alone, documents>>
    BY <1>6 DEF Answering, RecallDocuments, AnswersFrom, Lexical, Dense, TakeIds, PairVectors,
                walkVars
  <2>2. \E step \in {"idle", "lexical", "dense", "ids", "vectors"} : pc' = [pc EXCEPT ![c] = step]
    BY <1>6 DEF Answering, RecallDocuments, AnswersFrom, Lexical, Dense, TakeIds, PairVectors, Ends,
                Goto
  <2>3. UNCHANGED <<Wants, Shows>>
    BY <1>2, <2>1
  <2>4. QED BY <1>1, <2>1, <2>2, <2>3, SyncedMoves
<1>7. CASE Edit \/ StopDocuments
  BY <1>7, NothingAssumption DEF Edit, StopDocuments, Stop, Synced, NothingAssumption
<1>8. QED BY <1>3, <1>4, <1>5, <1>6, <1>7 DEF DocumentNext, Answering

LEMMA SyncedStep ==
    ASSUME Shape, Alone, Synced, [Next]_vars PROVE Synced'
<1>1. ASSUME UNCHANGED <<indexVars, memoryVars, documentVars, store>>
      PROVE  Synced'
  <2>1. UNCHANGED <<Wants, Shows>>
    BY <1>1 DEF memoryVars, documentVars, walkVars, Wants, Shows, Listed, Eligible,
                ListedDocuments, Active, Existing
  <2>2. QED BY <1>1, <2>1 DEF indexVars, Synced
<1>2. QED BY <1>1, MemorySynced, DocumentSynced
      DEF Next, NextMemories, NextDocuments, NextPackets, NextLoad, vars

SyncInv == Shape /\ Alone /\ Synced

LEMMA SyncHolds == Spec => []SyncInv
<1>1. Init => SyncInv
  BY ShapeStart, NothingAssumption
  DEF Init, IndexInit, SyncInv, Alone, Synced, Writers, SyncSteps, NothingAssumption
<1>2. SyncInv /\ [Next]_vars => SyncInv'
  BY ShapeStep, AloneStep, SyncedStep DEF SyncInv
<1>3. QED BY <1>1, <1>2, PTL DEF Spec

\* Only a store of the index ends a sync that has come to it, unless the process
\* stops.
LEMMA OnlyAssigns ==
    ASSUME IndexShape, NEW c \in Clients, pc[c] \in {"assign", "complete"}, pc'[c] = "idle",
           server' # "down", MemoryNext \/ DocumentNext
    PROVE  SyncAssign(c) \/ CompleteIndex(c)
<1>1. ASSUME NEW d \in Clients, NEW step, pc' = [pc EXCEPT ![d] = step]
      PROVE  d = c
  BY <1>1 DEF IndexShape
<1>2. ASSUME UNCHANGED pc
      PROVE  FALSE
  BY <1>2
<1>3. ASSUME NEW d \in Clients,
             \/ LoadMemories(d) \/ Confirm(d) \/ AskSync(d)
             \/ Recall(d) \/ AskProvider(d) \/ ReadVectors(d) \/ PairIds(d)
      PROVE  FALSE
  <2>1. pc[d] \notin {"assign", "complete"}
    BY <1>3 DEF LoadMemories, Load, Confirm, AskSync, Recall, AskProvider, ReadVectors, PairIds,
                Serving
  <2>2. UNCHANGED pc \/ \E step : pc' = [pc EXCEPT ![d] = step]
    BY <1>3 DEF LoadMemories, Confirm, AskSync, Recall, AskProvider, ReadVectors, PairIds, Goto
  <2>3. QED BY <1>1, <1>2, <2>1, <2>2
<1>4. ASSUME NEW d \in Clients,
             \/ LoadDocuments(d) \/ Ingest(d) \/ TakeFile(d) \/ PutCard(d) \/ Prune(d)
             \/ Answering(d)
      PROVE  FALSE
  <2>1. pc[d] \notin {"assign", "complete"}
    BY <1>4 DEF LoadDocuments, Load, Ingest, TakeFile, PutCard, Prune, EndsWalk, Answering,
                RecallDocuments, AnswersFrom, Lexical, Dense, TakeIds, PairVectors, Serving
  <2>2. UNCHANGED pc \/ \E step : pc' = [pc EXCEPT ![d] = step]
    BY <1>4 DEF LoadDocuments, Ingest, Scan, TakeFile, PutCard, Prune, EndsWalk, Aborts, Dies,
                Answering, RecallDocuments, AnswersFrom, Lexical, Dense, TakeIds, PairVectors, Ends,
                Goto, indexVars
  <2>3. QED BY <1>1, <1>2, <2>1, <2>2
<1>5. ASSUME NEW d \in Clients, SyncMemories(d) \/ SyncDocuments(d)
      PROVE  SyncAssign(c) \/ CompleteIndex(c)
  <2>1. \E step : pc' = [pc EXCEPT ![d] = step]
    BY <1>5 DEF SyncMemories, SyncDocuments, SyncList, SyncCached, SyncWrite, SyncRead,
                SyncAssign, AssignIds, CompleteIndex, Returns, Abandon, Dies, Goto
  <2>2. d = c
    BY <1>1, <2>1
  <2>3. ~AssignIds(c)
    BY DEF AssignIds, Goto, IndexShape
  <2>4. QED BY <1>5, <2>2, <2>3
        DEF SyncMemories, SyncDocuments, SyncList, SyncCached, SyncWrite, SyncRead, Abandon
<1>6. CASE Edit
  BY <1>2, <1>6 DEF Edit
<1>7. CASE StopMemories \/ StopDocuments
  BY <1>7 DEF StopMemories, StopDocuments, Stop
<1>8. QED BY <1>3, <1>4, <1>5, <1>6, <1>7 DEF MemoryNext, DocumentNext, Answering

\* What a request that is alone puts into the index is what is to be shown.
LEMMA ShowsIndexed ==
    ASSUME IndexShape, Synced, NEW c \in Clients, alone = c, SyncAssign(c) \/ CompleteIndex(c)
    PROVE  /\ Shows \in Table
           /\ ids' = InOrder({i \in Items : Shows[i] # Nothing})
           /\ vectors' = [n \in DOMAIN ids' |-> <<ids'[n], Shows[ids'[n]]>>]
           /\ \A n \in DOMAIN ids' : ids'[n] \in Items /\ Shows[ids'[n]] # Nothing
<1>1. pc[c] \in {"assign", "complete"} /\ seen[c] = Shows
  BY DEF SyncAssign, CompleteIndex, Synced
<1>2. Shows \in Table
  BY <1>1 DEF IndexShape, IndexTypeOK
<1>3. ids' = IdsOf(Shows) /\ vectors' = VectorsOf(Shows)
  BY <1>1 DEF SyncAssign, CompleteIndex, Indexes, Synced
<1>4. \A n \in DOMAIN IdsOf(Shows) : IdsOf(Shows)[n] \in Items /\ Shows[IdsOf(Shows)[n]] # Nothing
  BY <1>2, IndexOfRows
<1>5. QED BY <1>2, <1>3, <1>4 DEF IdsOf, VectorsOf

\* A sync of memories that ends without a failure, and that nobody else has
\* written during, leaves the index equal to the active memories.
THEOREM SyncsHeal == Spec => LoneSyncHeals
<1> DEFINE Heals == store = "memories" => \A c \in Clients : SyncHeals(c)
<1>1. ASSUME Shape, Alone, Synced, [Next]_vars
      PROVE  Heals \/ UNCHANGED vars
  <2> SUFFICES ASSUME store = "memories", NEW c \in Clients, ~ UNCHANGED vars,
                      pc[c] = "assign", pc'[c] = "idle", server' # "down", alone = c
               PROVE  Fresh(ids', vectors')
    BY DEF SyncHeals
  <2>1. IndexShape /\ (SyncAssign(c) \/ CompleteIndex(c))
    BY <1>1, OnlyAssigns DEF Shape, Next, NextMemories, NextDocuments, NextPackets, NextLoad
  <2>2. \A i \in Items : Shows[i] = IF i \in Eligible THEN "active" ELSE Nothing
    BY DEF Shows
  <2>3. "active" # Nothing
    BY SeededAssumption, NothingAssumption DEF SeededAssumption, NothingAssumption
  <2>4. {i \in Items : Shows[i] # Nothing} = Eligible
    BY <2>2, <2>3 DEF Eligible
  <2>5. ids' = InOrder(Eligible)
    BY <1>1, <2>1, <2>4, ShowsIndexed
  <2>6. \A n \in DOMAIN ids' : Shows[ids'[n]] = "active"
    BY <1>1, <2>1, <2>2, ShowsIndexed
  <2>7. vectors' = [n \in DOMAIN ids' |-> <<ids'[n], "active">>]
    BY <1>1, <2>1, <2>6, ShowsIndexed
  <2>8. QED BY <2>5, <2>7 DEF Fresh
<1>2. SyncInv /\ [Next]_vars => [Heals]_vars
  BY <1>1 DEF SyncInv
<1> HIDE DEF Heals
<1>3. Spec => [][Heals]_vars
  BY <1>2, SyncHolds, PTL DEF Spec
<1>4. QED BY <1>3 DEF LoneSyncHeals, Heals

\* An ingestion that ends without a failure, and that neither another one nor
\* an edit has overlapped, leaves the index equal to the active documents.
THEOREM IngestsIndex == Spec => LoneIngestIndexes
<1> DEFINE Follows == store = "documents" => \A c \in Clients : IngestIndexes(c)
<1>1. ASSUME Shape, Alone, Synced, [Next]_vars
      PROVE  Follows \/ UNCHANGED vars
  <2> SUFFICES ASSUME store = "documents", NEW c \in Clients, ~ UNCHANGED vars,
                      pc[c] = "complete", pc'[c] = "idle", server' # "down", alone = c
               PROVE  /\ ids' = InOrder(Active)
                      /\ vectors' = [n \in DOMAIN ids' |-> <<ids'[n], documents[ids'[n]].text>>]
    BY DEF IngestIndexes
  <2>1. IndexShape /\ (SyncAssign(c) \/ CompleteIndex(c))
    BY <1>1, OnlyAssigns DEF Shape, Next, NextMemories, NextDocuments, NextPackets, NextLoad
  <2>2. \A i \in Items : Shows[i] = IF i \in Active THEN documents[i].text ELSE Nothing
    BY DEF Shows, ListedDocuments
  <2>3. \A i \in Active : i \in Items /\ documents[i].text # Nothing
    <3> SUFFICES ASSUME NEW i \in Active PROVE i \in Items /\ documents[i].text # Nothing
      OBVIOUS
    <3>1. i \in Items /\ documents[i] # Missing
      BY DEF Active, Existing
    <3>2. documents[i] \in Document
      BY <1>1, <3>1 DEF Shape, DocumentShape, WalkShape, DocumentTypeOK
    <3>3. QED BY <3>1, <3>2, CardFacts
  <2>4. {i \in Items : Shows[i] # Nothing} = Active
    BY <2>2, <2>3
  <2>5. ids' = InOrder(Active)
    BY <1>1, <2>1, <2>4, ShowsIndexed
  <2>6. \A n \in DOMAIN ids' : Shows[ids'[n]] = documents[ids'[n]].text
    BY <1>1, <2>1, <2>2, ShowsIndexed
  <2>7. vectors' = [n \in DOMAIN ids' |-> <<ids'[n], documents[ids'[n]].text>>]
    BY <1>1, <2>1, <2>6, ShowsIndexed
  <2>8. QED BY <2>5, <2>7
<1>2. SyncInv /\ [Next]_vars => [Follows]_vars
  BY <1>1 DEF SyncInv
<1> HIDE DEF Follows
<1>3. Spec => [][Follows]_vars
  BY <1>2, SyncHolds, PTL DEF Spec
<1>4. QED BY <1>3 DEF LoneIngestIndexes, Follows

-----------------------------------------------------------------------------
(* What ingestions leave of the tree *)

\* What is known of a row, and of a card that a file holds.
LEMMA RowFacts ==
    ASSUME WalkShape
    PROVE  /\ \A i \in Existing : /\ i \in Items /\ documents[i] \in Document
                                  /\ documents[i].source \in Range(Files)
                                  /\ documents[i].source # Nothing
           /\ \A f \in Declaring : f \in Range(Files) /\ tree[f] \in Card
<1>1. ASSUME NEW i \in Existing
      PROVE  /\ i \in Items /\ documents[i] \in Document
             /\ documents[i].source \in Range(Files) /\ documents[i].source # Nothing
  <2>1. i \in Items /\ documents[i] # Missing
    BY DEF Existing
  <2>2. documents[i] \in Document
    BY <2>1 DEF WalkShape, DocumentTypeOK
  <2>3. QED BY <2>1, <2>2, CardFacts
<1>2. \A f \in Declaring : f \in Range(Files) /\ tree[f] \in Card
  BY DEF Declaring, WalkShape, DocumentTypeOK
<1>3. QED BY <1>1, <1>2

\* The first element of a sequence, and the others.
LEMMA HeadAndTail ==
    ASSUME NEW T, NEW s \in Seq(T), s # <<>>, NEW x \in Range(s)
    PROVE  x = Head(s) \/ x \in Range(Tail(s))
<1>1. Len(s) \in Nat /\ Len(s) > 0 /\ DOMAIN s = 1..Len(s)
  OBVIOUS
<1>2. PICK n \in 1..Len(s) : x = s[n]
  BY <1>1 DEF Range
<1>3. CASE n = 1
  BY <1>2, <1>3
<1>4. CASE n # 1
  <2>1. /\ n - 1 \in 1..(Len(s) - 1) /\ Tail(s) \in Seq(T) /\ Len(Tail(s)) = Len(s) - 1
        /\ Tail(s)[n - 1] = s[n] /\ DOMAIN Tail(s) = 1..(Len(s) - 1)
    BY <1>1, <1>2, <1>4
  <2>2. QED BY <1>2, <2>1 DEF Range
<1>5. QED BY <1>3, <1>4

LEMMA FilesFinite == IsFiniteSet(Range(Files))
<1>1. Files \in Seq(STRING)
  BY DocumentAssumption DEF DocumentAssumption
<1>2. Len(Files) \in Nat /\ DOMAIN Files = 1..Len(Files)
  BY <1>1
<1>3. IsFiniteSet(1..Len(Files))
  BY <1>2, FS_Interval
<1> DEFINE h == [n \in 1..Len(Files) |-> Files[n]]
<1>4. h \in Surjection(1..Len(Files), Range(Files))
  BY <1>2 DEF Surjection, Range
<1> HIDE DEF h
<1>5. QED BY <1>3, <1>4, FS_Surjection

\* Where each row's id is declared by a card, there are no more files with a
\* row than with a card: if each card has a row, they are the same files.
LEMMA SameFiles ==
    ASSUME WalkShape, \A i \in Existing : \E f \in Declaring : tree[f].id = i,
           \A f \in Declaring : HasRow(f)
    PROVE  {documents[i].source : i \in Existing} = Declaring
<1> DEFINE S == {documents[i].source : i \in Existing}
           Owner(s, f) == \E i \in Existing : documents[i].source = s /\ tree[f].id = i
           OwnerOf(s) == CHOOSE f \in Declaring : Owner(s, f)
           h == [s \in S |-> OwnerOf(s)]
<1>1. \A s \in S : OwnerOf(s) \in Declaring /\ Owner(s, OwnerOf(s))
  <2>1. \A s \in S : \E f \in Declaring : Owner(s, f)
    OBVIOUS
  <2> HIDE DEF Owner, S
  <2>2. QED BY <2>1
<1>2. \A s, t \in S : OwnerOf(s) = OwnerOf(t) => s = t
  <2>1. \A s, t, f : Owner(s, f) /\ Owner(t, f) => s = t
    OBVIOUS
  <2> HIDE DEF Owner, OwnerOf, S
  <2>2. QED BY <1>1, <2>1
<1>3. Declaring \subseteq S
  BY DEF HasRow
<1> HIDE DEF S, Owner, OwnerOf
<1>4. h \in [S -> Declaring] /\ \A s, t \in S : h[s] = h[t] => s = t
  BY <1>1, <1>2
<1> HIDE DEF h
<1>5. h \in Injection(S, Declaring)
  BY <1>4 DEF Injection, IsInjective
<1>6. IsFiniteSet(Declaring)
  <2>1. Declaring \in SUBSET Range(Files)
    BY DEF Declaring
  <2>2. QED BY <2>1, FilesFinite, FS_Subset
<1>7. IsFiniteSet(S) /\ Cardinality(S) <= Cardinality(Declaring)
  BY <1>5, <1>6, FS_Injection
<1>8. /\ Cardinality(Declaring) <= Cardinality(S)
      /\ Cardinality(S) = Cardinality(Declaring) => S = Declaring
  BY <1>3, <1>7, FS_Subset
<1>9. Cardinality(S) \in Nat /\ Cardinality(Declaring) \in Nat
  BY <1>6, <1>7, FS_CardinalityType
<1>10. S = Declaring
  BY <1>7, <1>8, <1>9
<1>11. QED BY <1>10 DEF S

\* Whoever is not on a walk of his own afterwards has changed nothing.
LEMMA MirrorFrame ==
    ASSUME OneRow, Walked, TreeMirrored, UNCHANGED <<tree, documents, rounds>>,
           alone' \in {alone, Nobody},
           \A d \in Clients : Walking(d)' =>
               /\ pc'[d] = pc[d] /\ todo'[d] = todo[d] /\ read'[d] = read[d]
               /\ found'[d] = found[d]
    PROVE  OneRow' /\ Walked' /\ TreeMirrored'
<1>1. Existing' = Existing /\ Declaring' = Declaring
  BY DEF Existing, Declaring
<1>2. Declared' = Declared /\ \A f \in Declaring : HasRow(f)' <=> HasRow(f)
  BY <1>1 DEF Declared, HasRow
<1>3. \A d \in Clients : (Walking(d)' => Walking(d)) /\ (pc'[d] = "put" => Walking(d)')
  BY DEF Walking
<1>4. Quiet' => Quiet
  BY DEF Quiet
<1>5. ASSUME Quiet', NEW d \in Clients
      PROVE  /\ pc'[d] = "put" => read'[d] = tree'[Head(todo'[d])]
             /\ Walking(d)' => Behind(d)'
  <2>1. Quiet /\ (pc[d] = "put" => read[d] = tree[Head(todo[d])]) /\ (Walking(d) => Behind(d))
    BY <1>4, <1>5 DEF Walked
  <2>2. pc'[d] = "put" => read'[d] = tree'[Head(todo'[d])]
    BY <1>3, <2>1
  <2>3. Walking(d)' => Behind(d)'
    BY <1>1, <1>2, <1>3, <2>1 DEF Behind
  <2>4. QED BY <2>2, <2>3
<1>6. Walked'
  BY <1>5 DEF Walked
<1>7. QED BY <1>1, <1>6 DEF OneRow, TreeMirrored

LEMMA ScanMirrors ==
    ASSUME IndexShape, WalkShape, OneRow, Walked, TreeMirrored, NEW c \in Clients, Scan(c),
           \/ alone' = Nobody
           \/ alone' = c /\ \A d \in Clients \ {c} : pc[d] \notin Writers
    PROVE  OneRow' /\ Walked' /\ TreeMirrored'
<1>1. /\ pc'[c] = "take" /\ todo'[c] = Present /\ found'[c] = {}
      /\ UNCHANGED <<tree, documents, rounds, read>>
      /\ \A d \in Clients \ {c} : pc'[d] = pc[d] /\ todo'[d] = todo[d] /\ found'[d] = found[d]
  BY DEF Scan, Goto, folderVars, IndexShape, WalkShape, DocumentTypeOK
<1>2. Existing' = Existing /\ Declaring' = Declaring
  BY <1>1 DEF Existing, Declaring
<1>3. Declared' = Declared /\ \A f \in Declaring : HasRow(f)' <=> HasRow(f)
  BY <1>1, <1>2 DEF Declared, HasRow
<1>4. ASSUME Quiet', NEW d \in Clients
      PROVE  /\ pc'[d] = "put" => read'[d] = tree'[Head(todo'[d])]
             /\ Walking(d)' => Behind(d)'
  <2>1. CASE d = c
    <3>1. \A f \in Declaring : f \in Range(Present)
      BY PresentFiles DEF Declaring
    <3>2. QED BY <1>1, <1>2, <2>1, <3>1 DEF Behind
  <2>2. CASE d # c /\ Walking(d)'
    <3>1. Walking(d) /\ pc[d] \in Writers
      BY <1>1, <2>2 DEF Walking, Writers
    <3>2. Quiet
      BY <1>1, <1>4, <2>2, <3>1 DEF Quiet
    <3>3. (pc[d] = "put" => read[d] = tree[Head(todo[d])]) /\ Behind(d)
      BY <3>1, <3>2 DEF Walked
    <3>4. QED BY <1>1, <1>2, <1>3, <2>2, <3>3 DEF Behind
  <2>3. CASE ~Walking(d)'
    BY <2>3 DEF Walking
  <2>4. QED BY <2>1, <2>2, <2>3
<1>5. Walked'
  BY <1>4 DEF Walked
<1>6. QED BY <1>1, <1>2, <1>5 DEF OneRow, TreeMirrored

LEMMA TakeMirrors ==
    ASSUME IndexShape, WalkShape, OneRow, Walked, TreeMirrored, NEW c \in Clients, TakeFile(c)
    PROVE  OneRow' /\ Walked' /\ TreeMirrored'
<1> DEFINE f == Head(todo[c])
<1>1. /\ pc[c] = "take" /\ todo[c] # <<>> /\ f \in Range(Files)
      /\ todo[c] \in Seq(Range(Files))
  BY WalkFacts DEF TakeFile
<1> HIDE DEF f
<1>2. CASE Aborts(c)
  <2>1. /\ UNCHANGED <<tree, documents, rounds>> /\ alone' \in {alone, Nobody}
        /\ pc'[c] = "idle"
        /\ \A d \in Clients \ {c} : /\ pc'[d] = pc[d] /\ todo'[d] = todo[d]
                                    /\ read'[d] = read[d] /\ found'[d] = found[d]
    BY <1>2 DEF Aborts, Dies, Goto, folderVars, IndexShape, WalkShape, DocumentTypeOK
  <2>2. QED BY <2>1, MirrorFrame DEF Walking
<1>3. CASE /\ tree[f] = NoCard
           /\ todo' = [todo EXCEPT ![c] = Tail(@)]
           /\ UNCHANGED <<indexVars, folderVars, documents, read, found, rounds, recallVars>>
  <2>1. /\ UNCHANGED <<pc, alone, tree, documents, read, found, rounds>>
        /\ todo'[c] = Tail(todo[c])
        /\ \A d \in Clients \ {c} : todo'[d] = todo[d]
    BY <1>3 DEF indexVars, folderVars, WalkShape, DocumentTypeOK
  <2>2. Existing' = Existing /\ Declaring' = Declaring
    BY <2>1 DEF Existing, Declaring
  <2>3. Declared' = Declared /\ \A g \in Declaring : HasRow(g)' <=> HasRow(g)
    BY <2>1, <2>2 DEF Declared, HasRow
  <2>4. ASSUME Quiet', NEW d \in Clients
        PROVE  /\ pc'[d] = "put" => read'[d] = tree'[Head(todo'[d])]
               /\ Walking(d)' => Behind(d)'
    <3>1. Quiet /\ (Walking(d)' <=> Walking(d))
      BY <2>1, <2>4 DEF Quiet, Walking
    <3>2. /\ pc[d] = "put" => read[d] = tree[Head(todo[d])]
          /\ Walking(d) => Behind(d)
      BY <3>1 DEF Walked
    <3>3. CASE d = c
      <4>1. \A g \in Declaring : g # f
        BY <1>3 DEF Declaring
      <4>2. \A g \in Range(todo[c]) : g = f \/ g \in Range(Tail(todo[c]))
        BY <1>1, HeadAndTail DEF f
      <4>3. QED BY <1>1, <2>1, <2>2, <2>3, <3>1, <3>2, <3>3, <4>1, <4>2 DEF Behind
    <3>4. CASE d # c
      BY <2>1, <2>2, <2>3, <3>1, <3>2, <3>4 DEF Behind
    <3>5. QED BY <3>3, <3>4
  <2>5. Walked'
    BY <2>4 DEF Walked
  <2>6. QED BY <2>1, <2>2, <2>5 DEF OneRow, TreeMirrored
<1>4. CASE /\ tree[f] \notin {Missing, NoCard}
           /\ read' = [read EXCEPT ![c] = tree[f]] /\ Goto(c, "put")
           /\ UNCHANGED <<embeddings, ids, vectors, degraded, server, wanted, cached, seen,
                          alone, folderVars, documents, todo, found, rounds, recallVars>>
  <2>1. /\ UNCHANGED <<alone, tree, documents, todo, found, rounds>>
        /\ read'[c] = tree[f] /\ pc'[c] = "put"
        /\ \A d \in Clients \ {c} : read'[d] = read[d] /\ pc'[d] = pc[d]
    BY <1>4 DEF Goto, folderVars, IndexShape, WalkShape, DocumentTypeOK
  <2>2. Existing' = Existing /\ Declaring' = Declaring
    BY <2>1 DEF Existing, Declaring
  <2>3. Declared' = Declared /\ \A g \in Declaring : HasRow(g)' <=> HasRow(g)
    BY <2>1, <2>2 DEF Declared, HasRow
  <2>4. \A d \in Clients : (Walking(d)' <=> Walking(d)) /\ (Behind(d)' <=> Behind(d))
    BY <1>1, <2>1, <2>2, <2>3 DEF Walking, Behind
  <2>5. Quiet' <=> Quiet
    BY <2>1 DEF Quiet
  <2>6. read'[c] = tree[Head(todo[c])]
    BY <2>1 DEF f
  <2>7. Walked'
    BY <2>1, <2>4, <2>5, <2>6 DEF Walked
  <2>8. QED BY <2>1, <2>2, <2>7 DEF OneRow, TreeMirrored
<1>5. QED BY <1>2, <1>3, <1>4 DEF TakeFile, f

\* The card of file f is written to row i: the one the file has, or a new one.
Puts(i, f, card) ==
    /\ i \in Items
    /\ i \in Existing => documents[i].source = f
    /\ i \notin Existing => i = card.id
    /\ \A j \in Existing : documents[j].source = f => j = i
    /\ documents' = [documents EXCEPT ![i] = [source |-> f, text |-> card.text]]

LEMMA PutsOne ==
    ASSUME WalkShape, OneRow, NEW c \in Clients, pc[c] = "put", NEW i \in Target(c),
           documents[i].source \in {Nothing, Head(todo[c])},
           documents' = [documents EXCEPT
                             ![i] = [source |-> Head(todo[c]), text |-> read[c].text]]
    PROVE  Puts(i, Head(todo[c]), read[c])
<1> DEFINE f == Head(todo[c])
<1>1. i \in Items /\ (i \in Existing => documents[i].source = f)
  BY TargetItems, RowFacts
<1>2. CASE RowsOf(f) # {}
  <2>1. i \in Existing /\ documents[i].source = f
    BY <1>2 DEF Target, RowsOf
  <2>2. \A j \in Existing : documents[j].source = f => j = i
    BY <2>1 DEF OneRow
  <2>3. QED BY <1>1, <2>1, <2>2 DEF Puts
<1>3. CASE RowsOf(f) = {}
  <2>1. i = read[c].id
    BY <1>3 DEF Target
  <2>2. \A j \in Existing : documents[j].source # f
    BY <1>3 DEF RowsOf
  <2>3. QED BY <1>1, <2>1, <2>2 DEF Puts
<1>4. QED BY <1>2, <1>3

LEMMA PutRows ==
    ASSUME WalkShape, NEW f \in Range(Files), NEW i \in Items, NEW card \in Card, Puts(i, f, card)
    PROVE  /\ Existing' = Existing \union {i}
           /\ \A j \in Items \ {i} : documents'[j] = documents[j]
           /\ documents'[i].source = f /\ documents'[i].text = card.text
<1>1. /\ documents'[i] = [source |-> f, text |-> card.text]
      /\ \A j \in Items \ {i} : documents'[j] = documents[j]
  BY DEF Puts, WalkShape, DocumentTypeOK
<1>2. f # Nothing /\ Missing.source = Nothing
  BY CardFacts
<1>3. documents'[i].source = f /\ documents'[i].text = card.text /\ documents'[i] # Missing
  BY <1>1, <1>2
<1>4. Existing' = Existing \union {i}
  BY <1>1, <1>3 DEF Existing
<1>5. QED BY <1>1, <1>3, <1>4

LEMMA PutOneRow ==
    ASSUME WalkShape, OneRow, NEW f \in Range(Files), NEW i \in Items, NEW card \in Card,
           Puts(i, f, card)
    PROVE  OneRow'
<1>1. /\ Existing' = Existing \union {i} /\ documents'[i].source = f
      /\ \A j \in Items \ {i} : documents'[j] = documents[j]
  BY PutRows
<1>2. \A j \in Existing : documents[j].source = f => j = i
  BY DEF Puts
<1>3. \A j \in Existing' : j = i \/ (j \in Existing /\ documents'[j] = documents[j])
  BY <1>1 DEF Existing
<1> SUFFICES ASSUME NEW j \in Existing', NEW k \in Existing',
                    documents'[j].source = documents'[k].source
             PROVE  j = k
  BY DEF OneRow
<1>4. CASE j # i /\ k # i
  BY <1>3, <1>4 DEF OneRow
<1>5. CASE j = i \/ k = i
  BY <1>1, <1>2, <1>3, <1>5
<1>6. QED BY <1>4, <1>5

\* A card that is written as it is gives its file a current row, and takes none
\* from another; what mirrors the tree goes on doing so.
LEMMA PutMirrors ==
    ASSUME WalkShape, OneRow, TreeMirrored, NEW f \in Declaring, NEW i \in Items,
           Puts(i, f, tree[f]), UNCHANGED <<tree, rounds>>
    PROVE  /\ HasRow(f)' /\ \A g \in Declaring : HasRow(g) => HasRow(g)'
           /\ TreeMirrored'
<1>1. f \in Range(Files) /\ tree[f] \in Card
  BY RowFacts
<1>2. /\ Existing' = Existing \union {i}
      /\ \A j \in Items \ {i} : documents'[j] = documents[j]
      /\ documents'[i].source = f /\ documents'[i].text = tree[f].text
  BY <1>1, PutRows
<1>3. \A j \in Existing' : j = i \/ (j \in Existing /\ documents'[j] = documents[j])
  BY <1>2 DEF Existing
<1>4. Declaring' = Declaring
  BY DEF Declaring
<1>5. HasRow(f)'
  BY <1>2 DEF HasRow
<1>6. ASSUME NEW g \in Declaring, HasRow(g)
      PROVE  HasRow(g)'
  <2>1. PICK j \in Existing : documents[j].source = g /\ documents[j].text = tree[g].text
    BY <1>6 DEF HasRow
  <2>2. CASE j = i
    <3>1. g = f
      BY <2>1, <2>2 DEF Puts
    <3>2. QED BY <1>5, <3>1
  <2>3. CASE j # i
    <3>1. j \in Existing' /\ documents'[j] = documents[j]
      BY <1>2, <2>3, RowFacts
    <3>2. QED BY <2>1, <3>1 DEF HasRow
  <2>4. QED BY <2>2, <2>3
<1>7. TreeMirrored'
  <2>1. ASSUME rounds >= 1, NEW j \in Existing'
        PROVE  /\ \E g \in Declaring : tree[g].id = j
               /\ documents'[j].source \in Declaring =>
                      documents'[j].text = tree[documents'[j].source].text
    <3>1. CASE j \in Existing /\ j # i
      BY <1>3, <2>1, <3>1 DEF TreeMirrored
    <3>2. CASE j = i
      <4>1. \E g \in Declaring : tree[g].id = i
        BY <2>1 DEF TreeMirrored, Puts
      <4>2. QED BY <1>2, <3>2, <4>1
    <3>3. QED BY <1>3, <3>1, <3>2
  <2>2. ASSUME rounds = 2
        PROVE  {documents'[j].source : j \in Existing'} = Declaring
    <3>1. {documents[j].source : j \in Existing} = Declaring
      BY <2>2 DEF TreeMirrored
    <3>2. i \in Existing
      BY <3>1 DEF Puts
    <3>3. Existing' = Existing /\ documents[i].source = f
      BY <1>2, <3>2 DEF Puts
    <3>4. \A j \in Existing : documents'[j].source = documents[j].source
      BY <1>2, <1>3, <3>3
    <3>5. QED BY <3>1, <3>3, <3>4
  <2>3. QED BY <1>4, <2>1, <2>2 DEF TreeMirrored
<1>8. QED BY <1>5, <1>6, <1>7

LEMMA PutHolds ==
    ASSUME IndexShape, WalkShape, OneRow, Walked, TreeMirrored, NEW c \in Clients, PutCard(c)
    PROVE  OneRow' /\ Walked' /\ TreeMirrored'
<1>1. CASE Aborts(c)
  <2>1. /\ UNCHANGED <<tree, documents, rounds>> /\ alone' \in {alone, Nobody}
        /\ pc'[c] = "idle"
        /\ \A d \in Clients \ {c} : /\ pc'[d] = pc[d] /\ todo'[d] = todo[d]
                                    /\ read'[d] = read[d] /\ found'[d] = found[d]
    BY <1>1 DEF Aborts, Dies, Goto, folderVars, IndexShape, WalkShape, DocumentTypeOK
  <2>2. QED BY <2>1, MirrorFrame DEF Walking
<1>2. CASE ~Aborts(c)
  <2>1. pc[c] = "put" /\ \E i \in Target(c) :
            /\ documents[i].source \in {Nothing, Head(todo[c])}
            /\ documents' = [documents EXCEPT
                                 ![i] = [source |-> Head(todo[c]), text |-> read[c].text]]
    BY <1>2 DEF PutCard
  <2> PICK f \in Range(Files) : f = Head(todo[c])
    BY <2>1, WalkFacts
  <2> PICK card \in Card : card = read[c]
    BY <2>1, WalkFacts
  <2>2. PICK i \in Target(c) : Puts(i, f, card)
    BY <2>1, PutsOne
  <2>3. i \in Items /\ todo[c] # <<>> /\ todo[c] \in Seq(Range(Files))
    BY <2>1, WalkFacts, TargetItems
  <2>4. /\ found'[c] = found[c] \union {card.id} /\ todo'[c] = Tail(todo[c])
        /\ pc'[c] = "take" /\ UNCHANGED <<alone, tree, rounds>>
        /\ \A d \in Clients \ {c} : /\ pc'[d] = pc[d] /\ todo'[d] = todo[d]
                                    /\ read'[d] = read[d] /\ found'[d] = found[d]
    BY <1>2 DEF PutCard, Goto, folderVars, IndexShape, WalkShape, DocumentTypeOK
  <2>5. \A x \in Range(todo[c]) : x = f \/ x \in Range(Tail(todo[c]))
    BY <2>3, HeadAndTail
  <2>6. Quiet => card = tree[f] /\ Behind(c)
    BY <2>1 DEF Walked, Walking
  <2>7. OneRow'
    BY <2>2, <2>3, PutOneRow
  <2>8. Quiet' <=> Quiet
    BY <2>4 DEF Quiet
  <2>9. CASE ~Quiet
    <3>1. ~(rounds' >= 1) /\ rounds' # 2
      BY <2>4, <2>9 DEF Quiet, WalkShape, DocumentTypeOK
    <3>2. TreeMirrored'
      BY <3>1 DEF TreeMirrored
    <3>3. Walked'
      BY <2>8, <2>9 DEF Walked
    <3>4. QED BY <2>7, <3>2, <3>3
  <2>10. CASE Quiet
    <3>1. f \in Declaring
      BY <2>6, <2>10, CardFacts DEF Declaring
    <3>2. /\ HasRow(f)' /\ \A g \in Declaring : HasRow(g) => HasRow(g)'
          /\ TreeMirrored'
      BY <2>2, <2>3, <2>4, <2>6, <2>10, <3>1, PutMirrors
    <3>3. Declaring' = Declaring /\ Declared' = Declared
      BY <2>4 DEF Declaring, Declared
    <3>4. card.id \in Declared
      BY <2>6, <2>10, <3>1 DEF Declared
    <3>5. ASSUME NEW d \in Clients
          PROVE  /\ pc'[d] = "put" => read'[d] = tree'[Head(todo'[d])]
                 /\ Walking(d)' => Behind(d)'
      <4>1. CASE d = c
        <5>1. card.id = tree[f].id /\ Behind(c)
          BY <2>6, <2>10
        <5>2. Behind(c)'
          BY <2>4, <2>5, <3>2, <3>3, <3>4, <5>1 DEF Behind
        <5>3. QED BY <2>4, <4>1, <5>2
      <4>2. CASE d # c
        <5>1. /\ pc[d] = "put" => read[d] = tree[Head(todo[d])]
              /\ Walking(d) => Behind(d)
          BY <2>10 DEF Walked
        <5>2. Walking(d)' => Walking(d)
          BY <2>4, <4>2 DEF Walking
        <5>3. QED BY <2>4, <3>2, <3>3, <4>2, <5>1, <5>2 DEF Behind
      <4>3. QED BY <4>1, <4>2
    <3>6. Walked'
      BY <3>5 DEF Walked
    <3>7. QED BY <2>7, <3>2, <3>6
  <2>11. QED BY <2>9, <2>10
<1>3. QED BY <1>1, <1>2

LEMMA PruneHolds ==
    ASSUME IndexShape, WalkShape, Alone, OneRow, Walked, TreeMirrored, NEW c \in Clients, Prune(c)
    PROVE  OneRow' /\ Walked' /\ TreeMirrored'
<1>1. /\ pc[c] = "take" /\ todo[c] = <<>> /\ pc'[c] = "list"
      /\ UNCHANGED <<tree, todo, read, alone>>
      /\ \A d \in Clients \ {c} : pc'[d] = pc[d] /\ found'[d] = found[d]
      /\ rounds' = IF rounds = 0 /\ alone # c THEN 0 ELSE IF rounds = 2 THEN 2 ELSE rounds + 1
      /\ rounds \in 0..2
  BY DEF Prune, EndsWalk, Goto, folderVars, IndexShape, WalkShape, DocumentTypeOK
<1>2. /\ Existing' = Existing \intersect found[c]
      /\ \A i \in Existing' : i \in Existing /\ documents'[i] = documents[i]
  BY DEF Prune, Delete, Existing
<1>3. c # Nobody /\ Walking(c) /\ pc[c] \in Writers
  BY <1>1, NothingAssumption DEF NothingAssumption, Walking, Writers
<1>4. \A d \in Clients : (Walking(d)' => d # c /\ Walking(d)) /\ (pc'[d] = "put" => Walking(d)')
  BY <1>1 DEF Walking
<1>5. Declaring' = Declaring /\ Declared' = Declared
  BY <1>1 DEF Declaring, Declared
<1>6. OneRow'
  BY <1>2 DEF OneRow
<1>7. CASE ~Quiet
  <2>1. rounds' = 0 /\ ~Quiet'
    BY <1>1, <1>3, <1>7 DEF Quiet
  <2>2. QED BY <1>6, <2>1 DEF Walked, TreeMirrored
<1>8. ASSUME Quiet
      PROVE  /\ found[c] = Declared
             /\ \A f \in Declaring : HasRow(f)
  <2>1. Behind(c)
    BY <1>3, <1>8 DEF Walked
  <2>2. \A f : f \notin Range(todo[c])
    BY <1>1 DEF Range
  <2>3. QED BY <2>1, <2>2 DEF Behind, Declared
<1>9. ASSUME Quiet, NEW f \in Declaring, NEW i \in Existing, documents[i].source = f
      PROVE  documents[i].text = tree[f].text
  <2>1. PICK j \in Existing : documents[j].source = f /\ documents[j].text = tree[f].text
    BY <1>8, <1>9 DEF HasRow
  <2>2. QED BY <1>9, <2>1 DEF OneRow
<1>10. ASSUME Quiet, rounds = 0
       PROVE  Walked' /\ TreeMirrored'
  <2>1. alone = c /\ rounds' = 1
    <3>1. alone \in Clients
      BY <1>10 DEF Quiet, IndexShape, IndexTypeOK
    <3>2. alone = c
      BY <1>3, <3>1 DEF Alone
    <3>3. QED BY <1>1, <1>10, <3>2
  <2>2. \A d \in Clients : ~Walking(d)'
    BY <1>3, <1>4, <2>1 DEF Alone, Walking, Writers
  <2>3. Walked'
    BY <1>4, <2>2 DEF Walked
  <2>4. \A i \in Existing' : \E f \in Declaring : tree[f].id = i
    BY <1>2, <1>8, <1>10 DEF Declared
  <2>5. \A i \in Existing' : documents'[i].source \in Declaring =>
            documents'[i].text = tree[documents'[i].source].text
    BY <1>2, <1>9, <1>10
  <2>6. QED BY <1>1, <1>5, <2>1, <2>3, <2>4, <2>5 DEF TreeMirrored
<1>11. ASSUME Quiet, rounds # 0
       PROVE  Walked' /\ TreeMirrored'
  <2>1. rounds >= 1 /\ rounds' = 2
    BY <1>1, <1>11
  <2>2. \A i \in Existing : i \in Declared
    BY <2>1 DEF TreeMirrored, Declared
  <2>3. Existing' = Existing /\ \A i \in Existing : documents'[i] = documents[i]
    BY <1>2, <1>8, <1>11, <2>2
  <2>4. \A f \in Declaring : HasRow(f)'
    BY <1>1, <1>8, <1>11, <2>3 DEF HasRow
  <2>5. ASSUME NEW d \in Clients, Walking(d)'
        PROVE  Behind(d)' /\ (pc'[d] = "put" => read'[d] = tree'[Head(todo'[d])])
    <3>1. d # c /\ Walking(d)
      BY <1>4, <2>5
    <3>2. Behind(d) /\ (pc[d] = "put" => read[d] = tree[Head(todo[d])])
      BY <1>11, <3>1 DEF Walked
    <3>3. QED BY <1>1, <1>5, <2>4, <3>1, <3>2 DEF Behind
  <2>6. Walked'
    BY <1>4, <2>5 DEF Walked
  <2>7. {documents[i].source : i \in Existing} = Declaring
    BY <1>8, <1>11, <2>1, SameFiles DEF TreeMirrored
  <2>8. {documents'[i].source : i \in Existing'} = Declaring
    BY <2>3, <2>7
  <2>9. \A i \in Existing' :
            /\ \E f \in Declaring : tree[f].id = i
            /\ documents'[i].source \in Declaring =>
                   documents'[i].text = tree[documents'[i].source].text
    BY <2>1, <2>3 DEF TreeMirrored
  <2>10. QED BY <1>1, <1>5, <2>6, <2>8, <2>9 DEF TreeMirrored
<1>12. QED BY <1>6, <1>7, <1>10, <1>11

\* After an edit nothing is promised any more.
LEMMA EditHolds ==
    ASSUME OneRow, Edit
    PROVE  OneRow' /\ Walked' /\ TreeMirrored'
<1>1. alone' = Nobody /\ rounds' = 0 /\ UNCHANGED documents
  BY DEF Edit
<1>2. ~Quiet' /\ Existing' = Existing
  BY <1>1 DEF Quiet, Existing
<1>3. QED BY <1>1, <1>2 DEF OneRow, Walked, TreeMirrored

LEMMA MirrorStep ==
    ASSUME Shape, Alone, MirrorInv, [Next]_vars PROVE MirrorInv'
<1> SUFFICES ASSUME store = "documents", store' = store
             PROVE  OneRow' /\ Walked' /\ TreeMirrored'
  BY DEF MirrorInv, Next, NextMemories, NextDocuments, NextPackets, NextLoad, vars
<1>1. IndexShape /\ WalkShape /\ OneRow /\ Walked /\ TreeMirrored
  BY DEF Shape, DocumentShape, MirrorInv
<1>2. ASSUME UNCHANGED <<pc, alone, documentVars>>
      PROVE  OneRow' /\ Walked' /\ TreeMirrored'
  <2>1. UNCHANGED <<tree, documents, rounds, alone, pc, todo, read, found>>
    BY <1>2 DEF documentVars, folderVars, walkVars
  <2>2. QED BY <1>1, <2>1, MirrorFrame
<1>3. ASSUME NEW c \in Clients, LoadDocuments(c) \/ Ingest(c)
      PROVE  OneRow' /\ Walked' /\ TreeMirrored'
  <2>1. CASE LoadDocuments(c)
    <3>1. \A d \in Clients : pc[d] \notin Writers
      BY <1>1, <2>1, LoadAlone DEF LoadDocuments, Load, Writers, SyncSteps
    <3>2. QED BY <1>1, <1>2, <2>1, <3>1, ScanMirrors DEF LoadDocuments
  <2>2. CASE Ingest(c)
    BY <1>1, <2>2, BeginsAlone, ScanMirrors DEF Ingest
  <2>3. QED BY <1>3, <2>1, <2>2
<1>4. ASSUME NEW c \in Clients, TakeFile(c) \/ PutCard(c) \/ Prune(c)
      PROVE  OneRow' /\ Walked' /\ TreeMirrored'
  BY <1>1, <1>4, TakeMirrors, PutHolds, PruneHolds
<1>5. ASSUME NEW c \in Clients, SyncDocuments(c) \/ Answering(c)
      PROVE  OneRow' /\ Walked' /\ TreeMirrored'
  <2>1. UNCHANGED <<tree, documents, rounds, todo, read, found>> /\ alone' \in {alone, Nobody}
    <3>1. CASE SyncDocuments(c)
      BY <1>1, <3>1, SyncAlone DEF SyncDocuments, Assigns, documentVars, folderVars, walkVars
    <3>2. CASE Answering(c)
      BY <3>2 DEF Answering, RecallDocuments, AnswersFrom, Lexical, Dense, TakeIds, PairVectors,
                  folderVars, walkVars
    <3>3. QED BY <1>5, <3>1, <3>2
  <2>2. \E step \in SyncSteps \union {"idle", "lexical", "dense", "ids", "vectors"} :
            pc' = [pc EXCEPT ![c] = step]
    <3>1. CASE SyncDocuments(c)
      <4>1. CASE AssignIds(c) \/ CompleteIndex(c)
        BY <1>1, <4>1, HalvesShape DEF SyncSteps
      <4>2. QED BY <1>1, <3>1, <4>1, ListedDocumentsTable, SyncShape DEF SyncDocuments, WalkShape
    <3>2. CASE Answering(c)
      BY <3>2 DEF Answering, RecallDocuments, AnswersFrom, Lexical, Dense, TakeIds, PairVectors,
                  Ends, Goto
    <3>3. QED BY <1>5, <3>1, <3>2
  <2>3. ~Walking(c)' /\ \A d \in Clients \ {c} : pc'[d] = pc[d]
    BY <1>1, <2>2 DEF Walking, SyncSteps, IndexShape
  <2>4. \A d \in Clients : Walking(d)' => pc'[d] = pc[d]
    BY <2>3
  <2>5. QED BY <1>1, <2>1, <2>4, MirrorFrame
<1>6. CASE Edit
  BY <1>1, <1>6, EditHolds
<1>7. CASE StopDocuments
  <2>1. UNCHANGED <<tree, documents, rounds>> /\ alone' = Nobody
    BY <1>7 DEF StopDocuments, Stop, folderVars
  <2>2. \A d \in Clients : ~Walking(d)'
    <3>1. \A d \in Clients : pc'[d] = "idle"
      BY <1>7, Zenon DEF StopDocuments, Stop
    <3>2. QED BY <3>1 DEF Walking
  <2>3. QED BY <1>1, <2>1, <2>2, MirrorFrame
<1>8. CASE UNCHANGED vars
  BY <1>2, <1>8 DEF vars, indexVars
<1>9. QED BY <1>3, <1>4, <1>5, <1>6, <1>7, <1>8
      DEF Next, NextMemories, NextDocuments, NextPackets, NextLoad, DocumentNext, Answering

\* After an ingestion that ran alone and completed since the last edit each row
\* has a declared id and the text of its file's card, and after the next that
\* completes the files with a row are those with a card, whatever overlapping,
\* aborted and cut-off ingestions have done before and do after.
THEOREM TreeIsMirrored == Spec => []TreeMirrored
<1>1. Init => MirrorInv
  <2> SUFFICES ASSUME Init PROVE OneRow /\ Walked /\ TreeMirrored
    BY DEF MirrorInv
  <2>1. /\ \A i \in Items : documents[i] = Missing
        /\ rounds = 0 /\ alone = Nobody
    BY DEF Init, IndexInit, DocumentInit
  <2>2. Existing = {} /\ ~Quiet
    BY <2>1 DEF Existing, Quiet
  <2>3. QED BY <2>1, <2>2 DEF OneRow, Walked, TreeMirrored
<1>2. SyncInv /\ MirrorInv /\ [Next]_vars => MirrorInv'
  BY MirrorStep DEF SyncInv
<1>3. SyncInv /\ MirrorInv => TreeMirrored
  BY DEF SyncInv, Shape, DocumentShape, MirrorInv, TreeMirrored
<1>4. QED BY <1>1, <1>2, <1>3, SyncHolds, PTL DEF Spec

-----------------------------------------------------------------------------
(* Loading the workspace *)

\* How many built-ins a load has created goes with its phase.
Counted ==
    \A c \in Loaders :
        /\ Creating(c) => created[c] < Len(Builtins)
        /\ ~Creating(c) /\ at[c] # "publish" => created[c] = 0

LoadShape == LoadTypeOK /\ Counted

Migrated == {"count", "seed", "check", "create", "insert", "publish"}

\* What a load has behind it is in the database, whoever did it.
SeedInv ==
    /\ SeedsWhole
    /\ \A c \in Loaders :
          /\ at[c] = "migrate" => dialect = "postgres"
          /\ at[c] = "upgrade" /\ dialect = "sqlite" => TablesOf[4] \in tables
          /\ at[c] \in Migrated => recorded = {4, 5}
          /\ at[c] \in Migrated \ {"count", "seed"} => memories = Seeds

\* The first k built-ins have one version each, and the others none: k is
\* where the load that creates them stands, and all or nothing when there is
\* none and none was cut off.
Reached(k) ==
    /\ \A n \in DOMAIN Builtins : versions[Builtins[n]] = IF n <= k THEN 1 ELSE 0
    /\ \A c \in Loaders : Creating(c) => created[c] = k
    /\ ~interrupted => k \in {0, Len(Builtins)} \/ \E c \in Loaders : Creating(c)
    /\ ~interrupted /\ (serving \/ \E c \in Loaders : at[c] = "publish") => k = Len(Builtins)

\* While loads do not overlap, one of them at most is under way, and none
\* once the workspace is served.
Lone ==
    /\ \A c, d \in Loaders : at[c] # "idle" /\ at[d] # "idle" => c = d
    /\ serving => \A c \in Loaders : at[c] = "idle"
    /\ \E k \in 0..Len(Builtins) : Reached(k)

LoneInv == ~overlapped => Lone

-----------------------------------------------------------------------------
(* Which ids there are *)

LEMMA BuiltinsFacts ==
    /\ Len(Builtins) \in Nat /\ Len(Builtins) > 0
    /\ DOMAIN Builtins = 1..Len(Builtins)
    /\ \A n \in 1..Len(Builtins) : Builtins[n] \in Stable
    /\ \A b \in Stable : \E n \in 1..Len(Builtins) : b = Builtins[n]
<1>1. Len(Builtins) \in Nat /\ DOMAIN Builtins = 1..Len(Builtins)
  BY BuiltinsAssumption DEF BuiltinsAssumption
<1>2. Len(Builtins) > 0
  BY <1>1, BuiltinsAssumption DEF BuiltinsAssumption
<1>3. QED BY <1>1, <1>2 DEF Stable

\* Among other stores a load is left as it was.
LEMMA LoadPart == [Next]_vars => [LoadNext]_loadVars
BY DEF Next, NextMemories, NextDocuments, NextPackets, NextLoad, vars

LEMMA LoadStart == Init => LoadInit
BY DEF Init, LoadIdle

-----------------------------------------------------------------------------
(* Types, and how many built-ins a load has created *)

LEMMA LoadShapeStart == LoadInit => LoadShape
<1> SUFFICES ASSUME LoadInit PROVE LoadShape
  OBVIOUS
<1>1. 0 \in 0..Len(Builtins) /\ 0 \in Nat /\ 1 \in Nat
  BY BuiltinsFacts
<1>2. /\ versions \in [Stable -> Nat] /\ created \in [Loaders -> 0..Len(Builtins)]
      /\ noted \in [Loaders -> Nat] /\ \A c \in Loaders : at[c] = "idle" /\ created[c] = 0
  BY <1>1, Zenon DEF LoadInit
<1>3. /\ tables \subseteq {"base", "architecture"} /\ recorded \subseteq {4, 5}
      /\ memories \subseteq Seeds
  BY DEF LoadInit
<1>4. LoadTypeOK
  BY <1>2, <1>3 DEF LoadInit, LoadTypeOK
<1>5. QED BY <1>2, <1>4 DEF LoadShape, Counted, Creating

LEMMA TablesShape ==
    ASSUME LoadShape, NEW c \in Loaders,
           CreateTables(c) \/ Upgrade(c) \/ ReadMigrations(c) \/ CommitMigrations(c)
    PROVE  LoadShape'
<1>1. {TablesOf[v] : v \in {4, 5}} \subseteq {"base", "architecture"}
  BY DEF TablesOf
<1>2. tables' \subseteq {"base", "architecture"}
  <2>1. CASE CreateTables(c)
    BY <1>1, <2>1 DEF CreateTables, LoadShape, LoadTypeOK
  <2>2. CASE Upgrade(c)
    BY <1>1, <2>2 DEF Upgrade, LoadShape, LoadTypeOK
  <2>3. CASE ReadMigrations(c) \/ CommitMigrations(c)
    BY <1>1, <2>3 DEF ReadMigrations, CommitMigrations, LoadShape, LoadTypeOK
  <2>4. QED BY <2>1, <2>2, <2>3
<1>3. noted' \in [Loaders -> Nat]
  BY DEF CreateTables, Upgrade, ReadMigrations, CommitMigrations, Reads, LoadShape, LoadTypeOK
<1>4. LoadTypeOK'
  BY <1>2, <1>3
  DEF CreateTables, Upgrade, ReadMigrations, CommitMigrations, Proceeds, LoadShape, LoadTypeOK
<1>5. Counted'
  BY DEF CreateTables, Upgrade, ReadMigrations, CommitMigrations, Proceeds, LoadShape,
         LoadTypeOK, Counted, Creating
<1>6. QED BY <1>4, <1>5 DEF LoadShape

LEMMA SeedShape ==
    ASSUME LoadShape, NEW c \in Loaders,
           Get(c) \/ CountMemories(c) \/ Seed(c) \/ CheckCapabilities(c)
    PROVE  LoadShape'
<1>1. LoadTypeOK'
  BY DEF Get, CountMemories, Seed, CheckCapabilities, Proceeds, LoadShape, LoadTypeOK
<1>2. CASE Get(c) \/ CountMemories(c) \/ Seed(c)
  BY <1>1, <1>2 DEF Get, CountMemories, Seed, Proceeds, LoadShape, LoadTypeOK, Counted, Creating
<1>3. CASE CheckCapabilities(c)
  BY <1>1, <1>3, BuiltinsFacts
  DEF CheckCapabilities, Proceeds, LoadShape, LoadTypeOK, Counted, Creating
<1>4. QED BY <1>2, <1>3

LEMMA CreatesShape ==
    ASSUME LoadShape, NEW c \in Loaders, Creating(c), Creates(c), noted' \in [Loaders -> Nat]
    PROVE  LoadShape'
<1>1. created[c] \in Nat /\ created[c] < Len(Builtins)
  BY DEF LoadShape, LoadTypeOK, Counted
<1>2. NextBuiltin(c) \in Stable
  BY <1>1, BuiltinsFacts DEF NextBuiltin
<1>3. versions' \in [Stable -> Nat]
  <2>1. versions[NextBuiltin(c)] + 1 \in Nat
    BY <1>2 DEF LoadShape, LoadTypeOK
  <2>2. QED BY <1>2, <2>1 DEF Creates, LoadShape, LoadTypeOK
<1>4. created' \in [Loaders -> 0..Len(Builtins)]
  BY <1>1, BuiltinsFacts DEF Creates, LoadShape, LoadTypeOK
<1>5. LoadTypeOK'
  BY <1>3, <1>4 DEF Creates, Proceeds, LoadShape, LoadTypeOK
<1>6. Counted'
  BY <1>1, BuiltinsFacts DEF Creates, Proceeds, LoadShape, LoadTypeOK, Counted, Creating
<1>7. QED BY <1>5, <1>6 DEF LoadShape

LEMMA BuiltinShape ==
    ASSUME LoadShape, NEW c \in Loaders,
           CreateBuiltin(c) \/ ReadVersion(c) \/ InsertVersion(c)
    PROVE  LoadShape'
<1>1. CASE CreateBuiltin(c)
  BY <1>1, CreatesShape DEF CreateBuiltin, Creating, LoadShape, LoadTypeOK
<1>2. CASE InsertVersion(c)
  <2>1. noted' \in [Loaders -> Nat]
    BY <1>2 DEF InsertVersion, Reads, LoadShape, LoadTypeOK
  <2>2. QED BY <1>2, <2>1, CreatesShape DEF InsertVersion, Creating
<1>3. CASE ReadVersion(c)
  <2>1. created[c] \in Nat /\ created[c] < Len(Builtins)
    BY <1>3 DEF ReadVersion, LoadShape, LoadTypeOK, Counted, Creating
  <2>2. versions[NextBuiltin(c)] \in Nat
    BY <2>1, BuiltinsFacts DEF NextBuiltin, LoadShape, LoadTypeOK
  <2>3. LoadTypeOK'
    BY <1>3, <2>2 DEF ReadVersion, Reads, Proceeds, LoadShape, LoadTypeOK
  <2>4. Counted'
    BY <1>3 DEF ReadVersion, Proceeds, LoadShape, LoadTypeOK, Counted, Creating
  <2>5. QED BY <2>3, <2>4 DEF LoadShape
<1>4. QED BY <1>1, <1>2, <1>3

LEMMA EndShape ==
    ASSUME LoadShape, (\E c \in Loaders : Publish(c) \/ LoadDies(c)) \/ ProcessStops
    PROVE  LoadShape'
<1>1. ASSUME NEW c \in Loaders, Publish(c)
      PROVE  LoadShape'
  BY <1>1, BuiltinsFacts DEF Publish, Proceeds, LoadShape, LoadTypeOK, Counted, Creating
<1>2. ASSUME NEW c \in Loaders, LoadDies(c)
      PROVE  LoadShape'
  <2>1. LoadTypeOK'
    BY <1>2, BuiltinsFacts DEF LoadDies, Proceeds, Reads, LoadShape, LoadTypeOK, Creating
  <2>2. Counted'
    BY <1>2 DEF LoadDies, Proceeds, LoadShape, LoadTypeOK, Counted, Creating
  <2>3. QED BY <2>1, <2>2 DEF LoadShape
<1>3. ASSUME ProcessStops
      PROVE  LoadShape'
  <2>1. 0 \in 0..Len(Builtins) /\ 0 \in Nat
    BY BuiltinsFacts
  <2>2. /\ created' \in [Loaders -> 0..Len(Builtins)] /\ noted' \in [Loaders -> Nat]
        /\ \A c \in Loaders : at'[c] = "idle" /\ created'[c] = 0
        /\ interrupted' \in BOOLEAN
    BY <1>3, <2>1, Zenon DEF ProcessStops, LoadShape, LoadTypeOK
  <2>3. LoadTypeOK'
    BY <1>3, <2>2 DEF ProcessStops, LoadShape, LoadTypeOK
  <2>4. QED BY <2>2, <2>3 DEF LoadShape, Counted, Creating
<1>4. QED BY <1>1, <1>2, <1>3

LEMMA LoadShapeStep == LoadShape /\ [LoadNext]_loadVars => LoadShape'
<1> SUFFICES ASSUME LoadShape, [LoadNext]_loadVars PROVE LoadShape'
  OBVIOUS
<1>1. CASE UNCHANGED loadVars
  BY <1>1 DEF loadVars, LoadShape, LoadTypeOK, Counted, Creating
<1>2. CASE LoadNext
  BY <1>2, TablesShape, SeedShape, BuiltinShape, EndShape DEF LoadNext
<1>3. QED BY <1>1, <1>2

\* Rows, versions and what each load has read have their types.
THEOREM LoadTypesCorrect == Spec => []LoadTypeOK
<1>1. Init => LoadShape
  BY LoadStart, LoadShapeStart
<1>2. LoadShape /\ [Next]_vars => LoadShape'
  BY LoadPart, LoadShapeStep
<1>3. LoadShape => LoadTypeOK
  BY DEF LoadShape
<1>4. QED BY <1>1, <1>2, <1>3, PTL DEF Spec

-----------------------------------------------------------------------------
(* A recorded version has its tables, and the demo memories are whole *)

LEMMA SeedStart == LoadInit => SeedInv
<1> SUFFICES ASSUME LoadInit PROVE SeedInv
  OBVIOUS
<1>1. \A c \in Loaders : at[c] = "idle"
  BY DEF LoadInit
<1>2. SeedsWhole
  BY DEF LoadInit, SeedsWhole, TablesOf
<1>3. QED BY <1>1, <1>2 DEF SeedInv, Migrated

LEMMA TablesSeed ==
    ASSUME LoadTypeOK, SeedInv, NEW c \in Loaders,
           CreateTables(c) \/ Upgrade(c) \/ ReadMigrations(c) \/ CommitMigrations(c)
    PROVE  SeedInv'
<1>1. TablesOf[4] = "base" /\ TablesOf[5] = "architecture"
  BY DEF TablesOf
<1>2. recorded \subseteq {4, 5} /\ (\A v \in recorded : TablesOf[v] \in tables)
  BY DEF LoadTypeOK, SeedInv, SeedsWhole
<1>3. CASE CreateTables(c)
  BY <1>1, <1>2, <1>3 DEF CreateTables, Proceeds, LoadTypeOK, SeedInv, SeedsWhole, Migrated
<1>4. CASE Upgrade(c)
  <2>1. TablesOf[4] \in tables /\ tables \subseteq tables'
    BY <1>4 DEF Upgrade, SeedInv
  <2>2. TablesOf[5] \in tables'
    <3>1. CASE 5 \in recorded
      BY <1>2, <2>1, <3>1
    <3>2. CASE 5 \notin recorded
      BY <1>4, <3>2 DEF Upgrade
    <3>3. QED BY <3>1, <3>2
  <2>3. recorded' = {4, 5} /\ \A v \in recorded' : TablesOf[v] \in tables'
    BY <1>4, <2>1, <2>2 DEF Upgrade
  <2>4. QED BY <1>4, <2>1, <2>3 DEF Upgrade, Proceeds, LoadTypeOK, SeedInv, SeedsWhole, Migrated
<1>5. CASE ReadMigrations(c)
  <2>1. UNCHANGED <<dialect, tables, recorded, memories, serving>> /\ SeedsWhole'
    BY <1>5 DEF ReadMigrations, SeedInv, SeedsWhole
  <2>2. dialect # "sqlite" \/ TablesOf[4] \in tables
    BY <1>5 DEF ReadMigrations, SeedInv
  <2>3. at' = [at EXCEPT ![c] = "upgrade"]
    BY <1>5 DEF ReadMigrations, Proceeds
  <2>4. QED BY <2>1, <2>2, <2>3 DEF LoadTypeOK, SeedInv, Migrated
<1>6. CASE CommitMigrations(c)
  <2>1. recorded' = {4, 5} /\ \A v \in recorded' : TablesOf[v] \in tables'
    BY <1>6 DEF CommitMigrations
  <2>2. QED BY <1>6, <2>1
        DEF CommitMigrations, Proceeds, LoadTypeOK, SeedInv, SeedsWhole, Migrated
<1>7. QED BY <1>3, <1>4, <1>5, <1>6

LEMMA SeedSeed ==
    ASSUME LoadTypeOK, SeedInv, NEW c \in Loaders,
           Get(c) \/ CountMemories(c) \/ Seed(c) \/ CheckCapabilities(c)
    PROVE  SeedInv'
<1>1. CASE Get(c)
  BY <1>1 DEF Get, Proceeds, LoadTypeOK, SeedInv, SeedsWhole, Migrated
<1>2. CASE CountMemories(c)
  BY <1>2 DEF CountMemories, Proceeds, LoadTypeOK, SeedInv, SeedsWhole, Migrated
<1>3. CASE Seed(c)
  <2>1. memories' = Seeds
    BY <1>3 DEF Seed, SeedInv, SeedsWhole
  <2>2. QED BY <1>3, <2>1 DEF Seed, Proceeds, LoadTypeOK, SeedInv, SeedsWhole, Migrated
<1>4. CASE CheckCapabilities(c)
  <2>1. \E step \in {"publish", "create"} : Proceeds(c, step)
    BY <1>4 DEF CheckCapabilities
  <2>2. QED BY <1>4, <2>1 DEF CheckCapabilities, Proceeds, LoadTypeOK, SeedInv, SeedsWhole, Migrated
<1>5. QED BY <1>1, <1>2, <1>3, <1>4

LEMMA BuiltinSeed ==
    ASSUME LoadTypeOK, SeedInv, NEW c \in Loaders,
           CreateBuiltin(c) \/ ReadVersion(c) \/ InsertVersion(c)
    PROVE  SeedInv'
<1>1. /\ UNCHANGED <<dialect, tables, recorded, memories, serving>>
      /\ at[c] \in {"create", "insert"}
      /\ \E step \in {"publish", "create", "insert"} : Proceeds(c, step)
  BY DEF CreateBuiltin, ReadVersion, InsertVersion, Creates
<1>2. QED BY <1>1 DEF Proceeds, LoadTypeOK, SeedInv, SeedsWhole, Migrated

LEMMA EndSeed ==
    ASSUME LoadTypeOK, SeedInv, (\E c \in Loaders : Publish(c) \/ LoadDies(c)) \/ ProcessStops
    PROVE  SeedInv'
<1>1. ASSUME NEW c \in Loaders, Publish(c)
      PROVE  SeedInv'
  BY <1>1 DEF Publish, Proceeds, LoadTypeOK, SeedInv, SeedsWhole, Migrated
<1>2. ASSUME NEW c \in Loaders, LoadDies(c)
      PROVE  SeedInv'
  BY <1>2 DEF LoadDies, Proceeds, LoadTypeOK, SeedInv, SeedsWhole, Migrated
<1>3. CASE ProcessStops
  <2>1. \A c \in Loaders : at'[c] = "idle"
    BY <1>3, Zenon DEF ProcessStops
  <2>2. QED BY <1>3, <2>1 DEF ProcessStops, SeedInv, SeedsWhole, Migrated
<1>4. QED BY <1>1, <1>2, <1>3

LEMMA SeedStep == LoadTypeOK /\ SeedInv /\ [LoadNext]_loadVars => SeedInv'
<1> SUFFICES ASSUME LoadTypeOK, SeedInv, [LoadNext]_loadVars PROVE SeedInv'
  OBVIOUS
<1>1. CASE UNCHANGED loadVars
  BY <1>1 DEF loadVars, SeedInv, SeedsWhole, Migrated
<1>2. CASE LoadNext
  BY <1>2, TablesSeed, SeedSeed, BuiltinSeed, EndSeed DEF LoadNext
<1>3. QED BY <1>1, <1>2

\* However many loads overlap, die or are cut off, the database they share is
\* migrated and seeded as a whole or not at all, and before it is served.
THEOREM DatabaseIsWhole == Spec => []SeedsWhole
<1>1. Init => SeedInv
  BY LoadStart, SeedStart
<1>2. LoadTypeOK /\ SeedInv /\ [Next]_vars => SeedInv'
  BY LoadPart, SeedStep
<1>3. SeedInv => SeedsWhole
  BY DEF SeedInv
<1>4. QED BY <1>1, <1>2, <1>3, LoadTypesCorrect, PTL DEF Spec

-----------------------------------------------------------------------------
(* Loads that do not overlap create each built-in once, in order *)

LEMMA LoneStart == LoadInit => LoneInv
<1> SUFFICES ASSUME LoadInit PROVE Lone
  BY DEF LoneInv
<1>1. (\A c \in Loaders : at[c] = "idle") /\ ~serving
  BY DEF LoadInit
<1>2. 0 \in 0..Len(Builtins) /\ Len(Builtins) \in 0..Len(Builtins)
  BY BuiltinsFacts
<1>3. CASE versions = [b \in Stable |-> 0]
  <2>1. \A n \in DOMAIN Builtins : versions[Builtins[n]] = IF n <= 0 THEN 1 ELSE 0
    BY <1>3, BuiltinsFacts
  <2>2. Reached(0)
    BY <1>1, <2>1 DEF Reached, Creating
  <2>3. QED BY <1>1, <1>2, <2>2 DEF Lone
<1>4. CASE versions = [b \in Stable |-> 1]
  <2>1. \A n \in DOMAIN Builtins : versions[Builtins[n]] = IF n <= Len(Builtins) THEN 1 ELSE 0
    BY <1>4, BuiltinsFacts
  <2>2. Reached(Len(Builtins))
    BY <1>1, <2>1 DEF Reached, Creating
  <2>3. QED BY <1>1, <1>2, <2>2 DEF Lone
<1>5. QED BY <1>3, <1>4 DEF LoadInit

\* A step of a load that neither creates built-ins nor has done so.
LEMMA MoveLone ==
    ASSUME LoadShape, Lone, NEW c \in Loaders, NEW step, at' = [at EXCEPT ![c] = step],
           at[c] # "idle" \/ (~serving /\ \A d \in Loaders : at[d] = "idle"),
           ~Creating(c), step \notin {"idle", "create", "insert", "publish"},
           UNCHANGED <<versions, serving, created, interrupted>>
    PROVE  Lone'
<1>1. /\ \A d \in Loaders \ {c} : at[d] = "idle" /\ at'[d] = "idle"
      /\ at'[c] = step /\ ~serving'
  BY DEF Lone, LoadShape, LoadTypeOK
<1>2. PICK k \in 0..Len(Builtins) : Reached(k)
  BY DEF Lone
<1>3. \A d \in Loaders : ~Creating(d) /\ ~Creating(d)' /\ at'[d] # "publish"
  BY <1>1 DEF Creating
<1>4. Reached(k)'
  BY <1>1, <1>2, <1>3 DEF Reached
<1>5. QED BY <1>1, <1>4 DEF Lone

LEMMA EarlyLone ==
    ASSUME LoadShape, LoneInv, ~overlapped', NEW c \in Loaders,
           \/ Get(c) \/ CreateTables(c) \/ Upgrade(c) \/ ReadMigrations(c)
           \/ CommitMigrations(c) \/ CountMemories(c) \/ Seed(c)
    PROVE  Lone'
<1>1. ~overlapped
  BY DEF Get, CreateTables, Upgrade, ReadMigrations, CommitMigrations, CountMemories, Seed
<1>2. Lone
  BY <1>1 DEF LoneInv
<1>3. CASE Get(c)
  <2>1. ~serving /\ \A d \in Loaders : at[d] = "idle"
    BY <1>3 DEF Get
  <2>2. \E step \in {"tables", "migrate"} : at' = [at EXCEPT ![c] = step]
    BY <1>3 DEF Get, Proceeds
  <2>3. UNCHANGED <<versions, serving, created, interrupted>> /\ ~Creating(c)
    BY <1>3 DEF Get, Creating
  <2>4. QED BY <1>2, <2>1, <2>2, <2>3, MoveLone
<1>4. CASE CreateTables(c) \/ Upgrade(c) \/ ReadMigrations(c)
  <2>1. \E step \in {"upgrade", "count"} : at' = [at EXCEPT ![c] = step]
    BY <1>4 DEF CreateTables, Upgrade, ReadMigrations, Proceeds
  <2>2. UNCHANGED <<versions, serving, created, interrupted>> /\ at[c] # "idle" /\ ~Creating(c)
    BY <1>4 DEF CreateTables, Upgrade, ReadMigrations, Creating
  <2>3. QED BY <1>2, <2>1, <2>2, MoveLone
<1>5. CASE CommitMigrations(c) \/ CountMemories(c) \/ Seed(c)
  <2>1. \E step \in {"count", "seed", "check"} : at' = [at EXCEPT ![c] = step]
    BY <1>5 DEF CommitMigrations, CountMemories, Seed, Proceeds
  <2>2. UNCHANGED <<versions, serving, created, interrupted>> /\ at[c] # "idle" /\ ~Creating(c)
    BY <1>5 DEF CommitMigrations, CountMemories, Seed, Creating
  <2>3. QED BY <1>2, <2>1, <2>2, MoveLone
<1>6. QED BY <1>3, <1>4, <1>5

\* Any capability means that all of them are there, unless one was cut off.
LEMMA CheckLone ==
    ASSUME LoadShape, Lone, NEW c \in Loaders, CheckCapabilities(c)
    PROVE  Lone'
<1>1. at[c] = "check" /\ UNCHANGED <<versions, serving, created, interrupted>>
  BY DEF CheckCapabilities
<1>2. /\ \A d \in Loaders \ {c} : at[d] = "idle" /\ at'[d] = "idle"
      /\ ~serving' /\ created[c] = 0
  <2>1. created[c] = 0
    BY <1>1 DEF LoadShape, Counted, Creating
  <2>2. \A d \in Loaders \ {c} : at[d] = "idle" /\ at'[d] = "idle"
    BY <1>1 DEF CheckCapabilities, Proceeds, Lone, LoadShape, LoadTypeOK
  <2>3. ~serving'
    BY <1>1 DEF Lone
  <2>4. QED BY <2>1, <2>2, <2>3
<1>3. PICK k \in 0..Len(Builtins) : Reached(k)
  BY DEF Lone
<1>4. \A d \in Loaders : ~Creating(d)
  BY <1>1, <1>2 DEF Creating
<1>5. ~interrupted => k \in {0, Len(Builtins)}
  BY <1>3, <1>4 DEF Reached
<1>6. CASE \E b \in Stable : versions[b] > 0
  <2>1. at'[c] = "publish"
    BY <1>6 DEF CheckCapabilities, Proceeds, LoadShape, LoadTypeOK
  <2>2. k # 0
    <3>1. PICK n \in 1..Len(Builtins) : versions[Builtins[n]] > 0
      BY <1>6, BuiltinsFacts
    <3>2. versions[Builtins[n]] = IF n <= k THEN 1 ELSE 0
      BY <1>3, BuiltinsFacts DEF Reached
    <3>3. QED BY <3>1, <3>2
  <2>3. \A d \in Loaders : ~Creating(d)'
    BY <1>2, <2>1 DEF Creating
  <2>4. Reached(k)'
    BY <1>1, <1>3, <1>5, <2>2, <2>3 DEF Reached
  <2>5. QED BY <1>2, <2>1, <2>4 DEF Lone
<1>7. CASE ~ \E b \in Stable : versions[b] > 0
  <2>1. at'[c] = "create"
    BY <1>7 DEF CheckCapabilities, Proceeds, LoadShape, LoadTypeOK
  <2>2. k = 0
    <3>1. 1 \in 1..Len(Builtins) /\ Builtins[1] \in Stable
      BY BuiltinsFacts
    <3>2. versions[Builtins[1]] = IF 1 <= k THEN 1 ELSE 0
      BY <1>3, <3>1, BuiltinsFacts DEF Reached
    <3>3. ~(versions[Builtins[1]] > 0)
      BY <1>7, <3>1
    <3>4. QED BY <3>2, <3>3
  <2>3. Creating(c)' /\ \A d \in Loaders \ {c} : ~Creating(d)'
    BY <1>2, <2>1 DEF Creating
  <2>4. \A d \in Loaders : at'[d] # "publish"
    BY <1>2, <2>1
  <2>5. Reached(k)'
    BY <1>1, <1>2, <1>3, <2>2, <2>3, <2>4 DEF Reached
  <2>6. QED BY <1>2, <2>1, <2>5 DEF Lone
<1>8. QED BY <1>6, <1>7

LEMMA CreatesLone ==
    ASSUME LoadShape, Lone, NEW c \in Loaders, Creating(c), Creates(c)
    PROVE  Lone'
<1>1. /\ \A d \in Loaders \ {c} : at[d] = "idle" /\ at'[d] = "idle"
      /\ at'[c] = IF created[c] + 1 = Len(Builtins) THEN "publish" ELSE "create"
      /\ ~serving' /\ UNCHANGED interrupted
  BY DEF Creates, Proceeds, Creating, Lone, LoadShape, LoadTypeOK
<1>2. PICK k \in 0..Len(Builtins) : Reached(k)
  BY DEF Lone
<1>3. created[c] = k /\ k < Len(Builtins) /\ k \in Nat
  <2>1. created[c] = k
    BY <1>2 DEF Reached
  <2>2. created[c] < Len(Builtins)
    BY DEF LoadShape, Counted
  <2>3. QED BY <2>1, <2>2, BuiltinsFacts
<1>4. created'[c] = k + 1
  BY <1>3 DEF Creates, LoadShape, LoadTypeOK
<1>5. ASSUME NEW n \in DOMAIN Builtins
      PROVE  versions'[Builtins[n]] = IF n <= k + 1 THEN 1 ELSE 0
  <2>1. versions[Builtins[n]] = IF n <= k THEN 1 ELSE 0
    BY <1>2 DEF Reached
  <2>2. versions' = [versions EXCEPT ![Builtins[k + 1]] = @ + 1]
    BY <1>3 DEF Creates, NextBuiltin
  <2>3. versions \in [Stable -> Nat] /\ Builtins[n] \in Stable /\ Builtins[k + 1] \in Stable
        /\ n \in 1..Len(Builtins) /\ k + 1 \in DOMAIN Builtins
    BY <1>3, BuiltinsFacts DEF LoadShape, LoadTypeOK
  <2>4. CASE n = k + 1
    <3>1. versions'[Builtins[n]] = versions[Builtins[n]] + 1
      BY <2>2, <2>3, <2>4
    <3>2. QED BY <1>3, <2>1, <2>4, <3>1
  <2>5. CASE n # k + 1
    <3>1. Builtins[n] # Builtins[k + 1]
      BY <2>3, <2>5, BuiltinsAssumption DEF BuiltinsAssumption
    <3>2. versions'[Builtins[n]] = versions[Builtins[n]]
      BY <2>2, <2>3, <3>1
    <3>3. QED BY <1>3, <2>1, <2>3, <2>5, <3>2
  <2>6. QED BY <2>4, <2>5
<1>6. k + 1 \in 0..Len(Builtins)
  BY <1>3, BuiltinsFacts
<1>7. \A d \in Loaders : Creating(d)' => d = c
  BY <1>1 DEF Creating
<1>8. at'[c] = "publish" => k + 1 = Len(Builtins)
  BY <1>1, <1>3
<1>9. Creating(c)' \/ k + 1 = Len(Builtins)
  BY <1>1, <1>3 DEF Creating
<1>10. Reached(k + 1)'
  <2>1. \A n \in DOMAIN Builtins : versions'[Builtins[n]] = IF n <= k + 1 THEN 1 ELSE 0
    BY <1>5
  <2>2. \A d \in Loaders : Creating(d)' => created'[d] = k + 1
    BY <1>4, <1>7
  <2>3. k + 1 \in {0, Len(Builtins)} \/ \E d \in Loaders : Creating(d)'
    BY <1>9
  <2>4. (\E d \in Loaders : at'[d] = "publish") => k + 1 = Len(Builtins)
    BY <1>1, <1>8
  <2>5. QED BY <1>1, <2>1, <2>2, <2>3, <2>4 DEF Reached
<1>11. QED BY <1>1, <1>6, <1>10 DEF Lone

LEMMA ReadLone ==
    ASSUME LoadShape, Lone, NEW c \in Loaders, ReadVersion(c)
    PROVE  Lone'
<1>1. /\ \A d \in Loaders \ {c} : at[d] = "idle" /\ at'[d] = "idle"
      /\ at[c] = "create" /\ at'[c] = "insert" /\ ~serving'
      /\ UNCHANGED <<versions, created, interrupted, serving>>
  BY DEF ReadVersion, Proceeds, Lone, LoadShape, LoadTypeOK
<1>2. PICK k \in 0..Len(Builtins) : Reached(k)
  BY DEF Lone
<1>3. created[c] = k
  BY <1>1, <1>2 DEF Reached, Creating
<1>4. Creating(c)' /\ Creating(c) /\ \A d \in Loaders : Creating(d)' => d = c
  BY <1>1 DEF Creating
<1>5. \A d \in Loaders : at'[d] # "publish"
  BY <1>1
<1>6. Reached(k)'
  BY <1>1, <1>2, <1>3, <1>4, <1>5 DEF Reached
<1>7. QED BY <1>1, <1>6 DEF Lone

LEMMA EndLone ==
    ASSUME LoadShape, Lone, (\E c \in Loaders : Publish(c) \/ LoadDies(c)) \/ ProcessStops
    PROVE  Lone'
<1>1. PICK k \in 0..Len(Builtins) : Reached(k)
  BY DEF Lone
<1>2. \A c \in Loaders : at'[c] = "idle"
  <2>1. ASSUME NEW c \in Loaders, at[c] # "idle", Proceeds(c, "idle")
        PROVE  \A d \in Loaders : at'[d] = "idle"
    BY <2>1 DEF Proceeds, Lone, LoadShape, LoadTypeOK
  <2>2. CASE ProcessStops
    BY <2>2, Zenon DEF ProcessStops
  <2>3. QED BY <2>1, <2>2 DEF Publish, LoadDies
<1>3. \A c \in Loaders : ~Creating(c)' /\ at'[c] # "publish"
  BY <1>2 DEF Creating
<1>4. UNCHANGED versions
  BY DEF Publish, LoadDies, ProcessStops
<1>5. ~interrupted' => ~interrupted /\ \A c \in Loaders : ~Creating(c)
  <2>1. ASSUME NEW c \in Loaders, Publish(c) \/ LoadDies(c)
        PROVE  (~interrupted' => ~interrupted /\ ~Creating(c)) /\ at[c] # "idle"
    <3>1. CASE Publish(c)
      BY <3>1 DEF Publish, Creating
    <3>2. CASE LoadDies(c)
      BY <3>2, Zenon DEF LoadDies
    <3>3. QED BY <2>1, <3>1, <3>2
  <2>2. ASSUME NEW c \in Loaders, at[c] # "idle", ~Creating(c)
        PROVE  \A d \in Loaders : ~Creating(d)
    BY <2>2 DEF Lone, Creating
  <2>3. CASE ProcessStops
    BY <2>3 DEF ProcessStops
  <2>4. QED BY <2>1, <2>2, <2>3
<1>6. serving' => serving \/ \E c \in Loaders : at[c] = "publish"
  BY DEF Publish, LoadDies, ProcessStops
<1>7. Reached(k)'
  <2>1. ~interrupted' => k \in {0, Len(Builtins)}
    BY <1>1, <1>5 DEF Reached
  <2>2. ~interrupted' /\ serving' => k = Len(Builtins)
    BY <1>1, <1>5, <1>6 DEF Reached
  <2>3. \A n \in DOMAIN Builtins : versions'[Builtins[n]] = IF n <= k THEN 1 ELSE 0
    BY <1>1, <1>4 DEF Reached
  <2>4. QED BY <1>3, <2>1, <2>2, <2>3 DEF Reached
<1>8. QED BY <1>2, <1>7 DEF Lone

LEMMA LoneStep == LoadShape /\ LoneInv /\ [LoadNext]_loadVars => LoneInv'
<1> SUFFICES ASSUME LoadShape, LoneInv, [LoadNext]_loadVars, ~overlapped' PROVE Lone'
  BY DEF LoneInv
<1>1. CASE UNCHANGED loadVars
  BY <1>1 DEF loadVars, LoneInv, Lone, Reached, Creating
<1>2. ASSUME NEW c \in Loaders,
             \/ Get(c) \/ CreateTables(c) \/ Upgrade(c) \/ ReadMigrations(c)
             \/ CommitMigrations(c) \/ CountMemories(c) \/ Seed(c)
      PROVE  Lone'
  BY <1>2, EarlyLone
<1>3. ASSUME NEW c \in Loaders, CheckCapabilities(c)
      PROVE  Lone'
  BY <1>3, CheckLone DEF CheckCapabilities, LoneInv
<1>4. ASSUME NEW c \in Loaders, CreateBuiltin(c) \/ InsertVersion(c)
      PROVE  Lone'
  BY <1>4, CreatesLone DEF CreateBuiltin, InsertVersion, Creates, Creating, LoneInv
<1>5. ASSUME NEW c \in Loaders, ReadVersion(c)
      PROVE  Lone'
  BY <1>5, ReadLone DEF ReadVersion, LoneInv
<1>6. ASSUME (\E c \in Loaders : Publish(c) \/ LoadDies(c)) \/ ProcessStops
      PROVE  Lone'
  <2>1. ~overlapped
    BY <1>6 DEF Publish, LoadDies, ProcessStops
  <2>2. QED BY <1>6, <2>1, EndLone DEF LoneInv
<1>7. QED BY <1>1, <1>2, <1>3, <1>4, <1>5, <1>6 DEF LoadNext

\* While loads do not overlap, no built-in is created twice, restarts included,
\* they come in order, and all of them are there in a workspace that is served
\* unless a load was cut off while it created them.
THEOREM BuiltinsOnce == Spec => []LoneLoadSeedsOnce
<1>1. Init => LoadShape /\ LoneInv
  BY LoadStart, LoadShapeStart, LoneStart
<1>2. LoadShape /\ LoneInv /\ [Next]_vars => (LoadShape /\ LoneInv)'
  BY LoadPart, LoadShapeStep, LoneStep
<1>3. LoadShape /\ LoneInv => LoneLoadSeedsOnce
  <2> SUFFICES ASSUME LoadShape, Lone, ~overlapped
               PROVE  /\ \A b \in Stable : versions[b] <= 1
                      /\ \A m, n \in DOMAIN Builtins :
                             m < n => versions[Builtins[n]] <= versions[Builtins[m]]
                      /\ serving /\ ~interrupted => \A b \in Stable : versions[b] = 1
    BY DEF LoneInv, LoneLoadSeedsOnce
  <2>1. PICK k \in 0..Len(Builtins) : Reached(k)
    BY DEF Lone
  <2>2. \A n \in 1..Len(Builtins) : versions[Builtins[n]] = IF n <= k THEN 1 ELSE 0
    BY <2>1, BuiltinsFacts DEF Reached
  <2>3. \A b \in Stable : versions[b] <= 1
    BY <2>2, BuiltinsFacts
  <2>4. ASSUME NEW m \in DOMAIN Builtins, NEW n \in DOMAIN Builtins, m < n
        PROVE  versions[Builtins[n]] <= versions[Builtins[m]]
    BY <2>2, <2>4, BuiltinsFacts
  <2>5. ASSUME serving, ~interrupted, NEW b \in Stable
        PROVE  versions[b] = 1
    <3>1. k = Len(Builtins)
      BY <2>1, <2>5 DEF Reached
    <3>2. QED BY <2>2, <3>1, BuiltinsFacts
  <2>6. QED BY <2>3, <2>4, <2>5
<1>4. QED BY <1>1, <1>2, <1>3, PTL DEF Spec
=============================================================================
