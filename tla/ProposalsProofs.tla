--------------------------- MODULE ProposalsProofs ---------------------------
(***************************************************************************)
(* Proofs about Proposals, for any drafts, seed, clients and table sizes.  *)
(* Type correctness holds on either database; the safety theorems are for  *)
(* the serialised one (SQLite), and their argument is one fact: while a    *)
(* transaction is open nobody else writes, so what its SELECTs returned    *)
(* (WorkInv) is still true of the tables when it commits.                  *)
(***************************************************************************)
EXTENDS Proposals, SequenceTheorems, TLAPS

USE NoMemoryAssumption, DraftAssumption, SeedAssumption, ClientAssumption

\* What a request has found out stays true whoever commits meanwhile: drafts
\* are constant, no row is deleted and no row changes its type.
FactOf(c) ==
    LET p == job[c] IN
    /\ pc[c] \in {"guard", "insert"} => Records(p)
    /\ pc[c] \in {"insert", "resolve"} /\ Supersedes(p) => IsFact(memories, Draft[p].target)
    /\ pc[c] = "resolve" => memo[c] \in MemoryIds
    /\ pc[c] = "resolve" /\ Invalidates(p) =>
          memo[c] = Draft[p].target /\ IsFact(memories, memo[c])

FactInv == \A c \in Clients : FactOf(c)

-----------------------------------------------------------------------------
(* The drafts and the rows they write *)

\* What a draft is made of (models.py: ProposalCreate).
LEMMA DraftFields ==
    ASSUME NEW p \in ProposalIds
    PROVE  /\ Draft[p].op \in Operations
           /\ Draft[p].target \in MemoryIds \union {NoMemory}
           /\ Draft[p].id \in MemoryIds \union {NoMemory}
           /\ Draft[p].status \in MemoryStatus
           /\ Draft[p].claim \in Claims
           /\ Draft[p].complete \in BOOLEAN
BY DEF Drafts

\* insert_memory writes a row of the table, with the claim and status of its payload.
LEMMA NewRowType ==
    ASSUME NEW p \in ProposalIds
    PROVE  /\ NewRow(p) \in Memory
           /\ NewRow(p) # NoMemory
           /\ NewRow(p).claim = Draft[p].claim
           /\ NewRow(p).status = Draft[p].status
BY DraftFields DEF NewRow, Memory

\* Where a transaction goes once the proposal was read, and after the guard.
LEMMA AfterReadSteps ==
    ASSUME NEW p \in ProposalIds
    PROVE  /\ AfterRead(p) \in {"guard", "target", "insert"}
           /\ AfterGuard(p) \in {"target", "insert"}
BY DEF AfterRead, AfterGuard

\* _audit appends an event to the trail of one proposal.
LEMMA EventType ==
    ASSUME NEW p \in ProposalIds, NEW m \in MemoryIds \union {NoMemory},
           NEW a \in {"created", "confirmed", "rejected", "failed"},
           audit \in [ProposalIds -> Seq(AuditEvents)],
           Log(p, a, m)
    PROVE  audit' \in [ProposalIds -> Seq(AuditEvents)]
<1>1. [action |-> a, memory |-> m] \in AuditEvents
  BY DEF AuditEvents
<1>2. Append(audit[p], [action |-> a, memory |-> m]) \in Seq(AuditEvents)
  BY <1>1
<1>3. QED BY <1>2 DEF Log

\* UPDATE memories SET status=... changes the status and nothing else.
LEMMA UpdatedRow ==
    ASSUME NEW row \in Memory, NEW s \in MemoryStatus
    PROVE  /\ [row EXCEPT !.status = s] \in Memory
           /\ [row EXCEPT !.status = s].type = row.type
           /\ [row EXCEPT !.status = s].claim = row.claim
           /\ [row EXCEPT !.status = s].status = s
BY DEF Memory

\* invalidate_fact neither supersedes nor records.
LEMMA OperationKinds ==
    ASSUME NEW p \in ProposalIds
    PROVE  Invalidates(p) => ~Supersedes(p) /\ ~Records(p)
BY DEF Invalidates, Supersedes, Records

\* A commit writes rows, deletes none and changes the type of none.
LEMMA WrittenRows ==
    ASSUME TypeOK, FactInv, NEW c \in Clients, Commit(c)
    PROVE  /\ memories' \in [MemoryIds -> Memory \union {NoMemory}]
           /\ \A m \in MemoryIds : memories[m] # NoMemory =>
                 /\ memories'[m] # NoMemory
                 /\ memories'[m].type = memories[m].type
                 /\ memories'[m].claim = memories[m].claim
                 /\ memories'[m].status = "active" => memories[m].status = "active"
<1> DEFINE p == job[c]
<1>1. p \in ProposalIds /\ pc[c] = "resolve" /\ memo[c] \in MemoryIds
  BY DEF TypeOK, Commit, FactInv, FactOf
<1>2. memories' = Written(c) /\ (Invalidates(p) \/ memories[memo[c]] = NoMemory)
  BY DEF Commit
<1>3. ASSUME NEW m \in MemoryIds
      PROVE  /\ memories'[m] \in Memory \union {NoMemory}
             /\ memories[m] # NoMemory =>
                 /\ memories'[m] # NoMemory
                 /\ memories'[m].type = memories[m].type
                 /\ memories'[m].claim = memories[m].claim
                 /\ memories'[m].status = "active" => memories[m].status = "active"
  <2>1. memories[m] \in Memory \union {NoMemory}
    BY DEF TypeOK
  <2>2. CASE Invalidates(p) /\ m = memo[c]
    <3>1. memories[m] \in Memory
      BY <1>1, <2>1, <2>2 DEF FactInv, FactOf, IsFact
    <3>2. memories'[m] = [memories[m] EXCEPT !.status = "inactive"]
      BY <1>2, <2>2 DEF Written
    <3>3. QED BY <3>1, <3>2, UpdatedRow DEF MemoryStatus
  <2>3. CASE ~Invalidates(p) /\ m = memo[c]
    BY <1>1, <1>2, <2>3, NewRowType DEF Written
  <2>4. CASE Supersedes(p) /\ m = Draft[p].target /\ m # memo[c]
    <3>1. memories[m] \in Memory
      BY <1>1, <2>1, <2>4 DEF FactInv, FactOf, IsFact
    <3>2. memories'[m] = [memories[m] EXCEPT !.status = "superseded"]
      BY <1>1, <1>2, <2>4, OperationKinds DEF Written
    <3>3. QED BY <3>1, <3>2, UpdatedRow DEF MemoryStatus
  <2>5. CASE ~(Supersedes(p) /\ m = Draft[p].target) /\ m # memo[c]
    BY <1>2, <2>1, <2>5 DEF Written
  <2>6. QED BY <2>2, <2>3, <2>4, <2>5
<1>4. QED BY <1>2, <1>3 DEF Written

-----------------------------------------------------------------------------
(* Type correctness, on either database *)

\* What every action but Commit leaves alone.
LEMMA SmallSteps ==
    ASSUME TypeOK, [Next]_vars
    PROVE  \/ \E c \in Clients : Commit(c)
           \/ UNCHANGED <<memories, memoryOf>>
BY DEF Next, vars, tables, Propose, Confirm, Guard, InvalidateTarget, SupersedeTarget, Insert,
       ReadAgain, MarkFailed, Reject, MarkRejected, Crash, RaiseValueError

\* Every step keeps the types.
LEMMA TypeStep ==
    ASSUME TypeOK, FactInv, [Next]_vars
    PROVE  TypeOK'
<1> USE DEF TypeOK, Steps, Statuses, Answers
<1>1. ASSUME NEW p \in ProposalIds, Propose(p) PROVE TypeOK'
  <2>1. audit' \in [ProposalIds -> Seq(AuditEvents)]
    BY <1>1, EventType DEF Propose
  <2>2. QED BY <1>1, <2>1 DEF Propose
<1>2. ASSUME NEW c \in Clients, NEW p \in ProposalIds, Confirm(c, p) PROVE TypeOK'
  <2>1. UNCHANGED <<status, memoryOf, memories, audit, memo>>
    BY <1>2 DEF Confirm, tables
  <2>2. CASE ConfirmPending(c, p)
    BY <2>1, <2>2, AfterReadSteps DEF ConfirmPending, Begin
  <2>3. CASE ConfirmAgain(c, p)
    BY <2>1, <2>3 DEF ConfirmAgain, Answer
  <2>4. CASE ConfirmResolved(c, p)
    BY <2>1, <2>4 DEF ConfirmResolved
  <2>5. QED BY <1>2, <2>2, <2>3, <2>4 DEF Confirm
<1>3. ASSUME NEW c \in Clients, Guard(c) PROVE TypeOK'
  <2>1. job[c] \in ProposalIds
    BY <1>3 DEF Guard
  <2>2. CASE RaiseValueError(c)
    BY <2>1, <2>2 DEF RaiseValueError, Close, tables
  <2>3. CASE Continue(c, AfterGuard(job[c])) /\ UNCHANGED <<tables, memo, told>>
    BY <2>1, <2>3, AfterReadSteps DEF Continue, tables
  <2>4. QED BY <1>3, <2>2, <2>3 DEF Guard
<1>4. ASSUME NEW c \in Clients, InvalidateTarget(c) PROVE TypeOK'
  BY <1>4 DEF InvalidateTarget, RaiseValueError, Continue, Close, tables, IsFact
<1>5. ASSUME NEW c \in Clients, SupersedeTarget(c) PROVE TypeOK'
  BY <1>5 DEF SupersedeTarget, RaiseValueError, Continue, Close, tables
<1>6. ASSUME NEW c \in Clients, Insert(c) PROVE TypeOK'
  <2>1. job[c] \in ProposalIds
    BY <1>6 DEF Insert
  <2>2. CASE RaiseValueError(c)
    BY <2>1, <2>2 DEF RaiseValueError, Close, tables
  <2>3. ASSUME NEW m \in NewKeys(job[c]), memo' = [memo EXCEPT ![c] = m],
               Continue(c, "resolve"), UNCHANGED <<tables, told>>
        PROVE  TypeOK'
    <3>1. m \in MemoryIds
      BY <2>1, DraftFields DEF NewKeys
    <3>2. QED BY <2>1, <2>3, <3>1 DEF Continue, tables
  <2>4. QED BY <1>6, <2>2, <2>3 DEF Insert
<1>7. ASSUME NEW c \in Clients, Commit(c) PROVE TypeOK'
  <2>1. job[c] \in ProposalIds /\ memo[c] \in MemoryIds \union {NoMemory}
    BY <1>7 DEF Commit
  <2>2. audit' \in [ProposalIds -> Seq(AuditEvents)]
    BY <1>7, <2>1, EventType DEF Commit
  <2>3. memories' \in [MemoryIds -> Memory \union {NoMemory}]
    BY <1>7, WrittenRows
  <2>4. QED BY <1>7, <2>1, <2>2, <2>3 DEF Commit, Return, Close, Answer
<1>8. ASSUME NEW c \in Clients, ReadAgain(c) PROVE TypeOK'
  <2>1. job[c] \in ProposalIds /\ UNCHANGED <<status, memoryOf, memories, audit>>
    BY <1>8 DEF ReadAgain, tables
  <2>2. CASE Begin(c, job[c], "markFailed") /\ UNCHANGED <<memo, told>>
    BY <2>1, <2>2 DEF Begin
  <2>3. CASE Return(c) /\ Answer(job[c], "confirm409")
    BY <2>1, <2>3 DEF Return, Close, Answer
  <2>4. QED BY <1>8, <2>2, <2>3 DEF ReadAgain
<1>9. ASSUME NEW c \in Clients, MarkFailed(c) PROVE TypeOK'
  <2>1. job[c] \in ProposalIds
    BY <1>9 DEF MarkFailed
  <2>2. audit' \in [ProposalIds -> Seq(AuditEvents)]
    BY <1>9, <2>1, EventType DEF MarkFailed
  <2>3. QED BY <1>9, <2>1, <2>2 DEF MarkFailed, Return, Close, Answer
<1>10. ASSUME NEW c \in Clients, NEW p \in ProposalIds, Reject(c, p) PROVE TypeOK'
  <2>1. UNCHANGED <<status, memoryOf, memories, audit, memo>>
    BY <1>10 DEF Reject, tables
  <2>2. CASE RejectPending(c, p)
    BY <2>1, <2>2 DEF RejectPending, Begin
  <2>3. CASE RejectAgain(c, p)
    BY <2>1, <2>3 DEF RejectAgain, Answer
  <2>4. CASE RejectResolved(c, p)
    BY <2>1, <2>4 DEF RejectResolved, Answer
  <2>5. QED BY <1>10, <2>2, <2>3, <2>4 DEF Reject
<1>11. ASSUME NEW c \in Clients, MarkRejected(c) PROVE TypeOK'
  <2>1. job[c] \in ProposalIds
    BY <1>11 DEF MarkRejected
  <2>2. audit' \in [ProposalIds -> Seq(AuditEvents)]
    BY <1>11, <2>1, EventType DEF MarkRejected
  <2>3. QED BY <1>11, <2>1, <2>2 DEF MarkRejected, Return, Close, Answer
<1>12. ASSUME NEW c \in Clients, Crash(c) PROVE TypeOK'
  BY <1>12 DEF Crash, Return, Close, tables
<1>13. CASE UNCHANGED vars
  BY <1>13 DEF vars
<1>14. QED
  BY <1>1, <1>2, <1>3, <1>4, <1>5, <1>6, <1>7, <1>8, <1>9, <1>10, <1>11, <1>12, <1>13 DEF Next

\* A step is one request's, or nobody's.
Still(c) == pc'[c] = pc[c] /\ job'[c] = job[c] /\ memo'[c] = memo[c]

Works(c) ==
    \/ \E p \in ProposalIds : Confirm(c, p)
    \/ Guard(c)
    \/ InvalidateTarget(c)
    \/ SupersedeTarget(c)
    \/ Insert(c)
    \/ Commit(c)
    \/ ReadAgain(c)
    \/ MarkFailed(c)
    \/ \E p \in ProposalIds : Reject(c, p)
    \/ MarkRejected(c)
    \/ Crash(c)

\* A request's step touches no other request's locals.
LEMMA OneMoves ==
    ASSUME TypeOK, NEW c \in Clients, Works(c)
    PROVE  \A d \in Clients \ {c} : Still(d)
<1> USE DEF TypeOK, Still, Begin, Continue, Return, Close, RaiseValueError
<1>1. CASE \E p \in ProposalIds : Confirm(c, p)
  BY <1>1 DEF Confirm, ConfirmPending, ConfirmAgain, ConfirmResolved
<1>2. CASE Guard(c)
  BY <1>2 DEF Guard
<1>3. CASE InvalidateTarget(c)
  BY <1>3 DEF InvalidateTarget
<1>4. CASE SupersedeTarget(c)
  BY <1>4 DEF SupersedeTarget
<1>5. CASE Insert(c)
  BY <1>5 DEF Insert
<1>6. CASE Commit(c)
  BY <1>6 DEF Commit
<1>7. CASE ReadAgain(c)
  BY <1>7 DEF ReadAgain
<1>8. CASE MarkFailed(c)
  BY <1>8 DEF MarkFailed
<1>9. CASE \E p \in ProposalIds : Reject(c, p)
  BY <1>9 DEF Reject, RejectPending, RejectAgain, RejectResolved
<1>10. CASE MarkRejected(c)
  BY <1>10 DEF MarkRejected
<1>11. CASE Crash(c)
  BY <1>11 DEF Crash
<1>12. QED
  BY <1>1, <1>2, <1>3, <1>4, <1>5, <1>6, <1>7, <1>8, <1>9, <1>10, <1>11 DEF Works

\* One request moves in a step, or none: the others stay as they were.
LEMMA WhoMoves ==
    ASSUME TypeOK, [Next]_vars
    PROVE  \/ \E c \in Clients : Works(c) /\ \A d \in Clients \ {c} : Still(d)
           \/ \A d \in Clients : Still(d)
<1>1. CASE \E p \in ProposalIds : Propose(p)
  BY <1>1 DEF Propose, Still
<1>2. CASE \E c \in Clients : Works(c)
  BY <1>2, OneMoves
<1>3. CASE UNCHANGED vars
  BY <1>3 DEF vars, Still
<1>4. QED BY <1>1, <1>2, <1>3 DEF Next, Works

\* Every step keeps what the requests have found out.
LEMMA FactStep ==
    ASSUME TypeOK, FactInv, [Next]_vars
    PROVE  FactInv'
<1>1. ASSUME NEW m, IsFact(memories, m) PROVE IsFact(memories', m)
  BY <1>1, SmallSteps, WrittenRows DEF IsFact
<1>2. ASSUME NEW c \in Clients, Still(c) PROVE FactOf(c)'
  BY <1>1, <1>2 DEF Still, FactInv, FactOf
<1>3. ASSUME NEW c \in Clients, Works(c) PROVE FactOf(c)'
  <2> USE DEF TypeOK, FactOf, Begin, Continue, Return, Close, RaiseValueError, tables
  <2>1. CASE \E p \in ProposalIds : Confirm(c, p)
    <3>1. PICK p \in ProposalIds : Confirm(c, p)
      BY <2>1
    <3>2. CASE ConfirmPending(c, p)
      <4>1. pc'[c] = AfterRead(p) /\ job'[c] = p
        BY <3>2 DEF ConfirmPending
      <4>2. /\ pc'[c] \in {"guard", "insert"} => Records(p)
            /\ ~(pc'[c] = "insert" /\ Supersedes(p)) /\ pc'[c] # "resolve"
        BY <4>1, OperationKinds DEF AfterRead, AfterGuard, Records
      <4>3. QED BY <4>1, <4>2
    <3>3. CASE ConfirmAgain(c, p) \/ ConfirmResolved(c, p)
      BY <3>1, <3>3 DEF ConfirmAgain, ConfirmResolved, Confirm
    <3>4. QED BY <3>1, <3>2, <3>3 DEF Confirm
  <2>2. CASE Guard(c)
    BY <2>2 DEF Guard, AfterGuard, FactInv
  <2>3. CASE InvalidateTarget(c)
    BY <2>3, OperationKinds DEF InvalidateTarget, IsFact
  <2>4. CASE SupersedeTarget(c)
    BY <2>4, OperationKinds DEF SupersedeTarget, IsActiveFact, Records, Supersedes
  <2>5. CASE Insert(c)
    <3>1. job[c] \in ProposalIds /\ pc[c] = "insert" /\ FactOf(c)
      BY <2>5 DEF Insert, FactInv
    <3>2. NewKeys(job[c]) \subseteq MemoryIds
      BY <3>1, DraftFields DEF NewKeys
    <3>3. QED BY <2>5, <3>1, <3>2 DEF Insert, Records
  <2>6. CASE Commit(c)
    BY <2>6 DEF Commit
  <2>7. CASE ReadAgain(c)
    BY <2>7 DEF ReadAgain
  <2>8. CASE MarkFailed(c)
    BY <2>8 DEF MarkFailed
  <2>9. CASE \E p \in ProposalIds : Reject(c, p)
    BY <2>9 DEF Reject, RejectPending, RejectAgain, RejectResolved
  <2>10. CASE MarkRejected(c)
    BY <2>10 DEF MarkRejected
  <2>11. CASE Crash(c)
    BY <2>11 DEF Crash
  <2>12. QED
    BY <1>3, <2>1, <2>2, <2>3, <2>4, <2>5, <2>6, <2>7, <2>8, <2>9, <2>10, <2>11 DEF Works
<1>4. QED BY <1>2, <1>3, WhoMoves DEF FactInv, FactOf

\* Every variable keeps its type, whatever the database (store.py, db.py).
THEOREM TypeCorrect == Spec => []TypeOK
<1>1. Init => TypeOK /\ FactInv
  BY DEF Init, TypeOK, FactInv, FactOf, Statuses, Steps
<1>2. TypeOK /\ FactInv /\ [Next]_vars => TypeOK' /\ FactInv'
  BY TypeStep, FactStep
<1>3. QED BY <1>1, <1>2, PTL DEF Spec

\* What a request has read of its proposal and its target's type stays so to
\* the end of its transaction, on either database (store.py: _confirm_once).
THEOREM FactsStay == Spec => []FactInv
<1>1. Init => TypeOK /\ FactInv
  BY DEF Init, TypeOK, FactInv, FactOf, Statuses, Steps
<1>2. TypeOK /\ FactInv /\ [Next]_vars => TypeOK' /\ FactInv'
  BY TypeStep, FactStep
<1>3. QED BY <1>1, <1>2, PTL DEF Spec

-----------------------------------------------------------------------------
(* One writer at a time, on SQLite *)

\* Whoever is inside a transaction holds the write lock, and only they do.
LockInv == \A c \in Clients : pc[c] \in InTransaction <=> lock = c

\* What the transaction's SELECTs returned is still so.
Judged(p) ==
    /\ Draft[p].claim # "plain" => Boundaries(memories) = {}
    /\ Supersedes(p) => IsActiveFact(memories, Draft[p].target)

WorkOf(c) ==
    LET p == job[c] IN
    /\ pc[c] \in InTransaction => status[p] = "pending"
    /\ pc[c] = "target" /\ Supersedes(p) /\ Draft[p].claim # "plain" => Boundaries(memories) = {}
    /\ pc[c] = "insert" => Judged(p)
    /\ pc[c] = "resolve" /\ Records(p) => Judged(p) /\ Draft[p].complete

WorkInv == \A c \in Clients : WorkOf(c)

\* Under BEGIN IMMEDIATE the lock is taken and given back with the transaction.
LEMMA LockStep ==
    ASSUME Serialised, TypeOK, LockInv, [Next]_vars
    PROVE  LockInv'
<1>1. CASE \E p \in ProposalIds : Propose(p)
  BY <1>1 DEF Propose, LockInv
<1>2. CASE UNCHANGED vars
  BY <1>2 DEF vars, LockInv
<1>3. ASSUME NEW c \in Clients, Works(c) PROVE LockInv'
  <2>1. \A d \in Clients \ {c} : pc'[d] = pc[d]
    BY <1>3, OneMoves DEF Still
  <2>2. \A d \in Clients \ {c} : lock' = d <=> lock = d
    <3> USE DEF TypeOK, CanBegin, LockInv, InTransaction, Begin, Continue, Return, Close, RaiseValueError
    <3>1. CASE \E p \in ProposalIds : Confirm(c, p)
      BY <3>1 DEF Confirm, ConfirmPending, ConfirmAgain, ConfirmResolved
    <3>2. CASE \E p \in ProposalIds : Reject(c, p)
      BY <3>2 DEF Reject, RejectPending, RejectAgain, RejectResolved
    <3>3. CASE ReadAgain(c)
      BY <3>3 DEF ReadAgain
    <3>4. CASE Guard(c) \/ InvalidateTarget(c) \/ SupersedeTarget(c) \/ Insert(c)
      BY <3>4 DEF Guard, InvalidateTarget, SupersedeTarget, Insert
    <3>5. CASE Commit(c) \/ MarkFailed(c) \/ MarkRejected(c) \/ Crash(c)
      BY <3>5 DEF Commit, MarkFailed, MarkRejected, Crash
    <3>6. QED BY <1>3, <3>1, <3>2, <3>3, <3>4, <3>5 DEF Works
  <2>3. pc'[c] \in InTransaction <=> lock' = c
    <3> USE DEF TypeOK, CanBegin, LockInv, InTransaction, Begin, Continue, Return, Close, RaiseValueError
    <3>1. CASE \E p \in ProposalIds : Confirm(c, p)
      BY <3>1, AfterReadSteps DEF Confirm, ConfirmPending, ConfirmAgain, ConfirmResolved
    <3>2. CASE \E p \in ProposalIds : Reject(c, p)
      BY <3>2 DEF Reject, RejectPending, RejectAgain, RejectResolved
    <3>3. CASE ReadAgain(c)
      BY <3>3 DEF ReadAgain
    <3>4. CASE Guard(c)
      BY <3>4, AfterReadSteps DEF Guard
    <3>5. CASE InvalidateTarget(c) \/ SupersedeTarget(c) \/ Insert(c)
      BY <3>5 DEF InvalidateTarget, SupersedeTarget, Insert
    <3>6. CASE Commit(c) \/ MarkFailed(c) \/ MarkRejected(c) \/ Crash(c)
      BY <3>6 DEF Commit, MarkFailed, MarkRejected, Crash
    <3>7. QED BY <1>3, <3>1, <3>2, <3>3, <3>4, <3>5, <3>6 DEF Works
  <2>4. QED BY <2>1, <2>2, <2>3 DEF LockInv
<1>4. QED BY <1>1, <1>2, <1>3 DEF Next, Works

\* While one request's transaction is open no other step changes the tables.
LEMMA OneWriter ==
    ASSUME Serialised, TypeOK, LockInv, [Next]_vars,
           NEW d \in Clients, pc[d] \in InTransaction
    PROVE  Works(d) \/ UNCHANGED tables
<1>1. ~CanBegin /\ \A c \in Clients \ {d} : pc[c] \notin InTransaction
  BY DEF LockInv, CanBegin
<1>2. ASSUME NEW c \in Clients \ {d}, Works(c) PROVE UNCHANGED tables
  BY <1>1, <1>2 DEF Works, InTransaction, Confirm, Guard, InvalidateTarget, SupersedeTarget, Insert,
     Commit, ReadAgain, MarkFailed, Reject, MarkRejected, Crash
<1>3. QED BY <1>1, <1>2 DEF Next, Works, Propose, vars, tables

\* What an open transaction has read stays true until it ends: only the
\* request itself moves, because OneWriter leaves the tables to it.
LEMMA WorkStep ==
    ASSUME Serialised, TypeOK, FactInv, LockInv, WorkInv, [Next]_vars
    PROVE  WorkInv'
<1>1. ASSUME NEW c \in Clients, Still(c), ~Works(c) PROVE WorkOf(c)'
  <2>1. CASE pc[c] \in InTransaction
    <3>1. UNCHANGED <<status, memories>>
      BY <1>1, <2>1, OneWriter DEF tables
    <3>2. QED BY <1>1, <3>1 DEF Still, WorkInv, WorkOf, Judged, Boundaries, IsActiveFact, IsFact
  <2>2. CASE pc[c] \notin InTransaction
    BY <1>1, <2>2 DEF Still, WorkOf, InTransaction
  <2>3. QED BY <2>1, <2>2
<1>2. ASSUME NEW c \in Clients, Works(c) PROVE WorkOf(c)'
  <2> USE DEF TypeOK, WorkInv, WorkOf, Judged, Boundaries, IsActiveFact, IsFact, InTransaction,
              Begin, Continue, Return, Close, RaiseValueError, tables
  <2>1. CASE \E p \in ProposalIds : Confirm(c, p)
    <3>1. PICK p \in ProposalIds : Confirm(c, p)
      BY <2>1
    <3>2. CASE ConfirmPending(c, p)
      <4>1. pc'[c] = AfterRead(p) /\ job'[c] = p /\ status'[p] = "pending" /\ memories' = memories
        BY <3>1, <3>2 DEF ConfirmPending, Confirm
      <4>2. /\ pc'[c] # "resolve"
            /\ pc'[c] = "target" /\ Supersedes(p) => Draft[p].claim = "plain"
            /\ pc'[c] = "insert" => Draft[p].claim = "plain" /\ ~Supersedes(p)
        BY <4>1, OperationKinds DEF AfterRead, AfterGuard, Records
      <4>3. QED BY <4>1, <4>2
    <3>3. CASE ConfirmAgain(c, p) \/ ConfirmResolved(c, p)
      BY <3>1, <3>3 DEF ConfirmAgain, ConfirmResolved, Confirm
    <3>4. QED BY <3>1, <3>2, <3>3 DEF Confirm
  <2>2. CASE Guard(c)
    BY <2>2 DEF Guard, AfterGuard
  <2>3. CASE InvalidateTarget(c)
    BY <2>3 DEF InvalidateTarget, Records
  <2>4. CASE SupersedeTarget(c)
    BY <2>4 DEF SupersedeTarget
  <2>5. CASE Insert(c)
    BY <2>5 DEF Insert
  <2>6. CASE Commit(c)
    BY <2>6 DEF Commit
  <2>7. CASE ReadAgain(c)
    BY <2>7 DEF ReadAgain
  <2>8. CASE MarkFailed(c)
    BY <2>8 DEF MarkFailed
  <2>9. CASE \E p \in ProposalIds : Reject(c, p)
    BY <2>9 DEF Reject, RejectPending, RejectAgain, RejectResolved
  <2>10. CASE MarkRejected(c)
    BY <2>10 DEF MarkRejected
  <2>11. CASE Crash(c)
    BY <2>11 DEF Crash
  <2>12. QED
    BY <1>2, <2>1, <2>2, <2>3, <2>4, <2>5, <2>6, <2>7, <2>8, <2>9, <2>10, <2>11 DEF Works
<1>3. QED BY <1>1, <1>2, WhoMoves DEF WorkInv

SafeInv == TypeOK /\ FactInv /\ LockInv /\ WorkInv

\* The invariant the SQLite theorems rest on.
LEMMA SafeInvariant == ASSUME Serialised PROVE Spec => []SafeInv
<1>1. Init => SafeInv
  BY DEF Init, SafeInv, TypeOK, FactInv, FactOf, LockInv, WorkInv, WorkOf, Statuses, Steps, InTransaction
<1>2. SafeInv /\ [Next]_vars => SafeInv'
  BY TypeStep, FactStep, LockStep, WorkStep DEF SafeInv
<1>3. QED BY <1>1, <1>2, PTL DEF Spec

-----------------------------------------------------------------------------
(* On SQLite the requests implement the approval boundary *)

\* _confirm_once's commit is ConfirmRecord or ConfirmInvalidate.
LEMMA CommitImplements ==
    ASSUME SafeInv, NEW c \in Clients, Commit(c)
    PROVE  Boundary!Next
<1> DEFINE p == job[c]
<1> USE DEF Boundary!Supersedes, Boundary!Invalidates, Boundary!Records, Boundary!Boundaries,
            Boundary!IsActiveFact, Boundary!IsFact, Boundary!NewRow
<1>1. /\ p \in ProposalIds /\ memo[c] \in MemoryIds /\ pc[c] = "resolve"
      /\ status[p] = "pending" /\ FactOf(c) /\ WorkOf(c)
  BY DEF SafeInv, TypeOK, FactInv, FactOf, WorkInv, WorkOf, Commit, InTransaction
<1>2. /\ memories' = Written(c)
      /\ status' = [status EXCEPT ![p] = "confirmed"]
      /\ memoryOf' = [memoryOf EXCEPT ![p] = memo[c]]
      /\ Invalidates(p) \/ memories[memo[c]] = NoMemory
  BY DEF Commit
<1>3. CASE Records(p)
  <2>1. Boundary!Acceptable(p)
    BY <1>1, <1>3 DEF Boundary!Acceptable, WorkOf, Judged, Supersedes, Boundaries, IsActiveFact, IsFact
  <2>2. memories[memo[c]] = NoMemory
    BY <1>2, <1>3 DEF Records
  <2>3. memories' = [k \in MemoryIds |->
                      IF k = memo[c] THEN NewRow(p)
                      ELSE IF Supersedes(p) /\ k = Draft[p].target
                           THEN [memories[k] EXCEPT !.status = "superseded"]
                           ELSE memories[k]]
    BY <1>2, <1>3 DEF Written, Records
  <2>4. Boundary!ConfirmRecord(p, memo[c])
    BY <1>1, <1>2, <1>3, <2>1, <2>2, <2>3
       DEF Boundary!ConfirmRecord, Records, Invalidates, Supersedes, NewRow
  <2>5. QED BY <1>1, <2>4 DEF Boundary!Next
<1>4. CASE Invalidates(p)
  <2>1. memo[c] = Draft[p].target /\ IsFact(memories, memo[c])
    BY <1>1, <1>4 DEF FactOf
  <2>2. memories' = [memories EXCEPT ![memo[c]].status = "inactive"]
    BY <1>1, <1>2, <1>4 DEF Written, SafeInv, TypeOK
  <2>3. Boundary!ConfirmInvalidate(p)
    BY <1>1, <1>2, <1>4, <2>1, <2>2 DEF Boundary!ConfirmInvalidate, Invalidates, IsFact
  <2>4. QED BY <1>1, <2>3 DEF Boundary!Next
<1>5. QED BY <1>3, <1>4 DEF Records

\* Every step is a step of the approval boundary or a stutter.
LEMMA BoundaryStep ==
    ASSUME SafeInv, [Next]_vars
    PROVE  [Boundary!Next]_(Boundary!vars)
<1> USE DEF Boundary!vars
<1>1. ASSUME NEW p \in ProposalIds, Propose(p) PROVE Boundary!Next
  BY <1>1 DEF Propose, Boundary!Propose, Boundary!Next
<1>2. ASSUME NEW c \in Clients, Commit(c) PROVE Boundary!Next
  BY <1>2, CommitImplements
<1>3. ASSUME NEW c \in Clients, MarkFailed(c) PROVE Boundary!Next
  BY <1>3 DEF MarkFailed, SafeInv, TypeOK, WorkInv, WorkOf, InTransaction, Boundary!Dismiss, Boundary!Next
<1>4. ASSUME NEW c \in Clients, MarkRejected(c) PROVE Boundary!Next
  BY <1>4 DEF MarkRejected, SafeInv, TypeOK, WorkInv, WorkOf, InTransaction, Boundary!Dismiss, Boundary!Next
<1>5. ASSUME NEW c \in Clients, Works(c), ~Commit(c), ~MarkFailed(c), ~MarkRejected(c)
      PROVE  UNCHANGED Boundary!vars
  BY <1>5 DEF Works, Confirm, Guard, InvalidateTarget, SupersedeTarget, Insert, ReadAgain, Reject,
     Crash, RaiseValueError, tables
<1>6. CASE UNCHANGED vars
  BY <1>6 DEF vars
<1>7. QED BY <1>1, <1>2, <1>3, <1>4, <1>5, <1>6 DEF Next, Works

\* Each commit of a SQLite request is a step of the approval boundary, judged
\* on the tables of that instant (store.py: _confirm_once, reject, confirm).
THEOREM Implementation == ASSUME Serialised PROVE Spec => ImplementsApprovalBoundary
<1>1. Init => Boundary!Init
  BY DEF Init, Boundary!Init
<1>2. SafeInv /\ [Next]_vars => [Boundary!Next]_(Boundary!vars)
  BY BoundaryStep
<1>3. QED BY <1>1, <1>2, SafeInvariant, PTL DEF Spec, ImplementsApprovalBoundary, Boundary!Spec

-----------------------------------------------------------------------------
(* What follows for the tables *)

\* Rows are never deleted, a proposal names a memory once it is confirmed, and
\* a fact that was superseded is not active any more.
RowInv ==
    /\ \A m \in MemoryIds : Seed[m] # NoMemory => memories[m] # NoMemory
    /\ \A p \in ProposalIds : status[p] # "confirmed" => memoryOf[p] = NoMemory
    /\ \A p \in ProposalIds : status[p] = "confirmed" =>
          memoryOf[p] \in MemoryIds /\ memories[memoryOf[p]] # NoMemory
    /\ \A p \in ProposalIds : status[p] = "confirmed" /\ Supersedes(p) =>
          IsFact(memories, Draft[p].target) /\ memories[Draft[p].target].status # "active"

TableInv == RowInv /\ EveryMemoryConfirmed /\ SupersededOnce /\ OneBoundary

\* What a step of the approval boundary does, in the words of Proposals.
Recorded(p, m) ==
    /\ status[p] = "pending" /\ Records(p)
    /\ memories[m] = NoMemory
    /\ Judged(p)
    /\ memories' = [k \in MemoryIds |->
                      IF k = m THEN NewRow(p)
                      ELSE IF Supersedes(p) /\ k = Draft[p].target
                           THEN [memories[k] EXCEPT !.status = "superseded"]
                           ELSE memories[k]]
    /\ status' = [status EXCEPT ![p] = "confirmed"]
    /\ memoryOf' = [memoryOf EXCEPT ![p] = m]

Invalidated(p) ==
    LET target == Draft[p].target IN
    /\ status[p] = "pending" /\ Invalidates(p) /\ IsFact(memories, target)
    /\ memories' = [memories EXCEPT ![target].status = "inactive"]
    /\ status' = [status EXCEPT ![p] = "confirmed"]
    /\ memoryOf' = [memoryOf EXCEPT ![p] = target]

Settled(p) ==
    /\ status[p] \in {"absent", "pending"}
    /\ \E s \in {"pending", "rejected", "failed"} : status' = [status EXCEPT ![p] = s]
    /\ UNCHANGED <<memories, memoryOf>>

\* So the tables change in three ways only, whatever the requests do.
LEMMA TableMoves ==
    ASSUME SafeInv, [Next]_vars
    PROVE  \/ \E p \in ProposalIds :
                 \/ \E m \in MemoryIds : Recorded(p, m)
                 \/ Invalidated(p)
                 \/ Settled(p)
           \/ UNCHANGED <<status, memories, memoryOf>>
<1> USE DEF Boundary!Supersedes, Boundary!Invalidates, Boundary!Records, Boundary!Boundaries,
            Boundary!IsActiveFact, Boundary!IsFact, Boundary!NewRow,
            Supersedes, Invalidates, Records, Boundaries, IsActiveFact, IsFact, NewRow
<1>1. CASE UNCHANGED Boundary!vars
  BY <1>1 DEF Boundary!vars
<1>2. CASE Boundary!Next
  <2>1. PICK p \in ProposalIds :
           \/ Boundary!Propose(p)
           \/ \E m \in MemoryIds : Boundary!ConfirmRecord(p, m)
           \/ Boundary!ConfirmInvalidate(p)
           \/ Boundary!Dismiss(p, "rejected")
           \/ Boundary!Dismiss(p, "failed")
    BY <1>2 DEF Boundary!Next
  <2>2. CASE \E m \in MemoryIds : Boundary!ConfirmRecord(p, m)
    <3>1. PICK m \in MemoryIds : Boundary!ConfirmRecord(p, m)
      BY <2>2
    <3>2. Recorded(p, m)
      BY <3>1 DEF Boundary!ConfirmRecord, Boundary!Acceptable, Recorded, Judged
    <3>3. QED BY <3>2
  <2>3. CASE Boundary!ConfirmInvalidate(p)
    BY <2>3 DEF Boundary!ConfirmInvalidate, Invalidated
  <2>4. CASE Boundary!Propose(p)
    BY <2>4 DEF Boundary!Propose, Settled
  <2>5. CASE Boundary!Dismiss(p, "rejected") \/ Boundary!Dismiss(p, "failed")
    BY <2>5 DEF Boundary!Dismiss, Settled
  <2>6. QED BY <2>1, <2>2, <2>3, <2>4, <2>5
<1>3. QED BY <1>1, <1>2, BoundaryStep

\* Each of the three ways keeps the invariant of the tables.
LEMMA TableStep ==
    ASSUME SafeInv, TableInv, [Next]_vars
    PROVE  TableInv'
<1> USE DEF TableInv
<1>1. /\ status \in [ProposalIds -> Statuses]
      /\ memoryOf \in [ProposalIds -> MemoryIds \union {NoMemory}]
      /\ memories \in [MemoryIds -> Memory \union {NoMemory}]
  BY DEF SafeInv, TypeOK
<1>2. ASSUME NEW p \in ProposalIds, NEW m \in MemoryIds, Recorded(p, m) PROVE TableInv'
  <2>1. /\ status[p] = "pending" /\ Records(p) /\ memories[m] = NoMemory /\ Judged(p)
        /\ status'[p] = "confirmed" /\ memoryOf'[p] = m
        /\ \A q \in ProposalIds \ {p} : status'[q] = status[q] /\ memoryOf'[q] = memoryOf[q]
    BY <1>1, <1>2 DEF Recorded
  <2>2. memories'[m] = NewRow(p) /\ NewRow(p) # NoMemory /\ NewRow(p) \in Memory
    BY <1>2, NewRowType DEF Recorded
  <2>3. ASSUME Supersedes(p)
        PROVE  LET t == Draft[p].target IN
               /\ t \in MemoryIds /\ t # m /\ IsFact(memories', t)
               /\ memories[t].status = "active" /\ memories'[t].status = "superseded"
    <3>1. IsActiveFact(memories, Draft[p].target)
      BY <2>1, <2>3 DEF Judged
    <3>2. PICK row \in Memory : row = memories[Draft[p].target] /\ row.type = "fact"
      BY <1>1, <3>1 DEF IsActiveFact, IsFact
    <3>3. memories'[Draft[p].target] = [row EXCEPT !.status = "superseded"]
      BY <1>2, <2>1, <2>3, <3>1, <3>2 DEF Recorded, IsActiveFact, IsFact
    <3>4. [row EXCEPT !.status = "superseded"] # NoMemory
      BY <3>2, UpdatedRow DEF MemoryStatus
    <3>5. QED BY <2>1, <3>1, <3>2, <3>3, <3>4, UpdatedRow DEF IsActiveFact, IsFact, MemoryStatus
  <2>4. \A k \in MemoryIds \ {m} : memories'[k] = memories[k] \/ (Supersedes(p) /\ k = Draft[p].target)
    BY <1>2 DEF Recorded
  <2>5. \A k \in MemoryIds :
           /\ memories[k] # NoMemory => memories'[k] # NoMemory
           /\ IsFact(memories, k) => IsFact(memories', k)
           /\ IsFact(memories, k) /\ memories[k].status # "active" => memories'[k].status # "active"
    BY <2>1, <2>2, <2>3, <2>4 DEF IsFact
  <2>6. RowInv'
    <3>1. \A k \in MemoryIds : Seed[k] # NoMemory => memories'[k] # NoMemory
      BY <2>5 DEF RowInv
    <3>2. \A q \in ProposalIds : status'[q] # "confirmed" => memoryOf'[q] = NoMemory
      BY <2>1 DEF RowInv
    <3>3. \A q \in ProposalIds : status'[q] = "confirmed" =>
             memoryOf'[q] \in MemoryIds /\ memories'[memoryOf'[q]] # NoMemory
      BY <2>1, <2>2, <2>5 DEF RowInv
    <3>4. \A q \in ProposalIds : status'[q] = "confirmed" /\ Supersedes(q) =>
             IsFact(memories', Draft[q].target) /\ memories'[Draft[q].target].status # "active"
      <4>1. ASSUME NEW q \in ProposalIds \ {p}, status'[q] = "confirmed", Supersedes(q)
            PROVE  IsFact(memories', Draft[q].target) /\ memories'[Draft[q].target].status # "active"
        BY <2>1, <2>5, <4>1 DEF RowInv, IsFact
      <4>2. QED BY <2>3, <4>1
    <3>5. QED BY <3>1, <3>2, <3>3, <3>4 DEF RowInv
  <2>7. EveryMemoryConfirmed'
    <3>1. ASSUME NEW k \in MemoryIds, memories'[k] # NoMemory, Seed[k] = NoMemory
          PROVE  \E q \in ProposalIds :
                    /\ Records(q) /\ status'[q] = "confirmed" /\ memoryOf'[q] = k
                    /\ \A r \in ProposalIds \ {q} : Records(r) => memoryOf'[r] # k
      <4>1. CASE k = m
        <5>1. \A r \in ProposalIds \ {p} : memoryOf'[r] # k
          BY <2>1, <4>1 DEF RowInv
        <5>2. QED BY <2>1, <4>1, <5>1
      <4>2. CASE k # m
        <5>1. memories[k] # NoMemory
          BY <2>3, <2>4, <3>1, <4>2, <2>1 DEF Judged, IsActiveFact, IsFact
        <5>2. PICK q \in ProposalIds :
                /\ Records(q) /\ status[q] = "confirmed" /\ memoryOf[q] = k
                /\ \A r \in ProposalIds \ {q} : Records(r) => memoryOf[r] # k
          BY <3>1, <5>1 DEF EveryMemoryConfirmed
        <5>3. QED BY <2>1, <4>2, <5>2
      <4>3. QED BY <4>1, <4>2
    <3>2. QED BY <3>1 DEF EveryMemoryConfirmed
  <2>8. SupersededOnce'
    BY <2>1, <2>3 DEF RowInv, SupersededOnce
  <2>9. OneBoundary'
    <3>1. Boundaries(memories') \subseteq Boundaries(memories) \union {m}
      BY <2>3, <2>4 DEF Boundaries
    <3>2. CASE Draft[p].claim = "plain"
      <4>1. m \notin Boundaries(memories')
        BY <2>2, <3>2, NewRowType DEF Boundaries
      <4>2. QED BY <3>1, <4>1 DEF OneBoundary
    <3>3. CASE Draft[p].claim # "plain"
      BY <2>1, <3>1, <3>3 DEF Judged, OneBoundary
    <3>4. QED BY <3>2, <3>3
  <2>10. QED BY <2>6, <2>7, <2>8, <2>9
<1>3. ASSUME NEW p \in ProposalIds, Invalidated(p) PROVE TableInv'
  <2> DEFINE t == Draft[p].target
  <2>1. /\ status[p] = "pending" /\ ~Records(p) /\ ~Supersedes(p) /\ IsFact(memories, t)
        /\ status'[p] = "confirmed" /\ memoryOf'[p] = t
        /\ \A q \in ProposalIds \ {p} : status'[q] = status[q] /\ memoryOf'[q] = memoryOf[q]
    BY <1>1, <1>3, OperationKinds DEF Invalidated
  <2>2. PICK row \in Memory : row = memories[t] /\ row.type = "fact"
    BY <1>1, <2>1 DEF IsFact
  <2>3. /\ memories'[t] = [row EXCEPT !.status = "inactive"]
        /\ \A k \in MemoryIds \ {t} : memories'[k] = memories[k]
    BY <1>1, <1>3, <2>1, <2>2 DEF Invalidated, IsFact
  <2>4. IsFact(memories', t) /\ memories'[t].status = "inactive"
    BY <2>1, <2>2, <2>3, UpdatedRow DEF IsFact, MemoryStatus
  <2>5. \A k \in MemoryIds :
           /\ memories[k] # NoMemory <=> memories'[k] # NoMemory
           /\ IsFact(memories, k) => IsFact(memories', k)
           /\ IsFact(memories, k) /\ memories[k].status # "active" => memories'[k].status # "active"
    BY <2>1, <2>3, <2>4 DEF IsFact
  <2>6. RowInv'
    <3>1. \A q \in ProposalIds : status'[q] = "confirmed" =>
             memoryOf'[q] \in MemoryIds /\ memories'[memoryOf'[q]] # NoMemory
      BY <2>1, <2>5 DEF RowInv, IsFact
    <3>2. \A q \in ProposalIds : status'[q] = "confirmed" /\ Supersedes(q) =>
             IsFact(memories', Draft[q].target) /\ memories'[Draft[q].target].status # "active"
      BY <2>1, <2>5 DEF RowInv, IsFact
    <3>3. QED BY <2>1, <2>5, <3>1, <3>2 DEF RowInv
  <2>7. EveryMemoryConfirmed'
    BY <2>1, <2>5 DEF EveryMemoryConfirmed
  <2>8. SupersededOnce'
    BY <2>1 DEF SupersededOnce
  <2>9. OneBoundary'
    <3>1. Boundaries(memories') \subseteq Boundaries(memories)
      BY <2>3, <2>4 DEF Boundaries
    <3>2. QED BY <3>1 DEF OneBoundary
  <2>10. QED BY <2>6, <2>7, <2>8, <2>9
<1>4. ASSUME NEW p \in ProposalIds, Settled(p) PROVE TableInv'
  BY <1>1, <1>4 DEF Settled, RowInv, EveryMemoryConfirmed, SupersededOnce, OneBoundary
<1>5. CASE UNCHANGED <<status, memories, memoryOf>>
  BY <1>5 DEF RowInv, EveryMemoryConfirmed, SupersededOnce, OneBoundary
<1>6. QED BY <1>2, <1>3, <1>4, <1>5, TableMoves

\* The tables invariant holds of every SQLite behaviour.
LEMMA TableInvariant == ASSUME Serialised PROVE Spec => [](SafeInv /\ TableInv)
<1>1. Init => TableInv
  BY DEF Init, TableInv, RowInv, EveryMemoryConfirmed, SupersededOnce, OneBoundary, Boundaries
<1>2. SafeInv /\ TableInv /\ [Next]_vars => TableInv'
  BY TableStep
<1>3. QED BY <1>1, <1>2, SafeInvariant, PTL DEF Spec

\* On SQLite no request leaves a memory nobody confirmed, or one memory for
\* two confirmations, for any number of requests (store.py: _confirm_once).
THEOREM Confirmed == ASSUME Serialised PROVE Spec => []EveryMemoryConfirmed
BY TableInvariant, PTL DEF TableInv

\* On SQLite at most one confirmed proposal supersedes a fact.
THEOREM Superseded == ASSUME Serialised PROVE Spec => []SupersededOnce
BY TableInvariant, PTL DEF TableInv

\* On SQLite the MUD guard keeps confirmed boundary decisions from piling up.
THEOREM Guarded == ASSUME Serialised PROVE Spec => []OneBoundary
BY TableInvariant, PTL DEF TableInv

-----------------------------------------------------------------------------
(* What follows for the audit and for the answers *)

\* A request that goes on to the except clause has read a pending or resolved
\* proposal; no row goes back to absent.
SeenInv == \A c \in Clients : pc[c] # "idle" => status[job[c]] # "absent"

RecordInv == SeenInv /\ AuditMatches /\ AnswersHold

\* Appending to a trail of no or one event.
LEMMA Appended ==
    ASSUME NEW S, NEW d \in S, NEW e \in S
    PROVE  Append(<<>>, e) = <<e>> /\ Append(<<d>>, e) = <<d, e>>
<1>1. <<>> \in Seq(S) /\ <<d>> \in Seq(S) /\ <<d, e>> \in Seq(S)
  OBVIOUS
<1>2. Append(<<>>, e) = <<e>>
  BY <1>1
<1>3. Append(<<d>>, e) \in Seq(S) /\ Len(Append(<<d>>, e)) = 2
  BY <1>1, AppendProperties
<1>4. Append(<<d>>, e)[1] = d /\ Append(<<d>>, e)[2] = e
  BY <1>1, AppendProperties
<1>5. Append(<<d>>, e) = <<d, e>>
  <2>1. \A i \in 1..Len(Append(<<d>>, e)) : Append(<<d>>, e)[i] = <<d, e>>[i]
    BY <1>3, <1>4
  <2>2. Len(Append(<<d>>, e)) = Len(<<d, e>>)
    BY <1>3
  <2>3. QED BY <1>1, <1>3, <2>1, <2>2, SeqEqual
<1>6. QED BY <1>2, <1>5

\* Every step keeps the trail and the answers in agreement with the row.
LEMMA RecordStep ==
    ASSUME SafeInv, RowInv, RecordInv, [Next]_vars
    PROVE  RecordInv'
<1> USE DEF RecordInv
<1>1. /\ status \in [ProposalIds -> Statuses]
      /\ memoryOf \in [ProposalIds -> MemoryIds \union {NoMemory}]
      /\ audit \in [ProposalIds -> Seq(AuditEvents)]
      /\ told \in [ProposalIds -> SUBSET Answers]
      /\ pc \in [Clients -> Steps]
      /\ job \in [Clients -> ProposalIds \union {NoProposal}]
      /\ \A c \in Clients : pc[c] # "idle" => job[c] \in ProposalIds
  BY DEF SafeInv, TypeOK
<1>2. \A c \in Clients : pc[c] \in InTransaction => status[job[c]] = "pending"
  BY DEF SafeInv, WorkInv, WorkOf
<1>3. SeenInv'
  <2>1. \A p \in ProposalIds : status[p] # "absent" => status'[p] # "absent"
    BY <1>1, TableMoves DEF Recorded, Invalidated, Settled
  <2>2. ASSUME NEW c \in Clients, pc'[c] # "idle" PROVE status'[job'[c]] # "absent"
    <3>1. CASE Still(c)
      BY <1>1, <2>1, <2>2, <3>1 DEF Still, SeenInv
    <3>2. CASE Works(c)
      <4> USE DEF Begin, Continue, Return, Close, RaiseValueError, tables
      <4>1. CASE \E p \in ProposalIds : Confirm(c, p)
        BY <1>1, <2>2, <4>1 DEF Confirm, ConfirmPending, ConfirmAgain, ConfirmResolved
      <4>2. CASE \E p \in ProposalIds : Reject(c, p)
        BY <1>1, <2>2, <4>2 DEF Reject, RejectPending, RejectAgain, RejectResolved
      <4>3. CASE Guard(c) \/ InvalidateTarget(c) \/ SupersedeTarget(c) \/ Insert(c) \/ ReadAgain(c)
        BY <1>1, <2>2, <4>3 DEF SeenInv, Guard, InvalidateTarget, SupersedeTarget, Insert, ReadAgain
      <4>4. CASE Commit(c) \/ MarkFailed(c) \/ MarkRejected(c) \/ Crash(c)
        BY <1>1, <2>2, <4>4 DEF Commit, MarkFailed, MarkRejected, Crash
      <4>5. QED BY <3>2, <4>1, <4>2, <4>3, <4>4 DEF Works
    <3>3. QED BY <3>1, <3>2, WhoMoves DEF SafeInv
  <2>3. QED BY <2>2 DEF SeenInv
<1>4. ASSUME NEW p \in ProposalIds, NEW s \in {"confirmed", "rejected", "failed"},
             NEW m \in MemoryIds \union {NoMemory},
             status[p] = "pending", Log(p, s, m),
             status' = [status EXCEPT ![p] = s], memoryOf' = [memoryOf EXCEPT ![p] = m]
      PROVE  AuditMatches'
  <2>1. /\ status'[p] = s /\ memoryOf'[p] = m /\ audit'[p] = Append(audit[p], Event(s, m))
        /\ \A q \in ProposalIds \ {p} :
              status'[q] = status[q] /\ memoryOf'[q] = memoryOf[q] /\ audit'[q] = audit[q]
    BY <1>1, <1>4 DEF Log, Event
  <2>2. audit[p] = <<Event("created", NoMemory)>>
    BY <1>4 DEF AuditMatches, Trail
  <2>3. audit'[p] = <<Event("created", NoMemory), Event(s, m)>>
    <3>1. Event("created", NoMemory) \in AuditEvents /\ Event(s, m) \in AuditEvents
      BY DEF Event, AuditEvents
    <3>2. Append(<<Event("created", NoMemory)>>, Event(s, m)) = <<Event("created", NoMemory), Event(s, m)>>
      BY <3>1, Appended
    <3>3. QED BY <2>1, <2>2, <3>2
  <2>4. Trail(p)' = <<Event("created", NoMemory), Event(s, m)>>
    BY <2>1 DEF Trail, Event
  <2>5. \A q \in ProposalIds \ {p} : Trail(q)' = Trail(q)
    BY <2>1 DEF Trail, Event
  <2>6. QED BY <2>1, <2>3, <2>4, <2>5 DEF AuditMatches
<1>5. ASSUME NEW p \in ProposalIds, Propose(p) PROVE RecordInv'
  <2>1. /\ status[p] = "absent" /\ status'[p] = "pending"
        /\ audit'[p] = Append(audit[p], Event("created", NoMemory))
        /\ \A q \in ProposalIds \ {p} : status'[q] = status[q] /\ audit'[q] = audit[q]
        /\ memoryOf' = memoryOf /\ told' = told
    BY <1>1, <1>5 DEF Propose, Log, Event
  <2>2. audit[p] = <<>>
    BY <2>1 DEF AuditMatches, Trail
  <2>3. audit'[p] = <<Event("created", NoMemory)>>
    BY <2>1, <2>2, Appended
  <2>4. AuditMatches'
    BY <2>1, <2>3 DEF AuditMatches, Trail, Event
  <2>5. AnswersHold'
    BY <2>1 DEF AnswersHold
  <2>6. QED BY <1>3, <2>4, <2>5
<1>6. ASSUME NEW c \in Clients, NEW p \in ProposalIds,
             NEW s \in {"confirmed", "rejected", "failed"}, NEW a \in Answers,
             status[p] = "pending", status' = [status EXCEPT ![p] = s], Answer(p, a),
             \/ s = "confirmed" /\ a = "confirm200"
             \/ s = "rejected" /\ a = "reject200"
             \/ s = "failed" /\ a = "confirm409"
      PROVE  AnswersHold'
  <2>1. /\ status'[p] = s /\ told'[p] = told[p] \union {a}
        /\ \A q \in ProposalIds \ {p} : status'[q] = status[q] /\ told'[q] = told[q]
    BY <1>1, <1>6 DEF Answer
  <2>2. \A b \in Answers : b \notin told[p]
    BY <1>6 DEF AnswersHold, Answers
  <2>3. \A b \in Answers : b \in told'[p] => b = a
    BY <2>1, <2>2
  <2>4. QED BY <1>6, <2>1, <2>3 DEF AnswersHold, Answers
<1>7. ASSUME NEW c \in Clients, Commit(c) PROVE RecordInv'
  <2>1. /\ job[c] \in ProposalIds /\ memo[c] \in MemoryIds /\ status[job[c]] = "pending"
        /\ status' = [status EXCEPT ![job[c]] = "confirmed"]
        /\ memoryOf' = [memoryOf EXCEPT ![job[c]] = memo[c]]
        /\ Log(job[c], "confirmed", memo[c]) /\ Answer(job[c], "confirm200")
    BY <1>1, <1>2, <1>7 DEF Commit, SafeInv, FactInv, FactOf, InTransaction
  <2>2. AuditMatches'
    BY <1>4, <2>1
  <2>3. AnswersHold'
    BY <1>6, <2>1 DEF Answers
  <2>4. QED BY <1>3, <2>2, <2>3
<1>8. ASSUME NEW c \in Clients, MarkFailed(c) \/ MarkRejected(c) PROVE RecordInv'
  <2>1. job[c] \in ProposalIds /\ status[job[c]] = "pending" /\ memoryOf[job[c]] = NoMemory
    BY <1>1, <1>2, <1>8 DEF MarkFailed, MarkRejected, RowInv, InTransaction
  <2>2. memoryOf' = [memoryOf EXCEPT ![job[c]] = NoMemory]
    BY <1>1, <1>8, <2>1 DEF MarkFailed, MarkRejected
  <2>3. CASE MarkFailed(c)
    <3>1. /\ status' = [status EXCEPT ![job[c]] = "failed"]
          /\ Log(job[c], "failed", NoMemory) /\ Answer(job[c], "confirm409")
      BY <2>3 DEF MarkFailed
    <3>2. AuditMatches'
      BY <1>4, <2>1, <2>2, <3>1
    <3>3. AnswersHold'
      BY <1>6, <2>1, <3>1 DEF Answers
    <3>4. QED BY <1>3, <3>2, <3>3
  <2>4. CASE MarkRejected(c)
    <3>1. /\ status' = [status EXCEPT ![job[c]] = "rejected"]
          /\ Log(job[c], "rejected", NoMemory) /\ Answer(job[c], "reject200")
      BY <2>4 DEF MarkRejected
    <3>2. AuditMatches'
      BY <1>4, <2>1, <2>2, <3>1
    <3>3. AnswersHold'
      BY <1>6, <2>1, <3>1 DEF Answers
    <3>4. QED BY <1>3, <3>2, <3>3
  <2>5. QED BY <1>8, <2>3, <2>4
<1>9. ASSUME UNCHANGED tables, NEW p \in ProposalIds, NEW a \in Answers, Answer(p, a),
             /\ a = "confirm200" => status[p] = "confirmed"
             /\ a = "reject200" => status[p] = "rejected"
             /\ a = "confirm409" => status[p] \in {"confirmed", "rejected", "failed"}
             /\ a = "reject409" => status[p] \in {"confirmed", "failed"}
      PROVE  RecordInv'
  <2>1. /\ told'[p] = told[p] \union {a} /\ \A q \in ProposalIds \ {p} : told'[q] = told[q]
        /\ status' = status /\ memoryOf' = memoryOf /\ audit' = audit
    BY <1>1, <1>9 DEF Answer, tables
  <2>2. AuditMatches'
    BY <2>1 DEF AuditMatches, Trail, Event
  <2>3. AnswersHold'
    BY <1>9, <2>1 DEF AnswersHold
  <2>4. QED BY <1>3, <2>2, <2>3
<1>10. ASSUME UNCHANGED <<tables, told>> PROVE RecordInv'
  BY <1>3, <1>10 DEF AuditMatches, Trail, Event, AnswersHold, tables
<1>11. ASSUME NEW c \in Clients, Works(c), ~Commit(c), ~MarkFailed(c), ~MarkRejected(c)
       PROVE  RecordInv'
  <2>1. CASE \E p \in ProposalIds : Confirm(c, p) \/ Reject(c, p)
    <3>1. PICK p \in ProposalIds : Confirm(c, p) \/ Reject(c, p)
      BY <2>1
    <3>2. CASE ConfirmAgain(c, p) \/ RejectAgain(c, p) \/ RejectResolved(c, p)
      BY <1>9, <3>1, <3>2 DEF Confirm, Reject, ConfirmAgain, RejectAgain, RejectResolved, Answers
    <3>3. QED BY <1>10, <3>1, <3>2 DEF Confirm, Reject, ConfirmPending, ConfirmResolved, RejectPending
  <2>2. CASE ReadAgain(c)
    <3>1. job[c] \in ProposalIds /\ status[job[c]] \in Statuses /\ status[job[c]] # "absent"
      BY <1>1, <2>2 DEF ReadAgain, SeenInv
    <3>2. CASE status[job[c]] = "pending"
      BY <1>10, <2>2, <3>2 DEF ReadAgain
    <3>3. CASE status[job[c]] # "pending"
      BY <1>9, <2>2, <3>1, <3>3 DEF ReadAgain, Statuses, Answers
    <3>4. QED BY <3>2, <3>3
  <2>3. CASE Guard(c) \/ InvalidateTarget(c) \/ SupersedeTarget(c) \/ Insert(c) \/ Crash(c)
    BY <1>10, <2>3 DEF Guard, InvalidateTarget, SupersedeTarget, Insert, Crash, RaiseValueError
  <2>4. QED BY <1>11, <2>1, <2>2, <2>3 DEF Works
<1>12. CASE UNCHANGED vars
  BY <1>10, <1>12 DEF vars, tables
<1>13. QED BY <1>5, <1>7, <1>8, <1>11, <1>12 DEF Next, Works

\* Tables, trails and answers together.
LEMMA RecordInvariant == ASSUME Serialised PROVE Spec => [](SafeInv /\ TableInv /\ RecordInv)
<1>1. Init => RecordInv
  BY DEF Init, RecordInv, SeenInv, AuditMatches, Trail, AnswersHold
<1>2. SafeInv /\ TableInv /\ RecordInv /\ [Next]_vars => RecordInv'
  BY RecordStep DEF TableInv
<1>3. QED BY <1>1, <1>2, TableInvariant, PTL DEF Spec

\* On SQLite the audit events of a proposal tell its whole history (store.py:
\* _audit runs in the transaction of every transition).
THEOREM Audited == ASSUME Serialised PROVE Spec => []AuditMatches
BY RecordInvariant, PTL DEF RecordInv

\* On SQLite no answer to confirm or reject is taken back.
THEOREM Answered == ASSUME Serialised PROVE Spec => []AnswersHold
BY RecordInvariant, PTL DEF RecordInv

\* On SQLite confirmation is idempotent (docs/architecture.md, "Approval
\* boundary"); the run on Postgres shows the assumption is needed.
THEOREM Idempotent == ASSUME Serialised PROVE Spec => []ConfirmationIdempotent
<1>1. AuditMatches => ConfirmationIdempotent
  <2> SUFFICES ASSUME AuditMatches, NEW p \in ProposalIds,
                      NEW i \in DOMAIN audit[p], NEW j \in DOMAIN audit[p],
                      audit[p][i].action = "confirmed", audit[p][j].action = "confirmed"
               PROVE  i = j
    BY DEF ConfirmationIdempotent
  <2>1. audit[p] = Trail(p)
    BY DEF AuditMatches
  <2>2. QED BY <2>1 DEF Trail, Event
<1>2. QED BY <1>1, Audited, PTL
=============================================================================
