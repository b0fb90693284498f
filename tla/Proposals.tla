----------------------------- MODULE Proposals -----------------------------
(***************************************************************************)
(* AppStore's proposals: create_proposal, confirm and reject, run by       *)
(* concurrent requests over one workspace database.                        *)
(*                                                                         *)
(* A request is a thread of the server's pool.  Each statement that reads  *)
(* what another request may have changed is a step of its own; the writes  *)
(* of a transaction become visible at its commit, so they are one step.    *)
(* Serialised says which Database runs underneath: SQLite takes the write  *)
(* lock at BEGIN IMMEDIATE and keeps it to the commit; PostgresDatabase    *)
(* opens a READ COMMITTED transaction, where each statement sees what is   *)
(* committed when it starts and nothing is locked before a write.          *)
(* (Row locks only delay an UPDATE to the other commit, and each UPDATE    *)
(* here writes constants by primary key, so the commit order says all.)    *)
(***************************************************************************)
EXTENDS MemoryModel, Sequences, Naturals

CONSTANTS
    Clients,        \* request threads
    NoClient,       \* no request holds the write lock
    NoProposal,     \* an idle request works on nothing
    Serialised      \* TRUE: SQLite; FALSE: Postgres

ASSUME ClientAssumption ==
    NoClient \notin Clients /\ NoProposal \notin ProposalIds /\ Serialised \in BOOLEAN

VARIABLES
    status,     \* proposals.status, "absent" before the INSERT
    memoryOf,   \* proposals.memory_id
    memories,   \* the memories table
    audit,      \* audit_events, by proposal and in commit order
    lock,       \* the request inside BEGIN IMMEDIATE, or NoClient
    pc,         \* what each request does next
    job,        \* the proposal it works on
    memo,       \* the memory id its open transaction has written
    told        \* the answers clients have received about each proposal

tables == <<status, memoryOf, memories, audit>>
vars == <<status, memoryOf, memories, audit, lock, pc, job, memo, told>>

Statuses == {"absent", "pending", "confirmed", "rejected", "failed"}
Steps == {"idle", "guard", "target", "insert", "resolve", "fail", "markFailed", "reject"}
\* Steps inside a transaction that has read the proposal.
InTransaction == {"guard", "target", "insert", "resolve", "markFailed", "reject"}
Answers == {"confirm200", "confirm409", "reject200", "reject409"}
AuditEvents == [action: {"created", "confirmed", "rejected", "failed"},
                memory: MemoryIds \union {NoMemory}]

TypeOK ==
    /\ status \in [ProposalIds -> Statuses]
    /\ memoryOf \in [ProposalIds -> MemoryIds \union {NoMemory}]
    /\ memories \in [MemoryIds -> Memory \union {NoMemory}]
    /\ audit \in [ProposalIds -> Seq(AuditEvents)]
    /\ lock \in Clients \union {NoClient}
    /\ pc \in [Clients -> Steps]
    /\ job \in [Clients -> ProposalIds \union {NoProposal}]
    /\ \A c \in Clients : pc[c] # "idle" => job[c] \in ProposalIds
    /\ memo \in [Clients -> MemoryIds \union {NoMemory}]
    /\ told \in [ProposalIds -> SUBSET Answers]

Init ==
    /\ status = [p \in ProposalIds |-> "absent"]
    /\ memoryOf = [p \in ProposalIds |-> NoMemory]
    /\ memories = Seed
    /\ audit = [p \in ProposalIds |-> <<>>]
    /\ lock = NoClient
    /\ pc = [c \in Clients |-> "idle"]
    /\ job = [c \in Clients |-> NoProposal]
    /\ memo = [c \in Clients |-> NoMemory]
    /\ told = [p \in ProposalIds |-> {}]

-----------------------------------------------------------------------------
(* Transactions *)

CanBegin == Serialised => lock = NoClient

\* c's transaction for p begins and its first SELECT leads to step s.
Begin(c, p, s) ==
    /\ lock' = IF Serialised THEN c ELSE lock
    /\ pc' = [pc EXCEPT ![c] = s]
    /\ job' = [job EXCEPT ![c] = p]

Continue(c, s) ==
    /\ pc' = [pc EXCEPT ![c] = s]
    /\ UNCHANGED <<lock, job>>

\* c's transaction ends, by commit or by rollback.
Close(c) ==
    /\ lock' = IF lock = c THEN NoClient ELSE lock
    /\ memo' = [memo EXCEPT ![c] = NoMemory]

\* Mutation: the transaction's context manager forgets the request's state.
ReturnOpen(c) ==
    /\ Close(c)
    /\ job' = [job EXCEPT ![c] = NoProposal]
    /\ UNCHANGED pc

\* The request is over.
Return(c) ==
    /\ Close(c)
    /\ pc' = [pc EXCEPT ![c] = "idle"]
    /\ job' = [job EXCEPT ![c] = NoProposal]

Log(p, action, m) ==
    audit' = [audit EXCEPT ![p] = Append(@, [action |-> action, memory |-> m])]

Answer(p, a) == told' = [told EXCEPT ![p] = @ \union {a}]

\* A ValueError: everything the transaction wrote is rolled back, and confirm
\* goes on to its except clause.
RaiseValueError(c) ==
    /\ Close(c)
    /\ pc' = [pc EXCEPT ![c] = "fail"]
    /\ UNCHANGED <<tables, job, told>>

-----------------------------------------------------------------------------
(* create_proposal: the row and its audit event, in one transaction *)

Propose(p) ==
    /\ CanBegin
    /\ status[p] = "absent"
    /\ status' = [status EXCEPT ![p] = "pending"]
    /\ Log(p, "created", NoMemory)
    /\ UNCHANGED <<memoryOf, memories, lock, pc, job, memo, told>>

-----------------------------------------------------------------------------
(* confirm *)

\* Mutation: the guard is skipped for a draft that supersedes a fact.
AfterReadUnguarded(p) ==
    CASE Invalidates(p) \/ Supersedes(p) -> "target"
      [] ~Invalidates(p) /\ ~Supersedes(p) /\ Draft[p].claim # "plain" -> "guard"
      [] OTHER -> "insert"

\* The step after the proposal was read pending, and after the MUD guard.
AfterGuard(p) == IF Supersedes(p) THEN "target" ELSE "insert"
AfterRead(p) ==
    CASE Invalidates(p) -> "target"
      [] ~Invalidates(p) /\ Draft[p].claim # "plain" -> "guard"
      [] OTHER -> AfterGuard(p)

ConfirmPending(c, p) ==
    /\ status[p] = "pending"
    /\ Begin(c, p, AfterRead(p))
    /\ UNCHANGED told

\* Already confirmed: the stored proposal is the answer.
ConfirmAgain(c, p) ==
    /\ status[p] = "confirmed"
    /\ Answer(p, "confirm200")
    /\ UNCHANGED <<lock, pc, job>>

\* Rejected or failed: a ValueError, so the except clause runs.
ConfirmResolved(c, p) ==
    /\ status[p] \in {"rejected", "failed"}
    /\ pc' = [pc EXCEPT ![c] = "fail"]
    /\ job' = [job EXCEPT ![c] = p]
    /\ UNCHANGED <<lock, told>>

\* The first statement of _confirm_once: SELECT the proposal.
Confirm(c, p) ==
    /\ pc[c] = "idle" /\ CanBegin
    /\ ConfirmPending(c, p) \/ ConfirmAgain(c, p) \/ ConfirmResolved(c, p)
    /\ UNCHANGED <<tables, memo>>

\* The MUD guard's query.
Guard(c) ==
    /\ pc[c] = "guard"
    /\ IF Boundaries(memories) # {}
       THEN RaiseValueError(c)
       ELSE Continue(c, AfterGuard(job[c])) /\ UNCHANGED <<tables, memo, told>>

\* invalidate_fact: UPDATE ... WHERE id=? AND entity_type='fact', and its rowcount.
InvalidateTarget(c) ==
    LET target == Draft[job[c]].target IN
    /\ pc[c] = "target" /\ Invalidates(job[c])
    /\ IF IsFact(memories, target)
       THEN /\ Continue(c, "resolve")
            /\ memo' = [memo EXCEPT ![c] = target]
            /\ UNCHANGED <<tables, told>>
       ELSE RaiseValueError(c)

\* Mutation: the target may be any fact, as invalidate_fact has it.
SupersedeAnyFact(c) ==
    /\ pc[c] = "target" /\ Supersedes(job[c])
    /\ IF IsFact(memories, Draft[job[c]].target)
       THEN Continue(c, "insert") /\ UNCHANGED <<tables, memo, told>>
       ELSE RaiseValueError(c)

\* supersede_fact: SELECT the target, still an active fact.
SupersedeTarget(c) ==
    /\ pc[c] = "target" /\ Supersedes(job[c])
    /\ IF IsActiveFact(memories, Draft[job[c]].target)
       THEN Continue(c, "insert") /\ UNCHANGED <<tables, memo, told>>
       ELSE RaiseValueError(c)

\* The key insert_memory writes: the payload's id, else a fresh uuid.
NewKeys(p) ==
    IF Draft[p].id # NoMemory
    THEN {Draft[p].id}
    ELSE {m \in MemoryIds : /\ memories[m] = NoMemory
                            /\ m \notin NamedIds
                            /\ \A c \in Clients : memo[c] # m}

\* The required-field check, then insert_memory.  A key that exists raises
\* an IntegrityError, which confirm does not catch: the request dies (Crash).
Insert(c) ==
    LET p == job[c] IN
    /\ pc[c] = "insert"
    /\ \/ /\ ~Draft[p].complete
          /\ RaiseValueError(c)
       \/ /\ Draft[p].complete
          /\ \E m \in NewKeys(p) :
                /\ memories[m] = NoMemory
                /\ memo' = [memo EXCEPT ![c] = m]
          /\ Continue(c, "resolve")
          /\ UNCHANGED <<tables, told>>

\* Mutation: a superseded fact stays active.
WrittenBeside(c) ==
    LET p == job[c] IN
    [m \in MemoryIds |->
        IF m # memo[c] THEN memories[m]
        ELSE IF Invalidates(p) THEN [memories[m] EXCEPT !.status = "inactive"]
        ELSE NewRow(p)]

\* What the memories table holds once c's transaction commits.
Written(c) ==
    LET p == job[c] IN
    [m \in MemoryIds |->
        IF Invalidates(p)
        THEN IF m = memo[c] THEN [memories[m] EXCEPT !.status = "inactive"]
                            ELSE memories[m]
        ELSE IF m = memo[c] THEN NewRow(p)
        ELSE IF Supersedes(p) /\ m = Draft[p].target
             THEN [memories[m] EXCEPT !.status = "superseded"]
             ELSE memories[m]]

\* UPDATE the proposal, the audit event, commit; the answer is the proposal.
\* Two open inserts of one payload id collide here at the latest.
Commit(c) ==
    LET p == job[c] IN
    /\ pc[c] = "resolve"
    /\ Invalidates(p) \/ memories[memo[c]] = NoMemory
    /\ memories' = Written(c)
    /\ status' = [status EXCEPT ![p] = "confirmed"]
    /\ memoryOf' = [memoryOf EXCEPT ![p] = memo[c]]
    /\ Log(p, "confirmed", memo[c])
    /\ Answer(p, "confirm200")
    /\ Return(c)

-----------------------------------------------------------------------------
(* confirm's except clause: a second transaction *)

\* Mutation: the except clause does not look at the status it overwrites.
ReadAgainUnchecked(c) ==
    /\ pc[c] = "fail" /\ CanBegin
    /\ Begin(c, job[c], "markFailed")
    /\ UNCHANGED <<tables, memo, told>>

ReadAgain(c) ==
    LET p == job[c] IN
    /\ pc[c] = "fail" /\ CanBegin
    /\ IF status[p] = "pending"
       THEN Begin(c, p, "markFailed") /\ UNCHANGED <<memo, told>>
       ELSE Return(c) /\ Answer(p, "confirm409")
    /\ UNCHANGED tables

MarkFailed(c) ==
    LET p == job[c] IN
    /\ pc[c] = "markFailed"
    /\ status' = [status EXCEPT ![p] = "failed"]
    /\ Log(p, "failed", NoMemory)
    /\ Answer(p, "confirm409")
    /\ Return(c)
    /\ UNCHANGED <<memories, memoryOf>>

-----------------------------------------------------------------------------
(* reject *)

\* Mutation: reject does not look at the status it overwrites.
RejectUnchecked(c, p) ==
    /\ status[p] # "absent"
    /\ Begin(c, p, "reject")
    /\ UNCHANGED told

RejectPending(c, p) ==
    /\ status[p] = "pending"
    /\ Begin(c, p, "reject")
    /\ UNCHANGED told

RejectAgain(c, p) ==
    /\ status[p] = "rejected"
    /\ Answer(p, "reject200")
    /\ UNCHANGED <<lock, pc, job>>

RejectResolved(c, p) ==
    /\ status[p] \in {"confirmed", "failed"}
    /\ Answer(p, "reject409")
    /\ UNCHANGED <<lock, pc, job>>

Reject(c, p) ==
    /\ pc[c] = "idle" /\ CanBegin
    /\ RejectPending(c, p) \/ RejectAgain(c, p) \/ RejectResolved(c, p)
    /\ UNCHANGED <<tables, memo>>

MarkRejected(c) ==
    LET p == job[c] IN
    /\ pc[c] = "reject"
    /\ status' = [status EXCEPT ![p] = "rejected"]
    /\ Log(p, "rejected", NoMemory)
    /\ Answer(p, "reject200")
    /\ Return(c)
    /\ UNCHANGED <<memories, memoryOf>>

-----------------------------------------------------------------------------
(* A request dies *)

\* Mutation: what the transaction has written is kept.
CrashCommitting(c) ==
    /\ pc[c] # "idle"
    /\ Return(c)
    /\ memories' = IF pc[c] = "resolve" THEN Written(c) ELSE memories
    /\ UNCHANGED <<status, memoryOf, audit, told>>

\* The request dies without an answer: the server stops, SQLite reports the
\* database locked after its timeout, or an insert raises IntegrityError.
\* The open transaction is rolled back.
Crash(c) ==
    /\ pc[c] # "idle"
    /\ Return(c)
    /\ UNCHANGED <<tables, told>>

Next ==
    \/ \E p \in ProposalIds : Propose(p)
    \/ \E c \in Clients :
          \/ \E p \in ProposalIds : Confirm(c, p)
          \/ Guard(c)
          \/ InvalidateTarget(c)
          \/ SupersedeTarget(c)
          \/ Insert(c)
          \/ Commit(c)
          \/ ReadAgain(c)
          \/ MarkFailed(c)
          \/ \E p \in ProposalIds : Reject(c, p)
          \/ MarkRejected(c)
          \/ Crash(c)

Spec == Init /\ [][Next]_vars

-----------------------------------------------------------------------------
(* Properties *)

\* Every memory that was not seeded is the memory of exactly one confirmed
\* proposal: no request leaves a row nobody approved, or one row for two
\* approvals (store.py: _confirm_once inserts it and names it in proposals).
EveryMemoryConfirmed ==
    \A m \in MemoryIds :
        memories[m] # NoMemory /\ Seed[m] = NoMemory =>
            \E p \in ProposalIds :
                /\ Records(p) /\ status[p] = "confirmed" /\ memoryOf[p] = m
                /\ \A q \in ProposalIds \ {p} : Records(q) => memoryOf[q] # m

\* Confirming is idempotent: however many confirm requests name a proposal, it
\* is carried out once (docs/architecture.md, "Approval boundary").
ConfirmationIdempotent ==
    \A p \in ProposalIds : \A i, j \in DOMAIN audit[p] :
        audit[p][i].action = "confirmed" /\ audit[p][j].action = "confirmed" => i = j

\* The audit events of a proposal are its creation and, once it is resolved,
\* one resolution that agrees with its row (store.py: _audit is called in the
\* transaction of every transition).
Event(action, m) == [action |-> action, memory |-> m]
Trail(p) ==
    CASE status[p] = "absent" -> <<>>
      [] status[p] = "pending" -> <<Event("created", NoMemory)>>
      [] OTHER -> <<Event("created", NoMemory), Event(status[p], memoryOf[p])>>
AuditMatches == \A p \in ProposalIds : audit[p] = Trail(p)

\* No answer is taken back: what a client was told of a proposal is what its
\* row says from then on.  A 409 to confirm says the proposal is settled, no
\* more: between the ValueError and the except clause another request may
\* remove the obstacle and confirm it (store.py: confirm).
AnswersHold ==
    \A p \in ProposalIds :
        /\ "confirm200" \in told[p] => status[p] = "confirmed"
        /\ "reject200" \in told[p] => status[p] = "rejected"
        /\ "confirm409" \in told[p] => status[p] \in {"confirmed", "rejected", "failed"}
        /\ "reject409" \in told[p] => status[p] \in {"confirmed", "failed"}

\* A fact is superseded by one confirmed proposal at most (store.py:
\* supersede_fact selects its target with status='active').
SupersededOnce ==
    \A p, q \in ProposalIds :
        /\ status[p] = "confirmed" /\ Supersedes(p)
        /\ status[q] = "confirmed" /\ Supersedes(q)
        /\ Draft[p].target = Draft[q].target
        => p = q

\* The MUD guard leaves no two active project-boundary decisions that were
\* both confirmed, or one confirmed beside a seeded one: a boundary says
\* "merge" itself, so it is guarded by the boundary that is active already.
OneBoundary ==
    \A m, n \in Boundaries(memories) :
        m # n => Seed[m] # NoMemory /\ Seed[n] # NoMemory

\* The requests implement the approval boundary: each commit is one of its
\* steps, judged on the tables as they are at the commit.
Boundary == INSTANCE ApprovalBoundary
ImplementsApprovalBoundary == Boundary!Spec
=============================================================================
