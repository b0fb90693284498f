------------------------------ MODULE Handoffs ------------------------------
(***************************************************************************)
(* Toolbox's capabilities and handoffs: drafts that are patched, published,*)
(* revised into new versions, revoked and loaded by concurrent requests.   *)
(*                                                                         *)
(* Most operations read a row on one connection and write later in a       *)
(* transaction of their own, so every read and every commit is a step.     *)
(* Two transactions read before they write, publish_handoff and the second *)
(* half of new_handoff_version; Serialised says whether the database       *)
(* (SQLite: BEGIN IMMEDIATE) keeps others out between the two.             *)
(*                                                                         *)
(* A handoff's text stands for its request and Open Plan, its ref for the  *)
(* capability it pins.  What is compiled at creation and never written     *)
(* again (architecture, evidence, edit points, risks) is left out, and so  *)
(* are requests that end in an error before they write anything.           *)
(***************************************************************************)
EXTENDS Naturals, Sequences, FiniteSetsExt

CONSTANTS
    HandoffIds,     \* primary keys of the handoffs table
    NoHandoff,      \* no such row, no such handoff
    CapabilityIds,  \* stable ids
    BuiltIn,        \* the stable ids Toolbox.seed creates
    MaxCapability,  \* bound on the versions of a capability
    Texts,          \* contents of a draft
    Keep,           \* a field the patch leaves out
    Clients,        \* request threads
    NoClient,       \* no transaction holds the write lock
    Serialised      \* TRUE: SQLite; FALSE: Postgres

ASSUME HandoffAssumption ==
    /\ NoHandoff \notin HandoffIds
    /\ BuiltIn \subseteq CapabilityIds
    /\ MaxCapability \in Nat
    /\ NoClient \notin Clients
    /\ Serialised \in BOOLEAN

VARIABLES
    capabilities,   \* CapabilityIds -> the trust of each version, oldest first
    rows,           \* the handoffs table
    receipts,       \* the handoffs named in handoff_activations
    lock,           \* the request inside BEGIN IMMEDIATE, or NoClient
    pc,             \* what each request does next
    job,            \* the handoff it works on
    edit,           \* the text and the ref it is going to write
    origin,         \* the lineage of the handoff it makes a version of
    stamp           \* the version number it has computed

tables == <<capabilities, rows, receipts>>
locals == <<job, edit, origin, stamp>>
vars == <<capabilities, rows, receipts, lock, pc, job, edit, origin, stamp>>

Trust == {"workspace", "untrusted"}
Statuses == {"draft", "published", "revoked"}
Steps == {"idle", "insert", "patch", "update", "adopt", "stamp", "publish", "activate"}

\* A ref names a version, or with 0 whichever is the latest.
Refs == CapabilityIds \X Nat
Pins == CapabilityIds \X (Nat \ {0})
Edits == [text: Texts \union {Keep}, ref: Refs \union {Keep}]

Handoff == [lineage: HandoffIds, version: Nat \ {0}, status: Statuses,
            published: BOOLEAN, text: Texts, ref: Pins]

\* No row of the table is mistaken for the missing one.
ASSUME RowAssumption == NoHandoff \notin Handoff

Blank == [text |-> Keep, ref |-> Keep]

TypeOK ==
    /\ capabilities \in [CapabilityIds -> Seq(Trust)]
    /\ rows \in [HandoffIds -> Handoff \union {NoHandoff}]
    /\ receipts \subseteq HandoffIds
    /\ lock \in Clients \union {NoClient}
    /\ pc \in [Clients -> Steps]
    /\ job \in [Clients -> HandoffIds \union {NoHandoff}]
    /\ edit \in [Clients -> Edits]
    /\ origin \in [Clients -> HandoffIds \union {NoHandoff}]
    /\ stamp \in [Clients -> Nat]
    /\ \A c \in Clients : pc[c] \notin {"idle", "insert"} =>
           job[c] \in HandoffIds /\ rows[job[c]] # NoHandoff
    /\ \A c \in Clients : pc[c] \in {"insert", "update"} =>
           edit[c] \in [text: Texts, ref: Pins]

Init ==
    /\ capabilities = [k \in CapabilityIds |-> IF k \in BuiltIn THEN <<"workspace">> ELSE <<>>]
    /\ rows = [h \in HandoffIds |-> NoHandoff]
    /\ receipts = {}
    /\ lock = NoClient
    /\ pc = [c \in Clients |-> "idle"]
    /\ job = [c \in Clients |-> NoHandoff]
    /\ edit = [c \in Clients |-> Blank]
    /\ origin = [c \in Clients |-> NoHandoff]
    /\ stamp = [c \in Clients |-> 0]

-----------------------------------------------------------------------------
(* Requests and transactions *)

CanBegin == Serialised => lock = NoClient
Take(c) == lock' = IF Serialised THEN c ELSE lock
Goto(c, step) == pc' = [pc EXCEPT ![c] = step]

\* Mutation: the request forgets its handoff and goes on.
ReturnBusy(c) ==
    /\ lock' = IF lock = c THEN NoClient ELSE lock
    /\ job' = [job EXCEPT ![c] = NoHandoff]
    /\ UNCHANGED <<pc, edit, origin, stamp>>

\* The request is over; an open transaction ends with it.
Return(c) ==
    /\ lock' = IF lock = c THEN NoClient ELSE lock
    /\ Goto(c, "idle")
    /\ job' = [job EXCEPT ![c] = NoHandoff]
    /\ edit' = [edit EXCEPT ![c] = Blank]
    /\ origin' = [origin EXCEPT ![c] = NoHandoff]
    /\ stamp' = [stamp EXCEPT ![c] = 0]

-----------------------------------------------------------------------------
(* Capabilities *)

\* create_capability: the next version, in one transaction.  Verified is
\* downgraded to workspace, and both are trusted.
CreateCapability(k, trust) ==
    /\ CanBegin
    /\ Len(capabilities[k]) < MaxCapability
    /\ capabilities' = [capabilities EXCEPT ![k] = Append(@, trust)]
    /\ UNCHANGED <<rows, receipts, lock, pc, locals>>

\* get_capability: the exact version, or the latest.
Exact(ref) == <<ref[1], IF ref[2] = 0 THEN Len(capabilities[ref[1]]) ELSE ref[2]>>

\* Mutation: whoever marked it, a capability that exists is usable.
Existing(ref) == Exact(ref)[2] \in DOMAIN capabilities[ref[1]]

\* _resolve_refs succeeds: the capability exists and is trusted.
Resolves(ref) ==
    /\ Exact(ref)[2] \in DOMAIN capabilities[ref[1]]
    /\ capabilities[ref[1]][Exact(ref)[2]] = "workspace"

-----------------------------------------------------------------------------
(* Drafts *)

Merged(h, e) ==
    [text |-> IF e.text = Keep THEN rows[h].text ELSE e.text,
     ref |-> IF e.ref = Keep THEN rows[h].ref ELSE e.ref]
Pinned(e) == [e EXCEPT !.ref = Exact(@)]

\* create_handoff up to its transaction.  Without refs it takes one that
\* recommend found, the latest of a trusted capability.
Create(c, e) ==
    /\ pc[c] = "idle"
    /\ Resolves(e.ref)
    /\ Goto(c, "insert")
    /\ edit' = [edit EXCEPT ![c] = Pinned(e)]
    /\ UNCHANGED <<tables, lock, job, origin, stamp>>

\* create_handoff's transaction: version 1 of a new lineage.  For a new
\* version of another handoff the request goes on.
Insert(c, h) ==
    /\ pc[c] = "insert" /\ CanBegin
    /\ rows[h] = NoHandoff
    /\ rows' = [rows EXCEPT ![h] =
                  [lineage |-> h, version |-> 1, status |-> "draft", published |-> FALSE,
                   text |-> edit[c].text, ref |-> edit[c].ref]]
    /\ IF origin[c] = NoHandoff
       THEN Return(c)
       ELSE /\ Goto(c, "adopt")
            /\ job' = [job EXCEPT ![c] = h]
            /\ UNCHANGED <<lock, edit, origin, stamp>>
    /\ UNCHANGED <<capabilities, receipts>>

\* update_handoff's read finds a draft, and the refs of the patch resolve.
ReadDraft(c, h, e) ==
    /\ rows[h].status = "draft"
    /\ Resolves(Merged(h, e).ref)
    /\ Goto(c, "update")
    /\ job' = [job EXCEPT ![c] = h]
    /\ edit' = [edit EXCEPT ![c] = Pinned(Merged(h, e))]
    /\ UNCHANGED <<tables, lock, origin, stamp>>

Patch(c, h, e) ==
    /\ pc[c] = "idle" /\ rows[h] # NoHandoff
    /\ ReadDraft(c, h, e)

\* update_handoff's transaction: UPDATE ... WHERE id=?, whatever the row is now.
Update(c) ==
    /\ pc[c] = "update" /\ CanBegin
    /\ rows' = [rows EXCEPT ![job[c]].text = edit[c].text, ![job[c]].ref = edit[c].ref]
    /\ Return(c)
    /\ UNCHANGED <<capabilities, receipts>>

-----------------------------------------------------------------------------
(* Versions *)

\* new_handoff_version: a draft is patched in place, which reads it again;
\* anything else is the model of a new draft.
VersionOfDraft(c, h, e) ==
    /\ pc[c] = "idle" /\ rows[h] # NoHandoff
    /\ rows[h].status = "draft"
    /\ Goto(c, "patch")
    /\ job' = [job EXCEPT ![c] = h]
    /\ edit' = [edit EXCEPT ![c] = e]
    /\ UNCHANGED <<tables, lock, origin, stamp>>

PatchInPlace(c) ==
    /\ pc[c] = "patch"
    /\ \/ ReadDraft(c, job[c], edit[c])
       \/ /\ rows[job[c]].status # "draft" \/ ~Resolves(Merged(job[c], edit[c]).ref)
          /\ Return(c) /\ UNCHANGED tables

VersionOfPublished(c, h, e) ==
    /\ pc[c] = "idle" /\ rows[h] # NoHandoff
    /\ rows[h].status # "draft"
    /\ Resolves(Merged(h, e).ref)
    /\ Goto(c, "insert")
    /\ edit' = [edit EXCEPT ![c] = Pinned(Merged(h, e))]
    /\ origin' = [origin EXCEPT ![c] = rows[h].lineage]
    /\ UNCHANGED <<tables, lock, job, stamp>>

Members(lineage) == {h \in HandoffIds : rows[h] # NoHandoff /\ rows[h].lineage = lineage}
Versions(lineage) == {rows[h].version : h \in Members(lineage)}

\* Mutation: the number is computed before the transaction.
AdoptEarly(c) ==
    /\ pc[c] = "adopt" /\ CanBegin
    /\ Versions(origin[c]) # {}
    /\ Goto(c, "stamp")
    /\ stamp' = [stamp EXCEPT ![c] = Max(Versions(origin[c])) + 1]
    /\ UNCHANGED <<tables, lock, job, edit, origin>>

\* The second transaction numbers the new draft: SELECT MAX(version)+1.  When
\* the lineage has been emptied meanwhile, int(None) raises (Crash).
Adopt(c) ==
    /\ pc[c] = "adopt" /\ CanBegin
    /\ Versions(origin[c]) # {}
    /\ Goto(c, "stamp")
    /\ Take(c)
    /\ stamp' = [stamp EXCEPT ![c] = Max(Versions(origin[c])) + 1]
    /\ UNCHANGED <<tables, job, edit, origin>>

\* UPDATE the lineage and the version; a label in use raises an IntegrityError
\* (Crash).
Stamp(c) ==
    /\ pc[c] = "stamp"
    /\ stamp[c] \notin Versions(origin[c])
    /\ rows' = [rows EXCEPT ![job[c]].lineage = origin[c], ![job[c]].version = stamp[c]]
    /\ Return(c)
    /\ UNCHANGED <<capabilities, receipts>>

-----------------------------------------------------------------------------
(* Publication, revocation, activation *)

\* Mutation: publish_handoff reads on a connection of its own.
PublishReadApart(c, h) ==
    /\ pc[c] = "idle" /\ CanBegin
    /\ rows[h] # NoHandoff /\ rows[h].status = "draft"
    /\ Goto(c, "publish")
    /\ job' = [job EXCEPT ![c] = h]
    /\ UNCHANGED <<tables, lock, edit, origin, stamp>>

\* publish_handoff's SELECT.  Published already is a success without a write.
PublishRead(c, h) ==
    /\ pc[c] = "idle" /\ CanBegin
    /\ rows[h] # NoHandoff /\ rows[h].status = "draft"
    /\ Take(c)
    /\ Goto(c, "publish")
    /\ job' = [job EXCEPT ![c] = h]
    /\ UNCHANGED <<tables, edit, origin, stamp>>

PublishWrite(c) ==
    /\ pc[c] = "publish"
    /\ rows' = [rows EXCEPT ![job[c]].status = "published", ![job[c]].published = TRUE]
    /\ Return(c)
    /\ UNCHANGED <<capabilities, receipts>>

Revoke(h) ==
    /\ CanBegin /\ rows[h] # NoHandoff
    /\ rows' = [rows EXCEPT ![h].status = "revoked"]
    /\ UNCHANGED <<capabilities, receipts, lock, pc, locals>>

\* load_handoff up to its transaction: published, for the active repository,
\* and its capabilities still resolve.
Load(c, h) ==
    /\ pc[c] = "idle" /\ rows[h] # NoHandoff
    /\ rows[h].status = "published"
    /\ Resolves(rows[h].ref)
    /\ Goto(c, "activate")
    /\ job' = [job EXCEPT ![c] = h]
    /\ UNCHANGED <<tables, lock, edit, origin, stamp>>

Activate(c) ==
    /\ pc[c] = "activate" /\ CanBegin
    /\ receipts' = receipts \union {job[c]}
    /\ Return(c)
    /\ UNCHANGED <<capabilities, rows>>

\* The request dies or raises; an open transaction is rolled back.
Crash(c) ==
    /\ pc[c] # "idle"
    /\ Return(c)
    /\ UNCHANGED tables

LatestAndExact == CapabilityIds \X {0, 1}
Requests == [text: Texts, ref: LatestAndExact]
Patches == [text: Texts \union {Keep}, ref: LatestAndExact \union {Keep}]

Next ==
    \/ \E k \in CapabilityIds, trust \in Trust : CreateCapability(k, trust)
    \/ \E h \in HandoffIds : Revoke(h)
    \/ \E c \in Clients :
          \/ \E e \in Requests : Create(c, e)
          \/ \E h \in HandoffIds :
                \/ Insert(c, h) \/ PublishRead(c, h) \/ Load(c, h)
                \/ \E e \in Patches :
                      Patch(c, h, e) \/ VersionOfDraft(c, h, e) \/ VersionOfPublished(c, h, e)
          \/ Update(c) \/ PatchInPlace(c) \/ Adopt(c) \/ Stamp(c)
          \/ PublishWrite(c) \/ Activate(c) \/ Crash(c)

Spec == Init /\ [][Next]_vars

-----------------------------------------------------------------------------
(* Properties *)

\* Whatever is pinned stays usable: every handoff names an exact version of a
\* capability that exists and is trusted, whichever versions are created
\* later, so no load fails on its capabilities (toolbox.py: _resolve_refs).
PinsResolve ==
    \A h \in HandoffIds : rows[h] # NoHandoff =>
        LET trusts == capabilities[rows[h].ref[1]] IN
        /\ rows[h].ref[2] \in DOMAIN trusts
        /\ trusts[rows[h].ref[2]] = "workspace"

\* The number new_handoff_version is about to write follows every version of
\* the lineage, however many requests revise the same handoff.
NextVersionFollows ==
    \A c \in Clients : pc[c] = "stamp" =>
        \A n \in Versions(origin[c]) : n < stamp[c]

\* docs/handoffs.md, "Publication": a published record is immutable.
Content(row) == [row EXCEPT !.status = "published"]
PublishedImmutable ==
    [][\A h \in HandoffIds :
          rows[h] # NoHandoff /\ rows[h].status = "published" =>
              Content(rows'[h]) = rows[h]]_vars

\* The requests implement the lifecycle: nothing returns from revoked, and a
\* receipt is of a handoff that was published.
Lifecycle == INSTANCE HandoffLifecycle WITH
    stage <- [h \in HandoffIds |-> IF rows[h] = NoHandoff THEN "absent" ELSE rows[h].status],
    approved <- {h \in HandoffIds : rows[h] # NoHandoff /\ rows[h].published}
ImplementsLifecycle == Lifecycle!Spec
=============================================================================
