# A verification project for Codex Command Center

TLA+ models of the Command Center's service (`services/memory/aria_memory`),
its browser client (`apps/web`) and its Codex plugin
(`plugins/codex-command-center`), checked by TLC on small instances and, where
a property matters most, proved by TLAPS for every instance.

Contents: [the system](#the-system) - [what makes it hard](#what-makes-it-hard) -
[the modules](#the-modules) - [the runs](#the-runs) - [the proofs](#the-proofs) -
[what is not modelled](#what-is-not-modelled) - [plan](#plan)

## The system

One FastAPI process serves many *workspaces*. A workspace owns a database (an
SQLite file, or a schema of a Postgres database) and one object of each service
below, kept in memory and shared by all of its requests. Every endpoint but the
chat and MCP ones is a synchronous function, so requests of one workspace run
in parallel on the server's thread pool.

| component (source) | state | operations | what makes it correct |
|---|---|---|---|
| Proposals and memory (`store.py`, `db.py`) | tables `proposals`, `memories`, `audit_events` | propose, confirm, reject; confirm carries out one of four operations behind the MUD guard | memory changes only by confirmation, once per proposal, by what the proposal says; every transition is audited; no answer is taken back |
| Sessions, turns, hook events (`store.py`) | `sessions`, `turns`, `hook_events` | create session, add turn, record hook | a question is answered; a Stop event drafts one proposal |
| Transactions (`db.py`, `postgres.py`) | the database | `transaction`, `connect`, `migrate`, `seed` | SQLite: BEGIN IMMEDIATE, one writer; Postgres: READ COMMITTED |
| Embeddings and recall (`embeddings.py`, `retrieval.py`) | table `embeddings`; an in-memory index | sync, reload, query, recall | the index holds the active memories; a score belongs to its memory; degradation is visible |
| Declared documents (`documents.py`) | `documents`, `document_embeddings` | ingest, ingest_tree, recall | a document per source, none for a vanished one |
| Context compiler (`context.py`) | none | build | the packet fits its budget and names its repository |
| Capabilities and handoffs (`toolbox.py`) | `capabilities`, `handoffs`, `handoff_activations` | create capability; create, patch, publish, version, revoke, load a handoff | a published handoff does not change; versions are distinct; a revoked one is not loaded; pinned capabilities are usable |
| Architecture (`architecture/`) | repositories, snapshots, document versions, sections, edges, issues | activate, resolve, check, brief | one active snapshot; a rejected one replaces nothing; history stays resolvable |
| Aria agent (`agent.py`) | none of its own | one chat turn: model loop, tools, fallback | one answer per question; an explicit request leaves a proposal |
| MCP (`mcp.py`) | none | dispatches to the above | the same operations as HTTP |
| Workspaces, pairing, tokens, quotas (`app.py`) | the workspace objects; `pair_codes`, `workspace_tokens`, `quota_events` | get, pair, revoke, count | one object per workspace; a code is exchanged once; the quota is a bound |
| Codex plugin (`plugins/.../scripts`) | token file, cookie jar | hooks, sync, MCP bridge | retries repeat nothing; hooks send no content |
| Web page, voice, canvas (`apps/web`) | React state; a WebRTC session | refresh, handoff builder, voice | the newest answer is shown; stopping voice stops it |

Interactions: the endpoints call the services directly; Aria, MCP and the hooks
reach memory only through `create_proposal`; only the browser's confirm
endpoint calls `confirm`, and it calls `EmbeddingStore.sync` afterwards;
`Toolbox` compiles a handoff from the context and the architecture brief and
pins what it found.

## What makes it hard

`PROJECT.json` lists the hazards line by line. The families are:

* requests interleave between a read and the write that depends on it: always
  on Postgres, and on SQLite wherever an operation reads on one connection and
  writes in another transaction (`update_handoff`, `new_handoff_version`,
  `load_handoff`, `confirm`'s except clause, `EmbeddingStore.sync`);
* a request dies between two transactions of one operation (`record_hook`,
  `new_handoff_version`, `Toolbox.seed`, `finish_pair`);
* in-memory state (the index, the workspace table) is shared without a lock;
* retries and fallbacks repeat what was done (the client's login retry, Aria's
  fallback after stored proposals);
* the browser's asynchronous answers arrive out of order.

## The modules

| module | what it is | code |
|---|---|---|
| `MemoryModel` | rows, drafts and the guards over them | `models.py`, `db.py`, `store.py` |
| `ApprovalBoundary` | abstract: memory changes only by confirming a pending proposal | what `docs/architecture.md` promises |
| `Proposals` | `AppStore.create_proposal`, `confirm`, `_confirm_once`, `reject` run by concurrent requests | `store.py` 73-86, 163-267 |
| `HandoffLifecycle` | abstract: draft, published, revoked, loaded | what `docs/handoffs.md` promises |
| `Handoffs` | `Toolbox.create_capability` and the operations on handoffs run by concurrent requests | `toolbox.py` 156-244, 376-657 |
| `SnapshotLedger` | abstract: one current corpus, a history, the refused ones | what `docs/architecture-awareness.md` promises |
| `ArchitectureSnapshots` | `ArchitectureStore.activate` and the reads of a brief run by concurrent requests | `architecture/store.py`, `compiler.py` |
| `VectorIndex` | the embeddings table, the index in memory, and the sync that both stores below share | `embeddings.py` |
| `MemoryRecall` | the index over memories: confirm endpoint, sync, query and fallback of a recall | `embeddings.py`, `retrieval.py`, `app.py` |
| `DeclaredDocuments` | `ingest_tree`, `ingest_text`, their index, and a recall, while files are edited | `documents.py` |
| `ListOps` | picking from a list and adding one up, as recursive functions | `embeddings.py`, `rrf.py` |
| `Packets` | ranking, selection and the loops that drop sources: context packet, architecture brief, handoff draft | `context.py`, `architecture/compiler.py`, `toolbox.py`, `declared_core/` |
| `WorkspaceLoad` | migration, seeding and built-in capabilities when a workspace is first used | `app.py`, `db.py`, `postgres.py`, `toolbox.py` |
| `Conversation` | the chat endpoint, `Aria.run`, sessions, turns and the daily quota | `app.py`, `agent.py`, `store.py` |
| `Pairing` | pair codes and workspace tokens | `app.py` and the stores it calls |
| `PluginCalls` | the pair script and the Stop hook, with login and retry, against the handlers | `client.py`, `pair.py`, `hook.py`, `store.py` |
| `VoiceSession` | connect, stop, events and function calls of a voice session | `AriaVoice.tsx` |
| `HandoffBuilder` | prepare, save, publish, approve by voice and refresh in the page | `page.tsx` |
| `ProposalsProofs`, `HandoffsProofs`, `ArchitectureProofs`, `PairingProofs`, `ConversationProofs` | theorems about the modules they are named after (`PairingProofs` is about `Pairing` and `PluginCalls`) | |
| `RecallProofs`, `PacketsProofs`, `BrowserProofs` | theorems about what `MCRecall` and `MCBrowser` compose, for every instance of their constants: `RecallProofs` about both stores and the load, `PacketsProofs` about the packets and all types of the recall run | |
| `MCProposals`, `MCHandoffs`, `MCArchitecture`, `MCRecall`, `MCConversation`, `MCPairing`, `MCBrowser` | the small instances | |

The modules of the server follow the same conventions. A request is a thread
of the server's pool with a `pc`. A statement that reads what another request
may have changed is a step; the writes of a transaction become visible at its
commit, so they are one step. `Serialised` (in `Proposals`, `Handoffs` and
`Pairing`) chooses the database: TRUE is SQLite, where BEGIN IMMEDIATE takes
the only write lock; FALSE is Postgres, where a transaction is READ COMMITTED
and locks nothing before it writes. `WorkspaceLoad` covers both: its `dialect`
is chosen in the initial state. `ArchitectureSnapshots` needs no such choice:
`activate` starts its transaction by writing the repository's row, so on
Postgres too two transactions for one repository follow one another. A request
may end at any step and roll its transaction back (`Crash`, `Dies`,
`HandlerFails`, `LoadDies`): the database is locked for too long, or the code
raises what the endpoint does not handle; and the process may stop, which
empties what it kept in memory.

Some properties hold only of what nothing has disturbed. History variables say
so: `alone` (the one request whose sync nothing has overlapped), `calm`,
`rounds`, `overlapped`, `interrupted`, `disturbed`, `apart`, `faultless`. No
guard reads them.

**Proposals.** `Draft` gives each proposal id its operation and payload; it is
a constant because `create_proposal` stores it and nothing updates it. `Confirm`
is the first SELECT of `_confirm_once`; `Guard`, `InvalidateTarget`,
`SupersedeTarget` and `Insert` are its later statements, and `Commit` its end.
A ValueError leads to `ReadAgain` and `MarkFailed`, the except clause's
transaction. `audit` keeps the audit trail of each proposal and `told` is a
history variable: the answers clients have received. The text of a memory is
abstracted to what the MUD guard sees in it (`Claims`). Three details of the
code the model shows:
- a confirm request may be answered 409 although another one confirms the
  proposal later: its ValueError was rolled back, and by the time the except
  clause runs the proposal may be anything;
- `invalidate_fact` accepts a fact that is already superseded or inactive
  (`store.py` 202-208), `supersede_fact` only an active one;
- a payload that names an id in use raises an IntegrityError, which is not a
  ValueError: the request dies and the proposal stays pending.

**Handoffs.** `capabilities[k]` is the sequence of versions of a capability
with the trust of each (verified is stored as workspace, and both are trusted).
`rows` is the handoffs table, with the text of the request and one capability
ref standing for the rest of the record. `Patch` and `Update` are the two
halves of `update_handoff`, a read on one connection and a write in a later
transaction; `Insert`, `Adopt` and `Stamp` are the two transactions of
`new_handoff_version`; `PublishRead` and `PublishWrite` are one transaction,
and so is `Revoke`. Requests that end in an error before they write anything
are left out: they change nothing.

**ArchitectureSnapshots.** A corpus stands for the revision, the manifest and
the documents of a sync; with the repository's id it determines the snapshot's
id. `Rejected`, `Versions`, `Matches`, `EdgeTo` and `Materialized` are
`_validation_issues` and the part of `_materialize_edges` that connects cards
(the other edges lead from a card to its own declarations and are always
resolved). `SyncKnown` and `SyncNew` are the look-up of the snapshot, `Store`
the transaction. `Brief`, `ResolveAgain` and `Select` are three reads on three
connections: `build` resolves the repository, `active_snapshot` resolves the id
that was found and then selects.

**VectorIndex, MemoryRecall.** A *surface* is at once the text of an item, its
hash and its embedding; a vector remembers the item it was computed from.
`SyncList`, `SyncCached`, `SyncWrite`, `SyncRead` and `SyncAssign` are the
connections of one `sync`; `Load` is `reload` at the first use. The index over
memories is one attribute, replaced as a whole (`SyncAssign`), but `query`
reads it twice: it may take the scores of one index (`ReadVectors`) and the ids
of another (`PairIds`), which `zip(strict=True)` turns into a degraded answer
when their numbers differ, and does not notice when they agree. The index over
documents is two attributes, stored one after the other (`AssignIds`,
`CompleteIndex`) and read one after the other (`TakeIds`, `PairVectors`), so
here two reloads may also leave one list of each. `server` is "down"
until one request has loaded the workspace. `Confirm` changes the memory and is
followed by the sync the endpoint calls.

**DeclaredDocuments.** `TakeFile` reads one file of the walk, `PutCard` is the
transaction of `ingest_text`, which updates the row of the file's source if
there is one and otherwise inserts the declared id, `Prune` the deletion of
what the walk did not ingest; then the shared sync. `Edit` changes, renames or
removes a file, or removes the folder, at any moment. Without the folder
(`rooted`) `ingest_tree` returns before it scans, deletes or syncs anything, and
a card whose declared id belongs to the row of another file makes `PutCard`
abort, as the IntegrityError of the insert does. `Lexical` and `Dense` are the
two halves of a recall, against the documents it listed first: a row that
appeared since is not in its dictionary, and the recall raises. `CardsOf` says
which cards each file may hold; two files may hold cards with the same id.

**Packets.** A text is its length in characters, and a packet's estimate counts
the digits of itself, as the code does by serialising twice. The signals are
arbitrary rankings, except that a document found by its structure is tied to
another one found by its words (`Tied`); what is made of them is `rrf_fuse` as
it is: `Score` adds up the shares of the lists, `Sorted` is Python's stable sort
(in place n is the entry with n - 1 above it), `Takes` one turn of the walk over
the fused order. Scores are whole: they are counted in 1/`Unit`, which every
60 + rank divides. The history `better` records which document beats another one
in every signal. `DropSource`, `DropSection`, `DropCard`, `DropEvidence`,
`DropPoint` and `DropRisk` are single turns of the loops, in the order of the
code. No two requests share state: the module is sequential.

**WorkspaceLoad.** `Get` is the look-up without a lock; `CreateTables`
and `Upgrade` the migration on SQLite, whose script commits table by table,
`ReadMigrations` and `CommitMigrations` the one transaction of Postgres,
`CountMemories` and `Seed` the demo
memories, `CheckCapabilities`, `ReadVersion`, `InsertVersion` and `Publish` the
built-ins.

**Conversation.** The endpoint is a coroutine. Between two awaits it holds the
event loop (`OnLoop`), and no other coroutine runs (`LoopFree`); its only await
during a run is the model's loop, which runs in a thread (`thread`) and goes on
when the client has left or the await is cancelled. The model may call tools,
propose, answer, refuse, mention a merge or fail in any round. `ExplicitDrafts`
is about the plain answers: after a refusal, or a mention of a merge where a
boundary stands, the code stores no proposal. `quota` is counted and charged
when the request is accepted, on the loop, so one at a time. The words of a
message are abstracted to what `_explicit_proposal_request` and the fallback
look for. `stored` is a history variable: the proposals inserted for a run.

**Pairing, PluginCalls.** An exchange, and the token it makes, are named after
their caller. `SelectCode` and `ConsumeSelected` are the two statements of
`consume_pair_code`, `CreateToken` the second transaction of `finish_pair`. The
helper process (`process`) and the handler that serves it (`handler`) have
states of their own: a process that times out leaves its handler running.
`TakeLoginAgain` is the one retry after a 401. `StoreEvent` and `DraftProposal`
are the two transactions of `record_hook`.

**VoiceSession.** Each call of `connect` is an attempt with the step it awaits;
`refs` names the attempt whose objects the component's refs hold, which is none
until the microphone was granted. `Disconnect` closes what `refs` holds, and
only that.

**HandoffBuilder.** An operation is a click or a voice command with the
requests it awaits; the server's answer is computed at one step and taken by
the page at a later one, so answers overtake each other. `Fail` is a request
that failed before or after the server did its part. `Leave` and `Open` unmount
and mount the builder; what a setter of an unmounted builder does is lost
(`shows`).

## The runs

| run | instance | distinct states | shows |
|---|---|---|---|
| `proposals` | SQLite, 2 requests, 6 drafts, 5 memory keys | 1.2 million | the requests implement `ApprovalBoundary`; every memory has one confirmed proposal, the audit trail tells the history, answers hold, a fact is superseded once, boundary decisions do not pile up |
| `proposals_postgres` | Postgres, 2 requests, 1 draft | | **violates** `ConfirmationIdempotent` |
| `handoffs` | SQLite, 2 requests, 3 handoffs, 2 versions of a capability | 2.0 million | the requests implement `HandoffLifecycle`; pins resolve; a new version follows all others |
| `handoffs_published` | SQLite, 2 requests, 2 handoffs, 2 texts | | **violates** `PublishedImmutable` |
| `architecture` | 2 requests, 2 repositories, 2 names, an alias list with the other's id, 3 corpora | 0.3 million | the snapshots implement `SnapshotLedger`; accepted snapshots have unambiguous edges; briefs come from accepted snapshots |
| `architecture_synced` | 1 request, 2 corpora | | **violates** `SyncedIsActive` |
| `architecture_brief` | 1 request, 2 repositories | | **violates** `BriefOfItsRepository` |
| `recall` | 2 requests over 3 memories, or over 2 files and 3 ids in a folder that may vanish; or 12 requests for packets; or 2 loads on either database | 2.2 million | a sync or ingestion that ran alone heals the index, the documents mirror the files, deletions and syncs do not make a recall fail; packets keep the ranking, their receipts and their accounts; seeds are whole |
| `conversation` | 2 questions of one session, history of 2, 2 rounds, quota of 2, 1 restart | 0.7 million | an explicit request with a plain answer leaves a proposal, what was drafted is reported, the question is heard, the quota holds, every question ends |
| `pairing` | SQLite, 2 codes, 2 processes of either kind, 1 restart | 0.9 million | a code makes one token, a hook is stored once, every process ends |
| `browser` | 3 attempts to connect; or 2 overlapping operations on 2 handoffs, 4 in all | 2.9 million | an undisturbed session leaves no microphone behind; an approval publishes the plan it saved; the page ends up agreeing with the server |
| `voice_closed` | 3 attempts | | **violates** `ClosedIsSilent` |

`MCRecall` and `MCBrowser` put components into one run that share no variable,
or none that both write: a behaviour chooses one of them in its initial state
(`store`, one of `Followed`, and `part`). Their product would have more states
and no new interleaving.

*The bounds.* Two requests suffice for every hazard listed: each of them is one
request acting between two steps of another.
- `proposals`: the six drafts are one per operation and per way a confirmation
  can fail, with two rivals for one fact and two boundary decisions, so that
  every pair that can conflict is there; five keys are the two seeded rows and
  a new one for each draft that can be inserted.
- `handoffs`: three handoffs are a published one, the draft of its new version,
  and another one; two capability versions are the pinned one and a later,
  perhaps untrusted, one (`MaxCapability`).
- `architecture`: the corpora resolve, declare a card twice, and belong to one
  name only while they refer to a card nobody declares.
- `recall`: three memories of which one is seeded. `a.md` may hold the first id,
  active or inactive, or the second, and `b.md` either, so that an id can change
  in place, move, and be declared twice; the third id is one no file ever
  declares. Every tree is an initial state, with or without the folder, and one
  edit (`MaxEdits`) follows: with what the initial tree holds it makes every
  change, move and removal. For the packets, three documents in ranked lists of up to
  three (`MaxRank`, so that `Unit` is 61 * 62 * 63), two of the eight weight
  profiles, sizes under which each of the budgets 512, 900 and 4000 drops
  something different or refuses. Two seeds and two built-ins are what a partial
  load can leave half of.
- `conversation`: a history of two turns and a quota of two are both exceeded
  by two questions; two rounds let the model propose and then go on; the clock
  moves once (`MaxClock`), so that two turns may carry the same second or not.
- `pairing`: each process takes either code or none; a code expires after one
  tick (`Life`), and the server restarts once (`MaxCrashes`).
- `browser`: three attempts, of which one may wait while two others follow; the
  fourth operation is the first that meets what three others have left.
`MaxCapability`, `MaxEdits`, `MaxClock`, `MaxRestarts`, `MaxCrashes`,
`MaxAttempts`, `MaxHandoffs` and `MaxOps` are the only bounds in guards; the
other state spaces are finite because ids are. Server requests repeat for ever.
The deadlock check is off where the system ends: in `pairing` the processes exit, in `browser` and `voice_closed` the attempts and operations are used up.

*Fairness.* The two liveness properties rest on weak fairness, nothing
stronger. `Conversation` assumes it of each question's own work (`Works`): the
event loop runs what is ready, threads are scheduled, and a call of OpenAI
returns, raises or times out. `PluginCalls` assumes it of each process
(`Works`) and of the handler that serves it (`Serves`): a process waits for 30
seconds and then gives up, and the handler's transactions return or raise.
Nothing obliges a client to ask, a user to confirm, the clock to move or the
server to crash. The other runs assume no fairness: their properties are safety
properties.

*The violations.*
- On Postgres `_confirm_once` relies on a lock it does not take: two
  confirmations read the proposal pending, both insert a memory.
- `update_handoff` checks for a draft before its transaction and does not
  repeat the check: a handoff published in between is rewritten.
  `new_handoff_version` breaks the same promise: a draft published between its
  two transactions changes lineage and version (with `MaxCapability = 1` and one
  text in the same cfg, that is the trace).
- `activate` returns an existing snapshot whatever its status: after A, B, A
  the active snapshot is B.
- `active_snapshot` resolves an id as if it were a name: a repository whose
  aliases include the id of another is served in its place, under its name.
- `stop` closes what the refs hold, and `connect` fills them only after the
  microphone was granted: voice closed while it connects stays open.

*What the models show besides.* These are weaker than a broken promise, or the
properties above are stated so as to allow them.
- An explicit relationship to an undeclared card leaves an unresolved edge but,
  unlike a dependency, no issue (`architecture/store.py:522`), where
  `docs/architecture-awareness.md:170` says "Unresolved targets remain explicit
  issues rather than invented edges".
- A brief may exceed its budget by one token: `_recompute` stores an estimate
  whose digits it has not counted (`architecture/compiler.py:169`), hence the
  `+ 1` in `BriefKeepsReceipts`.
- On Postgres (`Serialised = FALSE` in the cfgs) `OneBoundary` fails like
  `ConfirmationIdempotent`: the MUD guard's read locks nothing, and two decisions
  that each forbid the other are both confirmed. So does `OneTokenPerCode`: two
  exchanges of one pair code both select it, and the UPDATE that follows does not
  ask again.
- `query` reads the index over memories twice, and a recall of documents reads
  two attributes that a reload stores one after the other
  (`embeddings.py:254-255`, `documents.py:274`, `325`). Where the numbers differ
  `zip(strict=True)` raises, and the store is marked degraded until the restart
  although no provider failed; where they agree, scores go to other ids.
- An explicit request has no proposal when the model's answer says it refuses,
  or mentions a merge where a boundary stands, whatever the user asked
  (`agent.py:180`). The reason that the code gives with such proposals says
  "Explicit decision requests always create a persisted pending proposal."
  (`agent.py:194`); `ExplicitDrafts` claims it of plain answers only.
- `publish` goes on when the plan could not be saved (`page.tsx:845`): what it
  publishes is the stored plan, not the one that is shown.
  `LoneApprovalPublishes` is about plans that were saved.
- A card whose declared id changes in place loses its row at the next ingestion
  and has it again after the one that follows. A card that moves to another file
  with its id raises an IntegrityError (`documents.py:209`) in every ingestion,
  before the prune that would delete the old row, and as a workspace ingests when
  it is loaded, loads fail too, until it is moved back; where the new file has a
  row already, that row is updated and the id of the one that is gone kept.
  Without the folder (`documents.py:125`) rows stay and the index is not synced.
  `TreeMirrored` says what holds all the same: it counts the ingestions that
  complete.
- A recall of documents raises when an ingestion adds a row in the middle of it
  (`LoneRecallAnswers` says that deletions and syncs do not make it fail).
- Built-ins that a load did not finish are never completed, and two loads at
  once may create version 2 of one (`toolbox.py:137`).
- `update_handoff` does not check the token budget again (`toolbox.py:529`).
- A run that fell back reports nothing of what the model proposed before it
  failed, although it is stored (`DraftsReported`). And the history is the
  latest turns by a time in whole seconds, so that with enough others of the
  same second the model is not shown the question (`QuestionHeard`).
- A pair code is spent when the creation of its token fails.
- Approval by voice publishes the active draft as the server has it, not the
  text that is visible and unsaved (`page.tsx:340`).

## The proofs

Every passing run has a proof module beside it. Each theorem holds for every
value of the constants that the named assumptions of the modules allow; TLC
evaluates those assumptions on every run. Where a theorem needs the lock that
SQLite takes, `Serialised` is a hypothesis of that theorem.

| module | theorems about the properties of | without hypothesis | assuming `Serialised` |
|---|---|---|---|
| `ProposalsProofs` | `proposals` | `TypeCorrect`, `FactsStay` | `Implementation`, `Confirmed`, `Superseded`, `Guarded`, `Audited`, `Answered`, `Idempotent` |
| `HandoffsProofs` | `handoffs` | `TypeCorrect`, `PinsHold` | `VersionsFollow`, `HandoffsImplementLifecycle` |
| `ArchitectureProofs` | `architecture` | `TypeCorrect`, `SnapshotsImplementLedger`, `BriefsAccepted`, `EdgesAgree` | |
| `RecallProofs` | `recall`: both stores | `StoreTypesCorrect`, `RecallsAnswer`, `SyncsHeal`, `IngestsIndex`, `TreeIsMirrored` | |
| | `recall`: the load | `LoadTypesCorrect`, `DatabaseIsWhole`, `BuiltinsOnce` | |
| `PacketsProofs` | `recall`: the packets, and all types | `PackIsRanked`, `BriefIsWhole`, `DraftIsComplete`, `TypeCorrect` | |
| `ConversationProofs` | `conversation` | `TypeCorrect`, `PlainAnswersPropose`, `DraftsAreReported`, `QuestionIsHeard`, `QuotaIsHeld` | |
| `PairingProofs` | `pairing` | `TypeCorrect`, `HookStored` | `CodeSpentOnce` |
| `BrowserProofs` | `browser` | `TypeCorrect`, `MicrophoneIsAlone`, `ApprovalPublishes`, `PageAgrees` | |

Types apart, hardly a property is inductive as it stands. The strengthenings,
and the argument of each module:

**ProposalsProofs.** A request is inside its transaction exactly when it holds
the lock (`LockInv`), so while one transaction is open no other step changes the
tables (`OneWriter`); therefore whatever its SELECTs returned is still true at
its commit (`WorkInv`), and the commit, judged on the tables of that instant, is
a step of `ApprovalBoundary`. The invariants about memories then follow from
`TableInv`, an invariant of the tables alone, and those about answers and the
audit trail from `RecordInv`, which says what the trail of a proposal looks like
in each of its statuses. `proposals_postgres` shows that `Idempotent` fails
without the assumption.

**HandoffsProofs.** `FactInv`, on either database: what a stored handoff refers
to and what a request is about to write is usable (`Usable`), since a version of
a capability is never withdrawn or distrusted; so what is pinned resolves. Under
`Serialised` a request inside its transaction holds the lock (`LockInv`), what
it is about to publish is still a draft (`DraftInv`), and the number its MAX
gave is still the greatest; each commit is then a step of `HandoffLifecycle`.

**ArchitectureProofs.** A snapshot that was accepted stays accepted
(`Progress`), so what a request has selected does too (`RequestInv`).
`EdgesAgree` rests on `MatchesAccepted`: without validation errors every card
has a version and an id is declared once, so a reference matches one document or
none; `EdgeInv` carries over to the stored rows that the corpus passed
validation under some name.

**RecallProofs.** `Shape` is the types, and that a card about to be written has
been read. `Alone`: until the workspace is up only the request
that loads it is under way, and a request that has written alone is the only
writer. `Synced`: what that request has listed, cached and read back is what the
tables still hold, so the index it assigns, the ids first and then the vectors, is
theirs. `MirrorInv` is for the walk: a file has one row at most (`OneRow`), and
once an ingestion has been alone since the last edit (`Quiet`) every walk under
way has read what the tree says, and each card is still before it or has a row
that says what it does, its id among the ingested ones (`Walked`, `Behind`). That
the files with a row are those with a card is then a matter of counting
(`SameFiles`): each row has an id that is declared and each card a row, and
there are as many. `Picked`, the function by which
the model lists items in order, is used through `PickedFacts`, whose proof
takes a least counterexample among the natural numbers and needs no induction
theorem with an operator parameter.
About the load, `SeedInv`: a load that has passed a stage found, or left, the
migrations recorded and the seeds there. `LoneInv`: unless two loads have
overlapped, one is under way at most, the first k built-ins have one version
each and the others none, and k is where the load stands (`Reached`), or all or
nothing when none was cut off.

**PacketsProofs.** The model's operators come first. `Unfolds` gives a recursive
function its values and `UpTo` is the induction over a list's length, in a form
that takes a set where the library's theorem takes an operator; `Total`,
`Picked` and `Taken` are reasoned about through them. `SortedBy`: for a strict
total order on a finite set, "the entry with n - 1 before it" is a list of the
set without repetition, in that order; it rests on cardinalities alone.
`AboveOrder` says that scores and places make such an order, so `FusedSorted`
holds of whatever is fused. Then one invariant per part, each inductive once
`Asked` (a request is being compiled) holds:
- `HitsInv`: what was ranked is listed once, and a document comes after each
  that is better in every signal. `BeatenScore` is the reason: the shares of the
  better one are never smaller (`ShareFalls`) and one is larger, so its score is
  larger whatever the weights (`TotalLess`); a cut of the ranking keeps that.
- `PackInv`: the sources are a list of what was ranked within the limits, and
  with a source is kept, before it, all that is ahead of it and within the
  limits (`Keeps`). The hard step is the selection. `OrderOfTwo`: fusing the
  memories with the documents orders them by rank and, at the same rank,
  memories first. `TakenIsPicked`: the counters of the walk are how far it has
  come in either list (`Covers`), so it takes exactly what ranks within the
  limits, in order. From there on `DropSource` only cuts the end off.
  `EstimateHolds`: up to 100 000 characters, measuring again with the estimate
  in the packet does not change the estimate, although it may have one digit
  more; a packet that fits is that small, and so is the frame (`PackFrame`) of
  one of which nothing else is left.
- `BriefInv`: the receipts are the documents followed by the sections, each
  once; dropping the last one, with the sections of a document, keeps that.
- `DraftInv`: the evidence is a prefix of the receipts, shorter by what was
  counted as removed, and of the notes one stays if there was one.
`PackKeepsRanking`, `BriefKeepsReceipts` and `DraftAccounts` follow, the last
one with `PackOmits` and `PickedSplit`: what a packet omits and what it has are
all memories and documents, and its sources are those picked as memories and
those picked as documents.

**ConversationProofs.** `Coherent` relates the step of a run to what it has
stored, found and shown: nothing is shown that is not stored, what is stored but
not shown comes from a tool loop that raised, and a run that answers an explicit
request plainly shows a proposal. `HistoryInv`: the question of a run that compiles its
context or asks the model is among the turns; a history full of turns no older
stays so (`CrowdStays`). `QuotaInv` adds to `QuotaHeld` that the charges are
finitely many; it is kept because the count and the charge are one step of the
event loop.

**PairingProofs.** `HookInv`: a process that may still have its call repeated
has nothing stored, and neither has a handler that has yet to store; a handler
about to draft has stored the event and drafted nothing. `CodeInv`: with the
lock one exchange at most is between its two statements, the code it selected is
still live, and a code that made a token is spent.

**BrowserProofs.** `VoiceInv`: an attempt before the microphone holds nothing,
and unless something disturbed the session the microphone that is live is the one
the refs hold, one attempt connects at a time, and a closed session holds nothing. `BuilderInv`:
what the page lists and edits fits what an operation carries; and when operations
follow one another (`Alone`) a reply under way is the row the server has, a plan
that was saved is in that row, and an idle page agrees with the server unless a
request failed.

*Only model-checked.* Every invariant and every action property of a passing
run is the subject of a theorem. Liveness under fairness is out of TLAPS's reach
and stays with TLC for good: `Conversation` (every question ends) and
`PluginCalls` (every process ends). So do the five violations, which are single
behaviours. And the assumptions on the constants of an instance are evaluated by
TLC, not proved: that a `Unit` exists for every `MaxRank` is plain arithmetic
(the product of 61 up to 60 + `MaxRank`).

## What is not modelled

`PROJECT.json` gives the status of every component. Left out of those that are
modelled:

* text processing: frontmatter and architecture parsing, section slugs and
  chunking, the SQL that `CompatConnection` translates;
* reports that decide nothing: health reports (their summary in a brief is read
  from whichever snapshot is active at that later moment), timelines and lists;
* full-text tables, which triggers keep in step with theirs, and what ranks in
  them: `Packets` takes any order the signals allow;
* `update_session`, screenshot analysis, `recommend` and the repository match
  of `load_handoff`;
* two `Workspace` objects of one workspace, which overlapping first requests
  may make (`app.py:103`): `WorkspaceLoad` follows their loads, but the index
  that each of them then has of its own is not followed;
* the quotas of recalls and screenshots: `QuotaHeld` is about chat turns, which
  the event loop counts one at a time. The endpoints of the others run in
  threads, where on Postgres two requests may both take the last place
  (`app.py:264`); no document promises more than a daily limit;
* signed cookies, CORS and the request log; the hooks other than Stop, which
  store an event by the same code; corpus building and the MCP proxy.

Not modelled at all: the MCP endpoint, a dispatcher without state of its own;
the graph canvas and the dock, which only present what the page has read;
scripts and deployment. Outside of what TLC and TLAPS can settle: floating point
scores, and what a language model answers.

## Plan

What could be added, in this order:

1. the reads of a brief's health report (`architecture/compiler.py:214`), which
   takes whichever snapshot is active by then, and the two `Workspace` objects
   of overlapping first requests with an index each (`app.py:103`): the two
   places where a known interleaving is not followed;
2. section slugs (`architecture/chunking.py:47`), whose counter may repeat a
   heading that already ends in a number: a pure algorithm, with a reference
   definition over bounded lists of headings;
3. on Postgres, what remains true without `Serialised`: the theorems that assume
   it are those TLC can refute there, but the types and pins hold on either.
