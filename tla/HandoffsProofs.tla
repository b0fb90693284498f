--------------------------- MODULE HandoffsProofs ---------------------------
(***************************************************************************)
(* Proofs about Handoffs, for any handoffs, capabilities and requests.     *)
(* Types, pins and the facts behind a receipt hold on either database; the *)
(* numbering of versions and the lifecycle are for the serialised one      *)
(* (SQLite), where nobody writes while a transaction is open.              *)
(***************************************************************************)
EXTENDS Handoffs, WellFoundedInduction, TLAPS

USE HandoffAssumption, RowAssumption

\* A ref that load_handoff can resolve: exact, present and trusted.
Usable(caps, ref) ==
    /\ ref[2] \in DOMAIN caps[ref[1]]
    /\ caps[ref[1]][ref[2]] = "workspace"

\* What a request has found out, which nobody takes back while it works.
FactOf(c) ==
    /\ pc[c] \in {"adopt", "stamp"} => origin[c] \in HandoffIds
    /\ pc[c] = "stamp" => stamp[c] > 0
    /\ pc[c] \in {"insert", "update"} => Usable(capabilities, edit[c].ref)
    /\ pc[c] = "activate" => rows[job[c]].published

RowOf(h) ==
    rows[h] # NoHandoff =>
        /\ Usable(capabilities, rows[h].ref)
        /\ rows[h].status = "published" => rows[h].published

\* Version numbers are bounded: only finitely many rows were ever written.
Bounded ==
    \E n \in Nat : \A h \in HandoffIds : rows[h] # NoHandoff => rows[h].version <= n

FactInv ==
    /\ \A c \in Clients : FactOf(c)
    /\ \A h \in HandoffIds : RowOf(h)
    /\ Bounded

-----------------------------------------------------------------------------
(* Version numbers *)

\* A bounded set of numbers has a greatest one, which Max returns.
LEMMA MaxOfBounded ==
    ASSUME NEW S, S \subseteq Nat, S # {}, NEW n \in Nat, \A x \in S : x <= n
    PROVE  Max(S) \in S /\ \A x \in S : x <= Max(S)
<1> DEFINE T == {k \in Nat : n - k \in S}
<1>1. PICK x \in S : x \in Nat /\ x <= n
  OBVIOUS
<1>2. n - x \in T
  <2>1. n - x \in Nat /\ n - (n - x) = x
    BY <1>1
  <2>2. QED BY <2>1
<1>3. PICK k \in T : \A j \in T : ~ (<<j, k>> \in OpToRel(<, Nat))
  <2>1. T \subseteq Nat /\ T # {}
    BY <1>2
  <2> HIDE DEF T
  <2>2. QED BY <2>1, WFMin, NatLessThanWellFounded
<1>4. \A y \in S : n - k >= y
  <2> SUFFICES ASSUME NEW y \in S, ~(n - k >= y) PROVE FALSE
    OBVIOUS
  <2>1. n - y \in T /\ n - y < k
    <3>1. y \in Nat /\ y <= n /\ k \in Nat
      BY <1>3
    <3>2. n - y \in Nat /\ n - (n - y) = y /\ n - y < k
      BY <3>1
    <3>3. QED BY <3>2
  <2>2. <<n - y, k>> \in OpToRel(<, Nat)
    BY <1>3, <2>1 DEF OpToRel
  <2>3. QED BY <1>3, <2>1, <2>2
<1>5. n - k \in S
  BY <1>3
<1>6. QED BY <1>4, <1>5 DEF Max

\* What a row is made of (models.py: Handoff).
LEMMA RowFields ==
    ASSUME TypeOK, NEW h \in HandoffIds, rows[h] # NoHandoff
    PROVE  /\ rows[h] \in Handoff
           /\ rows[h].lineage \in HandoffIds
           /\ rows[h].version \in Nat \ {0}
           /\ rows[h].status \in Statuses
           /\ rows[h].published \in BOOLEAN
           /\ rows[h].text \in Texts
           /\ rows[h].ref \in Pins
BY DEF TypeOK, Handoff

\* SELECT MAX(version) returns the greatest number in the lineage.
LEMMA NextNumber ==
    ASSUME TypeOK, Bounded, NEW l, Versions(l) # {}
    PROVE  /\ Max(Versions(l)) \in Nat \ {0}
           /\ \A n \in Versions(l) : n \in Nat /\ n <= Max(Versions(l))
<1>1. Versions(l) \subseteq Nat \ {0}
  BY RowFields DEF Versions, Members
<1>2. PICK n \in Nat : \A x \in Versions(l) : x <= n
  BY DEF Bounded, Versions, Members
<1>3. QED BY <1>1, <1>2, MaxOfBounded

-----------------------------------------------------------------------------
(* Refs and edits *)

\* What a request asks for and what a patch asks for (models.py:
\* HandoffCreate, HandoffPatch).
LEMMA InputTypes ==
    /\ Requests \subseteq [text: Texts, ref: Refs]
    /\ Patches \subseteq Edits
BY DEF Requests, Patches, LatestAndExact, Refs, Edits

\* A patch merged into a row is a complete draft.
LEMMA MergedType ==
    ASSUME TypeOK, NEW h \in HandoffIds, rows[h] # NoHandoff, NEW e \in Edits
    PROVE  Merged(h, e) \in [text: Texts, ref: Refs]
<1>1. rows[h].text \in Texts /\ rows[h].ref \in Refs
  BY RowFields DEF Pins, Refs
<1>2. e.text \in Texts \union {Keep} /\ e.ref \in Refs \union {Keep}
  BY DEF Edits
<1>3. QED BY <1>1, <1>2 DEF Merged

\* A ref that resolves is pinned to an exact, usable version.
LEMMA PinnedType ==
    ASSUME TypeOK, NEW e \in [text: Texts, ref: Refs], Resolves(e.ref)
    PROVE  Pinned(e) \in [text: Texts, ref: Pins] /\ Usable(capabilities, Pinned(e).ref)
<1>1. e.ref[1] \in CapabilityIds /\ e.ref[2] \in Nat /\ e.text \in Texts
  BY DEF Refs
<1>2. capabilities[e.ref[1]] \in Seq(Trust)
  BY <1>1 DEF TypeOK
<1>3. Exact(e.ref)[2] \in 1..Len(capabilities[e.ref[1]])
  BY <1>2 DEF Resolves
<1>4. Exact(e.ref) \in Pins
  BY <1>1, <1>2, <1>3 DEF Exact, Pins
<1>5. Pinned(e) = [text |-> e.text, ref |-> Exact(e.ref)]
  BY DEF Pinned
<1>6. Exact(e.ref)[1] = e.ref[1]
  BY DEF Exact
<1>7. QED BY <1>1, <1>4, <1>5, <1>6 DEF Resolves, Usable

\* Only create_capability writes the capabilities.
LEMMA CapabilitiesMove ==
    ASSUME [Next]_vars
    PROVE  \/ UNCHANGED capabilities
           \/ \E k \in CapabilityIds, trust \in Trust : CreateCapability(k, trust)
<1>1. ASSUME NEW h \in HandoffIds, Revoke(h) PROVE UNCHANGED capabilities
  BY <1>1 DEF Revoke
<1>2. ASSUME NEW c \in Clients, NEW e, Create(c, e) PROVE UNCHANGED capabilities
  BY <1>2 DEF Create, tables
<1>3. ASSUME NEW c \in Clients, NEW h \in HandoffIds, Insert(c, h) \/ PublishRead(c, h) \/ Load(c, h)
      PROVE  UNCHANGED capabilities
  BY <1>3 DEF Insert, PublishRead, Load, tables
<1>4. ASSUME NEW c \in Clients, NEW h \in HandoffIds, NEW e,
             Patch(c, h, e) \/ VersionOfDraft(c, h, e) \/ VersionOfPublished(c, h, e)
      PROVE  UNCHANGED capabilities
  BY <1>4 DEF Patch, ReadDraft, VersionOfDraft, VersionOfPublished, tables
<1>5. ASSUME NEW c \in Clients,
             \/ Update(c) \/ PatchInPlace(c) \/ Adopt(c) \/ Stamp(c)
             \/ PublishWrite(c) \/ Activate(c) \/ Crash(c)
      PROVE  UNCHANGED capabilities
  BY <1>5 DEF Update, PatchInPlace, ReadDraft, Adopt, Stamp, PublishWrite, Activate, Crash, tables
<1>6. CASE UNCHANGED vars
  BY <1>6 DEF vars
<1>7. QED BY <1>1, <1>2, <1>3, <1>4, <1>5, <1>6 DEF Next

\* Versions of a capability are only ever added: what is usable stays usable.
LEMMA UsableStays ==
    ASSUME TypeOK, [Next]_vars
    PROVE  \A ref \in Refs : Usable(capabilities, ref) => Usable(capabilities', ref)
<1>1. ASSUME NEW k \in CapabilityIds, NEW trust \in Trust, CreateCapability(k, trust),
             NEW ref \in Refs, Usable(capabilities, ref)
      PROVE  Usable(capabilities', ref)
  <2>1. ref[1] \in CapabilityIds /\ capabilities[ref[1]] \in Seq(Trust)
    BY DEF TypeOK, Refs
  <2>2. capabilities'[ref[1]] = IF k = ref[1] THEN Append(capabilities[k], trust)
                                              ELSE capabilities[ref[1]]
    BY <1>1, <2>1 DEF CreateCapability, TypeOK
  <2>3. QED BY <1>1, <2>1, <2>2 DEF Usable
<1>2. QED BY <1>1, CapabilitiesMove

-----------------------------------------------------------------------------
(* What a step does to one row *)

Kept(h) == rows'[h] = rows[h]

Made(c, h) ==
    /\ pc[c] = "insert" /\ rows[h] = NoHandoff
    /\ rows'[h] = [lineage |-> h, version |-> 1, status |-> "draft", published |-> FALSE,
                   text |-> edit[c].text, ref |-> edit[c].ref]

Patched(c, h) ==
    /\ pc[c] = "update" /\ h = job[c]
    /\ rows'[h] = [rows[h] EXCEPT !.text = edit[c].text, !.ref = edit[c].ref]

Numbered(c, h) ==
    /\ Stamp(c) /\ h = job[c]
    /\ rows'[h] = [rows[h] EXCEPT !.lineage = origin[c], !.version = stamp[c]]

Published(c, h) ==
    /\ pc[c] = "publish" /\ h = job[c]
    /\ rows'[h] = [rows[h] EXCEPT !.status = "published", !.published = TRUE]

Revoked(h) ==
    /\ rows[h] # NoHandoff
    /\ rows'[h] = [rows[h] EXCEPT !.status = "revoked"]

\* Every step keeps a row or does one of five things to it.
LEMMA RowMoves ==
    ASSUME TypeOK, [Next]_vars, NEW h \in HandoffIds
    PROVE  \/ Kept(h) \/ Revoked(h)
           \/ \E c \in Clients : Made(c, h) \/ Patched(c, h) \/ Numbered(c, h) \/ Published(c, h)
<1> USE DEF TypeOK
<1>1. CASE UNCHANGED rows
  BY <1>1 DEF Kept
<1>2. ASSUME NEW g \in HandoffIds, Revoke(g) PROVE Kept(h) \/ Revoked(h)
  BY <1>2 DEF Revoke, Kept, Revoked
<1>3. ASSUME NEW c \in Clients, NEW g \in HandoffIds, Insert(c, g) PROVE Kept(h) \/ Made(c, h)
  BY <1>3 DEF Insert, Kept, Made
<1>4. ASSUME NEW c \in Clients, Update(c) PROVE Kept(h) \/ Patched(c, h)
  BY <1>4 DEF Update, Kept, Patched
<1>5. ASSUME NEW c \in Clients, Stamp(c) PROVE Kept(h) \/ Numbered(c, h)
  BY <1>5 DEF Stamp, Kept, Numbered
<1>6. ASSUME NEW c \in Clients, PublishWrite(c) PROVE Kept(h) \/ Published(c, h)
  BY <1>6 DEF PublishWrite, Kept, Published
<1>7. QED
  BY <1>1, <1>2, <1>3, <1>4, <1>5, <1>6 DEF Next, vars, tables, CreateCapability, Create, PublishRead,
     Load, Patch, ReadDraft, VersionOfDraft, VersionOfPublished, PatchInPlace, Adopt, Activate, Crash

\* A row that was written remains one, with its publication date if it had one.
LEMMA RowStays ==
    ASSUME TypeOK, FactInv, [Next]_vars, NEW h \in HandoffIds
    PROVE  /\ rows'[h] \in Handoff \union {NoHandoff}
           /\ rows[h] # NoHandoff => rows'[h] # NoHandoff
           /\ rows[h] # NoHandoff /\ rows[h].published => rows'[h].published
           /\ RowOf(h)'
<1>1. CASE Kept(h)
  BY <1>1, UsableStays, RowFields DEF Kept, RowOf, FactInv, TypeOK, Pins, Refs
<1>2. CASE Revoked(h)
  <2>1. rows[h] # NoHandoff /\ rows[h] \in Handoff /\ Usable(capabilities, rows[h].ref)
    BY <1>2, RowFields DEF Revoked, FactInv, RowOf
  <2>2. rows'[h] \in Handoff /\ rows'[h].published = rows[h].published
        /\ rows'[h].ref = rows[h].ref /\ rows'[h].status = "revoked"
    BY <1>2, <2>1 DEF Revoked, Handoff, Statuses
  <2>3. Usable(capabilities', rows'[h].ref)
    BY <2>1, <2>2, RowFields, UsableStays DEF Pins, Refs
  <2>4. QED BY <2>1, <2>2, <2>3 DEF RowOf
<1>3. ASSUME NEW c \in Clients, Made(c, h) PROVE RowOf(h)' /\ rows'[h] \in Handoff
  <2>1. edit[c].text \in Texts /\ edit[c].ref \in Pins /\ Usable(capabilities, edit[c].ref)
    BY <1>3 DEF Made, FactInv, FactOf, TypeOK
  <2>2. rows'[h] \in Handoff /\ rows'[h].ref = edit[c].ref /\ rows'[h].status = "draft"
    BY <1>3, <2>1 DEF Made, Handoff, Statuses
  <2>3. Usable(capabilities', rows'[h].ref)
    BY <2>1, <2>2, UsableStays DEF Pins, Refs
  <2>4. QED BY <2>2, <2>3 DEF RowOf
<1>4. ASSUME NEW c \in Clients, Patched(c, h)
      PROVE  RowOf(h)' /\ rows'[h] \in Handoff /\ rows'[h].published = rows[h].published
  <2>1. /\ edit[c].text \in Texts /\ edit[c].ref \in Pins /\ Usable(capabilities, edit[c].ref)
        /\ rows[h] # NoHandoff /\ rows[h] \in Handoff
    BY <1>4, RowFields DEF Patched, FactInv, FactOf, TypeOK
  <2>2. /\ rows'[h] \in Handoff /\ rows'[h].ref = edit[c].ref
        /\ rows'[h].status = rows[h].status /\ rows'[h].published = rows[h].published
    BY <1>4, <2>1 DEF Patched, Handoff
  <2>3. Usable(capabilities', rows'[h].ref)
    BY <2>1, <2>2, UsableStays DEF Pins, Refs
  <2>4. QED BY <2>1, <2>2, <2>3 DEF RowOf, FactInv
<1>5. ASSUME NEW c \in Clients, Numbered(c, h)
      PROVE  RowOf(h)' /\ rows'[h] \in Handoff /\ rows'[h].published = rows[h].published
  <2>1. /\ origin[c] \in HandoffIds /\ stamp[c] \in Nat \ {0}
        /\ rows[h] # NoHandoff /\ rows[h] \in Handoff /\ Usable(capabilities, rows[h].ref)
    BY <1>5, RowFields DEF Numbered, Stamp, FactInv, FactOf, RowOf, TypeOK
  <2>2. /\ rows'[h] \in Handoff /\ rows'[h].ref = rows[h].ref
        /\ rows'[h].status = rows[h].status /\ rows'[h].published = rows[h].published
    BY <1>5, <2>1 DEF Numbered, Handoff
  <2>3. Usable(capabilities', rows'[h].ref)
    BY <2>1, <2>2, RowFields, UsableStays DEF Pins, Refs
  <2>4. QED BY <2>1, <2>2, <2>3 DEF RowOf, FactInv
<1>6. ASSUME NEW c \in Clients, Published(c, h)
      PROVE  RowOf(h)' /\ rows'[h] \in Handoff /\ rows'[h].published
  <2>1. rows[h] # NoHandoff /\ rows[h] \in Handoff /\ Usable(capabilities, rows[h].ref)
    BY <1>6, RowFields DEF Published, FactInv, RowOf, TypeOK
  <2>2. rows'[h] \in Handoff /\ rows'[h].ref = rows[h].ref /\ rows'[h].published
    BY <1>6, <2>1 DEF Published, Handoff, Statuses
  <2>3. Usable(capabilities', rows'[h].ref)
    BY <2>1, <2>2, RowFields, UsableStays DEF Pins, Refs
  <2>4. QED BY <2>2, <2>3 DEF RowOf
<1>7. QED BY <1>1, <1>2, <1>3, <1>4, <1>5, <1>6, RowMoves DEF Made

-----------------------------------------------------------------------------
(* Type correctness, on either database *)

\* The steps of one request.
Works(c) ==
    \/ \E e \in Requests : Create(c, e)
    \/ \E h \in HandoffIds : Insert(c, h) \/ PublishRead(c, h) \/ Load(c, h)
    \/ \E h \in HandoffIds, e \in Patches :
          Patch(c, h, e) \/ VersionOfDraft(c, h, e) \/ VersionOfPublished(c, h, e)
    \/ Update(c) \/ PatchInPlace(c) \/ Adopt(c) \/ Stamp(c)
    \/ PublishWrite(c) \/ Activate(c) \/ Crash(c)

Still(c) ==
    /\ pc'[c] = pc[c] /\ job'[c] = job[c] /\ edit'[c] = edit[c]
    /\ origin'[c] = origin[c] /\ stamp'[c] = stamp[c]

\* What a request holds, with the facts it has found out.
LocalTypes(c) ==
    /\ pc[c] \in Steps
    /\ job[c] \in HandoffIds \union {NoHandoff}
    /\ edit[c] \in Edits
    /\ origin[c] \in HandoffIds \union {NoHandoff}
    /\ stamp[c] \in Nat
    /\ pc[c] \notin {"idle", "insert"} => job[c] \in HandoffIds /\ rows[job[c]] # NoHandoff
    /\ pc[c] \in {"insert", "update"} => edit[c] \in [text: Texts, ref: Pins]
    /\ FactOf(c)

\* A request's step touches no other request's locals, and keeps the shape of
\* the variables that hold them.
LEMMA OneMoves ==
    ASSUME TypeOK, NEW c \in Clients, Works(c)
    PROVE  /\ \A d \in Clients \ {c} : Still(d)
           /\ pc' = [d \in Clients |-> pc'[d]] /\ job' = [d \in Clients |-> job'[d]]
           /\ edit' = [d \in Clients |-> edit'[d]]
           /\ origin' = [d \in Clients |-> origin'[d]] /\ stamp' = [d \in Clients |-> stamp'[d]]
           /\ lock' \in {lock, c, NoClient}
           /\ receipts' \subseteq receipts \union {job[c]}
           /\ receipts' # receipts => pc[c] = "activate"
<1> USE DEF TypeOK, Still, Return, Goto, Take, tables
<1>1. CASE \E e \in Requests : Create(c, e)
  BY <1>1 DEF Create
<1>2. CASE \E h \in HandoffIds : Insert(c, h)
  BY <1>2 DEF Insert
<1>3. CASE \E h \in HandoffIds : PublishRead(c, h) \/ Load(c, h)
  BY <1>3 DEF PublishRead, Load
<1>4. CASE \E h \in HandoffIds, e \in Patches :
             Patch(c, h, e) \/ VersionOfDraft(c, h, e) \/ VersionOfPublished(c, h, e)
  BY <1>4 DEF Patch, ReadDraft, VersionOfDraft, VersionOfPublished
<1>5. CASE PatchInPlace(c)
  BY <1>5 DEF PatchInPlace, ReadDraft
<1>6. CASE Adopt(c)
  BY <1>6 DEF Adopt
<1>7. CASE Activate(c)
  BY <1>7 DEF Activate
<1>8. CASE Update(c) \/ Stamp(c) \/ PublishWrite(c) \/ Crash(c)
  BY <1>8 DEF Update, Stamp, PublishWrite, Crash
<1>9. QED BY <1>1, <1>2, <1>3, <1>4, <1>5, <1>6, <1>7, <1>8 DEF Works

\* A request that has returned holds nothing.
LEMMA Returned ==
    ASSUME TypeOK, NEW c \in Clients, Return(c)
    PROVE  LocalTypes(c)'
BY DEF TypeOK, Return, Goto, LocalTypes, FactOf, Steps, Edits, Blank

\* A draft about to be written is complete and its ref is pinned and usable.
LEMMA Drafted ==
    ASSUME TypeOK, [Next]_vars, NEW e \in [text: Texts, ref: Refs], Resolves(e.ref)
    PROVE  /\ Pinned(e) \in [text: Texts, ref: Pins] /\ Pinned(e) \in Edits
           /\ Usable(capabilities', Pinned(e).ref)
<1>1. Pinned(e) \in [text: Texts, ref: Pins] /\ Usable(capabilities, Pinned(e).ref)
  BY PinnedType
<1>2. Pinned(e).ref \in Refs /\ Pinned(e) \in Edits
  BY <1>1 DEF Pins, Refs, Edits
<1>3. QED BY <1>1, <1>2, UsableStays

\* A request that does nothing keeps what it holds, whatever the others do.
LEMMA StillTyped ==
    ASSUME TypeOK, FactInv, [Next]_vars, NEW c \in Clients, Still(c)
    PROVE  LocalTypes(c)'
<1>1. job[c] \in HandoffIds => (rows[job[c]] # NoHandoff => rows'[job[c]] # NoHandoff)
  BY RowStays
<1>2. pc[c] = "activate" => rows'[job[c]].published
  BY RowStays DEF TypeOK, FactInv, FactOf
<1>3. pc[c] \in {"insert", "update"} => Usable(capabilities', edit[c].ref)
  BY UsableStays DEF TypeOK, FactInv, FactOf, Pins, Refs
<1>4. QED BY <1>1, <1>2, <1>3 DEF TypeOK, FactInv, FactOf, Still, LocalTypes

\* Each step of a request leaves it with what the next one needs.
LEMMA WorkTyped ==
    ASSUME TypeOK, FactInv, [Next]_vars, NEW c \in Clients, Works(c)
    PROVE  LocalTypes(c)'
<1> USE DEF Goto, Take, tables
<1>1. ASSUME NEW e \in Requests, Create(c, e) PROVE LocalTypes(c)'
  <2>1. Pinned(e) \in [text: Texts, ref: Pins] /\ Pinned(e) \in Edits
        /\ Usable(capabilities', Pinned(e).ref)
    BY <1>1, InputTypes, Drafted DEF Create
  <2>2. pc'[c] = "insert" /\ edit'[c] = Pinned(e) /\ UNCHANGED <<job, origin, stamp>>
    BY <1>1 DEF Create, TypeOK
  <2>3. QED BY <2>1, <2>2 DEF LocalTypes, FactOf, TypeOK, Steps
<1>2. ASSUME NEW h \in HandoffIds, Insert(c, h) PROVE LocalTypes(c)'
  <2>1. CASE origin[c] = NoHandoff
    BY <1>2, <2>1, Returned DEF Insert
  <2>2. CASE origin[c] # NoHandoff
    <3>1. pc'[c] = "adopt" /\ job'[c] = h /\ UNCHANGED <<edit, origin, stamp>>
      BY <1>2, <2>2 DEF Insert, TypeOK
    <3>2. rows'[h] # NoHandoff
      <4>1. Made(c, h)
        BY <1>2 DEF Insert, Made, TypeOK
      <4>2. edit[c].text \in Texts /\ edit[c].ref \in Pins
        BY <1>2 DEF Insert, TypeOK
      <4>3. rows'[h] \in Handoff
        BY <4>1, <4>2 DEF Made, Handoff, Statuses
      <4>4. QED BY <4>3
    <3>3. QED BY <2>2, <3>1, <3>2 DEF LocalTypes, FactOf, TypeOK, Steps
  <2>3. QED BY <2>1, <2>2
<1>3. ASSUME NEW h \in HandoffIds, PublishRead(c, h) PROVE LocalTypes(c)'
  BY <1>3 DEF PublishRead, LocalTypes, FactOf, TypeOK, Steps
<1>4. ASSUME NEW h \in HandoffIds, Load(c, h) PROVE LocalTypes(c)'
  BY <1>4 DEF Load, LocalTypes, FactOf, FactInv, RowOf, TypeOK, Steps
<1>5. ASSUME NEW h \in HandoffIds, NEW e \in Edits, rows[h] # NoHandoff, ReadDraft(c, h, e)
      PROVE  LocalTypes(c)'
  <2> DEFINE m == Merged(h, e)
  <2>1. m \in [text: Texts, ref: Refs] /\ Resolves(m.ref)
    BY <1>5, MergedType DEF ReadDraft
  <2> HIDE DEF m
  <2>2. Pinned(m) \in [text: Texts, ref: Pins] /\ Pinned(m) \in Edits
        /\ Usable(capabilities', Pinned(m).ref)
    BY <2>1, Drafted
  <2>3. pc'[c] = "update" /\ edit'[c] = Pinned(m) /\ job'[c] = h /\ UNCHANGED <<rows, origin, stamp>>
    BY <1>5 DEF ReadDraft, TypeOK, m
  <2>4. QED BY <1>5, <2>2, <2>3 DEF LocalTypes, FactOf, TypeOK, Steps
<1>6. ASSUME NEW h \in HandoffIds, NEW e \in Patches, VersionOfDraft(c, h, e) PROVE LocalTypes(c)'
  BY <1>6, InputTypes DEF VersionOfDraft, LocalTypes, FactOf, TypeOK, Steps
<1>7. ASSUME NEW h \in HandoffIds, NEW e \in Patches, VersionOfPublished(c, h, e)
      PROVE  LocalTypes(c)'
  <2> DEFINE m == Merged(h, e)
  <2>1. m \in [text: Texts, ref: Refs] /\ Resolves(m.ref)
    BY <1>7, InputTypes, MergedType DEF VersionOfPublished
  <2> HIDE DEF m
  <2>2. Pinned(m) \in [text: Texts, ref: Pins] /\ Pinned(m) \in Edits
        /\ Usable(capabilities', Pinned(m).ref)
    BY <2>1, Drafted
  <2>3. /\ pc'[c] = "insert" /\ edit'[c] = Pinned(m)
        /\ origin'[c] \in HandoffIds /\ UNCHANGED <<job, stamp>>
    BY <1>7, RowFields DEF VersionOfPublished, TypeOK, m
  <2>4. QED BY <2>2, <2>3 DEF LocalTypes, FactOf, TypeOK, Steps
<1>8. CASE PatchInPlace(c)
  <2>1. job[c] \in HandoffIds /\ rows[job[c]] # NoHandoff /\ edit[c] \in Edits
    BY <1>8 DEF PatchInPlace, TypeOK
  <2>2. QED BY <1>5, <1>8, <2>1, Returned DEF PatchInPlace
<1>9. CASE Adopt(c)
  <2>1. Max(Versions(origin[c])) + 1 \in Nat \ {0}
    BY <1>9, NextNumber DEF Adopt, FactInv
  <2>2. /\ pc[c] = "adopt" /\ pc'[c] = "stamp" /\ stamp'[c] = Max(Versions(origin[c])) + 1
        /\ UNCHANGED <<rows, job, edit, origin>>
    BY <1>9 DEF Adopt, TypeOK
  <2>3. QED BY <2>1, <2>2 DEF LocalTypes, FactOf, FactInv, TypeOK, Steps
<1>10. CASE Update(c) \/ Stamp(c) \/ PublishWrite(c) \/ Activate(c) \/ Crash(c)
  BY <1>10, Returned DEF Update, Stamp, PublishWrite, Activate, Crash
<1>11. CASE \E h \in HandoffIds, e \in Patches : Patch(c, h, e)
  BY <1>5, <1>11, InputTypes DEF Patch
<1>12. QED
  BY <1>1, <1>2, <1>3, <1>4, <1>6, <1>7, <1>8, <1>9, <1>10, <1>11 DEF Works

\* One request moves in a step, or none: the others stay as they were.
LEMMA WhoMoves ==
    ASSUME TypeOK, [Next]_vars
    PROVE  \/ \E c \in Clients : Works(c) /\ \A d \in Clients \ {c} : Still(d)
           \/ UNCHANGED <<receipts, lock, pc, job, edit, origin, stamp>>
<1>1. CASE \E c \in Clients : Works(c)
  BY <1>1, OneMoves
<1>2. CASE UNCHANGED vars
  BY <1>2 DEF vars
<1>3. CASE \E h \in HandoffIds : Revoke(h)
  BY <1>3 DEF Revoke, locals
<1>4. CASE \E k \in CapabilityIds, trust \in Trust : CreateCapability(k, trust)
  BY <1>4 DEF CreateCapability, locals
<1>5. QED BY <1>1, <1>2, <1>3, <1>4 DEF Next, Works

\* The rows stay a table.
LEMMA RowsType ==
    ASSUME TypeOK, FactInv, [Next]_vars
    PROVE  rows' \in [HandoffIds -> Handoff \union {NoHandoff}]
<1>1. rows' = [h \in HandoffIds |-> rows'[h]]
  <2> USE DEF TypeOK
  <2>1. CASE \E h \in HandoffIds : Revoke(h)
    BY <2>1 DEF Revoke
  <2>2. CASE \E c \in Clients, h \in HandoffIds : Insert(c, h)
    BY <2>2 DEF Insert
  <2>3. CASE \E c \in Clients : Update(c) \/ Stamp(c) \/ PublishWrite(c)
    BY <2>3 DEF Update, Stamp, PublishWrite
  <2>4. CASE UNCHANGED rows
    BY <2>4
  <2>5. QED
    BY <2>1, <2>2, <2>3, <2>4 DEF Next, vars, tables, CreateCapability, Create, PublishRead, Load,
       Patch, ReadDraft, VersionOfDraft, VersionOfPublished, PatchInPlace, Adopt, Activate, Crash
<1>2. QED BY <1>1, RowStays

\* A step adds one number at most, so the numbers stay bounded.
LEMMA BoundedStep ==
    ASSUME TypeOK, FactInv, [Next]_vars
    PROVE  Bounded'
<1>1. PICK n \in Nat : \A h \in HandoffIds : rows[h] # NoHandoff => rows[h].version <= n
  BY DEF FactInv, Bounded
<1>2. \A h \in HandoffIds : rows[h] # NoHandoff =>
          rows[h] \in Handoff /\ rows[h].version \in Nat /\ rows[h].version <= n
  BY <1>1, RowFields
<1>3. ASSUME NEW c \in Clients, Stamp(c) PROVE Bounded'
  <2>1. stamp[c] \in Nat /\ job[c] \in HandoffIds /\ rows[job[c]] # NoHandoff
    BY <1>3 DEF Stamp, TypeOK
  <2>2. ASSUME NEW h \in HandoffIds, rows'[h] # NoHandoff PROVE rows'[h].version <= n + stamp[c]
    <3>1. CASE h = job[c]
      <4>1. rows'[h] = [rows[h] EXCEPT !.lineage = origin[c], !.version = stamp[c]]
        BY <1>3, <2>1, <3>1 DEF Stamp, TypeOK
      <4>2. rows'[h].version = stamp[c]
        <5>1. rows[h] \in Handoff
          BY <1>2, <2>1, <3>1
        <5>2. QED BY <4>1, <5>1 DEF Handoff
      <4>3. QED BY <2>1, <4>2
    <3>2. CASE h # job[c]
      BY <1>2, <1>3, <2>1, <2>2, <3>2 DEF Stamp, TypeOK
    <3>3. QED BY <3>1, <3>2
  <2>3. n + stamp[c] \in Nat
    BY <2>1
  <2>4. QED BY <2>2, <2>3 DEF Bounded
<1>4. CASE \A c \in Clients : ~Stamp(c)
  <2>1. ASSUME NEW h \in HandoffIds, rows'[h] # NoHandoff PROVE rows'[h].version <= n + 1
    <3>1. CASE Kept(h) \/ Revoked(h)
      BY <1>2, <2>1, <3>1 DEF Kept, Revoked, Handoff
    <3>2. ASSUME NEW c \in Clients, Made(c, h) PROVE rows'[h].version <= n + 1
      BY <3>2 DEF Made
    <3>3. ASSUME NEW c \in Clients, Patched(c, h) \/ Published(c, h)
          PROVE  rows'[h].version <= n + 1
      <4>1. rows[h] \in Handoff /\ rows[h].version \in Nat /\ rows[h].version <= n
        BY <1>2, <3>3 DEF Patched, Published, TypeOK
      <4>2. rows'[h].version = rows[h].version
        BY <3>3, <4>1 DEF Patched, Published, Handoff
      <4>3. QED BY <4>1, <4>2
    <3>4. QED BY <1>4, <3>1, <3>2, <3>3, RowMoves DEF Numbered
  <2>2. QED BY <2>1 DEF Bounded
<1>5. QED BY <1>3, <1>4

\* Every step keeps the types and the facts.
LEMMA TypeStep ==
    ASSUME TypeOK, FactInv, [Next]_vars
    PROVE  TypeOK' /\ FactInv'
<1>1. \A c \in Clients : LocalTypes(c)'
  BY WhoMoves, WorkTyped, StillTyped DEF Still
<1>2. /\ pc' = [d \in Clients |-> pc'[d]] /\ job' = [d \in Clients |-> job'[d]]
      /\ edit' = [d \in Clients |-> edit'[d]]
      /\ origin' = [d \in Clients |-> origin'[d]] /\ stamp' = [d \in Clients |-> stamp'[d]]
      /\ lock' \in Clients \union {NoClient}
      /\ receipts' \subseteq HandoffIds
  <2>1. CASE UNCHANGED <<receipts, lock, pc, job, edit, origin, stamp>>
    BY <2>1 DEF TypeOK
  <2>2. ASSUME NEW c \in Clients, Works(c)
        PROVE  /\ lock' \in Clients \union {NoClient}
               /\ receipts' \subseteq HandoffIds
    BY <2>2, OneMoves DEF TypeOK
  <2>3. QED BY <2>1, <2>2, WhoMoves, OneMoves
<1>3. capabilities' \in [CapabilityIds -> Seq(Trust)]
  <2>1. ASSUME NEW k \in CapabilityIds, NEW trust \in Trust, CreateCapability(k, trust)
        PROVE  capabilities' \in [CapabilityIds -> Seq(Trust)]
    <3>1. Append(capabilities[k], trust) \in Seq(Trust)
      BY DEF TypeOK
    <3>2. QED BY <2>1, <3>1 DEF CreateCapability, TypeOK
  <2>2. QED BY <2>1, CapabilitiesMove DEF TypeOK
<1>4. TypeOK'
  <2>1. pc' \in [Clients -> Steps] /\ stamp' \in [Clients -> Nat]
    BY <1>1, <1>2 DEF LocalTypes
  <2>2. edit' \in [Clients -> Edits]
    <3>1. \A c \in Clients : edit'[c] \in Edits
      BY <1>1 DEF LocalTypes
    <3>2. QED BY <1>2, <3>1
  <2>3. /\ job' \in [Clients -> HandoffIds \union {NoHandoff}]
        /\ origin' \in [Clients -> HandoffIds \union {NoHandoff}]
    BY <1>1, <1>2 DEF LocalTypes
  <2>4. \A c \in Clients : pc'[c] \notin {"idle", "insert"} =>
            job'[c] \in HandoffIds /\ rows'[job'[c]] # NoHandoff
    BY <1>1 DEF LocalTypes
  <2>5. \A c \in Clients : pc'[c] \in {"insert", "update"} => edit'[c] \in [text: Texts, ref: Pins]
    BY <1>1 DEF LocalTypes
  <2>6. QED BY <1>2, <1>3, <2>1, <2>2, <2>3, <2>4, <2>5, RowsType DEF TypeOK
<1>5. FactInv'
  BY <1>1, RowStays, BoundedStep DEF FactInv, LocalTypes
<1>6. QED BY <1>4, <1>5

\* Types and facts hold of every behaviour, on either database.
LEMMA FactInvariant == Spec => [](TypeOK /\ FactInv)
<1>1. Init => TypeOK /\ FactInv
  <2> SUFFICES ASSUME Init PROVE TypeOK /\ FactInv
    OBVIOUS
  <2>1. <<"workspace">> \in Seq(Trust) /\ <<>> \in Seq(Trust)
    BY DEF Trust
  <2>2. TypeOK
    BY <2>1 DEF Init, TypeOK, Steps, Edits, Blank
  <2>3. FactInv
    BY DEF Init, FactInv, FactOf, RowOf, Bounded
  <2>4. QED BY <2>2, <2>3
<1>2. TypeOK /\ FactInv /\ [Next]_vars => TypeOK' /\ FactInv'
  BY TypeStep
<1>3. QED BY <1>1, <1>2, PTL DEF Spec

\* Every variable keeps its type, whatever the database (toolbox.py).
THEOREM TypeCorrect == Spec => []TypeOK
BY FactInvariant, PTL

\* What a handoff pins stays loadable, on either database: the refs were
\* resolved before the transaction that writes them, and no version of a
\* capability is withdrawn or loses its trust (toolbox.py: _resolve_refs).
THEOREM PinsHold == Spec => []PinsResolve
<1>1. FactInv => PinsResolve
  BY DEF FactInv, RowOf, Usable, PinsResolve
<1>2. QED BY <1>1, FactInvariant, PTL

-----------------------------------------------------------------------------
(* One writer at a time, on SQLite *)

InTransaction == {"stamp", "publish"}

\* Whoever is between the read and the write of a transaction holds the lock.
LockInv == \A c \in Clients : pc[c] \in InTransaction => lock = c

\* A draft that is about to be published is still one.
DraftInv == \A c \in Clients : pc[c] = "publish" => rows[job[c]].status = "draft"

SafeInv == TypeOK /\ FactInv /\ LockInv /\ DraftInv /\ NextVersionFollows

\* Under BEGIN IMMEDIATE a transaction begins only when no other is open.
LEMMA LockStep ==
    ASSUME Serialised, TypeOK, LockInv, [Next]_vars
    PROVE  LockInv'
<1>1. ASSUME NEW c \in Clients, Works(c) PROVE LockInv'
  <2>1. \A d \in Clients \ {c} : pc'[d] = pc[d]
    BY <1>1, OneMoves DEF Still
  <2>2. \/ lock' = lock /\ pc'[c] \notin InTransaction
        \/ lock = NoClient /\ lock' = c
        \/ lock' = (IF lock = c THEN NoClient ELSE lock) /\ pc'[c] = "idle"
    <3> USE DEF TypeOK, CanBegin, InTransaction, Goto, Take, Return, tables
    <3>1. CASE \E e \in Requests : Create(c, e)
      BY <3>1 DEF Create
    <3>2. CASE \E h \in HandoffIds : Insert(c, h)
      BY <3>2 DEF Insert
    <3>3. CASE \E h \in HandoffIds : PublishRead(c, h) \/ Load(c, h)
      BY <3>3 DEF PublishRead, Load
    <3>4. CASE \E h \in HandoffIds, e \in Patches :
                 Patch(c, h, e) \/ VersionOfDraft(c, h, e) \/ VersionOfPublished(c, h, e)
      BY <3>4 DEF Patch, ReadDraft, VersionOfDraft, VersionOfPublished
    <3>5. CASE PatchInPlace(c) \/ Adopt(c)
      BY <3>5 DEF PatchInPlace, ReadDraft, Adopt
    <3>6. CASE Update(c) \/ Stamp(c) \/ PublishWrite(c) \/ Activate(c) \/ Crash(c)
      BY <3>6 DEF Update, Stamp, PublishWrite, Activate, Crash
    <3>7. QED BY <1>1, <3>1, <3>2, <3>3, <3>4, <3>5, <3>6 DEF Works
  <2>3. QED BY <2>1, <2>2 DEF LockInv, InTransaction
<1>2. CASE UNCHANGED <<receipts, lock, pc, job, edit, origin, stamp>>
  BY <1>2 DEF LockInv
<1>3. QED BY <1>1, <1>2, WhoMoves

\* While one request's transaction is open no other step writes the handoffs.
LEMMA OneWriter ==
    ASSUME Serialised, TypeOK, LockInv, [Next]_vars,
           NEW d \in Clients, pc[d] \in InTransaction
    PROVE  Works(d) \/ UNCHANGED rows
<1>1. ~CanBegin /\ \A c \in Clients \ {d} : pc[c] \notin InTransaction
  BY DEF LockInv, CanBegin
<1>2. ASSUME NEW c \in Clients \ {d}, Works(c) PROVE UNCHANGED rows
  <2> USE DEF InTransaction, tables
  <2>1. CASE \E h \in HandoffIds : Insert(c, h) \/ PublishRead(c, h) \/ Load(c, h)
    BY <1>1, <2>1 DEF Insert, PublishRead, Load
  <2>2. CASE \E e \in Requests : Create(c, e)
    BY <2>2 DEF Create
  <2>3. CASE \E h \in HandoffIds, e \in Patches :
               Patch(c, h, e) \/ VersionOfDraft(c, h, e) \/ VersionOfPublished(c, h, e)
    BY <2>3 DEF Patch, ReadDraft, VersionOfDraft, VersionOfPublished
  <2>4. CASE PatchInPlace(c) \/ Crash(c)
    BY <2>4 DEF PatchInPlace, ReadDraft, Crash
  <2>5. CASE Update(c) \/ Adopt(c) \/ Stamp(c) \/ PublishWrite(c) \/ Activate(c)
    BY <1>1, <2>5 DEF Update, Adopt, Stamp, PublishWrite, Activate
  <2>6. QED BY <1>2, <2>1, <2>2, <2>3, <2>4, <2>5 DEF Works
<1>3. CASE \E h \in HandoffIds : Revoke(h)
  BY <1>1, <1>3 DEF Revoke
<1>4. CASE \E k \in CapabilityIds, trust \in Trust : CreateCapability(k, trust)
  BY <1>4 DEF CreateCapability
<1>5. CASE UNCHANGED vars
  BY <1>5 DEF vars
<1>6. QED BY <1>2, <1>3, <1>4, <1>5 DEF Next, Works

\* What publish_handoff's SELECT returned is still so when it writes.
LEMMA DraftStep ==
    ASSUME Serialised, TypeOK, LockInv, DraftInv, [Next]_vars
    PROVE  DraftInv'
<1> SUFFICES ASSUME NEW c \in Clients, pc'[c] = "publish"
             PROVE  rows'[job'[c]].status = "draft"
  BY DEF DraftInv
<1>1. CASE Still(c)
  <2>1. pc[c] = "publish" /\ job'[c] = job[c]
    BY <1>1 DEF Still
  <2>2. ~Works(c)
    <3> USE DEF Goto, Return, TypeOK
    <3>1. ASSUME Works(c) PROVE pc'[c] # "publish"
      BY <2>1, <3>1 DEF Works, Create, Insert, PublishRead, Load, Patch, VersionOfDraft,
         VersionOfPublished, Update, PatchInPlace, Adopt, Stamp, PublishWrite, Activate, Crash
    <3>2. QED BY <3>1
  <2>3. UNCHANGED rows
    BY <2>1, <2>2, OneWriter DEF InTransaction
  <2>4. QED BY <2>1, <2>3 DEF DraftInv
<1>2. CASE Works(c)
  <2>1. PICK h \in HandoffIds : PublishRead(c, h)
    BY <1>2 DEF Works, Create, Insert, Load, Patch, ReadDraft, VersionOfDraft, VersionOfPublished,
       Update, PatchInPlace, Adopt, Stamp, PublishWrite, Activate, Crash, Goto, Return, TypeOK
  <2>2. QED BY <2>1 DEF PublishRead, TypeOK, tables
<1>3. QED BY <1>1, <1>2, WhoMoves DEF Still

\* The number computed inside the transaction stays the next one until it is written.
LEMMA NumberStep ==
    ASSUME Serialised, TypeOK, FactInv, LockInv, NextVersionFollows, [Next]_vars
    PROVE  NextVersionFollows'
<1> SUFFICES ASSUME NEW c \in Clients, pc'[c] = "stamp",
                    NEW h \in HandoffIds, rows'[h] # NoHandoff, rows'[h].lineage = origin'[c]
             PROVE  rows'[h].version < stamp'[c]
  BY DEF NextVersionFollows, Versions, Members
<1>1. CASE Still(c)
  <2>1. pc[c] = "stamp" /\ origin'[c] = origin[c] /\ stamp'[c] = stamp[c]
    BY <1>1 DEF Still
  <2>2. ~Works(c)
    <3> USE DEF Goto, Return, TypeOK
    <3>1. ASSUME Works(c) PROVE pc'[c] # "stamp"
      BY <2>1, <3>1 DEF Works, Create, Insert, PublishRead, Load, Patch, VersionOfDraft,
         VersionOfPublished, Update, PatchInPlace, Adopt, Stamp, PublishWrite, Activate, Crash
    <3>2. QED BY <3>1
  <2>3. UNCHANGED rows
    BY <2>1, <2>2, OneWriter DEF InTransaction
  <2>4. QED BY <2>1, <2>3 DEF NextVersionFollows, Versions, Members
<1>2. CASE Works(c)
  <2>1. Adopt(c)
    BY <1>2 DEF Works, Create, Insert, PublishRead, Load, Patch, ReadDraft, VersionOfDraft,
       VersionOfPublished, Update, PatchInPlace, Stamp, PublishWrite, Activate, Crash, Goto, Return, TypeOK
  <2>2. stamp'[c] = Max(Versions(origin[c])) + 1 /\ origin'[c] = origin[c] /\ UNCHANGED rows
    BY <2>1 DEF Adopt, TypeOK, tables
  <2>3. rows[h].version \in Versions(origin[c])
    BY <2>2 DEF Versions, Members
  <2>4. QED BY <2>1, <2>2, <2>3, NextNumber DEF Adopt, FactInv
<1>3. QED BY <1>1, <1>2, WhoMoves DEF Still

\* Types, facts, the lock and what it protects hold of every SQLite behaviour.
LEMMA SafeInvariant == ASSUME Serialised PROVE Spec => []SafeInv
<1>1. Init => LockInv /\ DraftInv /\ NextVersionFollows
  BY DEF Init, LockInv, InTransaction, DraftInv, NextVersionFollows
<1>2. SafeInv /\ [Next]_vars => LockInv' /\ DraftInv' /\ NextVersionFollows'
  BY LockStep, DraftStep, NumberStep DEF SafeInv
<1>3. QED BY <1>1, <1>2, FactInvariant, PTL DEF Spec, SafeInv

\* On SQLite the number new_handoff_version writes follows every version of
\* the lineage, for any number of requests revising it: SELECT MAX and UPDATE
\* are one transaction (toolbox.py: new_handoff_version).
THEOREM VersionsFollow == ASSUME Serialised PROVE Spec => []NextVersionFollows
BY SafeInvariant, PTL DEF SafeInv

-----------------------------------------------------------------------------
(* The lifecycle *)

StageOf(row) == IF row = NoHandoff THEN "absent" ELSE row.status

\* A write that leaves every status and publication alone is a stutter of the lifecycle.
LEMMA Unmoved ==
    ASSUME UNCHANGED receipts,
           \A h \in HandoffIds :
               /\ StageOf(rows'[h]) = StageOf(rows[h])
               /\ rows'[h] # NoHandoff <=> rows[h] # NoHandoff
               /\ rows[h] # NoHandoff => rows'[h].published = rows[h].published
    PROVE  UNCHANGED Lifecycle!vars
BY DEF StageOf, Lifecycle!vars

\* A step that changes the status of one row changes one stage.
LEMMA StageMoves ==
    ASSUME TypeOK, NEW h \in HandoffIds, NEW s, StageOf(rows'[h]) = s,
           \A g \in HandoffIds \ {h} : rows'[g] = rows[g]
    PROVE  [g \in HandoffIds |-> IF rows'[g] = NoHandoff THEN "absent" ELSE rows'[g].status]
           = [[g \in HandoffIds |-> IF rows[g] = NoHandoff THEN "absent" ELSE rows[g].status]
                EXCEPT ![h] = s]
BY DEF StageOf

\* The INSERT of a handoff is the draft of the lifecycle.
LEMMA InsertDrafts ==
    ASSUME TypeOK, FactInv, [Next]_vars, NEW c \in Clients, NEW h \in HandoffIds, Insert(c, h)
    PROVE  Lifecycle!Draft(h)
<1>1. /\ Made(c, h) /\ UNCHANGED receipts
      /\ \A g \in HandoffIds \ {h} : rows'[g] = rows[g]
  BY DEF Insert, Made, TypeOK
<1>2. rows'[h] \in Handoff /\ rows'[h].status = "draft" /\ ~rows'[h].published
  <2>1. rows'[h] \in Handoff \union {NoHandoff} /\ edit[c].text \in Texts /\ edit[c].ref \in Pins
    BY <1>1, RowStays DEF Made, TypeOK
  <2>2. QED BY <1>1, <2>1 DEF Made, Handoff, Statuses
<1>3. rows[h] = NoHandoff /\ rows'[h] # NoHandoff /\ StageOf(rows'[h]) = "draft"
  BY <1>1, <1>2 DEF Made, StageOf
<1>4. {g \in HandoffIds : rows'[g] # NoHandoff /\ rows'[g].published}
      = {g \in HandoffIds : rows[g] # NoHandoff /\ rows[g].published}
  BY <1>1, <1>2, <1>3
<1>5. QED BY <1>1, <1>3, <1>4, StageMoves DEF Lifecycle!Draft

\* publish_handoff's UPDATE is the publication of the lifecycle: the row is still a draft.
LEMMA WritePublishes ==
    ASSUME SafeInv, NEW c \in Clients, PublishWrite(c), NEW h \in HandoffIds, h = job[c]
    PROVE  Lifecycle!Publish(h)
<1>1. rows[h] # NoHandoff /\ rows[h] \in Handoff /\ rows[h].status = "draft"
  BY RowFields DEF SafeInv, DraftInv, PublishWrite, TypeOK
<1>2. /\ rows'[h] = [rows[h] EXCEPT !.status = "published", !.published = TRUE]
      /\ \A g \in HandoffIds \ {h} : rows'[g] = rows[g]
      /\ UNCHANGED receipts
  BY <1>1 DEF PublishWrite, SafeInv, TypeOK
<1>3. rows'[h] \in Handoff /\ rows'[h].status = "published" /\ rows'[h].published
  BY <1>1, <1>2 DEF Handoff, Statuses
<1>4. rows'[h] # NoHandoff /\ StageOf(rows'[h]) = "published"
  BY <1>3 DEF StageOf
<1>5. {g \in HandoffIds : rows'[g] # NoHandoff /\ rows'[g].published}
      = {g \in HandoffIds : rows[g] # NoHandoff /\ rows[g].published} \union {h}
  BY <1>1, <1>2, <1>3, <1>4
<1>6. QED BY <1>1, <1>2, <1>4, <1>5, StageMoves DEF Lifecycle!Publish, SafeInv

\* revoke_handoff revokes, or does nothing to what is revoked already.
LEMMA RevokeRevokes ==
    ASSUME TypeOK, NEW h \in HandoffIds, Revoke(h)
    PROVE  Lifecycle!Revoke(h) \/ UNCHANGED Lifecycle!vars
<1>1. rows[h] # NoHandoff /\ rows[h] \in Handoff /\ rows[h].status \in Statuses
  BY RowFields DEF Revoke
<1>2. /\ rows'[h] = [rows[h] EXCEPT !.status = "revoked"]
      /\ \A g \in HandoffIds \ {h} : rows'[g] = rows[g]
      /\ UNCHANGED receipts
  BY DEF Revoke, TypeOK
<1>3. rows'[h] \in Handoff /\ rows'[h].status = "revoked" /\ rows'[h].published = rows[h].published
  BY <1>1, <1>2 DEF Handoff, Statuses
<1>4. rows'[h] # NoHandoff /\ StageOf(rows'[h]) = "revoked"
  BY <1>3 DEF StageOf
<1>5. CASE rows[h].status = "revoked"
  <2>1. StageOf(rows[h]) = "revoked"
    BY <1>1, <1>5 DEF StageOf
  <2>2. UNCHANGED Lifecycle!vars
    BY <1>1, <1>2, <1>3, <1>4, <2>1, Unmoved
  <2>3. QED BY <2>2
<1>6. CASE rows[h].status \in {"draft", "published"}
  <2>1. {g \in HandoffIds : rows'[g] # NoHandoff /\ rows'[g].published}
        = {g \in HandoffIds : rows[g] # NoHandoff /\ rows[g].published}
    BY <1>1, <1>2, <1>3, <1>4
  <2>2. QED BY <1>1, <1>2, <1>4, <1>6, <2>1, StageMoves DEF Lifecycle!Revoke
<1>7. QED BY <1>1, <1>5, <1>6 DEF Statuses

\* A patch and a new number change neither status nor publication.
LEMMA PatchUnmoved ==
    ASSUME TypeOK, FactInv, [Next]_vars, NEW c \in Clients, Update(c) \/ Stamp(c)
    PROVE  UNCHANGED Lifecycle!vars
<1> DEFINE h == job[c]
<1>1. h \in HandoffIds /\ rows[h] # NoHandoff /\ rows[h] \in Handoff
  BY RowFields DEF Update, Stamp, TypeOK
<1>2. /\ Patched(c, h) \/ Numbered(c, h)
      /\ \A g \in HandoffIds \ {h} : rows'[g] = rows[g]
      /\ UNCHANGED receipts
  BY <1>1 DEF Update, Stamp, Patched, Numbered, TypeOK
<1> HIDE DEF h
<1>3. rows'[h].status = rows[h].status /\ rows'[h].published = rows[h].published
  BY <1>1, <1>2 DEF Patched, Numbered, Handoff
<1>4. rows'[h] # NoHandoff
  BY <1>1, RowStays
<1>5. QED BY <1>1, <1>2, <1>3, <1>4, Unmoved DEF StageOf

\* On SQLite the requests implement the lifecycle: a handoff is published
\* from a draft, nothing returns from revoked, and a receipt is of a handoff
\* that was published (toolbox.py: publish_handoff, revoke_handoff,
\* load_handoff).
THEOREM HandoffsImplementLifecycle == ASSUME Serialised PROVE Spec => ImplementsLifecycle
<1>1. Init => Lifecycle!Init
  BY DEF Init, Lifecycle!Init
<1>2. SafeInv /\ [Next]_vars => [Lifecycle!Next]_(Lifecycle!vars)
  <2> SUFFICES ASSUME SafeInv, [Next]_vars PROVE [Lifecycle!Next]_(Lifecycle!vars)
    OBVIOUS
  <2> USE DEF SafeInv
  <2>1. CASE \E c \in Clients, h \in HandoffIds : Insert(c, h)
    BY <2>1, InsertDrafts DEF Lifecycle!Next
  <2>2. CASE \E c \in Clients : PublishWrite(c)
    <3>1. PICK c \in Clients : PublishWrite(c)
      BY <2>2
    <3>2. PICK h \in HandoffIds : h = job[c]
      BY <3>1 DEF PublishWrite, TypeOK
    <3>3. QED BY <3>1, <3>2, WritePublishes DEF Lifecycle!Next
  <2>3. CASE \E h \in HandoffIds : Revoke(h)
    BY <2>3, RevokeRevokes DEF Lifecycle!Next
  <2>4. CASE \E c \in Clients : Update(c) \/ Stamp(c)
    BY <2>4, PatchUnmoved
  <2>5. CASE \E c \in Clients : Activate(c)
    <3>1. PICK c \in Clients : Activate(c)
      BY <2>5
    <3>2. /\ job[c] \in HandoffIds /\ rows[job[c]] # NoHandoff /\ rows[job[c]].published
          /\ receipts' = receipts \union {job[c]} /\ UNCHANGED rows
      BY <3>1 DEF Activate, TypeOK, FactInv, FactOf
    <3>3. Lifecycle!Load(job[c])
      BY <3>2 DEF Lifecycle!Load
    <3>4. QED BY <3>2, <3>3 DEF Lifecycle!Next
  <2>6. CASE UNCHANGED <<rows, receipts>>
    BY <2>6 DEF Lifecycle!vars
  <2>7. ASSUME NEW c \in Clients, Works(c),
               ~(\E h \in HandoffIds : Insert(c, h)),
               ~(PublishWrite(c) \/ Update(c) \/ Stamp(c) \/ Activate(c))
        PROVE  UNCHANGED <<rows, receipts>>
    BY <2>7 DEF Works, tables, Create, PublishRead, Load, Patch, ReadDraft, VersionOfDraft,
       VersionOfPublished, PatchInPlace, Adopt, Crash
  <2>8. CASE \E k \in CapabilityIds, trust \in Trust : CreateCapability(k, trust)
    BY <2>6, <2>8 DEF CreateCapability
  <2>9. CASE UNCHANGED vars
    BY <2>6, <2>9 DEF vars
  <2>10. QED
    BY <2>1, <2>2, <2>3, <2>4, <2>5, <2>6, <2>7, <2>8, <2>9 DEF Next, Works
<1>3. QED BY <1>1, <1>2, SafeInvariant, PTL DEF Spec, ImplementsLifecycle, Lifecycle!Spec
=============================================================================
