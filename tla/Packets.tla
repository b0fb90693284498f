------------------------------- MODULE Packets -------------------------------
(***************************************************************************)
(* The packets an agent reads: the context packet (ContextCompiler), the   *)
(* architecture brief (ArchitectureCompiler) and the handoff draft that    *)
(* create_handoff makes of both.  Each is ranked, cut to its limits and    *)
(* then loses its last sources until it fits a token budget.               *)
(*                                                                         *)
(* What is ranked is abstract: any order the signals can give.  Texts are  *)
(* their lengths in characters.  A list that the packet derives from its   *)
(* items (interfaces, edit points) counts with the items.                  *)
(***************************************************************************)
EXTENDS Integers, SequencesExt, ListOps

CONSTANTS
    Facts,          \* durable memories of the repository
    Papers,         \* declared documents of the repository
    Profiles,       \* intent.PROFILES: weights in hundredths
    MaxRank,        \* bound: the longest ranked list
    Unit,           \* scores are counted in 1/Unit, so that 1/(60 + rank) is whole
    Cards,          \* architecture documents of the active snapshot
    Sections,       \* their sections
    ParentOf,       \* Sections -> Cards
    Targets,        \* Cards -> the cards each depends on
    Unresolved,     \* Cards -> the references nobody declares
    EditPoints,     \* Papers and Cards -> safe_edit_points
    Risks,          \* Papers and Cards -> risk_areas
    Requests,       \* token_budget and the limits of memories, documents and sections
    Size,           \* characters of an item and its receipt
    ReceiptSize, PathSize, PointSize,
    PackFrame, BriefFrame, DraftFrame   \* characters of what is never dropped

Ranked(S) == UNION {SetToSeqs(T) : T \in SUBSET S}

\* Items are named after their table; models.py bounds what is requested.
ASSUME ItemAssumption ==
    /\ IsFiniteSet(Facts) /\ IsFiniteSet(Papers) /\ IsFiniteSet(Cards) /\ IsFiniteSet(Sections)
    /\ Facts \intersect Papers = {} /\ Cards \intersect Sections = {}
    /\ Facts \intersect (Cards \union Sections) = {}
ASSUME TieAssumption ==
    /\ ParentOf \in [Sections -> Cards] /\ Targets \in [Cards -> SUBSET Cards]
    /\ \A card \in Cards : IsFiniteSet(Unresolved[card])
    /\ \A item \in Papers \union Cards : IsFiniteSet(EditPoints[item]) /\ IsFiniteSet(Risks[item])
ASSUME RankAssumption ==
    /\ MaxRank \in Nat /\ Cardinality(Facts) <= MaxRank /\ Cardinality(Papers) <= MaxRank
    /\ Profiles \subseteq [1..4 -> Nat \ {0}]
    /\ Unit \in Nat \ {0}
    /\ \A rank \in 1..MaxRank : (Unit \div (60 + rank)) * (60 + rank) = Unit
ASSUME RequestAssumption ==
    /\ Requests \subseteq [budget : Nat, memories : Nat, documents : Nat, sections : Nat]
    /\ Requests # {} /\ \A r \in Requests : 512 <= r.budget /\ r.budget <= 8000
ASSUME SizeAssumption ==
    /\ Size \in [Facts \union Papers \union Cards \union Sections -> Nat]
    /\ {ReceiptSize, PathSize, PointSize, BriefFrame, DraftFrame} \subseteq Nat
    /\ PackFrame \in Nat /\ PackFrame <= 100000

VARIABLES
    stage,          \* what the compilation does next
    request,        \* token_budget and limits
    hits,           \* ranked memories and documents; history: which document beats which
    pack,           \* the context packet
    brief,          \* the architecture brief
    draft           \* the handoff's evidence, edit points and risks

packetVars == <<stage, request, hits, pack, brief, draft>>

NoHits == [memories |-> <<>>, documents |-> <<>>, better |-> {}]
NoPack == [sources |-> <<>>, omitted |-> 0, estimate |-> 0]
NoBrief == [documents |-> <<>>, sections |-> <<>>, sources |-> <<>>, paths |-> {},
            candidates |-> 0, omitted |-> 0, estimate |-> 0]
NoDraft == [evidence |-> <<>>, points |-> 0, risks |-> 0, removed |-> 0]

PacketTypeOK ==
    /\ stage \in {"recall", "pack", "rank", "brief", "draft", "drafted", "refused"}
    /\ request \in Requests
    /\ hits.memories \in Seq(Facts) /\ hits.documents \in Seq(Papers)
    /\ pack.sources \in Seq(Facts \union Papers)
    /\ brief.sources \in Seq(Cards \union Sections)
    /\ draft.evidence \in Seq(Facts \union Cards \union Sections)
    /\ \A list \in {pack.sources, brief.sources, draft.evidence} : IsInjective(list)
    /\ {pack.omitted, brief.omitted, draft.removed, draft.points, draft.risks} \subseteq Nat

PacketInit ==
    /\ stage = "recall"
    /\ request \in Requests
    /\ hits = NoHits /\ pack = NoPack /\ brief = NoBrief /\ draft = NoDraft

\* Nothing is being compiled.
PacketIdle ==
    /\ stage = "recall"
    /\ request = CHOOSE r \in Requests : TRUE
    /\ hits = NoHits /\ pack = NoPack /\ brief = NoBrief /\ draft = NoDraft

-----------------------------------------------------------------------------
(* Sizes *)

\* No packet has a million tokens.
Digits(n) ==
    IF n < 10 THEN 1 ELSE IF n < 100 THEN 2 ELSE IF n < 1000 THEN 3
    ELSE IF n < 10000 THEN 4 ELSE IF n < 100000 THEN 5 ELSE 6
\* _estimate_tokens: max(1, ceil(len / 4))
Tokens(chars) == Max({1, (chars + 3) \div 4})

SizeOf(items) == Total([n \in DOMAIN items |-> Size[items[n]]])

-----------------------------------------------------------------------------
(* Reciprocal rank fusion *)

RankIn(list, item) == CHOOSE n \in DOMAIN list : list[n] = item
Share(item, list, weight) ==
    IF item \in Range(list) THEN weight * (Unit \div (60 + RankIn(list, item))) ELSE 0

\* Mutation: the last list that has the item decides.
ScoreOfLast(item, lists, weights) ==
    LET last == Max({l \in DOMAIN lists : item \in Range(lists[l])}) IN
    Share(item, lists[last], weights[last])

Score(item, lists, weights) == Total([l \in DOMAIN lists |-> Share(item, lists[l], weights[l])])

Met(lists) == UNION {Range(lists[l]) : l \in DOMAIN lists}

\* Which item is met first, one list after the other.
FirstList(item, lists) == Min({l \in DOMAIN lists : item \in Range(lists[l])})
MetBefore(a, b, lists) ==
    LET k == FirstList(a, lists)
        l == FirstList(b, lists)
    IN  k < l \/ (k = l /\ RankIn(lists[k], a) < RankIn(lists[l], b))

Entries(lists, weights) == {<<item, Score(item, lists, weights)>> : item \in Met(lists)}

\* By falling score; equals stay in the order they were met.
Above(a, b, lists) == a[2] > b[2] \/ (a[2] = b[2] /\ MetBefore(a[1], b[1], lists))

\* sorted: in the n-th place is what has n - 1 above it.
Sorted(entries, lists) ==
    [n \in 1..Cardinality(entries) |->
        CHOOSE e \in entries : Cardinality({o \in entries : Above(o, e, lists)}) = n - 1]

Fused(lists, weights) ==
    LET sorted == Sorted(Entries(lists, weights), lists) IN
    [n \in DOMAIN sorted |-> sorted[n][1]]

-----------------------------------------------------------------------------
(* DeclaredDocumentStore.recall, for the documents of the repository *)

\* structural_paths: a document is found by its ties to one found by its words.
Tied(found, lexical) ==
    \A d \in Range(found) : \E anchor \in Range(lexical) : anchor # d

\* Every document has a declared score.
ByDimensions == SetToSeqs(Papers)

Signals ==
    {s \in [lexical : Ranked(Papers), structural : Ranked(Papers),
            declared : ByDimensions, dense : Ranked(Papers)] : Tied(s.structural, s.lexical)}

\* classify_intent: the words of the question decide.
Weights == Profiles

\* What the modes lexical or dense, declared and hybrid fuse.
Lists ==
    {<<s.lexical>> : s \in Signals}
    \union {<<s.lexical, s.structural, s.declared>> : s \in Signals}
    \union {<<s.lexical, s.structural, s.declared, s.dense>> : s \in Signals}

\* a is better than b in every signal that has b.
Beats(lists) ==
    {p \in Papers \X Papers :
        /\ p[1] # p[2] /\ \E l \in DOMAIN lists : p[1] \in Range(lists[l])
        /\ \A l \in DOMAIN lists : p[2] \in Range(lists[l]) =>
               /\ p[1] \in Range(lists[l])
               /\ RankIn(lists[l], p[1]) < RankIn(lists[l], p[2])}

\* What a recall may answer, with what its signals say.  The order that one
\* list gives does not depend on its weight.
Recalls ==
    {[found |-> Fused(lists, weights), better |-> Beats(lists)] :
        lists \in Lists, weights \in Weights}

-----------------------------------------------------------------------------
(* ContextCompiler.build *)

\* Retriever.recall: the memories of positive score, in any order.
Remembered == Ranked(Facts)

Cut(list, limit) == SubSeq(list, 1, Min({limit, Len(list)}))

\* The walk over the fused order, until the limit of each kind.
Takes(taken, item) ==
    CASE item \in Facts /\ taken.memories < request.memories ->
            [taken EXCEPT !.sources = Append(@, item), !.memories = @ + 1]
      [] item \notin Facts /\ taken.documents < request.documents ->
            [taken EXCEPT !.sources = Append(@, item), !.documents = @ + 1]
      [] OTHER -> taken

Taken(order) ==
    LET taken[n \in 0..Len(order)] ==
            IF n = 0 THEN [sources |-> <<>>, memories |-> 0, documents |-> 0]
            ELSE Takes(taken[n - 1], order[n])
    IN  taken[Len(order)].sources

Selected(memories, papers) == Taken(Fused(<<memories, papers>>, <<1, 1>>))

PackChars(sources) == PackFrame + SizeOf(sources)

\* The packet is measured, and measured again with the estimate in it.
Packed(sources) ==
    LET once == Tokens(PackChars(sources) + Digits(0)) IN
    [sources |-> sources,
     omitted |-> Max({0, Cardinality(Facts) + Cardinality(Papers) - Len(sources)}),
     estimate |-> Tokens(PackChars(sources) + Digits(once))]

\* Twice each limit, and at least one, is asked for.
Room(limit) == Max({1, 2 * limit})

RankAndSelect ==
    LET answers == Recalls IN
    /\ stage = "recall"
    /\ \E memories \in Remembered, answer \in answers :
           /\ hits' = [memories |-> Cut(memories, Room(request.memories)),
                       documents |-> Cut(answer.found, Room(request.documents)),
                       better |-> answer.better]
           /\ pack' = Packed(Selected(hits'.memories, hits'.documents))
    /\ stage' = "pack"
    /\ UNCHANGED <<request, brief, draft>>

TooLong(packet, budget) == packet.estimate > budget /\ packet.sources # <<>>

DropSource ==
    /\ stage = "pack" /\ TooLong(pack, request.budget)
    /\ pack' = Packed(Front(pack.sources))
    /\ UNCHANGED <<stage, request, hits, brief, draft>>

PackReady ==
    /\ stage = "pack" /\ ~TooLong(pack, request.budget)
    /\ stage' = "rank"
    /\ UNCHANGED <<request, hits, pack, brief, draft>>

-----------------------------------------------------------------------------
(* ArchitectureCompiler.build *)

BriefBudget == Min({1600, Max({512, request.budget \div 2})})

\* _dependency_paths: two steps along depends_on, never back onto the path,
\* and what a selected card refers to in vain.
Paths(roots) ==
    LET short == {<<a, b>> : a \in roots, b \in Cards} IN
    {p \in short : p[2] \in Targets[p[1]] \ {p[1]}}
    \union {p \in {Append(q, c) : q \in short, c \in Cards} :
               /\ p[2] \in Targets[p[1]] \ {p[1]}
               /\ p[3] \in Targets[p[2]] \ {p[1], p[2]}}
    \union UNION {{<<a, ref>> : ref \in Unresolved[a]} : a \in roots}

BriefChars(b) ==
    BriefFrame + SizeOf(b.documents) + SizeOf(b.sections) + PathSize * Cardinality(b.paths)

\* _recompute: the estimate is measured while the field is 0.
Recomputed(b) == [b EXCEPT !.estimate = Tokens(BriefChars(b) + Digits(0))]

\* _score_document, _score_section: none is left out, any order is possible.
Scored(S) == SetToSeqs(S)

\* Documents are ranked and cut, then the sections of those that are left.
RankCards ==
    /\ stage = "rank"
    /\ \E cards \in Scored(Cards) :
       LET chosen == Cut(cards, request.documents)
           eligible == {s \in Sections : ParentOf[s] \in Range(chosen)}
           candidates == Cardinality(Cards) + Cardinality(eligible) IN
       \E list \in Scored(eligible) :
       LET parts == Cut(list, request.sections) IN
       brief' = Recomputed([documents |-> chosen, sections |-> parts,
                            sources |-> chosen \o parts, paths |-> Paths(Range(chosen)),
                            candidates |-> candidates,
                            omitted |-> candidates - Len(chosen \o parts), estimate |-> 0])
    /\ stage' = "brief"
    /\ UNCHANGED <<request, hits, pack, draft>>

\* The repository is not registered or has no active snapshot.
NothingToBrief ==
    /\ stage = "rank"
    /\ brief' = Recomputed(NoBrief)
    /\ stage' = "brief"
    /\ UNCHANGED <<request, hits, pack, draft>>

Without(list, dropped) == Picked(list, Range(list) \ dropped)
SectionsOf(card) == {s \in Sections : ParentOf[s] = card}

DropSection ==
    /\ stage = "brief" /\ TooLong(brief, BriefBudget)
    /\ Last(brief.sources) \in Sections
    /\ brief' = Recomputed([brief EXCEPT !.sources = Front(@),
                                         !.sections = Without(@, {Last(brief.sources)}),
                                         !.omitted = @ + 1])
    /\ UNCHANGED <<stage, request, hits, pack, draft>>

\* Mutation: the paths of a document that is dropped stay.
DropCardOnly ==
    LET removed == Last(brief.sources) IN
    /\ stage = "brief" /\ TooLong(brief, BriefBudget)
    /\ removed \in Cards
    /\ brief' = Recomputed([brief EXCEPT !.sources = Without(Front(@), SectionsOf(removed)),
                                         !.documents = Without(@, {removed}),
                                         !.sections = Without(@, SectionsOf(removed)),
                                         !.omitted = @ + 1])
    /\ UNCHANGED <<stage, request, hits, pack, draft>>

\* A document takes its sections and the paths that start at it along.
DropCard ==
    LET removed == Last(brief.sources) IN
    /\ stage = "brief" /\ TooLong(brief, BriefBudget)
    /\ removed \in Cards
    /\ brief' = Recomputed([brief EXCEPT !.sources = Without(Front(@), SectionsOf(removed)),
                                         !.documents = Without(@, {removed}),
                                         !.sections = Without(@, SectionsOf(removed)),
                                         !.paths = {p \in @ : p[1] # removed},
                                         !.omitted = @ + 1])
    /\ UNCHANGED <<stage, request, hits, pack, draft>>

-----------------------------------------------------------------------------
(* Toolbox.create_handoff *)

Of(field, items) == UNION {field[items[n]] : n \in DOMAIN items}

\* Edit points and risks: those of the brief, or the packet's if it has none.
Noted(field) ==
    IF Of(field, brief.documents) # {} THEN Cardinality(Of(field, brief.documents))
    ELSE Cardinality(Of(field, Picked(pack.sources, Papers)))

\* The receipts of the brief, then those of the memories.
Receipts == brief.sources \o Picked(pack.sources, Facts)

BriefReady ==
    /\ stage = "brief" /\ ~TooLong(brief, BriefBudget)
    /\ draft' = [evidence |-> Receipts, points |-> Noted(EditPoints),
                 risks |-> Noted(Risks), removed |-> 0]
    /\ stage' = "draft"
    /\ UNCHANGED <<request, hits, pack, brief>>

DraftTokens(d) ==
    Tokens(DraftFrame + BriefChars(brief) + Digits(brief.estimate)
           + ReceiptSize * Len(d.evidence) + PointSize * (d.points + d.risks))

Drafting == stage = "draft" /\ UNCHANGED <<request, hits, pack, brief>>
DraftTooLong == DraftTokens(draft) > request.budget

\* Mutation: evidence that is dropped is not counted.
DropEvidenceQuietly ==
    /\ Drafting /\ DraftTooLong /\ draft.evidence # <<>>
    /\ draft' = [draft EXCEPT !.evidence = Front(@)]
    /\ UNCHANGED stage

DropEvidence ==
    /\ Drafting /\ DraftTooLong /\ draft.evidence # <<>>
    /\ draft' = [draft EXCEPT !.evidence = Front(@), !.removed = @ + 1]
    /\ UNCHANGED stage

DropPoint ==
    /\ Drafting /\ DraftTooLong /\ draft.evidence = <<>> /\ draft.points > 1
    /\ draft' = [draft EXCEPT !.points = @ - 1]
    /\ UNCHANGED stage

DropRisk ==
    /\ Drafting /\ DraftTooLong /\ draft.evidence = <<>> /\ draft.points <= 1
    /\ draft.risks > 1
    /\ draft' = [draft EXCEPT !.risks = @ - 1]
    /\ UNCHANGED stage

\* ValueError: the budget is too small for the capability and the plan.
Refuse ==
    /\ Drafting /\ DraftTooLong /\ draft.evidence = <<>>
    /\ draft.points <= 1 /\ draft.risks <= 1
    /\ stage' = "refused"
    /\ UNCHANGED draft

InsertDraft ==
    /\ Drafting /\ ~DraftTooLong
    /\ stage' = "drafted"
    /\ UNCHANGED draft

OmittedCandidates == pack.omitted + brief.omitted + draft.removed

NextRequest ==
    /\ stage \in {"drafted", "refused"}
    /\ stage' = "recall"
    /\ request' \in Requests
    /\ hits' = NoHits /\ pack' = NoPack /\ brief' = NoBrief /\ draft' = NoDraft

PacketNext ==
    \/ RankAndSelect \/ DropSource \/ PackReady
    \/ RankCards \/ NothingToBrief \/ DropSection \/ DropCard \/ BriefReady
    \/ DropEvidence \/ DropPoint \/ DropRisk \/ Refuse \/ InsertDraft \/ NextRequest

-----------------------------------------------------------------------------
(* Properties *)

\* Whatever is dropped ranks below what stays: a document that another one
\* beats in every signal never stays without it, a memory or document only
\* stays if all ranked above it stay or exceed their limit, and the finished
\* packet fits its budget as it is sent, estimate included, unless nothing is
\* left of it (context.py: build; documents.py: recall; rrf.py).
PackKeepsRanking ==
    LET kept == Range(pack.sources)
        Rank(i) == IF i \in Facts THEN RankIn(hits.memories, i) ELSE RankIn(hits.documents, i)
        Over(i) == Rank(i) > IF i \in Facts THEN request.memories ELSE request.documents
        found == Range(hits.memories) \union Range(hits.documents)
    IN
    /\ \A p \in hits.better : p[2] \in kept => p[1] \in kept
    /\ \A a \in found, b \in kept :
           Rank(a) < Rank(b) \/ (Rank(a) = Rank(b) /\ a \in Facts) => a \in kept \/ Over(a)
    /\ stage \notin {"recall", "pack"} =>
           /\ pack.estimate = Tokens(PackChars(pack.sources) + Digits(pack.estimate))
           /\ pack.estimate <= request.budget \/ pack.sources = <<>>

\* A brief never shows what it has no receipt for, nor cites what it does not
\* show; no section is there without its document and no path without its root;
\* every candidate is shown or counted as omitted; and the finished brief
\* exceeds its budget by a token at most, which the digits of its own estimate
\* may cost (compiler.py: build, _recompute).
BriefKeepsReceipts ==
    LET shown == Range(brief.documents) \union Range(brief.sections) IN
    /\ shown = Range(brief.sources)
    /\ \A s \in Range(brief.sections) : ParentOf[s] \in shown
    /\ \A p \in brief.paths : p[1] \in shown
    /\ brief.omitted + Len(brief.sources) = brief.candidates
    /\ stage \in {"draft", "drafted", "refused"} /\ brief.sources # <<>> =>
           Tokens(BriefChars(brief) + Digits(brief.estimate)) <= BriefBudget + 1

\* A draft accounts for what was found: each memory, architecture document and
\* section is evidence or counted as omitted, and so is each declared document
\* unless the packet took it (its receipt is in neither); the brief's receipts
\* outlast the memories'; and a draft is refused only when it had nothing left
\* to drop (toolbox.py: create_handoff).
DraftAccounts ==
    LET papers == Picked(pack.sources, Papers) IN
    /\ stage = "drafted" =>
           /\ Len(draft.evidence) + OmittedCandidates + Len(papers)
                  = Cardinality(Facts) + Cardinality(Papers) + brief.candidates
           /\ Range(draft.evidence) \intersect Facts # {} =>
                  Range(brief.sources) \subseteq Range(draft.evidence)
           /\ draft.points = 0 => Noted(EditPoints) = 0
           /\ draft.risks = 0 => Noted(Risks) = 0
    /\ stage = "refused" =>
           DraftTokens([evidence |-> <<>>, points |-> Min({1, Noted(EditPoints)}),
                        risks |-> Min({1, Noted(Risks)}), removed |-> 0]) > request.budget
=============================================================================
