-------------------------- MODULE DeclaredDocuments --------------------------
(***************************************************************************)
(* DeclaredDocumentStore: a tree of Markdown files is ingested into the    *)
(* documents table, file by file, what vanished is deleted, and the dense  *)
(* index follows; recalls read table and index meanwhile.                  *)
(*                                                                         *)
(* A card stands for a file's declared id and text; a file without a card  *)
(* (no frontmatter, or no repository) is skipped.  A declared id may move   *)
(* from a file to another, and the folder itself may be missing.           *)
(***************************************************************************)
EXTENDS VectorIndex, SequencesExt

CONSTANTS
    Files,          \* the paths under the root, in sorted order
    Texts,          \* what a card may say
    CardsOf,        \* the cards each file may hold
    Inactive,       \* the text of a card whose status is inactive
    MaxEdits        \* bound: edits of the tree

ASSUME DocumentAssumption ==
    /\ Files \in Seq(STRING) /\ Nothing \notin Range(Files)
    /\ Texts \subseteq Surfaces /\ MaxEdits \in Nat
    /\ CardsOf \in [Range(Files) -> SUBSET [id : Items, text : Texts]]

Card == [id : Items, text : Texts]
NoCard == [id |-> Nothing, text |-> Nothing]
Document == [source : Range(Files), text : Texts]
Missing == [source |-> Nothing, text |-> Nothing]

VARIABLES
    rooted,         \* the folder exists
    tree,           \* its files: a card, NoCard, or Missing
    documents,      \* documents: source and text of each id
    todo,           \* ingest_tree: the files it has found and not read yet
    read,           \* ingest_tree: the card it has read
    found,          \* ingest_tree: the ids it has ingested (wanted)
    known,          \* recall: the documents it has listed
    taken,          \* recall: the ids of the index it has read
    edits,          \* edits so far
    rounds,         \* history: ingestions completed since the last edit, up to 2,
                    \* from the first one that ran alone
    calm            \* history: no card was put since the recall began

folderVars == <<rooted, tree, edits>>
walkVars == <<documents, todo, read, found, rounds>>
recallVars == <<known, taken, calm>>
documentVars == <<folderVars, walkVars, recallVars>>

DocumentTypeOK ==
    /\ rooted \in BOOLEAN
    /\ tree \in [Range(Files) -> Card \union {NoCard, Missing}]
    /\ ~rooted => tree = [f \in Range(Files) |-> Missing]
    /\ documents \in [Items -> Document \union {Missing}]
    /\ pc \in [Clients -> {"idle", "take", "put", "lexical", "dense", "ids", "vectors"} \union SyncSteps]
    /\ todo \in [Clients -> Seq(Range(Files))]
    /\ read \in [Clients -> Card \union {NoCard}]
    /\ found \in [Clients -> SUBSET Items] /\ known \in [Clients -> SUBSET Items]
    /\ taken \in [Clients -> Seq(Items)]
    /\ edits \in 0..MaxEdits /\ rounds \in 0..2 /\ calm \in [Clients -> BOOLEAN]

\* What somebody may leave in a file.
Contents(f) == {NoCard, Missing} \union CardsOf[f]

DocumentInit ==
    /\ rooted \in BOOLEAN
    /\ tree \in [Range(Files) -> UNION {Contents(f) : f \in Range(Files)}]
    /\ \A f \in Range(Files) : tree[f] \in IF rooted THEN Contents(f) ELSE {Missing}
    /\ documents = [i \in Items |-> Missing]
    /\ todo = [c \in Clients |-> <<>>]
    /\ read = [c \in Clients |-> NoCard]
    /\ found = [c \in Clients |-> {}]
    /\ known = [c \in Clients |-> {}]
    /\ taken = [c \in Clients |-> <<>>]
    /\ edits = 0 /\ rounds = 0
    /\ calm = [c \in Clients |-> TRUE]

Existing == {i \in Items : documents[i] # Missing}
Active == {i \in Existing : documents[i].text # Inactive}
ListedDocuments == [i \in Items |-> IF i \in Active THEN documents[i].text ELSE Nothing]

-----------------------------------------------------------------------------
(* The environment: somebody edits, adds, renames or removes a file, or     *)
(* removes the folder.                                                     *)

Edit ==
    /\ edits < MaxEdits
    /\ \/ \E f \in Range(Files) : \E content \in Contents(f) :
            /\ tree' = [tree EXCEPT ![f] = content]
            /\ rooted' = (rooted \/ content # Missing)
       \/ \E f, g \in Range(Files) :
            /\ f # g /\ tree[f] \in Contents(g) \ {Missing}
            /\ tree' = [tree EXCEPT ![f] = Missing, ![g] = tree[f]]
            /\ UNCHANGED rooted
       \/ /\ rooted /\ rooted' = FALSE
          /\ tree' = [f \in Range(Files) |-> Missing]
    /\ edits' = edits + 1
    /\ rounds' = 0 /\ alone' = Nobody
    /\ UNCHANGED <<embeddings, ids, vectors, degraded, server, pc, wanted, cached, seen,
                   documents, todo, read, found, recallVars>>

-----------------------------------------------------------------------------
(* ingest_tree *)

Present == Picked(Files, {f \in Range(Files) : tree[f] # Missing})

\* Without the folder ingest_tree returns at once: nothing is scanned, deleted
\* or synced.
Scan(c) ==
    /\ rooted
    /\ todo' = [todo EXCEPT ![c] = Present]
    /\ found' = [found EXCEPT ![c] = {}]
    /\ Goto(c, "take")
    /\ UNCHANGED <<folderVars, documents, read, rounds, recallVars>>

\* A workspace that is loaded reads the index back and ingests the tree.
LoadDocuments(c) ==
    /\ Load(c, Items)
    /\ degraded' = FALSE
    /\ \/ Scan(c) /\ server' = c /\ alone' = c
       \/ ~rooted /\ server' = "up" /\ UNCHANGED <<pc, alone, documentVars>>
    /\ UNCHANGED <<embeddings, wanted, cached, seen>>

\* POST /index/sync.
Ingest(c) ==
    /\ Serving(c)
    /\ Scan(c)
    /\ Begins(c)
    /\ UNCHANGED <<embeddings, ids, vectors, degraded, server, wanted, cached, seen>>

Aborts(c) ==
    /\ Dies(c)
    /\ todo' = [todo EXCEPT ![c] = <<>>]
    /\ read' = [read EXCEPT ![c] = NoCard]
    /\ found' = [found EXCEPT ![c] = {}]
    /\ UNCHANGED <<folderVars, documents, rounds, recallVars>>

\* read_text of the next file: one removed since the walk raises.
TakeFile(c) ==
    /\ pc[c] = "take" /\ todo[c] # <<>>
    /\ LET card == tree[Head(todo[c])] IN
        \/ card = Missing /\ Aborts(c)
        \/ /\ card = NoCard
           /\ todo' = [todo EXCEPT ![c] = Tail(@)]
           /\ UNCHANGED <<indexVars, folderVars, documents, read, found, rounds, recallVars>>
        \/ /\ card \notin {Missing, NoCard}
           /\ read' = [read EXCEPT ![c] = card]
           /\ Goto(c, "put")
           /\ UNCHANGED <<embeddings, ids, vectors, degraded, server, wanted, cached, seen,
                          alone, folderVars, documents, todo, found, rounds, recallVars>>

\* The row a card is written to: the one of its source, which keeps its id,
\* or a new one.
RowsOf(source) == {i \in Existing : documents[i].source = source}
Target(c) == IF RowsOf(Head(todo[c])) # {} THEN RowsOf(Head(todo[c])) ELSE {read[c].id}

\* ingest_text's transaction.  It returns the declared id, whichever row it
\* has written.  An id whose row is another file's raises: renaming a card
\* ends every ingestion here, before the prune that would delete the old row.
PutCard(c) ==
    /\ pc[c] = "put"
    /\ \/ /\ \E i \in Target(c) :
              /\ documents[i].source \in {Nothing, Head(todo[c])}
              /\ documents' = [documents EXCEPT
                                   ![i] = [source |-> Head(todo[c]), text |-> read[c].text]]
          /\ found' = [found EXCEPT ![c] = @ \union {read[c].id}]
          /\ todo' = [todo EXCEPT ![c] = Tail(@)]
          /\ read' = [read EXCEPT ![c] = NoCard]
          /\ calm' = [d \in Clients |-> pc[d] # "lexical"]
          /\ Goto(c, "take")
          /\ UNCHANGED <<embeddings, ids, vectors, degraded, server, wanted, cached, seen,
                         alone, folderVars, rounds, known, taken>>
       \/ /\ \A i \in Target(c) : documents[i].source \notin {Nothing, Head(todo[c])}
          /\ Aborts(c)

\* The rows not kept are deleted, their embeddings with them.
Delete(kept) ==
    /\ documents' = [i \in Items |-> IF i \in kept THEN documents[i] ELSE Missing]
    /\ embeddings' = [i \in Items |-> IF i \in Existing \ kept THEN Nothing ELSE embeddings[i]]

EndsWalk(c) ==
    /\ pc[c] = "take" /\ todo[c] = <<>>
    /\ found' = [found EXCEPT ![c] = {}]
    /\ rounds' = IF rounds = 0 /\ alone # c THEN 0 ELSE IF rounds = 2 THEN 2 ELSE rounds + 1
    /\ Goto(c, "list")
    /\ UNCHANGED <<ids, vectors, degraded, server, wanted, cached, seen, alone,
                   folderVars, todo, read, recallVars>>

\* Mutation: only documents whose file is gone are deleted.
PruneGone(c) == Delete({i \in Existing : tree[documents[i].source] # Missing}) /\ EndsWalk(c)

\* Documents the walk has not ingested are deleted.
Prune(c) == Delete(found[c]) /\ EndsWalk(c)

\* Two attributes hold the index: the ids are stored ...
AssignIds(c) ==
    /\ pc[c] = "assign"
    /\ ids' = IdsOf(seen[c])
    /\ Goto(c, "complete")
    /\ UNCHANGED <<embeddings, vectors, degraded, server, wanted, cached, seen, alone>>

\* ... and then the vectors.
CompleteIndex(c) ==
    /\ pc[c] = "complete"
    /\ vectors' = VectorsOf(seen[c])
    /\ Returns(c)
    /\ UNCHANGED <<embeddings, ids, degraded, alone>>

SyncDocuments(c) ==
    /\ \/ SyncList(c, ListedDocuments)
       \/ SyncCached(c)
       \/ SyncWrite(c, Existing)
       \/ SyncRead(c, Items)
       \/ AssignIds(c) \/ CompleteIndex(c)
       \/ Abandon(c)
    /\ UNCHANGED documentVars

-----------------------------------------------------------------------------
(* recall *)

AnswersFrom(c, documentIds) ==
    /\ Serving(c)
    /\ known' = [known EXCEPT ![c] = documentIds]
    /\ Goto(c, "lexical")
    /\ UNCHANGED <<embeddings, ids, vectors, degraded, server, wanted, cached, seen, alone,
                   folderVars, walkVars, taken, calm>>

\* Mutation: the index is taken for the list of documents.
RecallIndexed(c) == AnswersFrom(c, Range(ids))

RecallDocuments(c) == AnswersFrom(c, Active)

Ends(c) ==
    /\ Goto(c, "idle")
    /\ known' = [known EXCEPT ![c] = {}]
    /\ taken' = [taken EXCEPT ![c] = <<>>]
    /\ calm' = [calm EXCEPT ![c] = TRUE]

\* The full-text query runs on a connection of its own; by_id knows only what
\* was listed before, and a hit it does not know raises.
Lexical(c) ==
    /\ pc[c] = "lexical"
    /\ \/ Goto(c, "dense") /\ UNCHANGED recallVars
       \/ ~(Active \subseteq known[c]) /\ Ends(c)
    /\ UNCHANGED <<embeddings, ids, vectors, degraded, server, wanted, cached, seen, alone,
                   folderVars, walkVars>>

\* An empty index answers at once; the provider, which is asked otherwise, may
\* fail.
Dense(c) ==
    /\ pc[c] = "dense"
    /\ IF ids = <<>> THEN Ends(c) /\ UNCHANGED degraded
       ELSE \/ Goto(c, "ids") /\ UNCHANGED <<degraded, recallVars>>
            \/ Ends(c) /\ degraded' = TRUE
    /\ UNCHANGED <<embeddings, ids, vectors, server, wanted, cached, seen, alone,
                   folderVars, walkVars>>

\* _dense reads self.ids ...
TakeIds(c) ==
    /\ pc[c] = "ids"
    /\ taken' = [taken EXCEPT ![c] = ids]
    /\ Goto(c, "vectors")
    /\ UNCHANGED <<embeddings, ids, vectors, degraded, server, wanted, cached, seen, alone,
                   folderVars, walkVars, known, calm>>

\* ... and then self.vectors; zip is strict.  Hits that were not listed are
\* left out.
PairVectors(c) ==
    /\ pc[c] = "vectors"
    /\ degraded' = (degraded \/ Len(taken[c]) # Len(vectors))
    /\ Ends(c)
    /\ UNCHANGED <<embeddings, ids, vectors, server, wanted, cached, seen, alone,
                   folderVars, walkVars>>

StopDocuments ==
    /\ Stop
    /\ todo' = [c \in Clients |-> <<>>]
    /\ read' = [c \in Clients |-> NoCard]
    /\ found' = [c \in Clients |-> {}]
    /\ known' = [c \in Clients |-> {}]
    /\ taken' = [c \in Clients |-> <<>>]
    /\ calm' = [c \in Clients |-> TRUE]
    /\ UNCHANGED <<folderVars, documents, rounds>>

DocumentNext ==
    \/ \E c \in Clients :
        \/ LoadDocuments(c) \/ Ingest(c) \/ TakeFile(c) \/ PutCard(c) \/ Prune(c)
        \/ SyncDocuments(c)
        \/ RecallDocuments(c) \/ Lexical(c) \/ Dense(c) \/ TakeIds(c) \/ PairVectors(c)
    \/ Edit \/ StopDocuments

-----------------------------------------------------------------------------
(* Properties *)

Declaring == {f \in Range(Files) : tree[f] \notin {Missing, NoCard}}

\* From the first ingestion that completes alone after an edit, a row is kept
\* only if some card declares its id, and says what its own card does; from the
\* next that completes, however others overlap it, the files that have a row
\* are those that have a card.  (A card whose declared id has changed loses its
\* row to the first one, and an id that has moved keeps the row of a file that
\* is gone.  Without the folder, and where an id has moved to a file without a
\* row, none completes.)
TreeMirrored ==
    /\ rounds >= 1 => \A i \in Existing :
           /\ \E f \in Declaring : tree[f].id = i
           /\ documents[i].source \in Declaring => documents[i].text = tree[documents[i].source].text
    /\ rounds = 2 => {documents[i].source : i \in Existing} = Declaring

\* An ingestion that ends without a failure, and that no other ingestion and
\* no edit has overlapped, leaves the dense index equal to the active
\* documents, whatever batches were rolled back and whatever stores of ids and
\* vectors were mixed before.
IngestIndexes(c) ==
    pc[c] = "complete" /\ pc'[c] = "idle" /\ server' # "down" /\ alone = c =>
        /\ ids' = InOrder(Active)
        /\ vectors' = [n \in DOMAIN ids' |-> <<ids'[n], documents[ids'[n]].text>>]

\* A recall fails only when a card was put since it listed the documents:
\* deletions and syncs do not make it fail.
LoneRecallAnswers ==
    \A c \in Clients : pc[c] = "lexical" /\ calm[c] => Active \subseteq known[c]
=============================================================================
