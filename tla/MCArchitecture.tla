--------------------------- MODULE MCArchitecture ---------------------------
(***************************************************************************)
(* Small instances of ArchitectureSnapshots.  Two repositories, whose      *)
(* alias lists may repeat the id of the other, and corpora that resolve,   *)
(* that refer to a card nobody declares, that declare a card twice and     *)
(* that belong to one of the names only.                                   *)
(***************************************************************************)
EXTENDS ArchitectureSnapshots, TLC

CONSTANTS c1, c2

MCRank == ("app" :> 1) @@ ("core" :> 2) @@ ("engine" :> 3) @@ ("tools" :> 4)

MCAliases == {{}, {"engine"}}

Doc(source, card, owner, depends, relates) ==
    [source |-> source, card |-> card, owner |-> owner, sound |-> TRUE,
     depends |-> depends, relates |-> relates]

AllDocuments ==
    ("complete" :> <<Doc("a.md", "map", Anyone, {"rules"}, {"rules"}),
                     Doc("b.md", "rules", Anyone, {}, {"map"})>>) @@
    ("dangling" :> <<Doc("a.md", "map", Anyone, {"map"}, {"rules"}),
                     Doc("c.md", NoCard, Anyone, {}, {})>>) @@
    ("doubled" :> <<Doc("a.md", "map", Anyone, {"rules"}, {}),
                    Doc("b.md", "rules", Anyone, {}, {}),
                    Doc("c.md", "rules", Anyone, {}, {})>>) @@
    ("foreign" :> <<Doc("a.md", "map", "core", {"map"}, {"rules"})>>)

MCDocuments == [k \in Corpora |-> AllDocuments[k]]

Symmetry == Permutations(Clients)
=============================================================================
