CONSTANTS
    c1 = c1
    c2 = c2
    RepoIds = {"engine", "tools"}
    Names = {"app", "core"}
    Aliases <- MCAliases
    Rank <- MCRank
    Corpora = {"complete", "doubled", "foreign"}
    Documents <- MCDocuments
    CardIds = {"map", "rules"}
    Sources = {"a.md", "b.md", "c.md"}
    NoCard = NoCard
    Anyone = Anyone
    Nobody = Nobody
    Clients = {c1, c2}
SPECIFICATION Spec
INVARIANTS TypeOK EdgesOfAccepted BriefOfAccepted
PROPERTY ImplementsLedger
SYMMETRY Symmetry
