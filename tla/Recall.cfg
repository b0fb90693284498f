CONSTANTS
    c1 = c1
    c2 = c2
    Items = {1, 2, 3}
    Order <- MCOrder
    Surfaces = {"active", "superseded", "v1", "inactive"}
    Nothing = Nothing
    Nobody = Nobody
    Clients = {c1, c2}
    Seeded = {1}
    Files <- MCFiles
    CardsOf <- MCCardsOf
    Texts = {"v1", "inactive"}
    Inactive = "inactive"
    MaxEdits = 1
    Loaders = {c1, c2}
    Seeds = {"s1", "s2"}
    Builtins <- MCBuiltins
    Facts = {"m1", "m2"}
    Papers = {"d1", "d2", "d3"}
    Profiles <- MCProfiles
    MaxRank = 3
    Unit = 238266
    Cards = {"x", "y", "z"}
    Sections = {"x1", "x2", "y1"}
    ParentOf <- MCParentOf
    Targets <- MCTargets
    Unresolved <- MCUnresolved
    EditPoints <- MCEditPoints
    Risks <- MCRisks
    Requests <- MCRequests
    Size <- MCSize
    ReceiptSize = 500
    PathSize = 60
    PointSize = 150
    PackFrame = 1000
    BriefFrame = 1226
    DraftFrame = 600
    Followed = {"memories", "documents", "packets", "load"}
SPECIFICATION Spec
INVARIANTS TypeOK TreeMirrored LoneRecallAnswers PackKeepsRanking BriefKeepsReceipts DraftAccounts SeedsWhole LoneLoadSeedsOnce
PROPERTIES LoneSyncHeals LoneIngestIndexes
SYMMETRY Symmetry
