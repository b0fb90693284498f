CONSTANTS
    c1 = c1
    c2 = c2
    boundary = boundary
    supersede = supersede
    rival = rival
    retire = retire
    blank = blank
    collide = collide
    old = old
    rule = rule
    new1 = new1
    new2 = new2
    new3 = new3
    none = none
    Clients = {c1, c2}
    NoClient = NoClient
    NoProposal = NoProposal
    NoMemory = none
    ProposalIds = {boundary, supersede, rival, retire, blank, collide}
    MemoryIds = {old, rule, new1, new2, new3}
    Serialised = TRUE
    Draft <- MCDraft
    Seed <- MCSeed
SPECIFICATION Spec
INVARIANTS TypeOK EveryMemoryConfirmed AuditMatches AnswersHold SupersededOnce OneBoundary
PROPERTY ImplementsApprovalBoundary
SYMMETRY Symmetry
