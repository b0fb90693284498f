CONSTANTS
    c1 = c1
    c2 = c2
    boundary = boundary
    supersede = supersede
    rival = rival
    retire = retire
    blank = blank
    collide = collide
    old = old
    rule = rule
    new1 = new1
    new2 = new2
    new3 = new3
    none = none
    Clients = {c1, c2}
    NoClient = NoClient
    NoProposal = NoProposal
    NoMemory = none
    ProposalIds = {rival}
    MemoryIds = {old, rule, new1, new2, new3}
    Serialised = FALSE
    Draft <- MCDraft
    Seed <- MCSeed
SPECIFICATION Spec
INVARIANT ConfirmationIdempotent
SYMMETRY Symmetry
