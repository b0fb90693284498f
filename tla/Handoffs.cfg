CONSTANTS
    c1 = c1
    c2 = c2
    h1 = h1
    h2 = h2
    h3 = h3
    HandoffIds = {h1, h2, h3}
    NoHandoff = NoHandoff
    CapabilityIds = {"plan"}
    BuiltIn = {"plan"}
    MaxCapability = 2
    Texts = {"asked"}
    Keep = Keep
    Clients = {c1, c2}
    NoClient = NoClient
    Serialised = TRUE
SPECIFICATION Spec
INVARIANTS TypeOK PinsResolve NextVersionFollows
PROPERTY ImplementsLifecycle
SYMMETRY Symmetry
