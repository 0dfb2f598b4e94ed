CONSTANTS
    Keys = {k1, k2}
    Providers = {p1}
    Clients = {c1}
    LegacyClients = {l1}
    Kinds = {"refresh", "set"}
    Generations = {g1, g2, g3}
    NoKey = NoKey
    NoProvider = NoProvider
    NoGeneration = NoGeneration
    NoSnapshot = NoSnapshot
    NoOp = NoOp
    TTL = 2
    CooldownTTL = 0
    MaxStall = 2
SPECIFICATION FallbackSpec
INVARIANTS
    OwnerBacksCanonical
PROPERTIES
    ImplementsRegister
    ConflictClears
    OrphanClears
