CONSTANTS
    Keys = {k1}
    Providers = {p1}
    Clients = {c1}
    LegacyClients = {l1, l2}
    Kinds = {"set", "clear"}
    Generations = {g1, g2, g3}
    NoKey = NoKey
    NoProvider = NoProvider
    NoGeneration = NoGeneration
    NoSnapshot = NoSnapshot
    NoOp = NoOp
    TTL = 1
    CooldownTTL = 0
    MaxStall = 0
SPECIFICATION FallbackSpec
PROPERTIES
    RollbackSparesVersionedMirror
