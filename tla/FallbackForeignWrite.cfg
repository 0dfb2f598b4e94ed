CONSTANTS
    Keys = {k1, k2}
    Providers = {p1}
    Clients = {c1}
    LegacyClients = {l1}
    Kinds = {"set"}
    Generations = {g1, g2, g3}
    NoKey = NoKey
    NoProvider = NoProvider
    NoGeneration = NoGeneration
    NoSnapshot = NoSnapshot
    NoOp = NoOp
    TTL = 2
    CooldownTTL = 0
    MaxStall = 1
SPECIFICATION FallbackSpec
PROPERTIES
    LegacyWritesOwnSession
