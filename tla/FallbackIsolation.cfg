CONSTANTS
    Keys = {k1, k2}
    Providers = {p1}
    Clients = {c1}
    LegacyClients = {l1, l2}
    Kinds = {"inspect", "refresh", "bind_if_absent", "set", "clear", "terminate"}
    Generations = {g1, g2, g3}
    NoKey = NoKey
    NoProvider = NoProvider
    NoGeneration = NoGeneration
    NoSnapshot = NoSnapshot
    NoOp = NoOp
    TTL = 2
    CooldownTTL = 0
    MaxStall = 0
SYMMETRY Symmetry
SPECIFICATION FallbackSpec
INVARIANTS
    FallbackTypeOK
    TenantIsolation
