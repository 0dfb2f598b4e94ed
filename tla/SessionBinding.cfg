CONSTANTS
    Keys = {k1, k2}
    Providers = {p1, p2}
    Clients = {c1, c2, c3}
    Generations = {g1, g2, g3, g4, g5, g6}
    NoKey = NoKey
    NoProvider = NoProvider
    NoGeneration = NoGeneration
    NoSnapshot = NoSnapshot
    TTL = 2
    CooldownTTL = 1
SYMMETRY Symmetry
SPECIFICATION Spec
INVARIANTS
    TypeOK
    GenerationIdentifiesBinding
    MirrorsAgree
