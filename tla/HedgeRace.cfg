CONSTANTS
    p1 = p1
    p2 = p2
    p3 = p3
    o = o
    None = None
    Providers = {p1, p2, p3}
    Others = {o}
    Claimants <- AllClaimants
    Initial = p1
    MaxInFlight = 2
    Rectifiable = {p1}
    Plain = {p2}
    Size = 2
    Prefix = 1
    Limit = 3
SPECIFICATION Spec
INVARIANTS
    TypeOK
    HeadServed
    NothingHeld
    WinnerKept
    CostIsSum
PROPERTY
    RaceSettles
