CONSTANTS
    Rows = {r1, r2}
    Outcomes = {o1, o2}
    MaxVersion = 3
    MaxTrace = 0
    BatchSize = 2
    MaxPending = 2
    None = None
SYMMETRY Symmetry
SPECIFICATION Spec
INVARIANTS
    AckHonest
    NoLostFlush
CHECK_DEADLOCK FALSE
