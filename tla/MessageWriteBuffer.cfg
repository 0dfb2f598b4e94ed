CONSTANTS
    Rows = {r1}
    Outcomes = {o1, o2}
    MaxVersion = 2
    MaxTrace = 1
    BatchSize = 1
    MaxPending = 1
    None = None
SPECIFICATION Spec
INVARIANTS
    TypeOK
    AckHonest
    TraceIsolated
    NothingStranded
    QueueBounded
PROPERTIES
    FirstOutcomeStands
    NewerWins
    CleanStop
    StopTerminates
CHECK_DEADLOCK FALSE
