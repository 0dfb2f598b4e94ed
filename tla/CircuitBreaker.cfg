CONSTANTS
    Instances = {i1, i2}
    Servers = {i1}
    Calls = {c1, c2}
    Thresholds = {0, 2}
    HalfOpenSuccesses = 2
    MaxFailures = 2
    MaxQueue = 1
    MaxSlots = 4
    NoCall = NoCall
    Missing = Missing
SYMMETRY Symmetry
SPECIFICATION Spec
INVARIANTS
    TypeOK
    OpenHasDeadline
    HalfOpenOnProbation
    BoundedFailures
PROPERTIES
    ResetHonoured
