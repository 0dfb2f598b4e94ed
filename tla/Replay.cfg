CONSTANTS
    r1 = r1
    r2 = r2
    r3 = r3
    a = a
    b = b
    c = c
    Requests = {r1, r2, r3}
    Words = {a, b, c}
    Says <- MCSays
    Lease = 2
    Hot = 3
    Page = 1
    None = None
SPECIFICATION Spec
CHECK_DEADLOCK FALSE
INVARIANTS
    TypeOK
    OneResponse
    Faithful
PROPERTY
    CompletedIsDurable
