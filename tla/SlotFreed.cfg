CONSTANTS
    Sessions = {s1, s2}
    Attempts = {a1, a2}
    Sweepers = {w1}
    Limit = 1
    MaxRefs = 2
    None = None
SPECIFICATION Spec
PROPERTIES
    SlotFreedAtOnce
