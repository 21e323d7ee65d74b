SPECIFICATION Spec
CONSTANTS
    Process = {p1, p2}
    Base = {a}
    Overlap = TRUE
    MaxOps = 3
    MaxFailures = 0
    MaxCrashes = 1
    MaxChanges = 0
INVARIANT MutualExclusion
