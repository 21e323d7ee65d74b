SPECIFICATION Spec
CONSTANTS
    p1 = p1
    p2 = p2
    s1 = s1
    s2 = s2
    s3 = s3
    Process = {p1, p2}
    Session = {s1, s2, s3}
    Opens <- MCOpens
    Connection = {c1, c2}
    None = None
    MaxOps = 2
    MaxTrouble = 2
SYMMETRY MCSymmetry
INVARIANTS
    HandledOnce
    OneReply
    MemoryIsStored
    WaitsForDelivery
