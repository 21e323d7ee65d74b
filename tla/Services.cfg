SPECIFICATION Spec
CONSTANTS
    a = a
    b = b
    c = c
    d1 = d1
    d2 = d2
    d3 = d3
    f1 = f1
    f2 = f2
    p1 = p1
    p2 = p2
    t1 = t1
    t2 = t2
    NONE = NONE
    BUILTIN = BUILTIN
    Unset = Unset
SYMMETRY Symmetry
INVARIANTS
    CredentialsSafe
    PackagesSafe
    GoalSafe
    HelpersSafe
    ExtensionsSafe
    MonitorSafe
    StreamsSafe
    UpdatesSafe
    ToolsSafe
    TerminalSafe
    HerdrSafe
PROPERTY ReturnsConsistent
CHECK_DEADLOCK FALSE
