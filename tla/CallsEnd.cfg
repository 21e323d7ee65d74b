SPECIFICATION FairSpec
CONSTANTS
    a = a
    b = b
    c1 = c1
    t1 = t1
    t2 = t2
    f1 = f1
    Unset = Unset
    BUILTIN = BUILTIN
PROPERTIES
    CancellationEnds
    SubagentEnds
    McpEnds
    MonitorEnds
    ExtensionsEnd
    ClaudeEnds
