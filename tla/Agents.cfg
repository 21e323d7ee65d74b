SPECIFICATION Spec
CONSTANTS
    a = a
    b = b
    c1 = c1
    d1 = d1
    d2 = d2
    m1 = m1
    Unset = Unset
SYMMETRY Symmetry
INVARIANTS
    LoopSafe
    QueueSafe
    RpcSafe
    PluginSafe
    SubagentSafe
    McpSafe
    ClaudeSafe
PROPERTIES
    ToolsRunOnce
    RpcOrder
