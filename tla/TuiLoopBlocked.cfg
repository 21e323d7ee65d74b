SPECIFICATION Spec
CONSTANTS
    Wake = {w1, w2}
    Guarded = {}
    Typed = {t1}
    BufferSize = 2
    MaxSessions = 1
    MaxCommands = 0
    MaxDeltas = 2
    MaxFailures = 0
INVARIANT LoopResponds
