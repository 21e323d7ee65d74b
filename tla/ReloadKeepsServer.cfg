SPECIFICATION Spec
CONSTANTS
    k1 = k1
    t1 = t1
    t2 = t2
    f1 = f1
    f2 = f2
    c1 = c1
    Tool = {t1, t2}
    Command = {k1}
    Remote = {t2}
    Direct = {}
    LoadOrder <- MCOrder
    Call = {c1}
    Policy <- MCPolicy
    Batch <- MCBatch
    MaxReloads = 1
    NONE = NONE
    BUILTIN = BUILTIN
INVARIANT ReloadKeepsServer
