SPECIFICATION Spec
CONSTANTS
    Handle = {h1, h2}
    MaxRecord = 2
PROPERTY
    RollbackKeepsDurable
