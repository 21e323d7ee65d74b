SPECIFICATION Spec
CONSTANTS
    Handle = {h1}
    MaxRecord = 3
INVARIANTS
    TypeOK
    AckedSurvive
    NeverDamaged
    ReadersAgree
PROPERTY
    IsDurableLog
