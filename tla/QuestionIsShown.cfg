SPECIFICATION Spec
CONSTANTS
    Call = {}
    Question = {q1}
    NONE = NONE
    MaxPrompts = 1
    MaxTurns = 1
    MaxDeltas = 1
    MaxNotices = 0
    MaxKeys = 1
INVARIANT QuestionIsShown
CHECK_DEADLOCK FALSE
