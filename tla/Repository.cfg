SPECIFICATION Spec
CONSTANTS
    Fields = {a, b, x}
    Allowed = {a, b}
    Values = {1, 2}
    NoRow = NoRow
    Failed = Failed
    Attempts = 3
    MaxChanges = 2
INVARIANTS
    AnswerIsTrue
    SelectsWhatIsAsked
CHECK_DEADLOCK FALSE
