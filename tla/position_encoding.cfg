SPECIFICATION DocumentSpec
CONSTANTS
    Lines <- MCLines
    MaxRunes = 3
    MaxColumn = 13
INVARIANTS
    NoUnderflow
    RoundsDown
    HitsSameToken
    LinesAreTheText
    CompletionReadsToCursor
CHECK_DEADLOCK FALSE
