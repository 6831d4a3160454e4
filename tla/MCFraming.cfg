CONSTANTS
    Size <- MCSize
    Recoded = 3
    MaxStream = 4
    MaxChunk = 3
    MaxBuffer = 4
SPECIFICATION Spec
INVARIANTS TypeOK AnswersExact BuffersExact ErrorsJustified
CHECK_DEADLOCK FALSE
