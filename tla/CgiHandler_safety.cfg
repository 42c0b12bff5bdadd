\* A script that reads, prints, closes and exits as it likes, and scripts that
\* read their input to the end.
SPECIFICATION SharedSpec
CONSTANTS
    Kinds <- Mixed
    MaxBody = 3
    PipeCap = 2
    ReadUnits = 2
    CgiTimeout = 1
INVARIANTS
    TypeOK
    AnswerIsComplete
    BodyFedOnce
PROPERTIES
    CompleteAnswer
