\* A script that stops reading its input while it still works.
SPECIFICATION Spec
CONSTANTS
    Kinds = {"any"}
    MaxBody = 3
    PipeCap = 2
    ReadUnits = 2
    CgiTimeout = 1
INVARIANTS
    FailedMeansKilled
