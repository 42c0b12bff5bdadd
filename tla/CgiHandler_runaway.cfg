\* A script that closes its output and then reads its input.
SPECIFICATION FairSpec
CONSTANTS
    Kinds = {"closer"}
    MaxBody = 3
    PipeCap = 2
    ReadUnits = 2
    CgiTimeout = 1
PROPERTIES
    RunawayIsClosed
CHECK_DEADLOCK FALSE
