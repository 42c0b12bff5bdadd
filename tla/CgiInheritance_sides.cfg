\* Three clients and two scripts that run side by side, started and ended in every
\* order.
SPECIFICATION FairSpec
CONSTANTS
    Client = {c1, c2, c3}
    Server = Server
    MaxBody = 1
    MaxForks = 2
    CgiTimeout = 0
INVARIANTS
    TypeOK
    InputHeldByLater
    OutputEndsWithScript
    EmptyInputEnds
PROPERTIES
    EndsAreSeen
