\* Three clients on so few descriptors that a number serves in turn as a client
\* and as a pipe of another client's script, and start() fails half way.
SPECIFICATION Spec
CONSTANTS
    FdLimit = 9
    Blocks = 1
    Pid = {p1}
    NoPid = NoPid
    NULL = NULL
    MaxClients = 3
    MaxBody = 1
    ResponseLen = 2
    ConnectionTimeout = 0
    CgiTimeout = 0
INVARIANTS
    TypeOK
    FdOwnership
    NeverStranded
    SingleAnswer
    EventsReachTheirOwner
PROPERTIES
    ImplementsExchange
    AnswerIsFinal
