\* Two listeners, two clients and two scripts, with the clock running and scripts
\* that exit once they have closed their output.
SPECIFICATION ExitingSpec
CONSTANTS
    FdLimit = 12
    Blocks = 2
    Pid = {p1, p2}
    NoPid = NoPid
    NULL = NULL
    MaxClients = 2
    MaxBody = 0
    ResponseLen = 2
    ConnectionTimeout = 1
    CgiTimeout = 0
PROPERTIES
    EveryClientReleased
    SigintHonoured
    AlwaysPollsAgain
INVARIANTS
    ChildOwnership
    IdleWithinStall
    CleanShutdown
