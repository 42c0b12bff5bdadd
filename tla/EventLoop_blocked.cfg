\* One client whose script closes its output and goes on.
SPECIFICATION FairSpec
CONSTANTS
    FdLimit = 9
    Blocks = 1
    Pid = {p1}
    NoPid = NoPid
    NULL = NULL
    MaxClients = 2
    MaxBody = 0
    ResponseLen = 1
    ConnectionTimeout = 0
    CgiTimeout = 0
PROPERTIES
    AlwaysPollsAgain
