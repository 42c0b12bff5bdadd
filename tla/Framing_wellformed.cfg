\* Well-formed requests, cut by TCP in every way.
SPECIFICATION FairSpec
CONSTANTS
    Requests <- WellFormedRequests
    ReadLimit = 3
    Limit = 3
    Size <- Sizes
INVARIANTS
    TypeOK
    WindowSuffices
    BodyIsIntended
    LimitEnforced
PROPERTIES
    EndIsSeen
