\* Clients that send more than they announced, or announce nothing.
SPECIFICATION Spec
CONSTANTS
    Requests <- Unannounced
    ReadLimit = 3
    Limit = 2
    Size <- Sizes
INVARIANTS
    NothingOverLimit
