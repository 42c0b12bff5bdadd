\* Chunked requests, those whose data spells the end mark among them.
SPECIFICATION Spec
CONSTANTS
    Requests <- AllChunked
    ReadLimit = 3
    Limit = 4
    Size <- Sizes
INVARIANTS
    EndMeansTerminator
