\* Files of up to eleven tokens, one of which may be anything.  SizeRange is so small that
\* 8080 does not fit and 2k wraps.
SPECIFICATION Spec
CONSTANTS
    DefaultPort = 8080
    DefaultRoot = "./www"
    DefaultIndex = "index.html"
    DefaultLimit = 1048576
    DefaultPath = "/"
    Empty = ""
    Token <- Tokens
    Word <- Words
    Digits <- Numbers
    Unit <- Units
    SizeRange = 2000
    MaxTokens = 11
    MaxSlips = 1
INVARIANTS
    TypeOK
    AcceptedAsWritten
    OnlyLocationOverruns
PROPERTIES
    RefusedWithReason
