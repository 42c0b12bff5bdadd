\* The files of a small site, and every way through the Router, while another
\* process changes any file at any moment.
SPECIFICATION LiveSpec
CONSTANTS
    DefaultPort = 8080
    DefaultRoot <- Www
    DefaultIndex <- IndexPage
    DefaultLimit = 2
    DefaultPath <- RootPath
    Empty <- EmptyText
    Uploaded <- UploadName_
    config <- Config_
    Dirs <- Directories
    File <- Files
    Content <- Contents
    Request <- Requests
    Printed <- Outputs
INVARIANTS
    TypeOK
    LimitOfItsRoute
    ClimbingIsRefused
    ClimbIsBounded
    UploadIsIntended
    LengthIsTrue
PROPERTIES
    ImplementsSite
    EveryRequestAnswered
