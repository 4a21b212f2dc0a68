CONSTANTS
    PAGESIZE = 12
    WordSize = 2
    ALIGN = 4
    Images = {12, 17}
    MaxArgs = 2
    MaxLen = 5
    MaxOps = 1
    CrossPages = FALSE
    Layouts <- MCLayouts
SPECIFICATION Spec
INVARIANTS
    WritesReachTheUser
    ReadsComeFromTheUser
    ImageIsLoaded
    ArgumentsArrive
CHECK_DEADLOCK FALSE
