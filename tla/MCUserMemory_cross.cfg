CONSTANTS
    PAGESIZE = 12
    WordSize = 2
    ALIGN = 4
    Images = {12, 17}
    MaxArgs = 2
    MaxLen = 5
    MaxOps = 1
    CrossPages = TRUE
    Layouts <- MCLayouts
SPECIFICATION Spec
INVARIANTS
    ReadsComeFromTheUser
CHECK_DEADLOCK FALSE
