CONSTANTS
    Entries = 4
    NFRAMES = 5
    VStart <- Ranges
SPECIFICATION Spec
INVARIANTS
    WalkaddrAgrees
    TablesArePrivate
PROPERTIES
    ImplementsAddressSpace
CHECK_DEADLOCK FALSE
