CONSTANTS
    NPROC = 3
    MaxQuants = 4
SPECIFICATION Spec
CHECK_DEADLOCK FALSE
INVARIANTS
    BoundedBypass
