CONSTANTS
    NPROC = 2
    NPC = 2
SPECIFICATION Spec
INVARIANTS
    UserContextRestored
    TrapVectorFits
    HandlersAccept
    CurrentOwnsStack
PROPERTIES
    InterruptIsTransparent
