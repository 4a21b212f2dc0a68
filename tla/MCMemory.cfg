CONSTANTS
    NPROC = 2
    NFRAMES = 20
    MaxImg = 2
SPECIFICATION Spec
INVARIANTS
    TypeOK
    FramesAreExclusive
    OnlyTablesGetLost
    TrapframeIsMapped
    UserLayout
    DropsAreClean
