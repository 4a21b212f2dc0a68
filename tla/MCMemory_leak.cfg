CONSTANTS
    NPROC = 2
    NFRAMES = 24
    MaxImg = 1
SPECIFICATION Spec
INVARIANTS
    NoPageGetsLost
