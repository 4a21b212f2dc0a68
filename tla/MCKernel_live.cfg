CONSTANTS
    NPROC = 2
    MaxPid = 3
SPECIFICATION FairSpec
PROPERTIES
    WaitReturns
    RunnableRuns
