CONSTANTS
    WORD = 32
    PERIOD = 5
    MaxDelay = 3
    MaxStep = 1
    MaxTime = 70
SPECIFICATION LiveSpec
PROPERTIES
    TimerNotEarly
CHECK_DEADLOCK FALSE
