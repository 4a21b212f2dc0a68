CONSTANTS
    WORD = 32
    PERIOD = 5
    MaxDelay = 3
    MaxStep = 1
    MaxTime = 26
SPECIFICATION Spec
PROPERTIES
    TimerNotEarly
    TimerNotLate
    InstructionsInBetween
