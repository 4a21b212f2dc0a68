CONSTANTS
    NPROC = 2
    UART = 0
    KERNEL_START = 2
    ETEXT = 4
    EKERNEL = 5
    RAMEND = 14
    VIRT_END = 24
SPECIFICATION Spec
INVARIANTS
    StacksAreGuarded
    HeapIsIdentityMapped
    TextIsReadOnly
CHECK_DEADLOCK FALSE
