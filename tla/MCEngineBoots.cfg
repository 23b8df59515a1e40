SPECIFICATION Spec
CONSTANTS
    NumClients = 3
INVARIANTS
    BootsGrow
CHECK_DEADLOCK FALSE
