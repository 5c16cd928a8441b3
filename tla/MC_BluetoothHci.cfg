\* Three stack processes: the first, a restart, and a restart of that.
CONSTANTS
    NClients = 3
INIT Init
NEXT Next
INVARIANTS NoOrphanSocket
\* Once every stack process is gone the HAL really has nothing left to do.
CHECK_DEADLOCK FALSE
