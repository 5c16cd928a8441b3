CONSTANTS
    ByteVals = {1, 4, 6, 50, 51, 53, 54, 255}
    MaxBody = 6
    Stale = 7
INIT ScanInit
NEXT ScanNext
\* A state is a received option area; the longest ones end the exploration.
CHECK_DEADLOCK FALSE
INVARIANTS
    ConfigureMatchesReference
    GetOptionMatchesReference
