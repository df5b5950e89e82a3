\* A call cancelled at any moment.
CONSTANTS
    job = job
    daemon = daemon
    Proc = {job}
    Limited = FALSE
    MaxChunk = 1
SPECIFICATION BashSpec
CHECK_DEADLOCK FALSE
INVARIANTS
    CancelKillsTree
