CONSTANTS
    G_MAXINT = 7
    SourceIds <- MCSourceIds
    MaxMsgs = 6
    Pieces = 1
SPECIFICATION Spec
INVARIANT HigherPriorityFirst
CHECK_DEADLOCK FALSE
