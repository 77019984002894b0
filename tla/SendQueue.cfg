CONSTANTS
    G_MAXINT = 7
    SourceIds <- MCSourceIds
    MaxMsgs = 5
    Pieces = 2
SPECIFICATION FairSpec
INVARIANTS
    SamePriorityFifo
    BufferBelongsToTheWrite
    NeverWedged
    TimersEndWithTheLink
PROPERTIES
    EveryMessageLeaves
    CheckedRateLimited
CHECK_DEADLOCK FALSE
