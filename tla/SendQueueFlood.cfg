CONSTANTS
    G_MAXINT = 7
    SourceIds <- MCSourceIds
    MaxMsgs = 6
    Pieces = 1
SPECIFICATION Spec
PROPERTY RateLimited
CHECK_DEADLOCK FALSE
