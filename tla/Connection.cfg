CONSTANTS
    MaxCerts = 2
    Contacts = {c1, c2}
    Self = self
    MaxTexts = 2
    Rooms = {r1, r2}
    MaxLists = 3
    MaxListChannels = 2
SPECIFICATION ConnFairSpec
INVARIANTS
    LifeIsOverWhenFinished
    VerdictIsTheClients
    NoChannelOutlives
    TakenOnce
    HandlersInOrder
    NothingUnreadLost
    ChatsAsTold
    ListingComplete
PROPERTIES
    StatusSpec
    DisconnectReturns
    DeadServerNoticed
    GivenUpAttemptEnds
CHECK_DEADLOCK FALSE
