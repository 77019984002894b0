SPECIFICATION FairSpec
CONSTANTS
    Rooms = {r1, r2}
    Inviting = {r2}
    Tokens = {t1, t2}
    MaxWire = 2
INVARIANTS
    RequestAnswered
    InRoomIsJoined
    PromptMatches
    AnnouncedWhenReady
PROPERTIES
    RequestFinishes
    PasswordAnswered
CHECK_DEADLOCK FALSE
