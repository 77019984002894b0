CONSTANTS
    MaxCerts = 2
    Contacts = {c1, c2}
    Self = self
    MaxTexts = 2
    Rooms = {r1, r2}
    MaxLists = 3
    MaxListChannels = 2
SPECIFICATION ConnSpec
INVARIANT QuittingHandlesNothing
CHECK_DEADLOCK FALSE
