SPECIFICATION RoomSpec
CONSTANTS
    Modes = {"o", "v", "i", "t", "k", "l", "p", "s"}
    Groups = {{"o", "i", "t"}, {"o", "k", "l"}, {"o", "p", "s"}, {"o", "v"}}
    Limits = {1}
    MaxWire = 2
    MaxPairs = 1
    MaxUpdated = 1
    Contacts = {me, you, them}
    Me = me
    MaxComing = 2
    MaxCommands = 2
    Texts = {"one", "two"}
    Actors = {1, 2}
    Stamps = {1, 2}
    MaxTopics = 2
INVARIANTS
    FlagsFollow
    MayAsModes
    ConfigMirrors
    MembersMirror
    SubjectFollows
