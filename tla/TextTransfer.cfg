CONSTANTS
    Letters = {a}
    EOL = eol
    MaxLine = 3
    MaxStream = 6
    Nicks <- MCNicks
    Configured = "me"
    MaxRenames = 2
    MaxOnTheWay = 2
    IRC_MSG_MAXLEN = 17
    PrefixAllowance = 8
    HeaderLength <- MCHeaderLength
    NickLength <- MCNickLength
    UserHostLength = 4
    MaxText = 4
    MaxRest = 2
SPECIFICATION TransferSpec
INVARIANTS
    LinesArriveWhole
    CutSparesLetters
    AliasesAnnounced
    PartsRebuildText
    PeerReadsText
    RelayedLineFits
    HandlersGetTheirArguments
PROPERTY DamageIsLocal
CHECK_DEADLOCK FALSE
