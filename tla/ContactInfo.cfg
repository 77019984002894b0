CONSTANTS
    Contacts = {self, other}
    Self = self
    MaxRequests = 2
    MaxForeign = 2
SPECIFICATION FairSpec
INVARIANTS
    AnswersAreAboutTheContact
    AnsweredByItsOwn
PROPERTY EveryRequestAnswered
CHECK_DEADLOCK FALSE
