CONSTANTS
    r1 = r1
    r2 = r2
    Requests = {r1, r2}
    MaxTokens <- MCMaxTokens
SPECIFICATION FairSpec
CHECK_DEADLOCK FALSE
INVARIANTS
    OneDebtor
    AnswersAddUp
PROPERTIES
    AnsweredUnlessLost
    DriverExits
