CONSTANTS
    r1 = r1
    Requests = {r1}
    MaxTokens <- MCMaxTokens
SPECIFICATION FairSpec
CHECK_DEADLOCK FALSE
PROPERTIES
    NeverAHang
