SPECIFICATION FairSpec
CONSTANTS
  Blocks = {b1, b2}
  Hashes = {h1}
  Inners = {i1, i2, i3}
  Clients = {c1}
  Prompts <- PromptsUpTo2
  NoBlock = NoBlock
  NoHash = NoHash
  NoInner = NoInner
  NoClient = NoClient
  Policy = "Allow"
  DefaultReset = FALSE
  MaxInFlight = 1
CHECK_DEADLOCK TRUE
PROPERTY NothingHeldAllReturns
