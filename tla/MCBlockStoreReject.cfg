SPECIFICATION Spec
CONSTANTS
  Blocks = {b1, b2}
  Hashes = {h1, h2}
  Inners = {i1, i2, i3}
  Clients = {c1, c2}
  Prompts <- PromptsUpTo2
  NoBlock = NoBlock
  NoHash = NoHash
  NoInner = NoInner
  NoClient = NoClient
  Policy = "Reject"
  DefaultReset = TRUE
  MaxInFlight = 1
SYMMETRY Symmetry
CHECK_DEADLOCK TRUE
PROPERTY ImplementsOwnership
