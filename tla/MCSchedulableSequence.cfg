CONSTANTS
    Seqs = {s1, s2}
    Blocks = {b1, b2, b3, b4}
    BlockSize = 3
    Inputs = {3, 5}
    MaxOutput = 3
    MaxDraft = 3
    Alignments = {TRUE, FALSE}
    NoBlock = NoBlock
SYMMETRY Symmetry
SPECIFICATION Spec
INVARIANTS
    PagesCoverStep
    WithinLifetime
    OwnKvIntact
    NextStepExists
    CachedButLast
PROPERTIES
    PagesStable
