SPECIFICATION Spec
CONSTANTS
    World = 3
    a0 = a0
    a1 = a1
    Requests = {a0, a1}
    Home <- MCHome
    Classes <- MCClasses
    Processes <- MCProcesses
    GangWidth = 2
    Abortable = {a0}
    MaxBatch = 1
    MaxBurst = 2
    MaxLaunch = 1
    Slack = 2
    CommitLag = 1
INVARIANTS NoFault WhaleUnanimous FallbackIsFinal SlotsConserved LevelEntries PostingOrder NothingLeftBehind
PROPERTIES GangSpec
CHECK_DEADLOCK FALSE
