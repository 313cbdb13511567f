CONSTANTS
    n1 = n1  n2 = n2  n3 = n3
    NONE = NONE
    Node <- MCNode
    Elections <- MCElections
    Proposals <- MCProposals
    Heartbeats <- MCHeartbeats
    Mortal = {n2}
    MaxEntries = 2
    None = None
    MaxIndex = 3
    MaxTerm = 2
    MaxCrashes = 1
    ka = ka  kb = kb
    p1 = p1  p2 = p2  p3 = p3
    w1 = w1  w2 = w2  w3 = w3  w4 = w4
    NoNotify = NoNotify
    Keys <- MCKeys
    Tasks <- MCTasks
    Notifies <- MCNotifies
    Commands <- MCCommands
SPECIFICATION ScenarioSpec
INVARIANTS
    ElectedAuthors AppliesInOrder AcknowledgedIsDurable HasReadyIsExact
    MutualExclusion RegisteredWaiterIsWoken
PROPERTIES
    CommittedNotOverwritten LeaderAppendOnly
    ImplementsKeyLatches
CHECK_DEADLOCK FALSE
