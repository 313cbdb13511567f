CONSTANTS
    ka = ka  kb = kb
    p1 = p1  p2 = p2  p3 = p3
    w1 = w1  w2 = w2  w3 = w3  w4 = w4
    NoNotify = NoNotify
    Keys <- MCKeys
    Tasks <- MCTwoTasks
    Notifies <- MCNotifies
    Commands <- MCCommands
SPECIFICATION FairSpec
PROPERTY NoStrandedWaiter
