CONSTANTS
    a = a  b = b
    p1 = p1  p2 = p2
    Free = Free  Leaked = Leaked
    Keys <- MCKeys
    Tasks <- MCTasks
    Timestamps <- MCTimestamps
    StartTs <- MCStartTs
    CommitTs <- MCCommitTs
    Mutation <- MCMutation
    Primary <- MCPrimary
    Fallible <- MCTasks
    LockTtl = 0
    ReadTs = {3}
    CurrentTs = {1, 4}
    LogicalUnit = 2
    U64 = 8
    MaxFailures = 1
SPECIFICATION HandlersSpec
PROPERTY PrewriteDetectsConflict
SYMMETRY Symmetry
