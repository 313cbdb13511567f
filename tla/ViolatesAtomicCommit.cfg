CONSTANTS
    a = a  b = b
    c1 = c1  c2 = c2  r1 = r1
    Free = Free  Leaked = Leaked
    Keys <- MCKeys
    Tasks <- MCTasks
    Timestamps <- MCTimestamps
    StartTs <- MCStartTs
    CommitTs <- MCCommitTs
    Mutation <- MCMutation
    Primary <- MCPrimary
    Coordinator <- MCCoordinator
    Readers = {r1}
    Resolvers = {r1}
    Mortal = {1, 2}
    MaxTs = 5
    Fallible = {}
    LockTtl = 0
    ReadTs <- MCTimestamps
    CurrentTs <- MCTimestamps
    LogicalUnit = 2
    U64 = 8
    ScanOrder <- MCScanOrder
    ScanLimits = {1, 2}
SPECIFICATION ThirdSpec
INVARIANT AtomicCommit
CHECK_DEADLOCK FALSE
