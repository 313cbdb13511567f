CONSTANTS
    A = A  B = B
    Absent = Absent
    RawKeys <- MCRawKeys
    StateKey <- MCStateKey
    ApplyKey <- MCApplyKey
    DefaultKey <- MCDefaultKey
    DataKeys = {12, 14}
    Data = {v}
    Stores = {A, B}
    Regions = {1, 2}
    Start <- MCStart
    End <- MCEnd
    Members <- MCMembers
    MaxOps = 5
SPECIFICATION DataSpec
INVARIANT RegionSurvives
CHECK_DEADLOCK FALSE
