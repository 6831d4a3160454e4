CONSTANTS
    k1 = k1
    k2 = k2
    Absent = Absent
    NoTTL = NoTTL
    Key <- MCTwoKeys
    Value <- MCValue
    Due <- MCNoDeadline
    Engine = "asyncio"
    MaxWall = 0
    MaxEra = 1
SPECIFICATION Spec
INVARIANT FinalSnapshotKept
