CONSTANTS
    k1 = k1
    k2 = k2
    Absent = Absent
    NoTTL = NoTTL
    Key <- MCKey
    Value <- MCValue
    Due <- MCDue
    Engine = "trio"
    MaxWall = 2
    MaxEra = 1
SPECIFICATION FairSpec
INVARIANTS DeadlinesSurviveRestart FinalSnapshotKept
PROPERTIES CorpsesSwept LoopComesBack
