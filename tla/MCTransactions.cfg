CONSTANTS
    k1 = k1
    k2 = k2
    c1 = c1
    c2 = c2
    s1 = s1
    s2 = s2
    Absent = Absent
    Nobody = Nobody
    Unwatched = Unwatched
    Key <- MCKey
    Content <- MCContent
    Session <- MCSession
    MaxQueue = 1
    MaxGeneration = 2
    MaxEpoch = 1
SPECIFICATION Spec
SYMMETRY Symmetry
INVARIANTS TypeOK ExecAbortsExactly NoLeftoverCommands
