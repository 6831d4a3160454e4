CONSTANTS
    k1 = k1
    k2 = k2
    Absent = Absent
    NoTTL = NoTTL
    Key <- MCKey
    Value <- Container
    Member <- MCMember
    Score <- MCScore
    Bit <- MCBit
    MaxLen = 2
    MaxGeneration = 20
    MaxTime = 1
SPECIFICATION Spec
VIEW WithoutGenerations
SYMMETRY Symmetry
INVARIANTS TypeOK CollectionsSound
PROPERTIES ContentVersioned MovesLoseNothing
