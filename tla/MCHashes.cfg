CONSTANTS
    k1 = k1
    f1 = f1
    f2 = f2
    Absent = Absent
    NoTTL = NoTTL
    Text = Text
    Other = Other
    Key <- MCKey
    Value <- MCValue
    Field <- MCField
    Number <- MCNumber
    When <- MCWhen
    WallOffset = 10
    MaxTime = 2
    MaxGeneration = 20
SPECIFICATION Spec
VIEW WithoutHistory
SYMMETRY Symmetry
INVARIANT TypeOK
PROPERTIES FieldsVersioned ReadsTakeNothing HashesDisappear
