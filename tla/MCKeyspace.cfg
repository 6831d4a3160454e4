CONSTANTS
    k1 = k1
    k2 = k2
    list = list
    Absent = Absent
    NoTTL = NoTTL
    Text = Text
    TooBig = TooBig
    Key <- MCKey
    Value <- MCValue
    Number <- MCNumber
    Deadline <- MCDeadline
    Seconds <- MCSeconds
    WallOffset = 10
    MaxTime = 2
    MaxGeneration = 2
SPECIFICATION Spec
INVARIANT TypeOK
PROPERTIES ImplementsVersioned DeathEventsExact EditsKeepTTL
