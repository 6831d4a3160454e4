CONSTANTS
    None = None
    Query <- MCQuery
    Value <- MCValue
SPECIFICATION QuerySpec
INVARIANTS LcsExact SelectionsExact BitfieldExact
CHECK_DEADLOCK FALSE
