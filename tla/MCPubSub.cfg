CONSTANTS
    s1 = s1
    s2 = s2
    key = key
    s3 = s3
    event = event
    star = star
    Nobody = Nobody
    Null = Null
    Session <- MCSession
    Channel <- MCChannel
    Pattern <- MCPattern
    Match <- MCMatch
    Flag <- MCFlag
    EventChannel <- MCEventChannel
    MaxLoad = 4
    MaxOpen = 1
SPECIFICATION Spec
SYMMETRY Symmetry
INVARIANTS TypeOK HubMirrorsSessions DeliveryExact SubscribedNeverInMulti ExecAnswersAll
