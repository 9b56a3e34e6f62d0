SPECIFICATION FairSpec
CONSTANTS
    a1 = a1
    a2 = a2
    d0 = d0
    d1 = d1
    d2 = d2
    Activity <- MCActivity
    Desc <- MCDesc
    Default <- d0
    Nobody = Nobody
    NoGraph = NoGraph
INVARIANTS
    TypeOK
    GraphIsTheDescription
PROPERTY
    ReleaseEndsTheSession
CHECK_DEADLOCK FALSE
