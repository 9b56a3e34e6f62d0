SPECIFICATION FairSpec
CONSTANTS
    Max32 = 24
    Buffer = 16
    Files <- MCFiles
    Moovs <- MCMoovs
INVARIANTS
    TypeOK
    OffsetsFollowChunks
    NoMediaIsLost
    UpgradeIsAsLongAsComputed
    LoadsTheMoovAtTheEnd
PROPERTIES
    Terminates
CHECK_DEADLOCK FALSE
