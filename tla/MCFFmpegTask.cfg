SPECIFICATION FairSpec
CONSTANTS
    MaxTasks = 3
    MaxCommands = 2
INVARIANTS
    TypeOK
    NoProgressAfterTheEnd
    LayoutIsHiddenInTheEnd
PROPERTIES
    CancelIsTaken
CHECK_DEADLOCK FALSE
