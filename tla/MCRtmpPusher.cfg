SPECIFICATION FairSpec
CONSTANTS
    UI = UI
    Audio = Audio
    MaxWorkers = 2
    Worker <- MCWorker
    MaxEncoded = 2
    MaxMade = 4
INVARIANTS
    TypeOK
    OneWorkerPushes
    EachPacketHasOneOwner
    QueueIsDrained
    NoMissedWakeup
    StoppedMeansStopped
PROPERTIES
    StopOfARunningPushCompletes
CHECK_DEADLOCK FALSE
