SPECIFICATION FairSpec
CONSTANTS
    UI = UI
    Audio = Audio
    MaxWorkers = 1
    Worker <- MCWorker
    MaxEncoded = 1
    MaxMade = 2
PROPERTIES
    StopPushStops
CHECK_DEADLOCK FALSE
