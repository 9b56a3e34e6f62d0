SPECIFICATION FairSpec
CONSTANTS
    QueueSize = 1
    InputBuffers = 2
    MaxSamples = 5
    Caller = Caller
    Decoder = Decoder
    Encoder = Encoder
    Writer = Writer
INVARIANTS
    TypeOK
    PiecesAreWrittenInOrder
    MP3BufRunsAheadByAQueue
PROPERTIES
    ConversionEnds
CHECK_DEADLOCK FALSE
