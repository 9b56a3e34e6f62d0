SPECIFICATION Spec
CONSTANTS
    InitCodeSize = 2
    MaxBits = 4
    HSize = 17
    PacketSize = 3
    xor <- ExclusiveOr
    Frames <- SomeFrames
INVARIANTS
    TypeOK
    DecodesToItsPixels
    EveryCodeIsFoundAgain
CHECK_DEADLOCK FALSE
