SPECIFICATION Spec
CONSTANTS
    Size = 3
    MaxPackets <- MCMaxPackets
    Video = video
    Audio = audio
    Demuxer = demuxer
INVARIANTS
    TypeOK
    OnlyAnEarlyDecoderMeetsTheDemuxer
    NoMissedWakeup
    DecodedAtMostOnce
    ReleasedPacketsAreNotUsed
    FindsItsPacketOrOneOfAnEarlierLap
PROPERTIES
    VideoHandOver
CHECK_DEADLOCK FALSE
