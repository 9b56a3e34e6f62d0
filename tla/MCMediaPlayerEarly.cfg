SPECIFICATION Spec
CONSTANTS
    Size = 3
    MaxPackets <- MCMaxPackets
    Video = video
    Audio = audio
    Demuxer = demuxer
INVARIANT ReadsThePacketNextToRead
CHECK_DEADLOCK FALSE
