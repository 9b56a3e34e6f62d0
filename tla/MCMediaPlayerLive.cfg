SPECIFICATION FairSpec
CONSTANTS
    Size = 2
    MaxPackets <- MCFewPackets
    Video = video
    Audio = audio
    Demuxer = demuxer
PROPERTIES
    EveryPacketIsTaken
    RoomIsMade
CHECK_DEADLOCK FALSE
