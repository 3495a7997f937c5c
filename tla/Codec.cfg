SPECIFICATION Spec
CONSTANTS
    Scripts <- MCScripts
    Spoilt <- MCSpoilt
    Flips = {1, 6, 8, 15}
    Garbage <- MCGarbage
    DefaultMsgId <- MCDefaultMsgId
    PrependSize = 1
    InitialSize = 6
    MaxBufferSize = 40
    MaxPacketSize = 20
    ExtraSize = 5
    MaxReadPerRound = 8
    WriteChunks = {7, 40}
    ReadChunks = {1, 9, 40}
INVARIANTS ChunkFree RoundTrip NothingForged
CHECK_DEADLOCK FALSE
