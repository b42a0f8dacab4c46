SPECIFICATION FairEndsSpec
CONSTANTS
    MaxPayload = 1
    Magic = 9
    Payloads <- MCPayloads
    Replies <- MCReplies
    MaxQueuedBytes = 6
    ReadChunkSize = 3
    MaxConnects = 2
    MaxSends = 2
    Words = {1, 2, 3, 4, 9}
    MaxWords = 6
    SessionReplies <- MCSessionReplies
INVARIANTS
    StreamAligned
    ReceivedExactly
    WindowTruthful
    EveryFrameHandled
PROPERTIES
    SessionSettles
CHECK_DEADLOCK FALSE
