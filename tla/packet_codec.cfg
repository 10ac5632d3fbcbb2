SPECIFICATION Spec
CONSTANTS
    Objects <- MCObjects
    PeerWords <- MCPeerWords
    DataPackets <- MCDataPackets
    CrossedPackets <- MCCrossed
    ControlPackets <- MCControl
    Blocks <- MCBlocks
    ExtensionBodies <- MCExtensions
    HelloExtensions <- MCHello
    PatchBodies <- MCPatches
    RuntimeSends <- MCRuntime
    AppSends <- MCSends
    Tickets <- MCTickets
    Batches <- MCBatches
    QuicRuns <- MCQuic
    ChunkSizes = {39, 40}
    BufferedFrames = {1, 2}
    NextFrame = NextFrame
    Waiters = {w1}
    Wraps = TRUE
    MaxAdds = 3
INVARIANTS
    MessagesAreRead
    DataAgrees
    ControlsAreRead
    RuntimeArrives
    SentOnItsFrame
    CutIsRefused
    QuicDelivers
    ResultsInFrameOrder
