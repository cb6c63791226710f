\* Every framing, every fault of the wire, Read and Close in any order.
SPECIFICATION FairSpec
CONSTANTS
    Framings <- MCFramings
    ReadSizes = {0, 1, 3}
    ChunkLines <- MCChunkLines
    TrailerLines <- MCTrailerLines
    MaxBodySize = 4
    MaxChunkSizeLine = 4
    MaxChunkExtensionLen = 1
    MaxTrailerCount = 2
    MaxTrailerValueLen = 2
    MaxDrainSize = 2
    MaxTrailerNameLen = 3
    ScratchSize = 2
    BufferSize = 3
    MaxEmptyReads = 1
    MaxInt = 100
INVARIANTS
    TypeOK ServedWithinLimit EOFOnlyAtEnd ConsumedIsPosition CloseVerdict
    DrainBounded TrailersOnlyAtEnd
PROPERTIES
    ErrorIsFinal ReadMakesProgress CallsReturn ImplementsStream
