\* A chunk size next to the int64 maximum, after some bytes were served.
SPECIFICATION Spec
CONSTANTS
    Framings <- MCChunkedOnly
    ReadSizes = {1}
    ChunkLines <- MCHugeChunkLines
    TrailerLines <- MCTrailerLines
    MaxBodySize = 3
    MaxChunkSizeLine = 4
    MaxChunkExtensionLen = 1
    MaxTrailerCount = 1
    MaxTrailerValueLen = 2
    MaxDrainSize = 1
    MaxTrailerNameLen = 3
    ScratchSize = 2
    BufferSize = 3
    MaxEmptyReads = 1
    MaxInt = 7
INVARIANT BytesWithinMaxBodySize
