CONSTANTS
    Chunk <- MCChunk
    MaxCount <- MCMaxCount
    Calls <- SoundCalls
SPECIFICATION FairSpec
INVARIANTS Elementwise WrittenIsRight
PROPERTIES CallEnds
