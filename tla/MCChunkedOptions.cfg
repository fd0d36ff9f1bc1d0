CONSTANTS
    Chunk <- MCChunk
    MaxCount <- MCMaxCount
    Calls <- LongOptionCalls
SPECIFICATION FairSpec
INVARIANT WrittenIsRight
