SPECIFICATION Spec
CONSTANTS
    NPages = 3
    PagesPerSector = 2
    Sector = 5
    Record = 3
    NParts = 1
    Value = {1, 2}
    Sampled = {1}
    Nonce <- Nonces
    MaxNonce = 36
    DroppedZeros = {"zeroHdr"}
    MallocFails = TRUE
    WriteFails = {"spill", "commit", "playback"}
    MaxTx = 2
INVARIANT TypeOK
INVARIANT Atomic
INVARIANT HotJournalRestores
INVARIANT CacheCoherent
PROPERTY ReplayRestores
CONSTRAINT Explored
