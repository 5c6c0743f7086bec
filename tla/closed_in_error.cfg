SPECIFICATION Spec
CONSTANTS
    NPages = 2
    PagesPerSector = 1
    Sector = 3
    Record = 1
    NParts = 1
    Value = {1, 2}
    Sampled = {1}
    Nonce <- Nonces
    MaxNonce = 16
    DroppedZeros = {}
    MallocFails = FALSE
    WriteFails = {"spill"}
    MaxTx = 1
PROPERTY CloseRestores
