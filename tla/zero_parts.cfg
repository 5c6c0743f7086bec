SPECIFICATION Spec
CONSTANTS
    NPages = 2
    PagesPerSector = 1
    Sector = 3
    Record = 1
    NParts = 2
    Value = {0, 1}
    Sampled = {1}
    Nonce <- Nonces
    MaxNonce = 16
    DroppedZeros = {}
    MallocFails = FALSE
    WriteFails = {}
    MaxTx = 1

PROPERTY RollbackRestores
