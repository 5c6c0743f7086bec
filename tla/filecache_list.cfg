SPECIFICATION Spec
CONSTANTS
    Byte = {0, 1}
    BlockSize = 2
    IdMod = 8
    NomemCode = 9
    Limit = 6
    MaxLen = 4
    MaxBlocks = 4
    Requests <- AllRequests
INVARIANTS TypeOK StrictlySorted NoOrphan IInv
PROPERTIES ImplementsMemFile
