SPECIFICATION Spec
CONSTANTS
    MaxPages = 2
    InitPages = 1
    PagesPerSector = 2
    Value = {a, b}
    Absent = absent
    StmtSpill = 2
    MaxSavepoints = 2
    DeviceFails = FALSE
INVARIANT SavepointsKept
PROPERTY ImplementsSql
SYMMETRY ValueSymmetry
