SPECIFICATION Spec
CONSTANTS
    MaxPages = 2
    InitPages = 1
    PagesPerSector = 1
    Value = {a, b}
    Absent = absent
    StmtSpill = 2
    MaxSavepoints = 1
    DeviceFails = FALSE
INVARIANT SubJournalGrows
