SPECIFICATION Spec
CONSTANTS
    f = f
    g = g
    x = x
    y = y
    a = a
    b = b
    s = s
    None = None
    c1 = c1
    c2 = c2
    File = {f, g}
    SpiffsPath = {a, b}
    CardPath = {s}
    FileObject = {x, y}
    Content = {c1, c2}
    Existing = {a, b}
    Failures = {"open", "spiffs seek", "read", "write"}
    MaxPages = 2
SYMMETRY Symmetry
VIEW View
INVARIANT TypeOK
INVARIANT HandleStandsForFile
INVARIANT ReadsReturnStored
INVARIANT WritesStored
PROPERTY OnlyWritesChange
