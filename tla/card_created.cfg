SPECIFICATION Spec
CONSTANTS
    f = f
    g = g
    x = x
    a = a
    s = s
    None = None
    c1 = c1
    c2 = c2
    File = {f, g}
    SpiffsPath = {a}
    CardPath = {s}
    FileObject = {x}
    Content = {c1, c2}
    Existing = {a}
    Failures = {}
    MaxPages = 2
SYMMETRY Symmetry
INVARIANT PagesAccepted
