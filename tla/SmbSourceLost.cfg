SPECIFICATION Spec
CONSTANTS
    a = a
    b = b
    c = c
    d = d
    u1 = u1
    u2 = u2
    u3 = u3
    u4 = u4
    u5 = u5
    w1 = w1
    w2 = w2
    p1 = p1
    p2 = p2
    None = None
    Imports = {a, b, c, d}
    Smb = {c}
    Sited = {d}
    Batch = {a, b}
    Presentations = {p1, p2}
    Uploads = {u1, u2, u3, u4, u5}
    Target <- Targets
    Workers = {w1, w2}
    MaxAttempts = 2
    Worlds <- OnlyDropped
INVARIANTS SourceNotLost
CHECK_DEADLOCK FALSE
