SPECIFICATION Spec
CONSTANTS
    p1 = p1
    p2 = p2
    p3 = p3
    t1 = t1
    t2 = t2
    i1 = i1
    i2 = i2
    i3 = i3
    Process = {p1, p2, p3}
    Thread = {t1, t2}
    Pid = {i1, i2, i3}
    Root = p1
    RootPid = i1
    MaxAlive = 2
    NoPid = NoPid
    None = None
    Ghost = Ghost
CHECK_DEADLOCK FALSE
INVARIANTS LiveRuntime BuiltOnce
