CONSTANTS
    ann = ann
    bob = bob
    l = l
    m = m
    s1 = s1
    r1 = r1
    r2 = r2
    None = None
    Users = {ann, bob}
    Lists = {l, m}
    Screens = {s1}
    Requests = {r1, r2}
    Asks <- MCAsks
    Room = 1
    MaxVersion = 4
SPECIFICATION MCSpec
INVARIANTS
    ScreenCatchesUp
CHECK_DEADLOCK FALSE
