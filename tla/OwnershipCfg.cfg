SPECIFICATION Spec
CONSTANTS
    p = p
    r = r
    t = t
    u = u
    NoBuf = NoBuf
    Vars = {p, r, t, u}
    Params = {p}
    Outputs = {r}
    Buf = {1, 2, 3, 4, 5}
    Entry = 1
    Exits = {11, 14}
    Nodes <- MCNodes
    Succ <- MCSucc
    Uses <- MCUses
    Defs <- MCDefs
    Touch <- MCTouch
    Freed <- MCFreed
CHECK_DEADLOCK FALSE
INVARIANTS
    ReadsFindValue
    NoLeak
