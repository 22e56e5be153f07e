SPECIFICATION Spec
CONSTANTS
    None = None
    p1 = p1
    p2 = p2
    g1 = g1
    g2 = g2
    g3 = g3
    c1 = c1
    c2 = c2
    Cpu = {p1}
    Rec = {c1}
    Page = {g1, g2}
    Region <- MCRegion
    Heap = 2
    Kinds = {"RD", "RTT"}
    Shared = TRUE
    NrLrs = 2
    HostLrs <- MCHostLrs
    Writers = {}
INVARIANT MappedOnlyIfChecked
CHECK_DEADLOCK FALSE
