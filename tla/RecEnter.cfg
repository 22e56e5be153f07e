SPECIFICATION MCSpec
CONSTANTS
    None = None
    p1 = p1
    p2 = p2
    g1 = g1
    g2 = g2
    g3 = g3
    c1 = c1
    c2 = c2
    Cpu = {p1, p2}
    Rec = {c1, c2}
    Page = {g1, g2, g3}
    Region <- MCRegion
    Heap = 2
    Kinds = {"RD", "RTT", "Rec", "Metadata"}
    Shared = FALSE
    NrLrs = 2
    HostLrs <- MCHostLrs
    Writers = {p1, c1}
INVARIANTS
    
    HostSimdPreserved
    ContextPreserved
    ListRegistersSound
PROPERTY HostPageReturned
CHECK_DEADLOCK FALSE
