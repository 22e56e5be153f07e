CONSTANTS
    g1 = g1
    g2 = g2
    g3 = g3
    g4 = g4
    v1 = v1
    v2 = v2
    sha256 = sha256
    p1 = p1
    p2 = p2
    Granule = {g1, g2, g3, g4}
    Vmid = {v1, v2}
    Algo = {sha256}
    NumAux = 1
    RootCounts = {1}
    MaxRecIndex = 1
    None = None
    Cpu = {p1, p2}
    TablesStable = FALSE
SPECIFICATION HSpec
SYMMETRY Symmetric
INVARIANT RdIntact
CHECK_DEADLOCK FALSE
