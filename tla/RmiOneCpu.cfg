CONSTANTS
    g1 = g1
    g2 = g2
    g3 = g3
    g4 = g4
    g5 = g5
    g6 = g6
    v1 = v1
    sha256 = sha256
    p1 = p1
    Granule = {g1, g2, g3, g4, g5, g6}
    Vmid = {v1}
    Algo = {sha256}
    NumAux = 2
    RootCounts = {2}
    MaxRecIndex = 1
    None = None
    Cpu = {p1}
    TablesStable = TRUE
SPECIFICATION HSpec
SYMMETRY Symmetric
INVARIANT NoOrphans
CHECK_DEADLOCK FALSE
