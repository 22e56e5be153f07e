CONSTANTS
    g1 = g1
    g2 = g2
    g3 = g3
    g4 = g4
    v1 = v1
    sha256 = sha256
    p1 = p1
    p2 = p2
    Granule = {g1, g2, g3, g4}
    Vmid = {v1}
    Algo = {sha256}
    NumAux = 1
    RootCounts = {1, 2}
    MaxRecIndex = 1
    None = None
    Cpu = {p1, p2}
    TablesStable = TRUE
SPECIFICATION HSpec
SYMMETRY Symmetric
INVARIANTS
    HTypeOK
    RunningSafe
PROPERTIES
    Atomic
CHECK_DEADLOCK FALSE
