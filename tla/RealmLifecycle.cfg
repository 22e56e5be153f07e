CONSTANTS
    g1 = g1
    g2 = g2
    g3 = g3
    g4 = g4
    g5 = g5
    g6 = g6
    v1 = v1
    v2 = v2
    sha256 = sha256
    Granule = {g1, g2, g3, g4, g5, g6}
    Vmid = {v1, v2}
    Algo = {sha256}
    NumAux = 1
    RootCounts = {1, 2}
    MaxRecIndex = 2
    None = None
SPECIFICATION Spec
SYMMETRY Symmetric
INVARIANTS
    GptConsistent
    NoResidue
    RootsOwned
    AuxOwned
    VmidsExact
    RefCountExact
    OwnerAlive
    VcpuidUnique
    ActiveMatchesMetadata
PROPERTIES
    RimFrozen
    GstTransitions
CHECK_DEADLOCK FALSE
