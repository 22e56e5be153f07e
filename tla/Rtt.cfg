CONSTANTS
    r1 = r1
    Realm = {r1}
    Granule = {4, 5, 6}
    NsPage = {0, 1}
    StartLevel = 2
    NumEntries = 2
    RootEntries = 2
SPECIFICATION MCSpec
INVARIANTS
    Exclusive
PROPERTIES
    ImplementsRealmMemory
    RipasByConsent
CHECK_DEADLOCK FALSE
