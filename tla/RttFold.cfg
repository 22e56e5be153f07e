CONSTANTS
    r1 = r1
    Realm = {r1}
    Granule = {4, 5, 6}
    NsPage = {}
    StartLevel = 1
    NumEntries = 2
    RootEntries = 2
SPECIFICATION MCSpec
PROPERTIES
    FoldKeepsPages
CHECK_DEADLOCK FALSE
