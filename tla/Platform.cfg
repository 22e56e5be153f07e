SPECIFICATION FairSpec
CONSTANTS
    None = None  Junk = Junk
    SlotCount = 3  BootTables <- mcBootTables  TextLen <- mcTextLen
    MaxSeq = 6  MaxSplits = 1  MaxLinks = 2  MaxOwn = 2  MaxEvents = 3  MaxEventsUp = 1
    r1 = r1  r2 = r2  c1 = c1  c2 = c2
    Realm = {r1, r2}  Rec = {c1}  OwnerOf <- mcOwnerOf
    Params = {"p1"}  Desc = {"data"}  Rpv = {"v1"}  Metadata <- mcMetadata  Challenge = {"h1", "h2"}
    Flag = {"RIM", "SVN"}
    RemCount = 1  TokenLen = 2  MaxMeasured = 1
    Requests <- mcRequests  Misread <- mcMisread
INVARIANTS TypeOK TokenOfThisConnection ReplyMatches TokenBound TokenWhole SealedToIdentity
PROPERTIES SlotsOnlyExtended Answered
CHECK_DEADLOCK FALSE
