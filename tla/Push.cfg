SPECIFICATION FairSpec
CONSTANTS
    Size = 5
    NumMethods = 4
    MaxPath = 7
    AddrSpace = 16
    MaxPuts = 2
    MaxWrites = 1
    MaxAccess = 1
    Words <- MCWords
    Programs <- MCPrograms
    Rewrites <- MCRewrites
    Handler <- MCHandler
    Batch <- MCBatch
    RangeEnd <- MCRangeEnd
INVARIANTS TypeOK NoAbort
PROPERTIES Implements Drains
CHECK_DEADLOCK FALSE
