SPECIFICATION ContainerSpec
CONSTANTS
    BlockSize = 12
    FileLen = 37
    MaxList = 5
    MaxBlock = 4
    Sizes = {0, 11, 12, 25, 60}
    Requests <- MCRequests
    Words = {0, 2, 23, 99}
    Nil = 99
    LongDirectories = {0, 3, 20, 28, 37}
    ShortDirectories = {16, 20}
    SuperBlocks <- MCSuperBlocks
INVARIANT NeverPastEnd
INVARIANT DirectoryRoundTrip
INVARIANT StreamsFit
INVARIANT ReadsAreExact
PROPERTY RefinesPerBlock
CHECK_DEADLOCK FALSE
