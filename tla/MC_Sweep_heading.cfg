SPECIFICATION SweepSpec
CONSTANTS
    f1 = f1
    f2 = f2
    Files <- MCFiles
    Checks <- MCChecks
    Args <- MCArgs
    Optional <- MCOptional
    MaxRecords = 2
    LineTables <- MCLineTables
    ImageLists <- MCImageLists
    LastAddress = 5
    NEAR = 1
INVARIANT NothingIsSkipped
CHECK_DEADLOCK FALSE
