SPECIFICATION Spec
CONSTANTS
    StreamLengths = {0, 2, 4, 8, 12, 16, 18}
    SymByteSizes = {0, 4, 6, 12, 17, 18}
    Streams <- MCStreams
    Heads <- MCHeads
    Regions = {0, 6, 20, 65}
    Subsections <- MCSubsections
    Checksums <- MCChecksums
    Blocks <- MCBlocks
    IdRecords <- MCIdRecords
    MaxIds = 3
    Begin = 4096
    Operands = {0, 17}
    MaxInstructions = 4
    Radix = 8
    ConstantsWritten <- MCConstantsWritten
    MaxConstants = 2
INVARIANT EveryRecordSeen
INVARIANT EveryDropCounted
INVARIANT NoByteReadTwice
INVARIANT NamesAreExact
INVARIANT RangesAreWhatIsWritten
INVARIANT ConstantsAreAsWritten
CHECK_DEADLOCK FALSE
