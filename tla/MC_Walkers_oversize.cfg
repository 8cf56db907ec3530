SPECIFICATION Spec
CONSTANTS
    StreamLengths = {0}
    SymByteSizes = {0}
    Streams <- MCStreams
    Heads <- MCHeads
    Regions = {65}
    Subsections <- MCSubsections
    Checksums <- MCChecksums
    Blocks <- MCBlocks
    IdRecords <- MCIdRecords
    MaxIds = 0
    Begin = 4096
    Operands = {0, 17}
    MaxInstructions = 0
    Radix = 8
    ConstantsWritten <- MCConstantsWritten
    MaxConstants = 0
INVARIANT LossIsReported
CHECK_DEADLOCK FALSE
