SPECIFICATION DbiSpec
CONSTANTS
    None = None
    Stray = {64, 66, 140}
    Files <- MCFiles
    Entries <- MCEntries
    MaxEntries = 3
    Segments = {1, 2}
    Offsets = {0, 1, 3}
    HeaderWords = 2
    BlockWords = 4
    Sizes <- MCSizes
    StreamWords <- MCStreamWords
    DeclaredWords <- MCDeclaredWords
    MaxFiles = 1
    Maps <- MCMaps
    Tables <- MCTables
INVARIANT SlicesDoNotAlias
INVARIANT CutIsTold
INVARIANT OwnerIsRight
INVARIANT AgreesWithTheLibrary
INVARIANT NamesAreReadBack
CHECK_DEADLOCK FALSE
