SPECIFICATION Spec
CONSTANTS
    ListedFiles <- MCFiles
    Symbols <- MCSymbols
    MaxModules = 1
    MaxSymbols = 2
    Publics <- MCPublics
    InlineFiles <- MCInlineFiles
    Modules <- MCModules
    NumModules = 2
    Align = 4
    None = None
    Files <- MCImageFiles
    Segments = {0, 1, 2, 3, 4}
    Offsets = {0, 2, 3, 4}
INVARIANT ListedOnceInOrder
INVARIANT PublicsAreInOneOrder
INVARIANT SitesAreInPlace
INVARIANT UnplacedIsTheGap
INVARIANT LossIsExplained
INVARIANT HealthyIsQuiet
INVARIANT LinesAgree
INVARIANT TroubleIsSaid
PROPERTY ListingIsMerge
CHECK_DEADLOCK FALSE
