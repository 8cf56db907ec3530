SPECIFICATION ProgramsSpec
CONSTANTS
    MaxRecords = 4
    Capacity = 2
    Iterations = 4
    MaxFailures = 2
    Places = {"here", "there"}
    Plan <- MCPlan
    Selections <- StageChoices
    MaxRuns = 4
    MaxMishaps = 3
INVARIANT InterruptKeepsRecords
INVARIANT StatusIsTrue
INVARIANT FuzzVerdictIsTrue
INVARIANT MarkerMeansDone
 
PROPERTY FuzzEnds
CHECK_DEADLOCK FALSE
