SPECIFICATION ProgramsSpec
CONSTANTS
    MaxRecords = 4
    Capacity = 2
    Iterations = 4
    MaxFailures = 2
    Places = {"here", "there"}
    Plan <- MCPlan
    Selections <- StageChoices
    MaxRuns = 3
    MaxMishaps = 3
INVARIANT FailingInputsAreSaved
CHECK_DEADLOCK FALSE
