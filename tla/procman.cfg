SPECIFICATION FairSpec
CONSTANTS
    NumProcs = 2
    NumJobs = 2
    JobLimit = 1
INVARIANTS LaunchedOnce OwnLimit SleepersPublished
PROPERTY EveryJobCompletes
CHECK_DEADLOCK FALSE
