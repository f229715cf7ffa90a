SPECIFICATION FairSpec
CONSTANTS
    Names = {"a", "b"}
    Warps = {0, 1}
    Instrs = {"s", "x"}
    SpinInstrs <- SpinA
    Keep = 1
    Environments <- AllEnvironments
    NumKernels = 4
INVARIANTS ClosedFilesExact RecordsAtMostOnce MatchingKernelsTraced
PROPERTY LaunchReturns
