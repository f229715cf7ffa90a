\* a stack with two memory layers of two banks
SPECIFICATION Spec
CONSTANTS
    Layers <- Stack
    BanksPerLayer = 2
    ColumnOrders <- SwappedInLayers
    Cwds = {"output", "with file", "without file"}
    MaxLines = 2
    MaxRuns = 3
INVARIANTS ColumnsFollowNames IdleBanksLeakOnly ReadingIsThisRuns
PROPERTIES CarriesOn
CHECK_DEADLOCK FALSE
