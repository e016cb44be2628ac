SPECIFICATION LineSpec
CONSTANTS
    Driver = {"d1", "d2", "d3"}
    IrqLine = {1, 12}
    BadLine = 16
    MaxHandlers = 2
INVARIANTS
    ConnectedIsCalled
CHECK_DEADLOCK FALSE
