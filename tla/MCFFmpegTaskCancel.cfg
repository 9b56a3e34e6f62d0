SPECIFICATION Spec
CONSTANTS
    MaxTasks = 2
    MaxCommands = 2
INVARIANTS
    CancelStopsTheRunningTask
CHECK_DEADLOCK FALSE
