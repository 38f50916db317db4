SPECIFICATION Spec
CONSTANTS
    Procs = {p1, p2}
    Initial = p1
    Program = "a"
    NumSectors = 4
    Names = {"a", "b"}
    Paths <- MCPaths
    MaxFds = 1
    DiskMayFill = TRUE
INVARIANTS
    WorkingDirectoryStays
CHECK_DEADLOCK FALSE
