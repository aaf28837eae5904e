\* A run ends: the state after it has no successor.
CHECK_DEADLOCK FALSE
CONSTANTS
    Stdin <- StdinValue
    StdoutLimit = 3
    StderrLimit = 1
    PageSize = 4
    PoolStart = 16
    PoolSize = 8
    End = 25
    Word32 = 256
    Lens = {0, 1, 2}
    Addrs = {0, 20, 29}
    MapSizes = {3, 5, 44, 63}
    Codes = {0, 255}
    Syscalls = {1, 60, 200, 316}
    Faults = {0, 236}
    Word64 = 64
    Giga = 5
    tsc_freq = 2
    Adjusts = {0, 5}
    MaxSent = 5
    MaxMaps = 2
    MaxClock = 3
SPECIFICATION Spec
INVARIANTS TypeOK OutputIsPrefix InputIsInOrder MapsAreApart EndIsReported
