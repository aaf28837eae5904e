\* The module calls entry once; after it has returned, or the kernel has been
\* aborted or has divided by 0, nothing happens.
CHECK_DEADLOCK FALSE
CONSTANTS
    heap = 50
    KERNEL_HEAP_SIZE = 10
    BrkArgs = {0, 49, 55, 60, 61}
    Leaf15 <- Leaf15Value
    MHz = 10
    Counters = {7, 9}
    KERNEL_BREAK = 100
    Ebss = {90, 101}
    TssIndices = {8, 14, 16}
    PicStates <- PicStatesValue
    Pointers <- PointersValue
    kernel_base = 20
SPECIFICATION Spec
INVARIANTS KernelIsSetUp NoFault LinuxFindsWhatItLeft
