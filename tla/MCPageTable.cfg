\* A walk that has left the tables is not followed: see InBlocks.
CHECK_DEADLOCK FALSE
CONSTANTS
    Clients = {c1, c2}
    PAGE_SIZE = 2
    PT_ENTRIES = 4
    phys_base_addr = 100
    virt_base_addr = 72
    total_size = 18
    Reserved = 5
    KERNEL_SIZE = 18
    KERNEL_STACK_SIZE = 1
    KERNEL_OFFSET = 1
    Sizes = {2, 4, 5}
    MaxLoads = 2
SYMMETRY ClientSymmetry
SPECIFICATION Spec
INVARIANTS BlocksSuffice LowMappingHolds SwitchIsMapped
