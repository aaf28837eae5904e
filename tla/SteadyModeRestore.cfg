CONSTANTS
    Cpus = {c0, c1}
    Cpu0 = c0
SPECIFICATION FairSpec
CHECK_DEADLOCK FALSE
PROPERTIES EveryCpuRestores
