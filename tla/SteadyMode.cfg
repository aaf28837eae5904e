\* The system may stop: a CPU that misses the full counter spins for ever
\* (run steady_restore), and then nobody can take a step.
CONSTANTS
    Cpus = {c0, c1, c2, c3}
    Cpu0 = c0
SPECIFICATION FairSpec
CHECK_DEADLOCK FALSE
INVARIANTS TypeOK BarrierInv SteadyExclusive MainDoneBeforeLoaded
PROPERTIES NoEarlyRestore ImplementsExclusive JudgeKernelRunsAndReturns
