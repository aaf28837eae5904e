\* Clients may stop sending requests once MaxJudges of them have run; the
\* buffer operations go on for ever.
CONSTANTS
    Word = 64
    Kilo = 4
    PageSize = 2
    LoadStart = 4
    VaddrBreak = 14
    BufferSize = 4
    MaxTimeLimit = 2
    Values = {0, 7}
    Requests <- RequestsValue
    Ranges <- RangesValue
    CacheNames = {elf}
    Digests = {d}
    MaxJudges = 2
SPECIFICATION Spec
INVARIANTS TypeOK KeptResultIsCurrent NotJudgedOnlyForSentinel VerdictConsistent TotalTimeBounded RunsWithRequestedLimit
PROPERTIES JudgeKeepsInputs
