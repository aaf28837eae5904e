CONSTANTS
    Word = 40
    PageSize = 2
    HugePageSize = 4
    KernelBreak = 4
    ReservedSize = 24
    LoadStart = 4
    EhdrSize = 2
    PhdrSize = 2
    StackFrame = 1
    RandomSize = 1
    Files <- FilesValue
    Configs <- ConfigsValue
    AllocSizes = {1, 4, 13, 36}
    Sizes = {0, 1, 39}
SPECIFICATION Spec
INVARIANTS TypeOK BuffersAreApart ImageIsIntact InputsArePlaced OutputIsInside
PROPERTIES OnlyUserMemoryIsWritten
