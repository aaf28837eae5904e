\* A behaviour ends when the clock reaches its bound.
CONSTANTS
    NPages = 3
    ContentSize = 2
    MaxObjects = 2
    Digests <- DigestsValue
    Payloads = {p, q}
    Lens <- LensValue
    MaxTsc = 4
SPECIFICATION Spec
SYMMETRY PayloadSymmetry
CHECK_DEADLOCK FALSE
INVARIANTS TypeOK PagesPartitioned SortedByDigest RoomAfterEviction
PROPERTIES ImplementsLru
