CONSTANTS
    Clients = {c1}
    Loader = loader
SPECIFICATION Spec
INVARIANTS FailedLoadLeavesNothing
