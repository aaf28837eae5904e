CONSTANTS
    Clients = {c1, c2}
    Loader = loader
SPECIFICATION Spec
INVARIANTS TypeOK MainRunsFreshImage MappedUnderIoctl UnloadReleasesAll
