SPECIFICATION Spec
CONSTANTS
    Processes = {p}
    p = p
    IDs = {1, 2}
    MapNames = {m}
    m = m
    Batches <- SharingBatches
    Faults = {"publishshared"}
INVARIANT LoadedIntact
