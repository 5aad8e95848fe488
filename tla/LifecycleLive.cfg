SPECIFICATION FairSpec
CONSTANTS
    Processes = {p, q}
    p = p
    q = q
    IDs = {1, 2}
    MapNames = {m}
    m = m
    Batches <- SharingBatches
    Faults = {"detach", "shared", "delete", "gc", "crash", "reuse"}
PROPERTY UnloadConverges
