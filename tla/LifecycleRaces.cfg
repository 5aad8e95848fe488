SPECIFICATION Spec
CONSTANTS
    Processes = {p, q}
    p = p
    q = q
    IDs = {1, 2}
    MapNames = {m}
    m = m
    Batches <- AllBatches
    Faults = {"lock", "observe", "reap", "load", "publish", "commit", "undo", "detach", "shared", "delete", "gc", "bytecode", "crash", "die"}
INVARIANTS TypeOK LoadedIntact NothingLeftBehind
SYMMETRY Symmetry
