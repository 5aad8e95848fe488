SPECIFICATION Spec
CONSTANTS
    Probes = {k1}
    k1 = k1
    TCX = {t1, t2, t3}
    t1 = t1
    t2 = t2
    t3 = t3
    Priorities = {10, 20}
    MaxLinks = 3
    Faults = {"attach", "save", "detach", "delete", "undo", "unpin", "crash", "die"}
INVARIANTS TypeOK PinsNamed LinksAttached TCXOrder
SYMMETRY Symmetry
