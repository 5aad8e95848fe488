SPECIFICATION Spec
CONSTANTS
    Kind = "xdp"
    Programs = {1, 2, 3}
    NameOf <- MCNameOf
    Priorities = {10, 20}
    Labels = {"none"}
    MaxPrograms = 2
    RevisionMax = 3
    RevisionBound = 4
    DispatcherIDs = {d1, d2, d3}
    Handles = {1}
    LinkIDs = {l1, l2, l3}
    Faults = {"load", "ext", "swap", "persist", "detach", "cleanup", "forget", "crash", "netns"}
SYMMETRY Sym
INVARIANTS TypeOK SurvivorsServed ChainOrder
PROPERTY ImplementsAttachPoint
