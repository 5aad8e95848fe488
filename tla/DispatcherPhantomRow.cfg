SPECIFICATION Spec
CONSTANTS
    Kind = "tc"
    Programs = {1}
    NameOf <- MCNameOf
    Priorities = {10, 20}
    Labels = {"none"}
    MaxPrograms = 2
    RevisionMax = 3
    RevisionBound = 3
    DispatcherIDs = {d1, d2, d3}
    Handles = {1, 2}
    LinkIDs = {l1, l2, l3}
    Faults = {"forget"}
SYMMETRY Sym
INVARIANTS PersistedHookLive
