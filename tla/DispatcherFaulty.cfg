SPECIFICATION Spec
CONSTANTS
    Kind = "tc"
    Programs = {1, 2}
    NameOf <- MCNameOf
    Priorities = {10, 20}
    Labels = {"none"}
    MaxPrograms = 2
    RevisionMax = 5
    RevisionBound = 3
    DispatcherIDs = {d1, d2, d3}
    Handles = {1, 2, 3}
    LinkIDs = {l1, l2, l3}
    Faults = {"load", "ext", "swap", "echo", "delfilter", "persist", "detach", "cleanup", "forget", "rollback", "crash", "netns"}
SYMMETRY Sym
PROPERTIES MembersStable
