SPECIFICATION FairSpec
CONSTANTS
    Kind = "tc"
    Programs = {1}
    NameOf <- MCNameOf
    Priorities = {10}
    Labels = {"none"}
    MaxPrograms = 2
    RevisionMax = 3
    RevisionBound = 3
    DispatcherIDs = {d1, d2, d3}
    Handles = {1, 2, 3}
    LinkIDs = {l1, l2, l3}
    Faults = {"load", "ext", "swap", "persist", "detach", "forget", "cleanup", "crash", "netns"}
PROPERTIES DetachConverges
