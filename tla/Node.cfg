SPECIFICATION NodeSpec
CONSTANTS
    Kind = "tc"
    Programs = {1, 2}
    NameOf <- MCNameOf
    Priorities = {10, 20}
    Labels = {"none"}
    MaxPrograms = 2
    RevisionMax = 3
    RevisionBound = 4
    DispatcherIDs = {d1, d2, d3}
    Handles = {1, 2}
    LinkIDs = {l1, l2, l3}
    Faults = {"load", "ext", "swap", "persist", "detach", "netns"}
    v1 = v1
    Volumes = {v1}
    Targets = {p1, p2}
    p1 = p1
    p2 = p2
    VolumeOf <- OneVolume
    ForeignTargets = {p2}
    Maps = {1, 2}
    Requests <- SomeRequests
    MaxCalls = 2
    MaxLoads = 2
    MaxBpffs = 4
    CsiFaults = {"mount", "repin", "bind", "remount", "unmount", "rmdir", "restart"}
    Digests = {"first", "second", "empty", "junk", "alien", "rogue"}
    ImageOf <- Registry
    HostArch = "amd64"
    ShouldVerify = TRUE
    AllowUnsigned = TRUE
    Pullers = {q1, q2}
    q1 = q1
    q2 = q2
    ImageFaults = {"fetch", "rename", "copy", "remove", "save", "kill"}
    ProgIDs = {1, 2, 3}
    DelLinks = {1, 2}
    MaxBatch = 2
    DeleteFaults = {"list", "detach", "unload"}
    NetSlots = {1}
    KfuncSlots = {3}
    Tenants = {t1, t2}
    t1 = t1
    t2 = t2
    ShellOf <- OneEach
    MaxRequests = 3
    MaxMishaps = 2
    PoolFaults = {"file", "look", "route", "ip", "exit"}
SYMMETRY NodeSym
INVARIANTS StoreIsExact ServedOutsideRestore
INVARIANTS PublishedAsAsked NothingStacked FailedPublishLeavesNothing
INVARIANTS OnlyAcceptedServed EntryMatches
INVARIANTS GoneAsReported DependantsFirst TopologiesApart
