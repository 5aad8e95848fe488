------------------------------- MODULE CSINode -------------------------------
(***************************************************************************)
(* The CSI node service (csi/node.go, csi/locks.go): publishing the maps   *)
(* of a loaded program to a pod and taking them away again.                *)
(*                                                                         *)
(* The orchestrator repeats and overlaps its calls, the driver dies and    *)
(* restarts with no memory of them, mounts and unmounts fail, and programs *)
(* are loaded and unloaded meanwhile: publishing takes no writer lock.     *)
(***************************************************************************)
EXTENDS Naturals, Sequences, FiniteSets, FiniteSetsExt

CONSTANTS
    Volumes, Targets,  \* volume ids and target paths
    VolumeOf,          \* the volume each target path was allocated for
    ForeignTargets,    \* the targets something else is mounted on at first
    Maps,              \* the maps the program pins, numbered in name order
    Requests,          \* the publish requests the orchestrator makes
    MaxCalls,          \* bound: RPCs in progress at a time
    MaxLoads,          \* bound: program ids ever handed out
    MaxBpffs,          \* bound: bpffs instances mounted at a time
    CsiFaults          \* the failures that may happen

ASSUME VolumeOfAssumption == VolumeOf \in [Targets -> Volumes]
ASSUME ForeignAssumption   == ForeignTargets \subseteq Targets
ASSUME MapsAssumption     == Maps \subseteq Nat
ASSUME RequestAssumption  == Requests \subseteq [maps: Seq(Maps), ro: BOOLEAN]
ASSUME CsiBoundAssumption == {MaxCalls, MaxLoads, MaxBpffs} \subseteq Nat
ASSUME CsiFaultsAssumption ==
    CsiFaults \subseteq {"mount", "repin", "bind", "remount", "unmount", "rmdir", "restart"}

VARIABLES
    loaded,     \* programs with the metadata asked for, in store and kernel
    mapPins,    \* per program id: the maps pinned in its MapsDir
    nextLoad,   \* the next program id: the kernel hands them out in turn
    podMount,   \* per volume: the stack of bpffs instances mounted for it
    target,     \* per target path: the stack of mounts on it
    bpffs,      \* per bpffs instance: the maps pinned in it
    inflight,   \* volumeLocks: the volumes an RPC is working on
    call,       \* the RPCs in progress
    published,  \* history: what each target was answered OK for
    leftover    \* history: targets an interrupted RPC may have left mounted

hostVars == <<podMount, target, bpffs>>
progVars == <<loaded, mapPins, nextLoad>>
csiVars  == <<progVars, hostVars, inflight, call, published, leftover>>

LoadIDs   == 1..MaxLoads
Instances == 1..MaxBpffs
NoInstance == 0
Foreign   == [fs |-> NoInstance, ro |-> FALSE]

Calls     == 1..MaxCalls
NoRequest == [maps |-> <<>>, ro |-> FALSE]

NoCall == [at |-> "none", path |-> NoInstance, req |-> NoRequest,
           todo |-> <<>>, dir |-> NoInstance]

Top(stack) == stack[Len(stack)]
Pop(stack) == SubSeq(stack, 1, Len(stack) - 1)

CsiInit ==
    /\ loaded = {} /\ mapPins = [l \in LoadIDs |-> {}] /\ nextLoad = 1
    /\ podMount = [v \in Volumes |-> <<>>]
    /\ target = [t \in Targets |-> IF t \in ForeignTargets THEN <<Foreign>> ELSE <<>>]
    /\ bpffs = [i \in Instances |-> {}]
    /\ inflight = {} /\ call = [c \in Calls |-> NoCall]
    /\ published = [t \in Targets |-> NoRequest]
    /\ leftover = {}

\* The instances some mount keeps alive; the others are gone with their pins.
MountedIn(pods, targets) ==
    (UNION {{pods[v][i] : i \in DOMAIN pods[v]} : v \in Volumes})
        \cup (UNION {{targets[t][i].fs : i \in DOMAIN targets[t]} : t \in Targets})

KeepMounted(pods, targets, contents) ==
    [i \in Instances |-> IF i \in MountedIn(pods, targets) THEN contents[i] ELSE {}]

FreeSlots == {c \in Calls : call[c] = NoCall}

Goto(c, at) == call' = [call EXCEPT ![c].at = at]

TryAcquire(v) == v \notin inflight /\ inflight' = inflight \cup {v}

\* The RPC returns: its deferred Release runs.
Reply(c) ==
    /\ inflight' = inflight \ {VolumeOf[call[c].path]}
    /\ call' = [call EXCEPT ![c] = NoCall]

-----------------------------------------------------------------------------
(***************************************************************************)
(* Mounts                                                                  *)
(***************************************************************************)

\* RemoveAll below a path: what is still mounted there loses its pins.
RemoveAll(stack, contents) ==
    IF stack = <<>> \/ Top(stack) = NoInstance THEN contents
                    ELSE [contents EXCEPT ![Top(stack)] = {}]

\* cleanupMount of a target: one unmount, then the directory goes.
CleanTarget(t) ==
    LET left == IF target[t] = <<>> THEN <<>> ELSE Pop(target[t])
        now  == [target EXCEPT ![t] = left]
    IN  /\ target' = now
        /\ bpffs' = KeepMounted(podMount, now,
                        RemoveAll([i \in DOMAIN left |-> left[i].fs], bpffs))
        /\ UNCHANGED podMount

UnmountTarget(t) ==
    LET now == [target EXCEPT ![t] = IF target[t] = <<>> THEN <<>> ELSE Pop(target[t])]
    IN  /\ target' = now
        /\ bpffs' = KeepMounted(podMount, now, bpffs)
        /\ UNCHANGED podMount

\* cleanupMount of a per-pod bpffs.
CleanPod(v) ==
    LET left == IF podMount[v] = <<>> THEN <<>> ELSE Pop(podMount[v])
        now  == [podMount EXCEPT ![v] = left]
    IN  /\ podMount' = now
        /\ bpffs' = KeepMounted(now, target, RemoveAll(left, bpffs))
        /\ UNCHANGED target

\* An unmount is refused (the mount is busy): nothing changes.
UnmountRefused(stack) ==
    /\ "unmount" \in CsiFaults
    /\ stack # <<>>
    /\ UNCHANGED hostVars

-----------------------------------------------------------------------------
(***************************************************************************)
(* NodePublishVolume.  A call that is malformed, or that the lock turns    *)
(* away, changes nothing.                                                  *)
(***************************************************************************)

\* The list of names may be empty once it is trimmed and deduplicated.
WellFormed(r) == r.maps # <<>>

NodePublishVolume(t, r) ==
    /\ WellFormed(r)
    /\ FreeSlots # {}
    /\ TryAcquire(VolumeOf[t])
    /\ call' = [call EXCEPT ![Min(FreeSlots)] = [at |-> "check", path |-> t, req |-> r,
                                                 todo |-> r.maps, dir |-> NoInstance]]
    /\ UNCHANGED <<progVars, hostVars, published, leftover>>

\* The names at the target and the flag of its mount against the request.
PublishMatches(m, r) ==
    /\ m.ro = r.ro
    /\ {pin[2] : pin \in bpffs[m.fs]} = Range(r.maps)

\* A target that is mounted is answered from what is seen there: OK when it
\* matches, ALREADY_EXISTS or FAILED_PRECONDITION when it does not.
CheckTarget(c) ==
    LET t == call[c].path
        r == call[c].req
    IN  /\ call[c].at = "check"
        /\ \/ /\ target[t] = <<>>
              /\ Goto(c, "find")
              /\ UNCHANGED <<inflight, published>>
           \/ /\ target[t] # <<>>
              /\ published' =
                    IF Top(target[t]) # Foreign /\ PublishMatches(Top(target[t]), r)
                    THEN [published EXCEPT ![t] = r] ELSE published
              /\ Reply(c)
        /\ UNCHANGED <<progVars, hostVars, leftover>>

\* The lowest id of the programs found; its MapsDir is used from here on.
FindLoadedProgramByMetadata(c) ==
    /\ call[c].at = "find"
    /\ \/ /\ loaded = {}
          /\ Reply(c)
       \/ /\ loaded # {}
          /\ call' = [call EXCEPT ![c].at = "stale", ![c].dir = Min(loaded)]
          /\ UNCHANGED inflight
    /\ UNCHANGED <<progVars, hostVars, published, leftover>>

\* A per-pod bpffs from an earlier attempt is cleaned first.
CleanStaleNever(c) ==
    /\ call[c].at = "stale"
    /\ Goto(c, "mount")
    /\ UNCHANGED <<progVars, hostVars, inflight, published, leftover>>

CleanStale(c) ==
    LET v == VolumeOf[call[c].path]
    IN  /\ call[c].at = "stale"
        /\ \/ /\ podMount[v] # <<>>
              /\ CleanPod(v)
              /\ podMount'[v] = <<>>
              /\ Goto(c, "mount")
           \/ /\ podMount[v] = <<>>
              /\ Goto(c, "mount")
              /\ UNCHANGED hostVars
           \/ /\ UnmountRefused(podMount[v])
              /\ Goto(c, "unbind")
           \/ /\ podMount[v] # <<>>
              /\ CleanPod(v)
              /\ podMount'[v] # <<>> \/ "rmdir" \in CsiFaults
              /\ Goto(c, "unbind")
        /\ UNCHANGED <<progVars, inflight, published, leftover>>

\* MkdirAll, mountBpffs, and the group of the new directory.
MountBpffs(c) ==
    LET v == VolumeOf[call[c].path]
        free == Instances \ MountedIn(podMount, target)
    IN  /\ call[c].at = "mount"
        /\ \/ /\ free # {}
              /\ podMount' = [podMount EXCEPT ![v] = Append(@, Min(free))]
              /\ Goto(c, "repin")
              /\ UNCHANGED <<target, bpffs>>
           \/ /\ "mount" \in CsiFaults
              /\ Goto(c, "unbind")
              /\ UNCHANGED hostVars
        /\ UNCHANGED <<progVars, inflight, published, leftover>>

\* The next requested map: stat of the source, RepinMap, its group and mode.
\* A map that is not pinned (or no longer) is NOT_FOUND.
RepinMapFrom(c, dir) ==
    LET v == VolumeOf[call[c].path]
        m == Head(call[c].todo)
    IN  /\ call[c].at = "repin"
        /\ call[c].todo # <<>>
        /\ \/ /\ m \in mapPins[dir]
              /\ bpffs' = [bpffs EXCEPT ![Top(podMount[v])] = @ \cup {<<dir, m>>}]
              /\ call' = [call EXCEPT ![c].todo = Tail(@)]
           \/ /\ m \notin mapPins[dir] \/ "repin" \in CsiFaults
              /\ Goto(c, "unbind")
              /\ UNCHANGED bpffs
        /\ UNCHANGED <<progVars, podMount, target, inflight, published, leftover>>

RepinMapLookedUp(c) == loaded # {} /\ RepinMapFrom(c, Min(loaded))

RepinMap(c) == RepinMapFrom(c, call[c].dir)

\* The bind mount; MS_RDONLY takes a second pass.
BindMount(c) ==
    LET t == call[c].path
    IN  /\ call[c].at = "repin"
        /\ call[c].todo = <<>>
        /\ \/ /\ target' = [target EXCEPT ![t] =
                                Append(@, [fs |-> Top(podMount[VolumeOf[t]]), ro |-> FALSE])]
              /\ Goto(c, IF call[c].req.ro THEN "remount" ELSE "commit")
           \/ /\ "bind" \in CsiFaults
              /\ Goto(c, "unbind")
              /\ UNCHANGED target
        /\ UNCHANGED <<progVars, podMount, bpffs, inflight, published, leftover>>

RemountReadOnly(c) ==
    LET t == call[c].path
    IN  /\ call[c].at = "remount"
        /\ \/ /\ target' = [target EXCEPT ![t][Len(target[t])].ro = TRUE]
              /\ Goto(c, "commit")
           \/ /\ "remount" \in CsiFaults
              /\ Goto(c, "unbind")
              /\ UNCHANGED target
        /\ UNCHANGED <<progVars, podMount, bpffs, inflight, published, leftover>>

Committed(c) ==
    /\ call[c].at = "commit"
    /\ published' = [published EXCEPT ![call[c].path] = call[c].req]
    /\ Reply(c)
    /\ UNCHANGED <<progVars, hostVars, leftover>>

\* The deferred roll-back: the target first, then the per-pod bpffs; errors
\* are only logged.
RollbackTargetSkipped(c) ==
    /\ call[c].at = "unbind"
    /\ Goto(c, "unpod")
    /\ UNCHANGED <<progVars, hostVars, inflight, published, leftover>>

RollbackTarget(c) ==
    LET t == call[c].path
    IN  /\ call[c].at = "unbind"
        /\ \/ UnmountTarget(t) /\ UNCHANGED leftover
           \/ UnmountRefused(target[t]) /\ leftover' = leftover \cup {t}
        /\ Goto(c, "unpod")
        /\ UNCHANGED <<progVars, inflight, published>>

\* The last step of a roll-back and of an unpublish (best effort in both).
CleanPodBpffs(c) ==
    LET v == VolumeOf[call[c].path]
    IN  /\ call[c].at = "unpod"
        /\ CleanPod(v) \/ UnmountRefused(podMount[v])
        /\ Reply(c)
        /\ UNCHANGED <<progVars, published, leftover>>

-----------------------------------------------------------------------------
(***************************************************************************)
(* NodeUnpublishVolume                                                     *)
(***************************************************************************)
NodeUnpublishVolume(t) ==
    /\ FreeSlots # {}
    /\ TryAcquire(VolumeOf[t])
    /\ call' = [call EXCEPT ![Min(FreeSlots)] = [NoCall EXCEPT !.at = "untarget", !.path = t]]
    /\ published' = [published EXCEPT ![t] = NoRequest]
    /\ UNCHANGED <<progVars, hostVars, leftover>>

\* Failing here ends the call; the orchestrator will repeat it.
CleanPublishedTarget(c) ==
    LET t == call[c].path
    IN  /\ call[c].at = "untarget"
        /\ \/ /\ CleanTarget(t)
              /\ target'[t] = <<>>
              /\ leftover' = leftover \ {t}
              /\ Goto(c, "unpod")
              /\ UNCHANGED inflight
           \/ /\ CleanTarget(t)
              /\ target'[t] # <<>> \/ "rmdir" \in CsiFaults
              /\ leftover' = leftover \cup {t}
              /\ Reply(c)
           \/ /\ UnmountRefused(target[t])
              /\ leftover' = leftover \cup {t}
              /\ Reply(c)
        /\ UNCHANGED <<progVars, published>>

-----------------------------------------------------------------------------
(***************************************************************************)
(* Around the driver                                                       *)
(***************************************************************************)

\* The process dies: the calls and the locks are gone, the mounts stay.
Bound(c) == call[c].at \in {"remount", "commit", "unbind", "untarget"}

RestartDriver ==
    /\ "restart" \in CsiFaults
    /\ \E c \in Calls : call[c] # NoCall
    /\ inflight' = {} /\ call' = [c \in Calls |-> NoCall]
    /\ leftover' = leftover \cup {call[c].path : c \in {d \in Calls : Bound(d)}}
    /\ UNCHANGED <<progVars, hostVars, published>>

\* A program appears with its maps pinned under its own id ...
LoadWithMetadata ==
    /\ nextLoad \in LoadIDs
    /\ loaded' = loaded \cup {nextLoad}
    /\ mapPins' = [mapPins EXCEPT ![nextLoad] = Maps]
    /\ nextLoad' = nextLoad + 1
    /\ UNCHANGED <<hostVars, inflight, call, published, leftover>>

\* ... and an unload takes it out of kernel and store, then its map pins
\* in the order of their names.
UnloadProgram(l) ==
    /\ l \in loaded
    /\ loaded' = loaded \ {l}
    /\ UNCHANGED <<mapPins, nextLoad, hostVars, inflight, call, published, leftover>>

RemoveMapPin(l) ==
    /\ l \notin loaded
    /\ mapPins[l] # {}
    /\ mapPins' = [mapPins EXCEPT ![l] = @ \ {Min(@)}]
    /\ UNCHANGED <<loaded, nextLoad, hostVars, inflight, call, published, leftover>>

PublishStep(c) ==
    \/ CheckTarget(c) \/ FindLoadedProgramByMetadata(c) \/ CleanStale(c)
    \/ MountBpffs(c) \/ RepinMap(c) \/ BindMount(c) \/ RemountReadOnly(c) \/ Committed(c)
    \/ RollbackTarget(c) \/ CleanPodBpffs(c)

CsiNext ==
    \/ \E t \in Targets : \/ \E r \in Requests : NodePublishVolume(t, r)
                         \/ NodeUnpublishVolume(t)
    \/ \E c \in Calls : PublishStep(c) \/ CleanPublishedTarget(c)
    \/ RestartDriver
    \/ LoadWithMetadata
    \/ \E l \in LoadIDs : UnloadProgram(l) \/ RemoveMapPin(l)

CsiSpec == CsiInit /\ [][CsiNext]_csiVars

-----------------------------------------------------------------------------
(***************************************************************************)
(* What the node service promises                                          *)
(***************************************************************************)

\* A target answered OK shows exactly the maps asked for, read-only exactly
\* if asked, all of one load of the program, until it is unpublished: other
\* calls, restarts, unloads and a second target of the volume do not change
\* it.
PublishedAsAsked ==
    \A t \in Targets : published[t] # NoRequest =>
        /\ Len(target[t]) = 1
        /\ LET m == Top(target[t])
           IN  /\ m # Foreign
               /\ m.ro = published[t].ro
               /\ {pin[2] : pin \in bpffs[m.fs]} = Range(published[t].maps)
               /\ Cardinality({pin[1] : pin \in bpffs[m.fs]}) = 1

\* No path ever carries two mounts: NodeUnpublishVolume removes only one.
NothingStacked ==
    /\ \A v \in Volumes : Len(podMount[v]) <= 1
    /\ \A t \in Targets : Len(target[t]) <= 1

\* Between calls a target is mounted only for a publish that was answered
\* OK, unless a call died after the bind mount or an unmount was refused:
\* only then is a retry answered ALREADY_EXISTS.
FailedPublishLeavesNothing ==
    \A t \in Targets :
        /\ VolumeOf[t] \notin inflight
        /\ t \notin leftover
        /\ target[t] # <<Foreign>>
        => (target[t] # <<>> <=> published[t] # NoRequest)
=============================================================================
