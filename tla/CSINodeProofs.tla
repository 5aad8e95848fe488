--------------------------- MODULE CSINodeProofs ---------------------------
(***************************************************************************)
(* Proofs about CSINode: the lock per volume is enough for every target to *)
(* show what it was answered OK for, for no mount to hide another and for  *)
(* a failed publish to leave nothing behind, for any number of volumes,    *)
(* targets, maps and calls in progress and under any faults.               *)
(***************************************************************************)
EXTENDS CSINode, WellFoundedInduction, FiniteSetTheorems, TLAPS

PublishStages == {"check", "find", "stale", "mount", "repin", "remount", "commit", "unbind"}
Stages        == PublishStages \cup {"untarget", "unpod"}

CallRecord ==
    [at: Stages, path: Targets, req: Requests \cup {NoRequest}, todo: Seq(Maps),
     dir: LoadIDs \cup {NoInstance}]

Active(c) == call[c].at # "none"
VolOf(c)  == VolumeOf[call[c].path]

CallType ==
    /\ call \in [Calls -> CallRecord \cup {NoCall}]
    /\ loaded \subseteq LoadIDs
    /\ published \in [Targets -> Requests \cup {NoRequest}]

\* One call at a time works on a volume.
LockInv ==
    /\ \A c \in Calls : Active(c) => VolOf(c) \in inflight
    /\ \A c, d \in Calls : Active(c) /\ Active(d) /\ VolOf(c) = VolOf(d) => c = d

Mount == [fs: Instances \cup {NoInstance}, ro: BOOLEAN]

Mounted(t) == target[t] # <<>>
Fs(t)      == Top(target[t]).fs
Names(i)   == {pin[2] : pin \in bpffs[i]}

\* No path has more than one mount.
Flat(pods, targets) ==
    /\ \A v \in Volumes : pods[v] = <<>> \/ \E i \in Instances : pods[v] = <<i>>
    /\ \A t \in Targets : targets[t] = <<>> \/ \E m \in Mount : targets[t] = <<m>>

MountType ==
    /\ DOMAIN podMount = Volumes /\ DOMAIN target = Targets /\ DOMAIN bpffs = Instances
    /\ Flat(podMount, target)

\* Volumes share no instance, and what nobody mounts is empty.
InstanceInv ==
    /\ \A v, w \in Volumes : podMount[v] # <<>> /\ podMount[v] = podMount[w] => v = w
    /\ \A i \in Instances : i \notin MountedIn(podMount, target) => bpffs[i] = {}

\* A call fills an instance that is only its own ...
Filling(c) ==
    \E i \in Instances :
        /\ podMount[VolOf(c)] = <<i>>
        /\ \A t \in Targets : Mounted(t) => Fs(t) # i
        /\ \A pin \in bpffs[i] : pin[1] = call[c].dir
        /\ Names(i) \cup Range(call[c].todo) = Range(call[c].req.maps)

\* ... and reports the mount it was asked for.
Showing(t, r) ==
    Mounted(t) /\ Top(target[t]) # Foreign /\ Names(Fs(t)) = Range(r.maps)

\* Where a call in progress is with its mounts, stage by stage.
CallInv(c) ==
    /\ call[c].at \in {"find", "stale", "mount", "repin"} => ~Mounted(call[c].path)
    /\ call[c].at = "mount" => podMount[VolOf(c)] = <<>>
    /\ call[c].at \notin {"none", "check"} => published[call[c].path] = NoRequest
    /\ call[c].at \in PublishStages => WellFormed(call[c].req)
    /\ call[c].at \in {"check", "find", "stale", "mount"} => call[c].todo = call[c].req.maps
    /\ call[c].at \in {"stale", "mount", "repin"} => call[c].dir \in LoadIDs
    /\ call[c].at = "repin" => Filling(c)
    /\ call[c].at \in {"remount", "commit"} => Showing(call[c].path, call[c].req)
    /\ call[c].at = "remount" => call[c].req.ro
    /\ call[c].at = "commit" => Top(target[call[c].path]).ro = call[c].req.ro

\* All pins are of one load of the program.
OneLoad(S) == S # {} /\ \E d \in LoadIDs : \A pin \in S : pin[1] = d

\* A mounted target is complete, and shows what it was answered OK for; it is
\* a published one, left over, or a call in progress answers for it.
TargetInv(t) ==
    /\ Mounted(t) /\ Top(target[t]) # Foreign =>
          Fs(t) \in Instances /\ OneLoad(bpffs[Fs(t)])
    /\ published[t] # NoRequest =>
          Showing(t, published[t]) /\ Top(target[t]).ro = published[t].ro
    /\ Mounted(t) /\ target[t] # <<Foreign>> /\ t \notin leftover =>
          \/ published[t] # NoRequest
          \/ \E c \in Calls : call[c].path = t /\ Bound(c)

Inv ==
    /\ CallType /\ LockInv /\ MountType /\ InstanceInv
    /\ \A c \in Calls : CallInv(c)
    /\ \A t \in Targets : TargetInv(t)

-----------------------------------------------------------------------------
(***************************************************************************)
(* Sequences of at most one mount                                          *)
(***************************************************************************)
LEMMA OneElement ==
  ASSUME NEW x
  PROVE  Top(<<x>>) = x /\ Pop(<<x>>) = <<>> /\ <<x>> # <<>> /\ Append(<<>>, x) = <<x>>
  BY DEF Top, Pop

LEMMA ExceptOne == ASSUME NEW x, NEW y PROVE [<<x>> EXCEPT ![1] = y] = <<y>>
  OBVIOUS

\* The first name, and the rest of them.
LEMMA RangeTail ==
  ASSUME NEW S, NEW s \in Seq(S), s # <<>>
  PROVE  Head(s) \in S /\ Tail(s) \in Seq(S) /\ Range(s) = {Head(s)} \cup Range(Tail(s))
  <1>1. Head(s) \in S /\ Tail(s) \in Seq(S) /\ Len(Tail(s)) = Len(s) - 1 /\ Len(s) \in Nat \ {0}
    OBVIOUS
  <1>2. \A a \in 1..(Len(s) - 1) : Tail(s)[a] = s[a + 1]
    OBVIOUS
  <1>3. DOMAIN s = 1..Len(s) /\ DOMAIN Tail(s) = 1..(Len(s) - 1) /\ Head(s) = s[1]
    BY <1>1
  <1>4. ASSUME NEW x \in Range(s) PROVE x \in {Head(s)} \cup Range(Tail(s))
    <2>1. PICK a \in 1..Len(s) : x = s[a]
      BY <1>3 DEF Range
    <2>2. CASE a = 1
      BY <1>3, <2>1, <2>2
    <2>3. CASE a # 1
      <3>1. a - 1 \in 1..(Len(s) - 1) /\ (a - 1) + 1 = a
        BY <1>1, <2>1, <2>3
      <3>2. Tail(s)[a - 1] = s[(a - 1) + 1]
        BY <1>2, <3>1
      <3>3. Tail(s)[a - 1] = x
        BY <2>1, <3>1, <3>2
      <3> QED BY <1>3, <3>1, <3>3 DEF Range
    <2> QED BY <2>2, <2>3
  <1>5. ASSUME NEW x \in {Head(s)} \cup Range(Tail(s)) PROVE x \in Range(s)
    <2>1. CASE x = Head(s)
      <3>1. 1 \in DOMAIN s
        BY <1>1, <1>3
      <3> QED BY <1>3, <2>1, <3>1 DEF Range
    <2>2. CASE x \in Range(Tail(s))
      <3>1. PICK a \in 1..(Len(s) - 1) : x = Tail(s)[a]
        BY <1>3, <2>2 DEF Range
      <3>2. a + 1 \in DOMAIN s
        BY <1>1, <1>3
      <3>3. x = s[a + 1]
        BY <1>2, <3>1
      <3> QED BY <3>2, <3>3 DEF Range
    <2> QED BY <2>1, <2>2
  <1> QED BY <1>1, <1>4, <1>5

\* The names in an instance with one more pin.
LEMMA NamesGrow ==
  ASSUME NEW S, NEW d, NEW x
  PROVE  {pin[2] : pin \in S \cup {<<d, x>>}} = {pin[2] : pin \in S} \cup {x}
  <1> DEFINE A == {pin[2] : pin \in S \cup {<<d, x>>}}
             B == {pin[2] : pin \in S} \cup {x}
  <1>1. ASSUME NEW y \in A PROVE y \in B
    <2>1. PICK pin \in S \cup {<<d, x>>} : y = pin[2]
      OBVIOUS
    <2>2. pin \in S \/ pin[2] = x
      OBVIOUS
    <2> QED BY <2>1, <2>2
  <1>2. ASSUME NEW y \in B PROVE y \in A
    <2>1. CASE y = x
      <3>1. <<d, x>>[2] = x
        OBVIOUS
      <3> QED BY <2>1, <3>1
    <2>2. CASE y # x
      BY <2>2
    <2> QED BY <2>1, <2>2
  <1> QED BY <1>1, <1>2

\* Every set of natural numbers has a least one.
LEMMA LeastNumber ==
  ASSUME NEW T \in SUBSET Nat, T # {}
  PROVE  \E x \in T : \A y \in T : x <= y
  <1> DEFINE R == {ss \in Nat \X Nat : ss[1] < ss[2]}
  <1>1. IsWellFoundedOn(R, Nat)
    BY NatLessThanWellFounded DEF OpToRel
  <1>2. \A x, y \in Nat : <<x, y>> \in R <=> x < y
    OBVIOUS
  <1> HIDE DEF R
  <1>3. PICK x \in T : \A y \in T : ~(<<y, x>> \in R)
    BY <1>1, WFMin
  <1>4. ASSUME NEW y \in T PROVE x <= y
    <2>1. ~(<<y, x>> \in R)
      BY <1>3
    <2>2. x \in Nat /\ y \in Nat
      OBVIOUS
    <2>3. ~(y < x)
      BY <1>2, <2>1, <2>2
    <2> QED BY <2>2, <2>3
  <1> QED BY <1>4

\* The least of a set of numbers is one of them.
LEMMA MinLemma == ASSUME NEW T \in SUBSET Nat, T # {} PROVE Min(T) \in T
  BY LeastNumber DEF Min

-----------------------------------------------------------------------------
(***************************************************************************)
(* Calls                                                                   *)
(***************************************************************************)
LEMMA ActiveCall ==
  ASSUME CallType, NEW c \in Calls, Active(c)
  PROVE  /\ call[c] \in CallRecord /\ call[c].at \in Stages
         /\ call[c].path \in Targets /\ VolOf(c) \in Volumes
         /\ call[c].req \in Requests \cup {NoRequest} /\ call[c].todo \in Seq(Maps)
         /\ call[c].dir \in LoadIDs \cup {NoInstance}
  <1>1. call[c] \in CallRecord
    BY DEF CallType, Active, NoCall
  <1> QED BY <1>1, VolumeOfAssumption DEF CallRecord, VolOf

LEMMA RequestType ==
  ASSUME NEW r \in Requests \cup {NoRequest} PROVE r.maps \in Seq(Maps) /\ r.ro \in BOOLEAN
  <1>1. CASE r \in Requests
    <2>1. r \in [maps: Seq(Maps), ro: BOOLEAN]
      BY <1>1, RequestAssumption
    <2> QED BY <2>1
  <1>2. CASE r = NoRequest
    BY <1>2 DEF NoRequest
  <1> QED BY <1>1, <1>2

\* A call that goes on keeps what it is about.
LEMMA GotoLemma ==
  ASSUME CallType, NEW c \in Calls, Active(c), NEW at \in Stages, Goto(c, at)
  PROVE  /\ call'[c].at = at /\ call'[c].path = call[c].path /\ call'[c].req = call[c].req
         /\ call'[c].todo = call[c].todo /\ call'[c].dir = call[c].dir
         /\ \A d \in Calls : d # c => call'[d] = call[d]
         /\ call' \in [Calls -> CallRecord \cup {NoCall}]
  <1>1. call[c] \in CallRecord
    BY ActiveCall
  <1>2. call \in [Calls -> CallRecord \cup {NoCall}]
    BY DEF CallType
  <1>3. call' = [call EXCEPT ![c] = [call[c] EXCEPT !.at = at]]
    BY DEF Goto
  <1>4. [call[c] EXCEPT !.at = at] \in CallRecord
    BY <1>1 DEF CallRecord
  <1>5. call'[c] = [call[c] EXCEPT !.at = at] /\ \A d \in Calls : d # c => call'[d] = call[d]
    BY <1>2, <1>3
  <1>6. call' \in [Calls -> CallRecord \cup {NoCall}]
    BY <1>2, <1>3, <1>4
  <1>7. /\ call'[c].at = at /\ call'[c].path = call[c].path /\ call'[c].req = call[c].req
        /\ call'[c].todo = call[c].todo /\ call'[c].dir = call[c].dir
    BY <1>1, <1>5 DEF CallRecord
  <1> QED BY <1>5, <1>6, <1>7

\* A call that returns is gone.
LEMMA ReplyLemma ==
  ASSUME CallType, NEW c \in Calls, Reply(c)
  PROVE  /\ call'[c] = NoCall /\ ~Active(c)' /\ inflight' = inflight \ {VolOf(c)}
         /\ \A d \in Calls : d # c => call'[d] = call[d]
         /\ call' \in [Calls -> CallRecord \cup {NoCall}]
  <1>1. call' = [call EXCEPT ![c] = NoCall] /\ inflight' = inflight \ {VolOf(c)}
    BY DEF Reply, VolOf
  <1>2. call'[c] = NoCall /\ \A d \in Calls : d # c => call'[d] = call[d]
    BY <1>1 DEF CallType
  <1>3. call' \in [Calls -> CallRecord \cup {NoCall}]
    BY <1>1 DEF CallType
  <1>4. ~Active(c)'
    BY <1>2 DEF Active, NoCall
  <1> QED BY <1>1, <1>2, <1>3, <1>4

\* A free slot.
LEMMA FreeSlotLemma ==
  ASSUME FreeSlots # {}
  PROVE  Min(FreeSlots) \in Calls /\ call[Min(FreeSlots)] = NoCall
  <1>1. FreeSlots \in SUBSET Nat
    BY DEF FreeSlots, Calls
  <1>2. Min(FreeSlots) \in FreeSlots
    BY <1>1, MinLemma
  <1> QED BY <1>2 DEF FreeSlots

-----------------------------------------------------------------------------
(***************************************************************************)
(* Mounts                                                                  *)
(***************************************************************************)

\* Which instances are mounted.
LEMMA MountedLemma ==
  ASSUME NEW P, NEW T, Flat(P, T), NEW i \in Instances
  PROVE  i \in MountedIn(P, T) <=>
            \/ \E v \in Volumes : P[v] = <<i>>
            \/ \E t \in Targets : T[t] # <<>> /\ Top(T[t]).fs = i
  <1>1. i \in MountedIn(P, T) <=>
            \/ \E v \in Volumes : \E k \in DOMAIN P[v] : P[v][k] = i
            \/ \E t \in Targets : \E k \in DOMAIN T[t] : T[t][k].fs = i
    <2> DEFINE InPods    == UNION {{P[v][k] : k \in DOMAIN P[v]} : v \in Volumes}
               InTargets == UNION {{T[t][k].fs : k \in DOMAIN T[t]} : t \in Targets}
    <2>1. i \in InPods <=> \E v \in Volumes : \E k \in DOMAIN P[v] : P[v][k] = i
      OBVIOUS
    <2>2. i \in InTargets <=> \E t \in Targets : \E k \in DOMAIN T[t] : T[t][k].fs = i
      OBVIOUS
    <2>3. MountedIn(P, T) = InPods \cup InTargets
      BY DEF MountedIn
    <2> HIDE DEF InPods, InTargets
    <2> QED BY <2>1, <2>2, <2>3
  <1>2. ASSUME NEW v \in Volumes PROVE P[v] = <<i>> <=> \E k \in DOMAIN P[v] : P[v][k] = i
    <2>1. CASE P[v] = <<>>
      BY <2>1
    <2>2. CASE \E j \in Instances : P[v] = <<j>>
      BY <2>2
    <2> QED BY <2>1, <2>2 DEF Flat
  <1>3. ASSUME NEW t \in Targets
        PROVE  (T[t] # <<>> /\ Top(T[t]).fs = i) <=> \E k \in DOMAIN T[t] : T[t][k].fs = i
    <2>1. CASE T[t] = <<>>
      BY <2>1
    <2>2. CASE \E m \in Mount : T[t] = <<m>>
      <3>1. PICK m \in Mount : T[t] = <<m>>
        BY <2>2
      <3>2. T[t] # <<>> /\ Top(T[t]) = m
        BY <3>1, OneElement
      <3>3. (\E k \in DOMAIN T[t] : T[t][k].fs = i) <=> m.fs = i
        BY <3>1
      <3> QED BY <3>2, <3>3
    <2> QED BY <2>1, <2>2 DEF Flat
  <1> QED BY <1>1, <1>2, <1>3

\* More mounts keep at least as many instances.
LEMMA MountedGrows ==
  ASSUME NEW P, NEW T, Flat(P, T), NEW Q, NEW U, Flat(Q, U), NEW i \in Instances,
         \A v \in Volumes : P[v] = <<i>> => Q[v] = <<i>>,
         \A t \in Targets : T[t] # <<>> => U[t] # <<>> /\ Top(U[t]).fs = Top(T[t]).fs,
         i \notin MountedIn(Q, U)
  PROVE  i \notin MountedIn(P, T)
  <1>1. i \in MountedIn(P, T) <=>
            \/ \E v \in Volumes : P[v] = <<i>>
            \/ \E t \in Targets : T[t] # <<>> /\ Top(T[t]).fs = i
    BY MountedLemma
  <1>2. i \in MountedIn(Q, U) <=>
            \/ \E v \in Volumes : Q[v] = <<i>>
            \/ \E t \in Targets : U[t] # <<>> /\ Top(U[t]).fs = i
    BY MountedLemma
  <1> QED BY <1>1, <1>2

\* A target with a mount has one, and shows it.
LEMMA TopLemma ==
  ASSUME NEW P, NEW T, Flat(P, T), NEW t \in Targets, T[t] # <<>>
  PROVE  Top(T[t]) \in Mount /\ T[t] = <<Top(T[t])>> /\ Pop(T[t]) = <<>> /\ Len(T[t]) = 1
  <1>1. PICK m \in Mount : T[t] = <<m>>
    BY DEF Flat
  <1>2. Len(<<m>>) = 1
    OBVIOUS
  <1> QED BY <1>1, <1>2, OneElement

LEMMA PodLemma ==
  ASSUME NEW P, NEW T, Flat(P, T), NEW v \in Volumes, P[v] # <<>>
  PROVE  Top(P[v]) \in Instances /\ P[v] = <<Top(P[v])>> /\ Pop(P[v]) = <<>> /\ Len(P[v]) = 1
  <1>1. PICK i \in Instances : P[v] = <<i>>
    BY DEF Flat
  <1>2. Len(<<i>>) = 1
    OBVIOUS
  <1> QED BY <1>1, <1>2, OneElement

\* What the mounts of a step leave in the instances.
LEMMA KeepLemma ==
  ASSUME NEW P, NEW T, NEW i \in Instances
  PROVE  /\ DOMAIN KeepMounted(P, T, bpffs) = Instances
         /\ i \in MountedIn(P, T) => KeepMounted(P, T, bpffs)[i] = bpffs[i]
         /\ i \notin MountedIn(P, T) => KeepMounted(P, T, bpffs)[i] = {}
  BY DEF KeepMounted

\* A target is unmounted, with or without its directory.
LEMMA TargetGone ==
  ASSUME MountType, NEW t \in Targets, CleanTarget(t) \/ UnmountTarget(t)
  PROVE  /\ podMount' = podMount /\ target' = [target EXCEPT ![t] = <<>>]
         /\ bpffs' = KeepMounted(podMount, target', bpffs)
  <1> DEFINE left == IF target[t] = <<>> THEN <<>> ELSE Pop(target[t])
  <1>1. left = <<>>
    <2>1. CASE target[t] = <<>>
      BY <2>1
    <2>2. CASE target[t] # <<>>
      <3>1. Pop(target[t]) = <<>>
        BY <2>2, TopLemma DEF MountType
      <3> QED BY <2>2, <3>1
    <2> QED BY <2>1, <2>2
  <1>2. CASE UnmountTarget(t)
    BY <1>1, <1>2 DEF UnmountTarget
  <1>3. CASE CleanTarget(t)
    <2>1. /\ target' = [target EXCEPT ![t] = left] /\ podMount' = podMount
          /\ bpffs' = KeepMounted(podMount, target', RemoveAll([i \in DOMAIN left |-> left[i].fs], bpffs))
      BY <1>3 DEF CleanTarget
    <2> HIDE DEF left
    <2>2. [i \in DOMAIN left |-> left[i].fs] = <<>>
      BY <1>1
    <2>3. RemoveAll([i \in DOMAIN left |-> left[i].fs], bpffs) = bpffs
      BY <2>2 DEF RemoveAll
    <2> QED BY <1>1, <2>1, <2>3
  <1> QED BY <1>2, <1>3

\* A per-pod bpffs is unmounted.
LEMMA PodGone ==
  ASSUME MountType, NEW v \in Volumes, CleanPod(v)
  PROVE  /\ target' = target /\ podMount' = [podMount EXCEPT ![v] = <<>>]
         /\ bpffs' = KeepMounted(podMount', target, bpffs)
  <1> DEFINE left == IF podMount[v] = <<>> THEN <<>> ELSE Pop(podMount[v])
  <1>1. left = <<>>
    <2>1. CASE podMount[v] = <<>>
      BY <2>1
    <2>2. CASE podMount[v] # <<>>
      <3>1. Pop(podMount[v]) = <<>>
        BY <2>2, PodLemma DEF MountType
      <3> QED BY <2>2, <3>1
    <2> QED BY <2>1, <2>2
  <1>2. /\ podMount' = [podMount EXCEPT ![v] = left] /\ target' = target
        /\ bpffs' = KeepMounted(podMount', target, RemoveAll(left, bpffs))
    BY DEF CleanPod
  <1> HIDE DEF left
  <1>3. RemoveAll(left, bpffs) = bpffs
    BY <1>1 DEF RemoveAll
  <1> QED BY <1>1, <1>2, <1>3

-----------------------------------------------------------------------------
(***************************************************************************)
(* A step of one call leaves the mounts of all others alone                *)
(***************************************************************************)
HostLocal(c) ==
    /\ MountType' /\ InstanceInv'
    /\ \A v \in Volumes : v # VolOf(c) =>
          podMount'[v] = podMount[v] /\ \A i \in Instances : podMount[v] = <<i>> => bpffs'[i] = bpffs[i]
    /\ \A t \in Targets : t # call[c].path =>
          target'[t] = target[t] /\ (Mounted(t) /\ Fs(t) \in Instances => bpffs'[Fs(t)] = bpffs[Fs(t)])
    /\ target'[call[c].path] # <<>> =>
          \/ target[call[c].path] # <<>> /\ Top(target'[call[c].path]).fs = Fs(call[c].path)
          \/ podMount[VolOf(c)] = <<Top(target'[call[c].path]).fs>>

LEMMA HostStill ==
  ASSUME Inv, UNCHANGED hostVars, NEW c \in Calls PROVE HostLocal(c)
  <1>1. podMount' = podMount /\ target' = target /\ bpffs' = bpffs
    BY DEF hostVars
  <1>2. MountType' /\ InstanceInv'
    BY <1>1 DEF Inv, MountType, InstanceInv
  <1> QED BY <1>1, <1>2 DEF HostLocal, Fs

\* Unmounting something keeps what is still mounted.
LEMMA Unmounting ==
  ASSUME Inv, NEW c \in Calls, Active(c),
         \/ CleanTarget(call[c].path) \/ UnmountTarget(call[c].path)
         \/ CleanPod(VolOf(c))
  PROVE  HostLocal(c)
  <1>1. /\ MountType /\ InstanceInv /\ call[c].path \in Targets /\ VolOf(c) \in Volumes
        /\ Flat(podMount, target)
        /\ DOMAIN podMount = Volumes /\ DOMAIN target = Targets /\ DOMAIN bpffs = Instances
    BY ActiveCall DEF Inv, MountType
  <1>2. /\ bpffs' = KeepMounted(podMount', target', bpffs)
        /\ podMount' = podMount \/ podMount' = [podMount EXCEPT ![VolOf(c)] = <<>>]
        /\ target' = target \/ target' = [target EXCEPT ![call[c].path] = <<>>]
    BY <1>1, TargetGone, PodGone
  <1>3. /\ DOMAIN podMount' = Volumes /\ DOMAIN target' = Targets
        /\ \A v \in Volumes : podMount'[v] = podMount[v] \/ (v = VolOf(c) /\ podMount'[v] = <<>>)
        /\ \A t \in Targets : target'[t] = target[t] \/ (t = call[c].path /\ target'[t] = <<>>)
    BY <1>1, <1>2
  <1>4. Flat(podMount', target')
    BY <1>1, <1>3 DEF Flat
  <1>5. /\ DOMAIN bpffs' = Instances
        /\ \A i \in Instances : i \in MountedIn(podMount', target') => bpffs'[i] = bpffs[i]
        /\ \A i \in Instances : i \notin MountedIn(podMount', target') => bpffs'[i] = {}
    BY <1>2 DEF KeepMounted
  <1>6. MountType'
    BY <1>3, <1>4, <1>5 DEF MountType, Flat
  <1>7. InstanceInv'
    BY <1>1, <1>3, <1>5 DEF InstanceInv, MountedIn
  <1>8. ASSUME NEW v \in Volumes, v # VolOf(c), NEW i \in Instances, podMount[v] = <<i>>
        PROVE  bpffs'[i] = bpffs[i]
    BY <1>3, <1>4, <1>5, <1>8, MountedLemma
  <1>9. ASSUME NEW t \in Targets, t # call[c].path, Mounted(t), Fs(t) \in Instances
        PROVE  bpffs'[Fs(t)] = bpffs[Fs(t)]
    <2>1. target'[t] # <<>> /\ Top(target'[t]).fs = Fs(t)
      BY <1>3, <1>9 DEF Mounted, Fs
    <2>2. Fs(t) \in MountedIn(podMount', target')
      BY <1>4, <1>9, <2>1, MountedLemma
    <2> QED BY <1>5, <1>9, <2>2
  <1>10. target'[call[c].path] # <<>> =>
            target[call[c].path] # <<>> /\ Top(target'[call[c].path]).fs = Fs(call[c].path)
    BY <1>1, <1>3 DEF Fs
  <1> QED BY <1>3, <1>6, <1>7, <1>8, <1>9, <1>10 DEF HostLocal


\* The other calls and targets are as they were.
LEMMA Others ==
  ASSUME Inv, NEW c \in Calls, Active(c), HostLocal(c),
         \A d \in Calls : d # c => call'[d] = call[d],
         \A t \in Targets : t # call[c].path =>
             published'[t] = published[t] /\ (t \in leftover => t \in leftover')
  PROVE  /\ \A d \in Calls : d # c => CallInv(d)'
         /\ \A t \in Targets : t # call[c].path => TargetInv(t)'
  <1>0. /\ CallType /\ LockInv /\ InstanceInv /\ MountType /\ Flat(podMount, target)
        /\ call[c].path \in Targets /\ VolOf(c) \in Volumes
    BY ActiveCall DEF Inv, MountType
  <1>l. /\ \A v \in Volumes : v # VolOf(c) => podMount'[v] = podMount[v]
        /\ \A v \in Volumes : v # VolOf(c) => \A i \in Instances : podMount[v] = <<i>> => bpffs'[i] = bpffs[i]
        /\ \A t \in Targets : t # call[c].path => target'[t] = target[t]
        /\ \A t \in Targets : t # call[c].path =>
              (Mounted(t) /\ Fs(t) \in Instances => bpffs'[Fs(t)] = bpffs[Fs(t)])
    BY DEF HostLocal
  <1>s. ASSUME NEW t \in Targets, t # call[c].path, Mounted(t), Top(target[t]) # Foreign
        PROVE  /\ Mounted(t)' /\ Top(target[t])' = Top(target[t]) /\ Fs(t)' = Fs(t)
               /\ Fs(t) \in Instances /\ bpffs'[Fs(t)] = bpffs[Fs(t)] /\ Names(Fs(t))' = Names(Fs(t))
    <2>1. target'[t] = target[t]
      BY <1>l, <1>s
    <2>2. Mounted(t)' /\ Top(target[t])' = Top(target[t]) /\ Fs(t)' = Fs(t)
      BY <1>s, <2>1 DEF Mounted, Fs, Top
    <2>3. Fs(t) \in Instances
      BY <1>s DEF Inv, TargetInv
    <2>4. bpffs'[Fs(t)] = bpffs[Fs(t)]
      BY <1>l, <1>s, <2>3
    <2> QED BY <2>2, <2>3, <2>4 DEF Names
  <1>1. ASSUME NEW d \in Calls, d # c PROVE CallInv(d)'
    <2>1. CallInv(d) /\ call'[d] = call[d]
      BY <1>1 DEF Inv
    <2>2. CASE ~Active(d)
      <3>1. call'[d].at = "none"
        BY <2>1, <2>2 DEF Active
      <3> QED BY <3>1 DEF CallInv, PublishStages
    <2>3. CASE Active(d)
      <3> DEFINE t == call[d].path
                 v == VolOf(d)
      <3>1. t \in Targets /\ v \in Volumes /\ v # VolOf(c) /\ t # call[c].path
        <4>1. t \in Targets /\ v \in Volumes
          BY <1>0, <2>3, ActiveCall
        <4>2. v # VolOf(c)
          BY <1>0, <1>1, <2>3 DEF LockInv
        <4> QED BY <4>1, <4>2 DEF VolOf
      <3>2. podMount'[v] = podMount[v] /\ target'[t] = target[t] /\ published'[t] = published[t]
        BY <1>l, <3>1
      <3>3. VolOf(d)' = v
        BY <2>1 DEF VolOf
      <3>4. (~Mounted(t) => ~Mounted(t)') /\ Top(target'[t]) = Top(target[t])
        BY <2>1, <3>2 DEF Mounted
      <3>5. ASSUME call[d].at = "repin" PROVE Filling(d)'
        <4>1. PICK i \in Instances :
                /\ podMount[v] = <<i>>
                /\ \A u \in Targets : Mounted(u) => Fs(u) # i
                /\ \A pin \in bpffs[i] : pin[1] = call[d].dir
                /\ Names(i) \cup Range(call[d].todo) = Range(call[d].req.maps)
          BY <2>1, <3>5 DEF CallInv, Filling
        <4>2. bpffs'[i] = bpffs[i]
          BY <1>l, <3>1, <4>1
        <4>3. Names(i)' = Names(i)
          BY <4>2 DEF Names
        <4>4. ASSUME NEW u \in Targets, target'[u] # <<>> PROVE Top(target'[u]).fs # i
          <5>1. CASE u # call[c].path
            <6>1. target'[u] = target[u]
              BY <1>l, <5>1
            <6> QED BY <4>1, <4>4, <6>1 DEF Mounted, Fs
          <5>2. CASE u = call[c].path
            <6>1. CASE target[u] # <<>> /\ Top(target'[u]).fs = Fs(u)
              BY <4>1, <6>1 DEF Mounted
            <6>2. CASE podMount[VolOf(c)] = <<Top(target'[u]).fs>>
              <7>1. podMount[v] # podMount[VolOf(c)]
                BY <1>0, <3>1, <4>1, OneElement DEF InstanceInv
              <7> QED BY <4>1, <6>2, <7>1
            <6> QED BY <4>4, <5>2, <6>1, <6>2 DEF HostLocal
          <5> QED BY <5>1, <5>2
        <4>5. \A u \in Targets : Mounted(u)' => Fs(u)' # i
          BY <4>4 DEF Mounted, Fs
        <4>6. podMount'[VolOf(d)'] = <<i>>
          BY <3>2, <3>3, <4>1
        <4> QED BY <2>1, <4>1, <4>2, <4>3, <4>5, <4>6 DEF Filling
      <3>6. ASSUME Showing(t, call[d].req) PROVE Showing(t, call[d].req)'
        <4>1. Showing(t, call[d].req)' <=>
                 Mounted(t)' /\ Top(target[t])' # Foreign /\ Names(Fs(t))' = Range(call'[d].req.maps)
          BY DEF Showing
        <4>2. Mounted(t)' /\ Top(target[t])' # Foreign /\ Names(Fs(t))' = Range(call[d].req.maps)
          BY <1>s, <3>1, <3>6 DEF Showing
        <4> QED BY <2>1, <4>1, <4>2
      <3>7. Showing(call[d].path, call[d].req)' <=> Showing(t, call[d].req)'
        BY <2>1
      <3> QED BY <2>1, <3>2, <3>3, <3>4, <3>5, <3>6, <3>7 DEF CallInv
    <2> QED BY <2>2, <2>3
  <1>2. ASSUME NEW t \in Targets, t # call[c].path PROVE TargetInv(t)'
    <2>1. TargetInv(t) /\ target'[t] = target[t] /\ published'[t] = published[t]
      BY <1>2, <1>l DEF Inv
    <2>2. Mounted(t)' <=> Mounted(t)
      BY <2>1 DEF Mounted
    <2>3. ASSUME Mounted(t)', Top(target[t])' # Foreign
          PROVE  Fs(t)' \in Instances /\ OneLoad(bpffs[Fs(t)])'
      <3>1. Mounted(t) /\ Top(target[t]) # Foreign
        BY <2>1, <2>2, <2>3
      <3>2. Fs(t)' = Fs(t) /\ Fs(t) \in Instances /\ bpffs'[Fs(t)] = bpffs[Fs(t)]
        BY <1>s, <1>2, <3>1
      <3>3. OneLoad(bpffs[Fs(t)])
        BY <2>1, <3>1 DEF TargetInv
      <3> QED BY <3>2, <3>3 DEF OneLoad
    <2>4. ASSUME published'[t] # NoRequest
          PROVE  Showing(t, published[t])' /\ Top(target[t])'.ro = published'[t].ro
      <3>1. Showing(t, published[t]) /\ Top(target[t]).ro = published[t].ro
        BY <2>1, <2>4 DEF TargetInv
      <3>2. Mounted(t) /\ Top(target[t]) # Foreign /\ Names(Fs(t)) = Range(published[t].maps)
        BY <3>1 DEF Showing
      <3>3. Mounted(t)' /\ Top(target[t])' = Top(target[t]) /\ Names(Fs(t))' = Names(Fs(t))
        BY <1>s, <1>2, <3>2
      <3> QED BY <2>1, <3>1, <3>2, <3>3 DEF Showing
    <2>5. ASSUME Mounted(t)', target'[t] # <<Foreign>>, t \notin leftover', published'[t] = NoRequest
          PROVE  \E d \in Calls : call'[d].path = t /\ Bound(d)'
      <3>1. PICK d \in Calls : call[d].path = t /\ Bound(d)
        BY <1>2, <2>1, <2>2, <2>5 DEF TargetInv
      <3>2. d # c
        BY <1>2, <3>1
      <3> QED BY <3>1, <3>2 DEF Bound
    <2> QED BY <2>3, <2>4, <2>5 DEF TargetInv
  <1> QED BY <1>1, <1>2


\* The lock goes with the call.
LEMMA LockKept ==
  ASSUME Inv, NEW c \in Calls, Active(c), call'[c].path = call[c].path, inflight' = inflight,
         \A d \in Calls : d # c => call'[d] = call[d]
  PROVE  LockInv'
  <1>1. \A d \in Calls : VolOf(d)' = VolOf(d) /\ (Active(d)' => Active(d))
    BY DEF VolOf, Active
  <1> QED BY <1>1 DEF Inv, LockInv

LEMMA LockReleased ==
  ASSUME Inv, NEW c \in Calls, Active(c), Reply(c)
  PROVE  LockInv'
  <1>0. CallType /\ LockInv
    BY DEF Inv
  <1>1. \A d \in Calls : Active(d)' => d # c /\ VolOf(d)' = VolOf(d) /\ Active(d)
    BY <1>0, ReplyLemma DEF VolOf, Active
  <1>2. \A d \in Calls : Active(d)' => VolOf(d) # VolOf(c)
    BY <1>0, <1>1 DEF LockInv
  <1>3. inflight' = inflight \ {VolOf(c)}
    BY <1>0, ReplyLemma
  <1> QED BY <1>0, <1>1, <1>2, <1>3 DEF LockInv

\* What is left to show of a step of one call.
LEMMA StepLemma ==
  ASSUME Inv, NEW c \in Calls, Active(c), NEW t, t = call[c].path, HostLocal(c), UNCHANGED loaded,
         \A d \in Calls : d # c => call'[d] = call[d],
         call' \in [Calls -> CallRecord \cup {NoCall}],
         published' \in [Targets -> Requests \cup {NoRequest}],
         \A u \in Targets : u # t => published'[u] = published[u] /\ (u \in leftover => u \in leftover'),
         LockInv', CallInv(c)', TargetInv(t)'
  PROVE  Inv'
  <1>1. /\ \A d \in Calls : d # c => CallInv(d)'
        /\ \A u \in Targets : u # call[c].path => TargetInv(u)'
    BY Others
  <1>2. \A d \in Calls : CallInv(d)'
    BY <1>1
  <1>3. \A u \in Targets : TargetInv(u)'
    BY <1>1
  <1>4. MountType' /\ InstanceInv'
    BY DEF HostLocal
  <1>5. CallType'
    BY DEF Inv, CallType
  <1> QED BY <1>2, <1>3, <1>4, <1>5 DEF Inv

\* A target that nothing happens to.
LEMMA TargetStill ==
  ASSUME Inv, NEW t \in Targets, UNCHANGED hostVars, published'[t] = published[t],
         t \in leftover => t \in leftover',
         \A d \in Calls : call[d].path = t /\ Bound(d) => call'[d].path = t /\ Bound(d)'
  PROVE  TargetInv(t)'
  <1>1. target' = target /\ bpffs' = bpffs
    BY DEF hostVars
  <1>2. TargetInv(t)
    BY DEF Inv
  <1>3. Mounted(t)' = Mounted(t) /\ Fs(t)' = Fs(t) /\ Names(Fs(t))' = Names(Fs(t))
    BY <1>1 DEF Mounted, Fs, Names
  <1>4. Showing(t, published[t])' <=> Showing(t, published[t])
    BY <1>1, <1>3 DEF Showing
  <1>5. OneLoad(bpffs[Fs(t)])' <=> OneLoad(bpffs[Fs(t)])
    BY <1>1, <1>3 DEF OneLoad
  <1> QED BY <1>1, <1>2, <1>3, <1>4, <1>5 DEF TargetInv

\* A target with nothing on it.
LEMMA TargetEmpty ==
  ASSUME NEW t, target'[t] = <<>>, published'[t] = NoRequest PROVE TargetInv(t)'
  <1>1. ~Mounted(t)'
    BY DEF Mounted
  <1> QED BY <1>1 DEF TargetInv

\* A call that is gone.
LEMMA NoCallInv == ASSUME NEW c, call'[c] = NoCall PROVE CallInv(c)'
  <1>1. call'[c].at = "none"
    BY DEF NoCall
  <1> QED BY <1>1 DEF CallInv, PublishStages

\* What a call in progress may rely on.
LEMMA AtStage ==
  ASSUME Inv, NEW c \in Calls, call[c].at # "none"
  PROVE  /\ CallType /\ MountType /\ InstanceInv /\ Active(c) /\ CallInv(c)
         /\ call[c].path \in Targets /\ VolOf(c) \in Volumes /\ VolumeOf[call[c].path] = VolOf(c)
         /\ TargetInv(call[c].path) /\ Flat(podMount, target)
         /\ published \in [Targets -> Requests \cup {NoRequest}]
  <1>1. CallType /\ MountType /\ InstanceInv /\ CallInv(c)
    BY DEF Inv
  <1>2. Active(c)
    BY DEF Active
  <1>3. call[c].path \in Targets /\ VolOf(c) \in Volumes
    BY <1>1, <1>2, ActiveCall
  <1> QED BY <1>1, <1>2, <1>3 DEF Inv, VolOf, MountType, CallType

-----------------------------------------------------------------------------
(***************************************************************************)
(* One lemma per step of a call                                            *)
(***************************************************************************)
LEMMA CheckTargetStep == ASSUME Inv, NEW c \in Calls, CheckTarget(c) PROVE Inv'
  <1> DEFINE t == call[c].path
  <1>0. call[c].at = "check" /\ UNCHANGED <<progVars, hostVars, leftover>>
    BY DEF CheckTarget
  <1>1. /\ CallType /\ Active(c) /\ CallInv(c) /\ t \in Targets /\ TargetInv(t)
        /\ Flat(podMount, target) /\ published \in [Targets -> Requests \cup {NoRequest}]
    BY <1>0, AtStage
  <1>2. HostLocal(c) /\ UNCHANGED <<loaded, leftover>> /\ target' = target /\ bpffs' = bpffs
    BY <1>0, HostStill DEF progVars, hostVars
  <1>3. PICK u : u = t
    OBVIOUS
  <1> HIDE DEF t
  <1>4. \A d \in Calls : call[d].path = u /\ Bound(d) => d # c
    BY <1>0 DEF Bound
  <1>5. CASE target[t] = <<>> /\ Goto(c, "find") /\ UNCHANGED <<inflight, published>>
    <2>1. /\ call'[c].at = "find" /\ call'[c].path = call[c].path /\ call'[c].req = call[c].req
          /\ call'[c].todo = call[c].todo
          /\ \A d \in Calls : d # c => call'[d] = call[d]
          /\ call' \in [Calls -> CallRecord \cup {NoCall}]
      BY <1>1, <1>5, GotoLemma DEF Stages, PublishStages
    <2>2. LockInv'
      BY <1>1, <1>5, <2>1, LockKept
    <2>3. TargetInv(u)'
      BY <1>0, <1>1, <1>3, <1>4, <1>5, <2>1, TargetStill DEF Bound
    <2>4. published[t] = NoRequest
      BY <1>1, <1>5 DEF TargetInv, Showing, Mounted
    <2>5. ~Mounted(t)'
      BY <1>2, <1>3, <1>5, <2>1 DEF Mounted, t
    <2>6. CallInv(c)'
      BY <1>0, <1>1, <1>2, <1>5, <2>1, <2>4, <2>5 DEF CallInv, t, PublishStages, Mounted
    <2> QED BY <1>1, <1>2, <1>3, <1>5, <2>1, <2>2, <2>3, <2>6, StepLemma DEF t
  <1>6. CASE /\ target[t] # <<>> /\ Reply(c)
             /\ published' = IF Top(target[t]) # Foreign /\ PublishMatches(Top(target[t]), call[c].req)
                             THEN [published EXCEPT ![t] = call[c].req] ELSE published
    <2>1. /\ call'[c] = NoCall /\ \A d \in Calls : d # c => call'[d] = call[d]
          /\ call' \in [Calls -> CallRecord \cup {NoCall}]
      BY <1>1, <1>6, ReplyLemma
    <2>2. LockInv' /\ CallInv(c)'
      BY <1>1, <1>6, <2>1, LockReleased, NoCallInv
    <2>3. call[c].req \in Requests \cup {NoRequest}
      BY <1>1, ActiveCall
    <2>4. /\ published' \in [Targets -> Requests \cup {NoRequest}]
          /\ \A w \in Targets : w # u => published'[w] = published[w]
      BY <1>1, <1>3, <1>6, <2>3
    <2>5. TargetInv(u)'
      <3>1. CASE published' = published
        BY <1>0, <1>1, <1>3, <1>4, <2>1, <3>1, TargetStill DEF Bound
      <3>2. CASE /\ Top(target[t]) # Foreign /\ PublishMatches(Top(target[t]), call[c].req)
                 /\ published' = [published EXCEPT ![t] = call[c].req]
        <4>1. published'[u] = call[c].req
          BY <1>1, <1>3, <3>2
        <4>2. Mounted(u)' /\ Top(target[u])' # Foreign /\ Top(target[u])' = Top(target[u])
          BY <1>2, <1>3, <1>6, <3>2 DEF Mounted
        <4>3. Top(target[u]).ro = call[c].req.ro /\ Names(Fs(u)) = Range(call[c].req.maps)
          BY <1>3, <3>2 DEF PublishMatches, Names, Fs
        <4>4. Fs(u)' = Fs(u) /\ Names(Fs(u))' = Names(Fs(u)) /\ bpffs'[Fs(u)] = bpffs[Fs(u)]
          BY <1>2 DEF Fs, Names
        <4>5. Fs(u) \in Instances /\ OneLoad(bpffs[Fs(u)])
          BY <1>1, <1>3, <1>6, <3>2 DEF TargetInv, Mounted
        <4>6. Showing(u, published[u])'
          BY <4>1, <4>2, <4>3, <4>4 DEF Showing
        <4>7. OneLoad(bpffs[Fs(u)])'
          BY <4>4, <4>5 DEF OneLoad
        <4>8. call[c].req # NoRequest
          BY <1>0, <1>1 DEF CallInv, WellFormed, NoRequest, PublishStages
        <4> QED BY <4>1, <4>2, <4>3, <4>4, <4>5, <4>6, <4>7, <4>8 DEF TargetInv
      <3> QED BY <1>6, <3>1, <3>2
    <2> QED BY <1>1, <1>2, <1>3, <2>1, <2>2, <2>4, <2>5, StepLemma DEF t
  <1> QED BY <1>5, <1>6 DEF CheckTarget, t

LEMMA FindStep == ASSUME Inv, NEW c \in Calls, FindLoadedProgramByMetadata(c) PROVE Inv'
  <1>0. call[c].at = "find" /\ UNCHANGED <<progVars, hostVars, published, leftover>>
    BY DEF FindLoadedProgramByMetadata
  <1>1. /\ CallType /\ Active(c) /\ CallInv(c) /\ call[c].path \in Targets
        /\ published \in [Targets -> Requests \cup {NoRequest}]
    BY <1>0, AtStage
  <1>2. HostLocal(c) /\ UNCHANGED <<loaded, leftover, published, target>>
    BY <1>0, HostStill DEF progVars, hostVars
  <1>3. PICK u \in Targets : u = call[c].path
    BY <1>1
  <1>4. target[u] = <<>> /\ published[u] = NoRequest
    BY <1>0, <1>1, <1>3 DEF CallInv, Mounted
  <1>5. TargetInv(u)'
    BY <1>2, <1>4, TargetEmpty
  <1>6. CASE Reply(c)
    <2>1. /\ call'[c] = NoCall /\ \A d \in Calls : d # c => call'[d] = call[d]
          /\ call' \in [Calls -> CallRecord \cup {NoCall}]
      BY <1>1, <1>6, ReplyLemma
    <2>2. LockInv' /\ CallInv(c)'
      BY <1>1, <1>6, <2>1, LockReleased, NoCallInv
    <2> QED BY <1>1, <1>2, <1>3, <1>5, <2>1, <2>2, StepLemma
  <1>7. CASE /\ loaded # {} /\ call' = [call EXCEPT ![c].at = "stale", ![c].dir = Min(loaded)]
             /\ UNCHANGED inflight
    <2>1. Min(loaded) \in LoadIDs
      <3>1. loaded \subseteq LoadIDs /\ loaded \in SUBSET Nat
        BY <1>1 DEF CallType, LoadIDs
      <3> QED BY <1>7, <3>1, MinLemma
    <2>2. call[c] \in CallRecord /\ call \in [Calls -> CallRecord \cup {NoCall}]
      BY <1>1, ActiveCall DEF CallType
    <2> DEFINE r == [call[c] EXCEPT !.at = "stale", !.dir = Min(loaded)]
    <2>3. /\ r \in CallRecord /\ r.at = "stale" /\ r.dir = Min(loaded) /\ r.path = call[c].path
          /\ r.req = call[c].req /\ r.todo = call[c].todo
      BY <2>1, <2>2 DEF CallRecord, Stages, PublishStages
    <2>4. call' = [call EXCEPT ![c] = r]
      BY <1>7, <2>2
    <2> HIDE DEF r
    <2>5. /\ call'[c] = r /\ \A d \in Calls : d # c => call'[d] = call[d]
          /\ call' \in [Calls -> CallRecord \cup {NoCall}]
      BY <2>2, <2>3, <2>4
    <2>6. LockInv'
      BY <1>1, <1>7, <2>3, <2>5, LockKept
    <2>7. CallInv(c)'
      BY <1>0, <1>1, <1>2, <1>3, <1>4, <2>1, <2>3, <2>5 DEF CallInv, Mounted, PublishStages
    <2> QED BY <1>1, <1>2, <1>3, <1>5, <2>5, <2>6, <2>7, StepLemma
  <1> QED BY <1>6, <1>7 DEF FindLoadedProgramByMetadata


\* A publish call that goes to its roll-back.
LEMMA ToUnbind ==
  ASSUME Inv, NEW c \in Calls, call[c].at \in PublishStages \ {"check"}, Goto(c, "unbind")
  PROVE  CallInv(c)' \/ published'[call[c].path] # published[call[c].path]
  <1>1. /\ CallType /\ Active(c) /\ CallInv(c)
    BY AtStage DEF PublishStages
  <1>2. call'[c].at = "unbind" /\ call'[c].path = call[c].path /\ call'[c].req = call[c].req
    BY <1>1, GotoLemma DEF Stages, PublishStages
  <1>3. published[call[c].path] = NoRequest /\ WellFormed(call[c].req)
    BY <1>1 DEF CallInv, PublishStages
  <1>4. WellFormed(call[c].req)' 
    BY <1>2, <1>3 DEF WellFormed
  <1> QED BY <1>2, <1>3, <1>4 DEF CallInv

LEMMA CleanStaleStep == ASSUME Inv, NEW c \in Calls, CleanStale(c) PROVE Inv'
  <1>0. call[c].at = "stale" /\ UNCHANGED <<progVars, inflight, published, leftover>>
    BY DEF CleanStale
  <1>1. /\ CallType /\ Active(c) /\ CallInv(c) /\ call[c].path \in Targets /\ VolOf(c) \in Volumes
        /\ VolumeOf[call[c].path] = VolOf(c) /\ MountType
        /\ published \in [Targets -> Requests \cup {NoRequest}]
    BY <1>0, AtStage
  <1>2. PICK u \in Targets : u = call[c].path
    BY <1>1
  <1>3. target[u] = <<>> /\ published[u] = NoRequest
    BY <1>0, <1>1, <1>2 DEF CallInv, Mounted
  <1>4. CleanPod(VolOf(c)) \/ UNCHANGED hostVars
    BY <1>1 DEF CleanStale, UnmountRefused
  <1>5. HostLocal(c) /\ target' = target
    <2>1. CASE CleanPod(VolOf(c))
      BY <1>1, <2>1, Unmounting, PodGone
    <2>2. CASE UNCHANGED hostVars
      BY <2>2, HostStill DEF hostVars
    <2> QED BY <1>4, <2>1, <2>2
  <1>6. TargetInv(u)' /\ UNCHANGED <<loaded, published, leftover>>
    BY <1>0, <1>3, <1>5, TargetEmpty DEF progVars
  <1>7. CASE Goto(c, "unbind")
    <2>1. /\ call'[c].path = call[c].path /\ \A d \in Calls : d # c => call'[d] = call[d]
          /\ call' \in [Calls -> CallRecord \cup {NoCall}]
      BY <1>1, <1>7, GotoLemma DEF Stages, PublishStages
    <2>2. LockInv' /\ CallInv(c)'
      BY <1>0, <1>1, <1>6, <1>7, <2>1, LockKept, ToUnbind DEF PublishStages
    <2> QED BY <1>1, <1>2, <1>5, <1>6, <2>1, <2>2, StepLemma
  <1>8. CASE Goto(c, "mount") /\ podMount'[VolOf(c)] = <<>>
    <2>1. /\ call'[c].at = "mount" /\ call'[c].path = call[c].path /\ call'[c].req = call[c].req
          /\ call'[c].todo = call[c].todo /\ call'[c].dir = call[c].dir
          /\ \A d \in Calls : d # c => call'[d] = call[d]
          /\ call' \in [Calls -> CallRecord \cup {NoCall}]
      BY <1>1, <1>8, GotoLemma DEF Stages, PublishStages
    <2>2. LockInv'
      BY <1>0, <1>1, <2>1, LockKept
    <2>3. VolOf(c)' = VolOf(c)
      BY <2>1 DEF VolOf
    <2>4. CallInv(c)'
      BY <1>0, <1>1, <1>2, <1>3, <1>5, <1>6, <1>8, <2>1, <2>3 DEF CallInv, Mounted, PublishStages
    <2> QED BY <1>1, <1>2, <1>5, <1>6, <2>1, <2>2, <2>4, StepLemma
  <1>9. Goto(c, "unbind") \/ (Goto(c, "mount") /\ podMount'[VolOf(c)] = <<>>)
    BY <1>1 DEF CleanStale, hostVars
  <1> QED BY <1>7, <1>8, <1>9

LEMMA MountBpffsStep == ASSUME Inv, NEW c \in Calls, MountBpffs(c) PROVE Inv'
  <1> DEFINE free == Instances \ MountedIn(podMount, target)
             v == VolOf(c)
  <1>0. call[c].at = "mount" /\ UNCHANGED <<progVars, inflight, published, leftover>>
    BY DEF MountBpffs
  <1>1. /\ CallType /\ Active(c) /\ CallInv(c) /\ call[c].path \in Targets /\ v \in Volumes
        /\ VolumeOf[call[c].path] = v /\ MountType /\ InstanceInv /\ Flat(podMount, target)
        /\ published \in [Targets -> Requests \cup {NoRequest}]
    BY <1>0, AtStage
  <1>2. PICK u \in Targets : u = call[c].path
    BY <1>1
  <1>3. /\ target[u] = <<>> /\ published[u] = NoRequest /\ podMount[v] = <<>>
        /\ call[c].todo = call[c].req.maps /\ call[c].dir \in LoadIDs /\ WellFormed(call[c].req)
    BY <1>0, <1>1, <1>2 DEF CallInv, Mounted, PublishStages
  <1>4. CASE Goto(c, "unbind") /\ UNCHANGED hostVars
    <2>1. /\ call'[c].path = call[c].path /\ \A d \in Calls : d # c => call'[d] = call[d]
          /\ call' \in [Calls -> CallRecord \cup {NoCall}]
      BY <1>1, <1>4, GotoLemma DEF Stages, PublishStages
    <2>2. LockInv' /\ CallInv(c)' /\ UNCHANGED <<loaded, published, leftover, target>>
      BY <1>0, <1>1, <1>4, <2>1, LockKept, ToUnbind DEF PublishStages, progVars, hostVars
    <2>3. HostLocal(c) /\ TargetInv(u)'
      BY <1>3, <1>4, <2>2, HostStill, TargetEmpty
    <2> QED BY <1>1, <1>2, <2>1, <2>2, <2>3, StepLemma
  <1>5. CASE /\ free # {} /\ podMount' = [podMount EXCEPT ![v] = Append(@, Min(free))]
             /\ Goto(c, "repin") /\ UNCHANGED <<target, bpffs>>
    <2>1. PICK i \in Instances : i = Min(free) /\ i \notin MountedIn(podMount, target)
      <3>1. free \in SUBSET Nat
        BY DEF Instances
      <3>2. Min(free) \in free
        BY <1>5, <3>1, MinLemma
      <3> QED BY <3>2
    <2> HIDE DEF free
    <2>2. /\ podMount'[v] = <<i>> /\ DOMAIN podMount' = Volumes
          /\ \A w \in Volumes : w # v => podMount'[w] = podMount[w]
      <3>1. Append(podMount[v], i) = <<i>>
        BY <1>3, OneElement
      <3> QED BY <1>1, <1>5, <2>1, <3>1 DEF MountType
    <2>3. target' = target /\ bpffs' = bpffs
      BY <1>5
    <2>4. Flat(podMount', target')
      BY <1>1, <2>1, <2>2, <2>3 DEF Flat
    <2>5. MountType'
      BY <1>1, <2>2, <2>3, <2>4 DEF MountType, Flat
    <2>6. \A w \in Volumes : podMount[w] # <<i>>
      BY <1>1, <2>1, MountedLemma
    <2>7. ASSUME NEW j \in Instances, j \notin MountedIn(podMount', target') PROVE bpffs'[j] = {}
      <3>1. j \notin MountedIn(podMount, target)
        <4>1. \A w \in Volumes : podMount[w] = <<j>> => podMount'[w] = <<j>>
          BY <1>3, <2>2, OneElement
        <4>2. \A w \in Targets : target[w] # <<>> => target'[w] # <<>> /\ Top(target'[w]).fs = Top(target[w]).fs
          BY <2>3
        <4>3. Flat(podMount, target)
          BY <1>1
        <4> QED BY <2>4, <2>7, <4>1, <4>2, <4>3, MountedGrows
      <3> QED BY <1>1, <2>3, <3>1 DEF InstanceInv
    <2>8. InstanceInv'
      <3>1. \A w, x \in Volumes : podMount'[w] # <<>> /\ podMount'[w] = podMount'[x] => w = x
        BY <1>1, <2>2, <2>6 DEF InstanceInv
      <3> QED BY <2>7, <3>1 DEF InstanceInv
    <2>9. HostLocal(c)
      BY <1>2, <1>3, <2>2, <2>3, <2>5, <2>8 DEF HostLocal
    <2>10. /\ call'[c].at = "repin" /\ call'[c].path = call[c].path /\ call'[c].req = call[c].req
           /\ call'[c].todo = call[c].todo /\ call'[c].dir = call[c].dir
           /\ \A d \in Calls : d # c => call'[d] = call[d]
           /\ call' \in [Calls -> CallRecord \cup {NoCall}]
      BY <1>1, <1>5, GotoLemma DEF Stages, PublishStages
    <2>11. LockInv'
      BY <1>0, <1>1, <2>10, LockKept
    <2>12. VolOf(c)' = v
      BY <2>10 DEF VolOf
    <2>13. TargetInv(u)' /\ UNCHANGED <<loaded, published, leftover>>
      BY <1>0, <1>3, <2>3, TargetEmpty DEF progVars
    <2>14. Filling(c)'
      <3>1. bpffs'[i] = {}
        BY <1>1, <2>1, <2>3 DEF InstanceInv
      <3>2. Names(i)' = {}
        BY <3>1 DEF Names
      <3>3. ASSUME NEW w \in Targets, Mounted(w)' PROVE Fs(w)' # i
        BY <1>1, <2>1, <2>3, <3>3, MountedLemma DEF Mounted, Fs
      <3>4. podMount'[VolOf(c)'] = <<i>>
        BY <2>2, <2>12
      <3>5. call'[c].todo = call'[c].req.maps
        BY <1>3, <2>10
      <3> QED BY <2>1, <3>1, <3>2, <3>3, <3>4, <3>5 DEF Filling
    <2>15. CallInv(c)'
      <3>1. ~Mounted(call[c].path)'
        BY <1>2, <1>3, <2>3, <2>10 DEF Mounted
      <3>2. WellFormed(call[c].req)'
        BY <1>3, <2>10 DEF WellFormed
      <3>3. published'[call'[c].path] = NoRequest
        BY <1>2, <1>3, <2>10, <2>13
      <3> QED BY <1>3, <2>10, <2>14, <3>1, <3>2, <3>3 DEF CallInv
    <2> QED BY <1>1, <1>2, <2>9, <2>10, <2>11, <2>13, <2>15, StepLemma
  <1> QED BY <1>1, <1>4, <1>5 DEF MountBpffs

LEMMA RepinMapStep == ASSUME Inv, NEW c \in Calls, RepinMap(c) PROVE Inv'
  <1> DEFINE v == VolOf(c)
             m == Head(call[c].todo)
             dir == call[c].dir
  <1>0. /\ call[c].at = "repin" /\ call[c].todo # <<>>
        /\ UNCHANGED <<progVars, podMount, target, inflight, published, leftover>>
    BY DEF RepinMap, RepinMapFrom
  <1>1. /\ CallType /\ Active(c) /\ CallInv(c) /\ call[c].path \in Targets /\ v \in Volumes
        /\ VolumeOf[call[c].path] = v /\ MountType /\ InstanceInv /\ Flat(podMount, target)
        /\ published \in [Targets -> Requests \cup {NoRequest}]
    BY <1>0, AtStage
  <1>2. PICK u \in Targets : u = call[c].path
    BY <1>1
  <1>3. /\ target[u] = <<>> /\ published[u] = NoRequest /\ call[c].dir \in LoadIDs
        /\ WellFormed(call[c].req) /\ Filling(c)
    BY <1>0, <1>1, <1>2 DEF CallInv, Mounted, PublishStages
  <1>4. TargetInv(u)' /\ UNCHANGED <<loaded, published, leftover>>
    BY <1>0, <1>3, TargetEmpty DEF progVars
  <1>5. CASE Goto(c, "unbind") /\ UNCHANGED bpffs
    <2>1. /\ call'[c].path = call[c].path /\ \A d \in Calls : d # c => call'[d] = call[d]
          /\ call' \in [Calls -> CallRecord \cup {NoCall}]
      BY <1>1, <1>5, GotoLemma DEF Stages, PublishStages
    <2>2. LockInv' /\ CallInv(c)'
      BY <1>0, <1>1, <1>4, <1>5, <2>1, LockKept, ToUnbind DEF PublishStages
    <2>3. HostLocal(c)
      BY <1>0, <1>5, HostStill DEF hostVars
    <2> QED BY <1>1, <1>2, <1>4, <2>1, <2>2, <2>3, StepLemma
  <1>6. CASE /\ bpffs' = [bpffs EXCEPT ![Top(podMount[v])] = @ \cup {<<dir, m>>}]
             /\ call' = [call EXCEPT ![c].todo = Tail(@)]
    <2>1. PICK i \in Instances :
            /\ podMount[v] = <<i>>
            /\ \A t \in Targets : Mounted(t) => Fs(t) # i
            /\ \A pin \in bpffs[i] : pin[1] = dir
            /\ Names(i) \cup Range(call[c].todo) = Range(call[c].req.maps)
      BY <1>3 DEF Filling
    <2>2. Top(podMount[v]) = i
      BY <2>1, OneElement
    <2>3. /\ DOMAIN bpffs' = Instances /\ bpffs'[i] = bpffs[i] \cup {<<dir, m>>}
          /\ \A j \in Instances : j # i => bpffs'[j] = bpffs[j]
      BY <1>1, <1>6, <2>1, <2>2 DEF MountType
    <2>4. podMount' = podMount /\ target' = target
      BY <1>0
    <2>5. MountType'
      BY <1>1, <2>3, <2>4 DEF MountType
    <2>6. i \in MountedIn(podMount, target)
      BY <1>1, <2>1, MountedLemma
    <2>7. InstanceInv'
      BY <1>1, <2>3, <2>4, <2>6 DEF InstanceInv
    <2>8. ASSUME NEW w \in Volumes, w # v, NEW j \in Instances, podMount[w] = <<j>> PROVE bpffs'[j] = bpffs[j]
      <3>1. j # i
        BY <1>1, <2>1, <2>8, OneElement DEF InstanceInv
      <3> QED BY <2>3, <3>1
    <2>9. \A t \in Targets : Mounted(t) /\ Fs(t) \in Instances => bpffs'[Fs(t)] = bpffs[Fs(t)]
      BY <2>1, <2>3
    <2>10. HostLocal(c)
      BY <1>2, <1>3, <2>4, <2>5, <2>7, <2>8, <2>9 DEF HostLocal
    <2>11. call[c] \in CallRecord /\ call[c].todo \in Seq(Maps) /\ call \in [Calls -> CallRecord \cup {NoCall}]
      BY <1>1, ActiveCall DEF CallType
    <2>12. Tail(call[c].todo) \in Seq(Maps) /\ Range(call[c].todo) = {m} \cup Range(Tail(call[c].todo))
      BY <1>0, <2>11, RangeTail
    <2> DEFINE r == [call[c] EXCEPT !.todo = Tail(call[c].todo)]
    <2>13. /\ r \in CallRecord /\ r.at = "repin" /\ r.dir = dir /\ r.path = call[c].path
           /\ r.req = call[c].req /\ r.todo = Tail(call[c].todo)
      BY <1>0, <2>11, <2>12 DEF CallRecord
    <2>14. call' = [call EXCEPT ![c] = r]
      BY <1>6, <2>11
    <2> HIDE DEF r
    <2>15. /\ call'[c] = r /\ \A d \in Calls : d # c => call'[d] = call[d]
           /\ call' \in [Calls -> CallRecord \cup {NoCall}]
      BY <2>11, <2>13, <2>14
    <2>16. LockInv'
      BY <1>0, <1>1, <2>13, <2>15, LockKept
    <2>17. Filling(c)'
      <3>1. podMount'[VolOf(c)'] = <<i>>
        BY <2>1, <2>4, <2>13, <2>15 DEF VolOf
      <3>2. \A t \in Targets : Mounted(t)' => Fs(t)' # i
        BY <2>1, <2>4 DEF Mounted, Fs
      <3>3. \A pin \in bpffs'[i] : pin[1] = call'[c].dir
        BY <2>1, <2>3, <2>13, <2>15
      <3>4. Names(i)' = Names(i) \cup {m}
        <4>1. Names(i)' = {pin[2] : pin \in bpffs[i] \cup {<<dir, m>>}}
          BY <2>3 DEF Names
        <4> HIDE DEF m, dir
        <4> QED BY <4>1, NamesGrow DEF Names
      <3>5. Names(i)' \cup Range(call'[c].todo) = Range(call'[c].req.maps)
        BY <2>1, <2>12, <2>13, <2>15, <3>4
      <3> QED BY <3>1, <3>2, <3>3, <3>5 DEF Filling
    <2>18. CallInv(c)'
      <3>1. ~Mounted(call[c].path)'
        BY <1>2, <1>3, <2>4, <2>13, <2>15 DEF Mounted
      <3>2. WellFormed(call[c].req)'
        BY <1>3, <2>13, <2>15 DEF WellFormed
      <3>3. published'[call'[c].path] = NoRequest
        BY <1>2, <1>3, <1>4, <2>13, <2>15
      <3> QED BY <1>3, <2>13, <2>15, <2>17, <3>1, <3>2, <3>3 DEF CallInv
    <2> QED BY <1>1, <1>2, <1>4, <2>10, <2>15, <2>16, <2>18, StepLemma
  <1> QED BY <1>1, <1>5, <1>6 DEF RepinMap, RepinMapFrom


LEMMA BindMountStep == ASSUME Inv, NEW c \in Calls, BindMount(c) PROVE Inv'
  <1> DEFINE v == VolOf(c)
  <1>0. /\ call[c].at = "repin" /\ call[c].todo = <<>>
        /\ UNCHANGED <<progVars, podMount, bpffs, inflight, published, leftover>>
    BY DEF BindMount
  <1>1. /\ CallType /\ Active(c) /\ CallInv(c) /\ call[c].path \in Targets /\ v \in Volumes
        /\ VolumeOf[call[c].path] = v /\ MountType /\ InstanceInv /\ Flat(podMount, target)
        /\ published \in [Targets -> Requests \cup {NoRequest}]
    BY <1>0, AtStage
  <1>2. PICK u \in Targets : u = call[c].path
    BY <1>1
  <1>3. /\ target[u] = <<>> /\ published[u] = NoRequest /\ call[c].dir \in LoadIDs
        /\ WellFormed(call[c].req) /\ Filling(c)
    BY <1>0, <1>1, <1>2 DEF CallInv, Mounted, PublishStages
  <1>4. UNCHANGED <<loaded, published, leftover, podMount, bpffs>>
    BY <1>0 DEF progVars
  <1>5. CASE Goto(c, "unbind") /\ UNCHANGED target
    <2>1. /\ call'[c].path = call[c].path /\ \A d \in Calls : d # c => call'[d] = call[d]
          /\ call' \in [Calls -> CallRecord \cup {NoCall}]
      BY <1>1, <1>5, GotoLemma DEF Stages, PublishStages
    <2>2. LockInv' /\ CallInv(c)'
      BY <1>0, <1>1, <1>4, <1>5, <2>1, LockKept, ToUnbind DEF PublishStages
    <2>3. HostLocal(c) /\ TargetInv(u)'
      BY <1>3, <1>4, <1>5, HostStill, TargetEmpty DEF hostVars
    <2> QED BY <1>1, <1>2, <1>4, <2>1, <2>2, <2>3, StepLemma
  <1>6. CASE /\ target' = [target EXCEPT ![call[c].path] = Append(@, [fs |-> Top(podMount[v]), ro |-> FALSE])]
             /\ Goto(c, IF call[c].req.ro THEN "remount" ELSE "commit")
    <2>1. PICK i \in Instances :
            /\ podMount[v] = <<i>>
            /\ \A t \in Targets : Mounted(t) => Fs(t) # i
            /\ \A pin \in bpffs[i] : pin[1] = call[c].dir
            /\ Names(i) \cup Range(call[c].todo) = Range(call[c].req.maps)
      BY <1>3 DEF Filling
    <2> DEFINE m == [fs |-> i, ro |-> FALSE]
    <2>2. m \in Mount /\ m.fs = i /\ m.ro = FALSE /\ m # Foreign
      BY DEF Mount, Foreign, Instances, NoInstance
    <2>3. target' = [target EXCEPT ![u] = <<m>>]
      <3>1. Top(podMount[v]) = i /\ Append(<<>>, m) = <<m>>
        BY <2>1, OneElement
      <3> QED BY <1>2, <1>3, <1>6, <3>1
    <2> HIDE DEF m
    <2>4. /\ target'[u] = <<m>> /\ DOMAIN target' = Targets
          /\ \A t \in Targets : t # u => target'[t] = target[t]
      BY <1>1, <2>3 DEF MountType
    <2>5. target'[u] # <<>> /\ Top(target'[u]) = m
      BY <2>4, OneElement
    <2>6. Flat(podMount', target')
      BY <1>1, <1>4, <2>2, <2>4 DEF Flat
    <2>7. MountType'
      BY <1>1, <1>4, <2>4, <2>6 DEF MountType, Flat
    <2>8. ASSUME NEW j \in Instances, j \notin MountedIn(podMount', target') PROVE bpffs'[j] = {}
      <3>1. j \notin MountedIn(podMount, target)
        <4>1. \A w \in Volumes : podMount[w] = <<j>> => podMount'[w] = <<j>>
          BY <1>4
        <4>2. \A w \in Targets : target[w] # <<>> => target'[w] # <<>> /\ Top(target'[w]).fs = Top(target[w]).fs
          BY <1>3, <2>4
        <4>3. Flat(podMount, target)
          BY <1>1
        <4> QED BY <2>6, <2>8, <4>1, <4>2, <4>3, MountedGrows
      <3> QED BY <1>1, <1>4, <3>1 DEF InstanceInv
    <2>9. InstanceInv'
      <3>1. \A w, x \in Volumes : podMount'[w] # <<>> /\ podMount'[w] = podMount'[x] => w = x
        BY <1>1, <1>4 DEF InstanceInv
      <3> QED BY <2>8, <3>1 DEF InstanceInv
    <2>10. HostLocal(c)
      BY <1>2, <1>4, <2>1, <2>2, <2>4, <2>5, <2>7, <2>9 DEF HostLocal
    <2> DEFINE next == IF call[c].req.ro THEN "remount" ELSE "commit"
    <2>11. next \in {"remount", "commit"} /\ Goto(c, next)
      BY <1>6
    <2> HIDE DEF next
    <2>12. /\ call'[c].at = next /\ call'[c].path = call[c].path /\ call'[c].req = call[c].req
           /\ \A d \in Calls : d # c => call'[d] = call[d]
           /\ call' \in [Calls -> CallRecord \cup {NoCall}]
      BY <1>1, <2>11, GotoLemma DEF Stages, PublishStages
    <2>13. LockInv'
      BY <1>0, <1>1, <2>12, LockKept
    <2>14. Mounted(u)' /\ Fs(u)' = i /\ Top(target[u])' = m
      BY <2>2, <2>5 DEF Mounted, Fs
    <2>15. Names(i) = Range(call[c].req.maps) /\ Names(i)' = Names(i)
      <3>1. Range(call[c].todo) = {}
        BY <1>0 DEF Range
      <3>2. Names(i)' = Names(i)
        BY <1>4 DEF Names
      <3> QED BY <2>1, <3>1, <3>2
    <2>16. OneLoad(bpffs'[i])
      <3>1. call[c].req \in Requests \cup {NoRequest}
        BY <1>1, ActiveCall
      <3>2. call[c].req.maps \in Seq(Maps) /\ call[c].req.maps # <<>>
        BY <1>3, <3>1, RequestType DEF WellFormed
      <3>3. Range(call[c].req.maps) # {}
        <4>1. Range(call[c].req.maps) = {Head(call[c].req.maps)} \cup Range(Tail(call[c].req.maps))
          BY <3>2, RangeTail
        <4> QED BY <4>1, Zenon
      <3>4. bpffs[i] # {}
        BY <2>15, <3>3 DEF Names
      <3> QED BY <1>3, <1>4, <2>1, <3>4 DEF OneLoad
    <2>17. TargetInv(u)'
      <3>1. OneLoad(bpffs[Fs(u)])'
        BY <2>14, <2>16 DEF OneLoad
      <3>2. call'[c].path = u /\ Bound(c)'
        BY <1>2, <2>11, <2>12 DEF Bound
      <3>3. published'[u] = NoRequest
        BY <1>3, <1>4
      <3> QED BY <2>14, <3>1, <3>2, <3>3 DEF TargetInv
    <2>18. Showing(call[c].path, call[c].req)'
      <3>1. Mounted(call[c].path)' /\ Top(target'[call'[c].path]) = m /\ Fs(call[c].path)' = i
        BY <1>2, <2>12, <2>14 DEF Mounted, Fs
      <3>2. Names(Fs(call[c].path))' = Range(call'[c].req.maps)
        BY <2>12, <2>15, <3>1 DEF Names
      <3> QED BY <2>2, <3>1, <3>2 DEF Showing
    <2>19. CallInv(c)'
      <3>1. WellFormed(call[c].req)'
        BY <1>3, <2>12 DEF WellFormed
      <3>2. published'[call'[c].path] = NoRequest
        BY <1>2, <1>3, <1>4, <2>12
      <3>3. next = "remount" => call'[c].req.ro
        BY <2>12 DEF next
      <3>4. next = "commit" => Top(target'[call'[c].path]).ro = call'[c].req.ro
        <4>1. call[c].req.ro \in BOOLEAN
          BY <1>1, ActiveCall, RequestType
        <4>2. Top(target'[call'[c].path]).ro = FALSE
          BY <1>2, <2>2, <2>5, <2>12
        <4>3. next = "commit" => ~call[c].req.ro
          BY DEF next
        <4> QED BY <2>12, <4>1, <4>2, <4>3
      <3> QED BY <2>11, <2>12, <2>18, <3>1, <3>2, <3>3, <3>4 DEF CallInv
    <2> QED BY <1>1, <1>2, <1>4, <2>10, <2>12, <2>13, <2>17, <2>19, StepLemma
  <1> QED BY <1>1, <1>5, <1>6 DEF BindMount

LEMMA RemountStep == ASSUME Inv, NEW c \in Calls, RemountReadOnly(c) PROVE Inv'
  <1>0. /\ call[c].at = "remount"
        /\ UNCHANGED <<progVars, podMount, bpffs, inflight, published, leftover>>
    BY DEF RemountReadOnly
  <1>1. /\ CallType /\ Active(c) /\ CallInv(c) /\ call[c].path \in Targets /\ VolOf(c) \in Volumes
        /\ MountType /\ InstanceInv /\ Flat(podMount, target) /\ TargetInv(call[c].path)
        /\ published \in [Targets -> Requests \cup {NoRequest}]
    BY <1>0, AtStage
  <1>2. PICK u \in Targets : u = call[c].path
    BY <1>1
  <1>3. /\ Showing(u, call[c].req) /\ published[u] = NoRequest /\ call[c].req.ro
        /\ WellFormed(call[c].req)
    BY <1>0, <1>1, <1>2 DEF CallInv, PublishStages
  <1>4. UNCHANGED <<loaded, published, leftover, podMount, bpffs>>
    BY <1>0 DEF progVars
  <1>5. CASE Goto(c, "unbind") /\ UNCHANGED target
    <2>1. /\ call'[c].at = "unbind" /\ call'[c].path = call[c].path
          /\ \A d \in Calls : d # c => call'[d] = call[d]
          /\ call' \in [Calls -> CallRecord \cup {NoCall}]
      BY <1>1, <1>5, GotoLemma DEF Stages, PublishStages
    <2>2. LockInv' /\ CallInv(c)'
      BY <1>0, <1>1, <1>4, <1>5, <2>1, LockKept, ToUnbind DEF PublishStages
    <2>3. UNCHANGED hostVars
      BY <1>4, <1>5 DEF hostVars
    <2>4. \A d \in Calls : call[d].path = u /\ Bound(d) => call'[d].path = u /\ Bound(d)'
      BY <2>1 DEF Bound
    <2>5. HostLocal(c) /\ TargetInv(u)'
      BY <1>4, <2>3, <2>4, HostStill, TargetStill
    <2> QED BY <1>1, <1>2, <1>4, <2>1, <2>2, <2>5, StepLemma
  <1>6. CASE target' = [target EXCEPT ![call[c].path][Len(target[call[c].path])].ro = TRUE] /\ Goto(c, "commit")
    <2>1. PICK m \in Mount : target[u] = <<m>>
      BY <1>1, <1>3 DEF Flat, Showing, Mounted
    <2>2. Top(target[u]) = m /\ Len(target[u]) = 1 /\ m # Foreign /\ Fs(u) = m.fs
      BY <1>3, <2>1, OneElement DEF Showing, Fs
    <2> DEFINE n == [m EXCEPT !.ro = TRUE]
    <2>3. n \in Mount /\ n.fs = m.fs /\ n.ro = TRUE
      BY DEF Mount
    <2>4. target' = [target EXCEPT ![u] = <<n>>]
      <3>1. [target[u] EXCEPT ![1] = [target[u][1] EXCEPT !.ro = TRUE]] = <<n>>
        <4>1. target[u][1] = m
          BY <2>1
        <4>2. [<<m>> EXCEPT ![1] = n] = <<n>>
          BY ExceptOne
        <4> QED BY <2>1, <4>1, <4>2
      <3>2. target' = [target EXCEPT ![u] = [target[u] EXCEPT ![1] = [target[u][1] EXCEPT !.ro = TRUE]]]
        <4>1. target' = [target EXCEPT ![u][1].ro = TRUE]
          BY <1>2, <1>6, <2>2
        <4> QED BY <4>1
      <3> QED BY <3>1, <3>2
    <2>5. n # Foreign
      <3>1. Fs(u) \in Instances
        BY <1>1, <1>2, <1>3 DEF TargetInv, Showing
      <3> QED BY <2>2, <2>3, <3>1 DEF Foreign, Instances, NoInstance
    <2> HIDE DEF n
    <2>6. /\ target'[u] = <<n>> /\ DOMAIN target' = Targets
          /\ \A t \in Targets : t # u => target'[t] = target[t]
      BY <1>1, <2>4 DEF MountType
    <2>7. target'[u] # <<>> /\ Top(target'[u]) = n
      BY <2>6, OneElement
    <2>8. Flat(podMount', target')
      BY <1>1, <1>4, <2>3, <2>6 DEF Flat
    <2>9. MountType'
      BY <1>1, <1>4, <2>6, <2>8 DEF MountType, Flat
    <2>10. ASSUME NEW j \in Instances, j \notin MountedIn(podMount', target') PROVE bpffs'[j] = {}
      <3>1. j \notin MountedIn(podMount, target)
        <4>1. \A w \in Volumes : podMount[w] = <<j>> => podMount'[w] = <<j>>
          BY <1>4
        <4>2. \A w \in Targets : target[w] # <<>> => target'[w] # <<>> /\ Top(target'[w]).fs = Top(target[w]).fs
          BY <2>2, <2>3, <2>6, <2>7
        <4>3. Flat(podMount, target)
          BY <1>1
        <4> QED BY <2>8, <2>10, <4>1, <4>2, <4>3, MountedGrows
      <3> QED BY <1>1, <1>4, <3>1 DEF InstanceInv
    <2>11. InstanceInv'
      <3>1. \A w, x \in Volumes : podMount'[w] # <<>> /\ podMount'[w] = podMount'[x] => w = x
        BY <1>1, <1>4 DEF InstanceInv
      <3> QED BY <2>10, <3>1 DEF InstanceInv
    <2>12. HostLocal(c)
      BY <1>2, <1>3, <1>4, <2>2, <2>3, <2>6, <2>7, <2>9, <2>11 DEF HostLocal, Showing, Mounted
    <2>13. /\ call'[c].at = "commit" /\ call'[c].path = call[c].path /\ call'[c].req = call[c].req
           /\ \A d \in Calls : d # c => call'[d] = call[d]
           /\ call' \in [Calls -> CallRecord \cup {NoCall}]
      BY <1>1, <1>6, GotoLemma DEF Stages, PublishStages
    <2>14. LockInv'
      BY <1>0, <1>1, <2>13, LockKept
    <2>15. Mounted(u)' /\ Fs(u)' = Fs(u) /\ Top(target[u])' = n
      BY <2>2, <2>3, <2>7 DEF Mounted, Fs
    <2>16. Names(Fs(u))' = Names(Fs(u)) /\ bpffs'[Fs(u)] = bpffs[Fs(u)]
      BY <1>4, <2>15 DEF Names
    <2>17. TargetInv(u)'
      <3>1. Fs(u) \in Instances /\ OneLoad(bpffs[Fs(u)])
        BY <1>1, <1>2, <1>3 DEF TargetInv, Showing
      <3>2. OneLoad(bpffs[Fs(u)])'
        BY <2>15, <2>16, <3>1 DEF OneLoad
      <3>3. call'[c].path = u /\ Bound(c)'
        BY <1>2, <2>13 DEF Bound
      <3>4. published'[u] = NoRequest
        BY <1>3, <1>4
      <3> QED BY <2>15, <3>1, <3>2, <3>3, <3>4 DEF TargetInv
    <2>18. Showing(call[c].path, call[c].req)'
      <3>1. Mounted(call[c].path)' /\ Top(target'[call'[c].path]) = n /\ Fs(call[c].path)' = Fs(u)
        BY <1>2, <2>13, <2>15 DEF Mounted, Fs
      <3>2. Names(Fs(u)) = Range(call[c].req.maps)
        BY <1>3 DEF Showing
      <3>3. Names(Fs(call[c].path))' = Range(call'[c].req.maps)
        BY <2>13, <2>15, <2>16, <3>1, <3>2 DEF Names
      <3> QED BY <2>5, <3>1, <3>3 DEF Showing
    <2>19. CallInv(c)'
      <3>1. WellFormed(call[c].req)'
        BY <1>3, <2>13 DEF WellFormed
      <3>2. published'[call'[c].path] = NoRequest
        BY <1>2, <1>3, <1>4, <2>13
      <3>3. Top(target'[call'[c].path]).ro = call'[c].req.ro
        <4>1. call[c].req.ro \in BOOLEAN
          BY <1>1, ActiveCall, RequestType
        <4>2. Top(target'[call'[c].path]).ro = TRUE
          BY <1>2, <2>3, <2>7, <2>13
        <4> QED BY <1>3, <2>13, <4>1, <4>2
      <3> QED BY <2>13, <2>18, <3>1, <3>2, <3>3 DEF CallInv
    <2> QED BY <1>1, <1>2, <1>4, <2>12, <2>13, <2>14, <2>17, <2>19, StepLemma
  <1> QED BY <1>5, <1>6 DEF RemountReadOnly


LEMMA CommittedStep == ASSUME Inv, NEW c \in Calls, Committed(c) PROVE Inv'
  <1>0. /\ call[c].at = "commit" /\ Reply(c) /\ UNCHANGED <<progVars, hostVars, leftover>>
        /\ published' = [published EXCEPT ![call[c].path] = call[c].req]
    BY DEF Committed
  <1>1. /\ CallType /\ Active(c) /\ CallInv(c) /\ call[c].path \in Targets /\ TargetInv(call[c].path)
        /\ published \in [Targets -> Requests \cup {NoRequest}]
    BY <1>0, AtStage
  <1>2. PICK u \in Targets : u = call[c].path
    BY <1>1
  <1>3. Showing(u, call[c].req) /\ Top(target[u]).ro = call[c].req.ro /\ WellFormed(call[c].req)
    BY <1>0, <1>1, <1>2 DEF CallInv, PublishStages
  <1>4. HostLocal(c) /\ UNCHANGED <<loaded, leftover>> /\ target' = target /\ bpffs' = bpffs
    BY <1>0, HostStill DEF progVars, hostVars
  <1>5. /\ call'[c] = NoCall /\ \A d \in Calls : d # c => call'[d] = call[d]
        /\ call' \in [Calls -> CallRecord \cup {NoCall}]
    BY <1>0, <1>1, ReplyLemma
  <1>6. LockInv' /\ CallInv(c)'
    BY <1>0, <1>1, <1>5, LockReleased, NoCallInv
  <1>7. call[c].req \in Requests \cup {NoRequest} /\ call[c].req # NoRequest
    BY <1>1, <1>3, ActiveCall DEF WellFormed, NoRequest
  <1>8. /\ published' \in [Targets -> Requests \cup {NoRequest}] /\ published'[u] = call[c].req
        /\ \A w \in Targets : w # u => published'[w] = published[w]
    BY <1>0, <1>1, <1>2, <1>7
  <1>9. TargetInv(u)'
    <2>1. /\ Mounted(u)' = Mounted(u) /\ Fs(u)' = Fs(u) /\ Names(Fs(u))' = Names(Fs(u))
          /\ Top(target[u])' = Top(target[u]) /\ bpffs'[Fs(u)] = bpffs[Fs(u)]
      BY <1>4 DEF Mounted, Fs, Names
    <2>2. Mounted(u) /\ Top(target[u]) # Foreign /\ Names(Fs(u)) = Range(call[c].req.maps)
      BY <1>3 DEF Showing
    <2>3. Fs(u) \in Instances /\ OneLoad(bpffs[Fs(u)])
      BY <1>1, <1>2, <2>2 DEF TargetInv
    <2>4. OneLoad(bpffs[Fs(u)])'
      BY <2>1, <2>3 DEF OneLoad
    <2>5. Showing(u, published[u])'
      BY <1>8, <2>1, <2>2 DEF Showing
    <2> QED BY <1>3, <1>7, <1>8, <2>1, <2>3, <2>4, <2>5 DEF TargetInv
  <1> QED BY <1>1, <1>2, <1>4, <1>5, <1>6, <1>8, <1>9, StepLemma

\* A call that has done with its target, and cleans up the bpffs.
LEMMA ToUnpod ==
  ASSUME Inv, NEW c \in Calls, call[c].at \in {"unbind", "untarget"}, Goto(c, "unpod"),
         published'[call[c].path] = published[call[c].path]
  PROVE  CallInv(c)'
  <1>1. CallType /\ Active(c) /\ CallInv(c)
    BY AtStage
  <1>2. call'[c].at = "unpod" /\ call'[c].path = call[c].path
    BY <1>1, GotoLemma DEF Stages
  <1>3. published[call[c].path] = NoRequest
    BY <1>1 DEF CallInv
  <1> QED BY <1>2, <1>3 DEF CallInv, PublishStages

\* A target left over for the orchestrator to unpublish.
LEMMA TargetLeft ==
  ASSUME Inv, NEW t \in Targets, published'[t] = NoRequest, t \in leftover',
         target'[t] = <<>> \/ UNCHANGED hostVars
  PROVE  TargetInv(t)'
  <1>1. CASE target'[t] = <<>>
    BY <1>1, TargetEmpty
  <1>2. CASE UNCHANGED hostVars
    <2>1. target' = target /\ bpffs' = bpffs
      BY <1>2 DEF hostVars
    <2>2. TargetInv(t)
      BY DEF Inv
    <2>3. Mounted(t)' = Mounted(t) /\ Fs(t)' = Fs(t)
      BY <2>1 DEF Mounted, Fs
    <2>4. OneLoad(bpffs[Fs(t)])' <=> OneLoad(bpffs[Fs(t)])
      BY <2>1, <2>3 DEF OneLoad
    <2> QED BY <2>1, <2>2, <2>3, <2>4 DEF TargetInv
  <1> QED BY <1>1, <1>2

LEMMA RollbackStep == ASSUME Inv, NEW c \in Calls, RollbackTarget(c) PROVE Inv'
  <1>0. call[c].at = "unbind" /\ Goto(c, "unpod") /\ UNCHANGED <<progVars, inflight, published>>
    BY DEF RollbackTarget
  <1>1. /\ CallType /\ Active(c) /\ CallInv(c) /\ call[c].path \in Targets /\ MountType
        /\ published \in [Targets -> Requests \cup {NoRequest}]
    BY <1>0, AtStage
  <1>2. PICK u \in Targets : u = call[c].path
    BY <1>1
  <1>3. published[u] = NoRequest /\ UNCHANGED <<loaded, published>>
    BY <1>0, <1>1, <1>2 DEF CallInv, progVars
  <1>4. /\ call'[c].path = call[c].path /\ \A d \in Calls : d # c => call'[d] = call[d]
        /\ call' \in [Calls -> CallRecord \cup {NoCall}]
    BY <1>0, <1>1, GotoLemma DEF Stages
  <1>5. LockInv' /\ CallInv(c)'
    BY <1>0, <1>1, <1>3, <1>4, LockKept, ToUnpod
  <1>6. HostLocal(c) /\ TargetInv(u)' /\ \A w \in Targets : w \in leftover => w \in leftover'
    <2>1. CASE UnmountTarget(call[c].path) /\ UNCHANGED leftover
      <3>1. target' = [target EXCEPT ![u] = <<>>]
        BY <1>1, <1>2, <2>1, TargetGone
      <3>2. target'[u] = <<>>
        BY <1>1, <3>1 DEF MountType
      <3> QED BY <1>1, <1>3, <2>1, <3>2, Unmounting, TargetEmpty
    <2>2. CASE UNCHANGED hostVars /\ leftover' = leftover \cup {call[c].path}
      <3>1. u \in leftover'
        BY <1>2, <2>2
      <3> QED BY <1>3, <2>2, <3>1, HostStill, TargetLeft
    <2> QED BY <2>1, <2>2 DEF RollbackTarget, UnmountRefused
  <1> QED BY <1>1, <1>2, <1>3, <1>4, <1>5, <1>6, StepLemma

LEMMA CleanPodStep == ASSUME Inv, NEW c \in Calls, CleanPodBpffs(c) PROVE Inv'
  <1>0. call[c].at = "unpod" /\ Reply(c) /\ UNCHANGED <<progVars, published, leftover>>
    BY DEF CleanPodBpffs
  <1>1. /\ CallType /\ Active(c) /\ CallInv(c) /\ call[c].path \in Targets /\ VolOf(c) \in Volumes
        /\ VolumeOf[call[c].path] = VolOf(c) /\ MountType /\ Flat(podMount, target)
        /\ published \in [Targets -> Requests \cup {NoRequest}] /\ TargetInv(call[c].path)
    BY <1>0, AtStage
  <1>2. PICK u \in Targets : u = call[c].path
    BY <1>1
  <1>3. published[u] = NoRequest /\ UNCHANGED <<loaded, published, leftover>>
    BY <1>0, <1>1, <1>2 DEF CallInv, progVars
  <1>4. /\ call'[c] = NoCall /\ \A d \in Calls : d # c => call'[d] = call[d]
        /\ call' \in [Calls -> CallRecord \cup {NoCall}]
    BY <1>0, <1>1, ReplyLemma
  <1>5. LockInv' /\ CallInv(c)'
    BY <1>0, <1>1, <1>4, LockReleased, NoCallInv
  <1>6. \A d \in Calls : call[d].path = u /\ Bound(d) => call'[d].path = u /\ Bound(d)'
    BY <1>0, <1>4 DEF Bound
  <1>7. CASE UNCHANGED hostVars
    <2>1. HostLocal(c) /\ TargetInv(u)'
      BY <1>3, <1>6, <1>7, HostStill, TargetStill
    <2> QED BY <1>1, <1>2, <1>3, <1>4, <1>5, <2>1, StepLemma
  <1>8. CASE CleanPod(VolOf(c))
    <2>1. HostLocal(c)
      BY <1>1, <1>8, Unmounting
    <2>2. target' = target /\ bpffs' = KeepMounted(podMount', target', bpffs)
      BY <1>1, <1>8, PodGone
    <2>3. Flat(podMount', target')
      BY <2>1 DEF HostLocal, MountType
    <2>4. Mounted(u)' = Mounted(u) /\ Fs(u)' = Fs(u) /\ Top(target[u])' = Top(target[u])
      BY <2>2 DEF Mounted, Fs
    <2>5. ASSUME Mounted(u), Fs(u) \in Instances PROVE bpffs'[Fs(u)] = bpffs[Fs(u)]
      <3>1. target'[u] # <<>> /\ Top(target'[u]).fs = Fs(u)
        BY <2>2, <2>5 DEF Mounted, Fs
      <3>2. Fs(u) \in MountedIn(podMount', target')
        BY <2>3, <2>5, <3>1, MountedLemma
      <3> QED BY <2>2, <2>5, <3>2, KeepLemma
    <2>6. ASSUME Mounted(u)', Top(target[u])' # Foreign
          PROVE  Fs(u)' \in Instances /\ OneLoad(bpffs[Fs(u)])'
      <3>1. Fs(u) \in Instances /\ OneLoad(bpffs[Fs(u)])
        BY <1>1, <1>2, <2>4, <2>6 DEF TargetInv
      <3> QED BY <2>4, <2>5, <2>6, <3>1 DEF OneLoad
    <2>7. ASSUME Mounted(u)', target'[u] # <<Foreign>>, u \notin leftover'
          PROVE  \E d \in Calls : call'[d].path = u /\ Bound(d)'
      BY <1>1, <1>2, <1>3, <1>6, <2>2, <2>4, <2>7 DEF TargetInv
    <2>8. TargetInv(u)'
      BY <1>3, <2>6, <2>7 DEF TargetInv
    <2> QED BY <1>1, <1>2, <1>3, <1>4, <1>5, <2>1, <2>8, StepLemma
  <1> QED BY <1>1, <1>7, <1>8 DEF CleanPodBpffs, UnmountRefused

LEMMA CleanTargetStep == ASSUME Inv, NEW c \in Calls, CleanPublishedTarget(c) PROVE Inv'
  <1>0. call[c].at = "untarget" /\ UNCHANGED <<progVars, published>>
    BY DEF CleanPublishedTarget
  <1>1. /\ CallType /\ Active(c) /\ CallInv(c) /\ call[c].path \in Targets /\ MountType
        /\ published \in [Targets -> Requests \cup {NoRequest}]
    BY <1>0, AtStage
  <1>2. PICK u \in Targets : u = call[c].path
    BY <1>1
  <1>3. published[u] = NoRequest /\ UNCHANGED <<loaded, published>>
    BY <1>0, <1>1, <1>2 DEF CallInv, progVars
  <1>4. ASSUME CleanTarget(u) PROVE HostLocal(c) /\ TargetInv(u)'
    <2>1. target' = [target EXCEPT ![u] = <<>>]
      BY <1>1, <1>4, TargetGone
    <2>2. target'[u] = <<>>
      BY <1>1, <2>1 DEF MountType
    <2>3. HostLocal(c)
      BY <1>1, <1>2, <1>4, Unmounting
    <2> QED BY <1>3, <2>2, <2>3, TargetEmpty
  <1>5. ASSUME UNCHANGED hostVars, leftover' = leftover \cup {u} PROVE HostLocal(c) /\ TargetInv(u)'
    <2>1. HostLocal(c)
      BY <1>5, HostStill
    <2>2. TargetInv(u)'
      BY <1>3, <1>5, TargetLeft
    <2> QED BY <2>1, <2>2
  <1>6. HostLocal(c) /\ TargetInv(u)' /\ \A w \in Targets : w # u => (w \in leftover => w \in leftover')
    <2>1. HostLocal(c) /\ TargetInv(u)'
      BY <1>2, <1>4, <1>5 DEF CleanPublishedTarget, UnmountRefused
    <2>2. \A w \in Targets : w # u => (w \in leftover => w \in leftover')
      BY <1>2 DEF CleanPublishedTarget
    <2> QED BY <2>1, <2>2
  <1>7. CASE Goto(c, "unpod") /\ UNCHANGED inflight
    <2>1. /\ call'[c].path = call[c].path /\ \A d \in Calls : d # c => call'[d] = call[d]
          /\ call' \in [Calls -> CallRecord \cup {NoCall}]
      BY <1>1, <1>7, GotoLemma DEF Stages
    <2>2. LockInv' /\ CallInv(c)'
      BY <1>0, <1>1, <1>3, <1>7, <2>1, LockKept, ToUnpod
    <2> QED BY <1>1, <1>2, <1>3, <1>6, <2>1, <2>2, StepLemma
  <1>8. CASE Reply(c)
    <2>1. /\ call'[c] = NoCall /\ \A d \in Calls : d # c => call'[d] = call[d]
          /\ call' \in [Calls -> CallRecord \cup {NoCall}]
      BY <1>1, <1>8, ReplyLemma
    <2>2. LockInv' /\ CallInv(c)'
      BY <1>1, <1>8, <2>1, LockReleased, NoCallInv
    <2> QED BY <1>1, <1>2, <1>3, <1>6, <2>1, <2>2, StepLemma
  <1> QED BY <1>7, <1>8 DEF CleanPublishedTarget



-----------------------------------------------------------------------------
(***************************************************************************)
(* A call arrives, the driver restarts, programs come and go               *)
(***************************************************************************)

\* A call that waits while the mounts stay as they are.
LEMMA CallStill ==
  ASSUME Inv, NEW d \in Calls, UNCHANGED hostVars, call'[d] = call[d],
         Active(d) => published'[call[d].path] = published[call[d].path]
  PROVE  CallInv(d)'
  <1>1. podMount' = podMount /\ target' = target /\ bpffs' = bpffs
    BY DEF hostVars
  <1>2. CallInv(d)
    BY DEF Inv
  <1>3. CASE ~Active(d)
    <2>1. call'[d].at = "none"
      BY <1>3 DEF Active
    <2> QED BY <2>1 DEF CallInv, PublishStages
  <1>4. CASE Active(d)
    <2>1. published'[call[d].path] = published[call[d].path]
      BY <1>4
    <2>2. VolOf(d)' = VolOf(d) /\ (Mounted(call[d].path)' <=> Mounted(call[d].path))
      BY <1>1 DEF VolOf, Mounted
    <2>3. Filling(d) => Filling(d)'
      BY <1>1, <2>2 DEF Filling, Mounted, Fs, Names
    <2>4. Showing(call[d].path, call[d].req) => Showing(call[d].path, call[d].req)'
      BY <1>1 DEF Showing, Mounted, Fs, Names
    <2> QED BY <1>1, <1>2, <2>1, <2>2, <2>3, <2>4 DEF CallInv
  <1> QED BY <1>3, <1>4

\* A call for a volume nobody works on takes a free slot.
LEMMA CallArrives ==
  ASSUME Inv, NEW t \in Targets, NEW c \in Calls, call[c] = NoCall, call'[c].path = t,
         \A d \in Calls : d # c => call'[d] = call[d], TryAcquire(VolumeOf[t])
  PROVE  LockInv' /\ \A d \in Calls : Active(d) => d # c /\ call[d].path # t
  <1>1. call[c] = NoCall
    OBVIOUS
  <1>2. LockInv
    BY DEF Inv
  <1>3. call'[c].path = t /\ \A d \in Calls : d # c => call'[d] = call[d]
    OBVIOUS
  <1>4. VolumeOf[t] \notin inflight /\ inflight' = inflight \cup {VolumeOf[t]}
    BY DEF TryAcquire
  <1>5. ASSUME NEW d \in Calls, Active(d) PROVE d # c /\ VolOf(d) # VolumeOf[t]
    BY <1>1, <1>2, <1>4, <1>5 DEF LockInv, Active, NoCall
  <1>6. ASSUME NEW d \in Calls, d # c, Active(d)'
        PROVE  Active(d) /\ VolOf(d)' = VolOf(d) /\ VolOf(d) \in inflight'
    BY <1>2, <1>3, <1>4, <1>6 DEF Active, VolOf, LockInv
  <1>7. VolOf(c)' = VolumeOf[t] /\ VolOf(c)' \in inflight'
    BY <1>3, <1>4 DEF VolOf
  <1>8. ASSUME NEW d \in Calls, Active(d)' PROVE VolOf(d)' \in inflight'
    BY <1>6, <1>7, <1>8
  <1>9. ASSUME NEW d \in Calls, NEW e \in Calls, Active(d)', Active(e)', VolOf(d)' = VolOf(e)'
        PROVE  d = e
    <2>1. CASE d # c /\ e # c
      BY <1>2, <1>6, <1>9, <2>1 DEF LockInv
    <2>2. CASE d = c \/ e = c
      BY <1>5, <1>6, <1>7, <1>9, <2>2
    <2> QED BY <2>1, <2>2
  <1>10. LockInv'
    BY <1>8, <1>9 DEF LockInv
  <1>11. \A d \in Calls : Active(d) => d # c /\ call[d].path # t
    BY <1>5 DEF VolOf
  <1> QED BY <1>10, <1>11

LEMMA PublishArrives ==
  ASSUME Inv, NEW t \in Targets, NEW r \in Requests, NodePublishVolume(t, r) PROVE Inv'
  <1>1. PICK new : new = [at |-> "check", path |-> t, req |-> r, todo |-> r.maps, dir |-> NoInstance]
    OBVIOUS
  <1>2. new \in CallRecord
    BY <1>1, RequestType DEF CallRecord, Stages, PublishStages
  <1>3. /\ new.at = "check" /\ new.path = t /\ new.req = r /\ new.todo = r.maps
    BY <1>1
  <1>4. /\ FreeSlots # {} /\ TryAcquire(VolumeOf[t]) /\ call' = [call EXCEPT ![Min(FreeSlots)] = new]
        /\ WellFormed(r) /\ UNCHANGED <<progVars, hostVars, published, leftover>>
    BY <1>1 DEF NodePublishVolume
  <1>c. PICK c : c = Min(FreeSlots)
    OBVIOUS
  <1>n. call' = [call EXCEPT ![c] = new]
    BY <1>4, <1>c
  <1>5. /\ c \in Calls /\ call[c] = NoCall /\ call'[c] = new
        /\ \A d \in Calls : d # c => call'[d] = call[d]
        /\ call' \in [Calls -> CallRecord \cup {NoCall}]
        /\ LockInv'
        /\ \A d \in Calls : Active(d) => d # c /\ call[d].path # t
    <2>1. c \in Calls /\ call[c] = NoCall
      BY <1>4, <1>c, FreeSlotLemma
    <2>2. call \in [Calls -> CallRecord \cup {NoCall}]
      BY DEF Inv, CallType
    <2>3. /\ call'[c] = new /\ \A d \in Calls : d # c => call'[d] = call[d]
          /\ call' \in [Calls -> CallRecord \cup {NoCall}]
      BY <1>2, <1>n, <2>1, <2>2
    <2>4. call'[c].path = t
      BY <1>3, <2>3
    <2>5. LockInv' /\ \A d \in Calls : Active(d) => d # c /\ call[d].path # t
      BY <1>4, <2>1, <2>3, <2>4, CallArrives
    <2> QED BY <2>1, <2>3, <2>5
  <1>6. CallInv(c)'
    BY <1>3, <1>4, <1>5 DEF CallInv
  <1>7. \A d \in Calls : CallInv(d)'
    BY <1>4, <1>5, <1>6, CallStill
  <1>8. \A d \in Calls : Bound(d) => call'[d] = call[d]
    BY <1>5 DEF Bound, NoCall
  <1>9. ASSUME NEW u \in Targets PROVE TargetInv(u)'
    <2>1. \A d \in Calls : call[d].path = u /\ Bound(d) => call'[d].path = u /\ Bound(d)'
      BY <1>8 DEF Bound
    <2> QED BY <1>4, <2>1, TargetStill
  <1>10. MountType' /\ InstanceInv'
    BY <1>4, <1>5, HostStill DEF HostLocal
  <1>11. CallType'
    BY <1>4, <1>5 DEF Inv, CallType, progVars
  <1> QED BY <1>5, <1>7, <1>9, <1>10, <1>11 DEF Inv

LEMMA UnpublishArrives ==
  ASSUME Inv, NEW t \in Targets, NodeUnpublishVolume(t) PROVE Inv'
  <1>1. PICK new : new = [NoCall EXCEPT !.at = "untarget", !.path = t]
    OBVIOUS
  <1>2. new = [at |-> "untarget", path |-> t, req |-> NoRequest, todo |-> <<>>, dir |-> NoInstance]
    BY <1>1 DEF NoCall
  <1>3. new \in CallRecord /\ new.at = "untarget" /\ new.path = t
    BY <1>2 DEF CallRecord, Stages, PublishStages
  <1>4. /\ FreeSlots # {} /\ TryAcquire(VolumeOf[t]) /\ call' = [call EXCEPT ![Min(FreeSlots)] = new]
        /\ published' = [published EXCEPT ![t] = NoRequest] /\ UNCHANGED <<progVars, hostVars, leftover>>
    BY <1>1 DEF NodeUnpublishVolume
  <1>c. PICK c : c = Min(FreeSlots)
    OBVIOUS
  <1>n. call' = [call EXCEPT ![c] = new]
    BY <1>4, <1>c
  <1>5. /\ c \in Calls /\ call[c] = NoCall /\ call'[c] = new
        /\ \A d \in Calls : d # c => call'[d] = call[d]
        /\ call' \in [Calls -> CallRecord \cup {NoCall}]
        /\ LockInv'
        /\ \A d \in Calls : Active(d) => d # c /\ call[d].path # t
    <2>1. c \in Calls /\ call[c] = NoCall
      BY <1>4, <1>c, FreeSlotLemma
    <2>2. call \in [Calls -> CallRecord \cup {NoCall}]
      BY DEF Inv, CallType
    <2>3. /\ call'[c] = new /\ \A d \in Calls : d # c => call'[d] = call[d]
          /\ call' \in [Calls -> CallRecord \cup {NoCall}]
      BY <1>3, <1>n, <2>1, <2>2
    <2>4. call'[c].path = t
      BY <1>3, <2>3
    <2>5. LockInv' /\ \A d \in Calls : Active(d) => d # c /\ call[d].path # t
      BY <1>4, <2>1, <2>3, <2>4, CallArrives
    <2> QED BY <2>1, <2>3, <2>5
  <1>6. /\ published'[t] = NoRequest /\ \A u \in Targets : u # t => published'[u] = published[u]
        /\ published' \in [Targets -> Requests \cup {NoRequest}]
    BY <1>4 DEF Inv, CallType
  <1>7. CallInv(c)'
    BY <1>3, <1>5, <1>6 DEF CallInv, PublishStages
  <1>8. ASSUME NEW d \in Calls, d # c PROVE CallInv(d)'
    <2>1. ASSUME Active(d) PROVE published'[call[d].path] = published[call[d].path]
      BY <1>5, <1>6, <2>1, ActiveCall DEF Inv
    <2> QED BY <1>4, <1>5, <1>8, <2>1, CallStill
  <1>9. \A d \in Calls : Bound(d) => call'[d] = call[d]
    BY <1>5 DEF Bound, NoCall
  <1>10. ASSUME NEW u \in Targets, u # t PROVE TargetInv(u)'
    <2>1. \A d \in Calls : call[d].path = u /\ Bound(d) => call'[d].path = u /\ Bound(d)'
      BY <1>9 DEF Bound
    <2> QED BY <1>4, <1>6, <1>10, <2>1, TargetStill
  <1>11. TargetInv(t)'
    <2>1. call'[c].path = t /\ Bound(c)'
      BY <1>3, <1>5 DEF Bound
    <2>2. target' = target /\ bpffs' = bpffs /\ TargetInv(t)
      BY <1>4 DEF hostVars, Inv
    <2>3. ASSUME Mounted(t)', Top(target[t])' # Foreign
          PROVE  Fs(t)' \in Instances /\ OneLoad(bpffs[Fs(t)])'
      BY <2>2, <2>3 DEF TargetInv, Mounted, Fs, OneLoad
    <2>4. (\E d \in Calls : call'[d].path = t /\ Bound(d)') /\ published'[t] = NoRequest
      BY <1>5, <1>6, <2>1
    <2> QED BY <2>3, <2>4 DEF TargetInv
  <1>12. MountType' /\ InstanceInv'
    BY <1>4, <1>5, HostStill DEF HostLocal
  <1>13. CallType'
    BY <1>4, <1>5, <1>6 DEF Inv, CallType, progVars
  <1> QED BY <1>5, <1>7, <1>8, <1>10, <1>11, <1>12, <1>13 DEF Inv

\* The driver dies: whatever a call had bound is left over.
LEMMA RestartStep == ASSUME Inv, RestartDriver PROVE Inv'
  <1>1. /\ UNCHANGED <<progVars, hostVars, published>> /\ call' = [c \in Calls |-> NoCall]
        /\ leftover' = leftover \cup {call[c].path : c \in {d \in Calls : Bound(d)}}
    BY DEF RestartDriver
  <1>2. \A c \in Calls : call'[c] = NoCall /\ CallInv(c)' /\ ~Active(c)'
    BY <1>1, NoCallInv DEF Active, NoCall
  <1>3. CallType' /\ LockInv'
    BY <1>1, <1>2 DEF Inv, CallType, LockInv, progVars
  <1>4. MountType' /\ InstanceInv'
    BY <1>1 DEF Inv, MountType, InstanceInv, hostVars
  <1>5. ASSUME NEW t \in Targets PROVE TargetInv(t)'
    <2>1. TargetInv(t) /\ target' = target /\ bpffs' = bpffs /\ published' = published
      BY <1>1 DEF Inv, hostVars
    <2>2. ASSUME NEW c \in Calls, call[c].path = t, Bound(c) PROVE t \in leftover'
      BY <1>1, <2>2
    <2>3. t \notin leftover' => t \notin leftover
      BY <1>1
    <2>4. ASSUME Mounted(t)', Top(target[t])' # Foreign
          PROVE  Fs(t)' \in Instances /\ OneLoad(bpffs[Fs(t)])'
      BY <2>1, <2>4 DEF TargetInv, Mounted, Fs, OneLoad
    <2>5. ASSUME published'[t] # NoRequest
          PROVE  Showing(t, published[t])' /\ Top(target[t])'.ro = published'[t].ro
      BY <2>1, <2>5 DEF TargetInv, Showing, Mounted, Fs, Names
    <2>6. ASSUME Mounted(t)', target'[t] # <<Foreign>>, t \notin leftover'
          PROVE  published'[t] # NoRequest
      BY <2>1, <2>2, <2>3, <2>6 DEF TargetInv, Mounted
    <2> QED BY <2>4, <2>5, <2>6 DEF TargetInv
  <1> QED BY <1>2, <1>3, <1>4, <1>5 DEF Inv

\* Loads and unloads leave the mounts and the calls alone.
LEMMA ProgramsStep ==
  ASSUME Inv, loaded' \subseteq LoadIDs, UNCHANGED <<hostVars, inflight, call, published, leftover>>
  PROVE  Inv'
  <1>1. CallType' /\ LockInv'
    BY DEF Inv, CallType, LockInv, Active, VolOf
  <1>2. MountType' /\ InstanceInv'
    BY DEF Inv, MountType, InstanceInv, hostVars
  <1>3. \A c \in Calls : CallInv(c)'
    BY CallStill
  <1>4. ASSUME NEW t \in Targets PROVE TargetInv(t)'
    <2>1. \A d \in Calls : call[d].path = t /\ Bound(d) => call'[d].path = t /\ Bound(d)'
      BY DEF Bound
    <2> QED BY <2>1, TargetStill
  <1> QED BY <1>1, <1>2, <1>3, <1>4 DEF Inv

-----------------------------------------------------------------------------
(***************************************************************************)
(* The invariant and what follows from it                                  *)
(***************************************************************************)
LEMMA InvInit == ASSUME CsiInit PROVE Inv
  <1>1. \A c \in Calls : call[c] = NoCall
    BY DEF CsiInit
  <1>2. \A c \in Calls : ~Active(c)
    BY <1>1 DEF Active, NoCall
  <1>3. CallType /\ LockInv
    BY <1>1, <1>2 DEF CsiInit, CallType, LockInv
  <1>4. /\ \A v \in Volumes : podMount[v] = <<>>
        /\ \A t \in Targets : target[t] = <<>> \/ target[t] = <<Foreign>>
    BY DEF CsiInit
  <1>5. Foreign \in Mount
    BY DEF Foreign, Mount
  <1>6. MountType
    BY <1>4, <1>5 DEF CsiInit, MountType, Flat
  <1>7. InstanceInv
    BY <1>4 DEF CsiInit, InstanceInv
  <1>8. ASSUME NEW c \in Calls PROVE CallInv(c)
    <2>1. call[c].at = "none"
      BY <1>1 DEF NoCall
    <2> QED BY <2>1 DEF CallInv, PublishStages
  <1>9. ASSUME NEW t \in Targets PROVE TargetInv(t)
    <2>1. published[t] = NoRequest
      BY DEF CsiInit
    <2>2. Mounted(t) => target[t] = <<Foreign>> /\ Top(target[t]) = Foreign
      BY <1>4, OneElement DEF Mounted
    <2> QED BY <2>1, <2>2 DEF TargetInv
  <1> QED BY <1>3, <1>6, <1>7, <1>8, <1>9 DEF Inv

LEMMA InvNext == ASSUME Inv, [CsiNext]_csiVars PROVE Inv'
  <1>0. loaded \subseteq LoadIDs
    BY DEF Inv, CallType
  <1>1. ASSUME NEW t \in Targets, NEW r \in Requests, NodePublishVolume(t, r) PROVE Inv'
    BY <1>1, PublishArrives
  <1>2. ASSUME NEW t \in Targets, NodeUnpublishVolume(t) PROVE Inv'
    BY <1>2, UnpublishArrives
  <1>3. ASSUME NEW c \in Calls, PublishStep(c) PROVE Inv'
    BY <1>3, CheckTargetStep, FindStep, CleanStaleStep, MountBpffsStep, RepinMapStep, BindMountStep,
       RemountStep, CommittedStep, RollbackStep, CleanPodStep DEF PublishStep
  <1>4. ASSUME NEW c \in Calls, CleanPublishedTarget(c) PROVE Inv'
    BY <1>4, CleanTargetStep
  <1>5. CASE RestartDriver
    BY <1>5, RestartStep
  <1>6. CASE LoadWithMetadata
    <2>1. loaded' \subseteq LoadIDs
      BY <1>0, <1>6 DEF LoadWithMetadata
    <2> QED BY <1>6, <2>1, ProgramsStep DEF LoadWithMetadata
  <1>7. ASSUME NEW l \in LoadIDs, UnloadProgram(l) \/ RemoveMapPin(l) PROVE Inv'
    <2>1. loaded' \subseteq LoadIDs
      BY <1>0, <1>7 DEF UnloadProgram, RemoveMapPin
    <2>2. UNCHANGED <<hostVars, inflight, call, published, leftover>>
      BY <1>7 DEF UnloadProgram, RemoveMapPin
    <2> QED BY <2>1, <2>2, ProgramsStep
  <1>8. CASE UNCHANGED csiVars
    <2>1. loaded' \subseteq LoadIDs /\ UNCHANGED <<hostVars, inflight, call, published, leftover>>
      BY <1>0, <1>8 DEF csiVars, progVars
    <2> QED BY <2>1, ProgramsStep
  <1> QED BY <1>1, <1>2, <1>3, <1>4, <1>5, <1>6, <1>7, <1>8 DEF CsiNext

LEMMA InvAlways == CsiSpec => []Inv
  BY InvInit, InvNext, PTL DEF CsiSpec

\* The target of an OK answer, from the invariant.
LEMMA InvAsAsked == ASSUME Inv PROVE PublishedAsAsked
  <1> SUFFICES ASSUME NEW t \in Targets, published[t] # NoRequest
               PROVE  /\ Len(target[t]) = 1 /\ Top(target[t]) # Foreign
                      /\ Top(target[t]).ro = published[t].ro
                      /\ {pin[2] : pin \in bpffs[Fs(t)]} = Range(published[t].maps)
                      /\ Cardinality({pin[1] : pin \in bpffs[Fs(t)]}) = 1
    BY DEF PublishedAsAsked, Fs
  <1>1. TargetInv(t) /\ Flat(podMount, target)
    BY DEF Inv, MountType
  <1>2. Showing(t, published[t]) /\ Top(target[t]).ro = published[t].ro
    BY <1>1 DEF TargetInv
  <1>3. Mounted(t) /\ Top(target[t]) # Foreign /\ Names(Fs(t)) = Range(published[t].maps)
    BY <1>2 DEF Showing
  <1>4. Len(target[t]) = 1
    BY <1>1, <1>3, TopLemma DEF Mounted
  <1>5. OneLoad(bpffs[Fs(t)])
    BY <1>1, <1>3 DEF TargetInv
  <1>6. PICK d \in LoadIDs : \A pin \in bpffs[Fs(t)] : pin[1] = d
    BY <1>5 DEF OneLoad
  <1>7. {pin[1] : pin \in bpffs[Fs(t)]} = {d}
    BY <1>5, <1>6 DEF OneLoad
  <1>8. Cardinality({d}) = 1
    BY FS_Singleton
  <1> QED BY <1>2, <1>3, <1>4, <1>7, <1>8 DEF Names

LEMMA InvNotStacked == ASSUME Inv PROVE NothingStacked
  <1>1. Flat(podMount, target)
    BY DEF Inv, MountType
  <1>2. Len(<<>>) = 0 /\ 0 <= 1 /\ 1 <= 1
    OBVIOUS
  <1>3. ASSUME NEW v \in Volumes PROVE Len(podMount[v]) <= 1
    <2>1. Len(podMount[v]) = 0 \/ Len(podMount[v]) = 1
      BY <1>1, <1>2, PodLemma
    <2> QED BY <1>2, <2>1, Zenon
  <1>4. ASSUME NEW t \in Targets PROVE Len(target[t]) <= 1
    <2>1. Len(target[t]) = 0 \/ Len(target[t]) = 1
      BY <1>1, <1>2, TopLemma
    <2> QED BY <1>2, <2>1, Zenon
  <1> QED BY <1>3, <1>4 DEF NothingStacked

LEMMA InvNothingLeft == ASSUME Inv PROVE FailedPublishLeavesNothing
  <1> SUFFICES ASSUME NEW t \in Targets, VolumeOf[t] \notin inflight, t \notin leftover,
                      target[t] # <<Foreign>>
               PROVE  target[t] # <<>> <=> published[t] # NoRequest
    BY DEF FailedPublishLeavesNothing
  <1>1. TargetInv(t) /\ LockInv
    BY DEF Inv
  <1>2. published[t] # NoRequest => Mounted(t)
    BY <1>1 DEF TargetInv, Showing
  <1>3. ASSUME NEW c \in Calls, call[c].path = t, Bound(c) PROVE FALSE
    <2>1. Active(c)
      BY <1>3 DEF Active, Bound
    <2> QED BY <1>1, <1>3, <2>1 DEF LockInv, VolOf
  <1>4. Mounted(t) => published[t] # NoRequest
    BY <1>1, <1>3 DEF TargetInv
  <1> QED BY <1>2, <1>4 DEF Mounted

\* NodePublishVolume's promise: a target answered OK shows exactly the maps
\* asked for, of one load and with the flag asked for, until it is unpublished.
\* One lock per volume is enough, whatever fails and however often the driver
\* restarts.
THEOREM AsAsked == CsiSpec => []PublishedAsAsked
  BY InvAlways, InvAsAsked, PTL

\* No mount is made over another, so that the one unmount of
\* NodeUnpublishVolume and of the roll-back is always enough.
THEOREM NeverStacked == CsiSpec => []NothingStacked
  BY InvAlways, InvNotStacked, PTL

\* Outside the calls a target is mounted exactly if it was answered OK, but
\* for the targets a dead call or a refused unmount left mounted.
THEOREM FailureLeavesNothing == CsiSpec => []FailedPublishLeavesNothing
  BY InvAlways, InvNothingLeft, PTL
====
