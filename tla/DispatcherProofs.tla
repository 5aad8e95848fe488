-------------------------- MODULE DispatcherProofs --------------------------
(***************************************************************************)
(* Proofs about Dispatcher, for every value of its constants.              *)
(***************************************************************************)
EXTENDS Dispatcher, FiniteSetTheorems, FunctionTheorems, TLAPS

-----------------------------------------------------------------------------
(***************************************************************************)
(* Slots and revisions                                                     *)
(***************************************************************************)

\* The revision a rebuild uses is a revision, and not the current one.
LEMMA NextRevisionLemma ==
    ASSUME NEW r \in Revisions
    PROVE  /\ (r + 1) % (RevisionMax + 1) \in Revisions
           /\ (r + 1) % (RevisionMax + 1) # r
  <1>1. RevisionMax \in Nat /\ RevisionMax >= 1
    BY BoundAssumption
  <1>2. r \in Nat /\ r <= RevisionMax
    BY <1>1 DEF Revisions
  <1>3. CASE r = RevisionMax
    <2>1. (r + 1) % (RevisionMax + 1) = 0
      BY <1>1, <1>3
    <2> QED BY <1>1, <1>3, <2>1 DEF Revisions
  <1>4. CASE r < RevisionMax
    <2>1. (r + 1) % (RevisionMax + 1) = r + 1
      BY <1>1, <1>2, <1>4
    <2> QED BY <1>1, <1>2, <1>4, <2>1 DEF Revisions
  <1> QED BY <1>1, <1>2, <1>3, <1>4

\* The image of a set that fits a dispatcher fits it.
LEMMA ImageLemma ==
    ASSUME NEW S, NEW T, IsFiniteSet(S), NEW f \in [S -> T],
           \A t \in T : \E s \in S : f[s] = t
    PROVE  /\ IsFiniteSet(T)
           /\ Cardinality(T) \in Nat /\ Cardinality(S) \in Nat
           /\ Cardinality(T) <= Cardinality(S)
           /\ (\A x, y \in S : f[x] = f[y] => x = y) => Cardinality(T) = Cardinality(S)
  <1>1. f \in Surjection(S, T)
    BY DEF Surjection
  <1>2. IsFiniteSet(T) /\ Cardinality(T) <= Cardinality(S)
    BY <1>1, FS_Surjection
  <1>3. (\A x, y \in S : f[x] = f[y] => x = y) => Cardinality(T) = Cardinality(S)
    <2>1. SUFFICES ASSUME \A x, y \in S : f[x] = f[y] => x = y
                   PROVE  Cardinality(T) = Cardinality(S)
      OBVIOUS
    <2>2. f \in Injection(S, T)
      BY <2>1 DEF Injection, IsInjective
    <2> QED BY <1>1, <2>2, FS_Surjection
  <1> QED BY <1>2, <1>3, FS_CardinalityType

\* The sort puts a set of slots that fits a dispatcher into its first
\* positions, in priority order, and loses none of them.
LEMMA PlacedLemma ==
    ASSUME NEW S \in SUBSET Slot, Fits(S), NEW p \in Placements(S)
    PROVE  /\ Placed(S, p) \in SUBSET Slot
           /\ Fits(Placed(S, p))
           /\ WellPlaced(Placed(S, p))
           /\ \A s \in S : \E t \in Placed(S, p) : t.prog = s.prog /\ t.link = s.link
           /\ \A t \in Placed(S, p) : \E s \in S : t.prog = s.prog /\ t.link = s.link
  <1> DEFINE n == Cardinality(S)
             T == Placed(S, p)
             f == [s \in S |-> [s EXCEPT !.pos = p[s]]]
  <1>1. n \in Nat /\ n <= MaxPrograms /\ MaxPrograms \in Nat /\ IsFiniteSet(S)
    BY FS_CardinalityType, BoundAssumption DEF Fits
  <1>2. p \in [S -> 0..(n - 1)]
    BY DEF Placements
  <1>3. \A s, t \in S : s # t => p[s] # p[t] /\ (Before(s, t) => p[s] < p[t])
    BY DEF Placements
  <1>4. \A s \in S : /\ f[s] \in Slot /\ f[s].pos = p[s] /\ f[s].prog = s.prog
                      /\ f[s].link = s.link /\ f[s].prio = s.prio
    BY <1>1, <1>2 DEF Slot, Positions
  <1>5. T = {f[s] : s \in S}
    BY DEF Placed
  <1> HIDE DEF f
  <1>6. T \in SUBSET Slot
    BY <1>4, <1>5
  <1>7. \A x, y \in S : f[x] = f[y] => x = y
    BY <1>3, <1>4
  <1>8. IsFiniteSet(T) /\ Cardinality(T) = n
    <2>1. f \in [S -> T] /\ \A t \in T : \E s \in S : f[s] = t
      BY <1>5 DEF f
    <2> QED BY <1>1, <1>7, <2>1, ImageLemma
  <1>9. OneSlotPerPosition(T)
    <2> SUFFICES ASSUME NEW x \in S, NEW y \in S, f[x].pos = f[y].pos
                 PROVE  f[x] = f[y]
      BY <1>5 DEF OneSlotPerPosition
    <2> QED BY <1>3, <1>4
  <1>10. {t.pos : t \in T} = 0..(n - 1)
    <2>1. IsFiniteSet(0..(n - 1)) /\ Cardinality(0..(n - 1)) = n
      <3>1. 0 \in Int /\ n - 1 \in Int
        BY <1>1
      <3> HIDE DEF n
      <3> QED BY <1>1, <3>1, FS_Interval
    <2>2. p \in Injection(S, 0..(n - 1))
      BY <1>2, <1>3 DEF Injection, IsInjective
    <2>3. p \in Surjection(S, 0..(n - 1))
      BY <2>1, <2>2, FS_Injection
    <2>4. \A i \in 0..(n - 1) : \E s \in S : p[s] = i
      BY <2>3 DEF Surjection
    <2> QED BY <1>2, <1>4, <1>5, <2>4
  <1>11. \A s, t \in T : s.prio < t.prio => s.pos < t.pos
    <2> SUFFICES ASSUME NEW x \in S, NEW y \in S, f[x].prio < f[y].prio
                 PROVE  f[x].pos < f[y].pos
      BY <1>5
    <2>1. x.prio < y.prio
      BY <1>4
    <2>2. x # y
      <3>1. x.prio \in Nat /\ y.prio \in Nat
        BY SlotAssumption DEF Slot
      <3> QED BY <2>1, <3>1
    <2>3. Before(x, y)
      BY <2>1 DEF Before
    <2> QED BY <1>3, <1>4, <2>2, <2>3
  <1> QED BY <1>1, <1>4, <1>5, <1>6, <1>8, <1>9, <1>10, <1>11 DEF Fits, WellPlaced

\* Storing the placed slots keeps them placed.
LEMMA AsMembersLemma ==
    ASSUME NEW S \in SUBSET Slot, Fits(S), WellPlaced(S), NEW id \in LinkIDs
    PROVE  /\ AsMembers(S, id) \in SUBSET Member
           /\ Fits(AsMembers(S, id))
           /\ WellPlaced(AsMembers(S, id))
           /\ \A m \in AsMembers(S, id) : \E s \in S : m.pos = s.pos /\ m.prog = s.prog
  <1> DEFINE T == AsMembers(S, id)
             f == [s \in S |-> IF s.link = None THEN [s EXCEPT !.link = id] ELSE s]
  <1>1. \A s \in S : /\ f[s] \in Member /\ f[s].pos = s.pos /\ f[s].prog = s.prog
                      /\ f[s].prio = s.prio
    BY DEF Slot, Member
  <1>2. T = {f[s] : s \in S}
    BY DEF AsMembers
  <1>3. f \in [S -> T] /\ \A t \in T : \E s \in S : f[s] = t
    BY <1>2
  <1> HIDE DEF f, T
  <1>4. \A x, y \in S : f[x].pos = f[y].pos => x = y
    BY <1>1 DEF WellPlaced, OneSlotPerPosition
  <1>5. IsFiniteSet(T) /\ Cardinality(T) = Cardinality(S)
    BY <1>3, <1>4, ImageLemma DEF Fits
  <1>6. {t.pos : t \in T} = {s.pos : s \in S}
    BY <1>1, <1>2
  <1>7. OneSlotPerPosition(T)
    BY <1>2, <1>4 DEF OneSlotPerPosition
  <1>8. \A s, t \in T : s.prio < t.prio => s.pos < t.pos
    BY <1>1, <1>2 DEF WellPlaced
  <1>9. T \in SUBSET Member /\ \A m \in T : \E s \in S : m.pos = s.pos /\ m.prog = s.prog
    BY <1>1, <1>2
  <1>10. WellPlaced(T) /\ Fits(T)
    BY <1>5, <1>6, <1>7, <1>8 DEF Fits, WellPlaced
  <1> QED BY <1>9, <1>10 DEF T

\* The members left after an exclusion fit a dispatcher.
LEMMA SurvivorSlotsLemma ==
    ASSUME snap \in Snapshot, Fits(snap.members)
    PROVE  /\ SurvivorSlots \in SUBSET Slot
           /\ Fits(SurvivorSlots)
           /\ \A m \in snap.members : m.link # job.link =>
                  \E s \in SurvivorSlots : s.prog = m.prog
  <1> DEFINE S == {x \in snap.members : x.link # job.link}
             f == [m \in S |-> [m EXCEPT !.label = "none"]]
  <1>1. S \in SUBSET Member /\ IsFiniteSet(S) /\ Cardinality(S) <= Cardinality(snap.members)
    BY FS_Subset DEF Snapshot, Fits
  <1>2. \A m \in S : f[m] \in Slot /\ f[m].prog = m.prog
    BY <1>1, SlotAssumption DEF Member, Slot
  <1>3. SurvivorSlots = {f[m] : m \in S}
    BY DEF SurvivorSlots
  <1>4. f \in [S -> SurvivorSlots] /\ \A t \in SurvivorSlots : \E m \in S : f[m] = t
    BY <1>3
  <1> HIDE DEF f, S
  <1>5. SurvivorSlots \in SUBSET Slot
    BY <1>2, <1>3
  <1>6. IsFiniteSet(SurvivorSlots) /\ Cardinality(SurvivorSlots) <= Cardinality(S)
        /\ Cardinality(SurvivorSlots) \in Nat /\ Cardinality(S) \in Nat
    BY <1>1, <1>4, ImageLemma
  <1>7. Cardinality(snap.members) \in Nat /\ MaxPrograms \in Nat
    BY FS_CardinalityType, BoundAssumption DEF Fits
  <1>8. Fits(SurvivorSlots)
    BY <1>1, <1>6, <1>7 DEF Fits
  <1>9. ASSUME NEW m \in snap.members, m.link # job.link
        PROVE  \E s \in SurvivorSlots : s.prog = m.prog
    BY <1>2, <1>3, <1>9 DEF S
  <1> QED BY <1>5, <1>8, <1>9

\* The empty set of slots.
LEMMA NoSlots ==
    /\ Fits({}) /\ WellPlaced({})
    /\ NoSnapshot \in Snapshot /\ NoJob \in Job
    /\ NoJob.slots = {} /\ NoSnapshot.members = {}
  <1>1. IsFiniteSet({}) /\ Cardinality({}) = 0
    BY FS_EmptySet
  <1>2. Fits({}) /\ WellPlaced({})
    BY <1>1, BoundAssumption DEF Fits, WellPlaced, OneSlotPerPosition
  <1>3. NoSnapshot \in Snapshot
    BY BoundAssumption DEF NoSnapshot, Snapshot, Revisions, None
  <1>4. NoJob \in Job
    BY <1>3, BoundAssumption DEF NoJob, Job, Revisions, None
  <1> QED BY <1>2, <1>3, <1>4 DEF NoSnapshot, NoJob

-----------------------------------------------------------------------------
(***************************************************************************)
(* Types, and the chain                                                    *)
(***************************************************************************)

\* What a step leaves alone of the slots.
LEMMA ReturnTypes ==
    ASSUME Return
    PROVE  /\ job' \in Job /\ Fits(job'.slots) /\ WellPlaced(job'.slots)
           /\ pc' = "idle" /\ disp' \in DispatcherIDs \cup {None}
           /\ done' \in Nat /\ handle' \in Handles \cup {None}
  BY NoSlots DEF Return

LEMMA TypeInvInit == Init => TypeInv /\ ChainInv
  <1> SUFFICES ASSUME Init PROVE TypeInv /\ ChainInv
    OBVIOUS
  <1>1. TypeOK
    BY NoSlots, BoundAssumption DEF Init, TypeOK, None
  <1>2. Fits(snap.members) /\ Fits(job.slots) /\ ChainInv
    BY NoSlots DEF Init, ChainInv
  <1>3. ~Loaded /\ pc # "cleanold"
    BY DEF Init, Loaded, Rebuilding
  <1> QED BY <1>1, <1>2, <1>3 DEF TypeInv

LEMMA RebuildForAttachTypes ==
    ASSUME TypeInv, ChainInv,
           NEW p \in Programs, NEW prio \in Priorities, NEW label \in Labels,
           RebuildForAttach(p, prio, label)
    PROVE  TypeInv' /\ ChainInv'
  <1> DEFINE new   == [link |-> None, prog |-> p, prio |-> prio, label |-> label, pos |-> 0]
             slots == snap.members \cup {new}
  <1>1. new \in Slot
    BY BoundAssumption DEF Slot, Positions
  <1>2. slots \in SUBSET Slot
    BY <1>1 DEF TypeInv, TypeOK, Snapshot, Member, Slot
  <1>3. Fits(slots)
    BY FS_AddElement DEF TypeInv, Fits, RebuildForAttach
  <1>4. PICK place \in Placements(slots) :
          job' = [kind |-> "attach", link |-> None, slots |-> Placed(slots, place),
                  old |-> snap, rev |-> NextRevision]
    BY DEF RebuildForAttach
  <1> HIDE DEF slots
  <1>5. Placed(slots, place) \in SUBSET Slot /\ Fits(Placed(slots, place))
        /\ WellPlaced(Placed(slots, place))
    BY <1>2, <1>3, PlacedLemma
  <1>6. NextRevision \in Revisions
    BY NextRevisionLemma DEF NextRevision, TypeInv, TypeOK, Snapshot
  <1>7. job' \in Job /\ job'.slots = Placed(slots, place)
    BY <1>4, <1>5, <1>6 DEF Job, TypeInv, TypeOK
  <1>8. UNCHANGED <<snap, prog, ext, hooks, netns, disp, done, handle, requested>> /\ pc' = "load"
    BY DEF RebuildForAttach, persistent
  <1>9. TypeOK'
    BY <1>7, <1>8 DEF TypeInv, TypeOK
  <1>10. ~Loaded' /\ pc' # "cleanold"
    BY <1>8 DEF Loaded, Rebuilding
  <1>11. Fits(snap.members)' /\ Fits(job.slots)'
    BY <1>5, <1>7, <1>8 DEF TypeInv, Fits
  <1> QED BY <1>5, <1>7, <1>8, <1>9, <1>10, <1>11 DEF TypeInv, ChainInv, WellPlaced, OneSlotPerPosition

\* A step that changes neither the members nor the slots.
LEMMA SlotsKept ==
    ASSUME TypeInv, ChainInv, UNCHANGED snap, job'.slots = job.slots, TypeOK',
           Loaded' \/ pc' = "cleanold" => disp' \in DispatcherIDs
    PROVE  TypeInv' /\ ChainInv'
  BY DEF TypeInv, ChainInv, Fits, WellPlaced, OneSlotPerPosition

\* A step that ends the operation.
LEMMA SlotsDropped ==
    ASSUME TypeInv, ChainInv, UNCHANGED snap, Return, TypeOK'
    PROVE  TypeInv' /\ ChainInv'
  <1>1. ~Loaded' /\ pc' # "cleanold"
    BY DEF Return, Loaded, Rebuilding
  <1> QED BY <1>1, ReturnTypes DEF TypeInv, ChainInv, Fits, WellPlaced, OneSlotPerPosition

LEMMA RebuildForDetachTypes ==
    ASSUME TypeInv, ChainInv, RebuildForDetach
    PROVE  TypeInv' /\ ChainInv'
  <1>0. UNCHANGED <<snap, prog, ext, hooks, netns, disp, done, handle, requested>>
    BY DEF RebuildForDetach, persistent
  <1>1. CASE SurvivorSlots = {} \/ ~netns
    <2>1. pc' = "teardown" /\ UNCHANGED job
      BY <1>1 DEF RebuildForDetach
    <2>2. TypeOK' /\ ~Loaded' /\ pc' # "cleanold"
      BY <1>0, <2>1 DEF TypeInv, TypeOK, Loaded, Rebuilding
    <2> QED BY <1>0, <2>1, <2>2, SlotsKept
  <1>2. CASE ~(SurvivorSlots = {} \/ ~netns)
    <2>1. PICK place \in Placements(SurvivorSlots) :
            job' = [job EXCEPT !.slots = Placed(SurvivorSlots, place), !.rev = NextRevision]
      BY <1>2 DEF RebuildForDetach
    <2>2. pc' = "load"
      BY <1>2 DEF RebuildForDetach
    <2> DEFINE S == SurvivorSlots
    <2>3. S \in SUBSET Slot /\ Fits(S)
      BY SurvivorSlotsLemma DEF TypeInv, TypeOK
    <2> HIDE DEF S
    <2>4. /\ Placed(S, place) \in SUBSET Slot /\ Fits(Placed(S, place))
          /\ WellPlaced(Placed(S, place))
      BY <2>1, <2>3, PlacedLemma DEF S
    <2>5. NextRevision \in Revisions
      BY NextRevisionLemma DEF NextRevision, TypeInv, TypeOK, Snapshot
    <2>6. job' \in Job /\ job'.slots = Placed(S, place)
      BY <2>1, <2>4, <2>5 DEF Job, TypeInv, TypeOK, S
    <2>7. TypeOK' /\ ~Loaded' /\ pc' # "cleanold"
      BY <1>0, <2>2, <2>6 DEF TypeInv, TypeOK, Loaded, Rebuilding
    <2> QED BY <1>0, <2>4, <2>6, <2>7 DEF TypeInv, ChainInv, Fits, WellPlaced, OneSlotPerPosition
  <1> QED BY <1>1, <1>2

LEMMA PersistTypes ==
    ASSUME TypeInv, ChainInv, ReplaceDispatcherSnapshot
    PROVE  TypeInv' /\ ChainInv'
  <1>1. PICK id \in LinkIDs :
          snap' = [rev |-> job.rev, disp |-> disp, handle |-> handle,
                   members |-> AsMembers(job.slots, id)]
    BY DEF ReplaceDispatcherSnapshot
  <1> DEFINE M == AsMembers(job.slots, id)
  <1>2. job.slots \in SUBSET Slot /\ Fits(job.slots) /\ WellPlaced(job.slots)
    BY DEF TypeInv, TypeOK, Job, ChainInv
  <1>3. M \in SUBSET Member /\ Fits(M) /\ WellPlaced(M)
    BY <1>2, AsMembersLemma
  <1> HIDE DEF M
  <1>4. snap' \in Snapshot /\ snap'.members = M
    BY <1>1, <1>3 DEF Snapshot, TypeInv, TypeOK, Job, M
  <1>5. UNCHANGED <<prog, ext, hooks, netns, job, disp, done, handle>> /\ pc' = "cleanold"
    BY DEF ReplaceDispatcherSnapshot
  <1>6. requested' \subseteq LinkIDs
    BY DEF ReplaceDispatcherSnapshot, TypeInv, TypeOK
  <1>7. TypeOK'
    BY <1>4, <1>5, <1>6 DEF TypeInv, TypeOK
  <1>8. disp' \in DispatcherIDs
    BY <1>5 DEF ReplaceDispatcherSnapshot, TypeInv, Loaded, Rebuilding
  <1> QED BY <1>2, <1>3, <1>4, <1>5, <1>7, <1>8
          DEF TypeInv, ChainInv, Fits, WellPlaced, OneSlotPerPosition

\* The hooks an operation makes, and those it leaves defunct, are hooks.
LEMMA HookTypes ==
    /\ \A d \in DispatcherIDs : OuterLink(d) \in Hook
    /\ \A d \in DispatcherIDs, n \in Handles : Filter(n, d) \in Hook
    /\ \A H \in SUBSET Hook : Defunct(H) \in SUBSET Hook
  <1>1. \A d \in DispatcherIDs : OuterLink(d) \in Hook
    BY DEF OuterLink, Hook
  <1>2. \A d \in DispatcherIDs, n \in Handles : Filter(n, d) \in Hook
    BY DEF Filter, Hook
  <1>3. \A h \in Hook : [h EXCEPT !.live = FALSE] \in Hook
    BY DEF Hook
  <1>4. \A H \in SUBSET Hook : Defunct(H) \in SUBSET Hook
    BY <1>3 DEF Defunct
  <1> QED BY <1>1, <1>2, <1>4

\* The dispatcher of the old revision, when its pin is there.
LEMMA OldDispatcher ==
    ASSUME TypeInv, prog[job.old.rev] # None
    PROVE  prog[job.old.rev] \in DispatcherIDs
  BY DEF TypeInv, TypeOK, Job, Snapshot

\* The extension attached next: one of the new dispatcher, for a slot of the
\* rebuild.
LEMMA NewExtension ==
    ASSUME TypeInv, pc = "ext"
    PROVE  /\ NewExt \subseteq ExtLink
           /\ \A e \in NewExt : e.rev = job.rev /\ e.disp = disp /\ \E s \in job.slots : e.prog = s.prog
  <1>1. disp \in DispatcherIDs /\ job.rev \in Revisions /\ job.slots \subseteq Slot
    BY DEF TypeInv, TypeOK, Loaded, Rebuilding, Job
  <1>2. SUFFICES ASSUME NEW s \in job.slots, s.pos = done
                 PROVE  LET e == [rev |-> job.rev, pos |-> done, disp |-> disp, prog |-> s.prog]
                        IN  e \in ExtLink /\ e.rev = job.rev /\ e.disp = disp /\ e.prog = s.prog
    BY DEF NewExt
  <1> QED BY <1>1, <1>2 DEF ExtLink, Slot

LEMMA TypeInvNext == TypeInv /\ ChainInv /\ [Next]_vars => TypeInv' /\ ChainInv'
  <1> SUFFICES ASSUME TypeInv, ChainInv, [Next]_vars PROVE TypeInv' /\ ChainInv'
    OBVIOUS
  <1>1. ASSUME NEW p \in Programs, NEW prio \in Priorities, NEW label \in Labels,
              RebuildForAttach(p, prio, label)
       PROVE  TypeInv' /\ ChainInv'
    BY <1>1, RebuildForAttachTypes
  <1>2. ASSUME NEW m \in snap.members, DetachExtension(m)
       PROVE  TypeInv' /\ ChainInv'
    <2>1. m.link \in LinkIDs
      BY DEF TypeInv, TypeOK, Snapshot, Member
    <2>2. job' = [NoJob EXCEPT !.kind = "detach", !.link = m.link, !.old = snap]
          /\ pc' = "exclude" /\ UNCHANGED <<snap, prog, hooks, netns, disp, done, handle>>
          /\ ext' \subseteq ext /\ requested' = requested \cup {m.link}
      BY <1>2 DEF DetachExtension
    <2>3. job' \in Job /\ job'.slots = {}
      BY <2>1, <2>2, NoSlots DEF NoJob, Job, TypeInv, TypeOK
    <2>4. TypeOK' /\ ~Loaded' /\ pc' # "cleanold"
      BY <2>1, <2>2, <2>3 DEF TypeInv, TypeOK, Loaded, Rebuilding
    <2> QED BY <2>2, <2>3, <2>4, NoSlots DEF TypeInv, ChainInv, Fits, WellPlaced, OneSlotPerPosition
  <1>3. CASE RebuildForDetach
    BY <1>3, RebuildForDetachTypes
  <1>4. CASE LoadDispatcher
    <2>1. TypeOK' /\ (Loaded' \/ pc' = "cleanold" => disp' \in DispatcherIDs)
      BY <1>4 DEF LoadDispatcher, TypeInv, TypeOK, Loaded, Rebuilding, Job
    <2>2. UNCHANGED <<snap, job>>
      BY <1>4 DEF LoadDispatcher
    <2> QED BY <2>1, <2>2, SlotsKept
  <1>5. CASE LoadDispatcherFails
    <2>1. Return /\ UNCHANGED snap
      BY <1>5 DEF LoadDispatcherFails, persistent
    <2>2. TypeOK'
      BY <1>5, <2>1, ReturnTypes DEF LoadDispatcherFails, TypeInv, TypeOK, persistent
    <2> QED BY <2>1, <2>2, SlotsDropped
  <1>6. CASE AttachExtension
    <2>1. TypeOK' /\ (Loaded' \/ pc' = "cleanold" => disp' \in DispatcherIDs)
      BY <1>6 DEF AttachExtension, TypeInv, TypeOK, Loaded, Rebuilding, ExtLink, Job, Slot
    <2>2. UNCHANGED <<snap, job>>
      BY <1>6 DEF AttachExtension
    <2> QED BY <2>1, <2>2, SlotsKept
  <1>7. CASE AttachExtensionFails
    <2>1. TypeOK' /\ (Loaded' \/ pc' = "cleanold" => disp' \in DispatcherIDs)
      <3>1. pc = "ext" /\ ext' \subseteq ext \cup NewExt
        BY <1>7 DEF AttachExtensionFails, ExtAt
      <3>2. ext' \subseteq ExtLink
        BY <3>1, NewExtension DEF TypeInv, TypeOK
      <3> QED BY <1>7, <3>2 DEF AttachExtensionFails, TypeInv, TypeOK, Loaded, Rebuilding
    <2>2. UNCHANGED <<snap, job>>
      BY <1>7 DEF AttachExtensionFails
    <2> QED BY <2>1, <2>2, SlotsKept
  <1>8. CASE ExtensionsAttached
    <2>1. TypeOK' /\ (Loaded' \/ pc' = "cleanold" => disp' \in DispatcherIDs)
      BY <1>8 DEF ExtensionsAttached, TypeInv, TypeOK, Loaded, Rebuilding, persistent
    <2>2. UNCHANGED <<snap, job>>
      BY <1>8 DEF ExtensionsAttached, persistent
    <2> QED BY <2>1, <2>2, SlotsKept
  <1>9. CASE CreateXDPLink
    <2>1. TypeOK' /\ (Loaded' \/ pc' = "cleanold" => disp' \in DispatcherIDs)
      BY <1>9 DEF CreateXDPLink, TypeInv, TypeOK, Loaded, Rebuilding, OuterLink, Hook
    <2>2. UNCHANGED <<snap, job>>
      BY <1>9 DEF CreateXDPLink
    <2> QED BY <2>1, <2>2, SlotsKept
  <1>10. CASE UpdateXDPDispatcherLink
    <2>1. TypeOK' /\ (Loaded' \/ pc' = "cleanold" => disp' \in DispatcherIDs)
      BY <1>10 DEF UpdateXDPDispatcherLink, TypeInv, TypeOK, Loaded, Rebuilding, OuterLink, Hook
    <2>2. UNCHANGED <<snap, job>>
      BY <1>10 DEF UpdateXDPDispatcherLink
    <2> QED BY <2>1, <2>2, SlotsKept
  <1>11. CASE CreateTCFilter
    <2>1. TypeOK' /\ (Loaded' \/ pc' = "cleanold" => disp' \in DispatcherIDs)
      <3>1. PICK n \in Handles : handle' = n /\ hooks' = hooks \cup {Filter(n, disp)}
        BY <1>11 DEF CreateTCFilter, FreeHandles
      <3>2. disp \in DispatcherIDs
        BY <1>11 DEF CreateTCFilter, TypeInv, Loaded, Rebuilding
      <3>3. hooks' \subseteq Hook /\ handle' \in Handles
        BY <3>1, <3>2, HookTypes DEF TypeInv, TypeOK
      <3> QED BY <1>11, <3>2, <3>3 DEF CreateTCFilter, TypeInv, TypeOK, Loaded, Rebuilding
    <2>2. UNCHANGED <<snap, job>>
      BY <1>11 DEF CreateTCFilter
    <2> QED BY <2>1, <2>2, SlotsKept
  <1>12. CASE DetachOldTCFilter
    <2>1. TypeOK' /\ (Loaded' \/ pc' = "cleanold" => disp' \in DispatcherIDs)
      BY <1>12 DEF DetachOldTCFilter, TypeInv, TypeOK, Loaded, Rebuilding
    <2>2. UNCHANGED <<snap, job>>
      BY <1>12 DEF DetachOldTCFilter
    <2> QED BY <2>1, <2>2, SlotsKept
  <1>13. CASE DetachOldTCFilterFails
    <2>1. TypeOK' /\ (Loaded' \/ pc' = "cleanold" => disp' \in DispatcherIDs)
      BY <1>13 DEF DetachOldTCFilterFails, TypeInv, TypeOK, Loaded, Rebuilding, persistent
    <2>2. UNCHANGED <<snap, job>>
      BY <1>13 DEF DetachOldTCFilterFails, persistent
    <2> QED BY <2>1, <2>2, SlotsKept
  <1>14. CASE SwapFails
    <2>1. TypeOK' /\ (Loaded' \/ pc' = "cleanold" => disp' \in DispatcherIDs)
      <3>1. disp \in DispatcherIDs
        BY <1>14 DEF SwapFails, TypeInv, Loaded, Rebuilding
      <3>2. hooks' = hooks \/ \E n \in Handles : hooks' = hooks \cup {Filter(n, disp)}
        BY <1>14 DEF SwapFails, FreeHandles
      <3>3. hooks' \subseteq Hook
        BY <3>1, <3>2, HookTypes DEF TypeInv, TypeOK
      <3> QED BY <1>14, <3>1, <3>3 DEF SwapFails, TypeInv, TypeOK, Loaded, Rebuilding
    <2>2. UNCHANGED <<snap, job>>
      BY <1>14 DEF SwapFails, persistent
    <2> QED BY <2>1, <2>2, SlotsKept
  <1>15. CASE ReplaceDispatcherSnapshot
    BY <1>15, PersistTypes
  <1>16. CASE ReplaceDispatcherSnapshotFails
    <2>1. TypeOK' /\ (Loaded' \/ pc' = "cleanold" => disp' \in DispatcherIDs)
      BY <1>16 DEF ReplaceDispatcherSnapshotFails, TypeInv, TypeOK, Loaded, Rebuilding, persistent
    <2>2. UNCHANGED <<snap, job>>
      BY <1>16 DEF ReplaceDispatcherSnapshotFails, persistent
    <2> QED BY <2>1, <2>2, SlotsKept
  <1>17. CASE RemoveOldRevision
    <2>1. Return /\ UNCHANGED snap
      BY <1>17 DEF RemoveOldRevision
    <2>2. TypeOK'
      BY <1>17, <2>1, ReturnTypes DEF RemoveOldRevision, TypeInv, TypeOK, Removing
    <2> QED BY <2>1, <2>2, SlotsDropped
  <1>18. CASE RestoreXDP
    <2>1. TypeOK' /\ (Loaded' \/ pc' = "cleanold" => disp' \in DispatcherIDs)
      <3>1. hooks' \subseteq Hook
        BY <1>18, HookTypes, OldDispatcher DEF RestoreXDP
      <3> QED BY <1>18, <3>1 DEF RestoreXDP, TypeInv, TypeOK, Loaded, Rebuilding
    <2>2. UNCHANGED <<snap, job>>
      BY <1>18 DEF RestoreXDP
    <2> QED BY <2>1, <2>2, SlotsKept
  <1>19. CASE RestoreXDPFails
    <2>1. TypeOK' /\ (Loaded' \/ pc' = "cleanold" => disp' \in DispatcherIDs)
      <3>1. hooks' \subseteq Hook
        BY <1>19, HookTypes DEF RestoreXDPFails, TypeInv, TypeOK
      <3> QED BY <1>19, <3>1 DEF RestoreXDPFails, TypeInv, TypeOK, Loaded, Rebuilding
    <2>2. UNCHANGED <<snap, job>>
      BY <1>19 DEF RestoreXDPFails
    <2> QED BY <2>1, <2>2, SlotsKept
  <1>20. CASE RestoreDeleteNewFilter
    <2>1. TypeOK' /\ (Loaded' \/ pc' = "cleanold" => disp' \in DispatcherIDs)
      BY <1>20 DEF RestoreDeleteNewFilter, TypeInv, TypeOK, Loaded, Rebuilding
    <2>2. UNCHANGED <<snap, job>>
      BY <1>20 DEF RestoreDeleteNewFilter
    <2> QED BY <2>1, <2>2, SlotsKept
  <1>21. CASE RestoreOldFilter
    <2>1. TypeOK' /\ (Loaded' \/ pc' = "cleanold" => disp' \in DispatcherIDs)
      <3>1. CanReaddOldFilter => job.old.handle \in Handles /\ prog[job.old.rev] \in DispatcherIDs
        BY OldDispatcher DEF CanReaddOldFilter, FreeHandles
      <3>2. hooks' \subseteq Hook
        BY <1>21, <3>1, HookTypes DEF RestoreOldFilter, TypeInv, TypeOK
      <3> QED BY <1>21, <3>2 DEF RestoreOldFilter, TypeInv, TypeOK, Loaded, Rebuilding
    <2>2. UNCHANGED <<snap, job>>
      BY <1>21 DEF RestoreOldFilter
    <2> QED BY <2>1, <2>2, SlotsKept
  <1>22. CASE Rollback
    <2>1. Return /\ UNCHANGED snap
      BY <1>22 DEF Rollback
    <2>2. TypeOK'
      BY <1>22, <2>1, ReturnTypes DEF Rollback, TypeInv, TypeOK, CleanedByRollback
    <2> QED BY <2>1, <2>2, SlotsDropped
  <1>23. CASE TeardownDetach
    <2>1. TypeOK' /\ (Loaded' \/ pc' = "cleanold" => disp' \in DispatcherIDs)
      BY <1>23 DEF TeardownDetach, TypeInv, TypeOK, Loaded, Rebuilding
    <2>2. UNCHANGED <<snap, job>>
      BY <1>23 DEF TeardownDetach
    <2> QED BY <2>1, <2>2, SlotsKept
  <1>24. CASE TeardownDetachFails
    <2>1. Return /\ UNCHANGED snap
      BY <1>24 DEF TeardownDetachFails
    <2>2. TypeOK'
      <3>1. hooks' \subseteq Hook
        BY <1>24, HookTypes DEF TeardownDetachFails, TypeInv, TypeOK
      <3> QED BY <1>24, <2>1, <3>1, ReturnTypes DEF TeardownDetachFails, TypeInv, TypeOK
    <2> QED BY <2>1, <2>2, SlotsDropped
  <1>25. CASE TeardownUnpin
    <2>1. TypeOK' /\ (Loaded' \/ pc' = "cleanold" => disp' \in DispatcherIDs)
      BY <1>25 DEF TeardownUnpin, TypeInv, TypeOK, Loaded, Rebuilding, Removing
    <2>2. UNCHANGED <<snap, job>>
      BY <1>25 DEF TeardownUnpin
    <2> QED BY <2>1, <2>2, SlotsKept
  <1>26. CASE DeleteDispatcherSnapshot
    <2>1. Return /\ snap' = NoSnapshot /\ UNCHANGED <<prog, ext, hooks, netns>> /\ requested' = {}
      BY <1>26 DEF DeleteDispatcherSnapshot
    <2>2. TypeOK'
      BY <2>1, NoSlots, ReturnTypes DEF TypeInv, TypeOK
    <2>3. ~Loaded' /\ pc' # "cleanold"
      BY <2>1 DEF Return, Loaded, Rebuilding
    <2> QED BY <2>1, <2>2, <2>3, NoSlots, ReturnTypes
            DEF TypeInv, ChainInv, Fits, WellPlaced, OneSlotPerPosition
  <1>27. CASE DeleteDispatcherSnapshotFails
    <2>1. Return /\ UNCHANGED snap
      BY <1>27 DEF DeleteDispatcherSnapshotFails, persistent
    <2>2. TypeOK'
      BY <1>27, <2>1, ReturnTypes DEF DeleteDispatcherSnapshotFails, TypeInv, TypeOK, persistent
    <2> QED BY <2>1, <2>2, SlotsDropped
  <1>28. CASE Crash
    <2>1. Return /\ UNCHANGED snap
      BY <1>28 DEF Crash, persistent
    <2>2. TypeOK'
      BY <1>28, <2>1, ReturnTypes DEF Crash, TypeInv, TypeOK, persistent
    <2> QED BY <2>1, <2>2, SlotsDropped
  <1>29. CASE NetnsDeleted
    <2>1. TypeOK' /\ (Loaded' \/ pc' = "cleanold" => disp' \in DispatcherIDs)
      BY <1>29 DEF NetnsDeleted, TypeInv, TypeOK, Loaded, Rebuilding, Defunct, Hook
    <2>2. UNCHANGED <<snap, job>>
      BY <1>29 DEF NetnsDeleted
    <2> QED BY <2>1, <2>2, SlotsKept
  <1>30. CASE UNCHANGED vars
    <2>1. TypeOK' /\ (Loaded' \/ pc' = "cleanold" => disp' \in DispatcherIDs)
      BY <1>30 DEF vars, TypeInv, TypeOK, Loaded, Rebuilding
    <2> QED BY <1>30, <2>1, SlotsKept DEF vars
  <1>31. ASSUME NEW m \in snap.members, DetachExtensionFails(m)
       PROVE  TypeInv' /\ ChainInv'
    <2>1. m.link \in LinkIDs
      BY DEF TypeInv, TypeOK, Snapshot, Member
    <2>2. UNCHANGED <<snap, prog, ext, hooks, netns, pc, job, disp, done, handle>>
          /\ requested' = requested \cup {m.link}
      BY <1>31 DEF DetachExtensionFails, persistent
    <2>3. TypeOK' /\ (Loaded' \/ pc' = "cleanold" => disp' \in DispatcherIDs)
      BY <2>1, <2>2 DEF TypeInv, TypeOK, Loaded, Rebuilding
    <2> QED BY <2>2, <2>3, SlotsKept
  <1> QED BY <1>1, <1>2, <1>3, <1>4, <1>5, <1>6, <1>7, <1>8, <1>9, <1>10, <1>11, <1>12, <1>13, <1>14, <1>15, <1>16, <1>17, <1>18, <1>19, <1>20, <1>21, <1>22, <1>23, <1>24, <1>25, <1>26, <1>27, <1>28, <1>29, <1>30, <1>31
          DEF Next, Request, Step, Environment, Quiet

\* The store rows, the pins, the hooks and the rebuild in progress keep their
\* types in every reachable state of every instance of the dispatcher.
THEOREM TypeCorrect == Spec => []TypeOK
  <1>1. TypeInv => TypeOK
    BY DEF TypeInv
  <1> QED BY <1>1, TypeInvInit, TypeInvNext, PTL DEF Spec

\* The persisted chain is in priority order and uses the positions 0..n-1
\* once each, whatever calls fail and wherever the process dies.
THEOREM ChainOrdered == Spec => []ChainOrder
  <1>1. ChainInv => ChainOrder
    BY DEF ChainInv, WellPlaced, ChainOrder
  <1> QED BY <1>1, TypeInvInit, TypeInvNext, PTL DEF Spec

-----------------------------------------------------------------------------
(***************************************************************************)
(* XDP: the links nobody asked to detach run at every instant              *)
(***************************************************************************)

LEMMA ServedInvInit == Init => ServedInv
  BY NoSlots DEF Init, ServedInv, JobInv, AttachedInv, RecordedInv, HookInv, Rebuilding, Loaded

LEMMA ServedInvNext ==
    ASSUME Kind = "xdp", "rollback" \notin Faults
    PROVE  TypeInv /\ ChainInv /\ ServedInv /\ [Next]_vars => ServedInv'
  <1> SUFFICES ASSUME TypeInv, ChainInv, ServedInv, [Next]_vars PROVE ServedInv'
    OBVIOUS
  <1>a. snap.rev \in Revisions /\ NextRevision \in Revisions /\ NextRevision # snap.rev
    BY NextRevisionLemma DEF NextRevision, TypeInv, TypeOK, Snapshot
  <1>b. UNCHANGED snap => UNCHANGED NextRevision
    BY DEF NextRevision
  <1>1. ASSUME NEW p \in Programs, NEW prio \in Priorities, NEW label \in Labels,
              RebuildForAttach(p, prio, label)
       PROVE  ServedInv'
    <2> DEFINE new   == [link |-> None, prog |-> p, prio |-> prio, label |-> label, pos |-> 0]
               slots == snap.members \cup {new}
    <2>1. slots \in SUBSET Slot /\ Fits(slots)
      <3>1. new \in Slot
        BY BoundAssumption DEF Slot, Positions
      <3>2. snap.members \in SUBSET Slot
        BY DEF TypeInv, TypeOK, Snapshot, Member, Slot
      <3> QED BY <1>1, <3>1, <3>2, FS_AddElement DEF TypeInv, Fits, RebuildForAttach
    <2>2. PICK place \in Placements(slots) :
            job' = [kind |-> "attach", link |-> None, slots |-> Placed(slots, place),
                    old |-> snap, rev |-> NextRevision]
      BY <1>1 DEF RebuildForAttach
    <2>3. pc = "idle" /\ pc' = "load"
          /\ UNCHANGED <<snap, prog, ext, hooks, netns, disp, done, handle, requested>>
      BY <1>1 DEF RebuildForAttach, persistent, Idle
    <2>4. \A m \in snap.members : \E s \in job'.slots : s.prog = m.prog
      <3> HIDE DEF slots
      <3>1. \A m \in slots : \E s \in Placed(slots, place) : s.prog = m.prog
        BY <2>1, PlacedLemma
      <3> QED BY <2>2, <3>1 DEF slots
    <2>5. JobInv'
      BY <2>2, <2>3, <2>4, <1>b DEF JobInv, Rebuilding, Loaded
    <2> QED BY <1>b, <2>3, <2>5
            DEF ServedInv, AttachedInv, RecordedInv, HookInv, Survivor, Ahead, HookedTo
  <1>2. ASSUME NEW m \in snap.members, DetachExtension(m)
       PROVE  ServedInv'
    <2>1. /\ pc = "idle" /\ pc' = "exclude" /\ UNCHANGED <<snap, prog, hooks, netns>>
          /\ requested' = requested \cup {m.link}
          /\ ext' = {e \in ext : ~(e.rev = snap.rev /\ e.pos = m.pos)}
          /\ job'.link = m.link /\ job'.old = snap
      BY <1>2 DEF DetachExtension, Idle, NoJob
    <2>2. \A n \in snap.members : Survivor(n)' => Survivor(n) /\ n.pos # m.pos
      BY <2>1 DEF Survivor, ChainInv, WellPlaced, OneSlotPerPosition
    <2>3. JobInv' /\ AttachedInv'
      BY <2>1 DEF JobInv, AttachedInv, Rebuilding, Loaded
    <2>4. RecordedInv'
      BY <2>1, <2>2 DEF ServedInv, RecordedInv
    <2>5. HookInv'
      BY <1>a, <1>b, <2>1, <2>2 DEF ServedInv, HookInv, Ahead, HookedTo
    <2> QED BY <2>1, <2>3, <2>4, <2>5 DEF ServedInv
  <1>3. CASE RebuildForDetach
    <2>1. pc = "exclude" /\ UNCHANGED <<snap, prog, ext, hooks, netns, disp, done, handle, requested>>
      BY <1>3 DEF RebuildForDetach, persistent
    <2>2. \A m \in snap.members : Survivor(m) => \E s \in SurvivorSlots : s.prog = m.prog
      BY <2>1, SurvivorSlotsLemma DEF ServedInv, JobInv, Survivor, TypeInv, TypeOK
    <2>3. CASE SurvivorSlots = {} \/ ~netns
      <3>1. pc' = "teardown" /\ UNCHANGED job
        BY <1>3, <2>3 DEF RebuildForDetach
      <3>2. \A m \in snap.members : ~Survivor(m)
        BY <2>2, <2>3 DEF Survivor
      <3> QED BY <2>1, <3>1, <3>2 DEF ServedInv, JobInv, AttachedInv, RecordedInv, HookInv, Survivor, Ahead, HookedTo, Rebuilding, Loaded
    <2>4. CASE ~(SurvivorSlots = {} \/ ~netns)
      <3>1. PICK place \in Placements(SurvivorSlots) :
              job' = [job EXCEPT !.slots = Placed(SurvivorSlots, place), !.rev = NextRevision]
        BY <1>3, <2>4 DEF RebuildForDetach
      <3>2. pc' = "load"
        BY <1>3, <2>4 DEF RebuildForDetach
      <3>3. SurvivorSlots \in SUBSET Slot /\ Fits(SurvivorSlots)
        BY SurvivorSlotsLemma DEF TypeInv, TypeOK
      <3>4. \A m \in SurvivorSlots : \E s \in Placed(SurvivorSlots, place) : s.prog = m.prog
        BY <3>3, PlacedLemma
      <3>5. job'.slots = Placed(SurvivorSlots, place) /\ job'.rev = NextRevision /\ job'.old = job.old
        BY <3>1 DEF TypeInv, TypeOK, Job
      <3>6. \A m \in snap.members : Survivor(m) => \E s \in job'.slots : s.prog = m.prog
        BY <2>2, <3>4, <3>5
      <3>7. JobInv'
        BY <1>b, <2>1, <3>2, <3>5, <3>6 DEF ServedInv, JobInv, Survivor, Rebuilding, Loaded
      <3> QED BY <1>b, <2>1, <3>2, <3>7
              DEF ServedInv, AttachedInv, RecordedInv, HookInv, Survivor, Ahead, HookedTo
    <2> QED BY <2>3, <2>4
  <1>4. CASE LoadDispatcher
    <2>1. JobInv' /\ pc' \notin {"delold", "delnew", "readdold"}
      BY <1>4, <1>a, <1>b DEF LoadDispatcher, TypeInv, TypeOK,
         ServedInv, JobInv, Survivor, Rebuilding, Loaded
    <2>2. AttachedInv'
      <3>1. \A s \in job.slots : ~(s.pos < 0)
        BY DEF TypeInv, TypeOK, Job, Slot, Positions
      <3> QED BY <1>4, <3>1 DEF LoadDispatcher, AttachedInv
    <2>3. RecordedInv'
      BY <1>4, <1>a DEF LoadDispatcher, TypeInv, TypeOK,
         ServedInv, JobInv, RecordedInv, Survivor, Rebuilding, Loaded
    <2>4. HookInv'
      <3>1. prog[NextRevision] = None
        BY <1>4 DEF LoadDispatcher, ServedInv, JobInv, Rebuilding
      <3>2. \A m : ~Ahead(m)
        BY <3>1, IdAssumption DEF Ahead, None
      <3> QED BY <1>4, <3>2 DEF LoadDispatcher, ServedInv, HookInv, Survivor, HookedTo
    <2> QED BY <2>1, <2>2, <2>3, <2>4 DEF ServedInv
  <1>5. CASE LoadDispatcherFails
    BY <1>5, <1>a, <1>b DEF LoadDispatcherFails, Return, persistent, TypeInv, TypeOK,
       ServedInv, JobInv, AttachedInv, RecordedInv, HookInv, Survivor, Ahead, HookedTo, Rebuilding, Loaded
  <1>6. CASE AttachExtension
    <2>1. JobInv' /\ pc' \notin {"delold", "delnew", "readdold"}
      BY <1>6, <1>a, <1>b DEF AttachExtension, AllAttached, TypeInv, TypeOK,
         ServedInv, JobInv, Survivor, Rebuilding, Loaded
    <2>2. AttachedInv'
      <3>1. PICK s \in job.slots : /\ s.pos = done
              /\ ext' = ext \cup {[rev |-> job.rev, pos |-> done, disp |-> disp, prog |-> s.prog]}
        BY <1>6 DEF AttachExtension
      <3>2. done' = done + 1 /\ done \in Nat /\ pc = "ext" /\ pc' = "ext"
            /\ UNCHANGED <<job, disp>>
        BY <1>6 DEF AttachExtension, TypeInv, TypeOK
      <3>3. ASSUME NEW t \in job.slots, t.pos < done + 1
            PROVE  [rev |-> job.rev, pos |-> t.pos, disp |-> disp, prog |-> t.prog] \in ext'
        <4>1. t.pos \in Nat
          BY DEF TypeInv, TypeOK, Job, Slot, Positions
        <4>2. CASE t.pos = done
          BY <3>1, <4>2 DEF ChainInv, WellPlaced, OneSlotPerPosition
        <4>3. CASE t.pos < done
          BY <3>1, <3>2, <4>3 DEF ServedInv, AttachedInv
        <4> QED BY <3>2, <3>3, <4>1, <4>2, <4>3
      <3> QED BY <3>2, <3>3 DEF AttachedInv
    <2>3. RecordedInv'
      BY <1>6, <1>a DEF AttachExtension, AllAttached, TypeInv, TypeOK,
         ServedInv, JobInv, RecordedInv, Survivor, Rebuilding, Loaded
    <2>4. HookInv'
      BY <1>6, <1>a, <1>b DEF AttachExtension, AllAttached, TypeInv, TypeOK,
         ServedInv, JobInv, AttachedInv, RecordedInv, HookInv, Survivor, Ahead, HookedTo, Rebuilding, Loaded
    <2> QED BY <2>1, <2>2, <2>3, <2>4 DEF ServedInv
  <1>7. CASE AttachExtensionFails
    <2>1. JobInv' /\ pc' \notin {"delold", "delnew", "readdold"}
      BY <1>7, <1>a, <1>b DEF AttachExtensionFails, ExtAt, AllAttached, TypeInv, TypeOK,
         ServedInv, JobInv, Survivor, Rebuilding, Loaded
    <2>2. AttachedInv'
      BY <1>7, <1>a DEF AttachExtensionFails, ExtAt, AllAttached, TypeInv, TypeOK,
         ServedInv, JobInv, AttachedInv, HookedTo, Rebuilding, Loaded
    <2>3. RecordedInv'
      BY <1>7, <1>a DEF AttachExtensionFails, ExtAt, AllAttached, TypeInv, TypeOK,
         ServedInv, JobInv, RecordedInv, Survivor, Rebuilding, Loaded
    <2>4. HookInv'
      BY <1>7, <1>a, <1>b DEF AttachExtensionFails, ExtAt, AllAttached, TypeInv, TypeOK,
         ServedInv, JobInv, AttachedInv, RecordedInv, HookInv, Survivor, Ahead, HookedTo, Rebuilding, Loaded
    <2> QED BY <2>1, <2>2, <2>3, <2>4 DEF ServedInv
  <1>8. CASE ExtensionsAttached
    <2>1. JobInv' /\ pc' \notin {"delold", "delnew", "readdold"}
      BY <1>8, <1>a, <1>b DEF ExtensionsAttached, persistent, AllAttached, TypeInv, TypeOK,
         ServedInv, JobInv, Survivor, Rebuilding, Loaded
    <2>2. AttachedInv'
      BY <1>8, <1>a DEF ExtensionsAttached, persistent, AllAttached, TypeInv, TypeOK,
         ServedInv, JobInv, AttachedInv, HookedTo, Rebuilding, Loaded
    <2>3. RecordedInv'
      BY <1>8, <1>a DEF ExtensionsAttached, persistent, AllAttached, TypeInv, TypeOK,
         ServedInv, JobInv, RecordedInv, Survivor, Rebuilding, Loaded
    <2>4. HookInv'
      BY <1>8, <1>a, <1>b DEF ExtensionsAttached, persistent, AllAttached, TypeInv, TypeOK,
         ServedInv, JobInv, AttachedInv, RecordedInv, HookInv, Survivor, Ahead, HookedTo, Rebuilding, Loaded
    <2> QED BY <2>1, <2>2, <2>3, <2>4 DEF ServedInv
  <1>9. CASE CreateXDPLink
    <2>1. JobInv' /\ pc' \notin {"delold", "delnew", "readdold"}
      BY <1>9, <1>a, <1>b DEF CreateXDPLink, OuterLink, FirstAttach, TypeInv, TypeOK,
         ServedInv, JobInv, Survivor, Rebuilding, Loaded
    <2>2. AttachedInv'
      BY <1>9, <1>a DEF CreateXDPLink, OuterLink, FirstAttach, TypeInv, TypeOK,
         ServedInv, JobInv, AttachedInv, HookedTo, Rebuilding, Loaded
    <2>3. RecordedInv'
      BY <1>9, <1>a DEF CreateXDPLink, OuterLink, FirstAttach, TypeInv, TypeOK,
         ServedInv, JobInv, RecordedInv, Survivor, Rebuilding, Loaded
    <2>4. HookInv'
      BY <1>9, <1>a, <1>b DEF CreateXDPLink, OuterLink, FirstAttach, TypeInv, TypeOK,
         ServedInv, JobInv, AttachedInv, RecordedInv, HookInv, Survivor, Ahead, HookedTo, Rebuilding, Loaded
    <2> QED BY <2>1, <2>2, <2>3, <2>4 DEF ServedInv
  <1>10. CASE UpdateXDPDispatcherLink
    <2>1. JobInv' /\ pc' \notin {"delold", "delnew", "readdold"}
      BY <1>10, <1>a, <1>b DEF UpdateXDPDispatcherLink, OuterLink, TypeInv, TypeOK,
         ServedInv, JobInv, Survivor, Rebuilding, Loaded
    <2>2. AttachedInv'
      BY <1>10, <1>a DEF UpdateXDPDispatcherLink, OuterLink, TypeInv, TypeOK,
         ServedInv, JobInv, AttachedInv, HookedTo, Rebuilding, Loaded
    <2>3. RecordedInv'
      BY <1>10, <1>a DEF UpdateXDPDispatcherLink, OuterLink, TypeInv, TypeOK,
         ServedInv, JobInv, RecordedInv, Survivor, Rebuilding, Loaded
    <2>4. HookInv'
      <3>1. pc = "swap" /\ pc' = "persist" /\ hooks' = {OuterLink(disp)}
            /\ UNCHANGED <<snap, prog, ext, netns, job, disp, requested>>
        BY <1>10 DEF UpdateXDPDispatcherLink
      <3>2. prog[NextRevision] = disp /\ job.rev = NextRevision /\ disp \in DispatcherIDs
        BY <3>1 DEF ServedInv, JobInv, TypeInv, Loaded, Rebuilding
      <3>3. ASSUME NEW m \in snap.members, Survivor(m)
            PROVE  \E e \in ext : e.rev = NextRevision /\ e.disp = disp /\ e.prog = m.prog
        <4>1. PICK s \in job.slots : s.prog = m.prog
          BY <3>1, <3>3 DEF ServedInv, JobInv, Rebuilding
        <4>2. [rev |-> job.rev, pos |-> s.pos, disp |-> disp, prog |-> s.prog] \in ext
          BY <3>1 DEF ServedInv, AttachedInv
        <4> QED BY <3>2, <4>1, <4>2
      <3>4. HookedTo(disp)'
        BY <3>1 DEF HookedTo, OuterLink
      <3> QED BY <1>b, <3>1, <3>2, <3>3, <3>4 DEF HookInv, Ahead, Survivor, HookedTo
    <2> QED BY <2>1, <2>2, <2>3, <2>4 DEF ServedInv
  <1>11. CASE CreateTCFilter
    BY <1>11, <1>a, <1>b DEF CreateTCFilter, TypeInv, TypeOK,
       ServedInv, JobInv, AttachedInv, RecordedInv, HookInv, Survivor, Ahead, HookedTo, Rebuilding, Loaded
  <1>12. CASE DetachOldTCFilter
    BY <1>12, <1>a, <1>b DEF DetachOldTCFilter, TypeInv, TypeOK,
       ServedInv, JobInv, AttachedInv, RecordedInv, HookInv, Survivor, Ahead, HookedTo, Rebuilding, Loaded
  <1>13. CASE DetachOldTCFilterFails
    BY <1>13, <1>a, <1>b DEF DetachOldTCFilterFails, persistent, TypeInv, TypeOK,
       ServedInv, JobInv, AttachedInv, RecordedInv, HookInv, Survivor, Ahead, HookedTo, Rebuilding, Loaded
  <1>14. CASE SwapFails
    BY <1>14, <1>a, <1>b DEF SwapFails, persistent, TypeInv, TypeOK,
       ServedInv, JobInv, AttachedInv, RecordedInv, HookInv, Survivor, Ahead, HookedTo, Rebuilding, Loaded
  <1>15. CASE ReplaceDispatcherSnapshot
    <2>1. PICK id \in LinkIDs :
            snap' = [rev |-> job.rev, disp |-> disp, handle |-> handle,
                     members |-> AsMembers(job.slots, id)]
      BY <1>15 DEF ReplaceDispatcherSnapshot
    <2>2. pc = "persist" /\ pc' = "cleanold" /\ UNCHANGED <<prog, ext, hooks, netns, job, disp>>
      BY <1>15 DEF ReplaceDispatcherSnapshot
    <2>3. \A m \in snap'.members : \E s \in job.slots : m.pos = s.pos /\ m.prog = s.prog
      BY <2>1, AsMembersLemma DEF TypeInv, TypeOK, Job, ChainInv
    <2>4. /\ job.rev = NextRevision /\ job.old = snap /\ prog[job.rev] = disp
          /\ disp \in DispatcherIDs /\ (netns => HookedTo(disp))
      BY <2>2 DEF ServedInv, JobInv, AttachedInv, TypeInv, Rebuilding, Loaded
    <2>5. JobInv' /\ AttachedInv'
      BY <1>a, <2>1, <2>2, <2>4 DEF JobInv, AttachedInv, Rebuilding, Loaded
    <2>6. RecordedInv'
      <3>1. ASSUME NEW m \in snap'.members
            PROVE  [rev |-> job.rev, pos |-> m.pos, disp |-> disp, prog |-> m.prog] \in ext
        BY <2>2, <2>3 DEF ServedInv, AttachedInv
      <3> QED BY <2>1, <2>2, <2>4, <3>1 DEF RecordedInv
    <2>7. HookInv'
      BY <2>1, <2>2, <2>4 DEF HookInv, Survivor, HookedTo
    <2> QED BY <2>2, <2>5, <2>6, <2>7 DEF ServedInv
  <1>16. CASE ReplaceDispatcherSnapshotFails
    BY <1>16, <1>a, <1>b DEF ReplaceDispatcherSnapshotFails, persistent, TypeInv, TypeOK,
       ServedInv, JobInv, AttachedInv, RecordedInv, HookInv, Survivor, Ahead, HookedTo, Rebuilding, Loaded
  <1>17. CASE RemoveOldRevision
    <2>1. JobInv' /\ pc' \notin {"delold", "delnew", "readdold"}
      BY <1>17, <1>a, <1>b DEF RemoveOldRevision, Return, Removing, FirstAttach, TypeInv, TypeOK,
         ServedInv, JobInv, Survivor, Rebuilding, Loaded
    <2>2. AttachedInv'
      BY <1>17, <1>a DEF RemoveOldRevision, Return, Removing, FirstAttach, TypeInv, TypeOK,
         ServedInv, JobInv, AttachedInv, HookedTo, Rebuilding, Loaded
    <2>3. RecordedInv'
      BY <1>17, <1>a DEF RemoveOldRevision, Return, Removing, FirstAttach, TypeInv, TypeOK,
         ServedInv, JobInv, RecordedInv, Survivor, Rebuilding, Loaded
    <2>4. HookInv'
      BY <1>17, <1>a, <1>b DEF RemoveOldRevision, Return, Removing, FirstAttach, TypeInv, TypeOK,
         ServedInv, JobInv, AttachedInv, RecordedInv, HookInv, Survivor, Ahead, HookedTo, Rebuilding, Loaded
    <2> QED BY <2>1, <2>2, <2>3, <2>4 DEF ServedInv
  <1>18. CASE RestoreXDP
    <2>1. JobInv' /\ pc' \notin {"delold", "delnew", "readdold"}
      BY <1>18, <1>a, <1>b DEF RestoreXDP, OuterLink, FirstAttach, TypeInv, TypeOK,
         ServedInv, JobInv, Survivor, Rebuilding, Loaded
    <2>2. AttachedInv'
      BY <1>18, <1>a DEF RestoreXDP, OuterLink, FirstAttach, TypeInv, TypeOK,
         ServedInv, JobInv, AttachedInv, HookedTo, Rebuilding, Loaded
    <2>3. RecordedInv'
      BY <1>18, <1>a DEF RestoreXDP, OuterLink, FirstAttach, TypeInv, TypeOK,
         ServedInv, JobInv, RecordedInv, Survivor, Rebuilding, Loaded
    <2>4. HookInv'
      <3>1. pc' = "rollback" /\ UNCHANGED <<snap, prog, netns, requested>> /\ job.old = snap
        BY <1>18 DEF RestoreXDP, ServedInv, JobInv, Rebuilding
      <3>2. CASE FirstAttach
        BY <3>1, <3>2, NoSlots DEF FirstAttach, HookInv
      <3>3. CASE ~FirstAttach
        <4>1. hooks' = {OuterLink(prog[snap.rev])}
          BY <1>18, <3>1, <3>3 DEF RestoreXDP
        <4>2. HookedTo(prog[snap.rev])'
          BY <3>1, <4>1 DEF HookedTo, OuterLink
        <4> QED BY <3>1, <4>2 DEF ServedInv, RecordedInv, HookInv, Survivor, HookedTo
      <3> QED BY <3>2, <3>3
    <2> QED BY <2>1, <2>2, <2>3, <2>4 DEF ServedInv
  <1>19. CASE RestoreXDPFails
    <2>1. JobInv' /\ pc' \notin {"delold", "delnew", "readdold"}
      BY <1>19, <1>a, <1>b DEF RestoreXDPFails, FirstAttach, Defunct, TypeInv, TypeOK,
         ServedInv, JobInv, Survivor, Rebuilding, Loaded
    <2>2. AttachedInv'
      BY <1>19, <1>a DEF RestoreXDPFails, FirstAttach, Defunct, TypeInv, TypeOK,
         ServedInv, JobInv, AttachedInv, HookedTo, Rebuilding, Loaded
    <2>3. RecordedInv'
      BY <1>19, <1>a DEF RestoreXDPFails, FirstAttach, Defunct, TypeInv, TypeOK,
         ServedInv, JobInv, RecordedInv, Survivor, Rebuilding, Loaded
    <2>4. HookInv'
      <3>1. pc = "restore" /\ UNCHANGED <<snap, prog, netns, requested>> /\ job.old = snap
        BY <1>19 DEF RestoreXDPFails, ServedInv, JobInv, Rebuilding
      <3>2. CASE FirstAttach
        BY <3>1, <3>2, NoSlots DEF FirstAttach, HookInv
      <3>3. CASE ~FirstAttach
        <4>1. prog[snap.rev] = None \/ \A h \in hooks : ~h.live
          BY <1>19, <3>1, <3>3 DEF RestoreXDPFails
        <4>2. \A m \in snap.members : ~Survivor(m)
          BY <3>1, <4>1, IdAssumption
             DEF ServedInv, RecordedInv, AttachedInv, HookedTo, Survivor, None
        <4> QED BY <3>1, <4>2 DEF HookInv, Survivor
      <3> QED BY <3>2, <3>3
    <2> QED BY <2>1, <2>2, <2>3, <2>4 DEF ServedInv
  <1>20. CASE RestoreDeleteNewFilter
    BY <1>20, <1>a, <1>b DEF RestoreDeleteNewFilter, TypeInv, TypeOK,
       ServedInv, JobInv, AttachedInv, RecordedInv, HookInv, Survivor, Ahead, HookedTo, Rebuilding, Loaded
  <1>21. CASE RestoreOldFilter
    BY <1>21, <1>a, <1>b DEF RestoreOldFilter, TypeInv, TypeOK,
       ServedInv, JobInv, AttachedInv, RecordedInv, HookInv, Survivor, Ahead, HookedTo, Rebuilding, Loaded
  <1>22. CASE Rollback
    <2>1. JobInv' /\ pc' \notin {"delold", "delnew", "readdold"}
      BY <1>22, <1>a, <1>b DEF Rollback, Return, CleanedByRollback, TypeInv, TypeOK,
         ServedInv, JobInv, Survivor, Rebuilding, Loaded
    <2>2. AttachedInv'
      BY <1>22, <1>a DEF Rollback, Return, CleanedByRollback, TypeInv, TypeOK,
         ServedInv, JobInv, AttachedInv, HookedTo, Rebuilding, Loaded
    <2>3. RecordedInv'
      BY <1>22, <1>a DEF Rollback, Return, CleanedByRollback, TypeInv, TypeOK,
         ServedInv, JobInv, RecordedInv, Survivor, Rebuilding, Loaded
    <2>4. HookInv'
      BY <1>22, <1>a, <1>b DEF Rollback, Return, CleanedByRollback, TypeInv, TypeOK,
         ServedInv, JobInv, AttachedInv, RecordedInv, HookInv, Survivor, Ahead, HookedTo, Rebuilding, Loaded
    <2> QED BY <2>1, <2>2, <2>3, <2>4 DEF ServedInv
  <1>23. CASE TeardownDetach
    BY <1>23, <1>a, <1>b DEF TeardownDetach, TypeInv, TypeOK,
       ServedInv, JobInv, AttachedInv, RecordedInv, HookInv, Survivor, Ahead, HookedTo, Rebuilding, Loaded
  <1>24. CASE TeardownDetachFails
    BY <1>24, <1>a, <1>b DEF TeardownDetachFails, Return, TypeInv, TypeOK,
       ServedInv, JobInv, AttachedInv, RecordedInv, HookInv, Survivor, Ahead, HookedTo, Rebuilding, Loaded
  <1>25. CASE TeardownUnpin
    BY <1>25, <1>a, <1>b DEF TeardownUnpin, Removing, TypeInv, TypeOK,
       ServedInv, JobInv, AttachedInv, RecordedInv, HookInv, Survivor, Ahead, HookedTo, Rebuilding, Loaded
  <1>26. CASE DeleteDispatcherSnapshot
    <2>1. JobInv' /\ pc' \notin {"delold", "delnew", "readdold"}
      BY <1>26, <1>a, <1>b DEF DeleteDispatcherSnapshot, Return, NoSnapshot, TypeInv, TypeOK,
         ServedInv, JobInv, Survivor, Rebuilding, Loaded
    <2>2. AttachedInv'
      BY <1>26, <1>a DEF DeleteDispatcherSnapshot, Return, NoSnapshot, TypeInv, TypeOK,
         ServedInv, JobInv, AttachedInv, HookedTo, Rebuilding, Loaded
    <2>3. RecordedInv'
      BY <1>26, <1>a DEF DeleteDispatcherSnapshot, Return, NoSnapshot, TypeInv, TypeOK,
         ServedInv, JobInv, RecordedInv, Survivor, Rebuilding, Loaded
    <2>4. HookInv'
      BY <1>26, <1>a, <1>b DEF DeleteDispatcherSnapshot, Return, NoSnapshot, TypeInv, TypeOK,
         ServedInv, JobInv, AttachedInv, RecordedInv, HookInv, Survivor, Ahead, HookedTo, Rebuilding, Loaded
    <2> QED BY <2>1, <2>2, <2>3, <2>4 DEF ServedInv
  <1>27. CASE DeleteDispatcherSnapshotFails
    BY <1>27, <1>a, <1>b DEF DeleteDispatcherSnapshotFails, Return, persistent, TypeInv, TypeOK,
       ServedInv, JobInv, AttachedInv, RecordedInv, HookInv, Survivor, Ahead, HookedTo, Rebuilding, Loaded
  <1>28. CASE Crash
    BY <1>28, <1>a, <1>b DEF Crash, Return, persistent, TypeInv, TypeOK,
       ServedInv, JobInv, AttachedInv, RecordedInv, HookInv, Survivor, Ahead, HookedTo, Rebuilding, Loaded
  <1>29. CASE NetnsDeleted
    BY <1>29, <1>a, <1>b DEF NetnsDeleted, TypeInv, TypeOK,
       ServedInv, JobInv, AttachedInv, RecordedInv, HookInv, Survivor, Ahead, HookedTo, Rebuilding, Loaded
  <1>30. CASE UNCHANGED vars
    BY <1>30, <1>b DEF vars, ServedInv, JobInv, AttachedInv, RecordedInv, HookInv, Survivor, Ahead, HookedTo, Rebuilding, Loaded
  <1>31. ASSUME NEW m \in snap.members, DetachExtensionFails(m)
       PROVE  ServedInv'
    <2>1. /\ pc = "idle" /\ UNCHANGED <<snap, prog, ext, hooks, netns, pc, job, disp, done, handle>>
          /\ requested' = requested \cup {m.link}
      BY <1>31 DEF DetachExtensionFails, Idle, persistent
    <2>2. \A n \in snap.members : Survivor(n)' => Survivor(n)
      BY <2>1 DEF Survivor
    <2>3. JobInv' /\ AttachedInv'
      BY <2>1 DEF JobInv, AttachedInv, Rebuilding, Loaded
    <2>4. RecordedInv'
      BY <2>1, <2>2 DEF ServedInv, RecordedInv
    <2>5. HookInv'
      BY <1>b, <2>1, <2>2 DEF ServedInv, HookInv, Ahead, HookedTo
    <2> QED BY <2>1, <2>3, <2>4, <2>5 DEF ServedInv
  <1> QED BY <1>1, <1>2, <1>3, <1>4, <1>5, <1>6, <1>7, <1>8, <1>9, <1>10, <1>11, <1>12, <1>13, <1>14, <1>15, <1>16, <1>17, <1>18, <1>19, <1>20, <1>21, <1>22, <1>23, <1>24, <1>25, <1>26, <1>27, <1>28, <1>29, <1>30, <1>31
          DEF Next, Request, Step, Environment, Quiet

\* What the invariant is for.
LEMMA ServedInvServes == TypeInv /\ ServedInv => SurvivorsServed
  <1> SUFFICES ASSUME TypeInv, ServedInv, netns, NEW m \in snap.members, m.link \notin requested
               PROVE  Served(m)
    BY DEF SurvivorsServed
  <1>1. Survivor(m)
    BY DEF Survivor
  <1>2. CASE HookedTo(snap.disp)
    BY <1>1, <1>2 DEF ServedInv, RecordedInv, HookedTo, Served
  <1>3. CASE Ahead(m)
    BY <1>3 DEF Ahead, HookedTo, Served
  <1> QED BY <1>1, <1>2, <1>3 DEF ServedInv, HookInv

\* At an XDP hook, a link the store records and nobody asked to detach is run
\* by the device at every instant: no order of attaches, detaches, failing
\* calls and crashes opens a gap, as long as the rollback's own calls work.
THEOREM XDPSurvivorsServed ==
    ASSUME Kind = "xdp", "rollback" \notin Faults
    PROVE  Spec => []SurvivorsServed
  <1>1. Init => TypeInv /\ ChainInv /\ ServedInv
    BY TypeInvInit, ServedInvInit
  <1>2. TypeInv /\ ChainInv /\ ServedInv /\ [Next]_vars => (TypeInv /\ ChainInv /\ ServedInv)'
    BY TypeInvNext, ServedInvNext
  <1>3. TypeInv /\ ServedInv => SurvivorsServed
    BY ServedInvServes
  <1> QED BY <1>1, <1>2, <1>3, PTL DEF Spec


-----------------------------------------------------------------------------
(***************************************************************************)
(* The members keep their identity                                         *)
(***************************************************************************)

OneLinkEach(S) == \A s, t \in S : s.link = t.link => s = t
LinksOf(S)     == {s.link : s \in S}
Identities(S)  == {Identity(s) : s \in S}

\* The new program comes before the older ones of its priority.
NewBeforeEquals(S) ==
    \A s, t \in S : s.link = None /\ t # s /\ s.prio = t.prio => s.pos < t.pos

\* The slots of a rebuild are the members it keeps, and the new program.
StableJob ==
    /\ OneLinkEach(job.slots)
    /\ LinksOf(job.slots) \subseteq LinksOf(snap.members) \cup {None}
    /\ Identities({m \in snap.members : m.link # job.link}) \subseteq Identities(job.slots)
    /\ Cardinality(job.slots) = IF job.kind = "attach" THEN Cardinality(snap.members) + 1
                                ELSE Cardinality(snap.members) - 1
    /\ NewBeforeEquals(job.slots)

StableInv ==
    /\ OneLinkEach(snap.members)
    /\ pc = "exclude" => job.kind = "detach" /\ job.link \in LinksOf(snap.members)
    /\ Rebuilding => StableJob

\* The sort loses no slot, makes none up and keeps what identifies them.
LEMMA PlacedKeeps ==
    ASSUME NEW S \in SUBSET Slot, Fits(S), OneLinkEach(S), NEW p \in Placements(S)
    PROVE  /\ Cardinality(Placed(S, p)) = Cardinality(S)
           /\ Identities(Placed(S, p)) = Identities(S)
           /\ LinksOf(Placed(S, p)) = LinksOf(S)
           /\ OneLinkEach(Placed(S, p))
           /\ NewBeforeEquals(Placed(S, p))
  <1> DEFINE n == Cardinality(S)
             T == Placed(S, p)
             f == [s \in S |-> [s EXCEPT !.pos = p[s]]]
  <1>1. n \in Nat /\ n <= MaxPrograms /\ MaxPrograms \in Nat /\ IsFiniteSet(S)
    BY FS_CardinalityType, BoundAssumption DEF Fits
  <1>2. p \in [S -> 0..(n - 1)]
    BY DEF Placements
  <1>3. \A s, t \in S : s # t => p[s] # p[t] /\ (Before(s, t) => p[s] < p[t])
    BY DEF Placements
  <1>4. \A s \in S : /\ f[s].pos = p[s] /\ f[s].prog = s.prog
                     /\ f[s].link = s.link /\ f[s].prio = s.prio
    BY <1>1, <1>2 DEF Slot
  <1>5. T = {f[s] : s \in S}
    BY DEF Placed
  <1>6. f \in [S -> T] /\ \A t \in T : \E s \in S : f[s] = t
    BY <1>5
  <1> HIDE DEF f, T
  <1>7. \A x, y \in S : f[x] = f[y] => x = y
    BY <1>3, <1>4
  <1>8. Cardinality(T) = n
    BY <1>1, <1>6, <1>7, ImageLemma
  <1>9. \A s \in S : Identity(f[s]) = Identity(s)
    BY <1>4 DEF Identity
  <1>10. Identities(T) = Identities(S) /\ LinksOf(T) = LinksOf(S)
    BY <1>4, <1>5, <1>9 DEF Identities, LinksOf
  <1>11. OneLinkEach(T)
    <2> SUFFICES ASSUME NEW x \in S, NEW y \in S, f[x].link = f[y].link
                 PROVE  f[x] = f[y]
      BY <1>5 DEF OneLinkEach
    <2> QED BY <1>4 DEF OneLinkEach
  <1>12. NewBeforeEquals(T)
    <2> SUFFICES ASSUME NEW x \in S, NEW y \in S, f[x].link = None, f[x] # f[y],
                        f[x].prio = f[y].prio
                 PROVE  f[x].pos < f[y].pos
      BY <1>5 DEF NewBeforeEquals
    <2>1. x # y /\ x.link = None /\ y.link # None /\ x.prio = y.prio
      BY <1>4 DEF OneLinkEach
    <2>2. Before(x, y)
      BY <2>1 DEF Before
    <2> QED BY <1>3, <1>4, <2>1, <2>2
  <1> QED BY <1>8, <1>10, <1>11, <1>12 DEF T

\* Storing the slots gives the new one its id and leaves the others alone.
LEMMA AsMembersKeeps ==
    ASSUME NEW S \in SUBSET Slot, Fits(S), OneLinkEach(S), NEW id \in LinkIDs,
           id \notin LinksOf(S)
    PROVE  /\ Cardinality(AsMembers(S, id)) = Cardinality(S)
           /\ OneLinkEach(AsMembers(S, id))
           /\ \A s \in S : s.link # None => s \in AsMembers(S, id)
           /\ \A m \in AsMembers(S, id) : \E s \in S :
                  /\ m.pos = s.pos /\ m.prog = s.prog /\ m.prio = s.prio
                  /\ s.link = None => m.link = id
                  /\ s.link # None => m = s
  <1> DEFINE T == AsMembers(S, id)
             f == [s \in S |-> IF s.link = None THEN [s EXCEPT !.link = id] ELSE s]
  <1>1. \A s \in S : /\ f[s].pos = s.pos /\ f[s].prog = s.prog
                     /\ f[s].prio = s.prio
                     /\ s.link = None => f[s].link = id
                     /\ s.link # None => f[s] = s
    <2> TAKE s \in S
    <2>1. CASE s.link = None
      BY <2>1 DEF Slot
    <2>2. CASE s.link # None
      BY <2>2 DEF Slot
    <2> QED BY <2>1, <2>2
  <1>2. T = {f[s] : s \in S}
    BY DEF AsMembers
  <1>3. f \in [S -> T] /\ \A t \in T : \E s \in S : f[s] = t
    BY <1>2
  <1> HIDE DEF f, T
  <1>4. \A s \in S : s.link # id
    BY DEF LinksOf
  <1>5. \A x, y \in S : f[x].link = f[y].link => x = y
    BY <1>1, <1>4 DEF OneLinkEach
  <1>6. Cardinality(T) = Cardinality(S)
    BY <1>3, <1>5, ImageLemma DEF Fits
  <1>7. OneLinkEach(T)
    BY <1>2, <1>5 DEF OneLinkEach
  <1>8. \A s \in S : s.link # None => s \in T
    BY <1>1, <1>2
  <1>9. \A m \in T : \E s \in S :
                  /\ m.pos = s.pos /\ m.prog = s.prog /\ m.prio = s.prio
                  /\ s.link = None => m.link = id
                  /\ s.link # None => m = s
    BY <1>1, <1>2
  <1> QED BY <1>6, <1>7, <1>8, <1>9 DEF T

\* Leaving one member out leaves every other one in.
LEMMA SurvivorSlotsKeep ==
    ASSUME snap \in Snapshot, Fits(snap.members), OneLinkEach(snap.members),
           job.link \in LinksOf(snap.members)
    PROVE  /\ Cardinality(SurvivorSlots) = Cardinality(snap.members) - 1
           /\ Identities(SurvivorSlots) = Identities({m \in snap.members : m.link # job.link})
           /\ LinksOf(SurvivorSlots) \subseteq LinksOf(snap.members)
           /\ OneLinkEach(SurvivorSlots)
           /\ SurvivorSlots \in SUBSET Slot /\ Fits(SurvivorSlots)
  <1> DEFINE M == snap.members
             S == {x \in M : x.link # job.link}
             f == [m \in S |-> [m EXCEPT !.label = "none"]]
  <1>1. M \in SUBSET Member /\ IsFiniteSet(M) /\ S \in SUBSET M
    BY DEF Snapshot, Fits
  <1>2. PICK d \in M : d.link = job.link
    BY DEF LinksOf
  <1>3. S = M \ {d}
    BY <1>2 DEF OneLinkEach
  <1>4. IsFiniteSet(S) /\ Cardinality(S) = Cardinality(M) - 1
    <2> HIDE DEF M, S
    <2> QED BY <1>1, <1>2, <1>3, FS_RemoveElement, FS_CardinalityType
  <1>5. \A m \in S : f[m].prog = m.prog /\ f[m].link = m.link /\ f[m].prio = m.prio
    BY <1>1 DEF Member
  <1>6. SurvivorSlots = {f[m] : m \in S}
    BY DEF SurvivorSlots
  <1>7. f \in [S -> SurvivorSlots] /\ \A t \in SurvivorSlots : \E m \in S : f[m] = t
    BY <1>6
  <1> HIDE DEF f
  <1>8. \A x, y \in S : f[x].link = f[y].link => x = y
    BY <1>5 DEF OneLinkEach
  <1>9. Cardinality(SurvivorSlots) = Cardinality(S)
    <2> HIDE DEF S
    <2> QED BY <1>4, <1>7, <1>8, ImageLemma
  <1>10. \A m \in S : Identity(f[m]) = Identity(m)
    BY <1>5 DEF Identity
  <1>11. Identities(SurvivorSlots) = Identities(S)
    BY <1>6, <1>10 DEF Identities
  <1>12. LinksOf(SurvivorSlots) \subseteq LinksOf(M)
    BY <1>5, <1>6 DEF LinksOf
  <1>13. OneLinkEach(SurvivorSlots)
    BY <1>6, <1>8 DEF OneLinkEach
  <1> QED BY <1>4, <1>9, <1>11, <1>12, <1>13, SurvivorSlotsLemma

\* A step that changes neither the members nor the rebuild.
LEMMA StableKept ==
    ASSUME StableInv, UNCHANGED <<snap, job>>, Rebuilding' => Rebuilding,
           pc' = "exclude" => pc = "exclude"
    PROVE  StableInv'
  BY DEF StableInv, StableJob, OneLinkEach, LinksOf, Identities, Identity, NewBeforeEquals

\* A step that ends the operation.
LEMMA StableReturn ==
    ASSUME StableInv, UNCHANGED snap, Return
    PROVE  StableInv'
  BY DEF StableInv, OneLinkEach, Return, Rebuilding

\* An attach adds one slot and keeps the members.
LEMMA RebuildForAttachStable ==
    ASSUME TypeInv, StableInv,
           NEW p \in Programs, NEW prio \in Priorities, NEW label \in Labels,
           RebuildForAttach(p, prio, label)
    PROVE  StableInv'
  <1> DEFINE M   == snap.members
             new == [link |-> None, prog |-> p, prio |-> prio, label |-> label, pos |-> 0]
             S   == M \cup {new}
  <1>1. S \in SUBSET Slot /\ Fits(S)
    <2>1. new \in Slot
      BY BoundAssumption DEF Slot, Positions
    <2>2. M \in SUBSET Slot
      BY DEF TypeInv, TypeOK, Snapshot, Member, Slot
    <2> QED BY <2>1, <2>2, FS_AddElement DEF TypeInv, Fits, RebuildForAttach
  <1>2. \A m \in M : m.link \in LinkIDs /\ m.link # None
    BY IdAssumption DEF TypeInv, TypeOK, Snapshot, Member, None
  <1>3. new \notin M /\ OneLinkEach(S) /\ LinksOf(S) = LinksOf(M) \cup {None}
    BY <1>2 DEF StableInv, OneLinkEach, LinksOf
  <1>4. Cardinality(S) = Cardinality(M) + 1
    BY <1>3, FS_AddElement DEF TypeInv, Fits
  <1>5. PICK place \in Placements(S) :
          job' = [kind |-> "attach", link |-> None, slots |-> Placed(S, place),
                  old |-> snap, rev |-> NextRevision]
    BY DEF RebuildForAttach
  <1>6. Identities(M) \subseteq Identities(S)
    BY DEF Identities
  <1> HIDE DEF S
  <1>7. PICK P : P = Placed(S, place)
    OBVIOUS
  <1>8. /\ Cardinality(P) = Cardinality(S) /\ Identities(P) = Identities(S)
        /\ LinksOf(P) = LinksOf(S) /\ OneLinkEach(P) /\ NewBeforeEquals(P)
    BY <1>1, <1>3, <1>7, PlacedKeeps
  <1>9. job'.slots = P /\ job'.kind = "attach" /\ job'.link = None
    BY <1>5, <1>7
  <1>10. UNCHANGED snap /\ pc' = "load"
    BY DEF RebuildForAttach, persistent
  <1>11. Identities({m \in M : m.link # None}) \subseteq Identities(P)
    BY <1>6, <1>8 DEF Identities
  <1>12. StableJob'
    <2>1. OneLinkEach(job'.slots) /\ NewBeforeEquals(job'.slots)
      BY <1>8, <1>9
    <2>2. LinksOf(job'.slots) \subseteq LinksOf(snap'.members) \cup {None}
      BY <1>3, <1>8, <1>9, <1>10
    <2>3. Identities({m \in snap'.members : m.link # job'.link}) \subseteq Identities(job'.slots)
      BY <1>9, <1>10, <1>11
    <2>4. Cardinality(job'.slots) = Cardinality(snap'.members) + 1
      BY <1>4, <1>8, <1>9, <1>10
    <2> QED BY <1>9, <2>1, <2>2, <2>3, <2>4
            DEF StableJob, OneLinkEach, NewBeforeEquals, LinksOf, Identities, Identity
  <1>13. OneLinkEach(snap.members)'
    BY <1>10 DEF StableInv, OneLinkEach
  <1> QED BY <1>10, <1>12, <1>13 DEF StableInv

\* A detach drops one slot and keeps the others.
LEMMA RebuildForDetachStable ==
    ASSUME TypeInv, StableInv, RebuildForDetach
    PROVE  StableInv'
  <1>0. UNCHANGED snap /\ pc = "exclude"
    BY DEF RebuildForDetach, persistent
  <1>1. CASE SurvivorSlots = {} \/ ~netns
    BY <1>0, <1>1, StableKept DEF RebuildForDetach, Rebuilding
  <1>2. CASE ~(SurvivorSlots = {} \/ ~netns)
    <2>1. PICK place \in Placements(SurvivorSlots) :
            job' = [job EXCEPT !.slots = Placed(SurvivorSlots, place), !.rev = NextRevision]
      BY <1>2 DEF RebuildForDetach
    <2>2. pc' = "load"
      BY <1>2 DEF RebuildForDetach
    <2>3. /\ job.kind = "detach" /\ job.link \in LinksOf(snap.members)
          /\ OneLinkEach(snap.members) /\ snap \in Snapshot /\ Fits(snap.members)
      BY <1>0 DEF StableInv, TypeInv, TypeOK
    <2>4. PICK S : S = SurvivorSlots
      OBVIOUS
    <2>5. /\ Cardinality(S) = Cardinality(snap.members) - 1
          /\ Identities(S) = Identities({m \in snap.members : m.link # job.link})
          /\ LinksOf(S) \subseteq LinksOf(snap.members)
          /\ OneLinkEach(S) /\ S \in SUBSET Slot /\ Fits(S)
      BY <2>3, <2>4, SurvivorSlotsKeep
    <2>6. PICK P : P = Placed(S, place)
      OBVIOUS
    <2>7. /\ Cardinality(P) = Cardinality(S) /\ Identities(P) = Identities(S)
          /\ LinksOf(P) = LinksOf(S) /\ OneLinkEach(P) /\ NewBeforeEquals(P)
      BY <2>1, <2>4, <2>5, <2>6, PlacedKeeps
    <2>8. job'.slots = P /\ job'.kind = "detach" /\ job'.link = job.link
      BY <2>1, <2>3, <2>4, <2>6 DEF TypeInv, TypeOK, Job
    <2>9. StableJob'
      <3>1. OneLinkEach(job'.slots) /\ NewBeforeEquals(job'.slots)
        BY <2>7, <2>8
      <3>2. LinksOf(job'.slots) \subseteq LinksOf(snap'.members) \cup {None}
        BY <1>0, <2>5, <2>7, <2>8
      <3>3. Identities({m \in snap'.members : m.link # job'.link}) \subseteq Identities(job'.slots)
        BY <1>0, <2>5, <2>7, <2>8
      <3>4. Cardinality(job'.slots) = Cardinality(snap'.members) - 1
        BY <1>0, <2>5, <2>7, <2>8
      <3> QED BY <2>8, <3>1, <3>2, <3>3, <3>4
              DEF StableJob, OneLinkEach, NewBeforeEquals, LinksOf, Identities, Identity
    <2>10. OneLinkEach(snap.members)'
      BY <1>0, <2>3 DEF OneLinkEach
    <2> QED BY <2>2, <2>9, <2>10 DEF StableInv
  <1> QED BY <1>1, <1>2

\* What MembersStable asks of one step.
StableStep ==
    snap' # snap /\ snap'.members # {} =>
         /\ {Identity(m) : m \in snap.members} \ {Identity(m) : m \in snap'.members}
              \subseteq {Identity(m) : m \in {x \in snap.members : x.link = job.link}}
         /\ Cardinality(snap'.members) =
              IF job.kind = "attach" THEN Cardinality(snap.members) + 1
                                     ELSE Cardinality(snap.members) - 1
         /\ \A n \in snap'.members : \A o \in snap'.members :
              /\ n.link \notin {m.link : m \in snap.members}
              /\ o # n /\ o.prio = n.prio
              => n.pos < o.pos

\* The commit stores the slots of the rebuild.
LEMMA PersistStable ==
    ASSUME TypeInv, StableInv, ReplaceDispatcherSnapshot
    PROVE  StableInv' /\ StableStep
  <1>1. PICK id \in LinkIDs \ LinksOf(snap.members) :
          snap' = [rev |-> job.rev, disp |-> disp, handle |-> handle,
                   members |-> AsMembers(job.slots, id)]
    BY DEF ReplaceDispatcherSnapshot, LinksOf
  <1>2. pc = "persist" /\ pc' = "cleanold" /\ UNCHANGED job
    BY DEF ReplaceDispatcherSnapshot
  <1>3. StableJob /\ OneLinkEach(snap.members)
    BY <1>2 DEF StableInv, Rebuilding
  <1>4. PICK S : S = job.slots
    OBVIOUS
  <1>5. PICK T : T = AsMembers(S, id)
    OBVIOUS
  <1>6. S \in SUBSET Slot /\ Fits(S) /\ OneLinkEach(S) /\ NewBeforeEquals(S)
    BY <1>3, <1>4 DEF TypeInv, TypeOK, Job, StableJob
  <1>7. id # None /\ id \notin LinksOf(S)
    BY <1>3, <1>4, IdAssumption DEF StableJob, None
  <1>8. /\ Cardinality(T) = Cardinality(S) /\ OneLinkEach(T)
        /\ \A s \in S : s.link # None => s \in T
        /\ \A m \in T : \E s \in S :
               /\ m.pos = s.pos /\ m.prog = s.prog /\ m.prio = s.prio
               /\ s.link = None => m.link = id
               /\ s.link # None => m = s
    BY <1>5, <1>6, <1>7, AsMembersKeeps
  <1>9. snap'.members = T
    BY <1>1, <1>4, <1>5
  <1>10. StableInv'
    BY <1>2, <1>8, <1>9 DEF StableInv, Rebuilding, OneLinkEach
  <1>11. Identities(snap.members) \ Identities(T)
           \subseteq Identities({x \in snap.members : x.link = job.link})
    <2> SUFFICES ASSUME NEW m \in snap.members, m.link # job.link
                 PROVE  Identity(m) \in Identities(T)
      BY DEF Identities
    <2>1. Identity(m) \in Identities({x \in snap.members : x.link # job.link})
      BY DEF Identities
    <2>2. PICK s \in S : Identity(s) = Identity(m)
      BY <1>3, <1>4, <2>1 DEF StableJob, Identities
    <2>3. s.link = m.link
      BY <2>2 DEF Identity
    <2>4. s.link # None
      BY <2>3, IdAssumption DEF TypeInv, TypeOK, Snapshot, Member, None
    <2> QED BY <1>8, <2>2, <2>4 DEF Identities
  <1>12. Cardinality(T) = IF job.kind = "attach" THEN Cardinality(snap.members) + 1
                                                 ELSE Cardinality(snap.members) - 1
    BY <1>3, <1>4, <1>8 DEF StableJob
  <1>13. ASSUME NEW n \in T, NEW o \in T, n.link \notin LinksOf(snap.members),
                o # n, o.prio = n.prio
         PROVE  n.pos < o.pos
    <2>1. PICK s \in S : /\ n.pos = s.pos /\ n.prio = s.prio
                         /\ s.link = None => n.link = id
                         /\ s.link # None => n = s
      BY <1>8
    <2>2. PICK t \in S : /\ o.pos = t.pos /\ o.prio = t.prio
                         /\ t.link = None => o.link = id
                         /\ t.link # None => o = t
      BY <1>8
    <2>3. s.link = None
      BY <1>3, <1>4, <1>13, <2>1 DEF StableJob, LinksOf
    <2>4. t # s
      BY <1>8, <1>13, <2>1, <2>2, <2>3 DEF OneLinkEach
    <2> QED BY <1>6, <1>13, <2>1, <2>2, <2>3, <2>4 DEF NewBeforeEquals
  <1>14. StableStep
    BY <1>9, <1>11, <1>12, <1>13 DEF StableStep, Identities, LinksOf
  <1> QED BY <1>10, <1>14

LEMMA StableInvInit == Init => StableInv
  BY NoSlots DEF Init, StableInv, OneLinkEach, Rebuilding

LEMMA StableInvNext == TypeInv /\ StableInv /\ [Next]_vars => StableInv'
  <1> SUFFICES ASSUME TypeInv, StableInv, [Next]_vars PROVE StableInv'
    OBVIOUS
  <1>1. ASSUME NEW p \in Programs, NEW prio \in Priorities, NEW label \in Labels,
              RebuildForAttach(p, prio, label)
       PROVE  StableInv'
    BY <1>1, RebuildForAttachStable
  <1>2. ASSUME NEW m \in snap.members, DetachExtension(m)
       PROVE  StableInv'
    BY <1>2 DEF DetachExtension, NoJob, StableInv, OneLinkEach, LinksOf, Rebuilding
  <1>3. CASE RebuildForDetach
    BY <1>3, RebuildForDetachStable
  <1>4. CASE LoadDispatcher
    BY <1>4, StableKept DEF LoadDispatcher, persistent, Rebuilding
  <1>5. CASE AttachExtension
    BY <1>5, StableKept DEF AttachExtension, persistent, Rebuilding
  <1>6. CASE AttachExtensionFails
    BY <1>6, StableKept DEF AttachExtensionFails, persistent, Rebuilding
  <1>7. CASE ExtensionsAttached
    BY <1>7, StableKept DEF ExtensionsAttached, persistent, Rebuilding
  <1>8. CASE CreateXDPLink
    BY <1>8, StableKept DEF CreateXDPLink, persistent, Rebuilding
  <1>9. CASE UpdateXDPDispatcherLink
    BY <1>9, StableKept DEF UpdateXDPDispatcherLink, persistent, Rebuilding
  <1>10. CASE CreateTCFilter
    BY <1>10, StableKept DEF CreateTCFilter, persistent, Rebuilding
  <1>11. CASE DetachOldTCFilter
    BY <1>11, StableKept DEF DetachOldTCFilter, persistent, Rebuilding
  <1>12. CASE DetachOldTCFilterFails
    BY <1>12, StableKept DEF DetachOldTCFilterFails, persistent, Rebuilding
  <1>13. CASE SwapFails
    BY <1>13, StableKept DEF SwapFails, persistent, Rebuilding
  <1>14. CASE ReplaceDispatcherSnapshotFails
    BY <1>14, StableKept DEF ReplaceDispatcherSnapshotFails, persistent, Rebuilding
  <1>15. CASE RestoreXDP
    BY <1>15, StableKept DEF RestoreXDP, persistent, Rebuilding
  <1>16. CASE RestoreXDPFails
    BY <1>16, StableKept DEF RestoreXDPFails, persistent, Rebuilding
  <1>17. CASE RestoreDeleteNewFilter
    BY <1>17, StableKept DEF RestoreDeleteNewFilter, persistent, Rebuilding
  <1>18. CASE RestoreOldFilter
    BY <1>18, StableKept DEF RestoreOldFilter, persistent, Rebuilding
  <1>19. CASE TeardownDetach
    BY <1>19, StableKept DEF TeardownDetach, persistent, Rebuilding
  <1>20. CASE TeardownUnpin
    BY <1>20, StableKept DEF TeardownUnpin, persistent, Rebuilding
  <1>21. CASE NetnsDeleted
    BY <1>21, StableKept DEF NetnsDeleted, persistent, Rebuilding
  <1>22. CASE LoadDispatcherFails
    BY <1>22, StableReturn DEF LoadDispatcherFails, persistent
  <1>23. CASE RemoveOldRevision
    BY <1>23, StableReturn DEF RemoveOldRevision, persistent
  <1>24. CASE Rollback
    BY <1>24, StableReturn DEF Rollback, persistent
  <1>25. CASE TeardownDetachFails
    BY <1>25, StableReturn DEF TeardownDetachFails, persistent
  <1>26. CASE DeleteDispatcherSnapshotFails
    BY <1>26, StableReturn DEF DeleteDispatcherSnapshotFails, persistent
  <1>27. CASE Crash
    BY <1>27, StableReturn DEF Crash, persistent
  <1>28. CASE ReplaceDispatcherSnapshot
    BY <1>28, PersistStable
  <1>29. CASE DeleteDispatcherSnapshot
    BY <1>29, NoSlots DEF DeleteDispatcherSnapshot, Return, StableInv, OneLinkEach, Rebuilding
  <1>30. CASE UNCHANGED vars
    BY <1>30, StableKept DEF vars, Rebuilding
  <1>31. ASSUME NEW m \in snap.members, DetachExtensionFails(m)
       PROVE  StableInv'
    BY <1>31, StableKept DEF DetachExtensionFails, persistent, Rebuilding
  <1> QED BY <1>1, <1>2, <1>3, <1>4, <1>5, <1>6, <1>7, <1>8, <1>9, <1>10, <1>11, <1>12, <1>13, <1>14, <1>15, <1>16, <1>17, <1>18, <1>19, <1>20, <1>21, <1>22, <1>23, <1>24, <1>25, <1>26, <1>27, <1>28, <1>29, <1>30, <1>31
          DEF Next, Request, Step, Environment, Quiet

\* A step changes the members when it commits a rebuild or deletes the row.
LEMMA MembersChange ==
    ASSUME [Next]_vars, snap' # snap, snap'.members # {}
    PROVE  ReplaceDispatcherSnapshot
  BY NoSlots DEF Next, Request, Step, Environment, Quiet, vars, persistent,
     RebuildForAttach, DetachExtension, DetachExtensionFails, RebuildForDetach,
     LoadDispatcher, LoadDispatcherFails, AttachExtension, AttachExtensionFails,
     ExtensionsAttached, CreateXDPLink, UpdateXDPDispatcherLink, CreateTCFilter,
     DetachOldTCFilter, DetachOldTCFilterFails, SwapFails, ReplaceDispatcherSnapshotFails,
     RemoveOldRevision, RestoreXDP, RestoreXDPFails, RestoreDeleteNewFilter, RestoreOldFilter,
     Rollback, TeardownDetach, TeardownDetachFails, TeardownUnpin, DeleteDispatcherSnapshot,
     DeleteDispatcherSnapshotFails, Crash, NetnsDeleted

\* A committed rebuild keeps the link id, program and priority of every member
\* it was not asked to drop, changes their number by exactly one, and puts a
\* new program ahead of the older ones of its priority: for XDP and TC, and
\* whatever calls failed or crashes happened before.
THEOREM StableMembers == Spec => MembersStable
  <1>1. Init => TypeInv /\ ChainInv /\ StableInv
    BY TypeInvInit, StableInvInit
  <1>2. TypeInv /\ ChainInv /\ StableInv /\ [Next]_vars => (TypeInv /\ ChainInv /\ StableInv)'
    BY TypeInvNext, StableInvNext
  <1>3. TypeInv /\ StableInv /\ [Next]_vars => [StableStep]_vars
    BY MembersChange, PersistStable DEF StableStep
  <1>4. Spec => [][StableStep]_vars
    BY <1>1, <1>2, <1>3, PTL DEF Spec
  <1> QED BY <1>4, PTL DEF MembersStable, StableStep

-----------------------------------------------------------------------------
(***************************************************************************)
(* The rebuild in progress                                                 *)
(***************************************************************************)

\* The revisions of the snapshot and of the rebuild are two revisions.
LEMMA RevisionsApart ==
    ASSUME TypeInv
    PROVE  /\ snap.rev \in Revisions /\ NextRevision \in Revisions /\ NextRevision # snap.rev
           /\ UNCHANGED snap => UNCHANGED NextRevision
  BY NextRevisionLemma DEF NextRevision, TypeInv, TypeOK, Snapshot

\* What an attach and a detach put in the slots.
LEMMA AttachSlots ==
    ASSUME TypeInv, NEW p \in Programs, NEW prio \in Priorities, NEW label \in Labels,
           RebuildForAttach(p, prio, label)
    PROVE  /\ pc = "idle" /\ pc' = "load" /\ netns
           /\ UNCHANGED <<snap, prog, ext, hooks, netns, disp, done, handle, requested>>
           /\ job'.old = snap /\ job'.rev = NextRevision
           /\ \A m \in snap.members : \E s \in job'.slots : s.prog = m.prog
  <1> DEFINE new   == [link |-> None, prog |-> p, prio |-> prio, label |-> label, pos |-> 0]
             slots == snap.members \cup {new}
  <1>1. slots \in SUBSET Slot /\ Fits(slots)
    <2>1. new \in Slot
      BY BoundAssumption DEF Slot, Positions
    <2>2. snap.members \in SUBSET Slot
      BY DEF TypeInv, TypeOK, Snapshot, Member, Slot
    <2> QED BY <2>1, <2>2, FS_AddElement DEF TypeInv, Fits, RebuildForAttach
  <1>2. PICK place \in Placements(slots) :
          job' = [kind |-> "attach", link |-> None, slots |-> Placed(slots, place),
                  old |-> snap, rev |-> NextRevision]
    BY DEF RebuildForAttach
  <1>3. \A m \in snap.members : m \in slots
    OBVIOUS
  <1> HIDE DEF slots
  <1>4. \A m \in slots : \E s \in Placed(slots, place) : s.prog = m.prog
    BY <1>1, PlacedLemma
  <1> QED BY <1>2, <1>3, <1>4 DEF RebuildForAttach, persistent, Idle

LEMMA DetachSlots ==
    ASSUME TypeInv, JobInv, RebuildForDetach
    PROVE  /\ pc = "exclude"
           /\ UNCHANGED <<snap, prog, ext, hooks, netns, disp, done, handle, requested>>
           /\ \/ /\ pc' = "teardown" /\ UNCHANGED job
                 /\ \A m \in snap.members : ~Survivor(m)
              \/ /\ pc' = "load" /\ job'.old = snap /\ job'.rev = NextRevision
                 /\ \A m \in snap.members : Survivor(m) => \E s \in job'.slots : s.prog = m.prog
  <1>1. pc = "exclude" /\ UNCHANGED <<snap, prog, ext, hooks, netns, disp, done, handle, requested>>
    BY DEF RebuildForDetach, persistent
  <1>2. \A m \in snap.members : Survivor(m) => \E s \in SurvivorSlots : s.prog = m.prog
    BY <1>1, SurvivorSlotsLemma DEF JobInv, Survivor, TypeInv, TypeOK
  <1>3. CASE SurvivorSlots = {} \/ ~netns
    BY <1>1, <1>2, <1>3 DEF RebuildForDetach, Survivor
  <1>4. CASE ~(SurvivorSlots = {} \/ ~netns)
    <2>1. PICK place \in Placements(SurvivorSlots) :
            job' = [job EXCEPT !.slots = Placed(SurvivorSlots, place), !.rev = NextRevision]
      BY <1>4 DEF RebuildForDetach
    <2>2. SurvivorSlots \in SUBSET Slot /\ Fits(SurvivorSlots)
      BY SurvivorSlotsLemma DEF TypeInv, TypeOK
    <2>3. \A m \in SurvivorSlots : \E s \in Placed(SurvivorSlots, place) : s.prog = m.prog
      BY <2>2, PlacedLemma
    <2>4. job'.slots = Placed(SurvivorSlots, place) /\ job'.rev = NextRevision /\ job'.old = snap
      BY <1>1, <2>1 DEF TypeInv, TypeOK, Job, JobInv
    <2>5. pc' = "load"
      BY <1>4 DEF RebuildForDetach
    <2>6. \A m \in snap.members : Survivor(m) => \E s \in job'.slots : s.prog = m.prog
      BY <1>2, <2>3, <2>4
    <2> QED BY <1>1, <2>4, <2>5, <2>6
  <1> QED BY <1>3, <1>4

\* The rebuild works from the snapshot in the store, whatever fails.
LEMMA JobInvNext ==
    ASSUME TypeInv, JobInv, [Next]_vars
    PROVE  JobInv'
  <1>a. snap.rev \in Revisions /\ NextRevision \in Revisions /\ NextRevision # snap.rev
    BY RevisionsApart
  <1>b. UNCHANGED snap => UNCHANGED NextRevision
    BY RevisionsApart
  <1>1. ASSUME NEW p \in Programs, NEW prio \in Priorities, NEW label \in Labels,
              RebuildForAttach(p, prio, label)
       PROVE  JobInv'
    BY <1>1, <1>b, AttachSlots DEF JobInv, Survivor, Rebuilding, Loaded
  <1>2. ASSUME NEW m \in snap.members, DetachExtension(m)
       PROVE  JobInv'
    BY <1>2 DEF DetachExtension, Idle, NoJob, JobInv, Survivor, Rebuilding, Loaded
  <1>3. ASSUME NEW m \in snap.members, DetachExtensionFails(m)
       PROVE  JobInv'
    BY <1>3, <1>a, <1>b DEF DetachExtensionFails, persistent, Idle, TypeInv, TypeOK, JobInv, Survivor, Rebuilding, Loaded
  <1>4. CASE RebuildForDetach
    BY <1>4, <1>b, DetachSlots DEF JobInv, Survivor, Rebuilding, Loaded
  <1>5. CASE LoadDispatcher
    BY <1>5, <1>a, <1>b DEF LoadDispatcher, TypeInv, TypeOK, JobInv, Survivor, Rebuilding, Loaded
  <1>6. CASE LoadDispatcherFails
    BY <1>6, <1>a, <1>b DEF LoadDispatcherFails, Return, persistent, TypeInv, TypeOK, JobInv, Survivor, Rebuilding, Loaded
  <1>7. CASE AttachExtension
    BY <1>7, <1>a, <1>b DEF AttachExtension, TypeInv, TypeOK, JobInv, Survivor, Rebuilding, Loaded
  <1>8. CASE AttachExtensionFails
    BY <1>8, <1>a, <1>b DEF AttachExtensionFails, ExtAt, AllAttached, TypeInv, TypeOK, JobInv, Survivor, Rebuilding, Loaded
  <1>9. CASE ExtensionsAttached
    BY <1>9, <1>a, <1>b DEF ExtensionsAttached, persistent, AllAttached, TypeInv, TypeOK, JobInv, Survivor, Rebuilding, Loaded
  <1>10. CASE CreateXDPLink
    BY <1>10, <1>a, <1>b DEF CreateXDPLink, OuterLink, FirstAttach, TypeInv, TypeOK, JobInv, Survivor, Rebuilding, Loaded
  <1>11. CASE UpdateXDPDispatcherLink
    BY <1>11, <1>a, <1>b DEF UpdateXDPDispatcherLink, OuterLink, FirstAttach, TypeInv, TypeOK, JobInv, Survivor, Rebuilding, Loaded
  <1>12. CASE CreateTCFilter
    BY <1>12, <1>a, <1>b DEF CreateTCFilter, FreeHandles, Filter, TypeInv, TypeOK, JobInv, Survivor, Rebuilding, Loaded
  <1>13. CASE DetachOldTCFilter
    BY <1>13, <1>a, <1>b DEF DetachOldTCFilter, TypeInv, TypeOK, JobInv, Survivor, Rebuilding, Loaded
  <1>14. CASE DetachOldTCFilterFails
    BY <1>14, <1>a, <1>b DEF DetachOldTCFilterFails, persistent, TypeInv, TypeOK, JobInv, Survivor, Rebuilding, Loaded
  <1>15. CASE SwapFails
    BY <1>15, <1>a, <1>b DEF SwapFails, persistent, TypeInv, TypeOK, JobInv, Survivor, Rebuilding, Loaded
  <1>16. CASE ReplaceDispatcherSnapshot
    BY <1>16, <1>a, <1>b DEF ReplaceDispatcherSnapshot, TypeInv, TypeOK, JobInv, Survivor, Rebuilding, Loaded
  <1>17. CASE ReplaceDispatcherSnapshotFails
    BY <1>17, <1>a, <1>b DEF ReplaceDispatcherSnapshotFails, persistent, TypeInv, TypeOK, JobInv, Survivor, Rebuilding, Loaded
  <1>18. CASE RemoveOldRevision
    BY <1>18, <1>a, <1>b DEF RemoveOldRevision, Return, Removing, FirstAttach, TypeInv, TypeOK, JobInv, Survivor, Rebuilding, Loaded
  <1>19. CASE RestoreXDP
    BY <1>19, <1>a, <1>b DEF RestoreXDP, OuterLink, FirstAttach, TypeInv, TypeOK, JobInv, Survivor, Rebuilding, Loaded
  <1>20. CASE RestoreXDPFails
    BY <1>20, <1>a, <1>b DEF RestoreXDPFails, FirstAttach, Defunct, TypeInv, TypeOK, JobInv, Survivor, Rebuilding, Loaded
  <1>21. CASE RestoreDeleteNewFilter
    BY <1>21, <1>a, <1>b DEF RestoreDeleteNewFilter, TypeInv, TypeOK, JobInv, Survivor, Rebuilding, Loaded
  <1>22. CASE RestoreOldFilter
    BY <1>22, <1>a, <1>b DEF RestoreOldFilter, CanReaddOldFilter, FreeHandles, Filter, TypeInv, TypeOK, JobInv, Survivor, Rebuilding, Loaded
  <1>23. CASE Rollback
    BY <1>23, <1>a, <1>b DEF Rollback, Return, CleanedByRollback, TypeInv, TypeOK, JobInv, Survivor, Rebuilding, Loaded
  <1>24. CASE TeardownDetach
    BY <1>24, <1>a, <1>b DEF TeardownDetach, TypeInv, TypeOK, JobInv, Survivor, Rebuilding, Loaded
  <1>25. CASE TeardownDetachFails
    BY <1>25, <1>a, <1>b DEF TeardownDetachFails, Return, Defunct, TypeInv, TypeOK, JobInv, Survivor, Rebuilding, Loaded
  <1>26. CASE TeardownUnpin
    BY <1>26, <1>a, <1>b DEF TeardownUnpin, Removing, TypeInv, TypeOK, JobInv, Survivor, Rebuilding, Loaded
  <1>27. CASE DeleteDispatcherSnapshot
    BY <1>27, <1>a, <1>b DEF DeleteDispatcherSnapshot, Return, NoSnapshot, TypeInv, TypeOK, JobInv, Survivor, Rebuilding, Loaded
  <1>28. CASE DeleteDispatcherSnapshotFails
    BY <1>28, <1>a, <1>b DEF DeleteDispatcherSnapshotFails, Return, persistent, TypeInv, TypeOK, JobInv, Survivor, Rebuilding, Loaded
  <1>29. CASE Crash
    BY <1>29, <1>a, <1>b DEF Crash, Return, persistent, TypeInv, TypeOK, JobInv, Survivor, Rebuilding, Loaded
  <1>30. CASE NetnsDeleted
    BY <1>30, <1>a, <1>b DEF NetnsDeleted, Defunct, TypeInv, TypeOK, JobInv, Survivor, Rebuilding, Loaded
  <1>31. CASE UNCHANGED vars
    BY <1>31, <1>a, <1>b DEF vars, TypeInv, TypeOK, JobInv, Survivor, Rebuilding, Loaded
  <1> QED BY <1>1, <1>2, <1>3, <1>4, <1>5, <1>6, <1>7, <1>8, <1>9, <1>10, <1>11, <1>12, <1>13, <1>14, <1>15, <1>16, <1>17, <1>18, <1>19, <1>20, <1>21, <1>22, <1>23, <1>24, <1>25, <1>26, <1>27, <1>28, <1>29, <1>30, <1>31
          DEF Next, Request, Step, Environment, Quiet

-----------------------------------------------------------------------------
(***************************************************************************)
(* Store, pins and hooks agree                                             *)
(***************************************************************************)

\* The process does not die, and the calls that tidy up behind an operation
\* (rollback, removal of the old revision, deletion of the old filter or of
\* the row) work; every other call may fail.
TidyingWorks == Faults \cap {"crash", "rollback", "cleanup", "echo", "delfilter", "forget"} = {}

\* The extension link of slot s in revision r.
ExtOf(r, d, s) == [rev |-> r, pos |-> s.pos, disp |-> d, prog |-> s.prog]

\* The hook the rebuild made, and the one the store records.
NewHook         == [handle |-> handle, disp |-> disp, live |-> TRUE]
RecordedHook    == [handle |-> snap.handle, disp |-> snap.disp, live |-> TRUE]
HooksAsRecorded == IF snap = NoSnapshot THEN {} ELSE {RecordedHook}

\* The teardown of an XDP dispatcher whose members are all asked to go failed
\* half way: nothing runs.
Stuck ==
    /\ Kind = "xdp" /\ snap # NoSnapshot
    /\ \A m \in snap.members : ~Survivor(m)
    /\ \A h \in hooks : ~h.live

HandleInv ==
    /\ Kind = "xdp" => snap.handle = None /\ handle = None
    /\ Kind = "tc" => /\ snap # NoSnapshot => snap.handle # None
                      /\ pc \in {"delold", "persist", "delnew", "readdold", "cleanold"} => handle # None
    /\ pc \in {"delold", "delnew", "readdold"} => Kind = "tc"
    /\ pc = "restore" => Kind = "xdp"
    /\ pc \in {"delold", "readdold"} => snap.handle # None
    /\ pc = "delold" => handle # snap.handle

\* A pinned dispatcher is that of the recorded revision, of the revision being
\* built, or of the old one about to be removed.
ProgInv ==
    /\ \A r \in Revisions : prog[r] # None =>
         \/ snap # NoSnapshot /\ r = snap.rev /\ pc # "delsnap"
         \/ Loaded /\ r = job.rev
         \/ pc = "cleanold" /\ job.old # NoSnapshot /\ r = job.old.rev
    /\ snap # NoSnapshot /\ pc # "delsnap" => prog[snap.rev] = snap.disp /\ snap.disp # None
    /\ pc \in {"teardown", "unpin", "delsnap"} => snap # NoSnapshot

\* So is a pinned extension; and those of the survivors, and of the slots
\* attached so far, are there.
ExtInv ==
    /\ \A e \in ext :
         \/ pc # "delsnap" /\ \E m \in snap.members : e = ExtOf(snap.rev, snap.disp, m)
         \/ Loaded /\ \E s \in job.slots : s.pos < done /\ e = ExtOf(job.rev, disp, s)
         \/ pc = "cleanold" /\ job.old # NoSnapshot /\ e.rev = job.old.rev
    /\ \A m \in snap.members : Survivor(m) => ExtOf(snap.rev, snap.disp, m) \in ext
    /\ pc = "ext" => \A s \in job.slots : s.pos < done => ExtOf(job.rev, disp, s) \in ext
    /\ pc \in {"swap", "delold", "persist", "restore", "delnew"} =>
          \A s \in job.slots : ExtOf(job.rev, disp, s) \in ext

\* The hook is the recorded one until the swap, then the new one.
HooksInv ==
    netns =>
      /\ pc \in {"idle", "exclude", "load", "ext", "swap", "rollback", "teardown"} =>
            hooks = HooksAsRecorded \/ Stuck
      /\ pc = "cleanold" => hooks = HooksAsRecorded
      /\ pc = "delold" => hooks = {RecordedHook, NewHook}
      /\ pc \in {"persist", "restore", "delnew"} => hooks = {NewHook}
      /\ pc \in {"readdold", "unpin", "delsnap"} => hooks = {}

ExactInv == JobInv /\ HandleInv /\ ProgInv /\ ExtInv /\ HooksInv

\* The filter handles.
LEMMA HandleInvNext ==
    ASSUME TidyingWorks, TypeInv, ExactInv, [Next]_vars
    PROVE  HandleInv'
  <1>a. HandleInv /\ (Rebuilding => job.old = snap)
    BY DEF ExactInv, JobInv
  <1>b. NoSnapshot.handle = None
    BY DEF NoSnapshot
  <1>1. ASSUME NEW p \in Programs, NEW prio \in Priorities, NEW label \in Labels,
              RebuildForAttach(p, prio, label)
       PROVE  HandleInv'
    BY <1>1, <1>a, AttachSlots DEF HandleInv
  <1>2. ASSUME NEW m \in snap.members, DetachExtension(m)
       PROVE  HandleInv'
    BY <1>2, <1>a DEF DetachExtension, HandleInv
  <1>3. ASSUME NEW m \in snap.members, DetachExtensionFails(m)
       PROVE  HandleInv'
    BY <1>3, <1>a, <1>b, KindAssumption DEF DetachExtensionFails, persistent, Idle, HandleInv, Rebuilding
  <1>4. CASE RebuildForDetach
    BY <1>4, <1>a DEF RebuildForDetach, persistent, HandleInv
  <1>5. CASE LoadDispatcher
    BY <1>5, <1>a, <1>b, KindAssumption DEF LoadDispatcher, HandleInv, Rebuilding
  <1>6. CASE LoadDispatcherFails
    BY <1>6, <1>a, <1>b, KindAssumption DEF LoadDispatcherFails, Return, persistent, HandleInv, Rebuilding
  <1>7. CASE AttachExtension
    BY <1>7, <1>a, <1>b, KindAssumption DEF AttachExtension, HandleInv, Rebuilding
  <1>8. CASE AttachExtensionFails
    BY <1>8, <1>a, <1>b, KindAssumption DEF AttachExtensionFails, ExtAt, AllAttached, HandleInv, Rebuilding
  <1>9. CASE ExtensionsAttached
    BY <1>9, <1>a, <1>b, KindAssumption DEF ExtensionsAttached, persistent, AllAttached, HandleInv, Rebuilding
  <1>10. CASE CreateXDPLink
    BY <1>10, <1>a, <1>b, KindAssumption DEF CreateXDPLink, OuterLink, FirstAttach, HandleInv, Rebuilding
  <1>11. CASE UpdateXDPDispatcherLink
    BY <1>11, <1>a, <1>b, KindAssumption DEF UpdateXDPDispatcherLink, OuterLink, FirstAttach, HandleInv, Rebuilding
  <1>12. CASE CreateTCFilter
    <2>1. PICK n \in FreeHandles : handle' = n
      BY <1>12 DEF CreateTCFilter
    <2>2. /\ pc = "swap" /\ Kind = "tc" /\ netns /\ UNCHANGED snap
          /\ pc' = IF job.old.handle # None THEN "delold" ELSE "persist"
      BY <1>12 DEF CreateTCFilter
    <2>3. n # None /\ job.old = snap
      BY <1>a, <2>1, <2>2, IdAssumption DEF FreeHandles, None, Rebuilding
    <2>4. snap.handle # None => n # snap.handle
      <3>1. SUFFICES ASSUME snap.handle # None PROVE n # snap.handle
        OBVIOUS
      <3>2. hooks = {RecordedHook}
        BY <1>b, <2>2, <3>1 DEF ExactInv, HooksInv, HooksAsRecorded, Stuck
      <3>3. snap.handle \in {h.handle : h \in hooks}
        BY <3>2 DEF RecordedHook
      <3> QED BY <2>1, <3>3 DEF FreeHandles
    <2> QED BY <1>a, <2>1, <2>2, <2>3, <2>4 DEF HandleInv
  <1>13. CASE DetachOldTCFilter
    BY <1>13, <1>a, <1>b, KindAssumption DEF DetachOldTCFilter, HandleInv, Rebuilding
  <1>14. CASE DetachOldTCFilterFails
    BY <1>14, <1>a, <1>b, KindAssumption DEF DetachOldTCFilterFails, persistent, HandleInv, Rebuilding
  <1>15. CASE SwapFails
    BY <1>15, <1>a, <1>b, KindAssumption DEF SwapFails, persistent, HandleInv, Rebuilding
  <1>16. CASE ReplaceDispatcherSnapshot
    BY <1>16, <1>a, <1>b, KindAssumption DEF ReplaceDispatcherSnapshot, HandleInv, Rebuilding
  <1>17. CASE ReplaceDispatcherSnapshotFails
    BY <1>17, <1>a, <1>b, KindAssumption DEF ReplaceDispatcherSnapshotFails, persistent, HandleInv, Rebuilding
  <1>18. CASE RemoveOldRevision
    BY <1>18, <1>a, <1>b, KindAssumption DEF RemoveOldRevision, Return, Removing, FirstAttach, HandleInv, Rebuilding
  <1>19. CASE RestoreXDP
    BY <1>19, <1>a, <1>b, KindAssumption DEF RestoreXDP, OuterLink, FirstAttach, HandleInv, Rebuilding
  <1>20. CASE RestoreXDPFails
    BY <1>20, <1>a, <1>b, KindAssumption DEF RestoreXDPFails, FirstAttach, Defunct, HandleInv, Rebuilding
  <1>21. CASE RestoreDeleteNewFilter
    BY <1>21, <1>a, <1>b, KindAssumption DEF RestoreDeleteNewFilter, HandleInv, Rebuilding
  <1>22. CASE RestoreOldFilter
    BY <1>22, <1>a, <1>b, KindAssumption DEF RestoreOldFilter, CanReaddOldFilter, FreeHandles, Filter, HandleInv, Rebuilding
  <1>23. CASE Rollback
    BY <1>23, <1>a, <1>b, KindAssumption DEF Rollback, Return, CleanedByRollback, HandleInv, Rebuilding
  <1>24. CASE TeardownDetach
    BY <1>24, <1>a, <1>b, KindAssumption DEF TeardownDetach, HandleInv, Rebuilding
  <1>25. CASE TeardownDetachFails
    BY <1>25, <1>a, <1>b, KindAssumption DEF TeardownDetachFails, Return, Defunct, HandleInv, Rebuilding
  <1>26. CASE TeardownUnpin
    BY <1>26, <1>a, <1>b, KindAssumption DEF TeardownUnpin, Removing, HandleInv, Rebuilding
  <1>27. CASE DeleteDispatcherSnapshot
    BY <1>27, <1>a, <1>b, KindAssumption DEF DeleteDispatcherSnapshot, Return, NoSnapshot, HandleInv, Rebuilding
  <1>28. CASE DeleteDispatcherSnapshotFails
    BY <1>28, <1>a, <1>b, KindAssumption DEF DeleteDispatcherSnapshotFails, Return, persistent, HandleInv, Rebuilding
  <1>29. CASE Crash
    BY <1>29, <1>a, <1>b, KindAssumption DEF Crash, Return, persistent, HandleInv, Rebuilding
  <1>30. CASE NetnsDeleted
    BY <1>30, <1>a, <1>b, KindAssumption DEF NetnsDeleted, Defunct, HandleInv, Rebuilding
  <1>31. CASE UNCHANGED vars
    BY <1>31, <1>a, <1>b, KindAssumption DEF vars, HandleInv, Rebuilding
  <1> QED BY <1>1, <1>2, <1>3, <1>4, <1>5, <1>6, <1>7, <1>8, <1>9, <1>10, <1>11, <1>12, <1>13, <1>14, <1>15, <1>16, <1>17, <1>18, <1>19, <1>20, <1>21, <1>22, <1>23, <1>24, <1>25, <1>26, <1>27, <1>28, <1>29, <1>30, <1>31
          DEF Next, Request, Step, Environment, Quiet

\* The pinned dispatchers.
LEMMA ProgInvNext ==
    ASSUME TidyingWorks, TypeInv, StableInv, ExactInv, [Next]_vars
    PROVE  ProgInv'
  <1>a. snap.rev \in Revisions /\ NextRevision \in Revisions /\ NextRevision # snap.rev
    BY RevisionsApart
  <1>b. UNCHANGED snap => UNCHANGED NextRevision
    BY RevisionsApart
  <1>c. JobInv /\ ProgInv
    BY DEF ExactInv
  <1>d. prog \in [Revisions -> DispatcherIDs \cup {None}]
    BY DEF TypeInv, TypeOK
  <1>1. ASSUME NEW p \in Programs, NEW prio \in Priorities, NEW label \in Labels,
              RebuildForAttach(p, prio, label)
       PROVE  ProgInv'
    BY <1>1, <1>c, AttachSlots DEF ProgInv, Loaded, Rebuilding
  <1>2. ASSUME NEW m \in snap.members, DetachExtension(m)
       PROVE  ProgInv'
    BY <1>2, <1>c DEF DetachExtension, Idle, ProgInv, Loaded, Rebuilding
  <1>3. ASSUME NEW m \in snap.members, DetachExtensionFails(m)
       PROVE  ProgInv'
    BY <1>3, <1>a, <1>b, <1>c, <1>d DEF DetachExtensionFails, persistent, Idle, JobInv, ProgInv, Rebuilding, Loaded, TidyingWorks
  <1>4. CASE RebuildForDetach
    <2>1. snap # NoSnapshot
      BY <1>4, NoSlots DEF RebuildForDetach, StableInv, LinksOf
    <2>2. /\ pc = "exclude" /\ UNCHANGED <<snap, prog>>
          /\ pc' = "teardown" \/ (pc' = "load" /\ job'.old = snap)
      BY <1>4, <1>c, DetachSlots
    <2> QED BY <1>c, <2>1, <2>2 DEF ProgInv, Rebuilding, Loaded
  <1>5. CASE LoadDispatcher
    BY <1>5, <1>a, <1>b, <1>c, <1>d DEF LoadDispatcher, JobInv, ProgInv, Rebuilding, Loaded, TidyingWorks
  <1>6. CASE LoadDispatcherFails
    BY <1>6, <1>a, <1>b, <1>c, <1>d DEF LoadDispatcherFails, Return, persistent, JobInv, ProgInv, Rebuilding, Loaded, TidyingWorks
  <1>7. CASE AttachExtension
    BY <1>7, <1>a, <1>b, <1>c, <1>d DEF AttachExtension, JobInv, ProgInv, Rebuilding, Loaded, TidyingWorks
  <1>8. CASE AttachExtensionFails
    BY <1>8, <1>a, <1>b, <1>c, <1>d DEF AttachExtensionFails, ExtAt, AllAttached, JobInv, ProgInv, Rebuilding, Loaded, TidyingWorks
  <1>9. CASE ExtensionsAttached
    BY <1>9, <1>a, <1>b, <1>c, <1>d DEF ExtensionsAttached, persistent, AllAttached, JobInv, ProgInv, Rebuilding, Loaded, TidyingWorks
  <1>10. CASE CreateXDPLink
    BY <1>10, <1>a, <1>b, <1>c, <1>d DEF CreateXDPLink, OuterLink, FirstAttach, JobInv, ProgInv, Rebuilding, Loaded, TidyingWorks
  <1>11. CASE UpdateXDPDispatcherLink
    BY <1>11, <1>a, <1>b, <1>c, <1>d DEF UpdateXDPDispatcherLink, OuterLink, FirstAttach, JobInv, ProgInv, Rebuilding, Loaded, TidyingWorks
  <1>12. CASE CreateTCFilter
    BY <1>12, <1>a, <1>b, <1>c, <1>d DEF CreateTCFilter, FreeHandles, Filter, JobInv, ProgInv, Rebuilding, Loaded, TidyingWorks
  <1>13. CASE DetachOldTCFilter
    BY <1>13, <1>a, <1>b, <1>c, <1>d DEF DetachOldTCFilter, JobInv, ProgInv, Rebuilding, Loaded, TidyingWorks
  <1>14. CASE DetachOldTCFilterFails
    BY <1>14, <1>a, <1>b, <1>c, <1>d DEF DetachOldTCFilterFails, persistent, JobInv, ProgInv, Rebuilding, Loaded, TidyingWorks
  <1>15. CASE SwapFails
    BY <1>15, <1>a, <1>b, <1>c, <1>d DEF SwapFails, persistent, JobInv, ProgInv, Rebuilding, Loaded, TidyingWorks
  <1>16. CASE ReplaceDispatcherSnapshot
    <2>1. /\ pc = "persist" /\ pc' = "cleanold" /\ UNCHANGED <<prog, job, disp>>
          /\ snap'.rev = job.rev /\ snap'.disp = disp
      BY <1>16 DEF ReplaceDispatcherSnapshot
    <2>2. disp # None
      BY <2>1, IdAssumption DEF TypeInv, Loaded, Rebuilding, None
    <2>3. snap' # NoSnapshot
      BY <2>1, <2>2 DEF NoSnapshot
    <2> QED BY <1>a, <1>c, <2>1, <2>2, <2>3 DEF JobInv, ProgInv, Rebuilding, Loaded
  <1>17. CASE ReplaceDispatcherSnapshotFails
    BY <1>17, <1>a, <1>b, <1>c, <1>d DEF ReplaceDispatcherSnapshotFails, persistent, JobInv, ProgInv, Rebuilding, Loaded, TidyingWorks
  <1>18. CASE RemoveOldRevision
    BY <1>18, <1>a, <1>b, <1>c, <1>d DEF RemoveOldRevision, Return, Removing, FirstAttach, JobInv, ProgInv, Rebuilding, Loaded, TidyingWorks
  <1>19. CASE RestoreXDP
    BY <1>19, <1>a, <1>b, <1>c, <1>d DEF RestoreXDP, OuterLink, FirstAttach, JobInv, ProgInv, Rebuilding, Loaded, TidyingWorks
  <1>20. CASE RestoreXDPFails
    BY <1>20, <1>a, <1>b, <1>c, <1>d DEF RestoreXDPFails, FirstAttach, Defunct, JobInv, ProgInv, Rebuilding, Loaded, TidyingWorks
  <1>21. CASE RestoreDeleteNewFilter
    BY <1>21, <1>a, <1>b, <1>c, <1>d DEF RestoreDeleteNewFilter, JobInv, ProgInv, Rebuilding, Loaded, TidyingWorks
  <1>22. CASE RestoreOldFilter
    BY <1>22, <1>a, <1>b, <1>c, <1>d DEF RestoreOldFilter, CanReaddOldFilter, FreeHandles, Filter, JobInv, ProgInv, Rebuilding, Loaded, TidyingWorks
  <1>23. CASE Rollback
    BY <1>23, <1>a, <1>b, <1>c, <1>d DEF Rollback, Return, CleanedByRollback, JobInv, ProgInv, Rebuilding, Loaded, TidyingWorks
  <1>24. CASE TeardownDetach
    BY <1>24, <1>a, <1>b, <1>c, <1>d DEF TeardownDetach, JobInv, ProgInv, Rebuilding, Loaded, TidyingWorks
  <1>25. CASE TeardownDetachFails
    BY <1>25, <1>a, <1>b, <1>c, <1>d DEF TeardownDetachFails, Return, Defunct, JobInv, ProgInv, Rebuilding, Loaded, TidyingWorks
  <1>26. CASE TeardownUnpin
    BY <1>26, <1>a, <1>b, <1>c, <1>d DEF TeardownUnpin, Removing, JobInv, ProgInv, Rebuilding, Loaded, TidyingWorks
  <1>27. CASE DeleteDispatcherSnapshot
    BY <1>27, <1>a, <1>b, <1>c, <1>d DEF DeleteDispatcherSnapshot, Return, NoSnapshot, JobInv, ProgInv, Rebuilding, Loaded, TidyingWorks
  <1>28. CASE DeleteDispatcherSnapshotFails
    BY <1>28, <1>a, <1>b, <1>c, <1>d DEF DeleteDispatcherSnapshotFails, Return, persistent, JobInv, ProgInv, Rebuilding, Loaded, TidyingWorks
  <1>29. CASE Crash
    BY <1>29, <1>a, <1>b, <1>c, <1>d DEF Crash, Return, persistent, JobInv, ProgInv, Rebuilding, Loaded, TidyingWorks
  <1>30. CASE NetnsDeleted
    BY <1>30, <1>a, <1>b, <1>c, <1>d DEF NetnsDeleted, Defunct, JobInv, ProgInv, Rebuilding, Loaded, TidyingWorks
  <1>31. CASE UNCHANGED vars
    BY <1>31, <1>a, <1>b, <1>c, <1>d DEF vars, JobInv, ProgInv, Rebuilding, Loaded, TidyingWorks
  <1> QED BY <1>1, <1>2, <1>3, <1>4, <1>5, <1>6, <1>7, <1>8, <1>9, <1>10, <1>11, <1>12, <1>13, <1>14, <1>15, <1>16, <1>17, <1>18, <1>19, <1>20, <1>21, <1>22, <1>23, <1>24, <1>25, <1>26, <1>27, <1>28, <1>29, <1>30, <1>31
          DEF Next, Request, Step, Environment, Quiet

\* Storing the slots, every slot has its member and the converse.
LEMMA AsMembersMatch ==
    ASSUME NEW S \in SUBSET Slot, NEW id \in LinkIDs
    PROVE  /\ \A s \in S : \E m \in AsMembers(S, id) : m.pos = s.pos /\ m.prog = s.prog
           /\ \A m \in AsMembers(S, id) : \E s \in S : m.pos = s.pos /\ m.prog = s.prog
  <1> DEFINE f(s) == IF s.link = None THEN [s EXCEPT !.link = id] ELSE s
  <1>1. \A s \in S : f(s).pos = s.pos /\ f(s).prog = s.prog
    BY DEF Slot
  <1>2. AsMembers(S, id) = {f(s) : s \in S}
    BY DEF AsMembers
  <1> HIDE DEF f
  <1> QED BY <1>1, <1>2

\* The pinned extensions.
LEMMA ExtInvNext ==
    ASSUME TidyingWorks, TypeInv, ChainInv, ExactInv, [Next]_vars
    PROVE  ExtInv'
  <1>a. snap.rev \in Revisions /\ NextRevision \in Revisions /\ NextRevision # snap.rev
    BY RevisionsApart
  <1>b. UNCHANGED snap => UNCHANGED NextRevision
    BY RevisionsApart
  <1>c. JobInv /\ ExtInv
    BY DEF ExactInv
  <1>d. NoSnapshot.members = {}
    BY NoSlots
  <1>1. ASSUME NEW p \in Programs, NEW prio \in Priorities, NEW label \in Labels,
              RebuildForAttach(p, prio, label)
       PROVE  ExtInv'
    BY <1>1, <1>c, AttachSlots DEF ExtInv, ExtOf, Survivor, Rebuilding, Loaded
  <1>2. ASSUME NEW m \in snap.members, DetachExtension(m)
       PROVE  ExtInv'
    <2>1. /\ pc = "idle" /\ pc' = "exclude" /\ UNCHANGED <<snap, netns>>
          /\ requested' = requested \cup {m.link}
          /\ ext' = {e \in ext : ~(e.rev = snap.rev /\ e.pos = m.pos)}
      BY <1>2 DEF DetachExtension, Idle
    <2>2. \A n \in snap.members : Survivor(n)' => Survivor(n) /\ n.pos # m.pos
      BY <2>1 DEF Survivor, ChainInv, WellPlaced, OneSlotPerPosition
    <2> QED BY <1>c, <2>1, <2>2 DEF ExtInv, ExtOf, Loaded, Rebuilding
  <1>3. ASSUME NEW m \in snap.members, DetachExtensionFails(m)
       PROVE  ExtInv'
    BY <1>3, <1>a, <1>b, <1>c, <1>d DEF DetachExtensionFails, persistent, Idle, JobInv, ExtInv, ExtOf, Survivor, Rebuilding, Loaded, TidyingWorks
  <1>4. CASE RebuildForDetach
    BY <1>4, <1>c, DetachSlots DEF ExtInv, ExtOf, Survivor, Rebuilding, Loaded
  <1>5. CASE LoadDispatcher
    <2>1. \A s \in job.slots : ~(s.pos < 0)
      BY DEF TypeInv, TypeOK, Job, Slot, Positions
    <2> QED BY <1>5, <1>c, <2>1 DEF LoadDispatcher, ExtInv, ExtOf, Survivor, Rebuilding, Loaded
  <1>6. CASE LoadDispatcherFails
    BY <1>6, <1>a, <1>b, <1>c, <1>d DEF LoadDispatcherFails, Return, persistent, JobInv, ExtInv, ExtOf, Survivor, Rebuilding, Loaded, TidyingWorks
  <1>7. CASE AttachExtension
    <2>1. PICK s \in job.slots : s.pos = done /\ ext' = ext \cup {ExtOf(job.rev, disp, s)}
      BY <1>7 DEF AttachExtension, ExtOf
    <2>2. /\ done' = done + 1 /\ done \in Nat /\ pc = "ext" /\ pc' = "ext"
          /\ UNCHANGED <<snap, netns, job, disp, requested>>
      BY <1>7 DEF AttachExtension, TypeInv, TypeOK
    <2>3. \A t \in job.slots : t.pos \in Nat /\ (t.pos = done => t = s)
      BY <2>1 DEF TypeInv, TypeOK, Job, Slot, Positions, ChainInv, WellPlaced, OneSlotPerPosition
    <2>4. \A t \in job.slots : t.pos < done + 1 => t.pos < done \/ t = s
      BY <2>2, <2>3
    <2>5. \A t \in job.slots : t.pos < done \/ t = s => t.pos < done + 1
      BY <2>1, <2>2, <2>3
    <2> QED BY <1>c, <2>1, <2>2, <2>4, <2>5 DEF ExtInv, ExtOf, Survivor, Loaded, Rebuilding
  <1>8. CASE AttachExtensionFails
    BY <1>8, <1>a, <1>b, <1>c, <1>d DEF AttachExtensionFails, ExtAt, AllAttached, JobInv, ExtInv, ExtOf, Survivor, Rebuilding, Loaded, TidyingWorks
  <1>9. CASE ExtensionsAttached
    BY <1>9, <1>a, <1>b, <1>c, <1>d DEF ExtensionsAttached, persistent, AllAttached, JobInv, ExtInv, ExtOf, Survivor, Rebuilding, Loaded, TidyingWorks
  <1>10. CASE CreateXDPLink
    BY <1>10, <1>a, <1>b, <1>c, <1>d DEF CreateXDPLink, OuterLink, FirstAttach, JobInv, ExtInv, ExtOf, Survivor, Rebuilding, Loaded, TidyingWorks
  <1>11. CASE UpdateXDPDispatcherLink
    BY <1>11, <1>a, <1>b, <1>c, <1>d DEF UpdateXDPDispatcherLink, OuterLink, FirstAttach, JobInv, ExtInv, ExtOf, Survivor, Rebuilding, Loaded, TidyingWorks
  <1>12. CASE CreateTCFilter
    BY <1>12, <1>a, <1>b, <1>c, <1>d DEF CreateTCFilter, FreeHandles, Filter, JobInv, ExtInv, ExtOf, Survivor, Rebuilding, Loaded, TidyingWorks
  <1>13. CASE DetachOldTCFilter
    BY <1>13, <1>a, <1>b, <1>c, <1>d DEF DetachOldTCFilter, JobInv, ExtInv, ExtOf, Survivor, Rebuilding, Loaded, TidyingWorks
  <1>14. CASE DetachOldTCFilterFails
    BY <1>14, <1>a, <1>b, <1>c, <1>d DEF DetachOldTCFilterFails, persistent, JobInv, ExtInv, ExtOf, Survivor, Rebuilding, Loaded, TidyingWorks
  <1>15. CASE SwapFails
    BY <1>15, <1>a, <1>b, <1>c, <1>d DEF SwapFails, persistent, JobInv, ExtInv, ExtOf, Survivor, Rebuilding, Loaded, TidyingWorks
  <1>16. CASE ReplaceDispatcherSnapshot
    <2>1. PICK id \in LinkIDs :
            snap' = [rev |-> job.rev, disp |-> disp, handle |-> handle,
                     members |-> AsMembers(job.slots, id)]
      BY <1>16 DEF ReplaceDispatcherSnapshot
    <2>2. pc = "persist" /\ pc' = "cleanold" /\ UNCHANGED <<ext, job, disp>>
      BY <1>16 DEF ReplaceDispatcherSnapshot
    <2>3. job.old = snap
      BY <1>c, <2>2 DEF JobInv, Rebuilding
    <2>4. job.slots \in SUBSET Slot
      BY DEF TypeInv, TypeOK, Job
    <2>5. /\ \A s \in job.slots : \E m \in snap'.members : m.pos = s.pos /\ m.prog = s.prog
          /\ \A m \in snap'.members : \E s \in job.slots : m.pos = s.pos /\ m.prog = s.prog
      BY <2>1, <2>4, AsMembersMatch
    <2>6. snap'.rev = job.rev /\ snap'.disp = disp
      BY <2>1
    <2>7. \A s \in job.slots : ExtOf(job.rev, disp, s) \in ext
      BY <1>c, <2>2 DEF ExtInv
    <2>8. \A m \in snap'.members : ExtOf(snap'.rev, snap'.disp, m) \in ext
      BY <2>5, <2>6, <2>7 DEF ExtOf
    <2>9. ASSUME NEW e \in ext
          PROVE  \/ \E m \in snap'.members : e = ExtOf(snap'.rev, snap'.disp, m)
                 \/ job.old # NoSnapshot /\ e.rev = job.old.rev
      BY <1>c, <1>d, <2>2, <2>3, <2>5, <2>6 DEF ExtInv, ExtOf
    <2> QED BY <2>2, <2>8, <2>9 DEF ExtInv, ExtOf, Loaded, Rebuilding
  <1>17. CASE ReplaceDispatcherSnapshotFails
    BY <1>17, <1>a, <1>b, <1>c, <1>d DEF ReplaceDispatcherSnapshotFails, persistent, JobInv, ExtInv, ExtOf, Survivor, Rebuilding, Loaded, TidyingWorks
  <1>18. CASE RemoveOldRevision
    BY <1>18, <1>a, <1>b, <1>c, <1>d DEF RemoveOldRevision, Return, Removing, FirstAttach, JobInv, ExtInv, ExtOf, Survivor, Rebuilding, Loaded, TidyingWorks
  <1>19. CASE RestoreXDP
    BY <1>19, <1>a, <1>b, <1>c, <1>d DEF RestoreXDP, OuterLink, FirstAttach, JobInv, ExtInv, ExtOf, Survivor, Rebuilding, Loaded, TidyingWorks
  <1>20. CASE RestoreXDPFails
    BY <1>20, <1>a, <1>b, <1>c, <1>d DEF RestoreXDPFails, FirstAttach, Defunct, JobInv, ExtInv, ExtOf, Survivor, Rebuilding, Loaded, TidyingWorks
  <1>21. CASE RestoreDeleteNewFilter
    BY <1>21, <1>a, <1>b, <1>c, <1>d DEF RestoreDeleteNewFilter, JobInv, ExtInv, ExtOf, Survivor, Rebuilding, Loaded, TidyingWorks
  <1>22. CASE RestoreOldFilter
    BY <1>22, <1>a, <1>b, <1>c, <1>d DEF RestoreOldFilter, CanReaddOldFilter, FreeHandles, Filter, JobInv, ExtInv, ExtOf, Survivor, Rebuilding, Loaded, TidyingWorks
  <1>23. CASE Rollback
    BY <1>23, <1>a, <1>b, <1>c, <1>d DEF Rollback, Return, CleanedByRollback, JobInv, ExtInv, ExtOf, Survivor, Rebuilding, Loaded, TidyingWorks
  <1>24. CASE TeardownDetach
    BY <1>24, <1>a, <1>b, <1>c, <1>d DEF TeardownDetach, JobInv, ExtInv, ExtOf, Survivor, Rebuilding, Loaded, TidyingWorks
  <1>25. CASE TeardownDetachFails
    BY <1>25, <1>a, <1>b, <1>c, <1>d DEF TeardownDetachFails, Return, Defunct, JobInv, ExtInv, ExtOf, Survivor, Rebuilding, Loaded, TidyingWorks
  <1>26. CASE TeardownUnpin
    BY <1>26, <1>a, <1>b, <1>c, <1>d DEF TeardownUnpin, Removing, JobInv, ExtInv, ExtOf, Survivor, Rebuilding, Loaded, TidyingWorks
  <1>27. CASE DeleteDispatcherSnapshot
    BY <1>27, <1>a, <1>b, <1>c, <1>d DEF DeleteDispatcherSnapshot, Return, NoSnapshot, JobInv, ExtInv, ExtOf, Survivor, Rebuilding, Loaded, TidyingWorks
  <1>28. CASE DeleteDispatcherSnapshotFails
    BY <1>28, <1>a, <1>b, <1>c, <1>d DEF DeleteDispatcherSnapshotFails, Return, persistent, JobInv, ExtInv, ExtOf, Survivor, Rebuilding, Loaded, TidyingWorks
  <1>29. CASE Crash
    BY <1>29, <1>a, <1>b, <1>c, <1>d DEF Crash, Return, persistent, JobInv, ExtInv, ExtOf, Survivor, Rebuilding, Loaded, TidyingWorks
  <1>30. CASE NetnsDeleted
    BY <1>30, <1>a, <1>b, <1>c, <1>d DEF NetnsDeleted, Defunct, JobInv, ExtInv, ExtOf, Survivor, Rebuilding, Loaded, TidyingWorks
  <1>31. CASE UNCHANGED vars
    BY <1>31, <1>a, <1>b, <1>c, <1>d DEF vars, JobInv, ExtInv, ExtOf, Survivor, Rebuilding, Loaded, TidyingWorks
  <1> QED BY <1>1, <1>2, <1>3, <1>4, <1>5, <1>6, <1>7, <1>8, <1>9, <1>10, <1>11, <1>12, <1>13, <1>14, <1>15, <1>16, <1>17, <1>18, <1>19, <1>20, <1>21, <1>22, <1>23, <1>24, <1>25, <1>26, <1>27, <1>28, <1>29, <1>30, <1>31
          DEF Next, Request, Step, Environment, Quiet

\* The hooks.
LEMMA HooksInvNext ==
    ASSUME TidyingWorks, TypeInv, ExactInv, [Next]_vars
    PROVE  HooksInv'
  <1>a. JobInv /\ HandleInv /\ ProgInv /\ HooksInv
    BY DEF ExactInv
  <1>1. ASSUME NEW p \in Programs, NEW prio \in Priorities, NEW label \in Labels,
              RebuildForAttach(p, prio, label)
       PROVE  HooksInv'
    BY <1>1, <1>a, AttachSlots DEF HooksInv, HooksAsRecorded, RecordedHook, Stuck, Survivor
  <1>2. ASSUME NEW m \in snap.members, DetachExtension(m)
       PROVE  HooksInv'
    BY <1>2, <1>a DEF DetachExtension, Idle, HooksInv, HooksAsRecorded, RecordedHook, Stuck, Survivor
  <1>3. ASSUME NEW m \in snap.members, DetachExtensionFails(m)
       PROVE  HooksInv'
    BY <1>3, <1>a DEF DetachExtensionFails, persistent, Idle, JobInv, HandleInv, HooksInv, HooksAsRecorded, RecordedHook, NewHook, Stuck, Survivor, Rebuilding, TidyingWorks
  <1>4. CASE RebuildForDetach
    BY <1>4, <1>a, DetachSlots DEF HooksInv, HooksAsRecorded, RecordedHook, Stuck, Survivor
  <1>5. CASE LoadDispatcher
    BY <1>5, <1>a DEF LoadDispatcher, JobInv, HandleInv, HooksInv, HooksAsRecorded, RecordedHook, NewHook, Stuck, Survivor, Rebuilding, TidyingWorks
  <1>6. CASE LoadDispatcherFails
    BY <1>6, <1>a DEF LoadDispatcherFails, Return, persistent, JobInv, HandleInv, HooksInv, HooksAsRecorded, RecordedHook, NewHook, Stuck, Survivor, Rebuilding, TidyingWorks
  <1>7. CASE AttachExtension
    BY <1>7, <1>a DEF AttachExtension, JobInv, HandleInv, HooksInv, HooksAsRecorded, RecordedHook, NewHook, Stuck, Survivor, Rebuilding, TidyingWorks
  <1>8. CASE AttachExtensionFails
    BY <1>8, <1>a DEF AttachExtensionFails, ExtAt, AllAttached, JobInv, HandleInv, HooksInv, HooksAsRecorded, RecordedHook, NewHook, Stuck, Survivor, Rebuilding, TidyingWorks
  <1>9. CASE ExtensionsAttached
    BY <1>9, <1>a DEF ExtensionsAttached, persistent, AllAttached, JobInv, HandleInv, HooksInv, HooksAsRecorded, RecordedHook, NewHook, Stuck, Survivor, Rebuilding, TidyingWorks
  <1>10. CASE CreateXDPLink
    BY <1>10, <1>a DEF CreateXDPLink, OuterLink, FirstAttach, JobInv, HandleInv, HooksInv, HooksAsRecorded, RecordedHook, NewHook, Stuck, Survivor, Rebuilding, TidyingWorks
  <1>11. CASE UpdateXDPDispatcherLink
    BY <1>11, <1>a DEF UpdateXDPDispatcherLink, OuterLink, FirstAttach, JobInv, HandleInv, HooksInv, HooksAsRecorded, RecordedHook, NewHook, Stuck, Survivor, Rebuilding, TidyingWorks
  <1>12. CASE CreateTCFilter
    <2>1. PICK n \in FreeHandles : handle' = n /\ hooks' = hooks \cup {Filter(n, disp)}
      BY <1>12 DEF CreateTCFilter
    <2>2. /\ pc = "swap" /\ Kind = "tc" /\ netns /\ UNCHANGED <<snap, disp, netns>>
          /\ pc' = IF job.old.handle # None THEN "delold" ELSE "persist"
      BY <1>12 DEF CreateTCFilter
    <2>3. job.old = snap /\ hooks = HooksAsRecorded
      BY <1>a, <2>2 DEF JobInv, Rebuilding, HooksInv, Stuck
    <2>4. Filter(n, disp) = NewHook' /\ UNCHANGED RecordedHook
      BY <2>1, <2>2 DEF Filter, NewHook, RecordedHook
    <2>5. CASE snap = NoSnapshot
      BY <2>1, <2>2, <2>3, <2>4, <2>5 DEF HooksInv, HooksAsRecorded, NoSnapshot
    <2>6. CASE snap # NoSnapshot
      <3>1. pc' = "delold" /\ hooks' = {RecordedHook', NewHook'}
        BY <1>a, <2>1, <2>2, <2>3, <2>4, <2>6 DEF HandleInv, HooksAsRecorded
      <3> QED BY <3>1 DEF HooksInv
    <2> QED BY <2>5, <2>6
  <1>13. CASE DetachOldTCFilter
    BY <1>13, <1>a DEF DetachOldTCFilter, JobInv, HandleInv, HooksInv, HooksAsRecorded, RecordedHook, NewHook, Stuck, Survivor, Rebuilding, TidyingWorks
  <1>14. CASE DetachOldTCFilterFails
    BY <1>14, <1>a DEF DetachOldTCFilterFails, persistent, JobInv, HandleInv, HooksInv, HooksAsRecorded, RecordedHook, NewHook, Stuck, Survivor, Rebuilding, TidyingWorks
  <1>15. CASE SwapFails
    BY <1>15, <1>a DEF SwapFails, persistent, JobInv, HandleInv, HooksInv, HooksAsRecorded, RecordedHook, NewHook, Stuck, Survivor, Rebuilding, TidyingWorks
  <1>16. CASE ReplaceDispatcherSnapshot
    <2>1. /\ pc = "persist" /\ pc' = "cleanold" /\ UNCHANGED <<hooks, netns, disp, handle>>
          /\ snap'.handle = handle /\ snap'.disp = disp
      BY <1>16 DEF ReplaceDispatcherSnapshot
    <2>2. snap' # NoSnapshot
      BY <2>1, IdAssumption DEF TypeInv, Loaded, Rebuilding, None, NoSnapshot
    <2>3. NewHook = RecordedHook'
      BY <2>1 DEF NewHook, RecordedHook
    <2> QED BY <1>a, <2>1, <2>2, <2>3 DEF HooksInv, HooksAsRecorded
  <1>17. CASE ReplaceDispatcherSnapshotFails
    BY <1>17, <1>a DEF ReplaceDispatcherSnapshotFails, persistent, JobInv, HandleInv, HooksInv, HooksAsRecorded, RecordedHook, NewHook, Stuck, Survivor, Rebuilding, TidyingWorks
  <1>18. CASE RemoveOldRevision
    BY <1>18, <1>a DEF RemoveOldRevision, Return, Removing, FirstAttach, JobInv, HandleInv, HooksInv, HooksAsRecorded, RecordedHook, NewHook, Stuck, Survivor, Rebuilding, TidyingWorks
  <1>19. CASE RestoreXDP
    <2>1. pc = "restore" /\ pc' = "rollback" /\ UNCHANGED <<snap, netns>> /\ job.old = snap
      BY <1>19, <1>a DEF RestoreXDP, JobInv, Rebuilding
    <2>2. CASE snap = NoSnapshot
      BY <1>19, <2>1, <2>2 DEF RestoreXDP, FirstAttach, HooksInv, HooksAsRecorded
    <2>3. CASE snap # NoSnapshot
      <3>1. prog[snap.rev] = snap.disp /\ snap.handle = None
        BY <1>a, <2>1, <2>3 DEF ProgInv, HandleInv
      <3>2. hooks' = {OuterLink(snap.disp)}
        BY <1>19, <2>1, <2>3, <3>1 DEF RestoreXDP, FirstAttach
      <3>3. OuterLink(snap.disp) = RecordedHook'
        BY <2>1, <3>1 DEF OuterLink, RecordedHook
      <3> QED BY <2>1, <2>3, <3>2, <3>3 DEF HooksInv, HooksAsRecorded
    <2> QED BY <2>2, <2>3
  <1>20. CASE RestoreXDPFails
    <2>1. pc = "restore" /\ UNCHANGED netns /\ job.old = snap
      BY <1>20, <1>a DEF RestoreXDPFails, JobInv, Rebuilding
    <2>2. /\ snap # NoSnapshot
          /\ prog[snap.rev] = None \/ \A h \in hooks : ~h.live
      BY <1>20, <2>1 DEF RestoreXDPFails, FirstAttach, TidyingWorks
    <2>3. prog[snap.rev] # None
      BY <1>a, <2>1, <2>2 DEF ProgInv
    <2>4. NewHook.live
      BY DEF NewHook
    <2>5. ~netns
      BY <1>a, <2>1, <2>2, <2>3, <2>4 DEF HooksInv
    <2> QED BY <2>1, <2>5 DEF HooksInv
  <1>21. CASE RestoreDeleteNewFilter
    BY <1>21, <1>a DEF RestoreDeleteNewFilter, JobInv, HandleInv, HooksInv, HooksAsRecorded, RecordedHook, NewHook, Stuck, Survivor, Rebuilding, TidyingWorks
  <1>22. CASE RestoreOldFilter
    <2>1. pc = "readdold" /\ pc' = "rollback" /\ UNCHANGED <<snap, netns>> /\ job.old = snap
      BY <1>22, <1>a DEF RestoreOldFilter, JobInv, Rebuilding
    <2>2. SUFFICES ASSUME netns PROVE hooks' = HooksAsRecorded'
      BY <2>1 DEF HooksInv
    <2>3. hooks = {} /\ snap.handle # None /\ snap # NoSnapshot
      BY <1>a, <2>1, <2>2 DEF HooksInv, HandleInv, NoSnapshot
    <2>4. snap.handle \in Handles /\ prog[snap.rev] = snap.disp /\ snap.disp # None
      BY <1>a, <2>1, <2>3 DEF TypeInv, TypeOK, Snapshot, ProgInv
    <2>5. CanReaddOldFilter
      BY <2>1, <2>2, <2>3, <2>4 DEF CanReaddOldFilter, FreeHandles
    <2>6. hooks' = {Filter(snap.handle, snap.disp)}
      BY <1>22, <2>1, <2>3, <2>4, <2>5 DEF RestoreOldFilter, TidyingWorks
    <2>7. Filter(snap.handle, snap.disp) = RecordedHook'
      BY <2>1 DEF Filter, RecordedHook
    <2> QED BY <2>1, <2>3, <2>6, <2>7 DEF HooksAsRecorded
  <1>23. CASE Rollback
    BY <1>23, <1>a DEF Rollback, Return, CleanedByRollback, JobInv, HandleInv, HooksInv, HooksAsRecorded, RecordedHook, NewHook, Stuck, Survivor, Rebuilding, TidyingWorks
  <1>24. CASE TeardownDetach
    BY <1>24, <1>a DEF TeardownDetach, JobInv, HandleInv, HooksInv, HooksAsRecorded, RecordedHook, NewHook, Stuck, Survivor, Rebuilding, TidyingWorks
  <1>25. CASE TeardownDetachFails
    <2>1. /\ pc = "teardown" /\ pc' = "idle" /\ UNCHANGED <<snap, netns, requested>>
          /\ hooks' = hooks \/ (Kind = "xdp" /\ hooks' = Defunct(hooks))
      BY <1>25 DEF TeardownDetachFails, Return
    <2>2. snap # NoSnapshot /\ \A m \in snap.members : ~Survivor(m)
      BY <1>a, <2>1 DEF ProgInv, JobInv
    <2>3. CASE hooks' = hooks
      BY <1>a, <2>1, <2>3 DEF HooksInv, HooksAsRecorded, RecordedHook, Stuck, Survivor
    <2>4. CASE Kind = "xdp" /\ hooks' = Defunct(hooks)
      <3>1. \A h \in Defunct(hooks) : ~h.live
        BY DEF Defunct, TypeInv, TypeOK, Hook
      <3> QED BY <2>1, <2>2, <2>4, <3>1 DEF HooksInv, Stuck, Survivor
    <2> QED BY <2>1, <2>3, <2>4
  <1>26. CASE TeardownUnpin
    BY <1>26, <1>a DEF TeardownUnpin, Removing, JobInv, HandleInv, HooksInv, HooksAsRecorded, RecordedHook, NewHook, Stuck, Survivor, Rebuilding, TidyingWorks
  <1>27. CASE DeleteDispatcherSnapshot
    BY <1>27, <1>a DEF DeleteDispatcherSnapshot, Return, NoSnapshot, JobInv, HandleInv, HooksInv, HooksAsRecorded, RecordedHook, NewHook, Stuck, Survivor, Rebuilding, TidyingWorks
  <1>28. CASE DeleteDispatcherSnapshotFails
    BY <1>28, <1>a DEF DeleteDispatcherSnapshotFails, Return, persistent, JobInv, HandleInv, HooksInv, HooksAsRecorded, RecordedHook, NewHook, Stuck, Survivor, Rebuilding, TidyingWorks
  <1>29. CASE Crash
    BY <1>29, <1>a DEF Crash, Return, persistent, JobInv, HandleInv, HooksInv, HooksAsRecorded, RecordedHook, NewHook, Stuck, Survivor, Rebuilding, TidyingWorks
  <1>30. CASE NetnsDeleted
    BY <1>30, <1>a DEF NetnsDeleted, Defunct, JobInv, HandleInv, HooksInv, HooksAsRecorded, RecordedHook, NewHook, Stuck, Survivor, Rebuilding, TidyingWorks
  <1>31. CASE UNCHANGED vars
    BY <1>31, <1>a DEF vars, JobInv, HandleInv, HooksInv, HooksAsRecorded, RecordedHook, NewHook, Stuck, Survivor, Rebuilding, TidyingWorks
  <1> QED BY <1>1, <1>2, <1>3, <1>4, <1>5, <1>6, <1>7, <1>8, <1>9, <1>10, <1>11, <1>12, <1>13, <1>14, <1>15, <1>16, <1>17, <1>18, <1>19, <1>20, <1>21, <1>22, <1>23, <1>24, <1>25, <1>26, <1>27, <1>28, <1>29, <1>30, <1>31
          DEF Next, Request, Step, Environment, Quiet

LEMMA ExactInvInit == Init => ExactInv
  <1> SUFFICES ASSUME Init PROVE ExactInv
    OBVIOUS
  <1>1. JobInv
    BY NoSlots DEF Init, JobInv, Rebuilding, Loaded
  <1>2. HandleInv
    BY DEF Init, HandleInv, NoSnapshot
  <1>3. ProgInv /\ ExtInv
    BY NoSlots DEF Init, ProgInv, ExtInv
  <1>4. HooksInv
    BY DEF Init, HooksInv, HooksAsRecorded
  <1> QED BY <1>1, <1>2, <1>3, <1>4 DEF ExactInv

\* The whole invariant.
Inv == TypeInv /\ ChainInv /\ StableInv /\ ExactInv

LEMMA InvAlways == ASSUME TidyingWorks PROVE Spec => []Inv
  <1>1. Init => Inv
    BY TypeInvInit, StableInvInit, ExactInvInit DEF Inv
  <1>2. Inv /\ [Next]_vars => Inv'
    <2> SUFFICES ASSUME Inv, [Next]_vars PROVE Inv'
      OBVIOUS
    <2>1. TypeInv' /\ ChainInv' /\ StableInv'
      BY TypeInvNext, StableInvNext DEF Inv
    <2>2. JobInv'
      BY JobInvNext DEF Inv, ExactInv
    <2>3. HandleInv' /\ ProgInv' /\ ExtInv' /\ HooksInv'
      BY HandleInvNext, ProgInvNext, ExtInvNext, HooksInvNext DEF Inv
    <2> QED BY <2>1, <2>2, <2>3 DEF Inv, ExactInv
  <1> QED BY <1>1, <1>2, PTL DEF Spec

LEMMA InvExact == Inv => StoreIsExact
  <1> SUFFICES ASSUME Inv, pc = "idle", netns, ~(snap # NoSnapshot /\ {m.link : m \in snap.members} \subseteq requested /\ \A h \in hooks : ~h.live)
               PROVE  /\ hooks = IF snap = NoSnapshot THEN {}
                                 ELSE {[handle |-> snap.handle, disp |-> snap.disp, live |-> TRUE]}
                      /\ prog = [r \in Revisions |-> IF snap # NoSnapshot /\ r = snap.rev THEN snap.disp ELSE None]
                      /\ \E missing \in SUBSET requested : ext = SnapshotLinks(missing)
    BY DEF StoreIsExact, Idle
  <1>1. hooks = HooksAsRecorded
    BY DEF Inv, ExactInv, HooksInv, Stuck, Survivor
  <1>2. \A r \in Revisions : prog[r] = IF snap # NoSnapshot /\ r = snap.rev THEN snap.disp ELSE None
    BY DEF Inv, ExactInv, ProgInv, Loaded, Rebuilding
  <1>3. prog = [r \in Revisions |-> IF snap # NoSnapshot /\ r = snap.rev THEN snap.disp ELSE None]
    BY <1>2 DEF Inv, TypeInv, TypeOK
  <1> DEFINE X(m) == ExtOf(snap.rev, snap.disp, m)
             missing == {m.link : m \in {x \in snap.members : X(x) \notin ext}}
  <1>4. missing \in SUBSET requested
    BY DEF Inv, ExactInv, ExtInv, Survivor
  <1>5. \A m \in snap.members : m.link \notin missing <=> X(m) \in ext
    BY DEF Inv, StableInv, OneLinkEach
  <1>6. \A e \in ext : \E m \in snap.members : e = X(m)
    BY DEF Inv, ExactInv, ExtInv, Loaded, Rebuilding
  <1>7. SnapshotLinks(missing) = {X(m) : m \in {x \in snap.members : x.link \notin missing}}
    BY DEF SnapshotLinks, ExtOf
  <1> HIDE DEF X, missing
  <1>8. ext = SnapshotLinks(missing)
    BY <1>5, <1>6, <1>7
  <1> QED BY <1>1, <1>3, <1>4, <1>8 DEF HooksAsRecorded, RecordedHook

LEMMA InvServes == Inv => ServedOutsideRestore
  <1> SUFFICES ASSUME Inv, pc # "readdold", netns, NEW m \in snap.members, m.link \notin requested
               PROVE  Served(m)
    BY DEF ServedOutsideRestore, SurvivorsServed
  <1>1. Survivor(m) /\ snap # NoSnapshot
    BY NoSlots DEF Survivor
  <1>2. /\ JobInv /\ ExtInv /\ HooksInv
        /\ pc \in {"idle", "exclude", "load", "ext", "swap", "delold", "persist", "cleanold",
                  "restore", "delnew", "readdold", "rollback", "teardown", "unpin", "delsnap"}
    BY DEF Inv, ExactInv, TypeInv, TypeOK
  <1>3. ExtOf(snap.rev, snap.disp, m) \in ext
    BY <1>1, <1>2 DEF ExtInv
  <1>4. CASE RecordedHook \in hooks
    BY <1>3, <1>4 DEF Served, RecordedHook, ExtOf
  <1>5. CASE pc \in {"persist", "restore", "delnew"}
    <2>1. PICK s \in job.slots : s.prog = m.prog
      BY <1>1, <1>2, <1>5 DEF JobInv, Rebuilding
    <2>2. ExtOf(job.rev, disp, s) \in ext
      BY <1>2, <1>5 DEF ExtInv
    <2>3. NewHook \in hooks
      BY <1>2, <1>5 DEF HooksInv
    <2> QED BY <2>1, <2>2, <2>3 DEF Served, NewHook, ExtOf
  <1>6. pc \notin {"teardown", "unpin", "delsnap"}
    BY <1>1, <1>2 DEF JobInv
  <1>7. RecordedHook \in hooks \/ pc \in {"persist", "restore", "delnew"}
    BY <1>1, <1>2, <1>6 DEF HooksInv, HooksAsRecorded, Stuck
  <1> QED BY <1>4, <1>5, <1>7

\* Between operations, whatever calls of the operations before failed, the
\* kernel and bpffs hold exactly what the store says (or nothing runs any
\* more, after a teardown that failed): one hook, one pinned dispatcher, one
\* extension per member.  For XDP and TC, as long as tidying up works.
THEOREM StoreExact == ASSUME TidyingWorks PROVE Spec => []StoreIsExact
  BY InvAlways, InvExact, PTL

\* Between operations the revision the next rebuild takes has no pin, so that
\* loading its dispatcher cannot fail with EEXIST: even when the counter
\* wraps, a failed rebuild's number is free again.
THEOREM RevisionFree == ASSUME TidyingWorks PROVE Spec => []NextRevisionFree
  <1>1. Inv => NextRevisionFree
    BY RevisionsApart DEF Inv, ExactInv, ProgInv, NextRevisionFree, Idle, Loaded, Rebuilding
  <1> QED BY <1>1, InvAlways, PTL

\* At an XDP or a TC hook every recorded link nobody asked to detach runs at
\* every instant, but for the moment in which a TC rollback has deleted the
\* new filter and not yet put the old one back.
THEOREM ServedBetween == ASSUME TidyingWorks PROVE Spec => []ServedOutsideRestore
  BY InvAlways, InvServes, PTL

-----------------------------------------------------------------------------
(***************************************************************************)
(* XDP: the dispatcher implements the attach point                         *)
(***************************************************************************)

\* The programs of the extensions attached to dispatcher d.
Extended(d) == {e.prog : e \in {x \in ext : x.disp = d}}

\* The device runs the new dispatcher exactly between the swap and the end of
\* the restore, and nothing once its namespace is gone or it was detached.
DeviceInv ==
    /\ ~netns => \A h \in hooks : ~h.live
    /\ pc \in {"ext", "swap"} => \A h \in hooks : h.disp # disp
    /\ pc \in {"persist", "restore"} => \A h \in hooks : h.disp = disp
    /\ pc \in {"unpin", "delsnap"} => hooks = {}

\* The extensions of the recorded dispatcher are of recorded links, those of
\* the new one are of its slots.
OwnersInv ==
    /\ Extended(snap.disp) \subseteq {m.prog : m \in snap.members}
    /\ snap # NoSnapshot => prog[snap.rev] \in {None, snap.disp}
    /\ Loaded => /\ disp # snap.disp
                 /\ Extended(disp) \subseteq {s.prog : s \in job.slots}

\* The link an attach is about to make.
NewLink == [link: {None}, prog: Programs, prio: Priorities]

\* The slots of a rebuild are the links and one new program, or the links
\* without one that a client asked to detach.
SlotsInv ==
    /\ requested \subseteq LinksOf(snap.members)
    /\ ~Rebuilding /\ pc # "cleanold" => job.slots = {}
    /\ Rebuilding =>
         \/ \E new \in NewLink : Identities(job.slots) = Identities(snap.members) \cup {new}
         \/ /\ job.link \in requested
            /\ Identities(job.slots) = Identities({m \in snap.members : m.link # job.link})

\* Only the swap puts the new dispatcher on the device.
LEMMA DeviceInvNext ==
    ASSUME Kind = "xdp", TypeInv, ServedInv, DeviceInv, [Next]_vars
    PROVE  DeviceInv'
  <1>h. hooks \subseteq Hook /\ pc \notin {"delold", "delnew", "readdold"}
    BY DEF TypeInv, TypeOK, ServedInv
  <1>1. ASSUME NEW p \in Programs, NEW prio \in Priorities, NEW label \in Labels,
              RebuildForAttach(p, prio, label)
       PROVE  DeviceInv'
    BY <1>1, <1>h DEF RebuildForAttach, persistent, Idle, DeviceInv, Hook
  <1>2. ASSUME NEW m \in snap.members, DetachExtension(m)
       PROVE  DeviceInv'
    BY <1>2, <1>h DEF DetachExtension, NoJob, Idle, DeviceInv, Hook
  <1>3. ASSUME NEW m \in snap.members, DetachExtensionFails(m)
       PROVE  DeviceInv'
    BY <1>3, <1>h DEF DetachExtensionFails, persistent, Idle, DeviceInv, Hook
  <1>4. CASE RebuildForDetach
    BY <1>4, <1>h DEF RebuildForDetach, persistent, DeviceInv, Hook
  <1>5. CASE LoadDispatcher
    BY <1>5, <1>h DEF LoadDispatcher, DispatchersInUse, DeviceInv, Hook
  <1>6. CASE LoadDispatcherFails
    BY <1>6, <1>h DEF LoadDispatcherFails, Return, persistent, DeviceInv, Hook
  <1>7. CASE AttachExtension
    BY <1>7, <1>h DEF AttachExtension, DeviceInv, Hook
  <1>8. CASE AttachExtensionFails
    BY <1>8, <1>h DEF AttachExtensionFails, ExtAt, DeviceInv, Hook
  <1>9. CASE ExtensionsAttached
    BY <1>9, <1>h DEF ExtensionsAttached, persistent, DeviceInv, Hook
  <1>10. CASE CreateXDPLink
    BY <1>10, <1>h DEF CreateXDPLink, OuterLink, DeviceInv, Hook
  <1>11. CASE UpdateXDPDispatcherLink
    BY <1>11, <1>h DEF UpdateXDPDispatcherLink, OuterLink, DeviceInv, Hook
  <1>12. CASE CreateTCFilter
    BY <1>12, <1>h DEF CreateTCFilter, DeviceInv, Hook
  <1>13. CASE DetachOldTCFilter
    BY <1>13, <1>h DEF DetachOldTCFilter, DeviceInv, Hook
  <1>14. CASE DetachOldTCFilterFails
    BY <1>14, <1>h DEF DetachOldTCFilterFails, persistent, DeviceInv, Hook
  <1>15. CASE SwapFails
    BY <1>15, <1>h DEF SwapFails, persistent, DeviceInv, Hook
  <1>16. CASE ReplaceDispatcherSnapshot
    BY <1>16, <1>h DEF ReplaceDispatcherSnapshot, DeviceInv, Hook
  <1>17. CASE ReplaceDispatcherSnapshotFails
    BY <1>17, <1>h DEF ReplaceDispatcherSnapshotFails, persistent, DeviceInv, Hook
  <1>18. CASE RemoveOldRevision
    BY <1>18, <1>h DEF RemoveOldRevision, Return, Removing, DeviceInv, Hook
  <1>19. CASE RestoreXDP
    BY <1>19, <1>h DEF RestoreXDP, OuterLink, FirstAttach, DeviceInv, Hook
  <1>20. CASE RestoreXDPFails
    BY <1>20, <1>h DEF RestoreXDPFails, FirstAttach, Defunct, DeviceInv, Hook
  <1>21. CASE RestoreDeleteNewFilter
    BY <1>21, <1>h DEF RestoreDeleteNewFilter, DeviceInv, Hook
  <1>22. CASE RestoreOldFilter
    BY <1>22, <1>h DEF RestoreOldFilter, DeviceInv, Hook
  <1>23. CASE Rollback
    BY <1>23, <1>h DEF Rollback, Return, CleanedByRollback, DeviceInv, Hook
  <1>24. CASE TeardownDetach
    BY <1>24, <1>h DEF TeardownDetach, DeviceInv, Hook
  <1>25. CASE TeardownDetachFails
    BY <1>25, <1>h DEF TeardownDetachFails, Return, Defunct, DeviceInv, Hook
  <1>26. CASE TeardownUnpin
    BY <1>26, <1>h DEF TeardownUnpin, Removing, DeviceInv, Hook
  <1>27. CASE DeleteDispatcherSnapshot
    BY <1>27, <1>h DEF DeleteDispatcherSnapshot, Return, DeviceInv, Hook
  <1>28. CASE DeleteDispatcherSnapshotFails
    BY <1>28, <1>h DEF DeleteDispatcherSnapshotFails, Return, persistent, DeviceInv, Hook
  <1>29. CASE Crash
    BY <1>29, <1>h DEF Crash, Return, persistent, DeviceInv, Hook
  <1>30. CASE NetnsDeleted
    BY <1>30, <1>h DEF NetnsDeleted, Defunct, DeviceInv, Hook
  <1>31. CASE UNCHANGED vars
    BY <1>31, <1>h DEF vars, DeviceInv, Hook
  <1> QED BY <1>1, <1>2, <1>3, <1>4, <1>5, <1>6, <1>7, <1>8, <1>9, <1>10, <1>11, <1>12, <1>13, <1>14, <1>15, <1>16, <1>17, <1>18, <1>19, <1>20, <1>21, <1>22, <1>23, <1>24, <1>25, <1>26, <1>27, <1>28, <1>29, <1>30, <1>31
          DEF Next, Request, Step, Environment, Quiet

\* Storing the slots records them and gives the new one its id.
LEMMA RecordedIdentities ==
    ASSUME NEW S \in SUBSET Slot, NEW id \in LinkIDs
    PROVE  /\ Identities(AsMembers(S, id)) =
                {[link |-> IF s.link = None THEN id ELSE s.link, prog |-> s.prog, prio |-> s.prio] : s \in S}
           /\ {m.prog : m \in AsMembers(S, id)} = {s.prog : s \in S}
           /\ LinksOf(S) \ {None} \subseteq LinksOf(AsMembers(S, id))
  <1> DEFINE f == [s \in S |-> IF s.link = None THEN [s EXCEPT !.link = id] ELSE s]
             g(s) == [link |-> IF s.link = None THEN id ELSE s.link, prog |-> s.prog, prio |-> s.prio]
  <1>1. \A s \in S : /\ f[s].prog = s.prog /\ f[s].prio = s.prio
                     /\ f[s].link = IF s.link = None THEN id ELSE s.link
    BY DEF Slot
  <1>2. AsMembers(S, id) = {f[s] : s \in S}
    BY DEF AsMembers
  <1> HIDE DEF f
  <1>3. \A s \in S : Identity(f[s]) = g(s)
    BY <1>1 DEF Identity
  <1>4. Identities(AsMembers(S, id)) = {g(s) : s \in S}
    <2>1. Identities(AsMembers(S, id)) = {Identity(f[s]) : s \in S}
      BY <1>2 DEF Identities
    <2> HIDE DEF g
    <2>2. {Identity(f[s]) : s \in S} = {g(s) : s \in S}
      BY <1>3
    <2> QED BY <2>1, <2>2
  <1>5. {m.prog : m \in AsMembers(S, id)} = {s.prog : s \in S}
    BY <1>1, <1>2
  <1>6. LinksOf(S) \ {None} \subseteq LinksOf(AsMembers(S, id))
    BY <1>1, <1>2 DEF LinksOf
  <1> QED BY <1>4, <1>5, <1>6

\* A dispatcher id that is in use is never handed out again.
LEMMA OwnersInvNext ==
    ASSUME TypeInv, ServedInv, OwnersInv, [Next]_vars
    PROVE  OwnersInv'
  <1>h. /\ pc \notin {"delold", "delnew", "readdold"} /\ ext \subseteq ExtLink
        /\ snap.rev \in Revisions /\ NextRevision \in Revisions /\ NextRevision # snap.rev
        /\ prog \in [Revisions -> DispatcherIDs \cup {None}]
        /\ Rebuilding => job.rev = NextRevision /\ job.old = snap
    BY RevisionsApart DEF TypeInv, TypeOK, ServedInv, JobInv
  <1>1. ASSUME NEW p \in Programs, NEW prio \in Priorities, NEW label \in Labels,
              RebuildForAttach(p, prio, label)
       PROVE  OwnersInv'
    BY <1>1, <1>h DEF RebuildForAttach, persistent, Idle, OwnersInv, Extended, Rebuilding, Loaded, ExtLink
  <1>2. ASSUME NEW m \in snap.members, DetachExtension(m)
       PROVE  OwnersInv'
    BY <1>2, <1>h DEF DetachExtension, NoJob, Idle, OwnersInv, Extended, Rebuilding, Loaded, ExtLink
  <1>3. ASSUME NEW m \in snap.members, DetachExtensionFails(m)
       PROVE  OwnersInv'
    BY <1>3, <1>h DEF DetachExtensionFails, persistent, Idle, OwnersInv, Extended, Rebuilding, Loaded, ExtLink
  <1>4. CASE RebuildForDetach
    BY <1>4, <1>h DEF RebuildForDetach, persistent, OwnersInv, Extended, Rebuilding, Loaded, ExtLink
  <1>5. CASE LoadDispatcher
    BY <1>5, <1>h DEF LoadDispatcher, DispatchersInUse, OwnersInv, Extended, Rebuilding, Loaded, ExtLink
  <1>6. CASE LoadDispatcherFails
    BY <1>6, <1>h DEF LoadDispatcherFails, Return, persistent, OwnersInv, Extended, Rebuilding, Loaded, ExtLink
  <1>7. CASE AttachExtension
    BY <1>7, <1>h DEF AttachExtension, OwnersInv, Extended, Rebuilding, Loaded, ExtLink
  <1>8. CASE AttachExtensionFails
    <2>1. /\ pc = "ext" /\ pc' = "rollback" /\ ext' \subseteq ext \cup NewExt
          /\ UNCHANGED <<snap, prog, job, disp>>
      BY <1>8 DEF AttachExtensionFails, ExtAt
    <2>2. \A e \in NewExt : e \in ExtLink /\ e.rev = job.rev /\ e.disp = disp /\ \E s \in job.slots : e.prog = s.prog
      BY <2>1, NewExtension
    <2> QED BY <2>1, <2>2, <1>h DEF OwnersInv, Extended, Rebuilding, Loaded, ExtLink
  <1>9. CASE ExtensionsAttached
    BY <1>9, <1>h DEF ExtensionsAttached, persistent, OwnersInv, Extended, Rebuilding, Loaded, ExtLink
  <1>10. CASE CreateXDPLink
    BY <1>10, <1>h DEF CreateXDPLink, OuterLink, OwnersInv, Extended, Rebuilding, Loaded, ExtLink
  <1>11. CASE UpdateXDPDispatcherLink
    BY <1>11, <1>h DEF UpdateXDPDispatcherLink, OuterLink, OwnersInv, Extended, Rebuilding, Loaded, ExtLink
  <1>12. CASE CreateTCFilter
    BY <1>12, <1>h DEF CreateTCFilter, OwnersInv, Extended, Rebuilding, Loaded, ExtLink
  <1>13. CASE DetachOldTCFilter
    BY <1>13, <1>h DEF DetachOldTCFilter, OwnersInv, Extended, Rebuilding, Loaded, ExtLink
  <1>14. CASE DetachOldTCFilterFails
    BY <1>14, <1>h DEF DetachOldTCFilterFails, persistent, OwnersInv, Extended, Rebuilding, Loaded, ExtLink
  <1>15. CASE SwapFails
    BY <1>15, <1>h DEF SwapFails, persistent, OwnersInv, Extended, Rebuilding, Loaded, ExtLink
  <1>16. CASE ReplaceDispatcherSnapshot
    <2>1. PICK id \in LinkIDs :
            snap' = [rev |-> job.rev, disp |-> disp, handle |-> handle,
                     members |-> AsMembers(job.slots, id)]
      BY <1>16 DEF ReplaceDispatcherSnapshot
    <2>2. pc = "persist" /\ pc' = "cleanold" /\ UNCHANGED <<prog, ext, job, disp>>
      BY <1>16 DEF ReplaceDispatcherSnapshot
    <2>3. prog[job.rev] = disp /\ job.slots \in SUBSET Slot
      BY <2>2 DEF ServedInv, JobInv, Loaded, Rebuilding, TypeInv, TypeOK, Job
    <2>4. {m.prog : m \in snap'.members} = {s.prog : s \in job.slots}
      BY <2>1, <2>3, RecordedIdentities
    <2>5. snap'.disp = disp /\ snap'.rev = job.rev
      BY <2>1
    <2>6. Extended(disp) \subseteq {s.prog : s \in job.slots}
      BY <2>2 DEF OwnersInv, Loaded, Rebuilding
    <2> QED BY <2>2, <2>3, <2>4, <2>5, <2>6 DEF OwnersInv, Extended, Loaded, Rebuilding
  <1>17. CASE ReplaceDispatcherSnapshotFails
    BY <1>17, <1>h DEF ReplaceDispatcherSnapshotFails, persistent, OwnersInv, Extended, Rebuilding, Loaded, ExtLink
  <1>18. CASE RemoveOldRevision
    BY <1>18, <1>h DEF RemoveOldRevision, Return, Removing, OwnersInv, Extended, Rebuilding, Loaded, ExtLink
  <1>19. CASE RestoreXDP
    BY <1>19, <1>h DEF RestoreXDP, OuterLink, FirstAttach, OwnersInv, Extended, Rebuilding, Loaded, ExtLink
  <1>20. CASE RestoreXDPFails
    BY <1>20, <1>h DEF RestoreXDPFails, FirstAttach, Defunct, OwnersInv, Extended, Rebuilding, Loaded, ExtLink
  <1>21. CASE RestoreDeleteNewFilter
    BY <1>21, <1>h DEF RestoreDeleteNewFilter, OwnersInv, Extended, Rebuilding, Loaded, ExtLink
  <1>22. CASE RestoreOldFilter
    BY <1>22, <1>h DEF RestoreOldFilter, OwnersInv, Extended, Rebuilding, Loaded, ExtLink
  <1>23. CASE Rollback
    BY <1>23, <1>h DEF Rollback, Return, CleanedByRollback, OwnersInv, Extended, Rebuilding, Loaded, ExtLink
  <1>24. CASE TeardownDetach
    BY <1>24, <1>h DEF TeardownDetach, OwnersInv, Extended, Rebuilding, Loaded, ExtLink
  <1>25. CASE TeardownDetachFails
    BY <1>25, <1>h DEF TeardownDetachFails, Return, Defunct, OwnersInv, Extended, Rebuilding, Loaded, ExtLink
  <1>26. CASE TeardownUnpin
    BY <1>26, <1>h DEF TeardownUnpin, Removing, OwnersInv, Extended, Rebuilding, Loaded, ExtLink
  <1>27. CASE DeleteDispatcherSnapshot
    <2>1. snap' = NoSnapshot /\ snap'.disp = None /\ pc' = "idle" /\ UNCHANGED ext
      BY <1>27 DEF DeleteDispatcherSnapshot, Return, NoSnapshot
    <2>2. \A e \in ext : e.disp # None
      BY <1>h, IdAssumption DEF ExtLink, None
    <2> QED BY <2>1, <2>2 DEF OwnersInv, Extended, Loaded, Rebuilding
  <1>28. CASE DeleteDispatcherSnapshotFails
    BY <1>28, <1>h DEF DeleteDispatcherSnapshotFails, Return, persistent, OwnersInv, Extended, Rebuilding, Loaded, ExtLink
  <1>29. CASE Crash
    BY <1>29, <1>h DEF Crash, Return, persistent, OwnersInv, Extended, Rebuilding, Loaded, ExtLink
  <1>30. CASE NetnsDeleted
    BY <1>30, <1>h DEF NetnsDeleted, Defunct, OwnersInv, Extended, Rebuilding, Loaded, ExtLink
  <1>31. CASE UNCHANGED vars
    BY <1>31, <1>h DEF vars, OwnersInv, Extended, Rebuilding, Loaded, ExtLink
  <1> QED BY <1>1, <1>2, <1>3, <1>4, <1>5, <1>6, <1>7, <1>8, <1>9, <1>10, <1>11, <1>12, <1>13, <1>14, <1>15, <1>16, <1>17, <1>18, <1>19, <1>20, <1>21, <1>22, <1>23, <1>24, <1>25, <1>26, <1>27, <1>28, <1>29, <1>30, <1>31
          DEF Next, Request, Step, Environment, Quiet

\* A step that leaves the slots and the links alone.
LEMMA SlotsKeptOn ==
    ASSUME SlotsInv, UNCHANGED <<snap, job, requested>>, Rebuilding' <=> Rebuilding,
           pc' = "cleanold" <=> pc = "cleanold"
    PROVE  SlotsInv'
  BY DEF SlotsInv, LinksOf, Identities, Identity

\* A step that ends the operation has no slots any more.
LEMMA SlotsReturned ==
    ASSUME SlotsInv, UNCHANGED <<snap, requested>>, Return
    PROVE  SlotsInv'
  BY DEF SlotsInv, LinksOf, Return, NoJob, Rebuilding

\* The slots of an attach.
LEMMA AttachIdentities ==
    ASSUME TypeInv, StableInv,
           NEW p \in Programs, NEW prio \in Priorities, NEW label \in Labels,
           RebuildForAttach(p, prio, label)
    PROVE  Identities(job'.slots) =
             Identities(snap.members) \cup {[link |-> None, prog |-> p, prio |-> prio]}
  <1> DEFINE new == [link |-> None, prog |-> p, prio |-> prio, label |-> label, pos |-> 0]
  <1>0. PICK S : S = snap.members \cup {new}
    OBVIOUS
  <1>1. new \in Slot /\ snap.members \in SUBSET Slot
    BY BoundAssumption DEF Slot, Positions, TypeInv, TypeOK, Snapshot, Member
  <1>2. S \in SUBSET Slot /\ Fits(S)
    BY <1>0, <1>1, FS_AddElement DEF TypeInv, Fits, RebuildForAttach
  <1>3. OneLinkEach(S)
    <2>1. \A m \in snap.members : m.link # None
      BY IdAssumption DEF TypeInv, TypeOK, Snapshot, Member, None
    <2> QED BY <1>0, <2>1 DEF StableInv, OneLinkEach
  <1>4. PICK place \in Placements(S) :
          job' = [kind |-> "attach", link |-> None, slots |-> Placed(S, place),
                  old |-> snap, rev |-> NextRevision]
    BY <1>0 DEF RebuildForAttach
  <1>5. PICK P : P = Placed(S, place)
    OBVIOUS
  <1>6. Identities(P) = Identities(S)
    BY <1>2, <1>3, <1>4, <1>5, PlacedKeeps
  <1>7. Identities(S) = Identities(snap.members) \cup {[link |-> None, prog |-> p, prio |-> prio]}
    <2>1. Identity(new) = [link |-> None, prog |-> p, prio |-> prio]
      BY DEF Identity
    <2> QED BY <1>0, <2>1 DEF Identities
  <1>8. job'.slots = P
    BY <1>4, <1>5
  <1> QED BY <1>6, <1>7, <1>8

\* The slots of a detach.
LEMMA DetachIdentities ==
    ASSUME TypeInv, ServedInv, StableInv, RebuildForDetach, pc' = "load"
    PROVE  /\ Identities(job'.slots) = Identities({m \in snap.members : m.link # job.link})
           /\ job'.link = job.link /\ job.link \in requested
  <1>1. PICK place \in Placements(SurvivorSlots) :
          job' = [job EXCEPT !.slots = Placed(SurvivorSlots, place), !.rev = NextRevision]
    BY DEF RebuildForDetach
  <1>2. /\ job.link \in requested /\ job.link \in LinksOf(snap.members)
        /\ OneLinkEach(snap.members) /\ snap \in Snapshot /\ Fits(snap.members)
    BY DEF RebuildForDetach, StableInv, ServedInv, JobInv, TypeInv, TypeOK
  <1>3. PICK S : S = SurvivorSlots
    OBVIOUS
  <1>4. /\ Identities(S) = Identities({m \in snap.members : m.link # job.link})
        /\ OneLinkEach(S) /\ S \in SUBSET Slot /\ Fits(S)
    BY <1>2, <1>3, SurvivorSlotsKeep
  <1>5. PICK P : P = Placed(S, place)
    OBVIOUS
  <1>6. Identities(P) = Identities(S)
    BY <1>1, <1>3, <1>4, <1>5, PlacedKeeps
  <1>7. job'.slots = P /\ job'.link = job.link
    BY <1>1, <1>3, <1>5 DEF TypeInv, TypeOK, Job
  <1> QED BY <1>2, <1>4, <1>6, <1>7

\* The slots stay what the operation started with.
LEMMA SlotsInvNext ==
    ASSUME TypeInv, ServedInv, StableInv, SlotsInv, [Next]_vars
    PROVE  SlotsInv'
  <1>1. ASSUME NEW p \in Programs, NEW prio \in Priorities, NEW label \in Labels,
              RebuildForAttach(p, prio, label)
       PROVE  SlotsInv'
    <2>1. pc' = "load" /\ UNCHANGED <<snap, requested>>
      BY <1>1 DEF RebuildForAttach, persistent
    <2>2. PICK new : new = [link |-> None, prog |-> p, prio |-> prio]
      OBVIOUS
    <2>3. new \in NewLink /\ Identities(job'.slots) = Identities(snap.members) \cup {new}
      BY <1>1, <2>2, AttachIdentities DEF NewLink
    <2>4. Identities(job.slots)' = Identities(snap.members)' \cup {new}
      BY <2>1, <2>3 DEF Identities, Identity
    <2> QED BY <2>1, <2>3, <2>4 DEF SlotsInv, LinksOf, Rebuilding
  <1>2. ASSUME NEW m \in snap.members, DetachExtension(m)
       PROVE  SlotsInv'
    BY <1>2 DEF DetachExtension, Idle, NoJob, SlotsInv, LinksOf, Rebuilding
  <1>3. ASSUME NEW m \in snap.members, DetachExtensionFails(m)
       PROVE  SlotsInv'
    BY <1>3 DEF DetachExtensionFails, Idle, persistent, SlotsInv, LinksOf, Rebuilding
  <1>4. CASE RebuildForDetach
    <2>1. UNCHANGED <<snap, requested>> /\ pc = "exclude"
      BY <1>4 DEF RebuildForDetach, persistent
    <2>2. CASE SurvivorSlots = {} \/ ~netns
      <3>1. pc' = "teardown" /\ UNCHANGED job
        BY <1>4, <2>2 DEF RebuildForDetach
      <3> QED BY <2>1, <3>1, SlotsKeptOn DEF Rebuilding
    <2>3. CASE ~(SurvivorSlots = {} \/ ~netns)
      <3>1. pc' = "load"
        BY <1>4, <2>3 DEF RebuildForDetach
      <3>2. /\ Identities(job'.slots) = Identities({m \in snap.members : m.link # job.link})
            /\ job'.link = job.link /\ job.link \in requested
        BY <1>4, <3>1, DetachIdentities
      <3>3. Identities(job.slots)' = Identities({m \in snap.members : m.link # job.link})'
        BY <2>1, <3>2 DEF Identities, Identity
      <3> QED BY <2>1, <3>1, <3>2, <3>3 DEF SlotsInv, LinksOf, Rebuilding
    <2> QED BY <2>2, <2>3
  <1>5. CASE LoadDispatcher
    BY <1>5, SlotsKeptOn DEF LoadDispatcher, persistent, Rebuilding
  <1>6. CASE LoadDispatcherFails
    BY <1>6, SlotsReturned DEF LoadDispatcherFails, persistent
  <1>7. CASE AttachExtension
    BY <1>7, SlotsKeptOn DEF AttachExtension, persistent, Rebuilding
  <1>8. CASE AttachExtensionFails
    BY <1>8, SlotsKeptOn DEF AttachExtensionFails, persistent, Rebuilding
  <1>9. CASE ExtensionsAttached
    BY <1>9, SlotsKeptOn DEF ExtensionsAttached, persistent, Rebuilding
  <1>10. CASE CreateXDPLink
    BY <1>10, SlotsKeptOn DEF CreateXDPLink, persistent, Rebuilding
  <1>11. CASE UpdateXDPDispatcherLink
    BY <1>11, SlotsKeptOn DEF UpdateXDPDispatcherLink, persistent, Rebuilding
  <1>12. CASE CreateTCFilter
    BY <1>12, SlotsKeptOn DEF CreateTCFilter, persistent, Rebuilding
  <1>13. CASE DetachOldTCFilter
    BY <1>13, SlotsKeptOn DEF DetachOldTCFilter, persistent, Rebuilding
  <1>14. CASE DetachOldTCFilterFails
    BY <1>14, SlotsKeptOn DEF DetachOldTCFilterFails, persistent, Rebuilding
  <1>15. CASE SwapFails
    BY <1>15, SlotsKeptOn DEF SwapFails, persistent, Rebuilding
  <1>16. CASE ReplaceDispatcherSnapshot
    <2>1. PICK id \in LinkIDs :
            snap' = [rev |-> job.rev, disp |-> disp, handle |-> handle,
                     members |-> AsMembers(job.slots, id)]
      BY <1>16 DEF ReplaceDispatcherSnapshot
    <2>2. pc' = "cleanold" /\ requested' = requested \cap LinksOf(job.slots)
      BY <1>16 DEF ReplaceDispatcherSnapshot, LinksOf
    <2>3. job.slots \in SUBSET Slot /\ None \notin requested
      BY IdAssumption DEF TypeInv, TypeOK, Job, None
    <2>4. LinksOf(job.slots) \ {None} \subseteq LinksOf(snap'.members)
      BY <2>1, <2>3, RecordedIdentities
    <2> QED BY <2>2, <2>3, <2>4 DEF SlotsInv, LinksOf, Rebuilding
  <1>17. CASE ReplaceDispatcherSnapshotFails
    BY <1>17, SlotsKeptOn DEF ReplaceDispatcherSnapshotFails, persistent, Rebuilding
  <1>18. CASE RemoveOldRevision
    BY <1>18, SlotsReturned DEF RemoveOldRevision, persistent
  <1>19. CASE RestoreXDP
    BY <1>19, SlotsKeptOn DEF RestoreXDP, persistent, Rebuilding
  <1>20. CASE RestoreXDPFails
    BY <1>20, SlotsKeptOn DEF RestoreXDPFails, persistent, Rebuilding
  <1>21. CASE RestoreDeleteNewFilter
    BY <1>21, SlotsKeptOn DEF RestoreDeleteNewFilter, persistent, Rebuilding
  <1>22. CASE RestoreOldFilter
    BY <1>22, SlotsKeptOn DEF RestoreOldFilter, persistent, Rebuilding
  <1>23. CASE Rollback
    BY <1>23, SlotsReturned DEF Rollback, persistent
  <1>24. CASE TeardownDetach
    BY <1>24, SlotsKeptOn DEF TeardownDetach, persistent, Rebuilding
  <1>25. CASE TeardownDetachFails
    BY <1>25, SlotsReturned DEF TeardownDetachFails, persistent
  <1>26. CASE TeardownUnpin
    BY <1>26, SlotsKeptOn DEF TeardownUnpin, persistent, Rebuilding
  <1>27. CASE DeleteDispatcherSnapshot
    BY <1>27 DEF DeleteDispatcherSnapshot, Return, NoJob, NoSnapshot, SlotsInv, LinksOf, Rebuilding
  <1>28. CASE DeleteDispatcherSnapshotFails
    BY <1>28, SlotsReturned DEF DeleteDispatcherSnapshotFails, persistent
  <1>29. CASE Crash
    BY <1>29, SlotsReturned DEF Crash, persistent
  <1>30. CASE NetnsDeleted
    BY <1>30, SlotsKeptOn DEF NetnsDeleted, persistent, Rebuilding
  <1>31. CASE UNCHANGED vars
    BY <1>31, SlotsKeptOn DEF vars, persistent, Rebuilding
  <1> QED BY <1>1, <1>2, <1>3, <1>4, <1>5, <1>6, <1>7, <1>8, <1>9, <1>10, <1>11, <1>12, <1>13, <1>14, <1>15, <1>16, <1>17, <1>18, <1>19, <1>20, <1>21, <1>22, <1>23, <1>24, <1>25, <1>26, <1>27, <1>28, <1>29, <1>30, <1>31
          DEF Next, Request, Step, Environment, Quiet

\* The programs the slots without a link id ask for.
Asked(S) == {[prog |-> s.prog, prio |-> s.prio] : s \in {x \in S : x.link = None}}

\* The links of the store have ids, a slot without one is the new program.
LEMMA NewSlot ==
    ASSUME NEW S, NEW M, \A m \in M : m.link # None, NEW new, new.link = None,
           Identities(S) = Identities(M) \cup {new}
    PROVE  /\ Asked(S) = {[prog |-> new.prog, prio |-> new.prio]}
           /\ {s.prog : s \in S} \subseteq {m.prog : m \in M} \cup {new.prog}
           /\ LinksOf(M) \subseteq LinksOf(S)
  <1>1. \A x : /\ Identity(x).link = x.link /\ Identity(x).prog = x.prog
               /\ Identity(x).prio = x.prio
    BY DEF Identity
  <1>2. ASSUME NEW s \in S
        PROVE  \/ \E m \in M : s.link = m.link /\ s.prog = m.prog
               \/ s.link = None /\ s.prog = new.prog /\ s.prio = new.prio
    <2>1. Identity(s) \in Identities(M) \cup {new}
      BY DEF Identities
    <2>2. CASE Identity(s) = new
      BY <1>1, <2>2
    <2>3. CASE Identity(s) \in Identities(M)
      BY <1>1, <2>3 DEF Identities
    <2> QED BY <2>1, <2>2, <2>3
  <1>3. \E s \in S : s.link = None /\ s.prog = new.prog /\ s.prio = new.prio
    <2>1. PICK s \in S : Identity(s) = new
      BY DEF Identities
    <2> QED BY <1>1, <2>1
  <1>4. Asked(S) = {[prog |-> new.prog, prio |-> new.prio]}
    BY <1>2, <1>3 DEF Asked
  <1>5. LinksOf(M) \subseteq LinksOf(S)
    <2> SUFFICES ASSUME NEW m \in M PROVE \E s \in S : s.link = m.link
      BY DEF LinksOf
    <2>1. PICK s \in S : Identity(s) = Identity(m)
      BY DEF Identities
    <2> QED BY <1>1, <2>1
  <1> QED BY <1>2, <1>4, <1>5

\* Without such a slot there are the links and nothing else.
LEMMA NoNewSlot ==
    ASSUME NEW S, NEW M, \A m \in M : m.link # None, Identities(S) = Identities(M)
    PROVE  /\ Asked(S) = {}
           /\ {s.prog : s \in S} \subseteq {m.prog : m \in M}
           /\ LinksOf(S) = LinksOf(M)
  <1>1. \A x : Identity(x).link = x.link /\ Identity(x).prog = x.prog
    BY DEF Identity
  <1>2. \A s \in S : \E m \in M : s.link = m.link /\ s.prog = m.prog
    BY <1>1 DEF Identities
  <1>3. \A m \in M : \E s \in S : s.link = m.link
    BY <1>1 DEF Identities
  <1> QED BY <1>2, <1>3 DEF Asked, LinksOf

\* The inductive invariant behind the refinement.
PointInv == TypeInv /\ ChainInv /\ ServedInv /\ StableInv /\ DeviceInv /\ OwnersInv /\ SlotsInv

\* What the links, the new program and the running programs are.
LEMMA LinksView ==
    /\ Point!ProgramsOf({Identity(m) : m \in snap.members}) = {m.prog : m \in snap.members}
    /\ Wanted = IF pc = "cleanold" THEN {} ELSE Asked(job.slots)
  <1>1. Point!ProgramsOf({Identity(m) : m \in snap.members}) = {m.prog : m \in snap.members}
    <2>1. \A m : Identity(m).prog = m.prog
      BY DEF Identity
    <2> QED BY <2>1 DEF Point!ProgramsOf
  <1>2. Wanted = IF pc = "cleanold" THEN {} ELSE Asked(job.slots)
    BY Zenon DEF Wanted, Asked
  <1> QED BY <1>1, <1>2

\* No recorded link has the id that stands for none.
LEMMA LinksHaveIds ==
    ASSUME TypeInv
    PROVE  \A m \in snap.members : m.link # None
  BY IdAssumption DEF TypeInv, TypeOK, Snapshot, Member, None

\* Every slot is of a link or of the program being attached.
LEMMA SlotPrograms ==
    ASSUME PointInv, Rebuilding
    PROVE  {s.prog : s \in job.slots} \subseteq
             {m.prog : m \in snap.members} \cup {w.prog : w \in Wanted}
  <1>1. Wanted = Asked(job.slots)
    BY LinksView DEF Rebuilding
  <1>2. ASSUME NEW new \in NewLink, Identities(job.slots) = Identities(snap.members) \cup {new}
        PROVE  {s.prog : s \in job.slots} \subseteq
                 {m.prog : m \in snap.members} \cup {w.prog : w \in Wanted}
    <2>1. new.link = None /\ \A m \in snap.members : m.link # None
      BY LinksHaveIds DEF PointInv, NewLink
    <2>2. /\ Asked(job.slots) = {[prog |-> new.prog, prio |-> new.prio]}
          /\ {s.prog : s \in job.slots} \subseteq {m.prog : m \in snap.members} \cup {new.prog}
      BY <1>2, <2>1, NewSlot
    <2>3. new.prog \in {w.prog : w \in Wanted}
      BY <1>1, <2>2
    <2> QED BY <2>2, <2>3
  <1>3. CASE Identities(job.slots) = Identities({m \in snap.members : m.link # job.link})
    <2>1. PICK M : M = {m \in snap.members : m.link # job.link}
      OBVIOUS
    <2>2. {s.prog : s \in job.slots} \subseteq {m.prog : m \in M}
      BY <1>3, <2>1, LinksHaveIds, NoNewSlot DEF PointInv
    <2> QED BY <2>1, <2>2
  <1> QED BY <1>2, <1>3 DEF PointInv, SlotsInv

\* The recorded links nobody asked to detach run.
LEMMA PointHonoured == PointInv => Point!Honoured
  <1> SUFFICES ASSUME PointInv PROVE Point!Honoured
    OBVIOUS
  <1>1. CASE ~netns
    BY <1>1 DEF PointInv, DeviceInv, Point!Honoured, Running, HookedTo
  <1>2. CASE netns
    <2>1. SurvivorsServed
      BY ServedInvServes DEF PointInv
    <2>2. ASSUME NEW m \in snap.members, m.link \notin requested
          PROVE  m.prog \in Running
      BY <1>2, <2>1, <2>2 DEF SurvivorsServed, Served, Running, HookedTo
    <2>3. Point!ProgramsOf(Point!Kept) \subseteq Running
      BY <2>2 DEF Point!ProgramsOf, Point!Kept, Identity
    <2> QED BY <1>2, <2>3 DEF Point!Honoured
  <1> QED BY <1>1, <1>2

\* A step that records nothing and adds nothing to what runs.
LEMMA FadeStep ==
    ASSUME UNCHANGED <<snap, requested, netns>>, Running' \subseteq Running,
           Wanted' = Wanted \/ Wanted' = {}, Point!Honoured'
    PROVE  Point!Next
  <1>1. Point!Fade
    BY DEF Point!Fade, Identity
  <1> QED BY <1>1 DEF Point!Next

\* The swap of the hook.
LEMMA SwitchStep ==
    ASSUME UNCHANGED <<snap, requested, netns>>, UNCHANGED Wanted, Point!Honoured',
           Running' \subseteq {m.prog : m \in snap.members} \cup {w.prog : w \in Wanted}
    PROVE  Point!Next
  <1>1. /\ Point!ProgramsOf({Identity(m) : m \in snap.members}) = {m.prog : m \in snap.members}
        /\ Point!ProgramsOf(Wanted) = {w.prog : w \in Wanted}
    BY LinksView DEF Point!ProgramsOf
  <1>2. UNCHANGED {Identity(m) : m \in snap.members}
    BY DEF Identity
  <1>3. Point!Switch
    BY <1>1, <1>2 DEF Point!Switch
  <1> QED BY <1>3 DEF Point!Next

\* When the program being attached changes.
LEMMA WantedChange ==
    /\ Return => Wanted' = {}
    /\ UNCHANGED job /\ pc # "cleanold" /\ pc' # "cleanold" => Wanted' = Wanted
    /\ job.slots = {} => Wanted = {}
  <1>1. job.slots = {} => Wanted = {}
    BY DEF Wanted
  <1>2. Return => Wanted' = {}
    BY DEF Return, NoJob, Wanted
  <1>3. ASSUME UNCHANGED job, pc # "cleanold", pc' # "cleanold" PROVE Wanted' = Wanted
    BY <1>3 DEF Wanted
  <1> QED BY <1>1, <1>2, <1>3

\* Starting an attach is wanting a program.
LEMMA AttachIsWant ==
    ASSUME PointInv, Point!Honoured',
           NEW p \in Programs, NEW prio \in Priorities, NEW label \in Labels,
           RebuildForAttach(p, prio, label)
    PROVE  Point!Next
  <1>1. pc = "idle" /\ pc' = "load" /\ netns /\ UNCHANGED <<snap, ext, hooks, netns, requested>>
    BY DEF RebuildForAttach, Idle, persistent
  <1>2. Wanted = {}
    BY <1>1, WantedChange DEF PointInv, SlotsInv, Rebuilding
  <1>3. PICK new : new = [link |-> None, prog |-> p, prio |-> prio]
    OBVIOUS
  <1>4. Identities(job'.slots) = Identities(snap.members) \cup {new}
    BY <1>3, AttachIdentities DEF PointInv
  <1>5. new.link = None /\ new.prog = p /\ new.prio = prio
    BY <1>3
  <1>6. Asked(job'.slots) = {[prog |-> new.prog, prio |-> new.prio]}
    <2>1. \A m \in snap.members : m.link # None
      BY LinksHaveIds DEF PointInv
    <2> QED BY <1>4, <1>5, <2>1, NewSlot
  <1>7. Wanted' = {[prog |-> p, prio |-> prio]}
    BY <1>1, <1>5, <1>6 DEF Wanted, Asked
  <1>8. UNCHANGED Running /\ UNCHANGED {Identity(m) : m \in snap.members}
    BY <1>1 DEF Running, HookedTo, Identity
  <1>9. Point!Want(p, prio)
    BY <1>1, <1>2, <1>7, <1>8 DEF Point!Want
  <1> QED BY <1>9 DEF Point!Next

\* A client asks, whether the pin of its extension goes or not.
LEMMA DetachIsAsk ==
    ASSUME PointInv, Point!Honoured', NEW m \in snap.members,
           DetachExtension(m) \/ DetachExtensionFails(m)
    PROVE  Point!Next
  <1>1. /\ pc = "idle" /\ UNCHANGED <<snap, hooks, netns>>
        /\ requested' = requested \cup {m.link} /\ ext' \subseteq ext
    BY DEF DetachExtension, DetachExtensionFails, Idle, persistent
  <1>2. job.slots = {} /\ job'.slots = {}
    BY <1>1 DEF PointInv, SlotsInv, Rebuilding, DetachExtension, DetachExtensionFails, NoJob
  <1>3. Wanted = {} /\ Wanted' = {}
    BY <1>2 DEF Wanted
  <1>4. Running' \subseteq Running
    BY <1>1 DEF Running, HookedTo
  <1>5. PICK k : k = Identity(m)
    OBVIOUS
  <1>6. k \in {Identity(x) : x \in snap.members} /\ k.link = m.link
    BY <1>5 DEF Identity
  <1>7. UNCHANGED {Identity(x) : x \in snap.members}
    BY <1>1 DEF Identity
  <1>8. Point!Ask(k)
    BY <1>1, <1>3, <1>4, <1>6, <1>7 DEF Point!Ask
  <1> QED BY <1>6, <1>8 DEF Point!Next

\* The device runs exactly the slots when they are recorded.
LEMMA ExactAtCommit ==
    ASSUME PointInv, pc = "persist", netns
    PROVE  Running = {s.prog : s \in job.slots}
  <1>1. HookedTo(disp) /\ \A h \in hooks : h.disp = disp
    BY DEF PointInv, ServedInv, AttachedInv, DeviceInv
  <1>2. Running = Extended(disp)
    BY <1>1 DEF Running, Extended, HookedTo
  <1>3. Extended(disp) \subseteq {s.prog : s \in job.slots}
    BY DEF PointInv, OwnersInv, Loaded, Rebuilding
  <1>4. ASSUME NEW s \in job.slots PROVE s.prog \in Extended(disp)
    <2>1. [rev |-> job.rev, pos |-> s.pos, disp |-> disp, prog |-> s.prog] \in ext
      BY DEF PointInv, ServedInv, AttachedInv
    <2> QED BY <2>1 DEF Extended
  <1> QED BY <1>2, <1>3, <1>4

\* Pins that go and hooks that die take programs away and add none.
LEMMA RunningFades ==
    ASSUME ext' \subseteq ext, \A h \in hooks' : h.live => h \in hooks
    PROVE  Running' \subseteq Running
  BY DEF Running, HookedTo

\* A link detached from the device runs nothing.
LEMMA DefunctRunsNothing == ASSUME hooks \subseteq Hook PROVE \A h \in Defunct(hooks) : ~h.live
  BY DEF Defunct, Hook

\* What the store holds after the commit.
LEMMA CommitView ==
    ASSUME PointInv, ReplaceDispatcherSnapshot
    PROVE  /\ pc = "persist" /\ UNCHANGED <<ext, hooks, netns>> /\ Wanted' = {}
           /\ UNCHANGED Running
           /\ requested' = requested \cap LinksOf(job.slots)
           /\ Point!Exact'
           /\ \E id \in LinkIDs \ LinksOf(snap.members) :
                Identities(snap.members)' =
                  {[link |-> IF s.link = None THEN id ELSE s.link, prog |-> s.prog, prio |-> s.prio] :
                     s \in job.slots}
  <1>1. PICK id \in LinkIDs \ LinksOf(snap.members) :
          snap' = [rev |-> job.rev, disp |-> disp, handle |-> handle,
                   members |-> AsMembers(job.slots, id)]
    BY DEF ReplaceDispatcherSnapshot, LinksOf
  <1>2. /\ pc = "persist" /\ pc' = "cleanold" /\ UNCHANGED <<ext, hooks, netns>>
        /\ requested' = requested \cap LinksOf(job.slots)
    BY DEF ReplaceDispatcherSnapshot, LinksOf
  <1>3. Wanted' = {} /\ UNCHANGED Running
    BY <1>2 DEF Wanted, Running, HookedTo
  <1>4. job.slots \in SUBSET Slot
    BY DEF PointInv, TypeInv, TypeOK, Job
  <1>5. PICK M : M = AsMembers(job.slots, id)
    OBVIOUS
  <1>6. snap'.members = M
    BY <1>1, <1>5
  <1>7. /\ Identities(M) =
             {[link |-> IF s.link = None THEN id ELSE s.link, prog |-> s.prog, prio |-> s.prio] :
                s \in job.slots}
        /\ {m.prog : m \in M} = {s.prog : s \in job.slots}
    BY <1>4, <1>5, RecordedIdentities
  <1>8. Identities(snap.members)' = Identities(M)
    BY <1>6 DEF Identities, Identity
  <1>9. Point!Exact'
    <2>1. netns' => Running' = {m.prog : m \in snap'.members}
      BY <1>2, <1>3, <1>6, <1>7, ExactAtCommit
    <2>2. \A m : Identity(m).prog = m.prog
      BY DEF Identity
    <2>3. Point!ProgramsOf({Identity(m) : m \in snap'.members}) = {m.prog : m \in snap'.members}
      BY <2>2 DEF Point!ProgramsOf
    <2>4. {Identity(m) : m \in snap.members}' = {Identity(m) : m \in snap'.members}
      BY DEF Identity
    <2> QED BY <2>1, <2>3, <2>4 DEF Point!Exact, Point!ProgramsOf, Identity
  <1> QED BY <1>2, <1>3, <1>7, <1>8, <1>9

\* The commit of an attach records the new link.
LEMMA CommitIsRecord ==
    ASSUME PointInv, Point!Honoured', ReplaceDispatcherSnapshot, NEW new \in NewLink,
           Identities(job.slots) = Identities(snap.members) \cup {new}
    PROVE  Point!Next
  <1>1. /\ pc = "persist" /\ UNCHANGED <<ext, hooks, netns>> /\ Wanted' = {} /\ UNCHANGED Running
        /\ requested' = requested \cap LinksOf(job.slots) /\ Point!Exact'
    BY CommitView
  <1>2. PICK id \in LinkIDs \ LinksOf(snap.members) :
                Identities(snap.members)' =
                  {[link |-> IF s.link = None THEN id ELSE s.link, prog |-> s.prog, prio |-> s.prio] :
                     s \in job.slots}
    BY CommitView
  <1>3. new.link = None /\ \A m \in snap.members : m.link # None
    BY LinksHaveIds DEF PointInv, NewLink
  <1>4. /\ Asked(job.slots) = {[prog |-> new.prog, prio |-> new.prio]}
        /\ LinksOf(snap.members) \subseteq LinksOf(job.slots)
    BY <1>3, NewSlot
  <1>5. Wanted = {[prog |-> new.prog, prio |-> new.prio]}
    BY <1>1, <1>4, LinksView
  <1>6. UNCHANGED requested
    BY <1>1, <1>4 DEF PointInv, SlotsInv
  <1>7. PICK rec : rec = [link |-> id, prog |-> new.prog, prio |-> new.prio]
    OBVIOUS
  <1>8. Identities(snap.members)' = Identities(snap.members) \cup {rec}
    <2> DEFINE g(s) == [link |-> IF s.link = None THEN id ELSE s.link, prog |-> s.prog, prio |-> s.prio]
    <2>1. ASSUME NEW s \in job.slots
          PROVE  /\ Identity(s) = new => g(s) = rec
                 /\ Identity(s) \in Identities(snap.members) => g(s) = Identity(s)
      <3>1. CASE Identity(s) = new
        <4>1. s.link = None /\ s.prog = new.prog /\ s.prio = new.prio
          BY <1>3, <3>1 DEF Identity
        <4>2. Identity(s) \notin Identities(snap.members)
          BY <1>3, <3>1 DEF Identities, Identity
        <4> QED BY <1>7, <4>1, <4>2
      <3>2. CASE Identity(s) \in Identities(snap.members)
        <4>1. PICK m \in snap.members : Identity(s) = Identity(m)
          BY <3>2 DEF Identities
        <4>2. s.link # None
          BY <1>3, <4>1 DEF Identity
        <4>3. Identity(s) # new
          BY <1>3, <4>2 DEF Identity
        <4> QED BY <4>2, <4>3 DEF Identity
      <3> QED BY <3>1, <3>2
    <2>2. \A s \in job.slots : Identity(s) = new \/ Identity(s) \in Identities(snap.members)
      BY DEF Identities
    <2>3. (\E s \in job.slots : Identity(s) = new)
          /\ \A i \in Identities(snap.members) : \E s \in job.slots : Identity(s) = i
      BY DEF Identities
    <2>4. Identities(snap.members)' = {g(s) : s \in job.slots}
      BY <1>2
    <2> HIDE DEF g
    <2> QED BY <2>1, <2>2, <2>3, <2>4
  <1>9. Point!Record(id)
    <2>1. id \notin {k.link : k \in {Identity(m) : m \in snap.members}}
      BY <1>2 DEF LinksOf, Identity
    <2>2. PICK w : w = [prog |-> new.prog, prio |-> new.prio]
      OBVIOUS
    <2>3. w \in Wanted /\ rec = [link |-> id, prog |-> w.prog, prio |-> w.prio]
      BY <1>5, <1>7, <2>2
    <2>4. {Identity(m) : m \in snap.members}' = {Identity(m) : m \in snap.members} \cup {rec}
      BY <1>8 DEF Identities
    <2> QED BY <1>1, <1>6, <2>1, <2>3, <2>4 DEF Point!Record
  <1> QED BY <1>9 DEF Point!Next

\* The commit of a detach forgets the link.
LEMMA CommitIsDrop ==
    ASSUME PointInv, Point!Honoured', ReplaceDispatcherSnapshot, job.link \in requested,
           Identities(job.slots) = Identities({m \in snap.members : m.link # job.link})
    PROVE  Point!Next
  <1>1. /\ pc = "persist" /\ UNCHANGED <<ext, hooks, netns>> /\ Wanted' = {} /\ UNCHANGED Running
        /\ requested' = requested \cap LinksOf(job.slots) /\ Point!Exact'
    BY CommitView
  <1>2. PICK id \in LinkIDs \ LinksOf(snap.members) :
                Identities(snap.members)' =
                  {[link |-> IF s.link = None THEN id ELSE s.link, prog |-> s.prog, prio |-> s.prio] :
                     s \in job.slots}
    BY CommitView
  <1>3. \A m \in snap.members : m.link # None
    BY LinksHaveIds DEF PointInv
  <1>4. PICK M : M = {m \in snap.members : m.link # job.link}
    OBVIOUS
  <1>5. Asked(job.slots) = {} /\ LinksOf(job.slots) = LinksOf(M)
    <2>1. (\A m \in M : m.link # None) /\ Identities(job.slots) = Identities(M)
      BY <1>3, <1>4
    <2> QED BY <2>1, NoNewSlot
  <1>6. Wanted = {}
    BY <1>1, <1>5, LinksView
  <1>7. PICK d \in snap.members : d.link = job.link
    BY DEF PointInv, SlotsInv, LinksOf
  <1>8. LinksOf(M) = LinksOf(snap.members) \ {job.link}
    BY <1>4 DEF LinksOf
  <1>9. requested' = requested \ {job.link}
    BY <1>1, <1>5, <1>8 DEF PointInv, SlotsInv
  <1>10. Identities(snap.members)' = Identities(job.slots)
    <2>1. \A s \in job.slots : s.link # None
      BY <1>5 DEF Asked
    <2> QED BY <1>2, <2>1 DEF Identities, Identity
  <1>11. Identities(M) = Identities(snap.members) \ {Identity(d)}
    <2>1. M = snap.members \ {d}
      BY <1>4, <1>7 DEF PointInv, StableInv, OneLinkEach
    <2>2. \A m \in M : Identity(m) # Identity(d)
      BY <1>4, <1>7 DEF Identity
    <2> QED BY <2>1, <2>2 DEF Identities
  <1>12. PICK k : k = Identity(d)
    OBVIOUS
  <1>13. k \in {Identity(m) : m \in snap.members} /\ k.link = job.link
    BY <1>7, <1>12 DEF Identity
  <1>14. {Identity(m) : m \in snap.members}' = {Identity(m) : m \in snap.members} \ {k}
    BY <1>4, <1>10, <1>11, <1>12 DEF Identities
  <1>15. Point!Drop(k)
    BY <1>1, <1>6, <1>9, <1>13, <1>14 DEF Point!Drop
  <1> QED BY <1>13, <1>15 DEF Point!Next

\* The row is deleted when nothing runs and nobody is to be served.
LEMMA DeleteIsClear ==
    ASSUME PointInv, Point!Honoured', DeleteDispatcherSnapshot
    PROVE  Point!Next
  <1>1. /\ pc = "delsnap" /\ snap' = NoSnapshot /\ requested' = {} /\ Return
        /\ UNCHANGED <<ext, hooks, netns>>
    BY DEF DeleteDispatcherSnapshot
  <1>2. Running = {} /\ Running' = {}
    BY <1>1 DEF PointInv, DeviceInv, Running, HookedTo
  <1>3. Wanted = {} /\ Wanted' = {}
    BY <1>1, WantedChange DEF PointInv, SlotsInv, Rebuilding
  <1>4. netns => Point!Kept = {}
    BY <1>1 DEF PointInv, ServedInv, JobInv, Survivor, Point!Kept, Identity
  <1>5. {Identity(m) : m \in snap.members}' = {}
    BY <1>1 DEF NoSnapshot
  <1>6. Point!Clear
    BY <1>1, <1>2, <1>3, <1>4, <1>5 DEF Point!Clear
  <1> QED BY <1>6 DEF Point!Next

\* The namespace goes.
LEMMA NetnsIsDown ==
    ASSUME PointInv, Point!Honoured', NetnsDeleted, Kind = "xdp"
    PROVE  Point!Next
  <1>1. netns' = FALSE /\ hooks' = Defunct(hooks) /\ UNCHANGED <<snap, ext, pc, job, requested>>
    BY DEF NetnsDeleted
  <1>2. Running' = {}
    BY <1>1 DEF PointInv, TypeInv, TypeOK, Hook, Defunct, Running, HookedTo
  <1>3. UNCHANGED Wanted /\ UNCHANGED {Identity(m) : m \in snap.members}
    BY <1>1 DEF Wanted, Identity
  <1>4. Point!Down
    BY <1>1, <1>2, <1>3 DEF Point!Down
  <1> QED BY <1>4 DEF Point!Next

\* Every step of the dispatcher is a step of the attach point.
LEMMA PointStep ==
    ASSUME Kind = "xdp", PointInv, Point!Honoured', [Next]_vars
    PROVE  Point!Next
  <1>h. /\ hooks \subseteq Hook /\ pc \notin {"delold", "delnew", "readdold"}
        /\ pc \in {"ext", "swap"} => \A h \in hooks : h.disp # disp
    BY DEF PointInv, TypeInv, TypeOK, ServedInv, DeviceInv
  <1>1. ASSUME NEW p \in Programs, NEW prio \in Priorities, NEW label \in Labels,
              RebuildForAttach(p, prio, label)
       PROVE  Point!Next
    BY <1>1, AttachIsWant
  <1>2. ASSUME NEW m \in snap.members, DetachExtension(m)
       PROVE  Point!Next
    BY <1>2, DetachIsAsk
  <1>3. ASSUME NEW m \in snap.members, DetachExtensionFails(m)
       PROVE  Point!Next
    BY <1>3, DetachIsAsk
  <1>4. CASE RebuildForDetach
    <2>1. pc = "exclude" /\ UNCHANGED <<snap, requested, netns, ext, hooks>>
          /\ ((UNCHANGED job /\ pc' = "teardown") \/ pc' = "load")
      BY <1>4 DEF RebuildForDetach, persistent
    <2>2. UNCHANGED Running
      BY <2>1 DEF Running, HookedTo
    <2>3. CASE UNCHANGED job /\ pc' = "teardown"
      <3>1. Wanted' = Wanted
        BY <2>1, <2>3, WantedChange
      <3> QED BY <2>1, <2>2, <3>1, FadeStep
    <2>4. CASE pc' = "load"
      <3>1. Identities(job'.slots) = Identities({m \in snap.members : m.link # job.link})
        BY <1>4, <2>4, DetachIdentities DEF PointInv
      <3>2. PICK M : M = {m \in snap.members : m.link # job.link}
        OBVIOUS
      <3>3. \A m \in M : m.link # None
        BY <3>2, LinksHaveIds DEF PointInv
      <3>4. Asked(job'.slots) = {}
        BY <3>1, <3>2, <3>3, NoNewSlot
      <3>5. Wanted' = {}
        BY <2>4, <3>4 DEF Wanted, Asked
      <3> QED BY <2>1, <2>2, <3>5, FadeStep
    <2> QED BY <2>1, <2>3, <2>4
  <1>5. CASE LoadDispatcher
    <2>1. UNCHANGED <<snap, requested, netns>> /\ Running' \subseteq Running
      BY <1>5, <1>h DEF LoadDispatcher, persistent, Running, HookedTo
    <2>2. Wanted' = Wanted
      BY <1>5, WantedChange DEF LoadDispatcher, persistent
    <2> QED BY <2>1, <2>2, FadeStep
  <1>6. CASE LoadDispatcherFails
    <2>1. UNCHANGED <<snap, requested, netns>> /\ Running' \subseteq Running
      BY <1>6, <1>h DEF LoadDispatcherFails, persistent, Running, HookedTo
    <2>2. Wanted' = {}
      BY <1>6, WantedChange DEF LoadDispatcherFails
    <2> QED BY <2>1, <2>2, FadeStep
  <1>7. CASE AttachExtension
    <2>1. UNCHANGED <<snap, requested, netns>> /\ Running' \subseteq Running
      BY <1>7, <1>h DEF AttachExtension, persistent, Running, HookedTo
    <2>2. Wanted' = Wanted
      BY <1>7, WantedChange DEF AttachExtension, persistent
    <2> QED BY <2>1, <2>2, FadeStep
  <1>8. CASE AttachExtensionFails
    <2>1. UNCHANGED <<snap, requested, netns>> /\ Running' \subseteq Running
      <3>1. /\ pc = "ext" /\ ext' \subseteq ext \cup NewExt
            /\ UNCHANGED <<snap, requested, netns, hooks>>
        BY <1>8 DEF AttachExtensionFails, ExtAt
      <3>2. \A e \in NewExt : e.disp = disp
        BY <3>1, NewExtension DEF PointInv
      <3> QED BY <3>1, <3>2, <1>h DEF Running, HookedTo
    <2>2. Wanted' = Wanted
      BY <1>8, WantedChange DEF AttachExtensionFails, persistent
    <2> QED BY <2>1, <2>2, FadeStep
  <1>9. CASE ExtensionsAttached
    <2>1. UNCHANGED <<snap, requested, netns>> /\ Running' \subseteq Running
      BY <1>9, <1>h DEF ExtensionsAttached, persistent, Running, HookedTo
    <2>2. Wanted' = Wanted
      BY <1>9, WantedChange DEF ExtensionsAttached, persistent
    <2> QED BY <2>1, <2>2, FadeStep
  <1>10. CASE CreateXDPLink
    <2>1. /\ pc = "swap" /\ pc' = "persist" /\ hooks' = {OuterLink(disp)}
          /\ UNCHANGED <<snap, ext, netns, job, requested>>
      BY <1>10 DEF CreateXDPLink
    <2>2. UNCHANGED Wanted
      BY <2>1, WantedChange
    <2>3. Running' = Extended(disp)
      BY <2>1 DEF Running, HookedTo, Extended, OuterLink
    <2>4. Running' \subseteq {m.prog : m \in snap.members} \cup {w.prog : w \in Wanted}
      BY <2>1, <2>3, SlotPrograms DEF PointInv, OwnersInv, Loaded, Rebuilding
    <2> QED BY <2>1, <2>2, <2>4, SwitchStep
  <1>11. CASE UpdateXDPDispatcherLink
    <2>1. /\ pc = "swap" /\ pc' = "persist" /\ hooks' = {OuterLink(disp)}
          /\ UNCHANGED <<snap, ext, netns, job, requested>>
      BY <1>11 DEF UpdateXDPDispatcherLink
    <2>2. UNCHANGED Wanted
      BY <2>1, WantedChange
    <2>3. Running' = Extended(disp)
      BY <2>1 DEF Running, HookedTo, Extended, OuterLink
    <2>4. Running' \subseteq {m.prog : m \in snap.members} \cup {w.prog : w \in Wanted}
      BY <2>1, <2>3, SlotPrograms DEF PointInv, OwnersInv, Loaded, Rebuilding
    <2> QED BY <2>1, <2>2, <2>4, SwitchStep
  <1>12. CASE CreateTCFilter
    BY <1>12, <1>h DEF CreateTCFilter
  <1>13. CASE DetachOldTCFilter
    BY <1>13, <1>h DEF DetachOldTCFilter
  <1>14. CASE DetachOldTCFilterFails
    BY <1>14, <1>h DEF DetachOldTCFilterFails
  <1>15. CASE SwapFails
    <2>1. UNCHANGED <<snap, requested, netns>> /\ Running' \subseteq Running
      BY <1>15, <1>h DEF SwapFails, persistent, Running, HookedTo
    <2>2. Wanted' = Wanted
      BY <1>15, WantedChange DEF SwapFails, persistent
    <2> QED BY <2>1, <2>2, FadeStep
  <1>16. CASE ReplaceDispatcherSnapshot
    <2>1. Rebuilding
      BY <1>16 DEF ReplaceDispatcherSnapshot, Rebuilding
    <2> QED BY <1>16, <2>1, CommitIsRecord, CommitIsDrop DEF PointInv, SlotsInv
  <1>17. CASE ReplaceDispatcherSnapshotFails
    <2>1. UNCHANGED <<snap, requested, netns>> /\ Running' \subseteq Running
      BY <1>17, <1>h DEF ReplaceDispatcherSnapshotFails, persistent, Running, HookedTo
    <2>2. Wanted' = Wanted
      BY <1>17, WantedChange DEF ReplaceDispatcherSnapshotFails, persistent
    <2> QED BY <2>1, <2>2, FadeStep
  <1>18. CASE RemoveOldRevision
    <2>1. UNCHANGED <<snap, requested, netns>> /\ Running' \subseteq Running
      BY <1>18, <1>h DEF RemoveOldRevision, Removing, persistent, Running, HookedTo
    <2>2. Wanted' = {}
      BY <1>18, WantedChange DEF RemoveOldRevision
    <2> QED BY <2>1, <2>2, FadeStep
  <1>19. CASE RestoreXDP
    <2>1. pc = "restore" /\ pc' = "rollback" /\ UNCHANGED <<snap, ext, netns, job, requested>>
      BY <1>19 DEF RestoreXDP
    <2>2. UNCHANGED Wanted
      BY <2>1, WantedChange
    <2>3. job.old = snap
      BY <2>1 DEF PointInv, ServedInv, JobInv, Rebuilding
    <2>4. CASE FirstAttach /\ hooks' = {}
      <3>1. Running' = {}
        BY <2>4 DEF Running, HookedTo
      <3> QED BY <2>1, <2>2, <3>1, FadeStep
    <2>5. CASE ~FirstAttach /\ prog[job.old.rev] # None /\ hooks' = {OuterLink(prog[job.old.rev])}
      <3>1. prog[snap.rev] = snap.disp
        BY <2>3, <2>5 DEF PointInv, OwnersInv, FirstAttach
      <3>2. hooks' = {OuterLink(snap.disp)}
        BY <2>3, <2>5, <3>1
      <3>3. Running' = Extended(snap.disp)
        BY <2>1, <3>2 DEF Running, HookedTo, Extended, OuterLink
      <3>4. Running' \subseteq {m.prog : m \in snap.members}
        BY <3>3 DEF PointInv, OwnersInv
      <3> QED BY <2>1, <2>2, <3>4, SwitchStep
    <2> QED BY <1>19, <2>4, <2>5 DEF RestoreXDP
  <1>20. CASE RestoreXDPFails
    <2>1. UNCHANGED <<snap, requested, netns>> /\ ext' \subseteq ext
      BY <1>20 DEF RestoreXDPFails
    <2>2. \A h \in hooks' : h.live => h \in hooks
      BY <1>20, <1>h, DefunctRunsNothing DEF RestoreXDPFails
    <2>3. Wanted' = Wanted
      BY <1>20, WantedChange DEF RestoreXDPFails, persistent
    <2> QED BY <2>1, <2>2, <2>3, RunningFades, FadeStep
  <1>21. CASE RestoreDeleteNewFilter
    BY <1>21, <1>h DEF RestoreDeleteNewFilter
  <1>22. CASE RestoreOldFilter
    BY <1>22, <1>h DEF RestoreOldFilter
  <1>23. CASE Rollback
    <2>1. UNCHANGED <<snap, requested, netns>> /\ ext' \subseteq ext
      BY <1>23 DEF Rollback, CleanedByRollback
    <2>2. \A h \in hooks' : h.live => h \in hooks
      BY <1>23 DEF Rollback
    <2>3. Wanted' = {}
      BY <1>23, WantedChange DEF Rollback
    <2> QED BY <2>1, <2>2, <2>3, RunningFades, FadeStep
  <1>24. CASE TeardownDetach
    <2>1. UNCHANGED <<snap, requested, netns>> /\ Running' \subseteq Running
      BY <1>24, <1>h DEF TeardownDetach, persistent, Running, HookedTo
    <2>2. Wanted' = Wanted
      BY <1>24, WantedChange DEF TeardownDetach, persistent
    <2> QED BY <2>1, <2>2, FadeStep
  <1>25. CASE TeardownDetachFails
    <2>1. UNCHANGED <<snap, requested, netns>> /\ ext' \subseteq ext
      BY <1>25 DEF TeardownDetachFails
    <2>2. \A h \in hooks' : h.live => h \in hooks
      BY <1>25, <1>h, DefunctRunsNothing DEF TeardownDetachFails
    <2>3. Wanted' = {}
      BY <1>25, WantedChange DEF TeardownDetachFails
    <2> QED BY <2>1, <2>2, <2>3, RunningFades, FadeStep
  <1>26. CASE TeardownUnpin
    <2>1. UNCHANGED <<snap, requested, netns>> /\ Running' \subseteq Running
      BY <1>26, <1>h DEF TeardownUnpin, Removing, persistent, Running, HookedTo
    <2>2. Wanted' = Wanted
      BY <1>26, WantedChange DEF TeardownUnpin, persistent
    <2> QED BY <2>1, <2>2, FadeStep
  <1>27. CASE DeleteDispatcherSnapshot
    BY <1>27, DeleteIsClear
  <1>28. CASE DeleteDispatcherSnapshotFails
    <2>1. UNCHANGED <<snap, requested, netns>> /\ Running' \subseteq Running
      BY <1>28, <1>h DEF DeleteDispatcherSnapshotFails, persistent, Running, HookedTo
    <2>2. Wanted' = {}
      BY <1>28, WantedChange DEF DeleteDispatcherSnapshotFails
    <2> QED BY <2>1, <2>2, FadeStep
  <1>29. CASE Crash
    <2>1. UNCHANGED <<snap, requested, netns>> /\ Running' \subseteq Running
      BY <1>29, <1>h DEF Crash, persistent, Running, HookedTo
    <2>2. Wanted' = {}
      BY <1>29, WantedChange DEF Crash
    <2> QED BY <2>1, <2>2, FadeStep
  <1>30. CASE NetnsDeleted
    BY <1>30, NetnsIsDown
  <1>31. CASE UNCHANGED vars
    <2>1. UNCHANGED <<snap, requested, netns, ext, hooks, pc, job>>
      BY <1>31 DEF vars
    <2>2. UNCHANGED Running /\ UNCHANGED Wanted
      BY <2>1 DEF Running, HookedTo, Wanted
    <2> QED BY <2>1, <2>2, FadeStep
  <1> QED BY <1>1, <1>2, <1>3, <1>4, <1>5, <1>6, <1>7, <1>8, <1>9, <1>10, <1>11, <1>12, <1>13, <1>14, <1>15, <1>16, <1>17, <1>18, <1>19, <1>20, <1>21, <1>22, <1>23, <1>24, <1>25, <1>26, <1>27, <1>28, <1>29, <1>30, <1>31
          DEF Next, Request, Step, Environment, Quiet

\* The invariant holds of every behaviour of an XDP dispatcher.
LEMMA PointInvAlways ==
    ASSUME Kind = "xdp", "rollback" \notin Faults
    PROVE  Spec => []PointInv
  <1>1. Init => PointInv
    <2>1. ASSUME Init PROVE DeviceInv /\ OwnersInv /\ SlotsInv
      BY <2>1 DEF Init, DeviceInv, OwnersInv, SlotsInv, Extended, LinksOf, NoSnapshot, NoJob,
         Rebuilding, Loaded
    <2> QED BY <2>1, TypeInvInit, ServedInvInit, StableInvInit DEF PointInv
  <1>2. PointInv /\ [Next]_vars => PointInv'
    BY TypeInvNext, ServedInvNext, StableInvNext, DeviceInvNext, OwnersInvNext, SlotsInvNext
       DEF PointInv
  <1> QED BY <1>1, <1>2, PTL DEF Spec

\* An XDP dispatcher implements the attach point: whatever calls fail and
\* wherever the process dies, as long as the rollback's own calls work, every
\* step of a rebuild, rollback or teardown is one a client may see there.
THEOREM XDPImplementsAttachPoint ==
    ASSUME Kind = "xdp", "rollback" \notin Faults
    PROVE  Spec => ImplementsAttachPoint
  <1>1. Init => Point!Init
    BY DEF Init, NoSnapshot, NoJob, Point!Init, Wanted, Running
  <1>2. PointInv => Point!Honoured
    BY PointHonoured
  <1>3. PointInv /\ Point!Honoured' /\ [Next]_vars => [Point!Next]_(Point!point)
    BY PointStep
  <1> QED BY <1>1, <1>2, <1>3, PointInvAlways, PTL DEF Spec, ImplementsAttachPoint, Point!Spec

=============================================================================
