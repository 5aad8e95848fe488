----------------------------- MODULE Dispatcher -----------------------------
(***************************************************************************)
(* The life of one dispatcher: the program bpfman loads at an attach point *)
(* (an interface, for XDP; an interface and a direction, for TC) so that   *)
(* several user programs can share it.  Each user program is a freplace    *)
(* extension of one slot of the dispatcher.  Attaching or detaching a user *)
(* program never edits the dispatcher in place: a new REVISION is loaded,  *)
(* every surviving extension is attached to it, the hook is swapped to it, *)
(* and only then is the new membership written to the store.               *)
(*                                                                         *)
(* The module models the four rebuild functions and the teardown of        *)
(* manager/executor_dispatcher.go at the granularity of the kernel, bpffs  *)
(* and store calls they make.  Every call may fail (each failure class is  *)
(* an element of Faults) and the process may die between any two of them.  *)
(* All of it runs under the cross-process writer lock (see WriterLock), so *)
(* one rebuild is in progress at a time.                                   *)
(***************************************************************************)
EXTENDS Naturals, FiniteSets

CONSTANTS
    Kind,           \* "xdp" or "tc"
    Programs,       \* kernel ids of the loaded user programs
    NameOf,         \* program -> rank of its name in the string order
    Priorities,     \* the link priorities clients ask for
    Labels,         \* the link metadata clients give
    MaxPrograms,    \* dispatcher.MaxPrograms: the slots of a dispatcher
    RevisionMax,    \* the largest value of the revision counter (uint32)
    RevisionBound,  \* bound: clients make no new request at this revision
    DispatcherIDs,  \* kernel program ids the kernel hands to dispatchers
    Handles,        \* filter handles the kernel hands out (TC)
    LinkIDs,        \* ids of the rows of the links table
    Faults          \* the failures that may happen

FaultKinds ==
    {"load", "ext", "swap", "echo", "delfilter", "persist", "detach", "cleanup",
     "forget", "rollback", "crash", "netns"}

ASSUME KindAssumption   == Kind \in {"xdp", "tc"}
ASSUME FaultsAssumption == Faults \subseteq FaultKinds
ASSUME BoundAssumption  ==
    /\ MaxPrograms \in Nat \ {0}
    /\ RevisionMax \in Nat \ {0}
    /\ RevisionBound \in Nat \ {0}
ASSUME IdAssumption ==
    /\ 0 \notin DispatcherIDs
    /\ Handles \subseteq Nat \ {0}
    /\ 0 \notin LinkIDs
    /\ IsFiniteSet(LinkIDs) /\ Cardinality(LinkIDs) > MaxPrograms
ASSUME SlotAssumption ==
    /\ Priorities \subseteq Nat
    /\ NameOf \in [Programs -> Nat]
    /\ "none" \in Labels

VARIABLES
    snap,       \* store: the dispatcher row and its member links
    prog,       \* bpffs: the dispatcher program pinned in each revision dir
    ext,        \* bpffs: the pinned extension (freplace) links
    hooks,      \* kernel: the XDP outer link, or the TC filters
    netns,      \* does the network namespace of the interface exist
    pc,         \* where the rebuild in progress is
    job,        \* what it is doing
    disp,       \* the dispatcher program it loaded
    done,       \* how many extensions it has attached
    handle,     \* the filter handle it was given (TC)
    requested   \* history: links a client asked to detach, still in the store

persistent == <<snap, prog, ext, hooks>>
vars == <<snap, prog, ext, hooks, netns, pc, job, disp, done, handle, requested>>

None      == 0                  \* no program, no link, no handle
Revisions == 0..RevisionMax
Positions == 0..(MaxPrograms - 1)

(***************************************************************************)
(* A slot of a rebuild.  link is None for the program being attached: the  *)
(* store allocates its id when the snapshot is replaced.  A member row of  *)
(* the snapshot is a slot that has its id.                                 *)
(***************************************************************************)
Slot == [link: LinkIDs \cup {None}, prog: Programs, prio: Priorities,
         label: Labels, pos: Positions]
Member == [link: LinkIDs, prog: Programs, prio: Priorities,
           label: Labels, pos: Positions]

Snapshot == [rev: Revisions, disp: DispatcherIDs \cup {None},
             handle: Handles \cup {None}, members: SUBSET Member]

\* The dispatchers table has no row: its CHECK (revision >= 1) leaves 0 free.
NoSnapshot == [rev |-> 0, disp |-> None, handle |-> None, members |-> {}]

ExtLink == [rev: Revisions, pos: Positions, disp: DispatcherIDs, prog: Programs]

\* An XDP outer link has handle None; live is FALSE once it was detached from
\* the device but its pin is still there.  A TC filter is always live.
Hook == [handle: Handles \cup {None}, disp: DispatcherIDs, live: BOOLEAN]

NoJob == [kind |-> "none", link |-> None, slots |-> {}, old |-> NoSnapshot,
          rev |-> 0]

Idle == pc = "idle"

Init ==
    /\ snap = NoSnapshot
    /\ prog = [r \in Revisions |-> None]
    /\ ext = {}
    /\ hooks = {}
    /\ netns = TRUE
    /\ pc = "idle"
    /\ job = NoJob
    /\ disp = None
    /\ done = 0
    /\ handle = None
    /\ requested = {}

\* The operation returns; the next one starts from scratch.
Return ==
    /\ pc' = "idle"
    /\ job' = NoJob
    /\ disp' = None
    /\ done' = 0
    /\ handle' = None

-----------------------------------------------------------------------------
(***************************************************************************)
(* Slot order                                                              *)
(***************************************************************************)

\* Mutants: the new program first whatever its priority; or last among equals.
BeforeNewFirst(s, t) ==
    \/ s.link = None /\ t.link # None
    \/ (s.link = None) = (t.link = None) /\ s.prio < t.prio

BeforeAttachedFirst(s, t) ==
    \/ s.prio < t.prio
    \/ s.prio = t.prio /\ s.link # None /\ t.link = None

\* sortRebuildSlots: by priority; at equal priority the new program before
\* the attached ones; then by program name.
Before(s, t) ==
    \/ s.prio < t.prio
    \/ s.prio = t.prio /\ s.link = None /\ t.link # None
    \/ /\ s.prio = t.prio
       /\ (s.link = None) = (t.link = None)
       /\ NameOf[s.prog] < NameOf[t.prog]

\* The positions the sort may give: the query orders members by priority and
\* name only, so rows equal on both come in any order.
Placements(S) ==
    {p \in [S -> 0..(Cardinality(S) - 1)] :
        \A s, t \in S : s # t => /\ p[s] # p[t]
                                 /\ Before(s, t) => p[s] < p[t]}

Placed(S, p) == {[s EXCEPT !.pos = p[s]] : s \in S}

-----------------------------------------------------------------------------
(***************************************************************************)
(* Starting a rebuild                                                      *)
(***************************************************************************)

\* Mutant: the counter is wider than the revision.
NextRevisionUnwrapped == snap.rev + 1

\* snap.Revision + 1, a uint32.
NextRevision == (snap.rev + 1) % (RevisionMax + 1)

\* Attach: read the snapshot, add a slot, sort.  A full dispatcher and a
\* vanished namespace are refused before anything is touched.
RebuildForAttach(p, prio, label) ==
    LET new   == [link |-> None, prog |-> p, prio |-> prio, label |-> label, pos |-> 0]
        slots == snap.members \cup {new}
    IN  /\ Idle
        /\ snap.rev < RevisionBound
        /\ netns
        /\ Cardinality(slots) <= MaxPrograms
        /\ \E place \in Placements(slots) :
             job' = [kind |-> "attach", link |-> None, slots |-> Placed(slots, place),
                     old |-> snap, rev |-> NextRevision]
        /\ pc' = "load"
        /\ UNCHANGED <<persistent, netns, disp, done, handle, requested>>

\* Detach, first node of the plan: DetachLink on the member's extension pin.
DetachExtension(m) ==
    /\ Idle
    /\ m \in snap.members
    /\ snap.rev < RevisionBound \/ m.link \in requested
    /\ ext' = {e \in ext : ~(e.rev = snap.rev /\ e.pos = m.pos)}
    /\ requested' = requested \cup {m.link}
    /\ job' = [NoJob EXCEPT !.kind = "detach", !.link = m.link, !.old = snap]
    /\ pc' = "exclude"
    /\ UNCHANGED <<snap, prog, hooks, netns, disp, done, handle>>

\* The pin could not be removed: the client has its error, nothing follows.
DetachExtensionFails(m) ==
    /\ Idle
    /\ "detach" \in Faults
    /\ m \in snap.members
    /\ snap.rev < RevisionBound \/ m.link \in requested
    /\ requested' = requested \cup {m.link}
    /\ UNCHANGED <<persistent, netns, pc, job, disp, done, handle>>

\* Slots of the survivors.  Their metadata is not carried into the slot.
SurvivorSlots == {[m EXCEPT !.label = "none"] : m \in {x \in snap.members : x.link # job.link}}

\* Mutant: the namespace is not looked at.
RebuildForDetachIgnoringNetns ==
    /\ pc = "exclude"
    /\ IF SurvivorSlots = {}
         THEN pc' = "teardown" /\ UNCHANGED job
         ELSE /\ pc' = "load"
              /\ \E place \in Placements(SurvivorSlots) :
                   job' = [job EXCEPT !.slots = Placed(SurvivorSlots, place), !.rev = NextRevision]
    /\ UNCHANGED <<persistent, netns, disp, done, handle, requested>>

\* Detach, second node: drop the excluded member; tear the dispatcher down
\* when nobody is left or the namespace is gone, else rebuild without it.
RebuildForDetach ==
    /\ pc = "exclude"
    /\ IF SurvivorSlots = {} \/ ~netns
         THEN /\ pc' = "teardown"
              /\ UNCHANGED job
         ELSE /\ pc' = "load"
              /\ \E place \in Placements(SurvivorSlots) :
                   job' = [job EXCEPT !.slots = Placed(SurvivorSlots, place), !.rev = NextRevision]
    /\ UNCHANGED <<persistent, netns, disp, done, handle, requested>>

-----------------------------------------------------------------------------
(***************************************************************************)
(* The new revision                                                        *)
(***************************************************************************)

\* Ids the kernel cannot hand out: programs still referenced by a pin, a
\* link or a hook (the store's stale ids are kept apart too).
DispatchersInUse ==
    {prog[r] : r \in Revisions} \cup {e.disp : e \in ext} \cup {h.disp : h \in hooks} \cup {snap.disp}

\* LoadAndPin*Dispatcher.  Pinning over an existing pin is EEXIST.
LoadDispatcher ==
    /\ pc = "load"
    /\ prog[job.rev] = None
    /\ \E d \in DispatcherIDs \ DispatchersInUse :
         /\ disp' = d
         /\ prog' = [prog EXCEPT ![job.rev] = d]
    /\ done' = 0
    /\ pc' = "ext"
    /\ UNCHANGED <<snap, ext, hooks, netns, job, handle, requested>>

\* Nothing was attached yet and nothing is cleaned up.
LoadDispatcherFails ==
    /\ pc = "load"
    /\ \/ prog[job.rev] # None
       \/ "load" \in Faults
       \/ DispatcherIDs \subseteq DispatchersInUse
    /\ Return
    /\ UNCHANGED <<persistent, netns, requested>>

\* The loop over the slots is at its end.
AllAttached == \A s \in job.slots : s.pos < done

ExtAt(r, p) == {e \in ext : e.rev = r /\ e.pos = p}

\* The extension of the slot at position done.
NewExt ==
    {[rev |-> job.rev, pos |-> done, disp |-> disp, prog |-> s.prog] : s \in {t \in job.slots : t.pos = done}}

\* Attach*Extension for the slot at position done, pinned at link_{done}.
AttachExtension ==
    /\ pc = "ext"
    /\ ExtAt(job.rev, done) = {}
    /\ \E s \in job.slots :
         /\ s.pos = done
         /\ ext' = ext \cup {[rev |-> job.rev, pos |-> done, disp |-> disp, prog |-> s.prog]}
    /\ done' = done + 1
    /\ UNCHANGED <<snap, prog, hooks, netns, pc, job, disp, handle, requested>>

\* The attach or its pin fails.  finishPinnedAttach then removes whatever is
\* at the pin path, which may be the pin of an earlier revision's attempt.
\* That it cannot be removed is only a warning: the pin found there stays, or
\* the one just made.
AttachExtensionFails ==
    /\ pc = "ext"
    /\ ~AllAttached
    /\ ExtAt(job.rev, done) # {} \/ "ext" \in Faults
    /\ \/ ext' = ext \ ExtAt(job.rev, done)
       \/ /\ "rollback" \in Faults
          /\ ext' = ext \cup IF ExtAt(job.rev, done) # {} THEN {} ELSE NewExt
    /\ pc' = "rollback"
    /\ UNCHANGED <<snap, prog, hooks, netns, job, disp, done, handle, requested>>

ExtensionsAttached ==
    /\ pc = "ext"
    /\ AllAttached
    /\ pc' = "swap"
    /\ UNCHANGED <<persistent, netns, job, disp, done, handle, requested>>

-----------------------------------------------------------------------------
(***************************************************************************)
(* The swap of the hook                                                    *)
(***************************************************************************)
FirstAttach == job.old = NoSnapshot

OuterLink(d) == [handle |-> None, disp |-> d, live |-> TRUE]
Filter(h, d) == [handle |-> h, disp |-> d, live |-> TRUE]

\* CreateXDPLink: EBUSY when the device already runs an XDP program, EEXIST
\* when the pin path of the outer link is taken.
CreateXDPLink ==
    /\ pc = "swap" /\ Kind = "xdp" /\ FirstAttach
    /\ netns /\ hooks = {}
    /\ hooks' = {OuterLink(disp)}
    /\ pc' = "persist"
    /\ UNCHANGED <<snap, prog, ext, netns, job, disp, done, handle, requested>>

\* UpdateXDPDispatcherLink: one atomic BPF_LINK_UPDATE of the pinned link.
UpdateXDPDispatcherLink ==
    /\ pc = "swap" /\ Kind = "xdp" /\ ~FirstAttach
    /\ \E h \in hooks : h.live
    /\ hooks' = {OuterLink(disp)}
    /\ pc' = "persist"
    /\ UNCHANGED <<snap, prog, ext, netns, job, disp, done, handle, requested>>

FreeHandles == Handles \ {h.handle : h \in hooks}

\* cls_bpf gives a filter added without a handle the lowest free one.
IsLowestFree(n) == n \in FreeHandles /\ \A m \in FreeHandles : n <= m

\* CreateTCFilter with desiredHandle 0: the new filter is added first ...
CreateTCFilter ==
    /\ pc = "swap" /\ Kind = "tc"
    /\ netns
    /\ \E n \in FreeHandles :
         /\ IsLowestFree(n)
         /\ handle' = n
         /\ hooks' = hooks \cup {Filter(n, disp)}
    /\ pc' = IF job.old.handle # None THEN "delold" ELSE "persist"
    /\ UNCHANGED <<snap, prog, ext, netns, job, disp, done, requested>>

\* Mutant: the filter to delete is found by its priority.
DetachTCFilterByPriority ==
    /\ pc = "delold"
    /\ hooks' = {}
    /\ pc' = "persist"
    /\ UNCHANGED <<snap, prog, ext, netns, job, disp, done, handle, requested>>

\* ... and the old one is then deleted by its recorded handle.
DetachOldTCFilter ==
    /\ pc = "delold"
    /\ hooks' = {h \in hooks : h.handle # job.old.handle}
    /\ pc' = "persist"
    /\ UNCHANGED <<snap, prog, ext, netns, job, disp, done, handle, requested>>

\* Failing to delete it is only a warning.
DetachOldTCFilterFails ==
    /\ pc = "delold"
    /\ "delfilter" \in Faults
    /\ pc' = "persist"
    /\ UNCHANGED <<persistent, netns, job, disp, done, handle, requested>>

SwapImpossible ==
    CASE Kind = "xdp" /\ FirstAttach  -> ~netns \/ hooks # {}
      [] Kind = "xdp" /\ ~FirstAttach -> \A h \in hooks : ~h.live
      [] OTHER                        -> ~netns \/ FreeHandles = {}

\* The hook cannot be swapped; or (TC) the new filter is in place but its
\* handle or its program's id cannot be read, and nobody deletes it.
SwapFails ==
    /\ pc = "swap"
    /\ \/ ("swap" \in Faults \/ SwapImpossible) /\ UNCHANGED hooks
       \/ /\ "echo" \in Faults /\ Kind = "tc" /\ netns
          /\ \E n \in FreeHandles : IsLowestFree(n) /\ hooks' = hooks \cup {Filter(n, disp)}
    /\ pc' = "rollback"
    /\ UNCHANGED <<snap, prog, ext, netns, job, disp, done, handle, requested>>

-----------------------------------------------------------------------------
(***************************************************************************)
(* The store, and the old revision                                         *)
(***************************************************************************)

\* ReplaceDispatcherSnapshot gives the new slot a link id and keeps the ids
\* of the others.
AsMembers(S, id) == {IF s.link = None THEN [s EXCEPT !.link = id] ELSE s : s \in S}

\* One transaction: the header row and all member rows are replaced.  The
\* schema refuses revision 0.
ReplaceDispatcherSnapshot ==
    /\ pc = "persist"
    /\ job.rev >= 1
    /\ \E id \in LinkIDs \ {m.link : m \in snap.members} :
         snap' = [rev |-> job.rev, disp |-> disp, handle |-> handle,
                  members |-> AsMembers(job.slots, id)]
    /\ requested' = requested \cap {s.link : s \in job.slots}
    /\ pc' = "cleanold"
    /\ UNCHANGED <<prog, ext, hooks, netns, job, disp, done, handle>>

\* Mutant: the hook is left on the new revision.
PersistFailsUnrestored ==
    /\ pc = "persist"
    /\ job.rev = 0 \/ "persist" \in Faults
    /\ pc' = "rollback"
    /\ UNCHANGED <<persistent, netns, job, disp, done, handle, requested>>

ReplaceDispatcherSnapshotFails ==
    /\ pc = "persist"
    /\ job.rev = 0 \/ "persist" \in Faults
    /\ pc' = IF Kind = "xdp" THEN "restore" ELSE "delnew"
    /\ UNCHANGED <<persistent, netns, job, disp, done, handle, requested>>

\* What removing a revision directory leaves: nothing, unless the removal
\* fails part way (fault f), which is only a warning.
Removing(r, f, keptProg, keptExt) ==
    /\ keptProg \in BOOLEAN /\ keptExt \subseteq {e \in ext : e.rev = r}
    /\ f \notin Faults => ~keptProg /\ keptExt = {}
    /\ prog' = IF keptProg THEN prog ELSE [prog EXCEPT ![r] = None]
    /\ ext'  = {e \in ext : e.rev # r} \cup keptExt

RemoveOldRevision ==
    /\ pc = "cleanold"
    /\ IF FirstAttach THEN UNCHANGED <<prog, ext>>
       ELSE \E kp \in BOOLEAN : \E ke \in SUBSET {e \in ext : e.rev = job.old.rev} :
              Removing(job.old.rev, "cleanup", kp, ke)
    /\ Return
    /\ UNCHANGED <<snap, hooks, netns, requested>>

-----------------------------------------------------------------------------
(***************************************************************************)
(* Rolling back a failed rebuild                                           *)
(***************************************************************************)
Defunct(H) == {[h EXCEPT !.live = FALSE] : h \in H}

\* XDP: a first attach drops the outer link, a later one points it back at
\* the old revision.  DetachLink detaches before it unpins, so a failure may
\* leave the pin of a link that is no longer on the device.
RestoreXDP ==
    /\ pc = "restore"
    /\ \/ FirstAttach /\ hooks' = {}
       \/ /\ ~FirstAttach
          /\ prog[job.old.rev] # None /\ \E h \in hooks : h.live
          /\ hooks' = {OuterLink(prog[job.old.rev])}
    /\ pc' = "rollback"
    /\ UNCHANGED <<snap, prog, ext, netns, job, disp, done, handle, requested>>

RestoreXDPFails ==
    /\ pc = "restore"
    /\ \/ "rollback" \in Faults
       \/ ~FirstAttach /\ (prog[job.old.rev] = None \/ \A h \in hooks : ~h.live)
    /\ hooks' \in IF FirstAttach THEN {hooks, Defunct(hooks)} ELSE {hooks}
    /\ pc' = "rollback"
    /\ UNCHANGED <<snap, prog, ext, netns, job, disp, done, handle, requested>>

\* TC: the new filter is deleted first ...
RestoreDeleteNewFilter ==
    /\ pc = "delnew"
    /\ \/ hooks' = {h \in hooks : h.handle # handle}
       \/ "rollback" \in Faults /\ UNCHANGED hooks
    /\ pc' = IF job.old.handle # None THEN "readdold" ELSE "rollback"
    /\ UNCHANGED <<snap, prog, ext, netns, job, disp, done, handle, requested>>

\* ... and the old one is put back under the handle the store records.  The
\* request is exclusive: it fails when that handle is taken.
CanReaddOldFilter == netns /\ prog[job.old.rev] # None /\ job.old.handle \in FreeHandles

\* Mutant: the old filter comes back under a handle of the kernel's choice.
RestoreOldFilterAnywhere ==
    /\ pc = "readdold"
    /\ \E n \in FreeHandles :
         IsLowestFree(n) /\ hooks' = hooks \cup {Filter(n, prog[job.old.rev])}
    /\ pc' = "rollback"
    /\ UNCHANGED <<snap, prog, ext, netns, job, disp, done, handle, requested>>

RestoreOldFilter ==
    /\ pc = "readdold"
    /\ \/ CanReaddOldFilter /\ hooks' = hooks \cup {Filter(job.old.handle, prog[job.old.rev])}
       \/ ("rollback" \in Faults \/ ~CanReaddOldFilter) /\ UNCHANGED hooks
    /\ pc' = "rollback"
    /\ UNCHANGED <<snap, prog, ext, netns, job, disp, done, handle, requested>>

\* cleanupExtensions, then cleanupNewDispatcher (attach: the program pin) or
\* cleanupNewRevision (detach: the whole revision directory).
CleanedByRollback ==
    {e \in ext : e.rev = job.rev /\ (job.kind = "attach" => e.pos < done)}

Rollback ==
    /\ pc = "rollback"
    /\ \E kp \in BOOLEAN : \E ke \in SUBSET CleanedByRollback :
         /\ "rollback" \notin Faults => ~kp /\ ke = {}
         /\ prog' = IF kp THEN prog ELSE [prog EXCEPT ![job.rev] = None]
         /\ ext' = (ext \ CleanedByRollback) \cup ke
    /\ Return
    /\ UNCHANGED <<snap, hooks, netns, requested>>

-----------------------------------------------------------------------------
(***************************************************************************)
(* removeEmptyDispatcher                                                   *)
(***************************************************************************)

\* The kernel detach is the point of no return.
TeardownDetach ==
    /\ pc = "teardown"
    /\ hooks' = IF Kind = "xdp" THEN {} ELSE {h \in hooks : h.handle # snap.handle}
    /\ pc' = "unpin"
    /\ UNCHANGED <<snap, prog, ext, netns, job, disp, done, handle, requested>>

\* Mutant: the error is ignored.
TeardownDetachIgnored ==
    /\ pc = "teardown"
    /\ "detach" \in Faults
    /\ hooks' \in IF Kind = "xdp" THEN {hooks, Defunct(hooks)} ELSE {hooks}
    /\ pc' = "unpin"
    /\ UNCHANGED <<snap, prog, ext, netns, job, disp, done, handle, requested>>

\* When it fails, nothing else is touched.
TeardownDetachFails ==
    /\ pc = "teardown"
    /\ "detach" \in Faults
    /\ hooks' \in IF Kind = "xdp" THEN {hooks, Defunct(hooks)} ELSE {hooks}
    /\ Return
    /\ UNCHANGED <<snap, prog, ext, netns, requested>>

TeardownUnpin ==
    /\ pc = "unpin"
    /\ \E kp \in BOOLEAN : \E ke \in SUBSET {e \in ext : e.rev = snap.rev} :
         Removing(snap.rev, "cleanup", kp, ke)
    /\ pc' = "delsnap"
    /\ UNCHANGED <<snap, hooks, netns, job, disp, done, handle, requested>>

DeleteDispatcherSnapshot ==
    /\ pc = "delsnap"
    /\ snap' = NoSnapshot
    /\ requested' = {}
    /\ Return
    /\ UNCHANGED <<prog, ext, hooks, netns>>

\* The row is left behind; the error is returned, and a retry finishes.
DeleteDispatcherSnapshotFails ==
    /\ pc = "delsnap"
    /\ "forget" \in Faults
    /\ Return
    /\ UNCHANGED <<persistent, netns, requested>>

-----------------------------------------------------------------------------
(***************************************************************************)
(* The environment                                                         *)
(***************************************************************************)

\* The process dies: what it kept in memory is lost, the rest stays.
Crash ==
    /\ ~Idle
    /\ "crash" \in Faults
    /\ Return
    /\ UNCHANGED <<persistent, netns, requested>>

\* The namespace is deleted; the kernel drops its devices and their filters.
NetnsDeleted ==
    /\ netns
    /\ "netns" \in Faults
    /\ netns' = FALSE
    /\ hooks' = IF Kind = "xdp" THEN Defunct(hooks) ELSE {}
    /\ UNCHANGED <<snap, prog, ext, pc, job, disp, done, handle, requested>>

\* No client has a request.
Quiet == Idle /\ UNCHANGED vars

Request ==
    \/ \E p \in Programs, prio \in Priorities, label \in Labels : RebuildForAttach(p, prio, label)
    \/ \E m \in snap.members : DetachExtension(m)
    \/ \E m \in snap.members : DetachExtensionFails(m)

Step ==
    \/ RebuildForDetach
    \/ LoadDispatcher \/ LoadDispatcherFails
    \/ AttachExtension \/ AttachExtensionFails \/ ExtensionsAttached
    \/ CreateXDPLink \/ UpdateXDPDispatcherLink
    \/ CreateTCFilter \/ DetachOldTCFilter \/ DetachOldTCFilterFails
    \/ SwapFails
    \/ ReplaceDispatcherSnapshot \/ ReplaceDispatcherSnapshotFails
    \/ RemoveOldRevision
    \/ RestoreXDP \/ RestoreXDPFails
    \/ RestoreDeleteNewFilter \/ RestoreOldFilter
    \/ Rollback
    \/ TeardownDetach \/ TeardownDetachFails
    \/ TeardownUnpin
    \/ DeleteDispatcherSnapshot \/ DeleteDispatcherSnapshotFails

Environment == Crash \/ NetnsDeleted

Next == Request \/ Step \/ Environment \/ Quiet

Spec == Init /\ [][Next]_vars

DetachLink(l) == \E m \in snap.members : m.link = l /\ DetachExtension(m)

\* A running operation goes on (the process is scheduled, the writer lock is
\* held), and a client whose detach failed asks again.
FairSpec ==
    /\ Spec
    /\ WF_vars(Step)
    /\ \A l \in LinkIDs : SF_vars(l \in requested /\ DetachLink(l))

-----------------------------------------------------------------------------
(***************************************************************************)
(* Properties                                                              *)
(***************************************************************************)

Job == [kind: {"none", "attach", "detach"}, link: LinkIDs \cup {None},
        slots: SUBSET Slot, old: Snapshot, rev: Revisions]

\* The types of the store rows, the pins, the kernel's hooks and the state of
\* the rebuild in progress.
TypeOK ==
    /\ snap \in Snapshot
    /\ prog \in [Revisions -> DispatcherIDs \cup {None}]
    /\ ext \subseteq ExtLink
    /\ hooks \subseteq Hook
    /\ netns \in BOOLEAN
    /\ pc \in {"idle", "exclude", "load", "ext", "swap", "delold", "persist", "cleanold",
               "restore", "delnew", "readdold", "rollback", "teardown", "unpin", "delsnap"}
    /\ job \in Job
    /\ disp \in DispatcherIDs \cup {None}
    /\ done \in Nat
    /\ handle \in Handles \cup {None}
    /\ requested \subseteq LinkIDs

\* Some hook of the device runs a dispatcher one of whose slots runs m.
Served(m) == \E h \in hooks : h.live /\ \E e \in ext : e.disp = h.disp /\ e.prog = m.prog

\* A link the store records, and that nobody asked to detach, runs at every
\* instant: before, during and after every rebuild, whatever call fails and
\* wherever the process dies.  (As long as its namespace exists.)
SurvivorsServed ==
    netns => \A m \in snap.members : m.link \notin requested => Served(m)

\* At a TC hook the same holds but for one gap: a rollback deletes the new
\* filter before it puts the old one back.
ServedOutsideRestore == pc # "readdold" => SurvivorsServed

\* The extensions the snapshot describes, without those being detached.
SnapshotLinks(missing) ==
    {[rev |-> snap.rev, pos |-> m.pos, disp |-> snap.disp, prog |-> m.prog] :
        m \in {x \in snap.members : x.link \notin missing}}

\* Between operations the kernel and bpffs hold exactly what the store says:
\* one hook, one revision directory, one extension per member; a failed
\* rebuild has left nothing behind and has taken nothing away.  A failed
\* teardown may have left the row of members already asked to go.
StoreIsExact ==
    Idle /\ netns =>
        \/ /\ hooks = IF snap = NoSnapshot THEN {}
                      ELSE {[handle |-> snap.handle, disp |-> snap.disp, live |-> TRUE]}
           /\ prog = [r \in Revisions |-> IF snap # NoSnapshot /\ r = snap.rev THEN snap.disp ELSE None]
           /\ \E missing \in SUBSET requested : ext = SnapshotLinks(missing)
        \/ /\ snap # NoSnapshot /\ {m.link : m \in snap.members} \subseteq requested
           /\ \A h \in hooks : ~h.live

\* The revision the next rebuild will use is free, so that loading its
\* dispatcher cannot fail with EEXIST.
NextRevisionFree == Idle => prog[NextRevision] = None

\* The chain runs in priority order, every position from 0 up is used once.
ChainOrder ==
    /\ {m.pos : m \in snap.members} = 0..(Cardinality(snap.members) - 1)
    /\ \A s, t \in snap.members : s.prio < t.prio => s.pos < t.pos

Identity(m) == [link |-> m.link, prog |-> m.prog, prio |-> m.prio]

\* A rebuild that is persisted keeps the link id, program and priority of
\* every member it was not asked to drop and, on an attach, puts the new
\* program ahead of the older ones of its priority.
MembersStable ==
    [][snap' # snap /\ snap'.members # {} =>
         /\ {Identity(m) : m \in snap.members} \ {Identity(m) : m \in snap'.members}
              \subseteq {Identity(m) : m \in {x \in snap.members : x.link = job.link}}
         /\ Cardinality(snap'.members) =
              IF job.kind = "attach" THEN Cardinality(snap.members) + 1
                                     ELSE Cardinality(snap.members) - 1
         /\ \A n \in snap'.members : \A o \in snap'.members :
              /\ n.link \notin {m.link : m \in snap.members}
              /\ o # n /\ o.prio = n.prio
              => n.pos < o.pos]_vars

\* Once the snapshot is persisted, the hook it records is the one in place.
PersistedHookLive ==
    pc = "cleanold" /\ netns =>
        [handle |-> snap.handle, disp |-> snap.disp, live |-> TRUE] \in hooks

\* A call fails although nothing stands in its way, or the process dies.
InjectedFailure ==
    \/ \E m \in snap.members : DetachExtensionFails(m)
    \/ LoadDispatcherFails /\ prog[job.rev] = None
    \/ AttachExtensionFails /\ (ExtAt(job.rev, done) = {} \/ ext' = ext)
    \/ SwapFails /\ ~SwapImpossible
    \/ ReplaceDispatcherSnapshotFails /\ job.rev # 0
    \/ Rollback /\ (prog'[job.rev] # None \/ \E e \in ext' : e \in CleanedByRollback)
    \/ TeardownDetachFails
    \/ DeleteDispatcherSnapshotFails
    \/ Crash /\ ~Step

\* A rebuild cannot get through: an earlier one died, or failed to clean up
\* after itself, and left a dispatcher pinned where the next revision's goes;
\* or the revision wraps to 0, which the schema refuses.
Blocked ==
    /\ Idle /\ netns /\ Cardinality(snap.members) > 1
    /\ prog[NextRevision] # None \/ NextRevision = 0

\* Once calls stop failing by chance, a link somebody asked to detach leaves
\* the store: from whatever earlier failures and crashes left behind, of a
\* teardown cut short too, and even if the network namespace disappeared, a
\* retried detach gets through.  The exception is a rebuild that is Blocked,
\* where the code has no way out while other links are attached.  (The run
\* leaves out the failures of a rollback that a crash inside it does not
\* already show, and a TC filter that cannot be deleted.)
DetachConverges ==
    <>[][~InjectedFailure]_vars =>
        \A l \in LinkIDs : (l \in requested) ~> (l \notin requested \/ Blocked)

-----------------------------------------------------------------------------
(***************************************************************************)
(* Inductive invariants: of the chain, and (XDP) behind SurvivorsServed    *)
(***************************************************************************)

\* The sets of slots fit a dispatcher.
Fits(S) == IsFiniteSet(S) /\ Cardinality(S) <= MaxPrograms

Rebuilding == pc \in {"load", "ext", "swap", "delold", "persist", "restore", "delnew",
                      "readdold", "rollback"}
Loaded     == Rebuilding /\ pc # "load"

TypeInv ==
    /\ TypeOK
    /\ Fits(snap.members) /\ Fits(job.slots)
    /\ Loaded \/ pc = "cleanold" => disp \in DispatcherIDs

OneSlotPerPosition(S) == \A s, t \in S : s.pos = t.pos => s = t

WellPlaced(S) ==
    /\ {s.pos : s \in S} = 0..(Cardinality(S) - 1)
    /\ OneSlotPerPosition(S)
    /\ \A s, t \in S : s.prio < t.prio => s.pos < t.pos

ChainInv == WellPlaced(snap.members) /\ WellPlaced(job.slots)

HookedTo(d) == \E h \in hooks : h.live /\ h.disp = d

\* The links that must keep running.
Survivor(m) == netns /\ m \in snap.members /\ m.link \notin requested

\* The rebuild in progress started from the snapshot in the store, uses the
\* next revision, and has a slot for every survivor.
JobInv ==
    /\ Rebuilding => /\ job.old = snap
                     /\ job.rev = NextRevision
                     /\ \A m \in snap.members : Survivor(m) => \E s \in job.slots : s.prog = m.prog
    /\ pc = "cleanold" => job.old.rev # snap.rev
    /\ Loaded => prog[job.rev] = disp
    /\ pc = "exclude" => job.link \in requested /\ job.old = snap
    /\ pc \in {"teardown", "unpin", "delsnap"} => \A m \in snap.members : ~Survivor(m)

\* The slots attached so far.
AttachedInv ==
    /\ pc = "ext" =>
         \A s \in job.slots : s.pos < done =>
             [rev |-> job.rev, pos |-> s.pos, disp |-> disp, prog |-> s.prog] \in ext
    /\ pc \in {"swap", "persist", "restore"} =>
         \A s \in job.slots :
             [rev |-> job.rev, pos |-> s.pos, disp |-> disp, prog |-> s.prog] \in ext
    /\ pc \in {"persist", "restore"} /\ netns => HookedTo(disp)

\* The revision the store records is intact for every survivor.
RecordedInv ==
    \A m \in snap.members : Survivor(m) =>
        /\ snap.disp \in DispatcherIDs
        /\ prog[snap.rev] = snap.disp
        /\ [rev |-> snap.rev, pos |-> m.pos, disp |-> snap.disp, prog |-> m.prog] \in ext

\* The hook runs the recorded revision, or (after a crash between the swap
\* and the commit) the one after it, whose pin then blocks every rebuild.
Ahead(m) ==
    /\ prog[NextRevision] \in DispatcherIDs
    /\ HookedTo(prog[NextRevision])
    /\ \E e \in ext : /\ e.rev = NextRevision /\ e.disp = prog[NextRevision]
                      /\ e.prog = m.prog

HookInv ==
    \A m \in snap.members : Survivor(m) =>
        \/ HookedTo(snap.disp) /\ pc \notin {"persist", "restore"}
        \/ Ahead(m) /\ pc \in {"idle", "exclude", "load", "persist", "restore"}

ServedInv ==
    /\ pc \notin {"delold", "delnew", "readdold"}    \* TC only
    /\ JobInv
    /\ AttachedInv
    /\ RecordedInv
    /\ HookInv

-----------------------------------------------------------------------------
(***************************************************************************)
(* What all of this looks like to the clients of the attach point          *)
(***************************************************************************)

\* The program being attached, until its link is in the store.
Wanted ==
    IF pc = "cleanold" THEN {}
    ELSE {[prog |-> s.prog, prio |-> s.prio] : s \in {x \in job.slots : x.link = None}}

\* The programs of the extensions of a dispatcher the device runs.
Running == {e.prog : e \in {x \in ext : HookedTo(x.disp)}}

Point == INSTANCE AttachPoint WITH
    links  <- {Identity(m) : m \in snap.members},
    asked  <- requested,
    wanted <- Wanted,
    runs   <- Running,
    up     <- netns

\* Rebuilds, rollbacks, crashes and teardowns of an XDP dispatcher keep the
\* promise of AttachPoint: every one of their calls is a step of it, or
\* changes nothing a client can see.
ImplementsAttachPoint == Point!Spec

=============================================================================
