-------------------------------- MODULE Links --------------------------------
(***************************************************************************)
(* Links that need no dispatcher: the pending-row attach of probes and     *)
(* tracing programs (manager/attach_simple.go), the attach of TCX programs *)
(* to one hook (manager/attach_tc.go), detaching, and the links' part of   *)
(* an unload (manager/detach.go, unload.go).                               *)
(*                                                                         *)
(* All of it runs under the writer lock, so one operation is in progress   *)
(* at a time; calls fail and the process dies between any two of them.     *)
(***************************************************************************)
EXTENDS Naturals, Sequences

CONSTANTS
    Probes,       \* programs attached by a simple attach
    TCX,          \* programs attached to the TCX hook
    Priorities,   \* priorities of TCX links
    MaxLinks,     \* bound: link ids ever allocated
    Faults        \* the failures that may happen

FaultKinds == {"attach", "save", "detach", "delete", "undo", "unpin", "crash", "die"}

ASSUME ProgramAssumption  == Probes \cap TCX = {}
ASSUME PriorityAssumption == Priorities \subseteq Nat \ {0}
ASSUME BoundAssumption    == MaxLinks \in Nat
ASSUME FaultsAssumption   == Faults \subseteq FaultKinds

VARIABLES
    programs,  \* store: the programs with a row
    links,     \* store: the rows of the links table
    nextID,    \* store: its AUTOINCREMENT counter
    progPins,  \* bpffs: the pinned programs
    pins,      \* bpffs: the pinned links
    chain,     \* kernel: the programs of the TCX hook, in running order
    pc, job,   \* where the operation in progress is, and what it is doing
    promised,  \* history: links attached, not asked to go, not killed
    leaked     \* history: ids whose pin a rollback could not remove

store   == <<programs, links, nextID>>
objects == <<progPins, pins, chain>>
oper    == <<pc, job>>
history == <<promised, leaked>>
vars    == <<store, objects, oper, history>>

Programs == Probes \cup TCX
LinkIDs  == 1..MaxLinks
None     == 0

Row == [id: LinkIDs, prog: Programs, prio: Priorities \cup {None}]

\* links/{link_id}; a TCX pin is named after the hook and the program.
Path(l) == [prog |-> l.prog, id |-> IF l.prog \in TCX THEN None ELSE l.id]

NoJob == [prog |-> None, prio |-> None, id |-> None, todo |-> {}]

Idle == pc = "idle"

Init ==
    /\ programs = Programs /\ links = {} /\ nextID = 1
    /\ progPins = Programs /\ pins = {} /\ chain = <<>>
    /\ pc = "idle" /\ job = NoJob
    /\ promised = {} /\ leaked = {}

Return == pc' = "idle" /\ job' = NoJob

InChain(p) == \E i \in DOMAIN chain : chain[i] = p

Position(p) == {i \in DOMAIN chain : chain[i] = p}

\* The kernel takes out the entry of one link; the others keep their order.
ChainWithout(p) ==
    IF ~InChain(p) THEN chain
    ELSE LET i == CHOOSE i \in Position(p) : TRUE
         IN  SubSeq(chain, 1, i - 1) \o SubSeq(chain, i + 1, Len(chain))

\* DetachLink: the kernel detach comes first, then the pin goes.  A pin that
\* is not there is no error.
DetachLink(l) ==
    /\ pins' = pins \ {Path(l)}
    /\ chain' = IF Path(l) \in pins THEN ChainWithout(l.prog) ELSE chain

\* The pin could not be removed; the link itself may be detached already.
DetachLinkFails(l) ==
    /\ Path(l) \in pins
    /\ UNCHANGED pins
    /\ chain' \in {chain, ChainWithout(l.prog)}

-----------------------------------------------------------------------------
(***************************************************************************)
(* Simple attach: the row, then the kernel, then the row again             *)
(***************************************************************************)
CreatePendingLink(p) ==
    /\ Idle
    /\ p \in Probes \cap programs
    /\ nextID \in LinkIDs
    /\ links' = links \cup {[id |-> nextID, prog |-> p, prio |-> None]}
    /\ nextID' = nextID + 1
    /\ job' = [NoJob EXCEPT !.prog = p, !.id = nextID]
    /\ pc' = "attach"
    /\ UNCHANGED <<programs, objects, history>>

\* The kernel attach of the pinned program, pinned at the recorded path.
AttachPinned ==
    /\ pc = "attach"
    /\ job.prog \in progPins
    /\ pins' = pins \cup {Path(job)}
    /\ pc' = "finalise"
    /\ UNCHANGED <<store, progPins, chain, job, history>>

AttachPinnedFails ==
    /\ pc = "attach"
    /\ job.prog \notin progPins \/ "attach" \in Faults
    /\ pc' = "undorow"
    /\ UNCHANGED <<store, objects, job, history>>

\* FinaliseLink stores the kernel's link id.
FinaliseLink ==
    /\ pc = "finalise"
    /\ promised' = promised \cup {id \in {job.id} : Path(job) \in pins}
    /\ Return
    /\ UNCHANGED <<store, objects, leaked>>

FinaliseLinkFails ==
    /\ pc = "finalise"
    /\ "save" \in Faults
    /\ pc' = "undoattach"
    /\ UNCHANGED <<store, objects, job, history>>

\* Mutant: the node of the kernel attach has no undo.
UndoAttachMissing ==
    /\ pc = "undoattach"
    /\ pc' = IF job.prog \in TCX THEN "return" ELSE "undorow"
    /\ UNCHANGED <<store, objects, job, history>>

\* executeRollback: the undo actions in reverse, each one whatever became of
\* the one before.
UndoAttach ==
    /\ pc = "undoattach"
    /\ \/ DetachLink(job) /\ UNCHANGED leaked
       \/ /\ "undo" \in Faults
          /\ DetachLinkFails(job)
          /\ leaked' = leaked \cup ({job.id} \ {None})
    /\ pc' = IF job.prog \in TCX THEN "return" ELSE "undorow"
    /\ UNCHANGED <<store, progPins, job, promised>>

UndoRow ==
    /\ pc = "undorow"
    /\ \/ links' = {l \in links : l.id # job.id}
       \/ "undo" \in Faults /\ UNCHANGED links
    /\ Return
    /\ UNCHANGED <<programs, nextID, objects, history>>

Fail == pc = "return" /\ Return /\ UNCHANGED <<store, objects, history>>

-----------------------------------------------------------------------------
(***************************************************************************)
(* TCX attach: the kernel, then the row                                    *)
(***************************************************************************)
TCXLinks == {l \in links : l.prog \in TCX}

\* Mutant: a second attach of a program replaces the first.
AttachTCXAgain(p, prio) ==
    /\ Idle
    /\ p \in TCX \cap programs
    /\ nextID \in LinkIDs
    /\ DetachLink([id |-> None, prog |-> p])
    /\ job' = [NoJob EXCEPT !.prog = p, !.prio = prio]
    /\ pc' = "tcx"
    /\ UNCHANGED <<store, progPins, history>>

\* A program the store records at the hook is refused; then whatever is at
\* the pin path is residue, and is detached.
AttachTCX(p, prio) ==
    /\ Idle
    /\ p \in TCX \cap programs
    /\ nextID \in LinkIDs
    /\ \A l \in TCXLinks : l.prog # p
    /\ \/ /\ DetachLink([id |-> None, prog |-> p])
          /\ job' = [NoJob EXCEPT !.prog = p, !.prio = prio]
          /\ pc' = "tcx"
       \/ /\ "detach" \in Faults
          /\ DetachLinkFails([id |-> None, prog |-> p])
          /\ UNCHANGED oper
    /\ UNCHANGED <<store, progPins, history>>

\* Mutant: before the first link of at least the same priority.
RunsAfterOrWith(l) == l.prio >= job.prio

\* The links that must run after the new one.
RunsAfter(l) == l.prio > job.prio

\* ListTCXLinksByInterface: ORDER BY priority, id.
Precedes(k, l) == k.prio < l.prio \/ (k.prio = l.prio /\ k.id < l.id)

\* The kernel keeps a program as long as something pinned refers to it.
Live(p) == p \in progPins \/ \E f \in pins : f.prog = p

\* filterLiveTCXLinks
Anchors == {l \in TCXLinks : Live(l.prog)}

\* The anchor of a new link: the first that must run after it, if there is
\* one, and else the last of all.
FirstAfter ==
    CHOOSE l \in Anchors :
        RunsAfter(l) /\ \A k \in Anchors : RunsAfter(k) /\ k # l => Precedes(l, k)
LastAnchor == CHOOSE l \in Anchors : \A k \in Anchors : k # l => Precedes(k, l)

\* computeTCXAttachOrder, as the number of programs that come to run before
\* the new one: at the head when there is no link.  Empty when the anchor is
\* not in the chain (ENOENT).
AttachOrder ==
    IF Anchors = {} THEN {0}
    ELSE IF \E l \in Anchors : RunsAfter(l) THEN {i - 1 : i \in Position(FirstAfter.prog)}
    ELSE Position(LastAnchor.prog)

Inserted(n) == SubSeq(chain, 1, n) \o <<job.prog>> \o SubSeq(chain, n + 1, Len(chain))

AttachTCXKernel ==
    /\ pc = "tcx"
    /\ job.prog \in progPins
    /\ \E n \in AttachOrder : chain' = Inserted(n)
    /\ pins' = pins \cup {Path(job)}
    /\ pc' = "save"
    /\ UNCHANGED <<store, progPins, job, history>>

AttachTCXKernelFails ==
    /\ pc = "tcx"
    /\ "attach" \in Faults \/ job.prog \notin progPins \/ AttachOrder = {}
    /\ Return
    /\ UNCHANGED <<store, objects, history>>

\* Mutant: the row does not get the id the insert allocated.
SaveLinkUnnumbered ==
    /\ pc = "save"
    /\ links' = links \cup {[id |-> job.id, prog |-> job.prog, prio |-> job.prio]}
    /\ Return
    /\ UNCHANGED <<programs, nextID, objects, history>>

\* CreateLink
SaveLink ==
    /\ pc = "save"
    /\ links' = links \cup {[id |-> nextID, prog |-> job.prog, prio |-> job.prio]}
    /\ nextID' = nextID + 1
    /\ promised' = promised \cup {id \in {nextID} : Path(job) \in pins}
    /\ Return
    /\ UNCHANGED <<programs, objects, leaked>>

SaveLinkFails ==
    /\ pc = "save"
    /\ "save" \in Faults
    /\ pc' = "undoattach"
    /\ UNCHANGED <<store, objects, job, history>>

-----------------------------------------------------------------------------
(***************************************************************************)
(* Detach and unload                                                       *)
(***************************************************************************)

\* The first node of detachPlan; a failure ends the operation.
Detach(l) ==
    /\ Idle
    /\ promised' = promised \ {l.id}
    /\ \/ DetachLink(l) /\ job' = [NoJob EXCEPT !.id = l.id] /\ pc' = "delete"
       \/ "detach" \in Faults /\ DetachLinkFails(l) /\ UNCHANGED oper
    /\ UNCHANGED <<store, progPins, leaked>>

DeleteLink ==
    /\ pc = "delete"
    /\ \/ links' = {l \in links : l.id # job.id}
       \/ "delete" \in Faults /\ UNCHANGED links
    /\ Return
    /\ UNCHANGED <<programs, nextID, objects, history>>

LinksOf(p) == {l \in links : l.prog = p}

Unload(p) ==
    /\ Idle
    /\ p \in programs
    /\ promised' = promised \ {l.id : l \in LinksOf(p)}
    /\ job' = [NoJob EXCEPT !.prog = p, !.todo = {l.id : l \in LinksOf(p)}]
    /\ pc' = "detachall"
    /\ UNCHANGED <<store, objects, leaked>>

\* detachAllLinks stops at the first failure.  The store returns the rows of
\* a program in no particular order.
DetachNext ==
    /\ pc = "detachall"
    /\ \E l \in LinksOf(job.prog) :
         /\ l.id \in job.todo
         /\ \/ DetachLink(l) /\ job' = [job EXCEPT !.todo = @ \ {l.id}] /\ UNCHANGED pc
            \/ "detach" \in Faults /\ DetachLinkFails(l) /\ Return
    /\ UNCHANGED <<store, progPins, history>>

UnloadKernelProgram ==
    /\ pc = "detachall"
    /\ job.todo = {}
    /\ \/ progPins' = progPins \ {job.prog} /\ pc' = "deleterow" /\ UNCHANGED job
       \/ "unpin" \in Faults /\ UNCHANGED progPins /\ Return
    /\ UNCHANGED <<store, pins, chain, history>>

\* With the program's row go those of its links (ON DELETE CASCADE).
DeleteProgramRecord ==
    /\ pc = "deleterow"
    /\ \/ programs' = programs \ {job.prog} /\ links' = links \ LinksOf(job.prog)
       \/ "delete" \in Faults /\ UNCHANGED <<programs, links>>
    /\ Return
    /\ UNCHANGED <<nextID, objects, history>>

-----------------------------------------------------------------------------
Crash ==
    /\ ~Idle
    /\ "crash" \in Faults
    /\ Return
    /\ UNCHANGED <<store, objects, history>>

\* The program and its links go without an unload: their rows stay.
ProgramDies(p) ==
    /\ "die" \in Faults
    /\ p \in progPins
    /\ progPins' = progPins \ {p}
    /\ pins' = {f \in pins : f.prog # p}
    /\ chain' = ChainWithout(p)
    /\ promised' = promised \ {l.id : l \in LinksOf(p)}
    /\ UNCHANGED <<store, oper, leaked>>

\* No client has a request.
Quiet == Idle /\ UNCHANGED vars

Next ==
    \/ \E p \in Programs : CreatePendingLink(p)
    \/ \E p \in Programs, prio \in Priorities : AttachTCX(p, prio)
    \/ AttachPinned \/ AttachPinnedFails
    \/ FinaliseLink \/ FinaliseLinkFails
    \/ UndoAttach \/ UndoRow \/ Fail
    \/ AttachTCXKernel \/ AttachTCXKernelFails
    \/ SaveLink \/ SaveLinkFails
    \/ \E l \in links : Detach(l)
    \/ DeleteLink
    \/ \E p \in Programs : Unload(p)
    \/ DetachNext \/ UnloadKernelProgram \/ DeleteProgramRecord
    \/ Crash
    \/ \E p \in Programs : ProgramDies(p)
    \/ Quiet

Spec == Init /\ [][Next]_vars

-----------------------------------------------------------------------------
(***************************************************************************)
(* Properties                                                              *)
(***************************************************************************)

\* The types of the rows, the pins, the chain and the operation in progress:
\* in particular every row of the links table has an allocated id.
TypeOK ==
    /\ programs \subseteq Programs
    /\ links \subseteq Row
    /\ nextID \in 1..(MaxLinks + 1)
    /\ progPins \subseteq Programs
    /\ pins \subseteq [prog: Programs, id: LinkIDs \cup {None}]
    /\ chain \in Seq(TCX)
    /\ pc \in {"idle", "attach", "finalise", "undoattach", "undorow", "return", "tcx", "save",
               "delete", "detachall", "deleterow"}
    /\ job \in [prog: Programs \cup {None}, prio: Priorities \cup {None},
                id: LinkIDs \cup {None}, todo: SUBSET LinkIDs]
    /\ promised \subseteq LinkIDs
    /\ leaked \subseteq LinkIDs

\* There is never a pinned link under links/ that the store does not name:
\* not while an attach runs, not after a crash at any point, not after an
\* unload that failed half way.  The one exception is a pin whose removal
\* failed in a rollback, which deletes the row all the same.
PinsNamed ==
    \A f \in pins : f.prog \in Probes /\ f.id \notin leaked => \E l \in links : Path(l) = f

\* A link whose attach succeeded, that nobody asked to detach and whose
\* program was not killed has its row, is pinned and, at the TCX hook, is in
\* the chain: no other attach, rollback, stale pin removal, detach or unload
\* takes it away.
LinksAttached ==
    \A id \in promised : \E l \in links :
        l.id = id /\ Path(l) \in pins /\ (l.prog \in TCX => InChain(l.prog))

\* The kernel runs the recorded TCX programs by priority and, at equal
\* priority, in the order of attachment, whatever residue of crashed attaches
\* and rows of dead programs lie around.
TCXOrder ==
    \A k, l \in TCXLinks : Precedes(k, l) =>
        \A i, j \in DOMAIN chain : chain[i] = k.prog /\ chain[j] = l.prog => i < j

=============================================================================
