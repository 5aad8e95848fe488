-------------------------- MODULE ProgramLifecycle --------------------------
(***************************************************************************)
(* Loading, reaping and unloading programs (manager/load.go and unload.go) *)
(* by several bpfman processes that share the kernel, the bpffs, the       *)
(* bytecode directory and the store.                                       *)
(*                                                                         *)
(* A load that names a map owner, or whose object has LIBBPF_PIN_BY_NAME   *)
(* maps, runs under the cross-process writer lock; an ordinary load takes  *)
(* the lock only to reap the rows of dead programs and then goes on        *)
(* without it.  An unload always holds it.                                 *)
(*                                                                         *)
(* A program lives in the kernel exactly as long as its pin: links, which  *)
(* also keep programs alive, are the subject of the link modules.          *)
(***************************************************************************)
EXTENDS Naturals, Sequences, FiniteSets

CONSTANTS
    Processes,  \* the daemon and the CLI processes
    IDs,        \* kernel program ids
    MapNames,   \* names of LIBBPF_PIN_BY_NAME maps
    Batches,    \* the program lists clients load: sequences of LoadSpec
    Faults      \* the failures that may happen

None == 0

FaultKinds ==
    {"lock", "observe", "reap", "load", "publish", "publishshared", "commit", "undo",
     "detach", "shared", "delete", "gc", "bytecode", "crash", "die", "reuse"}

\* One program of a load: the map owner it names (None: its own maps) and
\* the pin-by-name maps of its object.
LoadSpec == [owner: IDs \cup {None}, shared: SUBSET MapNames]

\* The failures a load undoes, with calls that succeed.
LoadFaults == {"lock", "observe", "load", "publish", "commit"}

ASSUME IdAssumption     == None \notin IDs /\ None \notin Processes
ASSUME BatchAssumption  == Batches \subseteq Seq(LoadSpec) \ {<<>>}
ASSUME FaultsAssumption == Faults \subseteq FaultKinds

VARIABLES
    rows,       \* store: managed_programs
    mapSets,    \* store: map_sets
    refs,       \* store: shared_map_pins
    live,       \* kernel and bpffs: the programs and their pins prog_{id}
    mapDirs,    \* bpffs: the map pin directories maps/{id}
    sharedPins, \* bpffs: the pins shared/{name}
    bytecode,   \* file system: the directories programs/{id}
    used,       \* history: the ids the kernel has handed out
    lock,       \* the holder of the writer lock
    pc, op,     \* where each process is, and what it is doing
    faults,     \* the failures that happen in this behaviour
    promised,   \* history: programs loaded, not asked to go, not killed
    doomed      \* history: programs a client asked to unload, still in rows

store == <<rows, mapSets, refs>>
files == <<live, mapDirs, sharedPins, bytecode>>
ghost == <<used, promised, doomed, faults>>
vars  == <<store, files, ghost, lock, pc, op>>

\* Handles.MapOwnerID is nil exactly for a program that is its own map set.
Record == [id: IDs, set: IDs, shared: SUBSET MapNames]
Ref    == [name: MapNames, id: IDs]

NoOp == [kind |-> "none", todo |-> <<>>, loaded |-> <<>>, now |-> <<>>,
         target |-> None, listed |-> {}, plan |-> {}]

IdsOf(R) == {r.id : r \in R}

NeedsLock(batch) ==
    \E i \in DOMAIN batch : batch[i].owner # None \/ batch[i].shared # {}

Init ==
    /\ rows = {} /\ mapSets = {} /\ refs = {}
    /\ live = {} /\ mapDirs = {} /\ sharedPins = {} /\ bytecode = {}
    /\ used = {} /\ promised = {} /\ doomed = {}
    /\ faults \in {Faults, Faults \cap LoadFaults}
    /\ lock = None
    /\ pc = [p \in Processes |-> "idle"]
    /\ op = [p \in Processes |-> NoOp]

Goto(p, l) == pc' = [pc EXCEPT ![p] = l]

\* The operation returns; lock.Run releases the lock if it was held.
Return(p) ==
    /\ Goto(p, "idle")
    /\ op' = [op EXCEPT ![p] = NoOp]
    /\ lock' = IF lock = p THEN None ELSE lock

\* Steps that may fail: what they remove is removed, or (with the failure
\* among faults) stays.
Removing(S, x, fault) == {S \ x} \cup IF fault \in faults THEN {S} ELSE {}

-----------------------------------------------------------------------------
(***************************************************************************)
(* Requests and the writer lock                                            *)
(***************************************************************************)

Load(p, batch) ==
    /\ pc[p] = "idle"
    /\ op' = [op EXCEPT ![p] = [NoOp EXCEPT !.kind = IF NeedsLock(batch) THEN "locked" ELSE "lockless",
                                            !.todo = batch]]
    /\ Goto(p, "lock")
    /\ UNCHANGED <<store, files, ghost, lock>>

Unload(p, id) ==
    /\ pc[p] = "idle"
    /\ op' = [op EXCEPT ![p] = [NoOp EXCEPT !.kind = "unload", !.target = id]]
    /\ Goto(p, "lock")
    /\ UNCHANGED <<store, files, ghost, lock>>

Acquire(p) ==
    /\ pc[p] = "lock"
    /\ lock = None
    /\ lock' = p
    /\ Goto(p, CASE op[p].kind = "locked"   -> "validate"
                 [] op[p].kind = "lockless" -> "list"
                 [] op[p].kind = "unload"   -> "get")
    /\ UNCHANGED <<store, files, ghost, op>>

\* The wait is cancelled.  An ordinary load only loses its reap.
AcquireFails(p) ==
    /\ pc[p] = "lock"
    /\ "lock" \in faults
    /\ IF op[p].kind = "lockless" THEN Goto(p, "kernel") /\ UNCHANGED <<op, lock>> ELSE Return(p)
    /\ UNCHANGED <<store, files, ghost>>

-----------------------------------------------------------------------------
(***************************************************************************)
(* Reaping the rows of programs the kernel no longer has                   *)
(***************************************************************************)

\* validateExplicitMapOwners, before the reap.
ValidateOwners(p) ==
    /\ pc[p] = "validate"
    /\ IF \A i \in DOMAIN op[p].todo : op[p].todo[i].owner \in mapSets \cup {None}
         THEN Goto(p, "list") /\ UNCHANGED <<op, lock>>
         ELSE Return(p)
    /\ UNCHANGED <<store, files, ghost>>

\* planReap: the dead rows, but an owner only if all that share its maps are
\* dead rows too.  (A program that shares maps cannot be an owner itself.)
PlanReap(R, alive) ==
    {id \in IdsOf(R) \ alive : \A r \in R : r.set = id => r.id \notin alive}

\* Mutant: the kernel is enumerated before the rows are listed.
ObserveKernelFirst(p) ==
    \/ /\ pc[p] = "list"
       /\ op' = [op EXCEPT ![p].plan = live]
       /\ Goto(p, "enumerate")
       /\ UNCHANGED <<store, files, ghost, lock>>
    \/ /\ pc[p] = "enumerate"
       /\ op' = [op EXCEPT ![p].plan = PlanReap(rows, op[p].plan)]
       /\ Goto(p, "reap")
       /\ UNCHANGED <<store, files, ghost, lock>>

\* observeDeadProgramReapSnapshot: first the rows, then the kernel.  Other
\* processes load without the lock between the two.
Observe(p) ==
    \/ /\ pc[p] = "list"
       /\ op' = [op EXCEPT ![p].listed = rows]
       /\ Goto(p, "enumerate")
       /\ UNCHANGED <<store, files, ghost, lock>>
    \/ /\ pc[p] = "enumerate"
       /\ op' = [op EXCEPT ![p].plan = PlanReap(op[p].listed, live), ![p].listed = {}]
       /\ Goto(p, "reap")
       /\ UNCHANGED <<store, files, ghost, lock>>

\* A failed observation aborts the reap, not the load.
ObserveFails(p) ==
    /\ pc[p] \in {"list", "enumerate"}
    /\ "observe" \in faults
    /\ op' = [op EXCEPT ![p].listed = {}]
    /\ Goto(p, "reap")
    /\ UNCHANGED <<store, files, ghost, lock>>

\* DeleteSharedMapPins, and the removal of the pins nobody refers to now.
CleanupSharedMapPins(id, fault) ==
    LET left     == {f \in refs : f.id # id}
        orphaned == {f.name : f \in refs \ left} \ {f.name : f \in left}
    IN  \/ /\ refs' = left
           /\ sharedPins' \in Removing(sharedPins, orphaned, fault)
        \/ fault \in faults /\ UNCHANGED <<refs, sharedPins>>

\* executeReapDeadProgramRecord: dependents before their owner.
ReapPins(p, id) ==
    /\ pc[p] = "reap"
    /\ id \in op[p].plan
    /\ \A r \in rows : r.set = id /\ r.id # id => r.id \notin op[p].plan
    /\ mapDirs' \in Removing(mapDirs, {id}, "reap")
    /\ CleanupSharedMapPins(id, "reap")
    /\ op' = [op EXCEPT ![p].target = id, ![p].plan = @ \ {id}]
    /\ Goto(p, "reaprow")
    /\ UNCHANGED <<rows, mapSets, live, bytecode, ghost, lock>>

\* The row goes (shared_map_pins cascades), then the bytecode.  The map set
\* of the program stays.
ReapRow(p) ==
    LET id == op[p].target
    IN  /\ pc[p] = "reaprow"
        /\ \/ /\ rows' = {r \in rows : r.id # id}
              /\ refs' = {f \in refs : f.id # id}
              /\ doomed' = doomed \ {id}
              /\ bytecode' \in Removing(bytecode, {id}, "reap")
           \/ "reap" \in faults /\ UNCHANGED <<rows, refs, doomed, bytecode>>
        /\ op' = [op EXCEPT ![p].target = None]
        /\ Goto(p, "reap")
        /\ UNCHANGED <<mapSets, live, mapDirs, sharedPins, used, promised, faults, lock>>

\* An ordinary load releases the lock here.
ReapDone(p) ==
    /\ pc[p] = "reap"
    /\ op[p].plan = {}
    /\ lock' = IF op[p].kind = "lockless" THEN None ELSE lock
    /\ Goto(p, "kernel")
    /\ UNCHANGED <<store, files, ghost, op>>

-----------------------------------------------------------------------------
(***************************************************************************)
(* Loading                                                                 *)
(***************************************************************************)

\* Ids the kernel may give a program.  A pinned program keeps its id.
FreeIDs == IF "reuse" \in faults THEN IDs \ live ELSE IDs \ (used \cup live)

\* The pins of the shared maps are made, or found, before the program loads.
SharedPinned(s) == sharedPins \cup IF s.owner = None THEN s.shared ELSE {}

\* Mutant: the owner of a program's maps is taken as given.
MapSetAsGiven(s, id) == s.owner

\* The map set of a program: the owner's, or its own.
MapSet(s, id) == IF s.owner = None THEN id ELSE s.owner

\* kernel.Load: load and pin one program, and its maps unless they are the
\* owner's.
KernelLoad(p) ==
    /\ pc[p] = "kernel" /\ op[p].todo # <<>>
    /\ LET s == Head(op[p].todo) IN
         /\ s.owner \in mapDirs \cup {None}
         /\ \E id \in FreeIDs :
              /\ s.owner = None => id \notin mapDirs
              /\ live' = live \cup {id}
              /\ used' = used \cup {id}
              /\ mapDirs' = mapDirs \cup IF s.owner = None THEN {id} ELSE {}
              /\ op' = [op EXCEPT ![p].todo = Tail(@),
                                  ![p].now = <<[id |-> id, set |-> MapSet(s, id), shared |-> s.shared]>>]
         /\ sharedPins' = SharedPinned(s)
    /\ Goto(p, "publish")
    /\ UNCHANGED <<store, bytecode, promised, doomed, faults, lock>>

\* The owner has no map pins; the verifier refuses the program; or a map pin
\* is already there (EEXIST), and then the cleanup removes the directory it
\* was to be in.  A pin-by-name pin made on the way is left.
KernelLoadFails(p) ==
    /\ pc[p] = "kernel" /\ op[p].todo # <<>>
    /\ LET s == Head(op[p].todo) IN
         \/ /\ s.owner \notin mapDirs \cup {None}
            /\ UNCHANGED <<sharedPins, mapDirs>>
         \/ /\ s.owner \in mapDirs \cup {None}
            /\ "load" \in faults \/ FreeIDs = {}
            /\ sharedPins' = SharedPinned(s)
            /\ UNCHANGED mapDirs
         \/ \E id \in FreeIDs \cap mapDirs :
            /\ s.owner = None
            /\ sharedPins' = SharedPinned(s)
            /\ mapDirs' = mapDirs \ {id}
    /\ Goto(p, "cleanup")
    /\ UNCHANGED <<store, live, bytecode, ghost, lock, op>>

PublishBytecode(p) ==
    /\ pc[p] = "publish"
    /\ LET r == Head(op[p].now) IN
         /\ r.id \notin bytecode
         /\ bytecode' = bytecode \cup {r.id}
         /\ op' = [op EXCEPT ![p].loaded = Append(@, r), ![p].now = <<>>]
    /\ Goto(p, "kernel")
    /\ UNCHANGED <<store, live, mapDirs, sharedPins, ghost, lock>>

\* Mutant: the undo forgets the program pin.
PublishFailsPinned(p) ==
    /\ pc[p] = "publish"
    /\ "publish" \in faults
    /\ mapDirs' = mapDirs \ {Head(op[p].now).set}
    /\ op' = [op EXCEPT ![p].now = <<>>]
    /\ Goto(p, "cleanup")
    /\ UNCHANGED <<store, live, bytecode, sharedPins, ghost, lock>>

\* The plan's undo for the program just loaded: its pin, and the directory of
\* its maps, which is the owner's for a program that shares them.
PublishFails(p) ==
    /\ pc[p] = "publish"
    /\ LET r == Head(op[p].now) IN
         /\ \/ r.id \in bytecode
            \/ r.set = r.id /\ "publish" \in faults
            \/ r.set # r.id /\ "publishshared" \in faults
         /\ live' \in Removing(live, {r.id}, "undo")
         /\ mapDirs' \in Removing(mapDirs, {r.set}, "undo")
    /\ op' = [op EXCEPT ![p].now = <<>>]
    /\ Goto(p, "cleanup")
    /\ UNCHANGED <<store, bytecode, sharedPins, ghost, lock>>

Loaded(p) == {op[p].loaded[i] : i \in DOMAIN op[p].loaded}

\* Phase B is refused when an id has a row, when the map set of a program with
\* its own maps exists, or (foreign key) when the owner's does not.
Committable(p) ==
    \A r \in Loaded(p) :
        /\ r.id \notin IdsOf(rows)
        /\ (r.set = r.id) = (r.set \notin mapSets)

\* Phase B: one transaction for the batch.
Commit(p) ==
    /\ pc[p] = "kernel" /\ op[p].todo = <<>>
    /\ Committable(p)
    /\ rows' = rows \cup Loaded(p)
    /\ mapSets' = mapSets \cup {r.set : r \in Loaded(p)}
    /\ refs' = refs \cup UNION {[name: r.shared, id: {r.id}] : r \in Loaded(p)}
    /\ promised' = promised \cup (IdsOf(Loaded(p)) \cap live)
    /\ Return(p)
    /\ UNCHANGED <<files, used, doomed, faults>>

CommitFails(p) ==
    /\ pc[p] = "kernel" /\ op[p].todo = <<>>
    /\ ~Committable(p) \/ "commit" \in faults
    /\ Goto(p, "cleanup")
    /\ UNCHANGED <<store, files, ghost, lock, op>>

\* cleanupLoaded: unload with persisted = false, last program first.  It only
\* touches what carries the id of a program that this process loaded, so one
\* step per program is as good as one per call.
UnloadLoaded(p) ==
    /\ pc[p] = "cleanup" /\ op[p].loaded # <<>>
    /\ LET n == Len(op[p].loaded)
           r == op[p].loaded[n]
       IN  /\ op' = [op EXCEPT ![p].loaded = SubSeq(@, 1, n - 1)]
           /\ \/ /\ live' = live \ {r.id}
                 /\ CleanupSharedMapPins(r.id, "undo")
                 /\ mapDirs' \in Removing(mapDirs, IF r.set = r.id /\ r.id \notin mapSets THEN {r.id} ELSE {},
                                          "undo")
                 /\ bytecode' \in Removing(bytecode, {r.id}, "undo")
              \/ "undo" \in faults /\ UNCHANGED <<files, refs>>
    /\ UNCHANGED <<rows, mapSets, ghost, lock, pc>>

LoadFailed(p) ==
    /\ pc[p] = "cleanup" /\ op[p].loaded = <<>>
    /\ Return(p)
    /\ UNCHANGED <<store, files, ghost>>

-----------------------------------------------------------------------------
(***************************************************************************)
(* Unloading                                                               *)
(***************************************************************************)

\* Mutant: a program the kernel no longer has is not found.
GetLiveProgram(p) ==
    /\ pc[p] = "get"
    /\ \/ \E r \in rows : /\ r.id = op[p].target /\ r.id \in live
                          /\ op' = [op EXCEPT ![p].now = <<r>>]
                          /\ promised' = promised \ {r.id}
                          /\ doomed' = doomed \cup {r.id}
                          /\ Goto(p, "detach")
                          /\ UNCHANGED lock
       \/ op[p].target \notin IdsOf(rows) \cap live /\ Return(p) /\ UNCHANGED <<promised, doomed>>
    /\ UNCHANGED <<store, files, used, faults>>

\* The row, whether or not the program still lives.
GetProgram(p) ==
    /\ pc[p] = "get"
    /\ \/ \E r \in rows : /\ r.id = op[p].target
                          /\ op' = [op EXCEPT ![p].now = <<r>>]
                          /\ promised' = promised \ {r.id}
                          /\ doomed' = doomed \cup {r.id}
                          /\ Goto(p, "detach")
                          /\ UNCHANGED lock
       \/ op[p].target \notin IdsOf(rows) /\ Return(p) /\ UNCHANGED <<promised, doomed>>
    /\ UNCHANGED <<store, files, used, faults>>

\* detachAllLinks and unloadKernelProgram, the point of no return.  A pin that
\* is gone already is no error.
UnloadKernelProgram(p) ==
    /\ pc[p] = "detach"
    /\ live' = live \ {op[p].target}
    /\ Goto(p, "shared")
    /\ UNCHANGED <<store, mapDirs, sharedPins, bytecode, ghost, lock, op>>

UnloadKernelProgramFails(p) ==
    /\ pc[p] = "detach"
    /\ "detach" \in faults
    /\ Return(p)
    /\ UNCHANGED <<store, files, ghost>>

UnloadSharedMapPins(p) ==
    /\ pc[p] = "shared"
    /\ CleanupSharedMapPins(op[p].target, "shared")
    /\ Goto(p, "row")
    /\ UNCHANGED <<rows, mapSets, live, mapDirs, bytecode, ghost, lock, op>>

DeleteProgramRecord(p) ==
    /\ pc[p] = "row"
    /\ rows' = {r \in rows : r.id # op[p].target}
    /\ refs' = {f \in refs : f.id # op[p].target}
    /\ doomed' = doomed \ {op[p].target}
    /\ Goto(p, "gc")
    /\ UNCHANGED <<mapSets, files, used, promised, faults, lock, op>>

\* The one failure that is returned; the map set is left alone, the bytecode
\* is not.
DeleteProgramRecordFails(p) ==
    /\ pc[p] = "row"
    /\ "delete" \in faults
    /\ Goto(p, "bytecode")
    /\ UNCHANGED <<store, files, ghost, lock, op>>

\* gcMapSetIfUnused: count the users of the set, remove its pins, then its row
\* (which the foreign key keeps while a program refers to it).
CountMapSetUsers(p) ==
    /\ pc[p] = "gc"
    /\ Goto(p, IF \E r \in rows : r.set = Head(op[p].now).set THEN "bytecode" ELSE "gcpins")
    /\ UNCHANGED <<store, files, ghost, lock, op>>

RemoveMapSetPins(p) ==
    /\ pc[p] = "gcpins"
    /\ \/ mapDirs' = mapDirs \ {Head(op[p].now).set} /\ Goto(p, "gcrow")
       \/ "gc" \in faults /\ UNCHANGED mapDirs /\ Goto(p, "bytecode")
    /\ UNCHANGED <<store, live, sharedPins, bytecode, ghost, lock, op>>

DeleteMapSet(p) ==
    LET set == Head(op[p].now).set
    IN  /\ pc[p] = "gcrow"
        /\ mapSets' \in IF \E r \in rows : r.set = set THEN {mapSets} ELSE Removing(mapSets, {set}, "gc")
        /\ Goto(p, "bytecode")
        /\ UNCHANGED <<rows, refs, files, ghost, lock, op>>

RemoveProgramBytecodeDir(p) ==
    /\ pc[p] = "bytecode"
    /\ bytecode' \in Removing(bytecode, {op[p].target}, "bytecode")
    /\ Return(p)
    /\ UNCHANGED <<store, live, mapDirs, sharedPins, ghost>>

-----------------------------------------------------------------------------
(***************************************************************************)
(* The environment                                                         *)
(***************************************************************************)

\* The process dies; the kernel releases its lock.
Crash(p) ==
    /\ pc[p] \notin {"idle", "dead"}
    /\ "crash" \in faults
    /\ Goto(p, "dead")
    /\ op' = [op EXCEPT ![p] = NoOp]
    /\ lock' = IF lock = p THEN None ELSE lock
    /\ UNCHANGED <<store, files, ghost>>

Restart(p) ==
    /\ pc[p] = "dead"
    /\ Goto(p, "idle")
    /\ UNCHANGED <<store, files, ghost, lock, op>>

\* A program dies without an unload (its pin is removed from outside).
ProgramDies(id) ==
    /\ "die" \in faults
    /\ id \in live
    /\ live' = live \ {id}
    /\ promised' = promised \ {id}
    /\ UNCHANGED <<store, mapDirs, sharedPins, bytecode, used, doomed, faults, lock, pc, op>>

Request(p) ==
    \/ \E batch \in Batches : Load(p, batch)
    \/ \E id \in IDs : Unload(p, id)

Step(p) ==
    \/ AcquireFails(p)
    \/ ValidateOwners(p) \/ Observe(p) \/ ObserveFails(p)
    \/ \E id \in IDs : ReapPins(p, id)
    \/ ReapRow(p) \/ ReapDone(p)
    \/ KernelLoad(p) \/ KernelLoadFails(p)
    \/ PublishBytecode(p) \/ PublishFails(p)
    \/ Commit(p) \/ CommitFails(p)
    \/ UnloadLoaded(p) \/ LoadFailed(p)
    \/ GetProgram(p) \/ UnloadKernelProgram(p) \/ UnloadKernelProgramFails(p)
    \/ UnloadSharedMapPins(p)
    \/ DeleteProgramRecord(p) \/ DeleteProgramRecordFails(p)
    \/ CountMapSetUsers(p) \/ RemoveMapSetPins(p) \/ DeleteMapSet(p)
    \/ RemoveProgramBytecodeDir(p)
    \/ Restart(p)

Next ==
    \/ \E p \in Processes : Request(p) \/ Acquire(p) \/ Step(p) \/ Crash(p)
    \/ \E id \in IDs : ProgramDies(id)

Spec == Init /\ [][Next]_vars

\* A running process is scheduled.  The lock has no queue (acquireWriter polls
\* it): a waiter is sure of it only if it stays free, and may lose every race.
\* A client whose unload failed asks again.
FairSpec ==
    /\ Spec
    /\ \A p \in Processes : WF_vars(Step(p) \/ Acquire(p))
    /\ \A id \in IDs : SF_vars(\E p \in Processes : id \in doomed /\ Unload(p, id))

-----------------------------------------------------------------------------
(***************************************************************************)
(* Properties                                                              *)
(***************************************************************************)

Labels ==
    {"idle", "dead", "lock", "validate", "list", "enumerate", "reap", "reaprow", "kernel", "publish",
     "cleanup", "get", "detach", "shared", "row", "gc", "gcpins", "gcrow", "bytecode"}

Operation ==
    [kind: {"none", "locked", "lockless", "unload"}, todo: Seq(LoadSpec), loaded: Seq(Record),
     now: Seq(Record), target: IDs \cup {None}, listed: SUBSET Record, plan: SUBSET IDs]

\* The types of the tables, the files and the state of each process.
TypeOK ==
    /\ rows \subseteq Record /\ mapSets \subseteq IDs /\ refs \subseteq Ref
    /\ live \subseteq IDs /\ mapDirs \subseteq IDs
    /\ sharedPins \subseteq MapNames /\ bytecode \subseteq IDs
    /\ used \subseteq IDs /\ promised \subseteq IDs /\ doomed \subseteq IDs /\ faults \subseteq Faults
    /\ lock \in Processes \cup {None}
    /\ pc \in [Processes -> Labels]
    /\ op \in [Processes -> Operation]

\* Everything the record of a program speaks of is there.
Intact(r) ==
    /\ r.id \in live
    /\ r.set \in mapSets \cap mapDirs
    /\ r.id \in bytecode
    /\ [name: r.shared, id: {r.id}] \subseteq refs
    /\ r.set = r.id => r.shared \subseteq sharedPins

\* A program whose load was committed, that nobody asked to unload and that
\* was not killed from outside keeps its row, its pins, the pins of the maps
\* it shares and its bytecode, whatever other processes load, roll back,
\* unload or reap meanwhile, with or without the lock.
LoadedIntact == \A id \in promised : \E r \in rows : r.id = id /\ Intact(r)

AllIdle == \A p \in Processes : pc[p] = "idle"

\* As long as the calls of its undo succeed and nobody crashes, a load that
\* failed has left no program, no map directory, no bytecode and no row
\* behind, and neither has an unload.
NothingLeftBehind ==
    AllIdle /\ faults \subseteq LoadFaults =>
               /\ live = IdsOf(rows)
               /\ bytecode = IdsOf(rows)
               /\ mapSets = {r.set : r \in rows}
               /\ mapDirs = mapSets

\* A call fails although nothing stands in its way.
InjectedFailure ==
    \/ \E p \in Processes : \/ AcquireFails(p)
                            \/ UnloadKernelProgramFails(p)
                            \/ DeleteProgramRecordFails(p)
                            \/ Crash(p)

\* Once calls stop failing, a program that clients ask to unload, and keep
\* asking to, leaves the store: neither a failed attempt, nor another process
\* with the lock, a load of its own or a crash between two steps, nor maps
\* shared with the program stand in the way for ever.
UnloadConverges ==
    <>[][~InjectedFailure]_vars => \A id \in IDs : (id \in doomed) ~> (id \notin doomed)

=============================================================================
