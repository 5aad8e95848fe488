----------------------- MODULE ProgramLifecycleProofs -----------------------
(***************************************************************************)
(* Proofs about ProgramLifecycle: a program that was loaded stays intact   *)
(* although ordinary loads run without the writer lock, for any number of  *)
(* processes, programs and maps.                                           *)
(***************************************************************************)
EXTENDS ProgramLifecycle, TLAPS

ReapStages   == {"list", "enumerate", "reap", "reaprow"}
LoadStages   == {"kernel", "publish", "cleanup"}
Removal      == {"detach", "shared", "row", "gc", "gcpins", "gcrow", "bytecode"}
UnloadStages == Removal \cup {"get"}

Items(s) == {s[i] : i \in DOMAIN s}

\* The programs an operation has loaded and not committed.
PendingOf(o)  == IF o.kind = "unload" THEN {} ELSE Items(o.loaded) \cup Items(o.now)
Pending(p)    == PendingOf(op[p])
PendingIDs(p) == IdsOf(Pending(p))

\* The recorded programs and map sets an operation is about to remove.
TouchedAt(l, o) ==
    IdsOf(o.listed) \cup o.plan
        \cup (IF l \in Removal \cup {"reaprow"} THEN {o.target} ELSE {})
        \cup (IF l \in Removal THEN {r.set : r \in Items(o.now)} ELSE {})
Touched(p) == TouchedAt(pc[p], op[p])

\* The stages in which an operation has the writer lock.
HoldsAt(l, o) ==
    \/ l \in ReapStages \cup UnloadStages \cup {"validate"}
    \/ l \in LoadStages /\ o.kind = "locked"
Holds(p) == HoldsAt(pc[p], op[p])

\* An operation without the lock has maps of its own only.
OwnMaps(o) ==
    /\ \A s \in Items(o.todo) : s.owner = None /\ s.shared = {}
    /\ \A r \in PendingOf(o) : r.set = r.id /\ r.shared = {}

\* What the locals of an operation hold at each stage.
StageOK(l, o) ==
    /\ l \in {"idle", "dead"} => o = NoOp
    /\ l \in ReapStages \cup LoadStages => o.kind \in {"locked", "lockless"}
    /\ l = "validate" => o.kind = "locked"
    /\ l \in UnloadStages => o.kind = "unload"
    /\ l = "lock" => o.kind # "none"
    /\ l \notin {"reap", "reaprow"} => o.plan = {}
    /\ l # "enumerate" => o.listed = {}
    /\ l \notin LoadStages => o.loaded = <<>>
    /\ l \notin Removal \cup {"publish"} => o.now = <<>>
    /\ l \in Removal \cup {"publish"} => \E r \in Record : o.now = <<r>>
    /\ l \in Removal => o.target \in IDs /\ \A r \in Items(o.now) : r.id = o.target
    /\ l = "reaprow" => o.target \in IDs
    /\ o.kind = "lockless" => OwnMaps(o)

\* TypeOK without the lock and the processes.
Tables ==
    /\ rows \subseteq Record /\ mapSets \subseteq IDs /\ refs \subseteq Ref
    /\ live \subseteq IDs /\ mapDirs \subseteq IDs
    /\ sharedPins \subseteq MapNames /\ bytecode \subseteq IDs
    /\ used \subseteq IDs /\ promised \subseteq IDs /\ doomed \subseteq IDs /\ faults \subseteq Faults

TypeInv ==
    /\ TypeOK
    /\ \A p \in Processes : StageOK(pc[p], op[p]) /\ (Holds(p) => lock = p)

\* What a process has loaded is nobody else's, and complete until it is
\* committed or cleaned up.
PendingInv(p) ==
    /\ PendingIDs(p) \subseteq used \ (IdsOf(rows) \cup mapSets)
    /\ pc[p] \in {"kernel", "publish"} =>
          /\ \A s \in Items(op[p].todo) : s.owner \in mapSets \cup {None}
          /\ \A r \in Pending(p) : /\ r.set \in mapDirs
                                   /\ r.set # r.id => r.set \in mapSets
                                   /\ r.set = r.id => r.shared \subseteq sharedPins
          /\ IdsOf(Items(op[p].loaded)) \subseteq bytecode
    /\ pc[p] = "publish" => IdsOf(Items(op[p].now)) \cap bytecode = {}

\* The owners named by a load that holds the lock stay.
OwnersInv(p) ==
    pc[p] \in ReapStages => \A s \in Items(op[p].todo) : s.owner \in mapSets \cup {None}

\* What a reap or an unload is about to remove is dead, or not promised.
RemovalInv(p) ==
    /\ Touched(p) \subseteq used
    /\ pc[p] = "enumerate" =>
          \A r \in rows : {r.id, r.set} \cap IdsOf(op[p].listed) # {} => r \in op[p].listed
    /\ op[p].plan \cap live = {}
    /\ \A r \in rows : {r.id, r.set} \cap op[p].plan # {} => r.id \notin live
    /\ pc[p] = "reaprow" => op[p].target \notin live
    /\ pc[p] \in Removal => op[p].target \notin promised
    /\ pc[p] \in {"gcpins", "gcrow"} =>
          \A r \in rows : \A s \in Items(op[p].now) : r.set # s.set

\* Ids are handed out once, rows have their map set and references a row.
StoreInv ==
    /\ live \cup IdsOf(rows) \cup mapSets \cup mapDirs \cup bytecode \subseteq used
    /\ {r.set : r \in rows} \subseteq mapSets
    /\ {f.id : f \in refs} \subseteq IdsOf(rows)

Apart ==
    \A p, q \in Processes :
        /\ PendingIDs(p) \cap Touched(q) = {}
        /\ p # q => PendingIDs(p) \cap PendingIDs(q) = {}

LoadInv ==
    /\ StoreInv /\ Apart /\ LoadedIntact
    /\ \A p \in Processes : PendingInv(p) /\ OwnersInv(p) /\ RemovalInv(p)

-----------------------------------------------------------------------------
(***************************************************************************)
(* Sequences                                                               *)
(***************************************************************************)
LEMMA ItemsShort == ASSUME NEW x PROVE Items(<<>>) = {} /\ Items(<<x>>) = {x} /\ Head(<<x>>) = x
  <1>1. Items(<<>>) = {}
    BY DEF Items
  <1>2. Items(<<x>>) = {x}
    BY DEF Items
  <1> QED BY <1>1, <1>2

LEMMA ItemsType == ASSUME NEW S, NEW s \in Seq(S) PROVE Items(s) \subseteq S
  BY DEF Items

LEMMA ItemsAppend ==
  ASSUME NEW S, NEW s \in Seq(S), NEW x \in S
  PROVE  Append(s, x) \in Seq(S) /\ Items(Append(s, x)) = Items(s) \cup {x}
  <1>1. Append(s, x) \in Seq(S) /\ Len(s) \in Nat /\ DOMAIN s = 1..Len(s)
    OBVIOUS
  <1>2. DOMAIN Append(s, x) = 1..(Len(s) + 1)
    OBVIOUS
  <1>3. \A i \in 1..Len(s) : Append(s, x)[i] = s[i]
    OBVIOUS
  <1>4. Append(s, x)[Len(s) + 1] = x
    OBVIOUS
  <1>5. ASSUME NEW y \in Items(Append(s, x)) PROVE y \in Items(s) \cup {x}
    <2>1. PICK i \in 1..(Len(s) + 1) : y = Append(s, x)[i]
      BY <1>2 DEF Items
    <2>2. i \in 1..Len(s) \/ i = Len(s) + 1
      BY <1>1, <2>1
    <2> QED BY <1>1, <1>3, <1>4, <2>1, <2>2 DEF Items
  <1>6. ASSUME NEW y \in Items(s) PROVE y \in Items(Append(s, x))
    <2>1. PICK i \in 1..Len(s) : y = s[i]
      BY <1>1 DEF Items
    <2>2. i \in 1..(Len(s) + 1)
      BY <1>1, <2>1
    <2> QED BY <1>2, <1>3, <2>1, <2>2 DEF Items
  <1>7. x \in Items(Append(s, x))
    <2>1. Len(s) + 1 \in 1..(Len(s) + 1)
      BY <1>1
    <2> QED BY <1>2, <1>4, <2>1 DEF Items
  <1> QED BY <1>1, <1>5, <1>6, <1>7

\* The first item and the others.
LEMMA ItemsTail ==
  ASSUME NEW S, NEW s \in Seq(S), s # <<>>
  PROVE  Head(s) \in Items(s) /\ Head(s) \in S /\ Tail(s) \in Seq(S) /\ Items(Tail(s)) \subseteq Items(s)
  <1>1. Head(s) = s[1] /\ Tail(s) \in Seq(S) /\ Len(s) \in Nat \ {0} /\ DOMAIN s = 1..Len(s)
    OBVIOUS
  <1>2. DOMAIN Tail(s) = 1..(Len(s) - 1) /\ \A i \in 1..(Len(s) - 1) : Tail(s)[i] = s[i + 1]
    OBVIOUS
  <1>3. 1 \in 1..Len(s)
    BY <1>1
  <1>4. ASSUME NEW y \in Items(Tail(s)) PROVE y \in Items(s)
    <2>1. PICK i \in 1..(Len(s) - 1) : y = Tail(s)[i]
      BY <1>2 DEF Items
    <2>2. i + 1 \in 1..Len(s) /\ y = s[i + 1]
      BY <1>1, <1>2, <2>1
    <2> QED BY <1>1, <2>2 DEF Items
  <1> QED BY <1>1, <1>3, <1>4 DEF Items

\* The last item and the others.
LEMMA ItemsFront ==
  ASSUME NEW S, NEW s \in Seq(S), s # <<>>
  PROVE  /\ s[Len(s)] \in Items(s) /\ s[Len(s)] \in S /\ SubSeq(s, 1, Len(s) - 1) \in Seq(S)
         /\ Items(SubSeq(s, 1, Len(s) - 1)) \subseteq Items(s)
  <1>1. Len(s) \in Nat \ {0} /\ DOMAIN s = 1..Len(s)
    OBVIOUS
  <1>2. Len(s) \in 1..Len(s)
    BY <1>1
  <1>3. /\ SubSeq(s, 1, Len(s) - 1) \in Seq(S)
        /\ DOMAIN SubSeq(s, 1, Len(s) - 1) = 1..(Len(s) - 1)
        /\ \A i \in 1..(Len(s) - 1) : SubSeq(s, 1, Len(s) - 1)[i] = s[i]
    BY <1>1
  <1>4. ASSUME NEW y \in Items(SubSeq(s, 1, Len(s) - 1)) PROVE y \in Items(s)
    <2>1. PICK i \in 1..(Len(s) - 1) : y = SubSeq(s, 1, Len(s) - 1)[i]
      BY <1>3 DEF Items
    <2>2. i \in 1..Len(s)
      BY <1>1, <2>1
    <2> QED BY <1>1, <1>3, <2>1, <2>2 DEF Items
  <1>5. s[Len(s)] \in S
    BY <1>1, <1>2
  <1> QED BY <1>1, <1>2, <1>3, <1>4, <1>5 DEF Items

-----------------------------------------------------------------------------
(***************************************************************************)
(* Types and stages                                                        *)
(***************************************************************************)
LEMMA NoOpType == NoOp \in Operation /\ Items(NoOp.todo) = {} /\ PendingOf(NoOp) = {}
  <1>1. NoOp \in Operation
    BY DEF NoOp, Operation
  <1>2. NoOp.todo = <<>> /\ NoOp.loaded = <<>> /\ NoOp.now = <<>>
    BY DEF NoOp
  <1> QED BY <1>1, <1>2, ItemsShort DEF PendingOf

\* A process moves on: what becomes of the others.
LEMMA Moves ==
  ASSUME TypeInv, NEW p \in Processes, NEW l \in Labels, NEW o \in Operation,
         pc' = [pc EXCEPT ![p] = l], op' = [op EXCEPT ![p] = o]
  PROVE  /\ pc'[p] = l /\ op'[p] = o
         /\ \A q \in Processes : q # p => pc'[q] = pc[q] /\ op'[q] = op[q]
         /\ pc' \in [Processes -> Labels] /\ op' \in [Processes -> Operation]
  BY DEF TypeInv, TypeOK

LEMMA TypeStep ==
  ASSUME TypeInv, NEW p \in Processes, NEW l \in Labels, NEW o \in Operation,
         pc' = [pc EXCEPT ![p] = l], op' = [op EXCEPT ![p] = o],
         StageOK(l, o), HoldsAt(l, o) => lock' = p,
         lock' = lock \/ (lock \in {p, None} /\ lock' \in {p, None}), Tables'
  PROVE  TypeInv'
  <1>1. /\ pc'[p] = l /\ op'[p] = o
        /\ \A q \in Processes : q # p => pc'[q] = pc[q] /\ op'[q] = op[q]
        /\ pc' \in [Processes -> Labels] /\ op' \in [Processes -> Operation]
    BY Moves
  <1>2. lock \in Processes \cup {None}
    BY DEF TypeInv, TypeOK
  <1>3. TypeOK'
    BY <1>1, <1>2 DEF Tables, TypeOK
  <1>4. ASSUME NEW q \in Processes, q # p PROVE StageOK(pc'[q], op'[q]) /\ (Holds(q)' => lock' = q)
    <2>1. StageOK(pc[q], op[q]) /\ (Holds(q) => lock = q)
      BY DEF TypeInv
    <2>2. Holds(q)' <=> Holds(q)
      BY <1>1, <1>4 DEF Holds
    <2>3. lock = q => lock' = q
      BY <1>4, IdAssumption
    <2> QED BY <1>1, <1>4, <2>1, <2>2, <2>3
  <1>5. StageOK(pc'[p], op'[p]) /\ (Holds(p)' => lock' = p)
    BY <1>1 DEF Holds
  <1> QED BY <1>3, <1>4, <1>5 DEF TypeInv

LEMMA ReturnType ==
  ASSUME TypeInv, NEW p \in Processes, NEW l \in {"idle", "dead"}, Goto(p, l),
         op' = [op EXCEPT ![p] = NoOp], lock' = IF lock = p THEN None ELSE lock, Tables'
  PROVE  TypeInv'
  <1>1. StageOK(l, NoOp)
    BY NoOpType DEF StageOK, OwnMaps, NoOp, ReapStages, LoadStages, UnloadStages, Removal
  <1>2. ~HoldsAt(l, NoOp)
    BY DEF HoldsAt, ReapStages, LoadStages, UnloadStages, Removal
  <1>3. l \in Labels
    BY DEF Labels
  <1> QED BY <1>1, <1>2, <1>3, NoOpType, TypeStep DEF Goto

\* What is known of a process at a stage.
LEMMA AtStage ==
  ASSUME TypeInv, NEW p \in Processes
  PROVE  /\ op[p] \in Operation /\ pc[p] \in Labels /\ StageOK(pc[p], op[p]) /\ Tables
         /\ op[p].kind \in {"none", "locked", "lockless", "unload"}
         /\ op[p].todo \in Seq(LoadSpec) /\ op[p].loaded \in Seq(Record) /\ op[p].now \in Seq(Record)
         /\ op[p].target \in IDs \cup {None} /\ op[p].listed \subseteq Record /\ op[p].plan \subseteq IDs
         /\ HoldsAt(pc[p], op[p]) => lock = p
  <1>1. op[p] \in Operation /\ pc[p] \in Labels /\ Tables
    BY DEF TypeInv, TypeOK, Tables
  <1>2. StageOK(pc[p], op[p]) /\ (Holds(p) => lock = p)
    BY DEF TypeInv
  <1> QED BY <1>1, <1>2 DEF Operation, Holds

\* A process that only moves on.
LEMMA GotoType ==
  ASSUME TypeInv, NEW p \in Processes, NEW l \in Labels, Goto(p, l), UNCHANGED op,
         StageOK(l, op[p]), HoldsAt(l, op[p]) => lock' = p,
         lock' = lock \/ (lock \in {p, None} /\ lock' \in {p, None}), Tables'
  PROVE  TypeInv'
  <1>1. op[p] \in Operation /\ op' = [op EXCEPT ![p] = op[p]]
    BY DEF TypeInv, TypeOK
  <1> QED BY <1>1, TypeStep DEF Goto

LEMMA TablesStill == ASSUME TypeInv, UNCHANGED <<store, files, ghost>> PROVE Tables'
  BY DEF TypeInv, TypeOK, Tables, store, files, ghost

LEMMA RequestType == ASSUME TypeInv, NEW p \in Processes, Request(p) PROVE TypeInv'
  <1>1. ASSUME NEW batch \in Batches, Load(p, batch) PROVE TypeInv'
    <2>k. PICK k : k = IF NeedsLock(batch) THEN "locked" ELSE "lockless"
      OBVIOUS
    <2>o. PICK o : o = [NoOp EXCEPT !.kind = k, !.todo = batch]
      OBVIOUS
    <2>1. o = [kind |-> k, todo |-> batch, loaded |-> <<>>, now |-> <<>>, target |-> None,
               listed |-> {}, plan |-> {}]
      BY <2>o DEF NoOp
    <2>2. batch \in Seq(LoadSpec)
      BY BatchAssumption
    <2>3. /\ o.kind \in {"locked", "lockless"} /\ o.todo = batch /\ o.loaded = <<>> /\ o.now = <<>>
          /\ o.target = None /\ o.listed = {} /\ o.plan = {} /\ o \in Operation
          /\ o.kind = "lockless" => ~NeedsLock(batch)
      BY <2>k, <2>1, <2>2 DEF Operation
    <2>4. PendingOf(o) = {}
      BY <2>3, ItemsShort DEF PendingOf
    <2>5. o.kind = "lockless" => OwnMaps(o)
      BY <2>3, <2>4 DEF OwnMaps, NeedsLock, Items
    <2>6. StageOK("lock", o) /\ ~HoldsAt("lock", o) /\ "lock" \in Labels
      BY <2>3, <2>5 DEF StageOK, HoldsAt, Labels, ReapStages, LoadStages, UnloadStages, Removal
    <2>7. pc' = [pc EXCEPT ![p] = "lock"] /\ op' = [op EXCEPT ![p] = o] /\ lock' = lock
      BY <1>1, <2>k, <2>o DEF Load, Goto
    <2>8. Tables'
      BY <1>1, TablesStill DEF Load
    <2> QED BY <2>3, <2>6, <2>7, <2>8, TypeStep
  <1>2. ASSUME NEW id \in IDs, Unload(p, id) PROVE TypeInv'
    <2>o. PICK o : o = [NoOp EXCEPT !.kind = "unload", !.target = id]
      OBVIOUS
    <2>1. o = [kind |-> "unload", todo |-> <<>>, loaded |-> <<>>, now |-> <<>>, target |-> id,
               listed |-> {}, plan |-> {}]
      BY <2>o DEF NoOp
    <2>2. /\ o.kind = "unload" /\ o.todo = <<>> /\ o.loaded = <<>> /\ o.now = <<>>
          /\ o.listed = {} /\ o.plan = {} /\ o \in Operation
      BY <2>1 DEF Operation
    <2>3. StageOK("lock", o) /\ ~HoldsAt("lock", o) /\ "lock" \in Labels
      BY <2>2 DEF StageOK, HoldsAt, Labels, ReapStages, LoadStages, UnloadStages, Removal
    <2>4. pc' = [pc EXCEPT ![p] = "lock"] /\ op' = [op EXCEPT ![p] = o] /\ lock' = lock
      BY <1>2, <2>o DEF Unload, Goto
    <2>5. Tables'
      BY <1>2, TablesStill DEF Unload
    <2> QED BY <2>2, <2>3, <2>4, <2>5, TypeStep
  <1> QED BY <1>1, <1>2 DEF Request

\* Fewer programs are still of the process's own maps.
LEMMA OwnLess ==
  ASSUME NEW o, NEW n, OwnMaps(o), Items(n.todo) \subseteq Items(o.todo), PendingOf(n) \subseteq PendingOf(o)
  PROVE  OwnMaps(n)
  BY DEF OwnMaps

LEMMA AcquireType ==
  ASSUME TypeInv, NEW p \in Processes, Acquire(p) \/ AcquireFails(p) PROVE TypeInv'
  <1>1. /\ pc[p] = "lock" /\ StageOK("lock", op[p])
        /\ op[p].kind \in {"locked", "lockless", "unload"}
    BY AtStage DEF Acquire, AcquireFails, StageOK
  <1>2. Tables'
    BY TablesStill DEF Acquire, AcquireFails
  <1>3. CASE Acquire(p)
    <2>1. PICK l : l = CASE op[p].kind = "locked"   -> "validate"
                         [] op[p].kind = "lockless" -> "list"
                         [] op[p].kind = "unload"   -> "get"
      OBVIOUS
    <2>2. Goto(p, l) /\ lock = None /\ lock' = p /\ UNCHANGED op
      BY <1>3, <2>1 DEF Acquire
    <2>3. /\ op[p].kind = "locked" => l = "validate"
          /\ op[p].kind = "lockless" => l = "list"
          /\ op[p].kind = "unload" => l = "get"
      BY <2>1
    <2>4. l \in Labels /\ StageOK(l, op[p])
      BY <1>1, <2>3 DEF StageOK, HoldsAt, Labels, ReapStages, LoadStages, UnloadStages, Removal
    <2> QED BY <1>2, <2>2, <2>4, GotoType
  <1>4. CASE AcquireFails(p) /\ op[p].kind = "lockless"
    <2>1. Goto(p, "kernel") /\ UNCHANGED <<op, lock>>
      BY <1>4 DEF AcquireFails
    <2>2. "kernel" \in Labels /\ StageOK("kernel", op[p]) /\ ~HoldsAt("kernel", op[p])
      BY <1>1, <1>4 DEF StageOK, HoldsAt, Labels, ReapStages, LoadStages, UnloadStages, Removal
    <2> QED BY <1>2, <2>1, <2>2, GotoType
  <1>5. CASE AcquireFails(p) /\ op[p].kind # "lockless"
    <2>1. Return(p)
      BY <1>5 DEF AcquireFails
    <2> QED BY <1>2, <2>1, ReturnType DEF Return
  <1> QED BY <1>3, <1>4, <1>5

LEMMA ValidateType == ASSUME TypeInv, NEW p \in Processes, ValidateOwners(p) PROVE TypeInv'
  <1>1. pc[p] = "validate" /\ StageOK("validate", op[p]) /\ lock = p
    BY AtStage DEF ValidateOwners, StageOK, HoldsAt, Labels, ReapStages, LoadStages, UnloadStages, Removal
  <1>2. Tables'
    BY TablesStill DEF ValidateOwners
  <1>3. CASE Return(p)
    BY <1>2, <1>3, ReturnType DEF Return
  <1>4. CASE Goto(p, "list") /\ UNCHANGED <<op, lock>>
    <2>1. "list" \in Labels /\ StageOK("list", op[p])
      BY <1>1 DEF StageOK, HoldsAt, Labels, ReapStages, LoadStages, UnloadStages, Removal
    <2> QED BY <1>1, <1>2, <1>4, <2>1, GotoType
  <1> QED BY <1>3, <1>4 DEF ValidateOwners

\* The locals of a reap change.
LEMMA ReapLocals ==
  ASSUME TypeInv, NEW p \in Processes, pc[p] \in ReapStages, NEW l \in ReapStages,
         NEW listed \in SUBSET Record, NEW plan \in SUBSET IDs, NEW target \in IDs \cup {None},
         op' = [op EXCEPT ![p] = [@ EXCEPT !.listed = listed, !.plan = plan, !.target = target]],
         Goto(p, l), lock' = lock, Tables',
         l # "enumerate" => listed = {}, l \notin {"reap", "reaprow"} => plan = {},
         l = "reaprow" => target \in IDs
  PROVE  TypeInv'
  <1>1. /\ op[p] \in Operation /\ StageOK(pc[p], op[p]) /\ lock = p
        /\ op[p].loaded = <<>> /\ op[p].now = <<>> /\ op[p].kind \in {"locked", "lockless"}
    BY AtStage DEF StageOK, HoldsAt, Labels, ReapStages, LoadStages, UnloadStages, Removal
  <1>2. PICK o : o = [op[p] EXCEPT !.listed = listed, !.plan = plan, !.target = target]
    OBVIOUS
  <1>3. /\ o \in Operation /\ o.kind = op[p].kind /\ o.todo = op[p].todo /\ o.loaded = op[p].loaded
        /\ o.now = op[p].now /\ o.listed = listed /\ o.plan = plan /\ o.target = target
    BY <1>1, <1>2 DEF Operation
  <1>4. o.kind = "lockless" => OwnMaps(o)
    BY <1>1, <1>3 DEF StageOK, OwnMaps, PendingOf
  <1>5. StageOK(l, o) /\ l \in Labels
    BY <1>1, <1>3, <1>4 DEF StageOK, HoldsAt, Labels, ReapStages, LoadStages, UnloadStages, Removal
  <1>6. op' = [op EXCEPT ![p] = o]
    BY <1>2 DEF TypeInv, TypeOK
  <1> QED BY <1>1, <1>3, <1>5, <1>6, TypeStep DEF Goto

LEMMA ObserveType ==
  ASSUME TypeInv, NEW p \in Processes, Observe(p) \/ ObserveFails(p) PROVE TypeInv'
  <1>1. /\ pc[p] \in {"list", "enumerate"} /\ Tables' /\ lock' = lock
        /\ op[p] \in Operation /\ Tables /\ op[p].plan = {}
        /\ op[p].listed \subseteq Record /\ op[p].target \in IDs \cup {None}
    BY AtStage, TablesStill DEF Observe, ObserveFails, StageOK
  <1>2. pc[p] \in ReapStages
    BY <1>1 DEF ReapStages
  <1>3. CASE Goto(p, "enumerate") /\ op' = [op EXCEPT ![p].listed = rows]
    <2>1. PICK listed \in SUBSET Record : listed = rows
      BY <1>1 DEF Tables
    <2>2. op' = [op EXCEPT ![p] = [@ EXCEPT !.listed = listed, !.plan = {}, !.target = op[p].target]]
      BY <1>1, <1>3, <2>1 DEF TypeInv, TypeOK, Operation
    <2>3. /\ "enumerate" \in ReapStages /\ {} \in SUBSET IDs /\ op[p].target \in IDs \cup {None}
          /\ Goto(p, "enumerate") /\ Tables' /\ lock' = lock
      BY <1>1, <1>3 DEF ReapStages
    <2> QED BY <1>2, <2>2, <2>3, ReapLocals
  <1>4. CASE Goto(p, "reap") /\ op' = [op EXCEPT ![p].plan = PlanReap(op[p].listed, live), ![p].listed = {}]
    <2>1. PICK plan : plan = PlanReap(op[p].listed, live)
      OBVIOUS
    <2>2. op' = [op EXCEPT ![p] = [@ EXCEPT !.listed = {}, !.plan = plan, !.target = op[p].target]]
      BY <1>1, <1>4, <2>1 DEF TypeInv, TypeOK, Operation
    <2>3. plan \subseteq IDs
      BY <1>1, <2>1 DEF PlanReap, IdsOf, Record
    <2> QED BY <1>1, <1>2, <1>4, <2>2, <2>3, ReapLocals DEF ReapStages
  <1>5. CASE Goto(p, "reap") /\ op' = [op EXCEPT ![p].listed = {}]
    <2>1. op' = [op EXCEPT ![p] = [@ EXCEPT !.listed = {}, !.plan = op[p].plan, !.target = op[p].target]]
      BY <1>1, <1>5 DEF TypeInv, TypeOK, Operation
    <2> QED BY <1>1, <1>2, <1>5, <2>1, ReapLocals DEF ReapStages
  <1> QED BY <1>3, <1>4, <1>5 DEF Observe, ObserveFails

\* What a removal of shared pins leaves.
LEMMA SharedLess ==
  ASSUME NEW id, NEW fault, CleanupSharedMapPins(id, fault)
  PROVE  refs' \subseteq refs /\ sharedPins' \subseteq sharedPins
  BY DEF CleanupSharedMapPins, Removing

LEMMA ReapType ==
  ASSUME TypeInv, NEW p \in Processes,
         (\E id \in IDs : ReapPins(p, id)) \/ ReapRow(p) \/ ReapDone(p)
  PROVE  TypeInv'
  <1>1. Tables /\ op[p] \in Operation /\ op[p].plan \subseteq IDs
    BY AtStage
  <1>2. ASSUME NEW id \in IDs, ReapPins(p, id) PROVE TypeInv'
    <2>1. /\ pc[p] = "reap" /\ op[p].listed = {} /\ Goto(p, "reaprow") /\ lock' = lock
          /\ op' = [op EXCEPT ![p].target = id, ![p].plan = @ \ {id}]
      BY <1>2, AtStage DEF ReapPins, StageOK
    <2>2. op' = [op EXCEPT ![p] = [@ EXCEPT !.listed = {}, !.plan = op[p].plan \ {id}, !.target = id]]
      BY <1>1, <2>1 DEF TypeInv, TypeOK, Operation
    <2>3. mapDirs' \subseteq mapDirs /\ UNCHANGED <<rows, mapSets, live, bytecode, ghost>>
      BY <1>2 DEF ReapPins, Removing
    <2>4. refs' \subseteq refs /\ sharedPins' \subseteq sharedPins
      BY <1>2, SharedLess DEF ReapPins
    <2>5. Tables'
      BY <1>1, <2>3, <2>4 DEF Tables, ghost
    <2> QED BY <1>1, <2>1, <2>2, <2>5, ReapLocals DEF ReapStages
  <1>3. CASE ReapRow(p)
    <2>1. /\ pc[p] = "reaprow" /\ op[p].listed = {} /\ Goto(p, "reap") /\ lock' = lock
          /\ op' = [op EXCEPT ![p].target = None]
      BY <1>3, AtStage DEF ReapRow, StageOK
    <2>2. op' = [op EXCEPT ![p] = [@ EXCEPT !.listed = {}, !.plan = op[p].plan, !.target = None]]
      BY <1>1, <2>1 DEF TypeInv, TypeOK, Operation
    <2>3. /\ rows' \subseteq rows /\ refs' \subseteq refs /\ doomed' \subseteq doomed
          /\ bytecode' \subseteq bytecode
          /\ UNCHANGED <<mapSets, live, mapDirs, sharedPins, used, promised, faults>>
      BY <1>3 DEF ReapRow, Removing
    <2>4. Tables'
      BY <1>1, <2>3 DEF Tables
    <2> QED BY <1>1, <2>1, <2>2, <2>4, ReapLocals DEF ReapStages
  <1>4. CASE ReapDone(p)
    <2>1. /\ pc[p] = "reap" /\ op[p].plan = {} /\ Goto(p, "kernel") /\ UNCHANGED op
          /\ lock' = IF op[p].kind = "lockless" THEN None ELSE lock
      BY <1>4 DEF ReapDone
    <2>2. StageOK("reap", op[p]) /\ lock = p
      BY <2>1, AtStage DEF StageOK, HoldsAt, Labels, ReapStages, LoadStages, UnloadStages, Removal
    <2>3. "kernel" \in Labels /\ StageOK("kernel", op[p])
      BY <2>1, <2>2 DEF StageOK, HoldsAt, Labels, ReapStages, LoadStages, UnloadStages, Removal
    <2>4. HoldsAt("kernel", op[p]) => lock' = p
      BY <2>1, <2>2 DEF StageOK, HoldsAt, Labels, ReapStages, LoadStages, UnloadStages, Removal
    <2>5. Tables'
      BY <1>4, TablesStill DEF ReapDone
    <2> QED BY <2>1, <2>2, <2>3, <2>4, <2>5, GotoType
  <1> QED BY <1>2, <1>3, <1>4

\* The locals of a load change.
LEMMA LoadLocals ==
  ASSUME TypeInv, NEW p \in Processes, pc[p] \in LoadStages, NEW l \in LoadStages,
         NEW todo \in Seq(LoadSpec), NEW loaded \in Seq(Record), NEW now \in Seq(Record),
         op' = [op EXCEPT ![p] = [@ EXCEPT !.todo = todo, !.loaded = loaded, !.now = now]],
         Goto(p, l), lock' = lock, Tables',
         l # "publish" => now = <<>>, l = "publish" => \E r \in Record : now = <<r>>,
         op[p].kind = "lockless" =>
            /\ \A s \in Items(todo) : s.owner = None /\ s.shared = {}
            /\ \A r \in Items(loaded) \cup Items(now) : r.set = r.id /\ r.shared = {}
  PROVE  TypeInv'
  <1>1. /\ op[p] \in Operation /\ StageOK(pc[p], op[p]) /\ op[p].kind \in {"locked", "lockless"}
        /\ op[p].kind = "locked" => lock = p
        /\ op[p].listed = {} /\ op[p].plan = {}
    BY AtStage DEF StageOK, HoldsAt, Labels, ReapStages, LoadStages, UnloadStages, Removal
  <1>2. PICK o : o = [op[p] EXCEPT !.todo = todo, !.loaded = loaded, !.now = now]
    OBVIOUS
  <1>3. /\ o \in Operation /\ o.kind = op[p].kind /\ o.todo = todo /\ o.loaded = loaded
        /\ o.now = now /\ o.listed = {} /\ o.plan = {} /\ o.target = op[p].target
    BY <1>1, <1>2 DEF Operation
  <1>4. o.kind = "lockless" => OwnMaps(o)
    BY <1>1, <1>3 DEF OwnMaps, PendingOf
  <1>5. StageOK(l, o) /\ l \in Labels
    BY <1>1, <1>3, <1>4 DEF StageOK, HoldsAt, Labels, ReapStages, LoadStages, UnloadStages, Removal
  <1>6. op' = [op EXCEPT ![p] = o]
    BY <1>2 DEF TypeInv, TypeOK
  <1>7. HoldsAt(l, o) => lock' = p
    BY <1>1, <1>3 DEF StageOK, HoldsAt, Labels, ReapStages, LoadStages, UnloadStages, Removal
  <1> QED BY <1>3, <1>5, <1>6, <1>7, TypeStep DEF Goto

\* The locals of a load in progress.
LEMMA AtLoad ==
  ASSUME TypeInv, NEW p \in Processes, pc[p] \in LoadStages
  PROVE  /\ op[p].kind \in {"locked", "lockless"} /\ op[p].listed = {} /\ op[p].plan = {}
         /\ Pending(p) = Items(op[p].loaded) \cup Items(op[p].now) /\ Pending(p) \subseteq Record
         /\ pc[p] # "publish" => op[p].now = <<>> /\ Items(op[p].now) = {}
         /\ op[p].kind = "lockless" =>
              /\ \A s \in Items(op[p].todo) : s.owner = None /\ s.shared = {}
              /\ \A r \in Pending(p) : r.set = r.id /\ r.shared = {}
  <1>1. StageOK(pc[p], op[p]) /\ op[p].loaded \in Seq(Record) /\ op[p].now \in Seq(Record)
    BY AtStage
  <1>2. op[p].kind \in {"locked", "lockless"} /\ op[p].listed = {} /\ op[p].plan = {}
    BY <1>1 DEF StageOK, HoldsAt, Labels, ReapStages, LoadStages, UnloadStages, Removal
  <1>3. Pending(p) = Items(op[p].loaded) \cup Items(op[p].now)
    BY <1>2 DEF Pending, PendingOf
  <1>4. Pending(p) \subseteq Record
    BY <1>1, <1>3, ItemsType
  <1>5. pc[p] # "publish" => op[p].now = <<>> /\ Items(op[p].now) = {}
    BY <1>1, ItemsShort DEF StageOK, HoldsAt, Labels, ReapStages, LoadStages, UnloadStages, Removal
  <1>6. op[p].kind = "lockless" =>
              /\ \A s \in Items(op[p].todo) : s.owner = None /\ s.shared = {}
              /\ \A r \in Pending(p) : r.set = r.id /\ r.shared = {}
    BY <1>1 DEF StageOK, OwnMaps, Pending
  <1> QED BY <1>2, <1>3, <1>4, <1>5, <1>6

\* The record of a program that is loaded.
NewRecord(s, id) == [id |-> id, set |-> MapSet(s, id), shared |-> s.shared]

LEMMA NewRecordType ==
  ASSUME NEW s \in LoadSpec, NEW id \in IDs
  PROVE  /\ s.owner \in IDs \cup {None} /\ s.shared \subseteq MapNames
         /\ NewRecord(s, id) \in Record /\ NewRecord(s, id).id = id
         /\ NewRecord(s, id).set = MapSet(s, id) /\ NewRecord(s, id).shared = s.shared
         /\ s.owner = None => MapSet(s, id) = id
         /\ s.owner # None => MapSet(s, id) = s.owner
  BY DEF LoadSpec, NewRecord, MapSet, Record

LEMMA KernelLoadType ==
  ASSUME TypeInv, NEW p \in Processes, KernelLoad(p) PROVE TypeInv'
  <1>1. pc[p] = "kernel" /\ op[p].todo # <<>> /\ pc[p] \in LoadStages /\ Goto(p, "publish")
    BY DEF KernelLoad, LoadStages
  <1>2. Tables /\ op[p] \in Operation /\ op[p].todo \in Seq(LoadSpec) /\ op[p].loaded \in Seq(Record)
    BY AtStage
  <1>3. PICK s : s = Head(op[p].todo)
    OBVIOUS
  <1>4. s \in Items(op[p].todo) /\ s \in LoadSpec /\ Tail(op[p].todo) \in Seq(LoadSpec)
        /\ Items(Tail(op[p].todo)) \subseteq Items(op[p].todo)
    BY <1>1, <1>2, <1>3, ItemsTail
  <1>5. PICK id \in FreeIDs :
           /\ live' = live \cup {id} /\ used' = used \cup {id}
           /\ mapDirs' = mapDirs \cup IF s.owner = None THEN {id} ELSE {}
           /\ op' = [op EXCEPT ![p].todo = Tail(@), ![p].now = <<NewRecord(s, id)>>]
    BY <1>3 DEF KernelLoad, NewRecord
  <1>6. id \in IDs
    BY DEF FreeIDs
  <1>7. PICK r : r = NewRecord(s, id)
    OBVIOUS
  <1>8. r \in Record /\ Items(<<r>>) = {r} /\ <<r>> \in Seq(Record)
    BY <1>4, <1>6, <1>7, NewRecordType, ItemsShort
  <1>9. op' = [op EXCEPT ![p] = [@ EXCEPT !.todo = Tail(op[p].todo), !.loaded = op[p].loaded, !.now = <<r>>]]
    BY <1>2, <1>5, <1>7 DEF TypeInv, TypeOK, Operation
  <1>10. ASSUME op[p].kind = "lockless"
         PROVE  /\ \A t \in Items(Tail(op[p].todo)) : t.owner = None /\ t.shared = {}
                /\ \A t \in Items(op[p].loaded) \cup Items(<<r>>) : t.set = t.id /\ t.shared = {}
    <2>1. s.owner = None /\ s.shared = {}
      BY <1>1, <1>4, <1>10, AtLoad
    <2>2. r.set = r.id /\ r.shared = {}
      BY <1>4, <1>6, <1>7, <2>1, NewRecordType
    <2>3. \A t \in Items(op[p].loaded) : t.set = t.id /\ t.shared = {}
      BY <1>1, <1>10, AtLoad
    <2>4. \A t \in Items(Tail(op[p].todo)) : t.owner = None /\ t.shared = {}
      BY <1>1, <1>4, <1>10, AtLoad
    <2> QED BY <1>8, <2>2, <2>3, <2>4
  <1>11. Tables'
    <2>1. sharedPins' = SharedPinned(s) /\ UNCHANGED <<store, bytecode, promised, doomed, faults>>
      BY <1>3 DEF KernelLoad
    <2>2. sharedPins' \subseteq MapNames
      BY <1>2, <1>4, <1>6, <2>1, NewRecordType DEF SharedPinned, Tables
    <2> QED BY <1>2, <1>5, <1>6, <2>1, <2>2 DEF Tables, store
  <1>12. lock' = lock /\ "publish" \in LoadStages
    BY DEF KernelLoad, LoadStages
  <1> QED BY <1>1, <1>2, <1>4, <1>8, <1>9, <1>10, <1>11, <1>12, LoadLocals

LEMMA KernelLoadFailsType ==
  ASSUME TypeInv, NEW p \in Processes, KernelLoadFails(p) PROVE TypeInv'
  <1>1. /\ pc[p] = "kernel" /\ op[p].todo # <<>> /\ pc[p] \in LoadStages /\ Goto(p, "cleanup")
        /\ UNCHANGED <<store, live, bytecode, ghost, lock, op>>
    BY DEF KernelLoadFails, LoadStages
  <1>2. Tables /\ op[p] \in Operation /\ op[p].todo \in Seq(LoadSpec) /\ StageOK("kernel", op[p])
        /\ (HoldsAt("kernel", op[p]) => lock = p)
    BY <1>1, AtStage
  <1>3. PICK s : s = Head(op[p].todo)
    OBVIOUS
  <1>4. s \in LoadSpec
    BY <1>1, <1>2, <1>3, ItemsTail
  <1>5. mapDirs' \subseteq mapDirs /\ (sharedPins' = sharedPins \/ sharedPins' = SharedPinned(s))
    BY <1>3 DEF KernelLoadFails
  <1>6. SharedPinned(s) \subseteq MapNames
    BY <1>2, <1>4 DEF SharedPinned, Tables, LoadSpec
  <1>7. Tables'
    BY <1>1, <1>2, <1>5, <1>6 DEF Tables, store, ghost
  <1>8. "cleanup" \in Labels /\ StageOK("cleanup", op[p]) /\ (HoldsAt("cleanup", op[p]) => lock' = p)
    BY <1>1, <1>2 DEF StageOK, HoldsAt, Labels, ReapStages, LoadStages, UnloadStages, Removal
  <1> QED BY <1>1, <1>7, <1>8, GotoType

\* The program a load is publishing.
LEMMA AtPublish ==
  ASSUME TypeInv, NEW p \in Processes, pc[p] = "publish"
  PROVE  /\ Head(op[p].now) \in Record /\ op[p].now = <<Head(op[p].now)>>
         /\ Items(op[p].now) = {Head(op[p].now)} /\ Head(op[p].now) \in Pending(p)
         /\ pc[p] \in LoadStages
  <1>1. PICK r \in Record : op[p].now = <<r>>
    BY AtStage DEF StageOK
  <1>2. Head(op[p].now) = r /\ Items(op[p].now) = {r}
    BY <1>1, ItemsShort
  <1>3. pc[p] \in LoadStages
    BY DEF LoadStages
  <1> QED BY <1>1, <1>2, <1>3, AtLoad

LEMMA PublishType ==
  ASSUME TypeInv, NEW p \in Processes, PublishBytecode(p) \/ PublishFails(p) PROVE TypeInv'
  <1>1. pc[p] = "publish" /\ lock' = lock
    BY DEF PublishBytecode, PublishFails
  <1>2. /\ Tables /\ op[p] \in Operation /\ op[p].todo \in Seq(LoadSpec) /\ op[p].loaded \in Seq(Record)
    BY AtStage
  <1>3. PICK r : r = Head(op[p].now)
    OBVIOUS
  <1>4. r \in Record /\ r \in Pending(p) /\ pc[p] \in LoadStages
    BY <1>1, <1>3, AtPublish
  <1>5. Items(<<>>) = {} /\ <<>> \in Seq(Record)
    BY DEF Items
  <1>6. CASE PublishBytecode(p)
    <2>1. PICK loaded : loaded = Append(op[p].loaded, r)
      OBVIOUS
    <2>2. loaded \in Seq(Record) /\ Items(loaded) = Items(op[p].loaded) \cup {r}
      BY <1>2, <1>4, <2>1, ItemsAppend
    <2>3. op' = [op EXCEPT ![p].loaded = Append(@, r), ![p].now = <<>>]
      BY <1>3, <1>6 DEF PublishBytecode
    <2>4. op' = [op EXCEPT ![p] = [@ EXCEPT !.todo = op[p].todo, !.loaded = loaded, !.now = <<>>]]
      BY <1>2, <2>1, <2>3 DEF TypeInv, TypeOK, Operation
    <2>5. Tables' /\ Goto(p, "kernel") /\ "kernel" \in LoadStages
      BY <1>2, <1>3, <1>4, <1>6 DEF PublishBytecode, Tables, Record, store, ghost, LoadStages
    <2>6. op[p].kind = "lockless" =>
            /\ \A s \in Items(op[p].todo) : s.owner = None /\ s.shared = {}
            /\ \A t \in Items(loaded) \cup Items(<<>>) : t.set = t.id /\ t.shared = {}
      BY <1>4, <1>5, <2>2, AtLoad
    <2> QED BY <1>1, <1>2, <1>4, <1>5, <2>2, <2>4, <2>5, <2>6, LoadLocals
  <1>7. CASE PublishFails(p)
    <2>1. op' = [op EXCEPT ![p].now = <<>>]
      BY <1>7 DEF PublishFails
    <2>2. op' = [op EXCEPT ![p] = [@ EXCEPT !.todo = op[p].todo, !.loaded = op[p].loaded, !.now = <<>>]]
      BY <1>2, <2>1 DEF TypeInv, TypeOK, Operation
    <2>3. /\ live' \subseteq live /\ mapDirs' \subseteq mapDirs /\ UNCHANGED <<store, bytecode, sharedPins, ghost>>
          /\ Goto(p, "cleanup") /\ "cleanup" \in LoadStages
      BY <1>7 DEF PublishFails, Removing, LoadStages
    <2>4. Tables'
      BY <1>2, <2>3 DEF Tables, store, ghost
    <2>5. op[p].kind = "lockless" =>
            /\ \A s \in Items(op[p].todo) : s.owner = None /\ s.shared = {}
            /\ \A t \in Items(op[p].loaded) \cup Items(<<>>) : t.set = t.id /\ t.shared = {}
      BY <1>4, <1>5, AtLoad
    <2> QED BY <1>1, <1>2, <1>4, <1>5, <2>2, <2>3, <2>4, <2>5, LoadLocals
  <1> QED BY <1>6, <1>7

\* The references a commit adds.
LEMMA NewRefs ==
  ASSUME NEW R \in SUBSET Record
  PROVE  /\ UNION {[name: r.shared, id: {r.id}] : r \in R} \subseteq Ref
         /\ \A f \in UNION {[name: r.shared, id: {r.id}] : r \in R} : f.id \in IdsOf(R)
  <1> SUFFICES ASSUME NEW r \in R, NEW f \in [name: r.shared, id: {r.id}]
               PROVE  f \in Ref /\ f.id \in IdsOf(R)
    OBVIOUS
  <1>1. r.shared \subseteq MapNames /\ r.id \in IDs
    BY DEF Record
  <1> QED BY <1>1 DEF Ref, IdsOf

LEMMA CommitType == ASSUME TypeInv, NEW p \in Processes, Commit(p) PROVE TypeInv'
  <1>1. /\ pc[p] = "kernel" /\ pc[p] \in LoadStages /\ Tables /\ Loaded(p) \subseteq Record
    BY AtStage, ItemsType DEF Commit, LoadStages, Loaded, Items
  <1>2. /\ rows' = rows \cup Loaded(p) /\ mapSets' = mapSets \cup {r.set : r \in Loaded(p)}
        /\ refs' = refs \cup UNION {[name: r.shared, id: {r.id}] : r \in Loaded(p)}
        /\ promised' = promised \cup (IdsOf(Loaded(p)) \cap live)
        /\ Return(p) /\ UNCHANGED <<files, used, doomed, faults>>
    BY DEF Commit
  <1>3. refs' \subseteq Ref
    BY <1>1, <1>2, NewRefs DEF Tables
  <1>4. mapSets' \subseteq IDs /\ promised' \subseteq IDs /\ rows' \subseteq Record
    BY <1>1, <1>2 DEF Tables, Record
  <1>5. Tables'
    BY <1>1, <1>2, <1>3, <1>4 DEF Tables, files
  <1> QED BY <1>2, <1>5, ReturnType DEF Return

LEMMA CleanupType ==
  ASSUME TypeInv, NEW p \in Processes, CommitFails(p) \/ UnloadLoaded(p) \/ LoadFailed(p) PROVE TypeInv'
  <1>1. CASE CommitFails(p)
    <2>1. /\ pc[p] = "kernel" /\ Goto(p, "cleanup") /\ UNCHANGED <<lock, op>> /\ Tables'
      BY <1>1, TablesStill DEF CommitFails
    <2>2. StageOK("kernel", op[p]) /\ (HoldsAt("kernel", op[p]) => lock = p)
      BY <2>1, AtStage
    <2>3. "cleanup" \in Labels /\ StageOK("cleanup", op[p]) /\ (HoldsAt("cleanup", op[p]) => lock' = p)
      BY <2>1, <2>2 DEF StageOK, HoldsAt, Labels, ReapStages, LoadStages, UnloadStages, Removal
    <2> QED BY <2>1, <2>3, GotoType
  <1>2. CASE LoadFailed(p)
    BY <1>2, TablesStill, ReturnType DEF LoadFailed, Return
  <1>3. CASE UnloadLoaded(p)
    <2>1. /\ pc[p] = "cleanup" /\ pc[p] \in LoadStages /\ op[p].loaded # <<>>
          /\ op[p] \in Operation /\ op[p].todo \in Seq(LoadSpec) /\ op[p].loaded \in Seq(Record)
          /\ op[p].now = <<>> /\ op[p].now \in Seq(Record) /\ Tables
      BY <1>3, AtStage, AtLoad DEF UnloadLoaded, LoadStages
    <2>2. PICK front : front = SubSeq(op[p].loaded, 1, Len(op[p].loaded) - 1)
      OBVIOUS
    <2>3. front \in Seq(Record) /\ Items(front) \subseteq Items(op[p].loaded)
      BY <2>1, <2>2, ItemsFront
    <2>4. op' = [op EXCEPT ![p].loaded = SubSeq(@, 1, Len(op[p].loaded) - 1)] /\ lock' = lock /\ pc' = pc
      BY <1>3 DEF UnloadLoaded
    <2>5. op' = [op EXCEPT ![p] = [@ EXCEPT !.todo = op[p].todo, !.loaded = front, !.now = op[p].now]]
      BY <2>1, <2>2, <2>4 DEF TypeInv, TypeOK, Operation
    <2>6. Goto(p, "cleanup")
      BY <2>1, <2>4 DEF Goto, TypeInv, TypeOK
    <2>7. Tables'
      <3>1. /\ live' \subseteq live /\ mapDirs' \subseteq mapDirs /\ bytecode' \subseteq bytecode
            /\ UNCHANGED <<rows, mapSets, ghost>>
        BY <1>3 DEF UnloadLoaded, Removing, files
      <3>2. refs' \subseteq refs /\ sharedPins' \subseteq sharedPins
        BY <1>3, SharedLess DEF UnloadLoaded, files
      <3> QED BY <2>1, <3>1, <3>2 DEF Tables, ghost
    <2>8. op[p].kind = "lockless" =>
            /\ \A s \in Items(op[p].todo) : s.owner = None /\ s.shared = {}
            /\ \A t \in Items(front) \cup Items(op[p].now) : t.set = t.id /\ t.shared = {}
      BY <2>1, <2>3, AtLoad
    <2>9. "cleanup" \in LoadStages /\ "cleanup" # "publish"
      BY DEF LoadStages
    <2> QED BY <2>1, <2>3, <2>4, <2>5, <2>6, <2>7, <2>8, <2>9, LoadLocals, ZenonT(60)
  <1> QED BY <1>1, <1>2, <1>3

\* The program an unload removes.
LEMMA AtRemoval ==
  ASSUME TypeInv, NEW p \in Processes, pc[p] \in Removal
  PROVE  /\ Head(op[p].now) \in Record /\ Items(op[p].now) = {Head(op[p].now)}
         /\ Head(op[p].now).id = op[p].target /\ op[p].target \in IDs /\ Pending(p) = {}
         /\ op[p].listed = {} /\ op[p].plan = {} /\ lock = p /\ op[p].kind = "unload"
         /\ Touched(p) = {op[p].target, Head(op[p].now).set}
         /\ \A l \in Removal : l \in Labels /\ StageOK(l, op[p]) /\ l # "reaprow"
  <1>1. StageOK(pc[p], op[p]) /\ (HoldsAt(pc[p], op[p]) => lock = p)
    BY AtStage
  <1>2. PICK r \in Record : op[p].now = <<r>>
    BY <1>1 DEF StageOK
  <1>3. Head(op[p].now) = r /\ Items(op[p].now) = {r}
    BY <1>2, ItemsShort
  <1>4. /\ r.id = op[p].target /\ op[p].target \in IDs /\ op[p].kind = "unload" /\ lock = p
        /\ op[p].listed = {} /\ op[p].plan = {}
    BY <1>1, <1>3 DEF StageOK, HoldsAt, Labels, ReapStages, LoadStages, UnloadStages, Removal
  <1>5. \A l \in Removal : l \in Labels /\ StageOK(l, op[p]) /\ l # "reaprow"
    BY <1>1, <1>4 DEF StageOK, HoldsAt, Labels, ReapStages, LoadStages, UnloadStages, Removal
  <1>6. Touched(p) = {op[p].target, r.set}
    BY <1>3, <1>4 DEF Touched, TouchedAt, IdsOf
  <1>7. Pending(p) = {}
    BY <1>4 DEF Pending, PendingOf
  <1> QED BY <1>3, <1>4, <1>5, <1>6, <1>7

\* One step of a removal, or its end.
LEMMA RemovalType ==
  ASSUME TypeInv, NEW p \in Processes, pc[p] \in Removal, Tables',
         \/ \E l \in Removal : Goto(p, l) /\ UNCHANGED <<op, lock>>
         \/ Return(p)
  PROVE  TypeInv'
  <1>1. CASE Return(p)
    BY <1>1, ReturnType DEF Return
  <1>2. ASSUME NEW l \in Removal, Goto(p, l), UNCHANGED <<op, lock>> PROVE TypeInv'
    BY <1>2, AtRemoval, GotoType
  <1> QED BY <1>1, <1>2

\* The actions of an unload once it has found the program.
RemovalStep(p) ==
    \/ UnloadKernelProgram(p) \/ UnloadKernelProgramFails(p) \/ UnloadSharedMapPins(p)
    \/ DeleteProgramRecord(p) \/ DeleteProgramRecordFails(p) \/ CountMapSetUsers(p)
    \/ RemoveMapSetPins(p) \/ DeleteMapSet(p) \/ RemoveProgramBytecodeDir(p)

LEMMA UnloadType == ASSUME TypeInv, NEW p \in Processes, RemovalStep(p) PROVE TypeInv'
  <1>1. pc[p] \in Removal /\ Tables
    BY AtStage DEF RemovalStep, UnloadKernelProgram, UnloadKernelProgramFails, UnloadSharedMapPins,
       DeleteProgramRecord, DeleteProgramRecordFails, CountMapSetUsers, RemoveMapSetPins, DeleteMapSet,
       RemoveProgramBytecodeDir, Removal
  <1>2. CASE UnloadKernelProgramFails(p) \/ DeleteProgramRecordFails(p) \/ CountMapSetUsers(p)
    <2>1. Tables'
      BY <1>2, TablesStill DEF UnloadKernelProgramFails, DeleteProgramRecordFails, CountMapSetUsers
    <2>2. CASE UnloadKernelProgramFails(p)
      BY <1>1, <2>1, <2>2, RemovalType DEF UnloadKernelProgramFails
    <2>3. CASE DeleteProgramRecordFails(p)
      BY <1>1, <2>1, <2>3, RemovalType DEF DeleteProgramRecordFails, Removal
    <2>4. CASE CountMapSetUsers(p)
      BY <1>1, <2>1, <2>4, RemovalType DEF CountMapSetUsers, Removal
    <2> QED BY <1>2, <2>2, <2>3, <2>4
  <1>3. CASE UnloadKernelProgram(p)
    <2>1. Tables'
      BY <1>1, <1>3 DEF UnloadKernelProgram, Tables, store, ghost
    <2> QED BY <1>1, <1>3, <2>1, RemovalType DEF UnloadKernelProgram, Removal
  <1>4. CASE UnloadSharedMapPins(p)
    <2>1. /\ refs' \subseteq refs /\ sharedPins' \subseteq sharedPins
          /\ UNCHANGED <<rows, mapSets, live, mapDirs, bytecode, ghost>>
      BY <1>4, SharedLess DEF UnloadSharedMapPins
    <2>2. Tables'
      BY <1>1, <2>1 DEF Tables, ghost
    <2> QED BY <1>1, <1>4, <2>2, RemovalType DEF UnloadSharedMapPins, Removal
  <1>5. CASE DeleteProgramRecord(p)
    <2>1. Tables'
      BY <1>1, <1>5 DEF DeleteProgramRecord, Tables, files
    <2> QED BY <1>1, <1>5, <2>1, RemovalType DEF DeleteProgramRecord, Removal
  <1>6. CASE RemoveMapSetPins(p)
    <2>1. Tables'
      BY <1>1, <1>6 DEF RemoveMapSetPins, Tables, store, ghost
    <2> QED BY <1>1, <1>6, <2>1, RemovalType DEF RemoveMapSetPins, Removal
  <1>7. CASE DeleteMapSet(p)
    <2>1. mapSets' \subseteq mapSets
      BY <1>7 DEF DeleteMapSet, Removing
    <2>2. Tables'
      BY <1>1, <1>7, <2>1 DEF DeleteMapSet, Tables, files, ghost
    <2> QED BY <1>1, <1>7, <2>2, RemovalType DEF DeleteMapSet, Removal
  <1>8. CASE RemoveProgramBytecodeDir(p)
    <2>1. bytecode' \subseteq bytecode
      BY <1>8 DEF RemoveProgramBytecodeDir, Removing
    <2>2. Tables'
      BY <1>1, <1>8, <2>1 DEF RemoveProgramBytecodeDir, Tables, store, ghost
    <2> QED BY <1>1, <1>8, <2>2, RemovalType DEF RemoveProgramBytecodeDir
  <1> QED BY <1>2, <1>3, <1>4, <1>5, <1>6, <1>7, <1>8 DEF RemovalStep

LEMMA GetType == ASSUME TypeInv, NEW p \in Processes, GetProgram(p) PROVE TypeInv'
  <1>1. /\ pc[p] = "get" /\ StageOK("get", op[p]) /\ op[p] \in Operation /\ Tables /\ lock = p
    BY AtStage DEF GetProgram, StageOK, HoldsAt, Labels, ReapStages, LoadStages, UnloadStages, Removal
  <1>2. UNCHANGED <<store, files, used, faults>>
    BY DEF GetProgram
  <1>3. CASE Return(p) /\ UNCHANGED <<promised, doomed>>
    BY <1>1, <1>2, <1>3, TablesStill, ReturnType DEF Return, ghost
  <1>4. ASSUME NEW r \in rows, r.id = op[p].target, op' = [op EXCEPT ![p].now = <<r>>],
               promised' = promised \ {r.id}, doomed' = doomed \cup {r.id}, Goto(p, "detach"), lock' = lock
        PROVE  TypeInv'
    <2>2. r \in Record /\ r.id \in IDs
      BY <1>1 DEF Tables, Record
    <2>s. <<r>> \in Seq(Record)
      BY <2>2
    <2>n. PICK now : now = <<r>>
      OBVIOUS
    <2>1. PICK o : o = [op[p] EXCEPT !.now = now]
      OBVIOUS
    <2>3. /\ o \in Operation /\ o.kind = op[p].kind /\ o.todo = op[p].todo /\ o.loaded = op[p].loaded
          /\ o.now = now /\ o.listed = op[p].listed /\ o.plan = op[p].plan /\ o.target = op[p].target
      <3>1. now \in Seq(Record)
        BY <2>s, <2>n
      <3> QED BY <1>1, <2>1, <3>1 DEF Operation
    <2>4. o.now = <<r>> /\ Items(o.now) = {r}
      BY <2>3, <2>n, ItemsShort
    <2>5. StageOK("detach", o) /\ "detach" \in Labels
      BY <1>1, <1>4, <2>2, <2>3, <2>4 DEF StageOK, HoldsAt, Labels, ReapStages, LoadStages, UnloadStages, Removal
    <2>6. op' = [op EXCEPT ![p] = o]
      BY <1>4, <2>n, <2>1 DEF TypeInv, TypeOK
    <2>7. Tables'
      BY <1>1, <1>2, <1>4, <2>2 DEF Tables, store, files
    <2> QED BY <1>1, <1>4, <2>3, <2>5, <2>6, <2>7, TypeStep DEF Goto
  <1> QED BY <1>3, <1>4 DEF GetProgram

LEMMA EnvironmentType ==
  ASSUME TypeInv
  PROVE  /\ \A p \in Processes : Crash(p) \/ Restart(p) => TypeInv'
         /\ \A id \in IDs : ProgramDies(id) => TypeInv'
         /\ UNCHANGED vars => TypeInv'
  <1>1. ASSUME NEW p \in Processes, Crash(p) PROVE TypeInv'
    BY <1>1, TablesStill, ReturnType DEF Crash
  <1>2. ASSUME NEW p \in Processes, Restart(p) PROVE TypeInv'
    <2>1. pc[p] = "dead" /\ StageOK("dead", op[p]) /\ Goto(p, "idle") /\ UNCHANGED <<op, lock>>
      BY <1>2, AtStage DEF Restart
    <2>2. "idle" \in Labels /\ StageOK("idle", op[p]) /\ ~HoldsAt("idle", op[p])
      BY <2>1 DEF StageOK, HoldsAt, Labels, ReapStages, LoadStages, UnloadStages, Removal
    <2>3. Tables'
      BY <1>2, TablesStill DEF Restart
    <2> QED BY <2>1, <2>2, <2>3, GotoType
  <1>3. ASSUME NEW id \in IDs, ProgramDies(id) PROVE TypeInv'
    BY <1>3 DEF ProgramDies, store, TypeInv, TypeOK, Holds
  <1>4. ASSUME UNCHANGED vars PROVE TypeInv'
    BY <1>4 DEF vars, store, files, ghost, TypeInv, TypeOK, Holds
  <1> QED BY <1>1, <1>2, <1>3, <1>4

LEMMA TypeInvNext == TypeInv /\ [Next]_vars => TypeInv'
  <1> SUFFICES ASSUME TypeInv, [Next]_vars PROVE TypeInv'
    OBVIOUS
  <1>1. ASSUME NEW p \in Processes, Request(p) \/ Acquire(p) \/ Step(p) \/ Crash(p) PROVE TypeInv'
    BY <1>1, RequestType, AcquireType, ValidateType, ObserveType, ReapType, KernelLoadType,
       KernelLoadFailsType, PublishType, CommitType, CleanupType, UnloadType, GetType, EnvironmentType
       DEF Step, RemovalStep
  <1>2. ASSUME NEW id \in IDs, ProgramDies(id) PROVE TypeInv'
    BY <1>2, EnvironmentType
  <1>3. CASE UNCHANGED vars
    BY <1>3, EnvironmentType
  <1> QED BY <1>1, <1>2, <1>3 DEF Next

LEMMA TypeInvInit == Init => TypeInv
  <1> SUFFICES ASSUME Init PROVE TypeInv
    OBVIOUS
  <1>1. \A p \in Processes : pc[p] = "idle" /\ op[p] = NoOp
    BY DEF Init
  <1>2. faults \subseteq Faults
    BY DEF Init
  <1>3. TypeOK
    BY <1>2, NoOpType DEF Init, TypeOK, Labels
  <1>4. ASSUME NEW p \in Processes PROVE StageOK(pc[p], op[p]) /\ ~Holds(p)
    <2>1. StageOK("idle", NoOp) /\ ~HoldsAt("idle", NoOp)
      BY NoOpType DEF OwnMaps, NoOp, StageOK, HoldsAt, Labels, ReapStages, LoadStages, UnloadStages, Removal
    <2> QED BY <1>1, <2>1 DEF Holds
  <1> QED BY <1>3, <1>4 DEF TypeInv

\* The tables, the files and the state of every process have their types:
\* the locals of a load, a reap and an unload are used only where they are
\* set, whatever fails or crashes.
THEOREM TypeCorrect == Spec => []TypeOK
  <1>1. TypeInv => TypeOK
    BY DEF TypeInv
  <1> QED BY <1>1, TypeInvInit, TypeInvNext, PTL DEF Spec

-----------------------------------------------------------------------------
(***************************************************************************)
(* A step of one process, as the others see it: only the holder of the     *)
(* lock takes anything away but what it loaded itself, and what it takes   *)
(* was recorded; ids are never handed out twice.                           *)
(***************************************************************************)
Footprint(p) ==
    /\ used \subseteq used'
    /\ live' \subseteq live \cup (used' \ used)
    /\ rows' \subseteq rows \cup Pending(p)
    /\ mapSets' \subseteq mapSets \cup PendingIDs(p)
    /\ promised' \subseteq promised \cup PendingIDs(p)
    /\ \A id \in mapDirs : id \in mapDirs' \/ id \in Touched(p) \/ id \in PendingIDs(p)
    /\ \A id \in bytecode : id \in bytecode' \/ id \in Touched(p) \/ id \in PendingIDs(p)
    /\ bytecode' \subseteq bytecode \cup PendingIDs(p)
    /\ lock # p => /\ mapSets \subseteq mapSets' /\ sharedPins \subseteq sharedPins'
                   /\ mapSets \cap mapDirs \subseteq mapDirs'
                   /\ \A r \in rows' : r \in rows \/ r.set = r.id
    /\ PendingIDs(p)' \subseteq PendingIDs(p) \cup (used' \ used)
    /\ Touched(p)' \subseteq Touched(p) \cup IdsOf(rows) \cup mapSets
    /\ \A q \in Processes : q # p => pc'[q] = pc[q] /\ op'[q] = op[q]

LEMMA Others ==
  ASSUME TypeInv, LoadInv, NEW p \in Processes, Footprint(p), NEW q \in Processes, q # p
  PROVE  PendingInv(q)' /\ OwnersInv(q)' /\ RemovalInv(q)'
  <1>1. /\ pc'[q] = pc[q] /\ op'[q] = op[q] /\ Pending(q)' = Pending(q) /\ Touched(q)' = Touched(q)
        /\ PendingIDs(q)' = PendingIDs(q)
    BY DEF Footprint, Pending, Touched, PendingIDs
  <1>2. /\ PendingInv(q) /\ OwnersInv(q) /\ RemovalInv(q) /\ StoreInv
        /\ PendingIDs(q) \cap Touched(p) = {} /\ PendingIDs(p) \cap Touched(q) = {}
        /\ PendingIDs(p) \cap PendingIDs(q) = {}
    BY DEF LoadInv, Apart
  <1>3. StageOK(pc[q], op[q]) /\ (HoldsAt(pc[q], op[q]) => lock = q)
    BY AtStage
  <1>4. ASSUME HoldsAt(pc[q], op[q])
        PROVE  /\ mapSets \subseteq mapSets' /\ sharedPins \subseteq sharedPins'
               /\ mapSets \cap mapDirs \subseteq mapDirs'
               /\ \A r \in rows' : r \in rows \/ (r.set = r.id /\ r.id \in PendingIDs(p))
    <2>1. lock # p
      BY <1>3, <1>4
    <2>2. \A r \in rows' : r \in rows \/ r.id \in PendingIDs(p)
      BY DEF Footprint, PendingIDs, IdsOf
    <2> QED BY <2>1, <2>2 DEF Footprint
  <1>5. PendingInv(q)'
    <2>1. PendingIDs(q) \subseteq used' \ (IdsOf(rows') \cup mapSets')
      <3> SUFFICES ASSUME NEW id \in PendingIDs(q)
                   PROVE  id \in used' /\ id \notin IdsOf(rows') /\ id \notin mapSets'
        OBVIOUS
      <3>1. id \in used /\ id \notin IdsOf(rows) /\ id \notin mapSets /\ id \notin PendingIDs(p)
        BY <1>2 DEF PendingInv
      <3>2. IdsOf(rows') \subseteq IdsOf(rows) \cup PendingIDs(p)
        BY DEF Footprint, PendingIDs, IdsOf
      <3> QED BY <3>1, <3>2 DEF Footprint
    <2>2. ASSUME pc[q] \in {"kernel", "publish"}
          PROVE  /\ \A s \in Items(op[q].todo) : s.owner \in mapSets' \cup {None}
                 /\ \A r \in Pending(q) : /\ r.set \in mapDirs'
                                          /\ r.set # r.id => r.set \in mapSets'
                                          /\ r.set = r.id => r.shared \subseteq sharedPins'
                 /\ IdsOf(Items(op[q].loaded)) \subseteq bytecode'
      <3>1. pc[q] \in LoadStages
        BY <2>2 DEF LoadStages
      <3>2. /\ op[q].kind \in {"locked", "lockless"}
            /\ op[q].kind = "lockless" =>
                 /\ \A s \in Items(op[q].todo) : s.owner = None
                 /\ \A r \in Pending(q) : r.set = r.id /\ r.shared = {}
            /\ Items(op[q].loaded) \subseteq Pending(q)
        BY <3>1, AtLoad
      <3>3. op[q].kind = "locked" => HoldsAt(pc[q], op[q])
        BY <3>1 DEF HoldsAt
      <3>4. \A s \in Items(op[q].todo) : s.owner \in mapSets' \cup {None}
        BY <1>2, <1>4, <2>2, <3>2, <3>3 DEF PendingInv
      <3>5. ASSUME NEW r \in Pending(q)
            PROVE  /\ r.set \in mapDirs'
                   /\ r.set # r.id => r.set \in mapSets'
                   /\ r.set = r.id => r.shared \subseteq sharedPins'
        <4>1. /\ r.set \in mapDirs /\ (r.set # r.id => r.set \in mapSets)
              /\ (r.set = r.id => r.shared \subseteq sharedPins)
          BY <1>2, <2>2, <3>5 DEF PendingInv
        <4>2. CASE r.set = r.id
          <5>1. r.id \in PendingIDs(q)
            BY <3>5 DEF PendingIDs, IdsOf
          <5>2. r.set \in mapDirs'
            BY <1>2, <4>1, <4>2, <5>1 DEF Footprint
          <5>3. r.shared \subseteq sharedPins'
            BY <1>4, <3>2, <3>3, <4>1, <4>2
          <5> QED BY <4>2, <5>2, <5>3
        <4>3. CASE r.set # r.id
          BY <1>4, <3>2, <3>3, <4>1, <4>3
        <4> QED BY <4>2, <4>3
      <3>6. ASSUME NEW id \in IdsOf(Items(op[q].loaded)) PROVE id \in bytecode'
        <4>1. id \in bytecode /\ id \in PendingIDs(q)
          BY <1>2, <2>2, <3>2 DEF PendingInv, PendingIDs, IdsOf
        <4> QED BY <1>2, <4>1 DEF Footprint
      <3> QED BY <3>4, <3>5, <3>6
    <2>3. ASSUME pc[q] = "publish" PROVE IdsOf(Items(op[q].now)) \cap bytecode' = {}
      <3>1. IdsOf(Items(op[q].now)) \subseteq PendingIDs(q) /\ IdsOf(Items(op[q].now)) \cap bytecode = {}
        BY <1>2, <2>3, AtPublish DEF PendingInv, PendingIDs, IdsOf
      <3> QED BY <1>2, <3>1 DEF Footprint
    <2> QED BY <1>1, <2>1, <2>2, <2>3 DEF PendingInv, IdsOf
  <1>6. OwnersInv(q)'
    <2>1. pc[q] \in ReapStages => HoldsAt(pc[q], op[q])
      BY DEF HoldsAt
    <2> QED BY <1>1, <1>2, <1>4, <2>1 DEF OwnersInv
  <1>7. RemovalInv(q)'
    <2>1. Touched(q) \subseteq used /\ Touched(q) \subseteq used'
      BY <1>2 DEF RemovalInv, Footprint
    <2>2. IdsOf(op[q].listed) \subseteq Touched(q) /\ op[q].plan \subseteq Touched(q)
      BY DEF Touched, TouchedAt
    <2>3. pc[q] \in Removal \cup {"enumerate", "reap", "reaprow"} => HoldsAt(pc[q], op[q])
      BY DEF HoldsAt, UnloadStages, ReapStages
    <2>4. \A id \in used : id \notin live => id \notin live'
      BY DEF Footprint
    <2>5. ASSUME pc[q] = "enumerate", NEW r \in rows', {r.id, r.set} \cap IdsOf(op[q].listed) # {}
          PROVE  r \in op[q].listed
      BY <1>2, <1>4, <2>2, <2>3, <2>5 DEF RemovalInv
    <2>6. ASSUME NEW r \in rows', {r.id, r.set} \cap op[q].plan # {} PROVE r.id \notin live'
      <3>1. pc[q] \in {"reap", "reaprow"}
        BY <1>3, <2>6 DEF StageOK
      <3>2. r \in rows
        BY <1>2, <1>4, <2>2, <2>3, <2>6, <3>1
      <3>3. r.id \in used /\ r.id \notin live
        BY <1>2, <2>6, <3>2 DEF RemovalInv, StoreInv, IdsOf
      <3> QED BY <2>4, <3>3
    <2>7. ASSUME pc[q] = "reaprow" PROVE op[q].target \notin live'
      <3>1. op[q].target \in Touched(q)
        BY <2>7 DEF Touched, TouchedAt
      <3> QED BY <1>2, <2>1, <2>4, <2>7, <3>1 DEF RemovalInv
    <2>8. ASSUME pc[q] \in Removal PROVE op[q].target \notin promised'
      <3>1. op[q].target \in Touched(q)
        BY <2>8 DEF Touched, TouchedAt
      <3> QED BY <1>2, <2>8, <3>1 DEF RemovalInv, Footprint
    <2>9. ASSUME pc[q] \in {"gcpins", "gcrow"}, NEW r \in rows', NEW s \in Items(op[q].now)
          PROVE  r.set # s.set
      <3>1. pc[q] \in Removal
        BY <2>9 DEF Removal
      <3>2. s.set \in Touched(q)
        BY <2>9, <3>1 DEF Touched, TouchedAt
      <3> QED BY <1>2, <1>4, <2>3, <2>9, <3>1, <3>2 DEF RemovalInv
    <2>10. op[q].plan \cap live' = {}
      BY <1>2, <2>1, <2>2, <2>4 DEF RemovalInv
    <2> QED BY <1>1, <2>1, <2>5, <2>6, <2>7, <2>8, <2>9, <2>10 DEF RemovalInv
  <1> QED BY <1>5, <1>6, <1>7

LEMMA StillApart ==
  ASSUME TypeInv, LoadInv, NEW p \in Processes, Footprint(p) PROVE Apart' /\ Touched(p)' \subseteq used'
  <1>1. \A q \in Processes : /\ PendingIDs(q) \subseteq used \ (IdsOf(rows) \cup mapSets)
                             /\ Touched(q) \subseteq used
    BY DEF LoadInv, PendingInv, RemovalInv
  <1>2. IdsOf(rows) \cup mapSets \subseteq used
    BY DEF LoadInv, StoreInv
  <1>3. \A q \in Processes : q # p => PendingIDs(q)' = PendingIDs(q) /\ Touched(q)' = Touched(q)
    BY DEF Footprint, Pending, Touched, PendingIDs
  <1>4. /\ PendingIDs(p)' \subseteq PendingIDs(p) \cup (used' \ used)
        /\ Touched(p)' \subseteq Touched(p) \cup IdsOf(rows) \cup mapSets /\ used \subseteq used'
    BY DEF Footprint
  <1>5. \A a, b \in Processes : /\ PendingIDs(a) \cap Touched(b) = {}
                                /\ a # b => PendingIDs(a) \cap PendingIDs(b) = {}
    BY DEF LoadInv, Apart
  <1>6. ASSUME NEW a \in Processes, NEW b \in Processes PROVE PendingIDs(a)' \cap Touched(b)' = {}
    <2>1. PendingIDs(a)' \subseteq PendingIDs(a) \cup (used' \ used)
      BY <1>3, <1>4
    <2>2. Touched(b)' \subseteq Touched(b) \cup IdsOf(rows) \cup mapSets
      BY <1>3, <1>4
    <2> QED BY <1>1, <1>2, <1>5, <2>1, <2>2
  <1>7. ASSUME NEW a \in Processes, NEW b \in Processes, a # b
        PROVE  PendingIDs(a)' \cap PendingIDs(b)' = {}
    <2>1. CASE a # p
      <3>1. PendingIDs(b)' \subseteq PendingIDs(b) \cup (used' \ used)
        BY <1>3, <1>4
      <3> QED BY <1>1, <1>3, <1>5, <1>7, <2>1, <3>1
    <2>2. CASE b # p
      <3>1. PendingIDs(a)' \subseteq PendingIDs(a) \cup (used' \ used)
        BY <1>3, <1>4
      <3> QED BY <1>1, <1>3, <1>5, <1>7, <2>2, <3>1
    <2> QED BY <1>7, <2>1, <2>2
  <1>8. Touched(p)' \subseteq used'
    BY <1>1, <1>2, <1>4
  <1> QED BY <1>6, <1>7, <1>8 DEF Apart

LEMMA StepInv ==
  ASSUME TypeInv, LoadInv, NEW p \in Processes, Footprint(p), StoreInv', LoadedIntact',
         PendingInv(p)', OwnersInv(p)', RemovalInv(p)'
  PROVE  LoadInv'
  <1>1. \A q \in Processes : PendingInv(q)' /\ OwnersInv(q)' /\ RemovalInv(q)'
    BY Others
  <1>2. Apart'
    BY StillApart
  <1> QED BY <1>1, <1>2 DEF LoadInv

-----------------------------------------------------------------------------
(***************************************************************************)
(* Steps that change nothing but the locals of the process                 *)
(***************************************************************************)
OnlyMoves(p) == \A q \in Processes : q # p => pc'[q] = pc[q] /\ op'[q] = op[q]

LEMMA OneMoves ==
  ASSUME TypeInv, NEW p \in Processes, Request(p) \/ Acquire(p) \/ Step(p) \/ Crash(p)
  PROVE  OnlyMoves(p)
  <1>0. pc \in [Processes -> Labels] /\ op \in [Processes -> Operation]
    BY DEF TypeInv, TypeOK
  <1>1. ASSUME NEW l, Goto(p, l) PROVE \A q \in Processes : q # p => pc'[q] = pc[q]
    BY <1>0, <1>1 DEF Goto
  <1>2. ASSUME Return(p) PROVE OnlyMoves(p)
    BY <1>0, <1>2 DEF Return, Goto, OnlyMoves
  <1>3. CASE Request(p)
    BY <1>0, <1>3 DEF Request, Load, Unload, Goto, OnlyMoves
  <1>4. CASE Acquire(p) \/ Crash(p)
    BY <1>0, <1>4 DEF Acquire, Crash, Goto, OnlyMoves
  <1>5. CASE AcquireFails(p) \/ ValidateOwners(p) \/ LoadFailed(p) \/ Commit(p) \/ GetProgram(p)
    BY <1>0, <1>2, <1>5 DEF AcquireFails, ValidateOwners, LoadFailed, Commit, GetProgram, Goto, OnlyMoves
  <1>6. CASE Observe(p) \/ ObserveFails(p) \/ (\E id \in IDs : ReapPins(p, id)) \/ ReapRow(p) \/ ReapDone(p)
    BY <1>0, <1>6 DEF Observe, ObserveFails, ReapPins, ReapRow, ReapDone, Goto, OnlyMoves
  <1>7. CASE KernelLoad(p) \/ KernelLoadFails(p) \/ PublishBytecode(p) \/ PublishFails(p)
    BY <1>0, <1>7 DEF KernelLoad, KernelLoadFails, PublishBytecode, PublishFails, Goto, OnlyMoves
  <1>8. CASE CommitFails(p) \/ UnloadLoaded(p) \/ Restart(p)
    BY <1>0, <1>8 DEF CommitFails, UnloadLoaded, Restart, Goto, OnlyMoves
  <1>9. CASE RemovalStep(p)
    BY <1>0, <1>2, <1>9 DEF RemovalStep, UnloadKernelProgram, UnloadKernelProgramFails, UnloadSharedMapPins,
       DeleteProgramRecord, DeleteProgramRecordFails, CountMapSetUsers, RemoveMapSetPins, DeleteMapSet,
       RemoveProgramBytecodeDir, Goto, OnlyMoves
  <1> QED BY <1>3, <1>4, <1>5, <1>6, <1>7, <1>8, <1>9 DEF Step, RemovalStep

\* Stages at which a process has nothing in hand.
Blank == {"idle", "dead", "lock", "validate", "get"}

LEMMA BlankInv ==
  ASSUME TypeInv', NEW p \in Processes, pc'[p] \in Blank
  PROVE  Pending(p)' = {} /\ Touched(p)' = {} /\ PendingInv(p)' /\ OwnersInv(p)' /\ RemovalInv(p)'
  <1>1. StageOK(pc'[p], op'[p])
    BY DEF TypeInv
  <1>2. op'[p].loaded = <<>> /\ op'[p].now = <<>> /\ op'[p].listed = {} /\ op'[p].plan = {}
    BY <1>1 DEF Blank, StageOK, HoldsAt, Labels, ReapStages, LoadStages, UnloadStages, Removal
  <1>3. Items(<<>>) = {}
    BY DEF Items
  <1>4. Pending(p)' = {}
    BY <1>2, <1>3 DEF Pending, PendingOf
  <1>5. Touched(p)' = {}
    BY <1>2 DEF Touched, TouchedAt, IdsOf, Blank, Removal
  <1>6. PendingInv(p)'
    BY <1>4 DEF PendingInv, PendingIDs, IdsOf, Blank
  <1>7. OwnersInv(p)'
    BY DEF OwnersInv, Blank, ReapStages
  <1>8. RemovalInv(p)'
    BY <1>2, <1>5 DEF RemovalInv, Blank, Removal
  <1> QED BY <1>4, <1>5, <1>6, <1>7, <1>8

\* Programs that are in place stay so.
LEMMA IntactStays ==
  ASSUME LoadedIntact, promised' \subseteq promised,
         \A r \in rows : r.id \in promised' /\ Intact(r) => r \in rows' /\ Intact(r)'
  PROVE  LoadedIntact'
  BY DEF LoadedIntact

LEMMA QuietStep ==
  ASSUME TypeInv, LoadInv, NEW p \in Processes, OnlyMoves(p),
         UNCHANGED <<store, files, used>>, promised' \subseteq promised,
         Pending(p)' \subseteq Pending(p), Touched(p)' \subseteq Touched(p) \cup IdsOf(rows) \cup mapSets,
         PendingInv(p)', OwnersInv(p)', RemovalInv(p)'
  PROVE  LoadInv'
  <1>1. UNCHANGED <<rows, mapSets, refs, live, mapDirs, sharedPins, bytecode, used>>
    BY DEF store, files
  <1>2. PendingIDs(p)' \subseteq PendingIDs(p)
    BY DEF PendingIDs, IdsOf
  <1>3. Footprint(p)
    BY <1>1, <1>2 DEF Footprint, OnlyMoves
  <1>4. StoreInv'
    BY <1>1 DEF LoadInv, StoreInv
  <1>5. LoadedIntact'
    BY <1>1, IntactStays DEF LoadInv, Intact
  <1> QED BY <1>3, <1>4, <1>5, StepInv

LEMMA BlankStep ==
  ASSUME TypeInv, TypeInv', LoadInv, NEW p \in Processes, OnlyMoves(p),
         UNCHANGED <<store, files, used>>, promised' \subseteq promised, pc'[p] \in Blank
  PROVE  LoadInv'
  BY BlankInv, QuietStep

LEMMA ReturnStep ==
  ASSUME TypeInv, TypeInv', LoadInv, NEW p \in Processes, OnlyMoves(p),
         UNCHANGED <<store, files, used>>, promised' \subseteq promised, Return(p)
  PROVE  LoadInv'
  <1>1. pc'[p] = "idle"
    BY DEF Return, Goto, TypeInv, TypeOK
  <1> QED BY <1>1, BlankStep DEF Blank

\* Requests, failed requests, crashes.
LEMMA QuietSteps ==
  ASSUME TypeInv, TypeInv', LoadInv, NEW p \in Processes, OnlyMoves(p),
         Request(p) \/ LoadFailed(p) \/ UnloadKernelProgramFails(p) \/ Crash(p) \/ Restart(p)
  PROVE  LoadInv'
  <1>1. pc \in [Processes -> Labels]
    BY DEF TypeInv, TypeOK
  <1>2. UNCHANGED <<store, files, ghost>>
    BY DEF Request, Load, Unload, LoadFailed, UnloadKernelProgramFails, Crash, Restart
  <1>3. pc'[p] \in Blank
    BY <1>1 DEF Request, Load, Unload, LoadFailed, UnloadKernelProgramFails, Crash, Restart, Return, Goto, Blank
  <1> QED BY <1>2, <1>3, BlankStep DEF ghost

\* A load without the lock starts without a reap, or with one.
LEMMA AcquireStep ==
  ASSUME TypeInv, TypeInv', LoadInv, NEW p \in Processes, OnlyMoves(p), Acquire(p) \/ AcquireFails(p)
  PROVE  LoadInv'
  <1>1. /\ pc[p] = "lock" /\ StageOK("lock", op[p]) /\ UNCHANGED <<store, files, ghost>>
        /\ op[p].kind \in {"locked", "lockless", "unload"}
        /\ op[p].loaded = <<>> /\ op[p].now = <<>> /\ op[p].listed = {} /\ op[p].plan = {}
    BY AtStage DEF Acquire, AcquireFails, StageOK, HoldsAt, Labels, ReapStages, LoadStages, UnloadStages, Removal
  <1>2. pc \in [Processes -> Labels]
    BY DEF TypeInv, TypeOK
  <1>3. CASE pc'[p] \in Blank
    BY <1>1, <1>3, BlankStep DEF ghost
  <1>4. CASE op[p].kind = "lockless" /\ pc'[p] \in {"list", "kernel"} /\ op' = op
    <2>1. op'[p] = op[p] /\ \A s \in Items(op[p].todo) : s.owner = None
      BY <1>1, <1>4 DEF StageOK, OwnMaps
    <2>2. Items(<<>>) = {}
      BY DEF Items
    <2>3. Pending(p)' = {} /\ Pending(p) = {}
      BY <1>1, <2>1, <2>2 DEF Pending, PendingOf
    <2>4. Touched(p)' = {}
      BY <1>1, <1>4, <2>1 DEF Touched, TouchedAt, IdsOf, Removal
    <2>5. PendingInv(p)'
      BY <1>1, <1>4, <2>1, <2>2, <2>3 DEF PendingInv, PendingIDs, IdsOf
    <2>6. OwnersInv(p)'
      BY <2>1 DEF OwnersInv
    <2>7. RemovalInv(p)'
      BY <1>1, <1>4, <2>1, <2>4 DEF RemovalInv, Removal
    <2> QED BY <1>1, <2>3, <2>4, <2>5, <2>6, <2>7, QuietStep DEF ghost
  <1>5. CASE Acquire(p)
    <2>1. op' = op /\ (op[p].kind = "lockless" => pc'[p] = "list")
               /\ (op[p].kind = "locked" => pc'[p] = "validate") /\ (op[p].kind = "unload" => pc'[p] = "get")
      BY <1>1, <1>2, <1>5 DEF Acquire, Goto
    <2> QED BY <1>1, <1>3, <1>4, <2>1 DEF Blank
  <1>6. CASE AcquireFails(p)
    <2>1. IF op[p].kind = "lockless" THEN pc'[p] = "kernel" /\ op' = op ELSE pc'[p] = "idle"
      BY <1>2, <1>6 DEF AcquireFails, Return, Goto
    <2> QED BY <1>3, <1>4, <2>1 DEF Blank
  <1> QED BY <1>5, <1>6

LEMMA ValidateStep ==
  ASSUME TypeInv, TypeInv', LoadInv, NEW p \in Processes, OnlyMoves(p), ValidateOwners(p)
  PROVE  LoadInv'
  <1>1. /\ pc[p] = "validate" /\ StageOK("validate", op[p]) /\ UNCHANGED <<store, files, ghost>>
        /\ op[p].loaded = <<>> /\ op[p].now = <<>> /\ op[p].listed = {} /\ op[p].plan = {}
    BY AtStage DEF ValidateOwners, StageOK, HoldsAt, Labels, ReapStages, LoadStages, UnloadStages, Removal
  <1>2. CASE Return(p)
    BY <1>1, <1>2, ReturnStep DEF ghost
  <1>3. CASE /\ \A i \in DOMAIN op[p].todo : op[p].todo[i].owner \in mapSets \cup {None}
             /\ Goto(p, "list") /\ UNCHANGED <<op, lock>>
    <2>1. op'[p] = op[p] /\ pc'[p] = "list" /\ \A s \in Items(op[p].todo) : s.owner \in mapSets \cup {None}
      BY <1>3 DEF Goto, Items, TypeInv, TypeOK
    <2>2. Pending(p)' = {} /\ Pending(p) = {}
      <3>1. Items(<<>>) = {}
        BY DEF Items
      <3> QED BY <1>1, <2>1, <3>1 DEF Pending, PendingOf
    <2>3. Touched(p)' = {}
      BY <1>1, <2>1 DEF Touched, TouchedAt, IdsOf, Removal
    <2>4. PendingInv(p)'
      BY <2>1, <2>2 DEF PendingInv, PendingIDs, IdsOf
    <2>5. OwnersInv(p)'
      BY <1>1, <2>1 DEF OwnersInv, store
    <2>6. RemovalInv(p)'
      BY <1>1, <2>1, <2>3 DEF RemovalInv, Removal
    <2> QED BY <1>1, <2>2, <2>3, <2>4, <2>5, <2>6, QuietStep DEF ghost
  <1> QED BY <1>2, <1>3 DEF ValidateOwners

-----------------------------------------------------------------------------
(***************************************************************************)
(* Reaping                                                                 *)
(***************************************************************************)
LEMMA AtReap ==
  ASSUME TypeInv, LoadInv, NEW p \in Processes, pc[p] \in ReapStages
  PROVE  /\ op[p] \in Operation /\ lock = p /\ op[p].loaded = <<>> /\ op[p].now = <<>> /\ Pending(p) = {}
         /\ PendingInv(p) /\ OwnersInv(p) /\ RemovalInv(p) /\ StoreInv
         /\ op[p].plan \subseteq Touched(p) /\ IdsOf(op[p].listed) \subseteq Touched(p)
         /\ pc[p] # "enumerate" => op[p].listed = {}
         /\ pc[p] \notin {"reap", "reaprow"} => op[p].plan = {}
         /\ pc \in [Processes -> Labels] /\ op \in [Processes -> Operation]
  <1>1. StageOK(pc[p], op[p]) /\ op[p] \in Operation /\ (HoldsAt(pc[p], op[p]) => lock = p)
    BY AtStage
  <1>2. /\ lock = p /\ op[p].loaded = <<>> /\ op[p].now = <<>>
        /\ pc[p] # "enumerate" => op[p].listed = {}
        /\ pc[p] \notin {"reap", "reaprow"} => op[p].plan = {}
    BY <1>1 DEF StageOK, HoldsAt, Labels, ReapStages, LoadStages, UnloadStages, Removal
  <1>3. Items(<<>>) = {}
    BY DEF Items
  <1>4. Pending(p) = {}
    BY <1>2, <1>3 DEF Pending, PendingOf
  <1>5. op[p].plan \subseteq Touched(p) /\ IdsOf(op[p].listed) \subseteq Touched(p)
    BY DEF Touched, TouchedAt
  <1>6. PendingInv(p) /\ OwnersInv(p) /\ RemovalInv(p) /\ StoreInv
    BY DEF LoadInv
  <1>7. pc \in [Processes -> Labels] /\ op \in [Processes -> Operation]
    BY DEF TypeInv, TypeOK
  <1> QED BY <1>1, <1>2, <1>4, <1>5, <1>6, <1>7

\* A reap that goes on has loaded nothing yet, and its owners are still there.
LEMMA ReapMoves ==
  ASSUME TypeInv, LoadInv, NEW p \in Processes, pc[p] \in ReapStages, pc'[p] \in ReapStages,
         op'[p].kind = op[p].kind, op'[p].todo = op[p].todo,
         op'[p].loaded = op[p].loaded, op'[p].now = op[p].now, mapSets' = mapSets
  PROVE  Pending(p)' = {} /\ PendingInv(p)' /\ OwnersInv(p)'
  <1>1. Pending(p) = {} /\ OwnersInv(p)
    BY AtReap
  <1>2. Pending(p)' = {}
    BY <1>1 DEF Pending, PendingOf
  <1>3. PendingInv(p)'
    BY <1>2 DEF PendingInv, PendingIDs, IdsOf, ReapStages
  <1>4. OwnersInv(p)'
    BY <1>1 DEF OwnersInv
  <1> QED BY <1>2, <1>3, <1>4

LEMMA ObserveStep ==
  ASSUME TypeInv, TypeInv', LoadInv, NEW p \in Processes, OnlyMoves(p), Observe(p) \/ ObserveFails(p)
  PROVE  LoadInv'
  <1>1. pc[p] \in {"list", "enumerate"} /\ pc[p] \in ReapStages /\ UNCHANGED <<store, files, ghost>>
    BY DEF Observe, ObserveFails, ReapStages
  <1>2. /\ op[p] \in Operation /\ Pending(p) = {} /\ RemovalInv(p) /\ StoreInv /\ op[p].plan = {}
        /\ IdsOf(op[p].listed) \subseteq Touched(p)
        /\ pc \in [Processes -> Labels] /\ op \in [Processes -> Operation]
    BY <1>1, AtReap
  <1>3. UNCHANGED <<rows, mapSets, live, used, promised>>
    BY <1>1 DEF store, files, ghost
  <1>4. CASE pc[p] = "list" /\ op' = [op EXCEPT ![p].listed = rows] /\ Goto(p, "enumerate")
    <2>1. /\ pc'[p] = "enumerate" /\ op'[p].listed = rows /\ op'[p].plan = {} /\ op'[p].kind = op[p].kind
          /\ op'[p].todo = op[p].todo /\ op'[p].loaded = op[p].loaded /\ op'[p].now = op[p].now
      BY <1>2, <1>4 DEF Goto, Operation
    <2>2. Pending(p)' = {} /\ PendingInv(p)' /\ OwnersInv(p)'
      BY <1>1, <1>3, <2>1, ReapMoves DEF ReapStages
    <2>3. Touched(p)' = IdsOf(rows)
      BY <2>1 DEF Touched, TouchedAt, Removal
    <2>4. RemovalInv(p)'
      BY <1>2, <1>3, <2>1, <2>3 DEF RemovalInv, StoreInv, Removal
    <2> QED BY <1>1, <1>3, <2>2, <2>3, <2>4, QuietStep
  <1>5. CASE /\ pc[p] = "enumerate" /\ Goto(p, "reap")
             /\ op' = [op EXCEPT ![p].plan = PlanReap(op[p].listed, live), ![p].listed = {}]
    <2>1. /\ pc'[p] = "reap" /\ op'[p].listed = {} /\ op'[p].plan = PlanReap(op[p].listed, live)
          /\ op'[p].kind = op[p].kind
          /\ op'[p].todo = op[p].todo /\ op'[p].loaded = op[p].loaded /\ op'[p].now = op[p].now
      BY <1>2, <1>5 DEF Goto, Operation
    <2>2. Pending(p)' = {} /\ PendingInv(p)' /\ OwnersInv(p)'
      BY <1>1, <1>3, <2>1, ReapMoves DEF ReapStages
    <2>3. Touched(p)' = PlanReap(op[p].listed, live)
      BY <2>1 DEF Touched, TouchedAt, Removal, IdsOf
    <2>4. PlanReap(op[p].listed, live) \subseteq IdsOf(op[p].listed) \ live
      BY DEF PlanReap
    <2>5. ASSUME NEW r \in rows, {r.id, r.set} \cap PlanReap(op[p].listed, live) # {} PROVE r.id \notin live
      <3>1. CASE r.id \in PlanReap(op[p].listed, live)
        BY <2>4, <3>1
      <3>2. CASE r.set \in PlanReap(op[p].listed, live)
        <4>1. r \in op[p].listed
          BY <1>2, <1>5, <2>4, <3>2 DEF RemovalInv
        <4> QED BY <3>2, <4>1 DEF PlanReap
      <3> QED BY <2>5, <3>1, <3>2
    <2>6. Touched(p)' \subseteq Touched(p)
      BY <1>2, <2>3, <2>4
    <2>7. RemovalInv(p)'
      BY <1>2, <1>3, <2>1, <2>4, <2>5, <2>6 DEF RemovalInv, Removal
    <2> QED BY <1>1, <1>3, <2>2, <2>6, <2>7, QuietStep
  <1>6. CASE Goto(p, "reap") /\ op' = [op EXCEPT ![p].listed = {}]
    <2>1. /\ pc'[p] = "reap" /\ op'[p].listed = {} /\ op'[p].plan = {} /\ op'[p].kind = op[p].kind
          /\ op'[p].todo = op[p].todo /\ op'[p].loaded = op[p].loaded /\ op'[p].now = op[p].now
      BY <1>2, <1>6 DEF Goto, Operation
    <2>2. Pending(p)' = {} /\ PendingInv(p)' /\ OwnersInv(p)'
      BY <1>1, <1>3, <2>1, ReapMoves DEF ReapStages
    <2>3. Touched(p)' = {}
      BY <2>1 DEF Touched, TouchedAt, Removal, IdsOf
    <2>4. RemovalInv(p)'
      BY <2>1, <2>3 DEF RemovalInv, Removal
    <2> QED BY <1>1, <1>3, <2>2, <2>3, <2>4, QuietStep
  <1> QED BY <1>4, <1>5, <1>6 DEF Observe, ObserveFails

\* The pins of shared maps are kept for those that refer to them.
LEMMA SharedKept ==
  ASSUME NEW id, NEW fault, CleanupSharedMapPins(id, fault), NEW r, r.id # id,
         [name: r.shared, id: {r.id}] \subseteq refs
  PROVE  /\ [name: r.shared, id: {r.id}] \subseteq refs'
         /\ r.shared \subseteq sharedPins => r.shared \subseteq sharedPins'
  <1>1. CASE UNCHANGED <<refs, sharedPins>>
    BY <1>1
  <1>2. PICK left : left = {f \in refs : f.id # id}
    OBVIOUS
  <1>3. PICK orphaned : orphaned = {f.name : f \in refs \ left} \ {f.name : f \in left}
    OBVIOUS
  <1>4. CASE refs' = left /\ sharedPins' \in Removing(sharedPins, orphaned, fault)
    <2>1. \A f \in [name: r.shared, id: {r.id}] : f.id = r.id
      OBVIOUS
    <2>2. [name: r.shared, id: {r.id}] \subseteq left
      BY <1>2, <2>1
    <2>3. ASSUME NEW n \in r.shared PROVE n \notin orphaned
      <3>1. PICK f : f = [name |-> n, id |-> r.id]
        OBVIOUS
      <3>2. f \in [name: r.shared, id: {r.id}] /\ f.name = n
        BY <3>1
      <3> QED BY <1>3, <2>2, <3>2
    <2>4. sharedPins' = sharedPins \ orphaned \/ sharedPins' = sharedPins
      BY <1>4 DEF Removing
    <2> QED BY <1>4, <2>2, <2>3, <2>4
  <1> QED BY <1>1, <1>2, <1>3, <1>4 DEF CleanupSharedMapPins

LEMMA ReapPinsStep ==
  ASSUME TypeInv, TypeInv', LoadInv, NEW p \in Processes, OnlyMoves(p), NEW id \in IDs, ReapPins(p, id)
  PROVE  LoadInv'
  <1>1. /\ pc[p] = "reap" /\ pc[p] \in ReapStages /\ id \in op[p].plan
        /\ UNCHANGED <<rows, mapSets, live, bytecode, used, promised>>
        /\ CleanupSharedMapPins(id, "reap") /\ (mapDirs' = mapDirs \ {id} \/ mapDirs' = mapDirs)
        /\ op' = [op EXCEPT ![p].target = id, ![p].plan = @ \ {id}] /\ Goto(p, "reaprow")
    BY DEF ReapPins, ReapStages, ghost, Removing
  <1>2. /\ op[p] \in Operation /\ lock = p /\ Pending(p) = {} /\ RemovalInv(p) /\ StoreInv
        /\ op[p].plan \subseteq Touched(p) /\ op[p].listed = {}
        /\ pc \in [Processes -> Labels] /\ op \in [Processes -> Operation]
    BY <1>1, AtReap
  <1>3. /\ pc'[p] = "reaprow" /\ op'[p].listed = {} /\ op'[p].plan = op[p].plan \ {id} /\ op'[p].target = id
        /\ op'[p].kind = op[p].kind
        /\ op'[p].todo = op[p].todo /\ op'[p].loaded = op[p].loaded /\ op'[p].now = op[p].now
    BY <1>1, <1>2 DEF Goto, Operation
  <1>4. Pending(p)' = {} /\ PendingInv(p)' /\ OwnersInv(p)'
    BY <1>1, <1>3, ReapMoves DEF ReapStages
  <1>5. Touched(p)' \subseteq Touched(p)
    BY <1>1, <1>2, <1>3 DEF Touched, TouchedAt, Removal, IdsOf
  <1>6. RemovalInv(p)'
    BY <1>1, <1>2, <1>3, <1>5 DEF RemovalInv, Removal
  <1>7. Footprint(p)
    BY <1>1, <1>2, <1>4, <1>5 DEF Footprint, OnlyMoves, PendingIDs, IdsOf
  <1>8. refs' \subseteq refs /\ sharedPins' \subseteq sharedPins
    BY <1>1, SharedLess
  <1>9. StoreInv'
    BY <1>1, <1>2, <1>8 DEF StoreInv
  <1>10. ASSUME NEW r \in rows, Intact(r) PROVE Intact(r)'
    <2>1. r.id # id /\ r.set # id
      BY <1>1, <1>2, <1>10 DEF RemovalInv, Intact
    <2>2. [name: r.shared, id: {r.id}] \subseteq refs' /\ (r.shared \subseteq sharedPins => r.shared \subseteq sharedPins')
      BY <1>1, <1>10, <2>1, SharedKept DEF Intact
    <2> QED BY <1>1, <1>10, <2>1, <2>2 DEF Intact
  <1>11. LoadedIntact'
    BY <1>1, <1>10, IntactStays DEF LoadInv
  <1> QED BY <1>4, <1>6, <1>7, <1>9, <1>11, StepInv

LEMMA ReapRowStep ==
  ASSUME TypeInv, TypeInv', LoadInv, NEW p \in Processes, OnlyMoves(p), ReapRow(p) PROVE LoadInv'
  <1>0. PICK id : id = op[p].target
    OBVIOUS
  <1>1. /\ pc[p] = "reaprow" /\ pc[p] \in ReapStages
        /\ UNCHANGED <<mapSets, live, mapDirs, sharedPins, used, promised>>
        /\ (rows' = {r \in rows : r.id # id} /\ refs' = {f \in refs : f.id # id})
              \/ (rows' = rows /\ refs' = refs)
        /\ (bytecode' = bytecode \ {id} \/ bytecode' = bytecode)
        /\ op' = [op EXCEPT ![p].target = None] /\ Goto(p, "reap")
    BY <1>0 DEF ReapRow, ReapStages, Removing
  <1>2. /\ op[p] \in Operation /\ lock = p /\ Pending(p) = {} /\ RemovalInv(p) /\ StoreInv
        /\ op[p].plan \subseteq Touched(p) /\ op[p].listed = {}
        /\ pc \in [Processes -> Labels] /\ op \in [Processes -> Operation]
    BY <1>1, AtReap
  <1>3. /\ pc'[p] = "reap" /\ op'[p].listed = {} /\ op'[p].plan = op[p].plan /\ op'[p].kind = op[p].kind
        /\ op'[p].todo = op[p].todo /\ op'[p].loaded = op[p].loaded /\ op'[p].now = op[p].now
    BY <1>1, <1>2 DEF Goto, Operation
  <1>4. Pending(p)' = {} /\ PendingInv(p)' /\ OwnersInv(p)'
    BY <1>1, <1>3, ReapMoves DEF ReapStages
  <1>5. Touched(p)' \subseteq Touched(p) /\ id \in Touched(p) /\ id \notin live
    BY <1>0, <1>1, <1>2, <1>3 DEF Touched, TouchedAt, Removal, IdsOf, RemovalInv
  <1>6. rows' \subseteq rows
    BY <1>1
  <1>7. RemovalInv(p)'
    BY <1>1, <1>2, <1>3, <1>5, <1>6 DEF RemovalInv, Removal
  <1>8. Footprint(p)
    BY <1>1, <1>2, <1>4, <1>5, <1>6 DEF Footprint, OnlyMoves, PendingIDs, IdsOf
  <1>9. StoreInv'
    <2>1. {f.id : f \in refs'} \subseteq IdsOf(rows')
      BY <1>1, <1>2 DEF StoreInv, IdsOf
    <2>2. IdsOf(rows') \subseteq IdsOf(rows) /\ {r.set : r \in rows'} \subseteq {r.set : r \in rows}
      BY <1>6 DEF IdsOf
    <2>3. bytecode' \subseteq bytecode
      BY <1>1
    <2> QED BY <1>1, <1>2, <2>1, <2>2, <2>3 DEF StoreInv
  <1>10. ASSUME NEW r \in rows, Intact(r) PROVE r \in rows' /\ Intact(r)'
    <2>1. r.id # id
      BY <1>5, <1>10 DEF Intact
    <2>2. r \in rows' /\ r.id \in bytecode'
      BY <1>1, <1>10, <2>1 DEF Intact
    <2>3. [name: r.shared, id: {r.id}] \subseteq refs'
      <3>1. \A f \in [name: r.shared, id: {r.id}] : f \in refs /\ f.id = r.id
        BY <1>10 DEF Intact
      <3> QED BY <1>1, <2>1, <3>1
    <2> QED BY <1>1, <1>10, <2>2, <2>3 DEF Intact
  <1>11. LoadedIntact'
    BY <1>1, <1>10, IntactStays DEF LoadInv
  <1> QED BY <1>4, <1>7, <1>8, <1>9, <1>11, StepInv

LEMMA ReapDoneStep ==
  ASSUME TypeInv, TypeInv', LoadInv, NEW p \in Processes, OnlyMoves(p), ReapDone(p) PROVE LoadInv'
  <1>1. /\ pc[p] = "reap" /\ pc[p] \in ReapStages /\ UNCHANGED <<store, files, ghost, op>>
        /\ op[p].plan = {} /\ Goto(p, "kernel")
    BY DEF ReapDone, ReapStages
  <1>2. /\ Pending(p) = {} /\ OwnersInv(p) /\ op[p].listed = {} /\ op[p].loaded = <<>> /\ op[p].now = <<>>
        /\ pc \in [Processes -> Labels]
    BY <1>1, AtReap
  <1>3. pc'[p] = "kernel" /\ op'[p] = op[p] /\ Pending(p)' = {} /\ UNCHANGED <<mapSets, promised, used>>
    BY <1>1, <1>2 DEF Goto, Pending, store, ghost
  <1>4. Touched(p)' = {}
    BY <1>1, <1>2, <1>3 DEF Touched, TouchedAt, Removal, IdsOf
  <1>5. Items(<<>>) = {}
    BY DEF Items
  <1>6. PendingInv(p)'
    BY <1>1, <1>2, <1>3, <1>5 DEF PendingInv, PendingIDs, IdsOf, OwnersInv
  <1>7. OwnersInv(p)'
    BY <1>3 DEF OwnersInv, ReapStages
  <1>8. RemovalInv(p)'
    BY <1>1, <1>2, <1>3, <1>4 DEF RemovalInv, Removal
  <1> QED BY <1>1, <1>3, <1>4, <1>6, <1>7, <1>8, QuietStep

-----------------------------------------------------------------------------
(***************************************************************************)
(* Loading                                                                 *)
(***************************************************************************)
LEMMA InLoad ==
  ASSUME TypeInv, LoadInv, NEW p \in Processes, pc[p] \in LoadStages
  PROVE  /\ Touched(p) = {} /\ PendingInv(p) /\ StoreInv /\ LoadedIntact
         /\ lock # p => op[p].kind = "lockless"
         /\ op[p] \in Operation /\ pc \in [Processes -> Labels] /\ op \in [Processes -> Operation]
         /\ op[p].todo \in Seq(LoadSpec) /\ op[p].loaded \in Seq(Record)
  <1>1. op[p].listed = {} /\ op[p].plan = {} /\ op[p].kind \in {"locked", "lockless"}
    BY AtLoad
  <1>2. Touched(p) = {}
    BY <1>1 DEF Touched, TouchedAt, IdsOf, LoadStages, Removal
  <1>3. lock # p => op[p].kind = "lockless"
    BY <1>1, AtStage DEF HoldsAt
  <1>4. PendingInv(p) /\ StoreInv /\ LoadedIntact
    BY DEF LoadInv
  <1>5. /\ op[p] \in Operation /\ pc \in [Processes -> Labels] /\ op \in [Processes -> Operation]
        /\ op[p].todo \in Seq(LoadSpec) /\ op[p].loaded \in Seq(Record)
    BY AtStage DEF TypeInv, TypeOK
  <1> QED BY <1>2, <1>3, <1>4, <1>5

\* A load that goes on has nothing to remove but what it loaded.
LEMMA LoadMoves ==
  ASSUME TypeInv', NEW p \in Processes, pc'[p] \in LoadStages
  PROVE  /\ Touched(p)' = {} /\ OwnersInv(p)' /\ RemovalInv(p)'
         /\ Pending(p)' = Items(op'[p].loaded) \cup Items(op'[p].now)
         /\ pc'[p] # "publish" => Items(op'[p].now) = {}
  <1>1. StageOK(pc'[p], op'[p])
    BY DEF TypeInv
  <1>2. /\ op'[p].listed = {} /\ op'[p].plan = {} /\ op'[p].kind \in {"locked", "lockless"}
        /\ pc'[p] # "publish" => op'[p].now = <<>>
    BY <1>1 DEF StageOK, HoldsAt, Labels, ReapStages, LoadStages, UnloadStages, Removal
  <1>3. Items(<<>>) = {}
    BY DEF Items
  <1>4. Pending(p)' = Items(op'[p].loaded) \cup Items(op'[p].now)
    BY <1>2 DEF Pending, PendingOf
  <1>5. Touched(p)' = {}
    BY <1>2 DEF Touched, TouchedAt, IdsOf, LoadStages, Removal
  <1>6. OwnersInv(p)'
    BY DEF OwnersInv, LoadStages, ReapStages
  <1>7. RemovalInv(p)'
    BY <1>2, <1>5 DEF RemovalInv, LoadStages, Removal
  <1> QED BY <1>2, <1>3, <1>4, <1>5, <1>6, <1>7

LEMMA KernelLoadStep ==
  ASSUME TypeInv, TypeInv', LoadInv, NEW p \in Processes, OnlyMoves(p), KernelLoad(p), "reuse" \notin faults
  PROVE  LoadInv'
  <1>1. /\ pc[p] = "kernel" /\ op[p].todo # <<>> /\ pc[p] \in LoadStages /\ Goto(p, "publish")
        /\ UNCHANGED <<rows, mapSets, refs, bytecode, promised>>
    BY DEF KernelLoad, LoadStages, store
  <1>2. /\ Touched(p) = {} /\ PendingInv(p) /\ StoreInv /\ LoadedIntact
        /\ op[p] \in Operation /\ pc \in [Processes -> Labels] /\ op \in [Processes -> Operation]
        /\ op[p].todo \in Seq(LoadSpec) /\ op[p].loaded \in Seq(Record)
    BY <1>1, InLoad
  <1>3. PICK s : s = Head(op[p].todo)
    OBVIOUS
  <1>4. /\ s \in Items(op[p].todo) /\ s \in LoadSpec /\ Tail(op[p].todo) \in Seq(LoadSpec)
        /\ Items(Tail(op[p].todo)) \subseteq Items(op[p].todo)
    BY <1>1, <1>2, <1>3, ItemsTail
  <1>5. PICK id \in FreeIDs :
           /\ live' = live \cup {id} /\ used' = used \cup {id}
           /\ mapDirs' = mapDirs \cup IF s.owner = None THEN {id} ELSE {}
           /\ op' = [op EXCEPT ![p].todo = Tail(@), ![p].now = <<NewRecord(s, id)>>]
    BY <1>3 DEF KernelLoad, NewRecord
  <1>6. s.owner \in mapDirs \cup {None} /\ sharedPins' = SharedPinned(s)
    BY <1>3 DEF KernelLoad
  <1>7. id \in IDs /\ id \notin used
    BY DEF FreeIDs
  <1>8. PICK r : r = NewRecord(s, id)
    OBVIOUS
  <1>9. r.id = id /\ r.set = MapSet(s, id) /\ r.shared = s.shared /\ r \in Record
    BY <1>4, <1>7, <1>8, NewRecordType
  <1>10. PICK now : now = <<r>>
    OBVIOUS
  <1>11. now \in Seq(Record) /\ Items(now) = {r}
    BY <1>9, <1>10, ItemsShort
  <1>12. op'[p].todo = Tail(op[p].todo) /\ op'[p].loaded = op[p].loaded /\ op'[p].now = now /\ pc'[p] = "publish"
    BY <1>1, <1>2, <1>5, <1>8, <1>10 DEF Operation, Goto
  <1>13. /\ Touched(p)' = {} /\ OwnersInv(p)' /\ RemovalInv(p)'
         /\ Pending(p)' = Items(op[p].loaded) \cup {r}
    BY <1>11, <1>12, LoadMoves DEF LoadStages
  <1>14. Pending(p) = Items(op[p].loaded) /\ Pending(p)' = Pending(p) \cup {r}
    BY <1>1, <1>13, AtLoad
  <1>15. PendingIDs(p)' = PendingIDs(p) \cup {id}
    BY <1>9, <1>14 DEF PendingIDs, IdsOf
  <1>16. mapDirs \subseteq mapDirs' /\ sharedPins \subseteq sharedPins' /\ live \subseteq live'
    BY <1>5, <1>6 DEF SharedPinned
  <1>17. Footprint(p)
    BY <1>1, <1>5, <1>7, <1>13, <1>15, <1>16 DEF Footprint, OnlyMoves
  <1>18. StoreInv'
    BY <1>1, <1>2, <1>5 DEF StoreInv
  <1>19. LoadedIntact'
    BY <1>1, <1>2, <1>16, IntactStays DEF Intact
  <1>20. /\ \A t \in Items(op[p].todo) : t.owner \in mapSets \cup {None}
         /\ IdsOf(Items(op[p].loaded)) \subseteq bytecode
         /\ \A t \in Pending(p) : /\ t.set \in mapDirs
                                  /\ t.set # t.id => t.set \in mapSets
                                  /\ t.set = t.id => t.shared \subseteq sharedPins
    BY <1>1, <1>2 DEF PendingInv
  <1>21. PendingInv(p)'
    <2>1. PendingIDs(p)' \subseteq used' \ (IdsOf(rows) \cup mapSets)
      BY <1>2, <1>5, <1>7, <1>15 DEF PendingInv, StoreInv
    <2>2. \A t \in Items(op'[p].todo) : t.owner \in mapSets \cup {None}
      BY <1>4, <1>12, <1>20
    <2>3. r.set \in mapDirs' /\ (r.set # r.id => r.set \in mapSets) /\ (r.set = r.id => r.shared \subseteq sharedPins')
      <3>1. CASE s.owner = None
        BY <1>4, <1>5, <1>6, <1>7, <1>9, <3>1, NewRecordType DEF SharedPinned
      <3>2. CASE s.owner # None
        <4>1. r.set = s.owner /\ s.owner \in mapSets /\ s.owner \in mapDirs
          BY <1>4, <1>6, <1>7, <1>9, <1>20, <3>2, NewRecordType
        <4>2. s.owner # id
          BY <1>2, <1>7, <4>1 DEF StoreInv
        <4> QED BY <1>9, <1>16, <4>1, <4>2
      <3> QED BY <3>1, <3>2
    <2>4. \A t \in Pending(p)' : /\ t.set \in mapDirs'
                                 /\ t.set # t.id => t.set \in mapSets
                                 /\ t.set = t.id => t.shared \subseteq sharedPins'
      BY <1>14, <1>16, <1>20, <2>3
    <2>5. IdsOf(Items(op'[p].now)) = {id}
      BY <1>9, <1>11, <1>12 DEF IdsOf
    <2>6. IdsOf(Items(op'[p].now)) \cap bytecode = {}
      BY <1>2, <1>7, <2>5 DEF StoreInv
    <2> QED BY <1>1, <1>12, <1>20, <2>1, <2>2, <2>4, <2>6 DEF PendingInv, IdsOf
  <1> QED BY <1>13, <1>17, <1>18, <1>19, <1>21, StepInv

LEMMA KernelLoadFailsStep ==
  ASSUME TypeInv, TypeInv', LoadInv, NEW p \in Processes, OnlyMoves(p), KernelLoadFails(p),
         "reuse" \notin faults
  PROVE  LoadInv'
  <1>1. /\ pc[p] = "kernel" /\ pc[p] \in LoadStages /\ Goto(p, "cleanup") /\ op' = op
        /\ UNCHANGED <<rows, mapSets, refs, live, bytecode, used, promised>>
    BY DEF KernelLoadFails, LoadStages, store, ghost
  <1>2. /\ Touched(p) = {} /\ PendingInv(p) /\ StoreInv /\ LoadedIntact
        /\ pc \in [Processes -> Labels]
    BY <1>1, InLoad
  <1>3. FreeIDs \cap mapDirs = {}
    BY <1>2 DEF FreeIDs, StoreInv
  <1>4. mapDirs' = mapDirs /\ sharedPins \subseteq sharedPins'
    BY <1>3 DEF KernelLoadFails, SharedPinned
  <1>5. pc'[p] = "cleanup" /\ Pending(p)' = Pending(p) /\ PendingIDs(p)' = PendingIDs(p)
    BY <1>1, <1>2 DEF Goto, Pending, PendingIDs
  <1>6. Touched(p)' = {} /\ OwnersInv(p)' /\ RemovalInv(p)'
    BY <1>5, LoadMoves DEF LoadStages
  <1>7. PendingInv(p)'
    BY <1>1, <1>2, <1>5 DEF PendingInv
  <1>8. Footprint(p)
    BY <1>1, <1>4, <1>5, <1>6 DEF Footprint, OnlyMoves
  <1>9. StoreInv'
    BY <1>1, <1>2, <1>4 DEF StoreInv
  <1>10. LoadedIntact'
    BY <1>1, <1>2, <1>4, IntactStays DEF Intact
  <1> QED BY <1>6, <1>7, <1>8, <1>9, <1>10, StepInv

LEMMA PublishBytecodeStep ==
  ASSUME TypeInv, TypeInv', LoadInv, NEW p \in Processes, OnlyMoves(p), PublishBytecode(p) PROVE LoadInv'
  <1>1. /\ pc[p] = "publish" /\ pc[p] \in LoadStages /\ Goto(p, "kernel")
        /\ UNCHANGED <<rows, mapSets, refs, live, mapDirs, sharedPins, used, promised>>
    BY DEF PublishBytecode, LoadStages, store, ghost
  <1>2. /\ Touched(p) = {} /\ PendingInv(p) /\ StoreInv /\ LoadedIntact
        /\ op[p] \in Operation /\ pc \in [Processes -> Labels] /\ op \in [Processes -> Operation]
        /\ op[p].loaded \in Seq(Record)
    BY <1>1, InLoad
  <1>3. PICK r : r = Head(op[p].now)
    OBVIOUS
  <1>4. /\ r \in Record /\ Items(op[p].now) = {r} /\ Pending(p) = Items(op[p].loaded) \cup {r}
        /\ r.id \in PendingIDs(p)
    BY <1>1, <1>3, AtPublish, AtLoad DEF PendingIDs, IdsOf
  <1>5. PICK loaded : loaded = Append(op[p].loaded, r)
    OBVIOUS
  <1>6. loaded \in Seq(Record) /\ Items(loaded) = Items(op[p].loaded) \cup {r}
    BY <1>2, <1>4, <1>5, ItemsAppend
  <1>7. bytecode' = bytecode \cup {r.id} /\ op' = [op EXCEPT ![p].loaded = Append(@, r), ![p].now = <<>>]
    BY <1>3 DEF PublishBytecode
  <1>8. op'[p].todo = op[p].todo /\ op'[p].loaded = loaded /\ pc'[p] = "kernel"
    BY <1>1, <1>2, <1>5, <1>7 DEF Operation, Goto
  <1>9. Touched(p)' = {} /\ OwnersInv(p)' /\ RemovalInv(p)' /\ Pending(p)' = Pending(p)
    BY <1>4, <1>6, <1>8, LoadMoves DEF LoadStages
  <1>10. PendingIDs(p)' = PendingIDs(p)
    BY <1>9 DEF PendingIDs
  <1>11. IdsOf(Items(loaded)) \subseteq bytecode'
    BY <1>1, <1>2, <1>6, <1>7 DEF PendingInv, IdsOf
  <1>12. PendingInv(p)'
    BY <1>1, <1>2, <1>8, <1>9, <1>10, <1>11 DEF PendingInv
  <1>13. Footprint(p)
    BY <1>1, <1>4, <1>7, <1>9, <1>10 DEF Footprint, OnlyMoves
  <1>14. StoreInv'
    BY <1>1, <1>2, <1>4, <1>7 DEF StoreInv, PendingInv
  <1>15. LoadedIntact'
    BY <1>1, <1>2, <1>7, IntactStays DEF Intact
  <1> QED BY <1>9, <1>12, <1>13, <1>14, <1>15, StepInv

\* An undo that removes nothing but what carries the id of an uncommitted
\* program leaves the programs in place alone.
LEMMA UndoStep ==
  ASSUME TypeInv, TypeInv', LoadInv, NEW p \in Processes, OnlyMoves(p), pc[p] \in LoadStages, pc'[p] = "cleanup",
         NEW id \in PendingIDs(p), Pending(p)' \subseteq Pending(p),
         UNCHANGED <<rows, mapSets, refs, sharedPins, used, promised>>,
         live' = live \ {id} \/ live' = live,
         mapDirs' = mapDirs \ {id} \/ mapDirs' = mapDirs,
         bytecode' = bytecode \ {id} \/ bytecode' = bytecode
  PROVE  LoadInv'
  <1>1. Touched(p) = {} /\ PendingInv(p) /\ StoreInv /\ LoadedIntact
    BY InLoad
  <1>2. Touched(p)' = {} /\ OwnersInv(p)' /\ RemovalInv(p)'
    BY LoadMoves DEF LoadStages
  <1>3. PendingIDs(p)' \subseteq PendingIDs(p)
    BY DEF PendingIDs, IdsOf
  <1>4. id \notin IdsOf(rows) /\ id \notin mapSets
    BY <1>1 DEF PendingInv
  <1>5. PendingInv(p)'
    BY <1>1, <1>3 DEF PendingInv
  <1>6. Footprint(p)
    BY <1>1, <1>2, <1>3, <1>4 DEF Footprint, OnlyMoves
  <1>7. StoreInv'
    BY <1>1 DEF StoreInv
  <1>8. ASSUME NEW r \in rows, Intact(r) PROVE Intact(r)'
    <2>1. r.id # id
      BY <1>4 DEF IdsOf
    <2> QED BY <1>4, <1>8, <2>1 DEF Intact
  <1>9. LoadedIntact'
    BY <1>1, <1>8, IntactStays
  <1> QED BY <1>2, <1>5, <1>6, <1>7, <1>9, StepInv

LEMMA PublishFailsStep ==
  ASSUME TypeInv, TypeInv', LoadInv, NEW p \in Processes, OnlyMoves(p), PublishFails(p),
         "publishshared" \notin faults
  PROVE  LoadInv'
  <1>1. /\ pc[p] = "publish" /\ pc[p] \in LoadStages /\ Goto(p, "cleanup") /\ op' = [op EXCEPT ![p].now = <<>>]
        /\ UNCHANGED <<rows, mapSets, refs, bytecode, sharedPins, used, promised>>
    BY DEF PublishFails, LoadStages, store, ghost
  <1>2. /\ PendingInv(p) /\ op[p] \in Operation /\ pc \in [Processes -> Labels]
        /\ op \in [Processes -> Operation]
    BY <1>1, InLoad
  <1>3. PICK r : r = Head(op[p].now)
    OBVIOUS
  <1>4. Items(op[p].now) = {r} /\ Pending(p) = Items(op[p].loaded) \cup {r} /\ r.id \in PendingIDs(p)
    BY <1>1, <1>3, AtPublish, AtLoad DEF PendingIDs, IdsOf
  <1>5. r.id \notin bytecode
    BY <1>1, <1>2, <1>4 DEF PendingInv, IdsOf
  <1>6. /\ r.set = r.id /\ (live' = live \ {r.id} \/ live' = live)
        /\ (mapDirs' = mapDirs \ {r.id} \/ mapDirs' = mapDirs)
    BY <1>3, <1>5 DEF PublishFails, Removing
  <1>7. op'[p].loaded = op[p].loaded /\ pc'[p] = "cleanup"
    BY <1>1, <1>2 DEF Operation, Goto
  <1>8. Pending(p)' \subseteq Pending(p)
    BY <1>4, <1>7, LoadMoves DEF LoadStages
  <1> QED BY <1>1, <1>4, <1>6, <1>7, <1>8, UndoStep

LEMMA UnloadLoadedStep ==
  ASSUME TypeInv, TypeInv', LoadInv, NEW p \in Processes, OnlyMoves(p), UnloadLoaded(p) PROVE LoadInv'
  <1>1. /\ pc[p] = "cleanup" /\ pc[p] \in LoadStages /\ op[p].loaded # <<>> /\ pc'[p] = "cleanup"
        /\ UNCHANGED <<rows, mapSets, used, promised>>
        /\ op' = [op EXCEPT ![p].loaded = SubSeq(@, 1, Len(op[p].loaded) - 1)]
    BY DEF UnloadLoaded, LoadStages, ghost
  <1>2. /\ PendingInv(p) /\ StoreInv /\ op[p] \in Operation
        /\ op \in [Processes -> Operation] /\ op[p].loaded \in Seq(Record)
    BY <1>1, InLoad
  <1>3. PICK r : r = op[p].loaded[Len(op[p].loaded)]
    OBVIOUS
  <1>4. PICK front : front = SubSeq(op[p].loaded, 1, Len(op[p].loaded) - 1)
    OBVIOUS
  <1>5. r \in Items(op[p].loaded) /\ Items(front) \subseteq Items(op[p].loaded)
    BY <1>1, <1>2, <1>3, <1>4, ItemsFront
  <1>6. op'[p].loaded = front
    BY <1>1, <1>2, <1>4 DEF Operation
  <1>7. r.id \in PendingIDs(p) /\ Pending(p)' \subseteq Pending(p)
    BY <1>1, <1>5, <1>6, AtLoad, LoadMoves DEF PendingIDs, IdsOf
  <1>8. ASSUME CleanupSharedMapPins(r.id, "undo") PROVE UNCHANGED <<refs, sharedPins>>
    <2>1. \A f \in refs : f.id # r.id
      BY <1>2, <1>7 DEF PendingInv, StoreInv
    <2>2. PICK left : left = {f \in refs : f.id # r.id}
      OBVIOUS
    <2>3. left = refs
      BY <2>1, <2>2
    <2>4. PICK orphaned : orphaned = {f.name : f \in refs \ left} \ {f.name : f \in left}
      OBVIOUS
    <2>5. orphaned = {}
      BY <2>3, <2>4
    <2>6. \/ refs' = left /\ sharedPins' \in Removing(sharedPins, orphaned, "undo")
          \/ UNCHANGED <<refs, sharedPins>>
      BY <1>8, <2>2, <2>4 DEF CleanupSharedMapPins
    <2> QED BY <2>3, <2>5, <2>6 DEF Removing
  <1>9. /\ UNCHANGED <<refs, sharedPins>> /\ (live' = live \ {r.id} \/ live' = live)
        /\ (mapDirs' = mapDirs \ {r.id} \/ mapDirs' = mapDirs)
        /\ (bytecode' = bytecode \ {r.id} \/ bytecode' = bytecode)
    <2>1. \/ /\ live' = live \ {r.id} /\ CleanupSharedMapPins(r.id, "undo")
             /\ mapDirs' \in Removing(mapDirs, IF r.set = r.id /\ r.id \notin mapSets THEN {r.id} ELSE {}, "undo")
             /\ bytecode' \in Removing(bytecode, {r.id}, "undo")
          \/ UNCHANGED <<files, refs>>
      BY <1>3 DEF UnloadLoaded
    <2> QED BY <1>8, <2>1 DEF Removing, files
  <1> QED BY <1>1, <1>7, <1>9, UndoStep

LEMMA CommitFailsStep ==
  ASSUME TypeInv, TypeInv', LoadInv, NEW p \in Processes, OnlyMoves(p), CommitFails(p) PROVE LoadInv'
  <1>1. /\ pc[p] = "kernel" /\ pc[p] \in LoadStages /\ Goto(p, "cleanup") /\ op' = op
        /\ UNCHANGED <<store, files, ghost>>
    BY DEF CommitFails, LoadStages
  <1>2. PendingInv(p) /\ pc \in [Processes -> Labels]
    BY <1>1, InLoad
  <1>3. pc'[p] = "cleanup" /\ Pending(p)' = Pending(p) /\ PendingIDs(p)' = PendingIDs(p)
    BY <1>1, <1>2 DEF Goto, Pending, PendingIDs
  <1>4. Touched(p)' = {} /\ OwnersInv(p)' /\ RemovalInv(p)'
    BY <1>3, LoadMoves DEF LoadStages
  <1>5. PendingInv(p)'
    BY <1>1, <1>2, <1>3 DEF PendingInv, store, ghost
  <1> QED BY <1>1, <1>3, <1>4, <1>5, QuietStep DEF ghost

LEMMA CommitStep ==
  ASSUME TypeInv, TypeInv', LoadInv, NEW p \in Processes, OnlyMoves(p), Commit(p) PROVE LoadInv'
  <1>1. /\ pc[p] = "kernel" /\ pc[p] \in LoadStages /\ Committable(p) /\ Return(p)
        /\ rows' = rows \cup Loaded(p) /\ mapSets' = mapSets \cup {r.set : r \in Loaded(p)}
        /\ refs' = refs \cup UNION {[name: r.shared, id: {r.id}] : r \in Loaded(p)}
        /\ promised' = promised \cup (IdsOf(Loaded(p)) \cap live)
        /\ UNCHANGED <<live, mapDirs, sharedPins, bytecode, used>>
    BY DEF Commit, LoadStages, files
  <1>2. /\ PendingInv(p) /\ StoreInv /\ LoadedIntact /\ pc \in [Processes -> Labels]
        /\ lock # p => op[p].kind = "lockless"
    BY <1>1, InLoad
  <1>3. Loaded(p) = Pending(p) /\ Pending(p) \subseteq Record /\ Items(op[p].loaded) = Pending(p)
    BY <1>1, AtLoad DEF Loaded, Items
  <1>4. \A r \in Pending(p) : r.id \in PendingIDs(p) /\ r.id \in used
    BY <1>2 DEF PendingInv, PendingIDs, IdsOf
  <1>5. IdsOf(Loaded(p)) = PendingIDs(p)
    BY <1>3 DEF PendingIDs
  <1>6. \A r \in Pending(p) : r.set = r.id \/ r.set \in mapSets
    BY <1>1, <1>3 DEF Committable
  <1>7. pc'[p] = "idle"
    BY <1>1, <1>2 DEF Return, Goto
  <1>8. Pending(p)' = {} /\ Touched(p)' = {} /\ PendingInv(p)' /\ OwnersInv(p)' /\ RemovalInv(p)'
    BY <1>7, BlankInv DEF Blank
  <1>9. mapSets' \subseteq mapSets \cup PendingIDs(p) /\ mapSets \subseteq mapSets'
    BY <1>1, <1>3, <1>4, <1>6
  <1>10. PendingIDs(p)' = {}
    BY <1>8 DEF PendingIDs, IdsOf
  <1>11. lock # p => \A r \in rows' : r \in rows \/ r.set = r.id
    BY <1>1, <1>2, <1>3, AtLoad
  <1>12. Footprint(p)
    BY <1>1, <1>3, <1>5, <1>8, <1>9, <1>10, <1>11 DEF Footprint, OnlyMoves
  <1>13. StoreInv'
    <2>1. IdsOf(rows') = IdsOf(rows) \cup PendingIDs(p)
      BY <1>1, <1>3 DEF PendingIDs, IdsOf
    <2>2. PendingIDs(p) \subseteq used
      BY <1>2 DEF PendingInv
    <2>3. {r.set : r \in rows'} \subseteq mapSets'
      BY <1>1, <1>2 DEF StoreInv
    <2>4. ASSUME NEW f \in refs' PROVE f.id \in IdsOf(rows')
      <3>1. CASE f \in refs
        BY <1>2, <2>1, <3>1 DEF StoreInv
      <3>2. CASE f \in UNION {[name: r.shared, id: {r.id}] : r \in Loaded(p)}
        <4>1. f.id \in IdsOf(Loaded(p))
          BY <1>3, <3>2, NewRefs
        <4> QED BY <1>5, <2>1, <4>1
      <3> QED BY <1>1, <3>1, <3>2
    <2> QED BY <1>1, <1>2, <1>9, <2>1, <2>2, <2>3, <2>4 DEF StoreInv
  <1>14. LoadedIntact'
    <2>1. ASSUME NEW id \in promised PROVE \E r \in rows' : r.id = id /\ Intact(r)'
      <3>1. PICK r \in rows : r.id = id /\ Intact(r)
        BY <1>2 DEF LoadedIntact
      <3>2. Intact(r)'
        BY <1>1, <1>9, <3>1 DEF Intact
      <3> QED BY <1>1, <3>1, <3>2
    <2>2. ASSUME NEW id \in PendingIDs(p) \cap live PROVE \E r \in rows' : r.id = id /\ Intact(r)'
      <3>1. PICK r \in Pending(p) : r.id = id
        BY DEF PendingIDs, IdsOf
      <3>2. r.set \in mapDirs /\ (r.set = r.id => r.shared \subseteq sharedPins) /\ r.id \in bytecode
        BY <1>1, <1>2, <1>3, <3>1 DEF PendingInv, IdsOf
      <3>3. r.set \in mapSets' /\ [name: r.shared, id: {r.id}] \subseteq refs' /\ r \in rows'
        BY <1>1, <1>3
      <3>4. Intact(r)'
        BY <1>1, <3>1, <3>2, <3>3 DEF Intact
      <3> QED BY <3>1, <3>3, <3>4
    <2> QED BY <1>1, <1>5, <2>1, <2>2 DEF LoadedIntact
  <1> QED BY <1>8, <1>12, <1>13, <1>14, StepInv

-----------------------------------------------------------------------------
(***************************************************************************)
(* Unloading                                                               *)
(***************************************************************************)
LEMMA GetProgramStep ==
  ASSUME TypeInv, TypeInv', LoadInv, NEW p \in Processes, OnlyMoves(p), GetProgram(p) PROVE LoadInv'
  <1>1. pc[p] = "get" /\ UNCHANGED <<store, files, used>>
    BY DEF GetProgram
  <1>2. /\ pc \in [Processes -> Labels] /\ op \in [Processes -> Operation] /\ op[p] \in Operation
        /\ rows \subseteq Record /\ StoreInv
    BY DEF TypeInv, TypeOK, LoadInv
  <1>3. CASE Return(p) /\ UNCHANGED <<promised, doomed>>
    BY <1>1, <1>3, ReturnStep
  <1>4. ASSUME NEW r \in rows, r.id = op[p].target, op' = [op EXCEPT ![p].now = <<r>>],
               promised' = promised \ {r.id}, Goto(p, "detach")
        PROVE  LoadInv'
    <2>1. PICK now : now = <<r>>
      OBVIOUS
    <2>2. now \in Seq(Record) /\ Items(now) = {r} /\ Head(now) = r
      BY <1>2, <2>1, ItemsShort
    <2>3. /\ pc'[p] = "detach" /\ op'[p].now = now /\ op'[p].kind = op[p].kind /\ op'[p].target = op[p].target
          /\ op'[p].listed = op[p].listed /\ op'[p].plan = op[p].plan
      BY <1>2, <1>4, <2>1 DEF Operation, Goto
    <2>4. op[p].listed = {} /\ op[p].plan = {} /\ op[p].kind = "unload"
      BY <1>1, AtStage DEF StageOK, HoldsAt, Labels, ReapStages, LoadStages, UnloadStages, Removal
    <2>5. Pending(p)' = {}
      BY <2>3, <2>4 DEF Pending, PendingOf
    <2>6. Touched(p)' = {r.id, r.set}
      BY <1>4, <2>2, <2>3, <2>4 DEF Touched, TouchedAt, IdsOf, Removal
    <2>7. {r.id, r.set} \subseteq IdsOf(rows) \cup mapSets /\ {r.id, r.set} \subseteq used /\ used' = used
      BY <1>1, <1>2 DEF StoreInv, IdsOf
    <2>8. PendingInv(p)'
      BY <2>3, <2>5 DEF PendingInv, PendingIDs, IdsOf
    <2>9. OwnersInv(p)'
      BY <2>3 DEF OwnersInv, ReapStages
    <2>10. RemovalInv(p)'
      BY <1>4, <2>3, <2>4, <2>6, <2>7 DEF RemovalInv, Removal
    <2> QED BY <1>1, <1>4, <2>5, <2>6, <2>7, <2>8, <2>9, <2>10, QuietStep
  <1> QED BY <1>3, <1>4 DEF GetProgram

\* A removal that goes on, with the same program.
LEMMA RemovalMoves ==
  ASSUME TypeInv, LoadInv, NEW p \in Processes, pc[p] \in Removal, pc'[p] \in Removal, op' = op
  PROVE  /\ Pending(p)' = {} /\ PendingIDs(p)' = {} /\ PendingInv(p)' /\ OwnersInv(p)'
         /\ Touched(p)' = Touched(p)
         /\ (/\ used' = used /\ promised' = promised
             /\ pc'[p] \in {"gcpins", "gcrow"} => \A r \in rows' : r.set # Head(op[p].now).set) => RemovalInv(p)'
  <1>1. /\ Pending(p) = {} /\ Items(op[p].now) = {Head(op[p].now)} /\ op[p].listed = {} /\ op[p].plan = {}
        /\ RemovalInv(p)
    BY AtRemoval DEF LoadInv
  <1>2. Pending(p)' = {} /\ PendingIDs(p)' = {}
    BY <1>1 DEF Pending, PendingIDs, IdsOf
  <1>3. PendingInv(p)'
    BY <1>2 DEF PendingInv, Removal
  <1>4. OwnersInv(p)'
    BY DEF OwnersInv, Removal, ReapStages
  <1>5. Touched(p)' = Touched(p)
    BY DEF Touched, TouchedAt
  <1>6. ASSUME used' = used, promised' = promised,
               pc'[p] \in {"gcpins", "gcrow"} => \A r \in rows' : r.set # Head(op[p].now).set
        PROVE  RemovalInv(p)'
    <2>1. pc'[p] \notin {"enumerate", "reaprow"}
      BY DEF Removal
    <2>2. Touched(p)' \subseteq used' /\ op'[p].plan = {} /\ op'[p].target \notin promised'
      BY <1>1, <1>5, <1>6 DEF RemovalInv
    <2> QED BY <1>1, <1>6, <2>1, <2>2 DEF RemovalInv
  <1> QED BY <1>2, <1>3, <1>4, <1>5, <1>6

\* The step of a removal: it takes away only what is the target's, or the map
\* set that no program uses.
LEMMA RemovalStepInv ==
  ASSUME TypeInv, TypeInv', LoadInv, NEW p \in Processes, OnlyMoves(p), pc[p] \in Removal, pc'[p] \in Removal,
         op' = op, UNCHANGED <<used, promised>>,
         pc'[p] \in {"gcpins", "gcrow"} => \A r \in rows' : r.set # Head(op[p].now).set,
         live' \subseteq live, rows' \subseteq rows, mapSets' \subseteq mapSets, mapDirs' \subseteq mapDirs,
         bytecode' = bytecode,
         \A id \in mapDirs : id \in mapDirs' \/ id \in Touched(p),
         {r.set : r \in rows'} \subseteq mapSets', {f.id : f \in refs'} \subseteq IdsOf(rows'),
         \A r \in rows : r.id # op[p].target /\ Intact(r) => r \in rows' /\ Intact(r)'
  PROVE  LoadInv'
  <1>1. lock = p /\ RemovalInv(p) /\ StoreInv /\ LoadedIntact
    BY AtRemoval DEF LoadInv
  <1>2. /\ Pending(p)' = {} /\ PendingIDs(p)' = {} /\ PendingInv(p)' /\ OwnersInv(p)'
        /\ Touched(p)' = Touched(p) /\ RemovalInv(p)'
    BY RemovalMoves
  <1>3. Footprint(p)
    BY <1>1, <1>2 DEF Footprint, OnlyMoves
  <1>4. IdsOf(rows') \subseteq IdsOf(rows)
    BY DEF IdsOf
  <1>5. StoreInv'
    BY <1>1, <1>4 DEF StoreInv
  <1>6. \A r \in rows : r.id \in promised => r.id # op[p].target
    BY <1>1 DEF RemovalInv
  <1>7. LoadedIntact'
    BY <1>1, <1>6, IntactStays
  <1> QED BY <1>2, <1>3, <1>5, <1>7, StepInv

LEMMA RemovalSteps ==
  ASSUME TypeInv, TypeInv', LoadInv, NEW p \in Processes, OnlyMoves(p),
         \/ UnloadKernelProgram(p) \/ UnloadSharedMapPins(p) \/ DeleteProgramRecord(p)
         \/ DeleteProgramRecordFails(p) \/ CountMapSetUsers(p) \/ RemoveMapSetPins(p) \/ DeleteMapSet(p)
  PROVE  LoadInv'
  <1>0. PICK set : set = Head(op[p].now).set
    OBVIOUS
  <1>1. /\ pc[p] \in {"detach", "shared", "row", "gc", "gcpins", "gcrow"} /\ pc[p] \in Removal
        /\ op' = op /\ UNCHANGED <<bytecode, used, promised>>
    BY DEF UnloadKernelProgram, UnloadSharedMapPins, DeleteProgramRecord, DeleteProgramRecordFails,
       CountMapSetUsers, RemoveMapSetPins, DeleteMapSet, Removal, files, ghost
  <1>2. /\ StoreInv /\ RemovalInv(p) /\ pc \in [Processes -> Labels]
        /\ Items(op[p].now) = {Head(op[p].now)} /\ Touched(p) = {op[p].target, set}
    BY <1>0, <1>1, AtRemoval DEF LoadInv, TypeInv, TypeOK
  <1>3. pc[p] \in {"gcpins", "gcrow"} => \A r \in rows : r.set # set
    BY <1>0, <1>2 DEF RemovalInv
  <1>4. {r.set : r \in rows} \subseteq mapSets /\ {f.id : f \in refs} \subseteq IdsOf(rows)
    BY <1>2 DEF StoreInv
  <1>5. CASE UnloadKernelProgram(p)
    <2>1. /\ live' = live \ {op[p].target} /\ pc'[p] = "shared"
          /\ UNCHANGED <<rows, mapSets, refs, mapDirs, sharedPins>>
      BY <1>2, <1>5 DEF UnloadKernelProgram, Goto, store
    <2>2. \A r \in rows : r.id # op[p].target /\ Intact(r) => r \in rows' /\ Intact(r)'
      BY <1>1, <2>1 DEF Intact
    <2>3. pc'[p] \in Removal /\ pc'[p] \notin {"gcpins", "gcrow"}
      BY <2>1 DEF Removal
    <2> QED BY <1>1, <1>4, <2>1, <2>2, <2>3, RemovalStepInv
  <1>6. CASE UnloadSharedMapPins(p)
    <2>1. /\ CleanupSharedMapPins(op[p].target, "shared") /\ pc'[p] = "row"
          /\ UNCHANGED <<rows, mapSets, live, mapDirs>>
      BY <1>2, <1>6 DEF UnloadSharedMapPins, Goto
    <2>2. ASSUME NEW r \in rows, r.id # op[p].target, Intact(r) PROVE r \in rows' /\ Intact(r)'
      <3>1. /\ [name: r.shared, id: {r.id}] \subseteq refs'
            /\ r.shared \subseteq sharedPins => r.shared \subseteq sharedPins'
        BY <2>1, <2>2, SharedKept DEF Intact
      <3> QED BY <1>1, <2>1, <2>2, <3>1 DEF Intact
    <2>3. refs' \subseteq refs
      BY <2>1, SharedLess
    <2>4. pc'[p] \in Removal /\ pc'[p] \notin {"gcpins", "gcrow"}
      BY <2>1 DEF Removal
    <2>5. {r.set : r \in rows'} \subseteq mapSets' /\ {f.id : f \in refs'} \subseteq IdsOf(rows')
      BY <1>4, <2>1, <2>3
    <2> QED BY <1>1, <2>1, <2>2, <2>4, <2>5, RemovalStepInv
  <1>7. CASE DeleteProgramRecord(p)
    <2>1. /\ rows' = {r \in rows : r.id # op[p].target} /\ refs' = {f \in refs : f.id # op[p].target}
          /\ pc'[p] = "gc" /\ UNCHANGED <<mapSets, live, mapDirs, sharedPins>>
      BY <1>2, <1>7 DEF DeleteProgramRecord, Goto, files
    <2>2. ASSUME NEW r \in rows, r.id # op[p].target, Intact(r) PROVE r \in rows' /\ Intact(r)'
      <3>1. \A f \in [name: r.shared, id: {r.id}] : f \in refs /\ f.id = r.id
        BY <2>2 DEF Intact
      <3>2. [name: r.shared, id: {r.id}] \subseteq refs'
        BY <2>1, <2>2, <3>1
      <3> QED BY <1>1, <2>1, <2>2, <3>2 DEF Intact
    <2>3. pc'[p] \in Removal /\ pc'[p] \notin {"gcpins", "gcrow"}
      BY <2>1 DEF Removal
    <2>4. {r.set : r \in rows'} \subseteq mapSets' /\ {f.id : f \in refs'} \subseteq IdsOf(rows') /\ rows' \subseteq rows
      BY <1>4, <2>1 DEF IdsOf
    <2> QED BY <1>1, <2>1, <2>2, <2>3, <2>4, RemovalStepInv
  <1>8. CASE DeleteProgramRecordFails(p) \/ CountMapSetUsers(p)
    <2>1. /\ pc'[p] \in {"bytecode", "gcpins"} /\ UNCHANGED <<rows, mapSets, refs, live, mapDirs, sharedPins>>
          /\ pc'[p] = "gcpins" => \A r \in rows : r.set # set
      BY <1>0, <1>2, <1>8 DEF DeleteProgramRecordFails, CountMapSetUsers, Goto, store, files
    <2>2. \A r \in rows : r.id # op[p].target /\ Intact(r) => r \in rows' /\ Intact(r)'
      BY <1>1, <2>1 DEF Intact
    <2>3. pc'[p] \in Removal /\ pc'[p] # "gcrow"
      BY <2>1 DEF Removal
    <2> QED BY <1>0, <1>1, <1>4, <2>1, <2>2, <2>3, RemovalStepInv
  <1>9. CASE RemoveMapSetPins(p)
    <2>1. /\ pc[p] = "gcpins" /\ pc'[p] \in {"gcrow", "bytecode"} /\ (mapDirs' = mapDirs \ {set} \/ mapDirs' = mapDirs)
          /\ UNCHANGED <<rows, mapSets, refs, live, sharedPins>>
      BY <1>0, <1>2, <1>9 DEF RemoveMapSetPins, Goto, store
    <2>2. \A r \in rows : r.id # op[p].target /\ Intact(r) => r \in rows' /\ Intact(r)'
      BY <1>1, <1>3, <2>1 DEF Intact
    <2>3. pc'[p] \in Removal
      BY <2>1 DEF Removal
    <2>4. \A id \in mapDirs : id \in mapDirs' \/ id \in Touched(p)
      BY <1>2, <2>1
    <2> QED BY <1>0, <1>1, <1>3, <1>4, <2>1, <2>2, <2>3, <2>4, RemovalStepInv
  <1>10. CASE DeleteMapSet(p)
    <2>1. /\ pc[p] = "gcrow" /\ pc'[p] = "bytecode" /\ (mapSets' = mapSets \ {set} \/ mapSets' = mapSets)
          /\ UNCHANGED <<rows, refs, live, mapDirs, sharedPins>>
      BY <1>0, <1>2, <1>10 DEF DeleteMapSet, Goto, files, Removing
    <2>2. \A r \in rows : r.id # op[p].target /\ Intact(r) => r \in rows' /\ Intact(r)'
      BY <1>1, <1>3, <2>1 DEF Intact
    <2>3. pc'[p] \in Removal /\ pc'[p] \notin {"gcpins", "gcrow"}
      BY <2>1 DEF Removal
    <2>4. {r.set : r \in rows'} \subseteq mapSets'
      BY <1>3, <1>4, <2>1
    <2> QED BY <1>1, <1>4, <2>1, <2>2, <2>3, <2>4, RemovalStepInv
  <1> QED BY <1>5, <1>6, <1>7, <1>8, <1>9, <1>10

LEMMA RemoveBytecodeStep ==
  ASSUME TypeInv, TypeInv', LoadInv, NEW p \in Processes, OnlyMoves(p), RemoveProgramBytecodeDir(p) PROVE LoadInv'
  <1>1. /\ pc[p] = "bytecode" /\ pc[p] \in Removal /\ Return(p)
        /\ bytecode' = bytecode \ {op[p].target} \/ bytecode' = bytecode
        /\ UNCHANGED <<rows, mapSets, refs, live, mapDirs, sharedPins, used, promised>>
    BY DEF RemoveProgramBytecodeDir, Removal, Removing, store, ghost
  <1>2. /\ StoreInv /\ LoadedIntact /\ RemovalInv(p) /\ pc \in [Processes -> Labels]
        /\ Touched(p) = {op[p].target, Head(op[p].now).set}
    BY <1>1, AtRemoval DEF LoadInv, TypeInv, TypeOK
  <1>3. pc'[p] = "idle"
    BY <1>1, <1>2 DEF Return, Goto
  <1>4. Pending(p)' = {} /\ Touched(p)' = {} /\ PendingInv(p)' /\ OwnersInv(p)' /\ RemovalInv(p)'
    BY <1>3, BlankInv DEF Blank
  <1>5. PendingIDs(p)' = {} /\ op[p].target \in Touched(p)
    BY <1>2, <1>4 DEF PendingIDs, IdsOf
  <1>6. Footprint(p)
    BY <1>1, <1>4, <1>5 DEF Footprint, OnlyMoves
  <1>7. StoreInv'
    BY <1>1, <1>2 DEF StoreInv
  <1>8. op[p].target \notin promised
    BY <1>1, <1>2 DEF RemovalInv
  <1>9. ASSUME NEW r \in rows, r.id \in promised, Intact(r) PROVE Intact(r)'
    BY <1>1, <1>8, <1>9 DEF Intact
  <1>10. LoadedIntact'
    BY <1>1, <1>2, <1>9, IntactStays
  <1> QED BY <1>4, <1>6, <1>7, <1>10, StepInv

-----------------------------------------------------------------------------
(***************************************************************************)
(* The invariant                                                           *)
(***************************************************************************)

\* A program that dies is promised no more.
LEMMA ProgramDiesStep ==
  ASSUME TypeInv, LoadInv, NEW id \in IDs, ProgramDies(id) PROVE LoadInv'
  <1>1. /\ live' = live \ {id} /\ promised' = promised \ {id} /\ pc' = pc /\ op' = op
        /\ UNCHANGED <<rows, mapSets, refs, mapDirs, sharedPins, bytecode, used>>
    BY DEF ProgramDies, store
  <1>2. \A p \in Processes : /\ Pending(p)' = Pending(p) /\ PendingIDs(p)' = PendingIDs(p)
                             /\ Touched(p)' = Touched(p)
    BY <1>1 DEF Pending, PendingIDs, Touched
  <1>3. StoreInv' /\ Apart'
    BY <1>1, <1>2 DEF LoadInv, StoreInv, Apart
  <1>4. ASSUME NEW p \in Processes PROVE PendingInv(p)' /\ OwnersInv(p)' /\ RemovalInv(p)'
    <2>1. PendingInv(p) /\ OwnersInv(p) /\ RemovalInv(p)
      BY DEF LoadInv
    <2>2. PendingInv(p)'
      BY <1>1, <1>2, <2>1 DEF PendingInv
    <2>3. OwnersInv(p)'
      BY <1>1, <2>1 DEF OwnersInv
    <2>4. RemovalInv(p)'
      BY <1>1, <1>2, <2>1 DEF RemovalInv
    <2> QED BY <2>2, <2>3, <2>4
  <1>5. LoadedIntact'
    BY <1>1, IntactStays DEF LoadInv, Intact
  <1> QED BY <1>3, <1>4, <1>5 DEF LoadInv

LEMMA LoadInvStill == ASSUME LoadInv, UNCHANGED vars PROVE LoadInv'
  <1>1. /\ pc' = pc /\ op' = op
        /\ UNCHANGED <<rows, mapSets, refs, live, mapDirs, sharedPins, bytecode, used, promised>>
    BY DEF vars, store, files, ghost
  <1>2. \A p \in Processes : /\ Pending(p)' = Pending(p) /\ PendingIDs(p)' = PendingIDs(p)
                             /\ Touched(p)' = Touched(p)
    BY <1>1 DEF Pending, PendingIDs, Touched
  <1>3. StoreInv' /\ Apart' /\ LoadedIntact'
    BY <1>1, <1>2 DEF LoadInv, StoreInv, Apart, LoadedIntact, Intact
  <1>4. \A p \in Processes : PendingInv(p)' /\ OwnersInv(p)' /\ RemovalInv(p)'
    BY <1>1, <1>2 DEF LoadInv, PendingInv, OwnersInv, RemovalInv
  <1> QED BY <1>3, <1>4 DEF LoadInv

LEMMA LoadInvInit == Init => LoadInv
  <1> SUFFICES ASSUME Init PROVE LoadInv
    OBVIOUS
  <1>1. \A p \in Processes : pc[p] = "idle" /\ op[p] = NoOp
    BY DEF Init
  <1>2. ASSUME NEW p \in Processes PROVE Pending(p) = {} /\ PendingIDs(p) = {} /\ Touched(p) = {} /\ op[p].plan = {}
    <2>1. Pending(p) = {}
      BY <1>1, NoOpType DEF Pending
    <2>2. Touched(p) = {} /\ op[p].plan = {}
      BY <1>1 DEF Touched, TouchedAt, NoOp, IdsOf, Removal
    <2> QED BY <2>1, <2>2 DEF PendingIDs, IdsOf
  <1>3. StoreInv /\ LoadedIntact
    BY DEF Init, StoreInv, LoadedIntact, IdsOf
  <1>4. Apart
    BY <1>2 DEF Apart
  <1>5. ASSUME NEW p \in Processes PROVE PendingInv(p) /\ OwnersInv(p) /\ RemovalInv(p)
    BY <1>1, <1>2 DEF PendingInv, OwnersInv, RemovalInv, ReapStages, Removal
  <1> QED BY <1>3, <1>4, <1>5 DEF LoadInv

LEMMA LoadInvNext ==
  ASSUME "reuse" \notin faults, "publishshared" \notin faults, TypeInv, TypeInv', LoadInv, [Next]_vars
  PROVE  LoadInv'
  <1>1. ASSUME NEW p \in Processes, Request(p) \/ Acquire(p) \/ Step(p) \/ Crash(p) PROVE LoadInv'
    <2>1. OnlyMoves(p)
      BY <1>1, OneMoves
    <2>2. CASE Request(p) \/ Acquire(p) \/ AcquireFails(p) \/ LoadFailed(p) \/ UnloadKernelProgramFails(p)
               \/ Crash(p) \/ Restart(p)
      BY <2>1, <2>2, QuietSteps, AcquireStep
    <2>3. CASE ValidateOwners(p) \/ Observe(p) \/ ObserveFails(p) \/ (\E id \in IDs : ReapPins(p, id))
               \/ ReapRow(p) \/ ReapDone(p)
      BY <2>1, <2>3, ValidateStep, ObserveStep, ReapPinsStep, ReapRowStep, ReapDoneStep
    <2>4. CASE KernelLoad(p) \/ KernelLoadFails(p) \/ PublishBytecode(p) \/ PublishFails(p)
               \/ Commit(p) \/ CommitFails(p) \/ UnloadLoaded(p)
      BY <2>1, <2>4, KernelLoadStep, KernelLoadFailsStep, PublishBytecodeStep, PublishFailsStep,
         CommitStep, CommitFailsStep, UnloadLoadedStep
    <2>5. CASE GetProgram(p) \/ UnloadKernelProgram(p) \/ UnloadSharedMapPins(p) \/ DeleteProgramRecord(p)
               \/ DeleteProgramRecordFails(p) \/ CountMapSetUsers(p) \/ RemoveMapSetPins(p) \/ DeleteMapSet(p)
               \/ RemoveProgramBytecodeDir(p)
      BY <2>1, <2>5, GetProgramStep, RemovalSteps, RemoveBytecodeStep
    <2> QED BY <1>1, <2>2, <2>3, <2>4, <2>5 DEF Step
  <1>2. ASSUME NEW id \in IDs, ProgramDies(id) PROVE LoadInv'
    BY <1>2, ProgramDiesStep
  <1>3. CASE UNCHANGED vars
    BY <1>3, LoadInvStill
  <1> QED BY <1>1, <1>2, <1>3 DEF Next

\* A program whose load was committed keeps its row, its pins, the pins of
\* the maps it shares and its bytecode until somebody asks to unload it or
\* kills it, for any number of processes that load without the lock, reap,
\* unload, fail at any call and crash.  Two failures are left out because the
\* code does break the promise there: an id the kernel hands out again while
\* its map directory is still pinned, and a failed publication of a program
\* that shares an owner's maps, whose undo removes the owner's map pins.
THEOREM LoadedStayIntact ==
  ASSUME "reuse" \notin Faults, "publishshared" \notin Faults
  PROVE  Spec => []LoadedIntact
  <1>1. Init => TypeInv /\ LoadInv
    BY TypeInvInit, LoadInvInit
  <1>2. TypeInv /\ LoadInv /\ [Next]_vars => (TypeInv /\ LoadInv)'
    <2>1. TypeInv => "reuse" \notin faults /\ "publishshared" \notin faults
      BY DEF TypeInv, TypeOK
    <2> QED BY <2>1, TypeInvNext, LoadInvNext
  <1>3. TypeInv /\ LoadInv => LoadedIntact
    BY DEF LoadInv
  <1> QED BY <1>1, <1>2, <1>3, PTL DEF Spec

-----------------------------------------------------------------------------
(***************************************************************************)
(* The books: when only calls fail whose failure a load undoes, everything *)
(* in the kernel, on the bpffs and in the store is a recorded program's,   *)
(* or accounted for by the stage of one process.                           *)
(***************************************************************************)

\* The program an unload has removed from the kernel, and not yet its row;
\* the one whose row is gone, and not yet its bytecode.
Leaving(p) == IF pc[p] \in {"shared", "row"} THEN {op[p].target} ELSE {}
Left(p)    == IF pc[p] \in {"gc", "gcpins", "gcrow", "bytecode"} THEN {op[p].target} ELSE {}

\* The map set whose last program is gone, and whose pins are.
LeftSet(p)  == IF pc[p] \in {"gc", "gcpins", "gcrow"} THEN {r.set : r \in Items(op[p].now)} ELSE {}
Stripped(p) == IF pc[p] = "gcrow" THEN {r.set : r \in Items(op[p].now)} ELSE {}

\* The bytecode and the map directories a process answers for.
Kept(p)    == IdsOf(Items(op[p].loaded)) \cup Left(p)
OwnDirs(p) == IdsOf({r \in Pending(p) : r.set = r.id})

Books ==
    /\ \A id \in live : id \in IdsOf(rows) \/ \E p \in Processes : id \in PendingIDs(p)
    /\ \A id \in IdsOf(rows) : id \in live \/ \E p \in Processes : id \in Leaving(p)
    /\ \A id \in bytecode : id \in IdsOf(rows) \/ \E p \in Processes : id \in Kept(p)
    /\ IdsOf(rows) \subseteq bytecode
    /\ \A s \in mapSets : s \in {r.set : r \in rows} \/ \E p \in Processes : s \in LeftSet(p)
    /\ \A d \in mapDirs : d \in mapSets \/ \E p \in Processes : d \in OwnDirs(p)
    /\ \A s \in mapSets : s \in mapDirs \/ \E p \in Processes : s \in Stripped(p)
    /\ \A r, s \in rows : r.id = s.id => r = s

\* What the locals of a process say of the tables.
LocalBooks(p) ==
    /\ pc[p] \notin {"dead", "reaprow"} /\ op[p].plan = {}
    /\ PendingIDs(p) \subseteq live
    /\ \A i, j \in DOMAIN op[p].loaded : op[p].loaded[i].id = op[p].loaded[j].id => i = j
    /\ pc[p] = "enumerate" => op[p].listed \subseteq rows
    /\ pc[p] \in {"detach", "shared", "row"} => Items(op[p].now) \subseteq rows
    /\ Leaving(p) \cap live = {}
    /\ Left(p) \cap IdsOf(rows) = {}
    /\ Stripped(p) \cap mapDirs = {}

BooksInv == Books /\ \A p \in Processes : LocalBooks(p)
CleanInv == faults \subseteq LoadFaults => LoadInv /\ BooksInv

\* A step of one process that keeps its own books keeps all of them.
Balanced(p) ==
    /\ \A id \in live' : \/ id \in IdsOf(rows') \cup PendingIDs(p)'
                         \/ id \in live /\ id \notin IdsOf(rows) \cup PendingIDs(p)
    /\ \A id \in IdsOf(rows') : \/ id \in live' \cup Leaving(p)'
                                \/ id \in IdsOf(rows) /\ id \notin live \cup Leaving(p)
    /\ \A id \in bytecode' : \/ id \in IdsOf(rows') \cup Kept(p)'
                             \/ id \in bytecode /\ id \notin IdsOf(rows) \cup Kept(p)
    /\ IdsOf(rows') \subseteq bytecode'
    /\ \A s \in mapSets' : \/ s \in {r.set : r \in rows'} \cup LeftSet(p)'
                           \/ s \in mapSets /\ s \notin {r.set : r \in rows} \cup LeftSet(p)
    /\ \A d \in mapDirs' : \/ d \in mapSets' \cup OwnDirs(p)'
                           \/ d \in mapDirs /\ d \notin mapSets \cup OwnDirs(p)
    /\ \A s \in mapSets' : \/ s \in mapDirs' \cup Stripped(p)'
                           \/ s \in mapSets /\ s \notin mapDirs \cup Stripped(p)
    /\ \A r, s \in rows' : r.id = s.id => r = s

\* What the others notice of it.
Noticed(p) ==
    /\ used \subseteq used' /\ live' \subseteq live \cup (used' \ used) /\ mapDirs' \subseteq mapDirs \cup (used' \ used)
    /\ rows' \subseteq rows \cup Pending(p) /\ (lock # p => rows \subseteq rows')
    /\ \A id \in live : id \in live' \cup PendingIDs(p) \cup Touched(p)

LEMMA BooksStep ==
  ASSUME TypeInv, LoadInv, BooksInv, NEW p \in Processes, OnlyMoves(p), Noticed(p), Balanced(p), LocalBooks(p)'
  PROVE  BooksInv'
  <1>1. \A q \in Processes : q # p =>
           /\ pc'[q] = pc[q] /\ op'[q] = op[q]
           /\ Pending(q)' = Pending(q) /\ PendingIDs(q)' = PendingIDs(q) /\ OwnDirs(q)' = OwnDirs(q)
           /\ Leaving(q)' = Leaving(q) /\ Left(q)' = Left(q) /\ Kept(q)' = Kept(q)
           /\ LeftSet(q)' = LeftSet(q) /\ Stripped(q)' = Stripped(q)
    BY DEF OnlyMoves, Pending, PendingIDs, OwnDirs, Leaving, Left, Kept, LeftSet, Stripped
  <1>2. Books
    BY DEF BooksInv
  <1>3. \A id \in live' : id \in IdsOf(rows') \/ \E q \in Processes : id \in PendingIDs(q)'
    BY <1>1, <1>2 DEF Balanced, Books
  <1>4. \A id \in IdsOf(rows') : id \in live' \/ \E q \in Processes : id \in Leaving(q)'
    BY <1>1, <1>2 DEF Balanced, Books
  <1>5. \A id \in bytecode' : id \in IdsOf(rows') \/ \E q \in Processes : id \in Kept(q)'
    BY <1>1, <1>2 DEF Balanced, Books
  <1>6. \A s \in mapSets' : s \in {r.set : r \in rows'} \/ \E q \in Processes : s \in LeftSet(q)'
    BY <1>1, <1>2 DEF Balanced, Books
  <1>7. \A d \in mapDirs' : d \in mapSets' \/ \E q \in Processes : d \in OwnDirs(q)'
    BY <1>1, <1>2 DEF Balanced, Books
  <1>8. \A s \in mapSets' : s \in mapDirs' \/ \E q \in Processes : s \in Stripped(q)'
    BY <1>1, <1>2 DEF Balanced, Books
  <1>9. Books'
    BY <1>3, <1>4, <1>5, <1>6, <1>7, <1>8 DEF Balanced, Books, IdsOf
  <1>10. ASSUME NEW q \in Processes, q # p PROVE LocalBooks(q)'
    <2>1. /\ LocalBooks(q) /\ RemovalInv(q) /\ PendingIDs(q) \cap Touched(p) = {}
          /\ PendingIDs(p) \cap Touched(q) = {} /\ PendingIDs(p) \cap PendingIDs(q) = {}
      BY <1>10 DEF BooksInv, LoadInv, Apart
    <2>2. HoldsAt(pc[q], op[q]) => lock # p
      BY <1>10, AtStage
    <2>3. pc[q] \in {"enumerate", "detach", "shared", "row"} => rows \subseteq rows'
      BY <2>2 DEF HoldsAt, ReapStages, UnloadStages, Removal, Noticed
    <2>4. Leaving(q) \subseteq Touched(q) /\ Left(q) \subseteq Touched(q) /\ Stripped(q) \subseteq Touched(q)
      BY DEF Leaving, Left, Stripped, Touched, TouchedAt, Removal
    <2>5. Touched(q) \subseteq used
      BY <2>1 DEF RemovalInv
    <2>6. PendingIDs(q)' \subseteq live'
      BY <1>1, <1>10, <2>1 DEF LocalBooks, Noticed
    <2>7. Leaving(q)' \cap live' = {} /\ Stripped(q)' \cap mapDirs' = {}
      BY <1>1, <1>10, <2>1, <2>4, <2>5 DEF LocalBooks, Noticed
    <2>8. Left(q)' \cap IdsOf(rows') = {}
      <3>1. IdsOf(rows') \subseteq IdsOf(rows) \cup PendingIDs(p)
        BY DEF Noticed, IdsOf, PendingIDs
      <3> QED BY <1>1, <1>10, <2>1, <2>4, <3>1 DEF LocalBooks
    <2>9. /\ pc[q] = "enumerate" => op[q].listed \subseteq rows'
          /\ pc[q] \in {"detach", "shared", "row"} => Items(op[q].now) \subseteq rows'
      BY <2>1, <2>3 DEF LocalBooks
    <2>10. /\ pc[q] \notin {"dead", "reaprow"} /\ op[q].plan = {}
           /\ \A i, j \in DOMAIN op[q].loaded : op[q].loaded[i].id = op[q].loaded[j].id => i = j
      BY <2>1 DEF LocalBooks
    <2> QED BY <1>1, <1>10, <2>6, <2>7, <2>8, <2>9, <2>10 DEF LocalBooks, IdsOf
  <1> QED BY <1>9, <1>10 DEF BooksInv

\* A process with nothing in hand owes nothing.
LEMMA NothingOwed ==
  ASSUME NEW p \in Processes, pc[p] \notin Removal, op[p].loaded = <<>>, op[p].now = <<>>
  PROVE  /\ Pending(p) = {} /\ PendingIDs(p) = {} /\ OwnDirs(p) = {} /\ Kept(p) = {}
         /\ Leaving(p) = {} /\ Left(p) = {} /\ LeftSet(p) = {} /\ Stripped(p) = {}
  <1>1. Items(<<>>) = {}
    BY DEF Items
  <1>2. Pending(p) = {}
    BY <1>1 DEF Pending, PendingOf
  <1>3. Leaving(p) = {} /\ Left(p) = {} /\ LeftSet(p) = {} /\ Stripped(p) = {}
    BY DEF Leaving, Left, LeftSet, Stripped, Removal
  <1> QED BY <1>1, <1>2, <1>3 DEF PendingIDs, OwnDirs, Kept, IdsOf

LEMMA NothingOwedNext ==
  ASSUME NEW p \in Processes, pc'[p] \notin Removal, op'[p].loaded = <<>>, op'[p].now = <<>>
  PROVE  /\ Pending(p)' = {} /\ PendingIDs(p)' = {} /\ OwnDirs(p)' = {} /\ Kept(p)' = {}
         /\ Leaving(p)' = {} /\ Left(p)' = {} /\ LeftSet(p)' = {} /\ Stripped(p)' = {}
  <1>1. Items(<<>>) = {}
    BY DEF Items
  <1>2. Pending(p)' = {}
    BY <1>1 DEF Pending, PendingOf
  <1>3. Leaving(p)' = {} /\ Left(p)' = {} /\ LeftSet(p)' = {} /\ Stripped(p)' = {}
    BY DEF Leaving, Left, LeftSet, Stripped, Removal
  <1> QED BY <1>1, <1>2, <1>3 DEF PendingIDs, OwnDirs, Kept, IdsOf

\* Nothing changes but the process, and what it owes.
LEMMA BooksQuiet ==
  ASSUME TypeInv, LoadInv, BooksInv, NEW p \in Processes, OnlyMoves(p), LocalBooks(p)',
         UNCHANGED <<rows, mapSets, live, mapDirs, bytecode, used>>,
         PendingIDs(p)' = PendingIDs(p), OwnDirs(p)' = OwnDirs(p), Kept(p)' = Kept(p),
         Leaving(p)' = Leaving(p), Stripped(p)' = Stripped(p),
         LeftSet(p) \subseteq LeftSet(p)' \cup {r.set : r \in rows}
  PROVE  BooksInv'
  <1>1. Noticed(p)
    BY DEF Noticed
  <1>2. IdsOf(rows) \subseteq bytecode /\ \A r, s \in rows : r.id = s.id => r = s
    BY DEF BooksInv, Books
  <1>3. Balanced(p)
    BY <1>2 DEF Balanced, IdsOf
  <1> QED BY <1>1, <1>3, BooksStep

LEMMA EmptyStep ==
  ASSUME TypeInv, LoadInv, BooksInv, NEW p \in Processes, OnlyMoves(p),
         UNCHANGED <<rows, mapSets, live, mapDirs, bytecode, used>>,
         pc[p] \notin Removal, op[p].loaded = <<>>, op[p].now = <<>>,
         pc'[p] \notin Removal \cup {"dead", "reaprow"}, op'[p].loaded = <<>>, op'[p].now = <<>>, op'[p].plan = {},
         pc'[p] = "enumerate" => op'[p].listed \subseteq rows
  PROVE  BooksInv'
  <1>1. /\ PendingIDs(p) = {} /\ OwnDirs(p) = {} /\ Kept(p) = {}
        /\ Leaving(p) = {} /\ LeftSet(p) = {} /\ Stripped(p) = {}
    BY NothingOwed
  <1>2. /\ PendingIDs(p)' = {} /\ OwnDirs(p)' = {} /\ Kept(p)' = {}
        /\ Leaving(p)' = {} /\ Left(p)' = {} /\ LeftSet(p)' = {} /\ Stripped(p)' = {}
    BY NothingOwedNext
  <1>3. \A i, j \in DOMAIN op'[p].loaded : op'[p].loaded[i].id = op'[p].loaded[j].id => i = j
    OBVIOUS
  <1>4. LocalBooks(p)'
    BY <1>2, <1>3 DEF LocalBooks, Removal
  <1> QED BY <1>1, <1>2, <1>4, BooksQuiet

LEMMA BlankBooks ==
  ASSUME TypeInv, TypeInv', LoadInv, BooksInv, NEW p \in Processes, OnlyMoves(p), UNCHANGED <<store, files, used>>,
         pc[p] \notin Removal, op[p].loaded = <<>>, op[p].now = <<>>, pc'[p] \in Blank \ {"dead"}
  PROVE  BooksInv'
  <1>1. StageOK(pc'[p], op'[p])
    BY DEF TypeInv
  <1>2. /\ op'[p].loaded = <<>> /\ op'[p].now = <<>> /\ op'[p].plan = {}
        /\ pc'[p] \notin Removal \cup {"dead", "reaprow", "enumerate"}
    BY <1>1 DEF Blank, StageOK, HoldsAt, Labels, ReapStages, LoadStages, UnloadStages, Removal
  <1>3. UNCHANGED <<rows, mapSets, live, mapDirs, bytecode, used>>
    BY DEF store, files
  <1> QED BY <1>2, <1>3, EmptyStep

\* Requests, the lock, the validation of owners, the end of a failed load and
\* of an unload that finds nothing.
LEMMA OutsideBooks ==
  ASSUME TypeInv, TypeInv', LoadInv, BooksInv, NEW p \in Processes, OnlyMoves(p),
         \/ Request(p) \/ Acquire(p) \/ AcquireFails(p) \/ ValidateOwners(p) \/ LoadFailed(p)
         \/ (GetProgram(p) /\ Return(p))
  PROVE  BooksInv'
  <1>1. /\ pc \in [Processes -> Labels] /\ op \in [Processes -> Operation] /\ op[p].plan = {}
        /\ StageOK(pc[p], op[p])
    BY AtStage DEF TypeInv, TypeOK, BooksInv, LocalBooks
  <1>g. GetProgram(p) => pc[p] = "get" /\ UNCHANGED <<store, files, used>>
    BY DEF GetProgram
  <1>r. Request(p) => pc[p] = "idle" /\ pc' = [pc EXCEPT ![p] = "lock"] /\ UNCHANGED <<store, files, ghost>>
    BY Zenon DEF Request, Load, Unload, Goto
  <1>2. UNCHANGED <<store, files, used>>
    BY <1>g, <1>r DEF Acquire, AcquireFails, ValidateOwners, LoadFailed, ghost
  <1>3. pc[p] \in {"idle", "lock", "validate", "get", "cleanup"} /\ (pc[p] = "cleanup" => op[p].loaded = <<>>)
    BY <1>g, <1>r DEF Acquire, AcquireFails, ValidateOwners, LoadFailed
  <1>4. pc[p] \notin Removal /\ op[p].loaded = <<>> /\ op[p].now = <<>>
    BY <1>1, <1>3 DEF StageOK, HoldsAt, Labels, ReapStages, LoadStages, UnloadStages, Removal
  <1>5. CASE pc'[p] \in Blank \ {"dead"}
    BY <1>2, <1>4, <1>5, BlankBooks
  <1>6. CASE pc'[p] \in {"list", "kernel"} /\ op' = op
    <2>1. /\ op'[p].loaded = <<>> /\ op'[p].now = <<>> /\ op'[p].plan = {}
          /\ pc'[p] \notin Removal \cup {"dead", "reaprow", "enumerate"}
      BY <1>1, <1>4, <1>6 DEF Removal
    <2>2. UNCHANGED <<rows, mapSets, live, mapDirs, bytecode, used>>
      BY <1>2 DEF store, files
    <2> QED BY <1>4, <2>1, <2>2, EmptyStep
  <1>7. ASSUME Return(p) PROVE pc'[p] \in Blank \ {"dead"}
    BY <1>1, <1>7 DEF Return, Goto, Blank
  <1>8. CASE Request(p)
    <2>1. pc'[p] = "lock"
      BY <1>1, <1>8, <1>r
    <2> QED BY <1>5, <2>1 DEF Blank
  <1>9. CASE Acquire(p)
    <2>1. op' = op /\ op[p].kind \in {"locked", "lockless", "unload"}
      BY <1>9, AtStage DEF Acquire, StageOK
    <2>2. pc'[p] \in {"validate", "list", "get"}
      BY <1>1, <1>9, <2>1 DEF Acquire, Goto
    <2> QED BY <1>5, <1>6, <2>1, <2>2 DEF Blank
  <1>10. CASE AcquireFails(p)
    <2>1. (pc'[p] = "kernel" /\ op' = op) \/ Return(p)
      BY <1>1, <1>10 DEF AcquireFails, Goto
    <2> QED BY <1>5, <1>6, <1>7, <2>1
  <1>11. CASE ValidateOwners(p)
    <2>1. (pc'[p] = "list" /\ op' = op) \/ Return(p)
      BY <1>1, <1>11 DEF ValidateOwners, Goto
    <2> QED BY <1>5, <1>6, <1>7, <2>1
  <1>12. CASE Return(p)
    BY <1>5, <1>7, <1>12
  <1> QED BY <1>8, <1>9, <1>10, <1>11, <1>12 DEF LoadFailed

\* No program is dead, so the reap finds nothing to do.
LEMMA ReapBooks ==
  ASSUME TypeInv, TypeInv', LoadInv, BooksInv, NEW p \in Processes, OnlyMoves(p),
         Observe(p) \/ ObserveFails(p) \/ ReapDone(p)
  PROVE  BooksInv'
  <1>1. pc[p] \in {"list", "enumerate", "reap"} /\ UNCHANGED <<store, files, ghost>>
    BY DEF Observe, ObserveFails, ReapDone
  <1>2. pc[p] \in ReapStages /\ pc[p] \notin Removal
    BY <1>1 DEF ReapStages, Removal
  <1>3. /\ op[p] \in Operation /\ lock = p /\ op[p].loaded = <<>> /\ op[p].now = <<>>
        /\ pc \in [Processes -> Labels] /\ op \in [Processes -> Operation]
    BY <1>2, AtReap
  <1>4. UNCHANGED <<rows, mapSets, live, mapDirs, bytecode, used>>
    BY <1>1 DEF store, files, ghost
  <1>5. LocalBooks(p) /\ op[p].plan = {}
    BY DEF BooksInv, LocalBooks
  <1>6. CASE pc[p] = "list" /\ op' = [op EXCEPT ![p].listed = rows] /\ Goto(p, "enumerate")
    <2>1. /\ pc'[p] = "enumerate" /\ op'[p].listed = rows /\ op'[p].plan = {}
          /\ op'[p].loaded = <<>> /\ op'[p].now = <<>>
      BY <1>3, <1>5, <1>6 DEF Goto, Operation
    <2> QED BY <1>2, <1>3, <1>4, <2>1, EmptyStep DEF Removal
  <1>7. CASE /\ pc[p] = "enumerate" /\ Goto(p, "reap")
             /\ op' = [op EXCEPT ![p].plan = PlanReap(op[p].listed, live), ![p].listed = {}]
    <2>1. \A q \in Processes : Leaving(q) = {}
      <3>1. ASSUME NEW q \in Processes, pc[q] \in {"shared", "row"} PROVE FALSE
        <4>1. HoldsAt(pc[q], op[q])
          BY <3>1 DEF HoldsAt, UnloadStages, Removal
        <4>2. q = p
          BY <1>3, <4>1, AtStage
        <4> QED BY <1>7, <3>1, <4>2
      <3> QED BY <3>1 DEF Leaving
    <2>2. IdsOf(op[p].listed) \subseteq live
      BY <1>5, <1>7, <2>1 DEF LocalBooks, BooksInv, Books, IdsOf
    <2>3. PlanReap(op[p].listed, live) = {}
      BY <2>2 DEF PlanReap
    <2>4. pc'[p] = "reap" /\ op'[p].plan = {} /\ op'[p].loaded = <<>> /\ op'[p].now = <<>>
      BY <1>3, <1>7, <2>3 DEF Goto, Operation
    <2> QED BY <1>2, <1>3, <1>4, <2>4, EmptyStep DEF Removal
  <1>8. CASE op' = [op EXCEPT ![p].listed = {}] /\ Goto(p, "reap")
    <2>1. pc'[p] = "reap" /\ op'[p].plan = {} /\ op'[p].loaded = <<>> /\ op'[p].now = <<>>
      BY <1>3, <1>5, <1>8 DEF Goto, Operation
    <2> QED BY <1>2, <1>3, <1>4, <2>1, EmptyStep DEF Removal
  <1>9. CASE op' = op /\ Goto(p, "kernel")
    <2>1. pc'[p] = "kernel" /\ op'[p].plan = {} /\ op'[p].loaded = <<>> /\ op'[p].now = <<>>
      BY <1>3, <1>5, <1>9 DEF Goto
    <2> QED BY <1>2, <1>3, <1>4, <2>1, EmptyStep DEF Removal
  <1> QED BY <1>6, <1>7, <1>8, <1>9 DEF Observe, ObserveFails, ReapDone

\* At the stages of a load nothing is owed but what is loaded.
LEMMA LoadOwes ==
  ASSUME TypeInv, NEW p \in Processes, pc[p] \in LoadStages
  PROVE  /\ Leaving(p) = {} /\ Left(p) = {} /\ LeftSet(p) = {} /\ Stripped(p) = {}
         /\ Kept(p) = IdsOf(Items(op[p].loaded))
  BY DEF Leaving, Left, LeftSet, Stripped, Kept, LoadStages

LEMMA LoadOwesNext ==
  ASSUME NEW p \in Processes, pc'[p] \in LoadStages
  PROVE  /\ Leaving(p)' = {} /\ Left(p)' = {} /\ LeftSet(p)' = {} /\ Stripped(p)' = {}
         /\ Kept(p)' = IdsOf(Items(op'[p].loaded))
  <1>1. Leaving(p)' = {} /\ Left(p)' = {} /\ LeftSet(p)' = {} /\ Stripped(p)' = {}
    BY DEF Leaving, Left, LeftSet, Stripped, LoadStages
  <1> QED BY <1>1 DEF Kept, IdsOf

\* A load that goes on keeps its own books.
LEMMA LoadLocalBooks ==
  ASSUME TypeInv', NEW p \in Processes, pc'[p] \in LoadStages, PendingIDs(p)' \subseteq live',
         \A i, j \in DOMAIN op'[p].loaded : op'[p].loaded[i].id = op'[p].loaded[j].id => i = j
  PROVE  LocalBooks(p)'
  <1>1. StageOK(pc'[p], op'[p])
    BY DEF TypeInv
  <1>2. op'[p].plan = {}
    BY <1>1 DEF StageOK, LoadStages
  <1>3. Leaving(p)' = {} /\ Left(p)' = {} /\ Stripped(p)' = {}
    BY LoadOwesNext
  <1> QED BY <1>2, <1>3 DEF LocalBooks, LoadStages

\* Moving on to the cleanup changes no books.
LEMMA CleanupBooks ==
  ASSUME TypeInv, TypeInv', LoadInv, BooksInv, NEW p \in Processes, OnlyMoves(p),
         KernelLoadFails(p) \/ CommitFails(p), "reuse" \notin faults
  PROVE  BooksInv'
  <1>1. /\ pc[p] = "kernel" /\ pc[p] \in LoadStages /\ Goto(p, "cleanup") /\ op' = op
        /\ UNCHANGED <<rows, mapSets, live, bytecode, used>>
    BY DEF KernelLoadFails, CommitFails, LoadStages, store, files, ghost
  <1>2. StoreInv /\ pc \in [Processes -> Labels] /\ LocalBooks(p)
    BY <1>1, InLoad DEF BooksInv
  <1>3. mapDirs' = mapDirs
    BY <1>2 DEF KernelLoadFails, CommitFails, FreeIDs, StoreInv, files
  <1>4. /\ pc'[p] = "cleanup" /\ pc'[p] \in LoadStages
        /\ Pending(p)' = Pending(p) /\ PendingIDs(p)' = PendingIDs(p) /\ OwnDirs(p)' = OwnDirs(p)
    BY <1>1, <1>2 DEF Goto, Pending, PendingIDs, OwnDirs, LoadStages
  <1>5. /\ Leaving(p) = {} /\ LeftSet(p) = {} /\ Stripped(p) = {} /\ Kept(p) = IdsOf(Items(op[p].loaded))
    BY <1>1, LoadOwes
  <1>6. /\ Leaving(p)' = {} /\ LeftSet(p)' = {} /\ Stripped(p)' = {} /\ Kept(p)' = IdsOf(Items(op'[p].loaded))
    BY <1>4, LoadOwesNext
  <1>7. LocalBooks(p)'
    BY <1>1, <1>2, <1>4, LoadLocalBooks DEF LocalBooks
  <1> QED BY <1>1, <1>3, <1>4, <1>5, <1>6, <1>7, BooksQuiet

\* The ids of a batch are distinct.
Distinct(s) == \A i, j \in DOMAIN s : s[i].id = s[j].id => i = j

\* A sequence of n items is front with r at its end.
Split(n, s, front, r) ==
    /\ n \in Nat \ {0} /\ DOMAIN s = 1..n /\ s[n] = r
    /\ DOMAIN front = 1..(n - 1) /\ \A i \in 1..(n - 1) : front[i] = s[i]

DistinctSplit(s, front, r) ==
    /\ Items(s) = Items(front) \cup {r} /\ r.id \notin IdsOf(Items(front)) /\ Distinct(front)
    /\ IdsOf(Items(s)) = IdsOf(Items(front)) \cup {r.id}

LEMMA FrontOf ==
  ASSUME NEW n, NEW s, NEW r, NEW front, Split(n, s, front, r), Distinct(s)
  PROVE  DistinctSplit(s, front, r)
  <1>0. /\ n \in Nat \ {0} /\ DOMAIN s = 1..n /\ s[n] = r
        /\ DOMAIN front = 1..(n - 1) /\ \A i \in 1..(n - 1) : front[i] = s[i]
    BY DEF Split
  <1>1. PICK D : D = 1..n
    OBVIOUS
  <1>2. PICK E : E = 1..(n - 1)
    OBVIOUS
  <1>3. /\ \A i \in D : i = n \/ i \in E
        /\ \A i \in E : i \in D /\ i # n
        /\ n \in D
    BY <1>0, <1>1, <1>2
  <1>4. DOMAIN s = D /\ DOMAIN front = E /\ s[n] = r /\ \A i \in E : front[i] = s[i]
    BY <1>0, <1>1, <1>2
  <1>5. Items(s) = Items(front) \cup {r}
    <2>1. ASSUME NEW x \in Items(s) PROVE x \in Items(front) \cup {r}
      <3>1. PICK i \in D : x = s[i]
        BY <1>4 DEF Items
      <3> QED BY <1>3, <1>4, <3>1 DEF Items
    <2>2. ASSUME NEW x \in Items(front) PROVE x \in Items(s)
      <3>1. PICK i \in E : x = front[i]
        BY <1>4 DEF Items
      <3> QED BY <1>3, <1>4, <3>1 DEF Items
    <2>3. r \in Items(s)
      BY <1>3, <1>4 DEF Items
    <2> QED BY <2>1, <2>2, <2>3
  <1>6. \A i \in E : front[i].id # r.id
    BY <1>3, <1>4 DEF Distinct
  <1>7. r.id \notin IdsOf(Items(front))
    BY <1>4, <1>6 DEF IdsOf, Items
  <1>8. Distinct(front)
    BY <1>3, <1>4 DEF Distinct
  <1>9. IdsOf(Items(s)) = IdsOf(Items(front)) \cup {r.id}
    BY <1>5 DEF IdsOf
  <1> QED BY <1>5, <1>7, <1>8, <1>9 DEF DistinctSplit

LEMMA DistinctFront ==
  ASSUME NEW s \in Seq(Record), s # <<>>, Distinct(s)
  PROVE  DistinctSplit(s, SubSeq(s, 1, Len(s) - 1), s[Len(s)])
  <1>1. Len(s) \in Nat \ {0} /\ DOMAIN s = 1..Len(s)
    OBVIOUS
  <1>2. /\ DOMAIN SubSeq(s, 1, Len(s) - 1) = 1..(Len(s) - 1)
        /\ \A i \in 1..(Len(s) - 1) : SubSeq(s, 1, Len(s) - 1)[i] = s[i]
    BY <1>1
  <1>3. Split(Len(s), s, SubSeq(s, 1, Len(s) - 1), s[Len(s)])
    BY <1>1, <1>2 DEF Split
  <1> QED BY <1>3, FrontOf

LEMMA DistinctAppend ==
  ASSUME NEW s \in Seq(Record), Distinct(s), NEW r \in Record, r.id \notin IdsOf(Items(s))
  PROVE  Distinct(Append(s, r))
  <1>1. Len(s) \in Nat /\ DOMAIN s = 1..Len(s) /\ DOMAIN Append(s, r) = 1..(Len(s) + 1)
    OBVIOUS
  <1>2. (\A i \in 1..Len(s) : Append(s, r)[i] = s[i]) /\ Append(s, r)[Len(s) + 1] = r
    OBVIOUS
  <1>3. \A i \in 1..Len(s) : s[i].id # r.id
    BY <1>1 DEF IdsOf, Items
  <1>4. \A i \in 1..(Len(s) + 1) : i = Len(s) + 1 \/ i \in 1..Len(s)
    BY <1>1
  <1> SUFFICES ASSUME NEW i \in 1..(Len(s) + 1), NEW j \in 1..(Len(s) + 1),
                      Append(s, r)[i].id = Append(s, r)[j].id
               PROVE  i = j
    BY <1>1 DEF Distinct
  <1> QED BY <1>1, <1>2, <1>3, <1>4 DEF Distinct

LEMMA KernelLoadBooks ==
  ASSUME TypeInv, TypeInv', LoadInv, BooksInv, NEW p \in Processes, OnlyMoves(p), KernelLoad(p),
         "reuse" \notin faults
  PROVE  BooksInv'
  <1>1. /\ pc[p] = "kernel" /\ op[p].todo # <<>> /\ pc[p] \in LoadStages /\ Goto(p, "publish")
        /\ UNCHANGED <<rows, mapSets, bytecode>>
    BY DEF KernelLoad, LoadStages, store
  <1>2. /\ PendingInv(p) /\ StoreInv
        /\ op[p] \in Operation /\ pc \in [Processes -> Labels] /\ op \in [Processes -> Operation]
        /\ op[p].todo \in Seq(LoadSpec) /\ op[p].loaded \in Seq(Record)
    BY <1>1, InLoad
  <1>3. PICK s : s = Head(op[p].todo)
    OBVIOUS
  <1>4. s \in Items(op[p].todo) /\ s \in LoadSpec
    BY <1>1, <1>2, <1>3, ItemsTail
  <1>5. PICK id \in FreeIDs :
           /\ live' = live \cup {id} /\ used' = used \cup {id}
           /\ mapDirs' = mapDirs \cup IF s.owner = None THEN {id} ELSE {}
           /\ op' = [op EXCEPT ![p].todo = Tail(@), ![p].now = <<NewRecord(s, id)>>]
    BY <1>3 DEF KernelLoad, NewRecord
  <1>6. id \in IDs /\ id \notin used
    BY DEF FreeIDs
  <1>7. PICK r : r = NewRecord(s, id)
    OBVIOUS
  <1>8. r.id = id /\ r.set = MapSet(s, id) /\ r \in Record /\ (s.owner = None => r.set = r.id)
    BY <1>4, <1>6, <1>7, NewRecordType
  <1>9. PICK now : now = <<r>>
    OBVIOUS
  <1>10. now \in Seq(Record) /\ Items(now) = {r}
    BY <1>8, <1>9, ItemsShort
  <1>11. op'[p].loaded = op[p].loaded /\ op'[p].now = now /\ pc'[p] = "publish" /\ pc'[p] \in LoadStages
    BY <1>1, <1>2, <1>5, <1>7, <1>9 DEF Operation, Goto, LoadStages
  <1>12. Pending(p)' = Pending(p) \cup {r}
    BY <1>1, <1>10, <1>11, AtLoad, LoadMoves
  <1>13. /\ PendingIDs(p)' = PendingIDs(p) \cup {id} /\ OwnDirs(p) \subseteq OwnDirs(p)'
         /\ s.owner = None => id \in OwnDirs(p)'
    BY <1>8, <1>12 DEF PendingIDs, OwnDirs, IdsOf
  <1>14. /\ Leaving(p) = {} /\ LeftSet(p) = {} /\ Stripped(p) = {} /\ Kept(p) = IdsOf(Items(op[p].loaded))
    BY <1>1, LoadOwes
  <1>15. /\ Leaving(p)' = {} /\ LeftSet(p)' = {} /\ Stripped(p)' = {} /\ Kept(p)' = Kept(p)
    BY <1>11, <1>14, LoadOwesNext
  <1>16. LocalBooks(p) /\ Books
    BY DEF BooksInv
  <1>17. LocalBooks(p)'
    <2>1. PendingIDs(p)' \subseteq live'
      BY <1>5, <1>13, <1>16 DEF LocalBooks
    <2>2. Distinct(op'[p].loaded)
      BY <1>11, <1>16 DEF LocalBooks, Distinct
    <2> QED BY <1>11, <2>1, <2>2, LoadLocalBooks DEF Distinct
  <1>18. Noticed(p)
    BY <1>1, <1>5, <1>6 DEF Noticed
  <1>19. Balanced(p)
    BY <1>1, <1>5, <1>13, <1>14, <1>15, <1>16 DEF Balanced, Books, IdsOf
  <1> QED BY <1>17, <1>18, <1>19, BooksStep

LEMMA PublishBytecodeBooks ==
  ASSUME TypeInv, TypeInv', LoadInv, BooksInv, NEW p \in Processes, OnlyMoves(p), PublishBytecode(p)
  PROVE  BooksInv'
  <1>1. /\ pc[p] = "publish" /\ pc[p] \in LoadStages /\ Goto(p, "kernel")
        /\ UNCHANGED <<rows, mapSets, live, mapDirs, used>>
    BY DEF PublishBytecode, LoadStages, store, ghost
  <1>2. /\ PendingInv(p) /\ op[p] \in Operation /\ pc \in [Processes -> Labels]
        /\ op \in [Processes -> Operation] /\ op[p].loaded \in Seq(Record) /\ LocalBooks(p) /\ Books
    BY <1>1, InLoad DEF BooksInv
  <1>3. PICK r : r = Head(op[p].now)
    OBVIOUS
  <1>4. r \in Record /\ Items(op[p].now) = {r} /\ Pending(p) = Items(op[p].loaded) \cup {r}
    BY <1>1, <1>3, AtPublish, AtLoad
  <1>5. PICK loaded : loaded = Append(op[p].loaded, r)
    OBVIOUS
  <1>6. loaded \in Seq(Record) /\ Items(loaded) = Items(op[p].loaded) \cup {r}
    BY <1>2, <1>4, <1>5, ItemsAppend
  <1>7. bytecode' = bytecode \cup {r.id} /\ op' = [op EXCEPT ![p].loaded = Append(@, r), ![p].now = <<>>]
    BY <1>3 DEF PublishBytecode
  <1>8. op'[p].loaded = loaded /\ pc'[p] = "kernel" /\ pc'[p] \in LoadStages
    BY <1>1, <1>2, <1>5, <1>7 DEF Operation, Goto, LoadStages
  <1>9. Pending(p)' = Pending(p)
    BY <1>4, <1>6, <1>8, LoadMoves
  <1>10. PendingIDs(p)' = PendingIDs(p) /\ OwnDirs(p)' = OwnDirs(p)
    BY <1>9 DEF PendingIDs, OwnDirs
  <1>11. r.id \notin IdsOf(Items(op[p].loaded))
    BY <1>1, <1>2, <1>4 DEF PendingInv, IdsOf
  <1>12. Distinct(loaded)
    BY <1>2, <1>4, <1>5, <1>11, DistinctAppend DEF LocalBooks, Distinct
  <1>13. /\ Leaving(p) = {} /\ LeftSet(p) = {} /\ Stripped(p) = {} /\ Kept(p) = IdsOf(Items(op[p].loaded))
    BY <1>1, LoadOwes
  <1>14. /\ Leaving(p)' = {} /\ LeftSet(p)' = {} /\ Stripped(p)' = {} /\ Kept(p)' = Kept(p) \cup {r.id}
    <2>1. IdsOf(Items(loaded)) = IdsOf(Items(op[p].loaded)) \cup {r.id}
      BY <1>6 DEF IdsOf
    <2> QED BY <1>8, <1>13, <2>1, LoadOwesNext
  <1>15. LocalBooks(p)'
    BY <1>1, <1>2, <1>8, <1>10, <1>12, LoadLocalBooks DEF LocalBooks, Distinct
  <1>16. Noticed(p)
    BY <1>1 DEF Noticed
  <1>17. Balanced(p)
    BY <1>1, <1>2, <1>7, <1>10, <1>13, <1>14 DEF Balanced, Books, IdsOf
  <1> QED BY <1>15, <1>16, <1>17, BooksStep

\* The undo of one program takes it out of the books.
LEMMA UndoBooks ==
  ASSUME TypeInv, TypeInv', LoadInv, BooksInv, NEW p \in Processes, OnlyMoves(p), pc[p] \in LoadStages,
         pc'[p] = "cleanup", NEW r \in Pending(p), Pending(p) = Pending(p)' \cup {r}, r.id \notin PendingIDs(p)',
         Distinct(op'[p].loaded), UNCHANGED <<rows, mapSets, used>>, live' = live \ {r.id},
         mapDirs' = IF r.set = r.id THEN mapDirs \ {r.id} ELSE mapDirs,
         bytecode' = bytecode \ {r.id}, Kept(p) \ {r.id} \subseteq Kept(p)'
  PROVE  BooksInv'
  <1>1. PendingInv(p) /\ LocalBooks(p) /\ Books
    BY InLoad DEF BooksInv
  <1>2. PendingIDs(p) = PendingIDs(p)' \cup {r.id}
    BY DEF PendingIDs, IdsOf
  <1>3. r.id \notin IdsOf(rows) /\ r.id \notin mapSets
    BY <1>1, <1>2 DEF PendingInv
  <1>4. pc'[p] \in LoadStages
    BY DEF LoadStages
  <1>5. Leaving(p) = {} /\ LeftSet(p) = {} /\ Stripped(p) = {}
    BY LoadOwes
  <1>6. Leaving(p)' = {} /\ LeftSet(p)' = {} /\ Stripped(p)' = {}
    BY <1>4, LoadOwesNext
  <1>7. LocalBooks(p)'
    BY <1>1, <1>2, <1>4, LoadLocalBooks DEF LocalBooks, Distinct
  <1>8. Noticed(p)
    BY <1>2 DEF Noticed
  <1>9. ASSUME NEW d \in OwnDirs(p), d \in mapDirs' PROVE d \in OwnDirs(p)'
    <2>1. PICK x \in Pending(p) : x.set = x.id /\ x.id = d
      BY DEF OwnDirs, IdsOf
    <2>2. x # r
      BY <1>9, <2>1
    <2>3. x \in Pending(p)'
      BY <2>1, <2>2
    <2> QED BY <2>1, <2>3 DEF OwnDirs, IdsOf
  <1>10. Balanced(p)
    <2>1. \A id \in live' : \/ id \in IdsOf(rows') \cup PendingIDs(p)'
                            \/ id \in live /\ id \notin IdsOf(rows) \cup PendingIDs(p)
      BY <1>2
    <2>2. \A d \in mapDirs' : \/ d \in mapSets' \cup OwnDirs(p)'
                              \/ d \in mapDirs /\ d \notin mapSets \cup OwnDirs(p)
      BY <1>9
    <2>3. \A s \in mapSets' : \/ s \in mapDirs' \cup Stripped(p)'
                              \/ s \in mapSets /\ s \notin mapDirs \cup Stripped(p)
      BY <1>3, <1>5
    <2>4. \A id \in IdsOf(rows') : \/ id \in live' \cup Leaving(p)'
                                   \/ id \in IdsOf(rows) /\ id \notin live \cup Leaving(p)
      BY <1>3, <1>5
    <2>5. IdsOf(rows') \subseteq bytecode' /\ \A a, b \in rows' : a.id = b.id => a = b
      BY <1>1, <1>3 DEF Books
    <2> QED BY <1>5, <2>1, <2>2, <2>3, <2>4, <2>5 DEF Balanced
  <1> QED BY <1>7, <1>8, <1>10, BooksStep

LEMMA PublishFailsBooks ==
  ASSUME TypeInv, TypeInv', LoadInv, BooksInv, NEW p \in Processes, OnlyMoves(p), PublishFails(p),
         "publishshared" \notin faults, "undo" \notin faults
  PROVE  BooksInv'
  <1>1. /\ pc[p] = "publish" /\ pc[p] \in LoadStages /\ Goto(p, "cleanup") /\ op' = [op EXCEPT ![p].now = <<>>]
        /\ UNCHANGED <<rows, mapSets, bytecode, used>>
    BY DEF PublishFails, LoadStages, store, ghost
  <1>2. /\ PendingInv(p) /\ op[p] \in Operation /\ pc \in [Processes -> Labels]
        /\ op \in [Processes -> Operation] /\ LocalBooks(p)
    BY <1>1, InLoad DEF BooksInv
  <1>3. PICK r : r = Head(op[p].now)
    OBVIOUS
  <1>4. Items(op[p].now) = {r} /\ Pending(p) = Items(op[p].loaded) \cup {r} /\ r \in Pending(p)
    BY <1>1, <1>3, AtPublish, AtLoad
  <1>5. r.id \notin bytecode /\ r.id \notin IdsOf(Items(op[p].loaded))
    BY <1>1, <1>2, <1>4 DEF PendingInv, IdsOf
  <1>6. r.set = r.id /\ live' = live \ {r.id} /\ mapDirs' = mapDirs \ {r.id}
    BY <1>3, <1>5 DEF PublishFails, Removing
  <1>7. op'[p].loaded = op[p].loaded /\ pc'[p] = "cleanup" /\ pc'[p] \in LoadStages
    BY <1>1, <1>2 DEF Operation, Goto, LoadStages
  <1>8. Pending(p)' = Items(op[p].loaded) /\ PendingIDs(p)' = IdsOf(Items(op[p].loaded))
    BY <1>7, LoadMoves DEF PendingIDs
  <1>9. Kept(p)' = Kept(p)
    BY <1>1, <1>7, LoadOwes, LoadOwesNext
  <1>10. Distinct(op'[p].loaded)
    BY <1>2, <1>7 DEF LocalBooks, Distinct
  <1>11. bytecode' = bytecode \ {r.id}
    BY <1>1, <1>5
  <1> QED BY <1>1, <1>4, <1>5, <1>6, <1>7, <1>8, <1>9, <1>10, <1>11, UndoBooks

LEMMA UnloadLoadedBooks ==
  ASSUME TypeInv, TypeInv', LoadInv, BooksInv, NEW p \in Processes, OnlyMoves(p), UnloadLoaded(p),
         "undo" \notin faults
  PROVE  BooksInv'
  <1>1. /\ pc[p] = "cleanup" /\ pc[p] \in LoadStages /\ op[p].loaded # <<>> /\ pc'[p] = "cleanup"
        /\ UNCHANGED <<rows, mapSets, used>>
        /\ op' = [op EXCEPT ![p].loaded = SubSeq(@, 1, Len(op[p].loaded) - 1)]
    BY DEF UnloadLoaded, LoadStages, ghost
  <1>2. /\ PendingInv(p) /\ op[p] \in Operation /\ op \in [Processes -> Operation]
        /\ op[p].loaded \in Seq(Record) /\ LocalBooks(p)
    BY <1>1, InLoad DEF BooksInv
  <1>3. PICK r : r = op[p].loaded[Len(op[p].loaded)]
    OBVIOUS
  <1>4. PICK front : front = SubSeq(op[p].loaded, 1, Len(op[p].loaded) - 1)
    OBVIOUS
  <1>5. DistinctSplit(op[p].loaded, front, r)
    BY <1>1, <1>2, <1>3, <1>4, DistinctFront DEF LocalBooks, Distinct
  <1>6. op'[p].loaded = front
    BY <1>1, <1>2, <1>4 DEF Operation
  <1>7. Pending(p) = Items(op[p].loaded) /\ Pending(p)' = Items(front)
    BY <1>1, <1>6, AtLoad, LoadMoves
  <1>8. /\ r \in Pending(p) /\ Pending(p) = Pending(p)' \cup {r} /\ r.id \notin PendingIDs(p)' /\ Distinct(op'[p].loaded)
    BY <1>5, <1>6, <1>7 DEF DistinctSplit, PendingIDs
  <1>9. r.id \notin mapSets
    BY <1>2, <1>8 DEF PendingInv, PendingIDs, IdsOf
  <1>10. /\ live' = live \ {r.id} /\ bytecode' = bytecode \ {r.id}
         /\ mapDirs' = IF r.set = r.id THEN mapDirs \ {r.id} ELSE mapDirs
    <2>1. /\ live' = live \ {r.id} /\ bytecode' \in Removing(bytecode, {r.id}, "undo")
          /\ mapDirs' \in Removing(mapDirs, IF r.set = r.id /\ r.id \notin mapSets THEN {r.id} ELSE {}, "undo")
      BY <1>3 DEF UnloadLoaded
    <2> QED BY <1>9, <2>1 DEF Removing
  <1>11. Kept(p) = IdsOf(Items(op[p].loaded)) /\ Kept(p)' = IdsOf(Items(front))
    BY <1>1, <1>6, LoadOwes, LoadOwesNext
  <1>12. Kept(p) \ {r.id} \subseteq Kept(p)'
    BY <1>5, <1>11 DEF DistinctSplit
  <1> QED BY <1>1, <1>8, <1>10, <1>12, UndoBooks

LEMMA CommitBooks ==
  ASSUME TypeInv, TypeInv', LoadInv, BooksInv, NEW p \in Processes, OnlyMoves(p), Commit(p) PROVE BooksInv'
  <1>1. /\ pc[p] = "kernel" /\ pc[p] \in LoadStages /\ Return(p)
        /\ rows' = rows \cup Loaded(p) /\ mapSets' = mapSets \cup {r.set : r \in Loaded(p)}
        /\ UNCHANGED <<live, mapDirs, bytecode, used>>
    BY DEF Commit, LoadStages, files
  <1>2. PendingInv(p) /\ pc \in [Processes -> Labels] /\ LocalBooks(p) /\ Books
    BY <1>1, InLoad DEF BooksInv
  <1>3. Loaded(p) = Pending(p) /\ Items(op[p].loaded) = Pending(p)
    BY <1>1, AtLoad DEF Loaded, Items
  <1>4. pc'[p] = "idle" /\ op'[p] = NoOp
    BY <1>1, <1>2 DEF Return, Goto, TypeInv, TypeOK
  <1>5. op'[p].loaded = <<>> /\ op'[p].now = <<>> /\ op'[p].plan = {} /\ pc'[p] \notin Removal
    BY <1>4 DEF NoOp, Removal
  <1>6. /\ PendingIDs(p)' = {} /\ OwnDirs(p)' = {} /\ Kept(p)' = {}
        /\ Leaving(p)' = {} /\ Left(p)' = {} /\ LeftSet(p)' = {} /\ Stripped(p)' = {}
    BY <1>5, NothingOwedNext
  <1>7. Leaving(p) = {} /\ LeftSet(p) = {} /\ Stripped(p) = {} /\ Kept(p) = PendingIDs(p)
    BY <1>1, <1>3, LoadOwes DEF PendingIDs
  <1>8. IdsOf(rows') = IdsOf(rows) \cup PendingIDs(p)
    BY <1>1, <1>3 DEF PendingIDs, IdsOf
  <1>9. LocalBooks(p)'
    BY <1>4, <1>5, <1>6 DEF LocalBooks
  <1>10. Noticed(p)
    BY <1>1, <1>3 DEF Noticed
  <1>11. PendingIDs(p) \subseteq live /\ PendingIDs(p) \subseteq bytecode
    BY <1>1, <1>2, <1>3 DEF LocalBooks, PendingInv, PendingIDs
  <1>12. \A s \in mapSets' : s \in mapSets \/ (s \in mapDirs /\ s \in {r.set : r \in Pending(p)})
    BY <1>1, <1>2, <1>3 DEF PendingInv
  <1>13. OwnDirs(p) \subseteq mapSets'
    BY <1>1, <1>3 DEF OwnDirs, IdsOf
  <1>14. ASSUME NEW r \in rows', NEW s \in rows', r.id = s.id PROVE r = s
    <2>1. CASE r \in rows /\ s \in rows
      BY <1>2, <1>14, <2>1 DEF Books
    <2>2. CASE r \in Pending(p) /\ s \in Pending(p)
      <3>1. PICK i \in DOMAIN op[p].loaded : r = op[p].loaded[i]
        BY <1>3, <2>2 DEF Items
      <3>2. PICK j \in DOMAIN op[p].loaded : s = op[p].loaded[j]
        BY <1>3, <2>2 DEF Items
      <3> QED BY <1>2, <1>14, <3>1, <3>2 DEF LocalBooks
    <2>3. \A x \in Pending(p) : \A y \in rows : x.id # y.id
      BY <1>2 DEF PendingInv, PendingIDs, IdsOf
    <2> QED BY <1>1, <1>3, <1>14, <2>1, <2>2, <2>3
  <1>15. Balanced(p)
    <2>1. \A id \in live' : \/ id \in IdsOf(rows') \cup PendingIDs(p)'
                            \/ id \in live /\ id \notin IdsOf(rows) \cup PendingIDs(p)
      BY <1>1, <1>8
    <2>2. \A id \in IdsOf(rows') : \/ id \in live' \cup Leaving(p)'
                                   \/ id \in IdsOf(rows) /\ id \notin live \cup Leaving(p)
      BY <1>1, <1>7, <1>8, <1>11
    <2>3. \A id \in bytecode' : \/ id \in IdsOf(rows') \cup Kept(p)'
                                \/ id \in bytecode /\ id \notin IdsOf(rows) \cup Kept(p)
      BY <1>1, <1>7, <1>8
    <2>4. IdsOf(rows') \subseteq bytecode'
      BY <1>1, <1>2, <1>8, <1>11 DEF Books
    <2>5. \A s \in mapSets' : \/ s \in {r.set : r \in rows'} \cup LeftSet(p)'
                              \/ s \in mapSets /\ s \notin {r.set : r \in rows} \cup LeftSet(p)
      BY <1>1, <1>3, <1>7, <1>12
    <2>6. \A d \in mapDirs' : \/ d \in mapSets' \cup OwnDirs(p)'
                              \/ d \in mapDirs /\ d \notin mapSets \cup OwnDirs(p)
      BY <1>1, <1>13
    <2>7. \A s \in mapSets' : \/ s \in mapDirs' \cup Stripped(p)'
                              \/ s \in mapSets /\ s \notin mapDirs \cup Stripped(p)
      BY <1>1, <1>7, <1>12
    <2> QED BY <1>14, <2>1, <2>2, <2>3, <2>4, <2>5, <2>6, <2>7 DEF Balanced
  <1> QED BY <1>9, <1>10, <1>15, BooksStep

\* What an unload owes at each of its stages.
Owing(p, l, t, set) ==
    /\ PendingIDs(p) = {} /\ OwnDirs(p) = {}
    /\ Leaving(p) = IF l \in {"shared", "row"} THEN {t} ELSE {}
    /\ Left(p) = IF l \in {"gc", "gcpins", "gcrow", "bytecode"} THEN {t} ELSE {}
    /\ Kept(p) = Left(p)
    /\ LeftSet(p) = IF l \in {"gc", "gcpins", "gcrow"} THEN {set} ELSE {}
    /\ Stripped(p) = IF l = "gcrow" THEN {set} ELSE {}

LEMMA RemovalOwes ==
  ASSUME TypeInv, NEW p \in Processes, pc[p] \in Removal
  PROVE  Owing(p, pc[p], op[p].target, Head(op[p].now).set) /\ op[p].loaded = <<>> /\ op[p].plan = {}
  <1>1. Pending(p) = {} /\ op[p].plan = {} /\ Items(op[p].now) = {Head(op[p].now)}
    BY AtRemoval
  <1>2. StageOK(pc[p], op[p])
    BY AtStage
  <1>3. op[p].loaded = <<>> /\ Items(<<>>) = {}
    BY <1>2 DEF StageOK, Removal, LoadStages, Items
  <1>4. PendingIDs(p) = {} /\ OwnDirs(p) = {}
    BY <1>1 DEF PendingIDs, OwnDirs, IdsOf
  <1>5. Kept(p) = Left(p)
    BY <1>3 DEF Kept, IdsOf
  <1>6. {r.set : r \in Items(op[p].now)} = {Head(op[p].now).set}
    BY <1>1
  <1> QED BY <1>1, <1>3, <1>4, <1>5, <1>6 DEF Owing, Leaving, Left, LeftSet, Stripped

\* A removal that goes on owes what its next stage says.
LEMMA RemovalOwesNext ==
  ASSUME TypeInv, NEW p \in Processes, pc[p] \in Removal, pc'[p] \in Removal, op' = op
  PROVE  Owing(p, pc[p], op[p].target, Head(op[p].now).set)'
  <1>1. Pending(p) = {} /\ Items(op[p].now) = {Head(op[p].now)} /\ op[p].loaded = <<>>
    BY AtRemoval, RemovalOwes
  <1>2. Pending(p)' = {} /\ Items(<<>>) = {}
    BY <1>1 DEF Pending, Items
  <1>3. PendingIDs(p)' = {} /\ OwnDirs(p)' = {}
    BY <1>2 DEF PendingIDs, OwnDirs, IdsOf
  <1>4. Kept(p)' = Left(p)'
    BY <1>1, <1>2 DEF Kept, IdsOf
  <1>5. {r.set : r \in Items(op'[p].now)} = {Head(op'[p].now).set}
    BY <1>1
  <1> QED BY <1>3, <1>4, <1>5 DEF Owing, Leaving, Left, LeftSet, Stripped

\* It keeps its own books if it is true to the stage it moves to.
LEMMA RemovalLocalBooks ==
  ASSUME TypeInv, NEW p \in Processes, pc[p] \in Removal, pc'[p] \in Removal, op' = op,
         pc'[p] \in {"detach", "shared", "row"} => Items(op[p].now) \subseteq rows',
         pc'[p] \in {"shared", "row"} => op[p].target \notin live',
         pc'[p] \in {"gc", "gcpins", "gcrow", "bytecode"} => op[p].target \notin IdsOf(rows'),
         pc'[p] = "gcrow" => Head(op[p].now).set \notin mapDirs'
  PROVE  LocalBooks(p)'
  <1>1. op'[p].loaded = <<>> /\ op'[p].plan = {}
    BY RemovalOwes
  <1>2. pc'[p] \notin {"dead", "reaprow", "enumerate"}
    BY DEF Removal
  <1>3. Owing(p, pc[p], op[p].target, Head(op[p].now).set)'
    BY RemovalOwesNext
  <1>4. PendingIDs(p)' = {} /\ Leaving(p)' \cap live' = {} /\ Stripped(p)' \cap mapDirs' = {}
    BY <1>3 DEF Owing
  <1>5. Left(p)' \cap IdsOf(rows)' = {}
    BY <1>3 DEF Owing, IdsOf
  <1> QED BY <1>1, <1>2, <1>4, <1>5 DEF LocalBooks

\* An unload that has found the row.
LEMMA GetProgramBooks ==
  ASSUME TypeInv, TypeInv', LoadInv, BooksInv, NEW p \in Processes, OnlyMoves(p), GetProgram(p)
  PROVE  BooksInv'
  <1>1. pc[p] = "get" /\ UNCHANGED <<rows, mapSets, live, mapDirs, bytecode, used>>
    BY DEF GetProgram, store, files
  <1>2. /\ pc \in [Processes -> Labels] /\ op \in [Processes -> Operation] /\ op[p] \in Operation
        /\ rows \subseteq Record /\ StageOK(pc[p], op[p])
    BY AtStage DEF TypeInv, TypeOK
  <1>3. op[p].loaded = <<>> /\ op[p].now = <<>> /\ op[p].plan = {} /\ op[p].kind = "unload" /\ pc[p] \notin Removal
    BY <1>1, <1>2 DEF StageOK, HoldsAt, Labels, ReapStages, LoadStages, UnloadStages, Removal
  <1>4. ASSUME NEW r \in rows, op' = [op EXCEPT ![p].now = <<r>>], Goto(p, "detach") PROVE BooksInv'
    <2>1. PICK now : now = <<r>>
      OBVIOUS
    <2>2. now \in Seq(Record) /\ Items(now) = {r}
      BY <1>2, <2>1, ItemsShort
    <2>3. /\ pc'[p] = "detach" /\ op'[p].now = now /\ op'[p].kind = "unload" /\ op'[p].loaded = <<>>
          /\ op'[p].plan = {}
      BY <1>2, <1>3, <1>4, <2>1 DEF Operation, Goto
    <2>4. /\ PendingIDs(p) = {} /\ OwnDirs(p) = {} /\ Kept(p) = {}
          /\ Leaving(p) = {} /\ LeftSet(p) = {} /\ Stripped(p) = {}
      BY <1>3, NothingOwed
    <2>5. Pending(p)' = {} /\ Items(<<>>) = {}
      BY <2>3 DEF Pending, PendingOf, Items
    <2>6. Leaving(p)' = {} /\ Left(p)' = {} /\ LeftSet(p)' = {} /\ Stripped(p)' = {}
      BY <2>3 DEF Leaving, Left, LeftSet, Stripped
    <2>7. PendingIDs(p)' = {} /\ OwnDirs(p)' = {} /\ Kept(p)' = {}
      BY <2>3, <2>5, <2>6 DEF PendingIDs, OwnDirs, Kept, IdsOf
    <2>8. Items(op'[p].now) \subseteq rows'
      BY <1>1, <2>2, <2>3
    <2>9. LocalBooks(p)'
      BY <2>3, <2>6, <2>7, <2>8 DEF LocalBooks
    <2> QED BY <1>1, <2>4, <2>6, <2>7, <2>9, BooksQuiet
  <1>5. CASE Return(p)
    BY <1>5, OutsideBooks
  <1> QED BY <1>4, <1>5 DEF GetProgram

\* The steps of an unload that take something away.
LEMMA RemovalBooks ==
  ASSUME TypeInv, TypeInv', LoadInv, BooksInv, NEW p \in Processes, OnlyMoves(p), "gc" \notin faults,
         \/ UnloadKernelProgram(p) \/ UnloadSharedMapPins(p) \/ DeleteProgramRecord(p)
         \/ CountMapSetUsers(p) \/ RemoveMapSetPins(p) \/ DeleteMapSet(p)
  PROVE  BooksInv'
  <1>0. PICK set : set = Head(op[p].now).set
    OBVIOUS
  <1>t. PICK t : t = op[p].target
    OBVIOUS
  <1>1. /\ pc[p] \in {"detach", "shared", "row", "gc", "gcpins", "gcrow"} /\ pc[p] \in Removal
        /\ op' = op /\ UNCHANGED <<bytecode, used>>
    BY DEF UnloadKernelProgram, UnloadSharedMapPins, DeleteProgramRecord,
       CountMapSetUsers, RemoveMapSetPins, DeleteMapSet, Removal, files, ghost
  <1>2. PICK r : r = Head(op[p].now)
    OBVIOUS
  <1>3. /\ pc \in [Processes -> Labels] /\ RemovalInv(p) /\ LocalBooks(p) /\ Books /\ lock = p
        /\ Items(op[p].now) = {r} /\ r.id = t /\ r.set = set /\ Touched(p) = {t, set}
    BY <1>0, <1>t, <1>1, <1>2, AtRemoval DEF LoadInv, TypeInv, TypeOK, BooksInv
  <1>4. Owing(p, pc[p], t, set)
    BY <1>0, <1>t, <1>1, RemovalOwes
  <1>5. pc'[p] \in Removal => Owing(p, pc[p], t, set)'
    BY <1>0, <1>t, <1>1, RemovalOwesNext
  <1>6. pc[p] \in {"detach", "shared", "row"} => r \in rows
    BY <1>3 DEF LocalBooks
  <1>7. CASE UnloadKernelProgram(p)
    <2>1. /\ pc[p] = "detach" /\ live' = live \ {t} /\ pc'[p] = "shared" /\ UNCHANGED <<rows, mapSets, mapDirs>>
      BY <1>t, <1>3, <1>7 DEF UnloadKernelProgram, Goto, store
    <2>2. pc'[p] \in Removal
      BY <2>1 DEF Removal
    <2>3. LocalBooks(p)'
      BY <1>t, <1>1, <1>3, <1>6, <2>1, <2>2, RemovalLocalBooks
    <2>4. Noticed(p)
      BY <1>1, <1>3, <2>1 DEF Noticed
    <2>5. Leaving(p)' = {t} /\ Leaving(p) = {} /\ PendingIDs(p) = {} /\ PendingIDs(p)' = {}
          /\ Kept(p) = {} /\ Kept(p)' = {} /\ LeftSet(p) = {} /\ LeftSet(p)' = {} /\ OwnDirs(p) = {} /\ OwnDirs(p)' = {}
          /\ Stripped(p) = {} /\ Stripped(p)' = {}
      BY <1>4, <1>5, <2>1, <2>2 DEF Owing
    <2>6. Balanced(p)
      BY <1>1, <1>3, <2>1, <2>5 DEF Balanced, Books, IdsOf
    <2> QED BY <2>3, <2>4, <2>6, BooksStep
  <1>8. CASE UnloadSharedMapPins(p)
    <2>1. pc[p] = "shared" /\ pc'[p] = "row" /\ UNCHANGED <<rows, mapSets, live, mapDirs>>
      BY <1>3, <1>8 DEF UnloadSharedMapPins, Goto
    <2>2. pc'[p] \in Removal
      BY <2>1 DEF Removal
    <2>3. t \notin live
      BY <1>3, <1>4, <2>1 DEF LocalBooks, Owing
    <2>4. LocalBooks(p)'
      BY <1>t, <1>1, <1>3, <1>6, <2>1, <2>2, <2>3, RemovalLocalBooks
    <2>5. /\ PendingIDs(p)' = PendingIDs(p) /\ OwnDirs(p)' = OwnDirs(p) /\ Kept(p)' = Kept(p)
          /\ Leaving(p)' = Leaving(p) /\ Stripped(p)' = Stripped(p) /\ LeftSet(p)' = LeftSet(p)
      BY <1>4, <1>5, <2>1, <2>2 DEF Owing
    <2> QED BY <1>1, <2>1, <2>4, <2>5, BooksQuiet
  <1>9. CASE DeleteProgramRecord(p)
    <2>1. /\ pc[p] = "row" /\ pc'[p] = "gc" /\ rows' = {x \in rows : x.id # t}
          /\ UNCHANGED <<mapSets, live, mapDirs>>
      BY <1>t, <1>3, <1>9 DEF DeleteProgramRecord, Goto, files
    <2>2. pc'[p] \in Removal
      BY <2>1 DEF Removal
    <2>3. t \notin live
      BY <1>3, <1>4, <2>1 DEF LocalBooks, Owing
    <2>4. IdsOf(rows') = IdsOf(rows) \ {t}
      BY <2>1 DEF IdsOf
    <2>5. LocalBooks(p)'
      BY <1>t, <1>1, <2>1, <2>2, <2>4, RemovalLocalBooks
    <2>6. Noticed(p)
      BY <1>1, <1>3, <2>1 DEF Noticed
    <2>7. Leaving(p)' = {} /\ Leaving(p) = {t} /\ PendingIDs(p) = {} /\ PendingIDs(p)' = {}
          /\ Kept(p) = {} /\ Kept(p)' = {t} /\ LeftSet(p) = {} /\ LeftSet(p)' = {set} /\ OwnDirs(p) = {} /\ OwnDirs(p)' = {}
          /\ Stripped(p) = {} /\ Stripped(p)' = {}
      BY <1>4, <1>5, <2>1, <2>2 DEF Owing
    <2>8. {x.set : x \in rows} \subseteq {x.set : x \in rows'} \cup {set}
      <3>1. \A x \in rows : x \in rows' \/ x = r
        BY <1>3, <1>6, <2>1 DEF Books
      <3> QED BY <1>3, <3>1
    <2>9. Balanced(p)
      BY <1>1, <1>3, <2>1, <2>3, <2>4, <2>7, <2>8 DEF Balanced, Books
    <2> QED BY <2>5, <2>6, <2>9, BooksStep
  <1>10. CASE CountMapSetUsers(p)
    <2>1. /\ pc[p] = "gc" /\ UNCHANGED <<rows, mapSets, live, mapDirs>>
          /\ pc'[p] = IF \E x \in rows : x.set = set THEN "bytecode" ELSE "gcpins"
      BY <1>0, <1>3, <1>10 DEF CountMapSetUsers, Goto, store, files
    <2>2. pc'[p] \in {"bytecode", "gcpins"} /\ pc'[p] \in Removal
      BY <2>1 DEF Removal
    <2>3. t \notin IdsOf(rows)
      BY <1>3, <1>4, <2>1 DEF LocalBooks, Owing
    <2>4. LocalBooks(p)'
      BY <1>t, <1>1, <2>1, <2>2, <2>3, RemovalLocalBooks
    <2>5. /\ PendingIDs(p)' = PendingIDs(p) /\ OwnDirs(p)' = OwnDirs(p) /\ Kept(p)' = Kept(p)
          /\ Leaving(p)' = Leaving(p) /\ Stripped(p)' = Stripped(p)
      BY <1>4, <1>5, <2>1, <2>2 DEF Owing
    <2>6. LeftSet(p) \subseteq LeftSet(p)' \cup {x.set : x \in rows}
      BY <1>4, <1>5, <2>1, <2>2 DEF Owing
    <2> QED BY <1>1, <2>1, <2>4, <2>5, <2>6, BooksQuiet
  <1>11. CASE RemoveMapSetPins(p)
    <2>1. /\ pc[p] = "gcpins" /\ pc'[p] = "gcrow" /\ mapDirs' = mapDirs \ {set} /\ UNCHANGED <<rows, mapSets, live>>
      BY <1>0, <1>3, <1>11 DEF RemoveMapSetPins, Goto, store
    <2>2. pc'[p] \in Removal
      BY <2>1 DEF Removal
    <2>3. t \notin IdsOf(rows)
      BY <1>3, <1>4, <2>1 DEF LocalBooks, Owing
    <2>4. LocalBooks(p)'
      BY <1>0, <1>t, <1>1, <2>1, <2>2, <2>3, RemovalLocalBooks
    <2>5. Noticed(p)
      BY <1>1, <1>3, <2>1 DEF Noticed
    <2>6. /\ PendingIDs(p) = {} /\ PendingIDs(p)' = {} /\ OwnDirs(p) = {} /\ OwnDirs(p)' = {}
          /\ Leaving(p) = {} /\ Leaving(p)' = {} /\ Kept(p) = {t} /\ Kept(p)' = {t}
          /\ LeftSet(p) = {set} /\ LeftSet(p)' = {set} /\ Stripped(p) = {} /\ Stripped(p)' = {set}
      BY <1>4, <1>5, <2>1, <2>2 DEF Owing
    <2>7. Balanced(p)
      BY <1>1, <1>3, <2>1, <2>6 DEF Balanced, Books, IdsOf
    <2> QED BY <2>4, <2>5, <2>7, BooksStep
  <1>12. CASE DeleteMapSet(p)
    <2>1. pc[p] = "gcrow" /\ pc'[p] = "bytecode" /\ UNCHANGED <<rows, live, mapDirs>>
      BY <1>3, <1>12 DEF DeleteMapSet, Goto, files
    <2>2. pc'[p] \in Removal
      BY <2>1 DEF Removal
    <2>3. \A x \in rows : x.set # set
      BY <1>3, <2>1 DEF RemovalInv
    <2>4. mapSets' = mapSets \ {set}
      BY <1>0, <1>12, <2>3 DEF DeleteMapSet, Removing
    <2>5. t \notin IdsOf(rows) /\ set \notin mapDirs
      BY <1>3, <1>4, <2>1 DEF LocalBooks, Owing
    <2>6. LocalBooks(p)'
      BY <1>t, <1>1, <2>1, <2>2, <2>5, RemovalLocalBooks
    <2>7. Noticed(p)
      BY <1>1, <1>3, <2>1 DEF Noticed
    <2>8. /\ PendingIDs(p) = {} /\ PendingIDs(p)' = {} /\ OwnDirs(p) = {} /\ OwnDirs(p)' = {}
          /\ Leaving(p) = {} /\ Leaving(p)' = {} /\ Kept(p) = {t} /\ Kept(p)' = {t}
          /\ LeftSet(p) = {set} /\ LeftSet(p)' = {} /\ Stripped(p) = {set} /\ Stripped(p)' = {}
      BY <1>4, <1>5, <2>1, <2>2 DEF Owing
    <2>9. Balanced(p)
      BY <1>1, <1>3, <2>1, <2>4, <2>5, <2>8 DEF Balanced, Books, IdsOf
    <2> QED BY <2>6, <2>7, <2>9, BooksStep
  <1> QED BY <1>7, <1>8, <1>9, <1>10, <1>11, <1>12

LEMMA RemoveBytecodeBooks ==
  ASSUME TypeInv, TypeInv', LoadInv, BooksInv, NEW p \in Processes, OnlyMoves(p), RemoveProgramBytecodeDir(p),
         "bytecode" \notin faults
  PROVE  BooksInv'
  <1>1. /\ pc[p] = "bytecode" /\ pc[p] \in Removal /\ Return(p) /\ bytecode' = bytecode \ {op[p].target}
        /\ UNCHANGED <<rows, mapSets, live, mapDirs, used>>
    BY DEF RemoveProgramBytecodeDir, Removal, Removing, store, ghost
  <1>2. pc \in [Processes -> Labels] /\ op \in [Processes -> Operation] /\ LocalBooks(p) /\ Books
    BY DEF TypeInv, TypeOK, BooksInv
  <1>3. pc'[p] = "idle" /\ op'[p] = NoOp
    BY <1>1, <1>2 DEF Return, Goto
  <1>4. op'[p].loaded = <<>> /\ op'[p].now = <<>> /\ op'[p].plan = {} /\ pc'[p] \notin Removal
    BY <1>3 DEF NoOp, Removal
  <1>5. /\ PendingIDs(p)' = {} /\ OwnDirs(p)' = {} /\ Kept(p)' = {}
        /\ Leaving(p)' = {} /\ Left(p)' = {} /\ LeftSet(p)' = {} /\ Stripped(p)' = {}
    BY <1>4, NothingOwedNext
  <1>6. Owing(p, pc[p], op[p].target, Head(op[p].now).set)
    BY <1>1, RemovalOwes
  <1>7. /\ PendingIDs(p) = {} /\ OwnDirs(p) = {} /\ Kept(p) = {op[p].target}
        /\ Leaving(p) = {} /\ LeftSet(p) = {} /\ Stripped(p) = {} /\ op[p].target \notin IdsOf(rows)
    BY <1>1, <1>2, <1>6 DEF Owing, LocalBooks
  <1>8. LocalBooks(p)'
    BY <1>3, <1>4, <1>5 DEF LocalBooks
  <1>9. Noticed(p)
    BY <1>1 DEF Noticed
  <1>10. Balanced(p)
    BY <1>1, <1>2, <1>5, <1>7 DEF Balanced, Books, IdsOf
  <1> QED BY <1>8, <1>9, <1>10, BooksStep

\* The failures of a behaviour are chosen once.
LEMMA FaultsStay == [Next]_vars => faults' = faults
  <1> SUFFICES ASSUME [Next]_vars PROVE faults' = faults
    OBVIOUS
  <1>1. ASSUME NEW p \in Processes, Request(p) \/ Acquire(p) \/ Step(p) \/ Crash(p) PROVE faults' = faults
    <2>1. CASE Request(p) \/ Acquire(p) \/ Crash(p)
      BY <2>1 DEF Request, Load, Unload, Acquire, Crash, ghost
    <2>2. CASE AcquireFails(p) \/ ValidateOwners(p) \/ Observe(p) \/ ObserveFails(p)
               \/ (\E id \in IDs : ReapPins(p, id)) \/ ReapRow(p) \/ ReapDone(p)
      BY <2>2 DEF AcquireFails, ValidateOwners, Observe, ObserveFails, ReapPins, ReapRow, ReapDone, ghost
    <2>3. CASE KernelLoad(p) \/ KernelLoadFails(p) \/ PublishBytecode(p) \/ PublishFails(p)
      BY <2>3 DEF KernelLoad, KernelLoadFails, PublishBytecode, PublishFails, ghost
    <2>4. CASE Commit(p) \/ CommitFails(p) \/ UnloadLoaded(p) \/ LoadFailed(p) \/ Restart(p)
      BY <2>4 DEF Commit, CommitFails, UnloadLoaded, LoadFailed, Restart, ghost
    <2>5. CASE GetProgram(p)
      BY <2>5 DEF GetProgram
    <2>6. CASE RemovalStep(p)
      BY <2>6 DEF RemovalStep, UnloadKernelProgram, UnloadKernelProgramFails, UnloadSharedMapPins,
         DeleteProgramRecord, DeleteProgramRecordFails, CountMapSetUsers, RemoveMapSetPins, DeleteMapSet,
         RemoveProgramBytecodeDir, ghost
    <2> QED BY <1>1, <2>1, <2>2, <2>3, <2>4, <2>5, <2>6 DEF Step, RemovalStep
  <1>2. ASSUME NEW id \in IDs, ProgramDies(id) PROVE faults' = faults
    BY <1>2 DEF ProgramDies
  <1>3. CASE UNCHANGED vars
    BY <1>3 DEF vars, ghost
  <1> QED BY <1>1, <1>2, <1>3 DEF Next

LEMMA BooksStill == ASSUME BooksInv, UNCHANGED vars PROVE BooksInv'
  <1>1. pc' = pc /\ op' = op /\ UNCHANGED <<rows, mapSets, live, mapDirs, bytecode>>
    BY DEF vars, store, files
  <1>2. \A p \in Processes : /\ PendingIDs(p)' = PendingIDs(p) /\ OwnDirs(p)' = OwnDirs(p)
                             /\ Leaving(p)' = Leaving(p) /\ Left(p)' = Left(p) /\ Kept(p)' = Kept(p)
                             /\ LeftSet(p)' = LeftSet(p) /\ Stripped(p)' = Stripped(p)
    BY <1>1 DEF Pending, PendingIDs, OwnDirs, Leaving, Left, Kept, LeftSet, Stripped
  <1>3. Books'
    BY <1>1, <1>2 DEF BooksInv, Books, IdsOf
  <1>4. \A p \in Processes : LocalBooks(p)'
    BY <1>1, <1>2 DEF BooksInv, LocalBooks, IdsOf
  <1> QED BY <1>3, <1>4 DEF BooksInv

LEMMA BooksInit == Init => BooksInv
  <1> SUFFICES ASSUME Init PROVE BooksInv
    OBVIOUS
  <1>1. /\ rows = {} /\ live = {} /\ bytecode = {} /\ mapSets = {} /\ mapDirs = {}
        /\ \A p \in Processes : pc[p] = "idle" /\ op[p] = NoOp
    BY DEF Init
  <1>2. Books
    BY <1>1 DEF Books, IdsOf
  <1>3. ASSUME NEW p \in Processes PROVE LocalBooks(p)
    <2>1. op[p].loaded = <<>> /\ op[p].now = <<>> /\ op[p].plan = {} /\ pc[p] \notin Removal
      BY <1>1 DEF NoOp, Removal
    <2>2. PendingIDs(p) = {} /\ Leaving(p) = {} /\ Left(p) = {} /\ Stripped(p) = {}
      BY <2>1, NothingOwed
    <2> QED BY <1>1, <2>1, <2>2 DEF LocalBooks
  <1> QED BY <1>2, <1>3 DEF BooksInv

LEMMA BooksNext ==
  ASSUME faults \subseteq LoadFaults, TypeInv, TypeInv', LoadInv, BooksInv, [Next]_vars
  PROVE  BooksInv'
  <1>0. {"reuse", "publishshared", "undo", "gc", "bytecode", "detach", "delete", "crash", "die"} \cap faults = {}
    BY DEF LoadFaults
  <1>1. ASSUME NEW p \in Processes, Request(p) \/ Acquire(p) \/ Step(p) \/ Crash(p) PROVE BooksInv'
    <2>1. OnlyMoves(p)
      BY <1>1, OneMoves
    <2>2. op[p].plan = {} /\ pc[p] \notin {"dead", "reaprow"}
      BY DEF BooksInv, LocalBooks
    <2>3. /\ ~Crash(p) /\ ~Restart(p) /\ ~UnloadKernelProgramFails(p) /\ ~DeleteProgramRecordFails(p)
          /\ ~ReapRow(p) /\ ~(\E id \in IDs : ReapPins(p, id))
      BY <1>0, <2>2 DEF Crash, Restart, UnloadKernelProgramFails, DeleteProgramRecordFails, ReapRow, ReapPins
    <2>4. CASE Request(p) \/ Acquire(p) \/ AcquireFails(p) \/ ValidateOwners(p) \/ LoadFailed(p)
      BY <2>1, <2>4, OutsideBooks
    <2>5. CASE Observe(p) \/ ObserveFails(p) \/ ReapDone(p)
      BY <2>1, <2>5, ReapBooks
    <2>6. CASE KernelLoad(p) \/ KernelLoadFails(p) \/ PublishBytecode(p) \/ PublishFails(p)
               \/ Commit(p) \/ CommitFails(p) \/ UnloadLoaded(p)
      BY <1>0, <2>1, <2>6, KernelLoadBooks, CleanupBooks, PublishBytecodeBooks, PublishFailsBooks,
         CommitBooks, UnloadLoadedBooks
    <2>7. CASE GetProgram(p) \/ UnloadKernelProgram(p) \/ UnloadSharedMapPins(p) \/ DeleteProgramRecord(p)
               \/ CountMapSetUsers(p) \/ RemoveMapSetPins(p) \/ DeleteMapSet(p) \/ RemoveProgramBytecodeDir(p)
      BY <1>0, <2>1, <2>7, GetProgramBooks, RemovalBooks, RemoveBytecodeBooks
    <2> QED BY <1>1, <2>3, <2>4, <2>5, <2>6, <2>7 DEF Step
  <1>2. ASSUME NEW id \in IDs PROVE ~ProgramDies(id)
    BY <1>0 DEF ProgramDies
  <1>3. CASE UNCHANGED vars
    BY <1>3, BooksStill
  <1> QED BY <1>1, <1>2, <1>3 DEF Next

LEMMA CleanInvNext == ASSUME TypeInv, TypeInv', CleanInv, [Next]_vars PROVE CleanInv'
  <1> SUFFICES ASSUME faults' \subseteq LoadFaults PROVE LoadInv' /\ BooksInv'
    BY DEF CleanInv, LoadFaults
  <1>1. faults \subseteq LoadFaults
    BY FaultsStay
  <1>2. LoadInv /\ BooksInv
    BY <1>1 DEF CleanInv
  <1>3. "reuse" \notin faults /\ "publishshared" \notin faults
    BY <1>1 DEF LoadFaults
  <1>4. LoadInv'
    BY <1>2, <1>3, LoadInvNext
  <1>5. BooksInv'
    BY <1>1, <1>2, BooksNext
  <1> QED BY <1>4, <1>5

\* When no process owes anything, the books are the tables themselves.
LEMMA BooksClosed == ASSUME TypeInv, CleanInv PROVE NothingLeftBehind
  <1> SUFFICES ASSUME AllIdle, faults \subseteq LoadFaults
               PROVE  /\ live = IdsOf(rows) /\ bytecode = IdsOf(rows)
                      /\ mapSets = {r.set : r \in rows} /\ mapDirs = mapSets
    BY DEF NothingLeftBehind
  <1>1. StoreInv /\ Books
    BY DEF CleanInv, LoadInv, BooksInv
  <1>2. ASSUME NEW p \in Processes
        PROVE  /\ PendingIDs(p) = {} /\ OwnDirs(p) = {} /\ Kept(p) = {}
               /\ Leaving(p) = {} /\ LeftSet(p) = {} /\ Stripped(p) = {}
    <2>1. pc[p] = "idle" /\ StageOK(pc[p], op[p])
      BY AtStage DEF AllIdle
    <2>2. pc[p] \notin Removal /\ op[p].loaded = <<>> /\ op[p].now = <<>>
      BY <2>1 DEF StageOK, NoOp, Removal
    <2> QED BY <2>2, NothingOwed
  <1>3. live = IdsOf(rows) /\ bytecode = IdsOf(rows)
    BY <1>1, <1>2 DEF Books
  <1>4. {r.set : r \in rows} \subseteq mapSets
    BY <1>1 DEF StoreInv
  <1>5. mapSets = {r.set : r \in rows} /\ mapDirs = mapSets
    BY <1>1, <1>2, <1>4 DEF Books
  <1> QED BY <1>3, <1>5

\* While nobody crashes and only such calls fail as a load undoes (the lock,
\* the observation, the kernel's load, the publication, the commit), a load
\* that failed and an unload leave no program, no map directory, no bytecode
\* and no row behind: whenever every process is idle, the kernel, the bpffs,
\* the bytecode directory and the store agree, for any number of processes
\* that load with and without the lock at the same time.
THEOREM NothingStaysBehind == Spec => []NothingLeftBehind
  <1>1. Init => TypeInv /\ CleanInv
    BY TypeInvInit, LoadInvInit, BooksInit DEF CleanInv
  <1>2. TypeInv /\ CleanInv /\ [Next]_vars => (TypeInv /\ CleanInv)'
    BY TypeInvNext, CleanInvNext
  <1>3. TypeInv /\ CleanInv => NothingLeftBehind
    BY BooksClosed
  <1> QED BY <1>1, <1>2, <1>3, PTL DEF Spec
=============================================================================
