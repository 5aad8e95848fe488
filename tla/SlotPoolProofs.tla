--------------------------- MODULE SlotPoolProofs ---------------------------
(***************************************************************************)
(* Proofs about SlotPool: for any number of slots, shells, handles and     *)
(* requests, and whatever fails or exits, topologies are kept apart.       *)
(***************************************************************************)
EXTENDS SlotPool, FiniteSetTheorems, TLAPS

-----------------------------------------------------------------------------
(***************************************************************************)
(* The invariant                                                           *)
(***************************************************************************)

Names  == (Shells \X (Nat \ {0})) \cup {Explicit}
Dels   == {"del link", "del a", "del b"}
Builds == {"add a", "add b", "add link", "move a", "move b", "addr"}

Veth == [name: Names, root: BOOLEAN, in: SUBSET {"a", "b"}, addr: NetSlots \cup {NoSlot}]

PcSet == {"idle", "scan", "try", "check", "write", "route", "clean", "build", "undo",
          "up", "release", "giveback"}

Tenant == [pc: PcSet, kind: {"host", "isolated", "kfunc"}, name: Names,
           slot: Slots \cup {NoSlot}, cands: Seq(Slots), todo: Seq(Dels \cup Builds),
           made: SUBSET Builds, failed: BOOLEAN]

\* The commands of a build that are left: the addresses come last, the link
\* is made once, and its end moves to a namespace after that.
BuildList(q) ==
    /\ q # <<>> /\ q \in Seq(Builds)
    /\ \A i \in 1..Len(q) : q[i] = "addr" <=> i = Len(q)
    /\ \A i, j \in 1..Len(q) : q[i] = "add link" /\ q[j] = "add link" => i = j
    /\ \A i \in 1..Len(q) : q[i] = "add link" => \E j \in 1..Len(q) : i < j /\ q[j] = "move a"

CommandInv(me) ==
    /\ me.pc \in {"clean", "undo", "release"} => me.todo # <<>> /\ me.todo \in Seq(Dels)
    /\ me.pc = "build" => BuildList(me.todo)

Queued(me, c) == c \in Range(me.todo)

\* Candidates and leases are of the right pool.
SlotInv(me) ==
    LET pool == IF me.kind = "kfunc" THEN KfuncSlots ELSE NetSlots IN
    /\ me.cands \in Seq(pool)
    /\ me.slot \in pool \cup {NoSlot}
    /\ me.pc \in {"idle", "scan", "try"} => me.slot = NoSlot
    /\ me.pc \in {"check", "write"} => me.slot # NoSlot
    /\ me.kind = "kfunc" => me.pc \in {"idle", "scan", "try", "check", "write", "up", "giveback"}
    /\ me.kind = "kfunc" /\ me.pc \in {"up", "giveback"} => me.slot # NoSlot
    /\ me.kind # "host" => me.pc # "route"
    /\ me.kind = "isolated" => me.name # Explicit

Live(t) == tenant[t].pc # "idle"

\* Generated names are of one request each, counted by its shell.
NameInv ==
    /\ \A t \in Tenants : Live(t) /\ tenant[t].name # Explicit =>
          tenant[t].name[1] = ShellOf[t] /\ tenant[t].name[2] <= asked[ShellOf[t]]
    /\ \A v \in veths : v.name # Explicit => v.name[2] <= asked[v.name[1]]
    /\ \A t, u \in Tenants :
          Live(t) /\ Live(u) /\ tenant[t].name = tenant[u].name /\ tenant[t].name # Explicit => t = u

HeldPCs == {"route", "clean", "build", "undo", "up", "release", "giveback"}

\* A lease is of one tenant, and once it is written down the file says whose.
LeaseInv ==
    /\ \A s \in Slots : flock[s] # NoTenant => tenant[flock[s]].slot = s
    /\ \A t \in Tenants : tenant[t].slot # NoSlot => flock[tenant[t].slot] = t
    /\ \A t \in Tenants : tenant[t].pc \in HeldPCs /\ tenant[t].slot # NoSlot =>
          lockFile[tenant[t].slot] = provenance(t, "acquired")

\* Names are of one pair each; a pair has an end in the root namespace or
\* in namespace a, and its namespaces exist.
VethInv ==
    /\ \A v, w \in veths : v.name = w.name => v = w
    /\ \A v \in veths : \A i \in v.in : Net(v.name, i) \in nets
    /\ \A v \in veths : v.root \/ "a" \in v.in
    /\ \A v \in veths : v.name = Explicit => v.root

\* Before the link is made.
Early(me) == \/ me.pc \in {"scan", "try", "check", "write", "route", "clean"}
             \/ me.pc = "build" /\ Queued(me, "add link")

\* Where handle me is with the pairs V that have its name.
TopologyOK(me, V) ==
    /\ me.name # Explicit /\ Early(me) => V = {}
    /\ \A v \in V :
          /\ me.name # Explicit /\ me.pc \in {"build", "undo"} => v.addr = NoSlot
          /\ me.pc # "idle" /\ me.kind = "host" => v.root
          /\ me.kind = "isolated" /\ me.pc \in {"build", "up", "release"} =>
                "a" \in v.in \/ (me.pc = "build" /\ Queued(me, "move a"))
    /\ me.pc = "up" /\ me.kind # "kfunc" /\ me.name # Explicit => \E v \in V : v.addr = me.slot

TopologyInv == \A t \in Tenants : TopologyOK(tenant[t], VethOf(tenant[t].name))

\* The tenant that has the slot of v is the one whose topology v is of, and
\* it has not yet removed it; or it still looks at the file.
HolderKnows(v, me) ==
    /\ me.pc \in {"check", "up", "release", "giveback"}
    /\ me.pc # "check" => me.name = v.name
    /\ me.pc = "giveback" => me.failed
    /\ me.pc = "release" => \/ me.failed
                            \/ v.root /\ Queued(me, "del link")
                            \/ "a" \in v.in /\ Queued(me, "del a")

\* A pair that carries the addresses of a slot is announced by its lock file.
Filed(v, f) == f.state = "acquired" /\ f.name = v.name /\ (v.root \/ "a" \in f.sides)

Announced(v) ==
    /\ Filed(v, lockFile[v.addr])
    /\ flock[v.addr] # NoTenant => HolderKnows(v, tenant[flock[v.addr]])

AddressInv == \A v \in veths : v.addr # NoSlot => v.addr \in spoiled \/ Announced(v)

LocalInv(me) == me \in Tenant /\ CommandInv(me) /\ SlotInv(me)

PoolType ==
    /\ tenant \in [Tenants -> Tenant]
    /\ asked \in [Shells -> Nat]
    /\ flock \in [Slots -> Tenants \cup {NoTenant}]
    /\ DOMAIN lockFile = Slots
    /\ veths \subseteq Veth

LocalsInv == \A t \in Tenants : LocalInv(tenant[t])

PoolInv ==
    /\ PoolType /\ LocalsInv /\ NameInv /\ LeaseInv /\ VethInv /\ TopologyInv /\ AddressInv
-----------------------------------------------------------------------------
(***************************************************************************)
(* Lists of commands                                                       *)
(***************************************************************************)
LEMMA RangeTail ==
  ASSUME NEW S, NEW q \in Seq(S), q # <<>>
  PROVE  Head(q) \in S /\ Tail(q) \in Seq(S) /\ Range(q) = {Head(q)} \cup Range(Tail(q))
  <1>1. /\ Head(q) \in S /\ Tail(q) \in Seq(S) /\ Len(Tail(q)) = Len(q) - 1 /\ Len(q) \in Nat \ {0}
        /\ Head(q) = q[1] /\ DOMAIN q = 1..Len(q) /\ DOMAIN Tail(q) = 1..(Len(q) - 1)
    OBVIOUS
  <1>2. \A i \in 1..(Len(q) - 1) : Tail(q)[i] = q[i + 1]
    BY <1>1
  <1>3. ASSUME NEW x \in Range(q) PROVE x \in {Head(q)} \cup Range(Tail(q))
    <2>1. PICK i \in 1..Len(q) : x = q[i]
      BY <1>1, <1>3 DEF Range
    <2>2. CASE i = 1
      BY <1>1, <2>1, <2>2
    <2>3. CASE i # 1
      <3>1. i - 1 \in 1..(Len(q) - 1) /\ (i - 1) + 1 = i
        BY <1>1, <2>1, <2>3
      <3>2. Tail(q)[i - 1] = x
        BY <1>2, <2>1, <3>1
      <3> QED BY <1>1, <3>1, <3>2 DEF Range
    <2> QED BY <2>2, <2>3
  <1>4. ASSUME NEW x \in Range(Tail(q)) PROVE x \in Range(q)
    <2>1. PICK i \in 1..(Len(q) - 1) : x = Tail(q)[i]
      BY <1>1, <1>4 DEF Range
    <2>2. i + 1 \in 1..Len(q) /\ x = q[i + 1]
      BY <1>1, <1>2, <2>1
    <2> QED BY <1>1, <2>2 DEF Range
  <1>5. Head(q) \in Range(q)
    <2>1. 1 \in 1..Len(q)
      BY <1>1
    <2> QED BY <1>1, <2>1 DEF Range
  <1> QED BY <1>1, <1>3, <1>4, <1>5

LEMMA RangeEmpty == Range(<<>>) = {}
  BY DEF Range

\* The lists of removals; a teardown begins with what takes the pair away.
LEMMA RemovalLists ==
    ASSUME NEW kind
    PROVE  /\ preClean(kind) \in Seq(Dels) /\ preClean(kind) # <<>>
           /\ tearDown(kind) \in Seq(Dels) /\ tearDown(kind) # <<>>
           /\ IF kind = "isolated" THEN "del a" \in Range(tearDown(kind))
                                   ELSE "del link" \in Range(tearDown(kind))
  <1>1. <<"del link", "del a", "del b">> \in Seq(Dels) /\ <<"del link", "del a", "del b">> # <<>>
    BY DEF Dels
  <1>2. <<"del link", "del a">> \in Seq(Dels) /\ <<"del link", "del a">> # <<>>
    BY DEF Dels
  <1>3. <<"del a", "del b">> \in Seq(Dels) /\ <<"del a", "del b">> # <<>>
    BY DEF Dels
  <1>4. \A q : Len(q) = 2 /\ q \in Seq(Dels) => q[1] \in Range(q)
    BY DEF Range
  <1>5. "del a" \in Range(<<"del a", "del b">>)
    <2>1. Len(<<"del a", "del b">>) = 2 /\ <<"del a", "del b">>[1] = "del a"
      OBVIOUS
    <2> QED BY <1>3, <1>4, <2>1
  <1>6. "del link" \in Range(<<"del link", "del a">>)
    <2>1. Len(<<"del link", "del a">>) = 2 /\ <<"del link", "del a">>[1] = "del link"
      OBVIOUS
    <2> QED BY <1>2, <1>4, <2>1
  <1>7. CASE kind = "isolated"
    <2>1. preClean(kind) = <<"del link", "del a", "del b">> /\ tearDown(kind) = <<"del a", "del b">>
      BY <1>7 DEF preClean, tearDown
    <2> QED BY <1>1, <1>3, <1>5, <1>7, <2>1
  <1>8. CASE kind # "isolated"
    <2>1. preClean(kind) = <<"del link", "del a">> /\ tearDown(kind) = <<"del link", "del a">>
      BY <1>8 DEF preClean, tearDown
    <2> QED BY <1>2, <1>6, <1>8, <2>1
  <1> QED BY <1>7, <1>8

LEMMA UndoList ==
    ASSUME NEW made
    PROVE  rollback(made) \in Seq(Dels)
  <1>1. <<>> \in Seq(Dels) /\ <<"del link">> \in Seq(Dels) /\ <<"del a">> \in Seq(Dels) /\ <<"del b">> \in Seq(Dels)
    BY DEF Dels
  <1>2. PICK x : x = IF "add link" \in made THEN <<"del link">> ELSE <<>>
    OBVIOUS
  <1>3. PICK y : y = IF "add a" \in made THEN <<"del a">> ELSE <<>>
    OBVIOUS
  <1>4. PICK z : z = IF "add b" \in made THEN <<"del b">> ELSE <<>>
    OBVIOUS
  <1>5. x \in Seq(Dels) /\ y \in Seq(Dels) /\ z \in Seq(Dels)
    BY <1>1, <1>2, <1>3, <1>4
  <1>6. rollback(made) = (x \o y) \o z
    BY <1>2, <1>3, <1>4 DEF rollback
  <1>7. x \o y \in Seq(Dels)
    BY <1>5
  <1>8. (x \o y) \o z \in Seq(Dels)
    BY <1>5, <1>7
  <1> QED BY <1>6, <1>8

LEMMA Upto6 == \A i \in 1..6 : i = 1 \/ i = 2 \/ i = 3 \/ i = 4 \/ i = 5 \/ i = 6
  OBVIOUS

LEMMA Upto4 == \A i \in 1..4 : i = 1 \/ i = 2 \/ i = 3 \/ i = 4
  OBVIOUS

LEMMA BuildLists == ASSUME NEW kind PROVE BuildList(buildSteps(kind))
  <1>1. ASSUME NEW q, q = <<"add a", "add b", "add link", "move a", "move b", "addr">>
        PROVE  BuildList(q)
    <2>1. /\ Len(q) = 6 /\ q # <<>> /\ q[1] = "add a" /\ q[2] = "add b" /\ q[3] = "add link"
          /\ q[4] = "move a" /\ q[5] = "move b" /\ q[6] = "addr"
      BY <1>1
    <2>2. <<"add a", "add b", "add link", "move a", "move b", "addr">> \in Seq(Builds)
      BY DEF Builds
    <2>4. \A i \in 1..6 : q[i] = "addr" <=> i = 6
      BY <2>1, Upto6
    <2>5. \A i \in 1..6 : q[i] = "add link" => i = 3
      BY <2>1, Upto6
    <2>6. 4 \in 1..6 /\ 3 < 4
      OBVIOUS
    <2>7. q \in Seq(Builds)
      BY <1>1, <2>2
    <2> QED BY <2>1, <2>4, <2>5, <2>6, <2>7 DEF BuildList
  <1>2. ASSUME NEW q, q = <<"add a", "add link", "move a", "addr">>
        PROVE  BuildList(q)
    <2>1. /\ Len(q) = 4 /\ q # <<>> /\ q[1] = "add a" /\ q[2] = "add link"
          /\ q[3] = "move a" /\ q[4] = "addr"
      BY <1>2
    <2>2. <<"add a", "add link", "move a", "addr">> \in Seq(Builds)
      BY DEF Builds
    <2>4. \A i \in 1..4 : q[i] = "addr" <=> i = 4
      BY <2>1, Upto4
    <2>5. \A i \in 1..4 : q[i] = "add link" => i = 2
      BY <2>1, Upto4
    <2>6. 3 \in 1..4 /\ 2 < 3
      OBVIOUS
    <2>7. q \in Seq(Builds)
      BY <1>2, <2>2
    <2> QED BY <2>1, <2>4, <2>5, <2>6, <2>7 DEF BuildList
  <1> QED BY <1>1, <1>2 DEF buildSteps

LEMMA SuccInjective == \A i, j \in Nat : i + 1 = j + 1 => i = j
  OBVIOUS

LEMMA Before ==
    \A n \in Nat : \A i \in Nat, j \in 1..n :
        /\ i + 1 < j => j - 1 \in 1..(n - 1) /\ (j - 1) + 1 = j /\ i < j - 1
        /\ 1 < j => j - 1 \in 1..(n - 1) /\ (j - 1) + 1 = j
  OBVIOUS

\* What is left of a list after its head.
LEMMA BuildTail ==
    ASSUME NEW q \in Seq(Builds), BuildList(q), Tail(q) # <<>>
    PROVE  /\ BuildList(Tail(q)) /\ Head(q) # "addr"
           /\ Head(q) = "add link" => "add link" \notin Range(Tail(q)) /\ "move a" \in Range(Tail(q))
  <1>1. q # <<>>
    BY DEF BuildList
  <1>a. \A i \in 1..Len(q) : q[i] = "addr" <=> i = Len(q)
    BY DEF BuildList
  <1>b. \A i, j \in 1..Len(q) : q[i] = "add link" /\ q[j] = "add link" => i = j
    BY DEF BuildList
  <1>c. \A i \in 1..Len(q) : q[i] = "add link" => \E j \in 1..Len(q) : i < j /\ q[j] = "move a"
    BY DEF BuildList
  <1>2. Head(q) = q[1] /\ Tail(q) \in Seq(Builds) /\ Len(Tail(q)) = Len(q) - 1
    BY <1>1
  <1>d. DOMAIN Tail(q) = 1..(Len(q) - 1)
    BY <1>1
  <1>3. Len(q) >= 2
    BY <1>1
  <1>x. \A i \in 1..(Len(q) - 1) : Tail(q)[i] = q[i + 1]
    BY <1>1
  <1>y. 1 \in 1..Len(q) /\ \A i \in 1..(Len(q) - 1) : i + 1 \in 1..Len(q)
    BY <1>3
  <1>4. Head(q) # "addr"
    <2>1. Head(q) = q[1]
      BY <1>1
    <2>2. q[1] # "addr"
      BY <1>3, <1>a
    <2> QED BY <2>1, <2>2
  <1>5. \A i \in 1..(Len(q) - 1) : Tail(q)[i] = "addr" <=> i = Len(q) - 1
    BY <1>x, <1>y, <1>a
  <1>6. \A i, j \in 1..(Len(q) - 1) : Tail(q)[i] = "add link" /\ Tail(q)[j] = "add link" => i = j
    <2> TAKE i, j \in 1..(Len(q) - 1)
    <2>0. i \in Nat /\ j \in Nat
      OBVIOUS
    <2> HAVE Tail(q)[i] = "add link" /\ Tail(q)[j] = "add link"
    <2>1. i + 1 \in 1..Len(q) /\ j + 1 \in 1..Len(q)
      BY <1>y
    <2>2. q[i + 1] = "add link" /\ q[j + 1] = "add link"
      BY <1>x
    <2>3. i + 1 = j + 1
      BY <1>b, <2>1, <2>2
    <2> QED BY <2>0, <2>3, SuccInjective
  <1>7. ASSUME NEW i \in 1..(Len(q) - 1), Tail(q)[i] = "add link"
        PROVE  \E j \in 1..(Len(q) - 1) : i < j /\ Tail(q)[j] = "move a"
    <2>1. q[i + 1] = "add link" /\ i + 1 \in 1..Len(q)
      BY <1>7, <1>x, <1>y
    <2>2. PICK j \in 1..Len(q) : i + 1 < j /\ q[j] = "move a"
      BY <2>1, <1>c
    <2>3. j - 1 \in 1..(Len(q) - 1) /\ i < j - 1 /\ (j - 1) + 1 = j
      <3>1. Len(q) \in Nat /\ i \in Nat
        OBVIOUS
      <3> QED BY <2>2, <3>1, Before
    <2> QED BY <1>x, <2>2, <2>3
  <1>8. BuildList(Tail(q))
    BY <1>2, <1>5, <1>6, <1>7 DEF BuildList
  <1>9. ASSUME Head(q) = "add link"
        PROVE  "add link" \notin Range(Tail(q)) /\ "move a" \in Range(Tail(q))
    <2>1. q[1] = "add link"
      BY <1>2, <1>9
    <2>2. \A i \in 1..Len(q) : q[i] = "add link" => i = 1
      <3>1. 1 \in 1..Len(q)
        BY <1>y
      <3> QED BY <1>b, <2>1, <3>1
    <2>3. \A i \in 1..(Len(q) - 1) : Tail(q)[i] # "add link"
      <3> TAKE i \in 1..(Len(q) - 1)
      <3>1. i + 1 \in 1..Len(q) /\ i + 1 # 1
        BY <1>y
      <3> QED BY <1>x, <2>2, <3>1
    <2>4. PICK j \in 1..Len(q) : 1 < j /\ q[j] = "move a"
      BY <2>1, <1>y, <1>c
    <2>5. j - 1 \in 1..(Len(q) - 1) /\ (j - 1) + 1 = j
      <3>1. Len(q) \in Nat
        OBVIOUS
      <3> QED BY <2>4, <3>1, Before
    <2>6. Tail(q)[j - 1] = "move a"
      BY <1>x, <2>4, <2>5
    <2> QED BY <1>d, <2>3, <2>5, <2>6 DEF Range
  <1> QED BY <1>4, <1>8, <1>9

LEMMA BuildHead ==
    ASSUME NEW q \in Seq(Builds), BuildList(q), Tail(q) = <<>>
    PROVE  Head(q) = "addr" /\ Range(q) = {"addr"}
  <1>1. q # <<>>
    BY DEF BuildList
  <1>a. \A i \in 1..Len(q) : q[i] = "addr" <=> i = Len(q)
    BY DEF BuildList
  <1>2. Head(q) = q[1] /\ Len(Tail(q)) = Len(q) - 1 /\ Len(q) \in Nat
    BY <1>1
  <1>3. Len(Tail(q)) = 0
    <2>1. Len(<<>>) = 0
      OBVIOUS
    <2> QED BY <2>1, Zenon
  <1>4. Len(q) = 1
    BY <1>2, <1>3
  <1>5. q[1] = "addr"
    BY <1>4, <1>a
  <1>6. Head(q) = "addr"
    BY <1>2, <1>5
  <1>7. Range(q) = {Head(q)} \cup Range(Tail(q))
    BY <1>1, RangeTail
  <1> QED BY <1>6, <1>7, RangeEmpty

-----------------------------------------------------------------------------
(***************************************************************************)
(* One handle by itself                                                    *)
(***************************************************************************)

LEMMA SlotFacts ==
    /\ NoSlot \notin Slots /\ NoSlot \notin NetSlots
    /\ \A s \in NetSlots : s \notin KfuncSlots
    /\ NetSlots \subseteq Slots /\ KfuncSlots \subseteq Slots
    /\ Seq(NetSlots) \subseteq Seq(Slots) /\ Seq(KfuncSlots) \subseteq Seq(Slots)
    /\ \A S : S = NetSlots \/ S = KfuncSlots => Cardinality(S) \in Nat
  <1>1. IsFiniteSet(NetSlots) /\ IsFiniteSet(KfuncSlots)
    BY SlotsAssumption, FS_Subset
  <1>2. Cardinality(NetSlots) \in Nat /\ Cardinality(KfuncSlots) \in Nat
    BY <1>1, FS_CardinalityType
  <1>3. NetSlots \subseteq Slots /\ KfuncSlots \subseteq Slots
    BY DEF Slots
  <1>4. Seq(NetSlots) \subseteq Seq(Slots) /\ Seq(KfuncSlots) \subseteq Seq(Slots)
    BY <1>3
  <1> QED BY <1>2, <1>3, <1>4, SlotsAssumption DEF NoSlot, Slots

\* A scan gives slots of the pool it scans.
LEMMA ScanType ==
    ASSUME NEW S, S = NetSlots \/ S = KfuncSlots, NEW q \in scanOrder(S)
    PROVE  q \in Seq(S)
  <1>1. Cardinality(S) \in Nat
    BY SlotFacts
  <1>2. q \in [1..Cardinality(S) -> S]
    BY DEF scanOrder
  <1> QED BY <1>1, <1>2

LEMMA VacantLocal == LocalInv(Vacant)
  <1>1. Explicit \in Names /\ <<>> \in Seq(Slots) /\ <<>> \in Seq(Dels \cup Builds) /\ <<>> \in Seq(NetSlots)
    BY DEF Names
  <1>2. Vacant \in Tenant
    BY <1>1 DEF Vacant, Tenant, PcSet
  <1>3. CommandInv(Vacant)
    BY DEF Vacant, CommandInv
  <1>4. SlotInv(Vacant)
    BY <1>1 DEF Vacant, SlotInv
  <1> QED BY <1>2, <1>3, <1>4 DEF LocalInv

\* Names are of a request, or the one scripts pass.
LEMMA Generated ==
    ASSUME asked \in [Shells -> Nat], NEW t \in Tenants
    PROVE  /\ uniqueLinkBase(t) \in Names /\ uniqueLinkBase(t) # Explicit
           /\ uniqueLinkBase(t)[1] = ShellOf[t] /\ uniqueLinkBase(t)[2] = asked[ShellOf[t]] + 1
           /\ ShellOf[t] \in Shells /\ asked[ShellOf[t]] \in Nat
           /\ Explicit \in Names
  <1>1. ShellOf[t] \in Shells /\ asked[ShellOf[t]] \in Nat
    BY DEF Shells
  <1>2. asked[ShellOf[t]] + 1 \in Nat \ {0}
    BY <1>1
  <1>3. uniqueLinkBase(t) = <<ShellOf[t], asked[ShellOf[t]] + 1>>
    BY DEF uniqueLinkBase
  <1> QED BY <1>1, <1>2, <1>3 DEF Names, Explicit

LEMMA AskLocal ==
    ASSUME NEW l \in {"scan", "route"}, NEW kind \in {"host", "isolated", "kfunc"}, NEW n \in Names,
           l = "route" => kind = "host", kind = "isolated" => n # Explicit
    PROVE  LocalInv([Vacant EXCEPT !.pc = l, !.kind = kind, !.name = n])
  <1>1. PICK r : r = [Vacant EXCEPT !.pc = l, !.kind = kind, !.name = n]
    OBVIOUS
  <1>2. <<>> \in Seq(Slots) /\ <<>> \in Seq(Dels \cup Builds) /\ <<>> \in Seq(NetSlots) /\ <<>> \in Seq(KfuncSlots)
    OBVIOUS
  <1>3. /\ r.pc = l /\ r.kind = kind /\ r.name = n /\ r.slot = NoSlot /\ r.cands = <<>> /\ r.todo = <<>>
        /\ r \in Tenant
    BY <1>1, <1>2 DEF Vacant, Tenant, PcSet
  <1>4. CommandInv(r)
    BY <1>3 DEF CommandInv
  <1>5. SlotInv(r)
    BY <1>2, <1>3 DEF SlotInv
  <1> QED BY <1>1, <1>3, <1>4, <1>5 DEF LocalInv

\* What the fields of a well-formed handle are.
LEMMA Fields ==
    ASSUME NEW me, LocalInv(me)
    PROVE  /\ me \in Tenant
           /\ me.pc \in PcSet /\ me.kind \in {"host", "isolated", "kfunc"} /\ me.name \in Names
           /\ me.slot \in Slots \cup {NoSlot} /\ me.cands \in Seq(Slots)
           /\ me.todo \in Seq(Dels \cup Builds) /\ me.made \in SUBSET Builds /\ me.failed \in BOOLEAN
  BY DEF LocalInv, Tenant

\* A step that only moves on.
LEMMA MoveLocal ==
    ASSUME NEW me, LocalInv(me), NEW l \in {"scan", "write", "route", "up", "giveback"},
           l = "scan" => me.pc = "try",
           l = "write" => me.pc = "check",
           l = "route" => me.pc = "write" /\ me.kind = "host",
           l = "up" => me.pc = "build" \/ (me.pc = "write" /\ me.kind = "kfunc"),
           l = "giveback" => me.pc \in {"route", "up"}
    PROVE  LocalInv([me EXCEPT !.pc = l])
  <1>1. PICK r : r = [me EXCEPT !.pc = l]
    OBVIOUS
  <1>2. /\ r \in Tenant /\ r.pc = l /\ r.kind = me.kind /\ r.name = me.name /\ r.slot = me.slot
        /\ r.cands = me.cands
    BY <1>1 DEF LocalInv, Tenant, PcSet
  <1>3. CommandInv(r)
    BY <1>2 DEF CommandInv
  <1>4. SlotInv(r)
    BY <1>2 DEF LocalInv, SlotInv
  <1> QED BY <1>1, <1>2, <1>3, <1>4 DEF LocalInv

LEMMA ScanLocal ==
    ASSUME NEW me, LocalInv(me), me.pc \in {"scan", "try"},
           NEW q, q \in Seq(IF me.kind = "kfunc" THEN KfuncSlots ELSE NetSlots)
    PROVE  LocalInv([me EXCEPT !.pc = "try", !.cands = q])
  <1>1. PICK r : r = [me EXCEPT !.pc = "try", !.cands = q]
    OBVIOUS
  <1>2. q \in Seq(Slots)
    BY SlotFacts
  <1>3. /\ r \in Tenant /\ r.pc = "try" /\ r.kind = me.kind /\ r.name = me.name /\ r.slot = me.slot
        /\ r.cands = q
    BY <1>1, <1>2 DEF LocalInv, Tenant, PcSet
  <1>4. CommandInv(r)
    BY <1>3 DEF CommandInv
  <1>5. SlotInv(r)
    BY <1>3 DEF LocalInv, SlotInv
  <1> QED BY <1>1, <1>3, <1>4, <1>5 DEF LocalInv

\* The candidates are of the pool, and so is the slot that was got.
LEMMA TryLocal ==
    ASSUME NEW me, LocalInv(me), me.pc = "try", me.cands # <<>>
    PROVE  /\ Head(me.cands) \in Slots
           /\ LocalInv([me EXCEPT !.cands = Tail(@)])
           /\ LocalInv([me EXCEPT !.pc = "check", !.slot = Head(me.cands), !.cands = <<>>])
  <1>1. PICK S : S = IF me.kind = "kfunc" THEN KfuncSlots ELSE NetSlots
    OBVIOUS
  <1>2. me.cands \in Seq(S) /\ S \subseteq Slots
    BY <1>1, SlotFacts DEF LocalInv, SlotInv
  <1>3. Head(me.cands) \in S /\ Tail(me.cands) \in Seq(S)
    BY <1>2, RangeTail
  <1>4. PICK q : q = [me EXCEPT !.cands = Tail(@)]
    OBVIOUS
  <1>5. PICK r : r = [me EXCEPT !.pc = "check", !.slot = Head(me.cands), !.cands = <<>>]
    OBVIOUS
  <1>6. Tail(me.cands) \in Seq(Slots) /\ Head(me.cands) \in Slots /\ <<>> \in Seq(Slots) /\ <<>> \in Seq(S)
    BY <1>1, <1>2, <1>3, SlotFacts
  <1>7. /\ q \in Tenant /\ q.pc = "try" /\ q.kind = me.kind /\ q.name = me.name /\ q.slot = me.slot
        /\ q.cands = Tail(me.cands)
    BY <1>4, <1>6 DEF LocalInv, Tenant
  <1>8. /\ r \in Tenant /\ r.pc = "check" /\ r.kind = me.kind /\ r.name = me.name
        /\ r.slot = Head(me.cands) /\ r.cands = <<>>
    BY <1>5, <1>6 DEF LocalInv, Tenant, PcSet
  <1>9. CommandInv(q) /\ CommandInv(r)
    BY <1>7, <1>8 DEF CommandInv
  <1>10. SlotInv(q)
    BY <1>1, <1>3, <1>7 DEF LocalInv, SlotInv
  <1>11. SlotInv(r)
    BY <1>1, <1>3, <1>6, <1>8, SlotFacts DEF LocalInv, SlotInv
  <1> QED BY <1>4, <1>5, <1>6, <1>7, <1>8, <1>9, <1>10, <1>11 DEF LocalInv

\* Only names, kind and slot matter to the others.
SameHandle(r, me) == r.name = me.name /\ r.kind = me.kind /\ r.slot = me.slot

\* A list of removals begins.
LEMMA CommandsLocal ==
    ASSUME NEW me, LocalInv(me), NEW cs \in Seq(Dels), NEW l \in {"clean", "undo", "release"}, me.kind # "kfunc"
    PROVE  /\ LocalInv(Commands(me, l, cs)) /\ SameHandle(Commands(me, l, cs), me)
           /\ Commands(me, l, cs).failed = me.failed
           /\ cs # <<>> => Commands(me, l, cs).pc = l /\ Commands(me, l, cs).todo = cs
           /\ cs = <<>> => Commands(me, l, cs).pc = "giveback"
  <1>1. PICK m : m = IF cs = <<>> THEN "giveback" ELSE l
    OBVIOUS
  <1>2. PICK r : r = [me EXCEPT !.pc = m, !.todo = cs]
    OBVIOUS
  <1>3. r = Commands(me, l, cs)
    BY <1>1, <1>2 DEF Commands
  <1>4. cs \in Seq(Dels \cup Builds)
    OBVIOUS
  <1>5. m \in PcSet /\ m # "build" /\ (cs = <<>> => m = "giveback")
    BY <1>1 DEF PcSet
  <1>6. /\ r \in Tenant /\ r.pc = m /\ r.todo = cs /\ r.cands = me.cands /\ r.failed = me.failed
        /\ SameHandle(r, me)
    BY <1>2, <1>4, <1>5 DEF LocalInv, Tenant, SameHandle
  <1>7. CommandInv(r)
    BY <1>5, <1>6 DEF CommandInv
  <1>8. SlotInv(r)
    <2>1. m \notin {"idle", "scan", "try", "check", "write", "route"}
      BY <1>1
    <2> QED BY <2>1, <1>6 DEF LocalInv, SlotInv, SameHandle
  <1> QED BY <1>1, <1>3, <1>6, <1>7, <1>8 DEF LocalInv

\* A removal is done with.
LEMMA RemovalStepped ==
    ASSUME NEW me, LocalInv(me), me.pc \in {"clean", "undo", "release"}
    PROVE  /\ LocalInv(Stepped(me)) /\ SameHandle(Stepped(me), me) /\ Stepped(me).failed = me.failed
           /\ Head(me.todo) \in Dels /\ me.todo \in Seq(Dels) /\ me.todo # <<>>
           /\ Tail(me.todo) # <<>> => Stepped(me).pc = me.pc /\ Stepped(me).todo = Tail(me.todo)
           /\ Tail(me.todo) = <<>> => Stepped(me).pc = IF me.pc = "clean" THEN "build" ELSE "giveback"
  <1>0. me.todo \in Seq(Dels) /\ me.todo # <<>> /\ me.kind # "kfunc"
    BY DEF LocalInv, CommandInv, SlotInv
  <1>1. Head(me.todo) \in Dels /\ Tail(me.todo) \in Seq(Dels)
    BY <1>0, RangeTail
  <1>2. PICK q : q = [me EXCEPT !.todo = Tail(@)]
    OBVIOUS
  <1>3. Tail(me.todo) \in Seq(Dels \cup Builds)
    BY <1>1
  <1>4. q \in Tenant /\ q.pc = me.pc /\ q.todo = Tail(me.todo) /\ q.cands = me.cands /\ q.failed = me.failed
        /\ SameHandle(q, me)
    BY <1>2, <1>3 DEF LocalInv, Tenant, SameHandle
  <1>5. CASE Tail(me.todo) # <<>>
    <2>1. Stepped(me) = q
      BY <1>2, <1>4, <1>5 DEF Stepped
    <2>2. CommandInv(q)
      BY <1>1, <1>4, <1>5 DEF CommandInv
    <2>3. SlotInv(q)
      BY <1>4 DEF LocalInv, SlotInv, SameHandle
    <2> QED BY <1>0, <1>1, <1>4, <1>5, <2>1, <2>2, <2>3 DEF LocalInv
  <1>6. CASE Tail(me.todo) = <<>> /\ me.pc = "clean"
    <2>1. PICK bs : bs = buildSteps(me.kind)
      OBVIOUS
    <2>2. BuildList(bs)
      BY <2>1, BuildLists
    <2>3. bs # <<>> /\ bs \in Seq(Builds)
      BY <2>2 DEF BuildList
    <2>4. bs \in Seq(Dels \cup Builds)
      BY <2>3
    <2>5. Stepped(me) = Commands(q, "build", bs)
      BY <1>2, <1>4, <1>6, <2>1 DEF Stepped
    <2>6. PICK r : r = [q EXCEPT !.pc = "build", !.todo = bs]
      OBVIOUS
    <2>7. Stepped(me) = r
      BY <2>3, <2>5, <2>6 DEF Commands
    <2>8. r \in Tenant /\ r.pc = "build" /\ r.todo = bs /\ r.cands = q.cands /\ r.failed = q.failed
          /\ SameHandle(r, q)
      BY <1>4, <2>4, <2>6 DEF Tenant, SameHandle, PcSet
    <2>9. CommandInv(r)
      BY <2>2, <2>8 DEF CommandInv
    <2>10. SlotInv(r)
      BY <1>0, <1>4, <2>8 DEF LocalInv, SlotInv, SameHandle
    <2> QED BY <1>0, <1>1, <1>4, <1>6, <2>7, <2>8, <2>9, <2>10 DEF LocalInv, SameHandle
  <1>7. CASE Tail(me.todo) = <<>> /\ me.pc # "clean"
    <2>1. PICK r : r = [q EXCEPT !.pc = "giveback"]
      OBVIOUS
    <2>2. Stepped(me) = r
      BY <1>2, <1>4, <1>7, <2>1 DEF Stepped
    <2>3. r \in Tenant /\ r.pc = "giveback" /\ r.cands = q.cands /\ r.failed = q.failed /\ SameHandle(r, q)
      BY <1>4, <2>1 DEF Tenant, SameHandle, PcSet
    <2>4. CommandInv(r)
      BY <2>3 DEF CommandInv
    <2>5. SlotInv(r)
      BY <1>0, <1>4, <2>3 DEF LocalInv, SlotInv, SameHandle
    <2> QED BY <1>0, <1>1, <1>4, <1>7, <2>2, <2>3, <2>4, <2>5 DEF LocalInv, SameHandle
  <1> QED BY <1>5, <1>6, <1>7

\* A command of the build is done with.
LEMMA BuildStepped ==
    ASSUME NEW me, LocalInv(me), me.pc = "build"
    PROVE  /\ LocalInv(Stepped(me)) /\ SameHandle(Stepped(me), me)
           /\ me.todo \in Seq(Builds) /\ BuildList(me.todo) /\ me.todo # <<>>
           /\ Tail(me.todo) # <<>> => Stepped(me).pc = "build" /\ Stepped(me).todo = Tail(me.todo)
           /\ Tail(me.todo) = <<>> => Stepped(me).pc = "up"
  <1>0. me.todo \in Seq(Builds) /\ me.todo # <<>> /\ BuildList(me.todo) /\ me.kind # "kfunc"
    BY DEF LocalInv, CommandInv, SlotInv, BuildList
  <1>1. Tail(me.todo) \in Seq(Builds)
    BY <1>0, RangeTail
  <1>2. PICK q : q = [me EXCEPT !.todo = Tail(@)]
    OBVIOUS
  <1>3. Tail(me.todo) \in Seq(Dels \cup Builds)
    BY <1>1
  <1>4. q \in Tenant /\ q.pc = me.pc /\ q.todo = Tail(me.todo) /\ q.cands = me.cands /\ SameHandle(q, me)
    BY <1>2, <1>3 DEF LocalInv, Tenant, SameHandle
  <1>5. CASE Tail(me.todo) # <<>>
    <2>1. Stepped(me) = q
      BY <1>2, <1>4, <1>5 DEF Stepped
    <2>2. BuildList(Tail(me.todo))
      BY <1>0, <1>5, BuildTail
    <2>3. CommandInv(q)
      BY <1>4, <2>2 DEF CommandInv
    <2>4. SlotInv(q)
      BY <1>4 DEF LocalInv, SlotInv, SameHandle
    <2> QED BY <1>0, <1>4, <1>5, <2>1, <2>3, <2>4 DEF LocalInv
  <1>6. CASE Tail(me.todo) = <<>>
    <2>1. PICK r : r = [q EXCEPT !.pc = "up"]
      OBVIOUS
    <2>2. Stepped(me) = r
      BY <1>2, <1>4, <1>6, <2>1 DEF Stepped
    <2>3. r \in Tenant /\ r.pc = "up" /\ r.cands = q.cands /\ SameHandle(r, q)
      BY <1>4, <2>1 DEF Tenant, SameHandle, PcSet
    <2>4. CommandInv(r)
      BY <2>3 DEF CommandInv
    <2>5. SlotInv(r)
      BY <1>0, <1>4, <2>3 DEF LocalInv, SlotInv, SameHandle
    <2> QED BY <1>0, <1>4, <1>6, <2>2, <2>3, <2>4, <2>5 DEF LocalInv, SameHandle
  <1> QED BY <1>5, <1>6

-----------------------------------------------------------------------------
(***************************************************************************)
(* Steps that leave the kernel's objects alone                             *)
(***************************************************************************)

LEMMA Becoming ==
    ASSUME PoolType, LocalsInv, NEW t \in Tenants, NEW r, Becomes(t, r), LocalInv(r)
    PROVE  /\ tenant' \in [Tenants -> Tenant] /\ LocalsInv'
           /\ tenant'[t] = r /\ \A u \in Tenants : u # t => tenant'[u] = tenant[u]
           /\ LocalInv(tenant[t])
  <1>1. r \in Tenant
    BY DEF LocalInv
  <1>2. tenant' \in [Tenants -> Tenant] /\ tenant'[t] = r /\ \A u \in Tenants : u # t => tenant'[u] = tenant[u]
    BY <1>1 DEF PoolType, Becomes
  <1> QED BY <1>2 DEF LocalsInv

\* The names in use stay those of the requests in progress.
LEMMA NamesKept ==
    ASSUME PoolType, NameInv, asked' = asked,
           \A u \in Tenants : tenant'[u].pc = "idle" \/ (tenant[u].pc # "idle" /\ tenant'[u].name = tenant[u].name),
           \A v \in veths' : (\E w \in veths : v.name = w.name) \/ (\E u \in Tenants : Live(u) /\ v.name = tenant[u].name)
    PROVE  NameInv'
  <1>1. \A u \in Tenants : Live(u)' => Live(u) /\ tenant'[u].name = tenant[u].name
    BY DEF Live
  <1>2. ASSUME NEW v \in veths', v.name # Explicit PROVE v.name[2] <= asked'[v.name[1]]
    BY <1>2 DEF NameInv
  <1> QED BY <1>1, <1>2 DEF NameInv

\* A request has a name nobody uses.
LEMMA NamesAsked ==
    ASSUME PoolType, NameInv, NEW t \in Tenants, tenant[t].pc = "idle", veths' = veths,
           asked' = [asked EXCEPT ![ShellOf[t]] = @ + 1],
           NEW n, n = Explicit \/ n = uniqueLinkBase(t), tenant'[t].name = n,
           \A u \in Tenants : u # t => tenant'[u] = tenant[u]
    PROVE  NameInv' /\ (n # Explicit => VethOf(n) = {})
  <1>1. asked \in [Shells -> Nat]
    BY DEF PoolType
  <1>2. \A p \in Shells : asked[p] \in Nat /\ asked'[p] \in Nat /\ asked[p] <= asked'[p]
    BY <1>1
  <1>3. asked'[ShellOf[t]] = asked[ShellOf[t]] + 1
    BY <1>1, Generated
  <1>4. \A u \in Tenants : ShellOf[u] \in Shells
    BY DEF Shells
  <1>5. \A m \in Names : m # Explicit => m[1] \in Shells /\ m[2] \in Nat
    BY DEF Names
  <1>6. \A u \in Tenants : tenant[u].name \in Names
    BY DEF PoolType, Tenant
  <1>7. \A v \in veths : v.name \in Names
    BY DEF PoolType, Veth
  <1>8. n # Explicit => n[1] = ShellOf[t] /\ n[2] = asked[ShellOf[t]] + 1
    BY <1>1, Generated
  <1>9. \A u \in Tenants : u # t /\ Live(u) /\ tenant[u].name # Explicit => tenant[u].name # n
    <2> SUFFICES ASSUME NEW u \in Tenants, Live(u), tenant[u].name = n, n # Explicit PROVE FALSE
      OBVIOUS
    <2>1. n[1] = ShellOf[u] /\ n[2] <= asked[ShellOf[u]]
      BY DEF NameInv
    <2>2. ShellOf[u] = ShellOf[t] /\ asked[ShellOf[t]] \in Nat
      BY <1>2, <1>4, <1>8, <2>1
    <2> QED BY <1>8, <2>1, <2>2
  <1>10. \A v \in veths : v.name # Explicit => v.name # n
    <2> SUFFICES ASSUME NEW v \in veths, v.name = n, n # Explicit PROVE FALSE
      OBVIOUS
    <2>1. n[2] <= asked[n[1]]
      BY DEF NameInv
    <2>2. asked[ShellOf[t]] \in Nat
      BY <1>2, <1>4
    <2> QED BY <1>8, <2>1, <2>2
  <1>11. \A u \in Tenants : u # t => (Live(u)' <=> Live(u)) /\ tenant'[u].name = tenant[u].name
    BY DEF Live
  <1>12. ASSUME NEW u \in Tenants, Live(u)', tenant'[u].name # Explicit
         PROVE  tenant'[u].name[1] = ShellOf[u] /\ tenant'[u].name[2] <= asked'[ShellOf[u]]
    <2>1. CASE u = t
      BY <1>2, <1>3, <1>4, <1>8, <1>12, <2>1
    <2>2. CASE u # t
      <3>1. tenant[u].name[1] = ShellOf[u] /\ tenant[u].name[2] <= asked[ShellOf[u]]
        BY <1>11, <1>12, <2>2 DEF NameInv
      <3> QED BY <1>2, <1>4, <1>5, <1>6, <1>11, <1>12, <2>2, <3>1
    <2> QED BY <2>1, <2>2
  <1>13. ASSUME NEW v \in veths', v.name # Explicit PROVE v.name[2] <= asked'[v.name[1]]
    <2>1. v.name[2] <= asked[v.name[1]]
      BY <1>13 DEF NameInv
    <2> QED BY <1>2, <1>5, <1>7, <1>13, <2>1
  <1>14. ASSUME NEW u \in Tenants, NEW w \in Tenants, Live(u)', Live(w)',
                tenant'[u].name = tenant'[w].name, tenant'[u].name # Explicit
         PROVE  u = w
    BY <1>9, <1>11, <1>14 DEF NameInv
  <1>15. NameInv'
    BY <1>12, <1>13, <1>14 DEF NameInv
  <1> QED BY <1>10, <1>15 DEF VethOf

\* No file changes, though one may be created.
FilesKept ==
    DOMAIN lockFile' = Slots /\ \A x \in Slots : lockFile[x].state # "none" => lockFile'[x] = lockFile[x]

LEMMA FilesSame == ASSUME PoolType, lockFile' = lockFile PROVE FilesKept
  BY DEF FilesKept, PoolType

\* The leases stay, and what the files say of them.
LEMMA LeaseKept ==
    ASSUME PoolType, LeaseInv, flock' = flock, FilesKept,
           \A u \in Tenants :
               /\ tenant'[u].slot = tenant[u].slot
               /\ tenant'[u].slot # NoSlot /\ tenant'[u].pc \in HeldPCs =>
                     tenant[u].pc \in HeldPCs /\ SameHandle(tenant'[u], tenant[u])
    PROVE  LeaseInv'
  <1>1. \A s \in Slots : flock[s] # NoTenant => flock[s] \in Tenants
    BY DEF PoolType
  <1>2. ASSUME NEW u \in Tenants, tenant'[u].pc \in HeldPCs, tenant'[u].slot # NoSlot
        PROVE  lockFile'[tenant'[u].slot] = provenance(u, "acquired")'
    <2>1. provenance(u, "acquired")' = provenance(u, "acquired")
      BY <1>2 DEF provenance, SameHandle
    <2>2. tenant[u].slot \in Slots
      BY <1>2 DEF PoolType, Tenant
    <2>3. lockFile[tenant[u].slot] = provenance(u, "acquired")
      BY <1>2 DEF LeaseInv
    <2>4. lockFile[tenant[u].slot].state # "none"
      BY <2>3 DEF provenance, Body
    <2>5. lockFile'[tenant[u].slot] = lockFile[tenant[u].slot]
      BY <2>2, <2>4 DEF FilesKept
    <2> QED BY <1>2, <2>1, <2>3, <2>5
  <1> QED BY <1>1, <1>2 DEF LeaseInv

LEMMA TopologyKept ==
    ASSUME TopologyInv, veths' = veths, NEW t \in Tenants,
           \A u \in Tenants : u # t => tenant'[u] = tenant[u],
           TopologyOK(tenant'[t], VethOf(tenant'[t].name))
    PROVE  TopologyInv'
  <1>1. \A n : VethOf(n)' = VethOf(n)
    BY DEF VethOf
  <1> QED BY <1>1 DEF TopologyInv

\* A pair that carries addresses has those of a slot, and whoever has its
\* lock leases it.
LEMMA Holder ==
    ASSUME PoolType, LeaseInv, NEW v \in veths, v.addr # NoSlot
    PROVE  /\ v.addr \in NetSlots /\ v.addr \in Slots
           /\ flock[v.addr] # NoTenant => flock[v.addr] \in Tenants /\ tenant[flock[v.addr]].slot = v.addr
  <1>1. v.addr \in NetSlots /\ v.addr \in Slots
    BY SlotFacts DEF PoolType, Veth
  <1> QED BY <1>1 DEF PoolType, LeaseInv

\* The pair v carries the addresses of the slot t leases.
Leased(v, t) ==
    /\ v.addr # NoSlot /\ v.addr \notin spoiled /\ v.addr = tenant[t].slot
    /\ Filed(v, lockFile[v.addr]) /\ HolderKnows(v, tenant[t])

LEMMA AddressKept ==
    ASSUME PoolType, LeaseInv, AddressInv, veths' \subseteq veths, flock' = flock, spoiled \subseteq spoiled',
           FilesKept, NEW t \in Tenants,
           \A u \in Tenants : u # t => tenant'[u] = tenant[u],
           \A v \in veths' : v.addr \notin spoiled' /\ Leased(v, t) => HolderKnows(v, tenant'[t])
    PROVE  AddressInv'
  <1> SUFFICES ASSUME NEW v \in veths', v.addr # NoSlot, v.addr \notin spoiled' PROVE Announced(v)'
    BY DEF AddressInv
  <1>0. v \in veths
    OBVIOUS
  <1>1. Announced(v)
    BY <1>0 DEF AddressInv
  <1>2. flock[v.addr] # NoTenant => flock[v.addr] \in Tenants /\ tenant[flock[v.addr]].slot = v.addr
    BY <1>0, Holder
  <1>3. Filed(v, lockFile'[v.addr])
    <2>1. Filed(v, lockFile[v.addr]) /\ v.addr \in Slots
      BY <1>0, <1>1, Holder DEF Announced
    <2> QED BY <2>1 DEF Filed, FilesKept
  <1>4. ASSUME flock[v.addr] # NoTenant PROVE HolderKnows(v, tenant'[flock[v.addr]])
    <2>1. HolderKnows(v, tenant[flock[v.addr]]) /\ Filed(v, lockFile[v.addr])
      BY <1>1, <1>4 DEF Announced
    <2>2. CASE flock[v.addr] = t
      BY <1>2, <1>4, <2>1, <2>2 DEF Leased
    <2>3. CASE flock[v.addr] # t
      BY <1>2, <1>4, <2>1, <2>3
    <2> QED BY <2>2, <2>3
  <1> QED BY <1>3, <1>4 DEF Announced

\* A handle moves on, or is dropped, without any of this.
LEMMA QuietMove ==
    ASSUME PoolInv, NEW t \in Tenants, NEW r, Becomes(t, r), LocalInv(r),
           UNCHANGED <<flock, nets, veths, asked>>, spoiled \subseteq spoiled', FilesKept,
           SameHandle(r, tenant[t]), tenant[t].pc # "idle",
           r.slot # NoSlot /\ r.pc \in HeldPCs => tenant[t].pc \in HeldPCs,
           TopologyOK(r, VethOf(r.name)),
           \A v \in veths : v.addr \notin spoiled' /\ Leased(v, t) => HolderKnows(v, r)
    PROVE  PoolInv'
  <1> USE DEF PoolInv
  <1>1. /\ tenant' \in [Tenants -> Tenant] /\ LocalsInv'
        /\ tenant'[t] = r /\ \A u \in Tenants : u # t => tenant'[u] = tenant[u]
    BY Becoming
  <1>2. PoolType'
    BY <1>1 DEF PoolType, FilesKept
  <1>3. NameInv'
    <2>1. \A u \in Tenants : tenant'[u].pc = "idle" \/ (tenant[u].pc # "idle" /\ tenant'[u].name = tenant[u].name)
          \/ tenant'[u] = tenant[u]
      BY <1>1 DEF SameHandle
    <2> QED BY <2>1, NamesKept
  <1>4. LeaseInv'
    <2>1. \A u \in Tenants : SameHandle(tenant'[u], tenant[u])
      BY <1>1 DEF SameHandle
    <2>2. \A u \in Tenants :
               /\ tenant'[u].slot = tenant[u].slot
               /\ tenant'[u].slot # NoSlot /\ tenant'[u].pc \in HeldPCs =>
                     tenant[u].pc \in HeldPCs /\ SameHandle(tenant'[u], tenant[u])
      BY <1>1, <2>1 DEF SameHandle
    <2> QED BY <2>2, LeaseKept
  <1>5. TopologyInv'
    BY <1>1, TopologyKept
  <1>6. AddressInv'
    BY <1>1, AddressKept
  <1>7. VethInv'
    BY DEF VethInv
  <1> QED BY <1>1, <1>2, <1>3, <1>4, <1>5, <1>6, <1>7

LEMMA VacantTopology == \A V : TopologyOK(Vacant, V)
  BY DEF TopologyOK, Vacant, Early

LEMMA QuietQuit ==
    ASSUME PoolInv, NEW t \in Tenants, Becomes(t, Vacant), tenant[t].slot = NoSlot,
           UNCHANGED <<lockFile, flock, nets, veths, asked, spoiled>>
    PROVE  PoolInv'
  <1> USE DEF PoolInv
  <1>f. FilesKept
    BY FilesSame
  <1>0. Vacant.pc = "idle" /\ Vacant.slot = NoSlot
    BY DEF Vacant
  <1>1. /\ tenant' \in [Tenants -> Tenant] /\ LocalsInv'
        /\ tenant'[t] = Vacant /\ \A u \in Tenants : u # t => tenant'[u] = tenant[u]
    BY VacantLocal, Becoming
  <1>2. PoolType'
    BY <1>1 DEF PoolType
  <1>3. NameInv'
    <2>1. \A u \in Tenants : tenant'[u].pc = "idle" \/ (tenant[u].pc # "idle" /\ tenant'[u].name = tenant[u].name)
      BY <1>0, <1>1
    <2> QED BY <2>1, NamesKept
  <1>4. LeaseInv'
    <2>1. \A u \in Tenants :
               /\ tenant'[u].slot = tenant[u].slot
               /\ tenant'[u].slot # NoSlot /\ tenant'[u].pc \in HeldPCs =>
                     tenant[u].pc \in HeldPCs /\ SameHandle(tenant'[u], tenant[u])
      BY <1>0, <1>1 DEF SameHandle
    <2> QED BY <1>f, <2>1, LeaseKept
  <1>5. TopologyInv'
    BY <1>1, TopologyKept, VacantTopology
  <1>6. AddressInv'
    BY <1>1, <1>f, AddressKept DEF Leased
  <1>7. VethInv'
    BY DEF VethInv
  <1> QED BY <1>1, <1>2, <1>3, <1>4, <1>5, <1>6, <1>7

\* The slot was leased by nobody, and now is by t.
LEMMA Acquired ==
    ASSUME PoolInv, NEW t \in Tenants, tenant[t].pc = "try", NEW s \in Slots, flock[s] = NoTenant,
           NEW r, r = [tenant[t] EXCEPT !.pc = "check", !.slot = s, !.cands = <<>>], LocalInv(r), Becomes(t, r),
           flock' = [flock EXCEPT ![s] = t],
           lockFile' = lockFile \/ (lockFile[s].state = "none" /\ lockFile' = [lockFile EXCEPT ![s] = Blank]),
           UNCHANGED <<nets, veths, asked, spoiled>>
    PROVE  PoolInv'
  <1> USE DEF PoolInv
  <1>0. r.pc = "check" /\ r.slot = s /\ r.name = tenant[t].name /\ r.kind = tenant[t].kind
    BY DEF LocalsInv, LocalInv, Tenant
  <1>1. /\ tenant' \in [Tenants -> Tenant] /\ LocalsInv'
        /\ tenant'[t] = r /\ \A u \in Tenants : u # t => tenant'[u] = tenant[u]
    BY Becoming
  <1>2. PoolType'
    BY <1>1 DEF PoolType
  <1>3. NameInv'
    <2>1. \A u \in Tenants : tenant'[u].pc = "idle" \/ (tenant[u].pc # "idle" /\ tenant'[u].name = tenant[u].name)
      BY <1>0, <1>1
    <2> QED BY <2>1, NamesKept
  <1>f. flock'[s] = t /\ \A x \in Slots : x # s => flock'[x] = flock[x]
    BY DEF PoolType
  <1>g. \A x \in Slots : x # s => lockFile'[x] = lockFile[x]
    BY DEF PoolType
  <1>n. tenant[t].slot = NoSlot /\ \A u \in Tenants : tenant[u].slot # s /\ tenant[u].slot \in Slots \cup {NoSlot}
    <2>1. tenant[t].slot = NoSlot
      BY DEF LocalsInv, LocalInv, SlotInv
    <2>2. \A u \in Tenants : tenant[u].slot \in Slots \cup {NoSlot}
      BY DEF PoolType, Tenant
    <2>3. \A u \in Tenants : tenant[u].slot # s
      BY SlotFacts, TenantsAssumption DEF LeaseInv
    <2> QED BY <2>1, <2>2, <2>3
  <1>4. LeaseInv'
    <2>1. ASSUME NEW x \in Slots, flock'[x] # NoTenant PROVE tenant'[flock'[x]].slot = x
      <3>1. CASE x = s
        <4>1. flock'[x] = t
          BY <1>f, <3>1
        <4>2. tenant'[t].slot = s
          BY <1>0, <1>1
        <4> QED BY <3>1, <4>1, <4>2
      <3>2. CASE x # s
        <4>1. flock[x] \in Tenants /\ tenant[flock[x]].slot = x
          BY <1>f, <2>1, <3>2 DEF LeaseInv, PoolType
        <4>2. flock[x] # t
          BY <1>n, <4>1, SlotFacts
        <4> QED BY <1>1, <1>f, <3>2, <4>1, <4>2
      <3> QED BY <3>1, <3>2
    <2>2. ASSUME NEW u \in Tenants, tenant'[u].slot # NoSlot PROVE flock'[tenant'[u].slot] = u
      <3>1. CASE u = t
        <4>1. tenant'[u].slot = s
          BY <1>0, <1>1, <3>1
        <4> QED BY <1>f, <3>1, <4>1
      <3>2. CASE u # t
        <4>1. tenant'[u] = tenant[u] /\ tenant[u].slot \in Slots /\ tenant[u].slot # s
          BY <1>1, <1>n, <2>2, <3>2
        <4>2. flock[tenant[u].slot] = u
          BY <2>2, <4>1 DEF LeaseInv
        <4> QED BY <1>f, <4>1, <4>2
      <3> QED BY <3>1, <3>2
    <2>3. ASSUME NEW u \in Tenants, tenant'[u].pc \in HeldPCs, tenant'[u].slot # NoSlot
          PROVE  lockFile'[tenant'[u].slot] = provenance(u, "acquired")'
      <3>1. u # t
        BY <1>0, <1>1, <2>3 DEF HeldPCs
      <3>2. provenance(u, "acquired")' = provenance(u, "acquired")
        BY <1>1, <3>1 DEF provenance
      <3>3. tenant'[u] = tenant[u]
        BY <1>1, <3>1
      <3>4. lockFile[tenant[u].slot] = provenance(u, "acquired")
        BY <2>3, <3>3 DEF LeaseInv
      <3>5. lockFile'[tenant[u].slot] = lockFile[tenant[u].slot]
        BY <1>g, <1>n, <2>3, <3>3
      <3> QED BY <3>2, <3>3, <3>4, <3>5
    <2> QED BY <2>1, <2>2, <2>3 DEF LeaseInv
  <1>5. TopologyInv'
    <2>1. TopologyOK(tenant[t], VethOf(tenant[t].name))
      BY DEF TopologyInv
    <2>2. TopologyOK(r, VethOf(r.name))
      BY <1>0, <2>1 DEF TopologyOK, Early
    <2> QED BY <1>1, <2>2, TopologyKept
  <1>6. AddressInv'
    <2> SUFFICES ASSUME NEW v \in veths, v.addr # NoSlot, v.addr \notin spoiled PROVE Announced(v)'
      BY DEF AddressInv
    <2>1. Announced(v) /\ v.addr \in Slots
      BY Holder DEF AddressInv
    <2>2. lockFile'[v.addr] = lockFile[v.addr]
      <3>1. lockFile[v.addr].state # "none"
        BY <2>1 DEF Announced, Filed
      <3> QED BY <1>g, <2>1, <3>1
    <2>3. CASE v.addr = s
      <3>1. HolderKnows(v, r)
        BY <1>0 DEF HolderKnows
      <3> QED BY <1>1, <1>f, <2>1, <2>2, <2>3, <3>1 DEF Announced
    <2>4. CASE v.addr # s
      <3>1. flock'[v.addr] = flock[v.addr]
        BY <1>f, <2>1, <2>4
      <3>2. flock[v.addr] # NoTenant => flock[v.addr] \in Tenants /\ tenant[flock[v.addr]].slot = v.addr
        BY Holder
      <3>3. flock[v.addr] # NoTenant => tenant'[flock[v.addr]] = tenant[flock[v.addr]]
        BY <1>1, <1>n, <3>2
      <3> QED BY <2>1, <2>2, <3>1, <3>3 DEF Announced
    <2> QED BY <2>3, <2>4
  <1>7. VethInv'
    BY DEF VethInv
  <1> QED BY <1>1, <1>2, <1>3, <1>4, <1>5, <1>6, <1>7

\* The tenant writes its names down; nothing had the slot's addresses.
LEMMA Written ==
    ASSUME PoolInv, NEW t \in Tenants, tenant[t].pc = "write", NEW r, LocalInv(r), Becomes(t, r),
           SameHandle(r, tenant[t]), r.pc \in {"route", "clean"} \/ (r.pc = "up" /\ r.kind = "kfunc"),
           lockFile' = [lockFile EXCEPT ![tenant[t].slot] = provenance(t, "acquired")],
           UNCHANGED <<flock, nets, veths, asked, spoiled>>
    PROVE  PoolInv'
  <1> USE DEF PoolInv
  <1>1. /\ tenant' \in [Tenants -> Tenant] /\ LocalsInv'
        /\ tenant'[t] = r /\ \A u \in Tenants : u # t => tenant'[u] = tenant[u]
    BY Becoming
  <1>s. tenant[t].slot \in Slots /\ tenant[t].slot # NoSlot /\ flock[tenant[t].slot] = t
    BY DEF LocalsInv, LocalInv, SlotInv, Tenant, LeaseInv
  <1>2. PoolType'
    BY <1>1 DEF PoolType
  <1>3. NameInv'
    <2>1. \A u \in Tenants : tenant'[u].pc = "idle" \/ (tenant[u].pc # "idle" /\ tenant'[u].name = tenant[u].name)
      BY <1>1 DEF SameHandle
    <2> QED BY <2>1, NamesKept
  <1>g. /\ lockFile'[tenant[t].slot] = provenance(t, "acquired")
        /\ \A x \in Slots : x # tenant[t].slot => lockFile'[x] = lockFile[x]
    BY <1>s DEF PoolType
  <1>h. \A u \in Tenants : SameHandle(tenant'[u], tenant[u])
    BY <1>1 DEF SameHandle
  <1>p. \A u \in Tenants : provenance(u, "acquired")' = provenance(u, "acquired")
    BY <1>h DEF provenance, SameHandle
  <1>4. LeaseInv'
    <2>1. \A s \in Slots : flock'[s] # NoTenant => tenant'[flock'[s]].slot = s
      BY <1>h DEF PoolType, LeaseInv, SameHandle
    <2>2. \A u \in Tenants : tenant'[u].slot # NoSlot => flock'[tenant'[u].slot] = u
      BY <1>h DEF LeaseInv, SameHandle
    <2>3. ASSUME NEW u \in Tenants, tenant'[u].pc \in HeldPCs, tenant'[u].slot # NoSlot
          PROVE  lockFile'[tenant'[u].slot] = provenance(u, "acquired")'
      <3>1. CASE u = t
        BY <1>g, <1>h, <1>p, <3>1 DEF SameHandle
      <3>2. CASE u # t
        <4>1. tenant'[u] = tenant[u]
          BY <1>1, <3>2
        <4>2. lockFile[tenant[u].slot] = provenance(u, "acquired")
          BY <2>3, <4>1 DEF LeaseInv
        <4>3. tenant[u].slot \in Slots /\ flock[tenant[u].slot] = u
          <5>1. tenant[u].slot \in Slots \cup {NoSlot} /\ tenant[u].slot # NoSlot
            BY <2>3, <4>1 DEF PoolType, Tenant
          <5> QED BY <5>1 DEF LeaseInv
        <4>4. tenant[u].slot # tenant[t].slot
          BY <1>s, <3>2, <4>3
        <4> QED BY <1>g, <1>p, <4>1, <4>2, <4>3, <4>4
      <3> QED BY <3>1, <3>2
    <2> QED BY <2>1, <2>2, <2>3 DEF LeaseInv
  <1>5. TopologyInv'
    <2>1. TopologyOK(tenant[t], VethOf(tenant[t].name))
      BY DEF TopologyInv
    <2>2. TopologyOK(r, VethOf(r.name))
      BY <2>1 DEF TopologyOK, Early, SameHandle
    <2> QED BY <1>1, <2>2, TopologyKept
  <1>6. AddressInv'
    <2> SUFFICES ASSUME NEW v \in veths, v.addr # NoSlot, v.addr \notin spoiled PROVE Announced(v)'
      BY DEF AddressInv
    <2>1. Announced(v) /\ v.addr \in Slots
      BY Holder DEF AddressInv
    <2>2. flock[v.addr] # t
      BY <2>1, TenantsAssumption DEF Announced, HolderKnows
    <2>3. lockFile'[v.addr] = lockFile[v.addr]
      BY <1>g, <1>s, <2>1, <2>2
    <2>4. flock[v.addr] # NoTenant => tenant'[flock[v.addr]] = tenant[flock[v.addr]]
      BY <1>1, <2>2, Holder
    <2> QED BY <2>1, <2>3, <2>4 DEF Announced
  <1>7. VethInv'
    BY DEF VethInv
  <1> QED BY <1>1, <1>2, <1>3, <1>4, <1>5, <1>6, <1>7

\* Handles go with their locks; a file that may be written meanwhile does
\* not announce a pair, unless the slot is noted as spoiled.
LEMMA Vacated ==
    ASSUME PoolInv, NEW M \in SUBSET Tenants,
           tenant' = [u \in Tenants |-> IF u \in M THEN Vacant ELSE tenant[u]],
           flock' = [x \in Slots |-> IF flock[x] \in M THEN NoTenant ELSE flock[x]],
           DOMAIN lockFile' = Slots,
           \A x \in Slots : flock[x] \notin M => lockFile'[x] = lockFile[x],
           spoiled \subseteq spoiled',
           \A v \in veths : v.addr # NoSlot /\ v.addr \notin spoiled' /\ flock[v.addr] \in M /\ Announced(v)
                               => lockFile'[v.addr] = lockFile[v.addr],
           UNCHANGED <<nets, veths, asked>>
    PROVE  PoolInv'
  <1> USE DEF PoolInv
  <1>0. Vacant \in Tenant /\ Vacant.pc = "idle" /\ Vacant.slot = NoSlot
    BY VacantLocal DEF Vacant, LocalInv
  <1>1. \A u \in Tenants : (u \in M => tenant'[u] = Vacant) /\ (u \notin M => tenant'[u] = tenant[u])
    OBVIOUS
  <1>f. \A x \in Slots : /\ flock[x] \in M => flock'[x] = NoTenant
                         /\ flock[x] \notin M => flock'[x] = flock[x]
    OBVIOUS
  <1>2. PoolType'
    <2>1. tenant' \in [Tenants -> Tenant]
      BY <1>0 DEF PoolType
    <2>2. flock' \in [Slots -> Tenants \cup {NoTenant}]
      BY DEF PoolType
    <2> QED BY <2>1, <2>2 DEF PoolType
  <1>l. LocalsInv'
    BY <1>1, VacantLocal DEF LocalsInv
  <1>3. NameInv'
    <2>1. \A u \in Tenants : tenant'[u].pc = "idle" \/ (tenant[u].pc # "idle" /\ tenant'[u].name = tenant[u].name)
      BY <1>0, <1>1
    <2> QED BY <2>1, NamesKept
  <1>4. LeaseInv'
    <2>1. ASSUME NEW x \in Slots, flock'[x] # NoTenant PROVE tenant'[flock'[x]].slot = x
      <3>1. flock[x] \notin M /\ flock'[x] = flock[x] /\ flock[x] \in Tenants
        BY <1>f, <2>1 DEF PoolType
      <3> QED BY <1>1, <2>1, <3>1 DEF LeaseInv
    <2>2. ASSUME NEW u \in Tenants, tenant'[u].slot # NoSlot
          PROVE  /\ tenant'[u] = tenant[u] /\ u \notin M /\ tenant[u].slot \in Slots
                 /\ flock[tenant[u].slot] = u /\ flock'[tenant'[u].slot] = u
      <3>1. u \notin M /\ tenant'[u] = tenant[u]
        BY <1>0, <1>1, <2>2
      <3>2. tenant[u].slot \in Slots /\ flock[tenant[u].slot] = u
        BY <2>2, <3>1 DEF PoolType, Tenant, LeaseInv
      <3> QED BY <1>f, <3>1, <3>2
    <2>3. ASSUME NEW u \in Tenants, tenant'[u].pc \in HeldPCs, tenant'[u].slot # NoSlot
          PROVE  lockFile'[tenant'[u].slot] = provenance(u, "acquired")'
      <3>1. /\ tenant'[u] = tenant[u] /\ u \notin M /\ tenant[u].slot \in Slots
            /\ flock[tenant[u].slot] = u
        BY <2>2, <2>3
      <3>2. lockFile'[tenant[u].slot] = lockFile[tenant[u].slot]
        BY <3>1
      <3>3. provenance(u, "acquired")' = provenance(u, "acquired")
        BY <3>1 DEF provenance
      <3> QED BY <2>3, <3>1, <3>2, <3>3 DEF LeaseInv
    <2> QED BY <2>1, <2>2, <2>3 DEF LeaseInv
  <1>5. TopologyInv'
    <2>1. \A n : VethOf(n)' = VethOf(n)
      BY DEF VethOf
    <2> QED BY <1>1, <2>1, VacantTopology DEF TopologyInv
  <1>6. AddressInv'
    <2> SUFFICES ASSUME NEW v \in veths, v.addr # NoSlot, v.addr \notin spoiled' PROVE Announced(v)'
      BY DEF AddressInv
    <2>1. Announced(v) /\ v.addr \in Slots
      BY Holder DEF AddressInv
    <2>2. lockFile'[v.addr] = lockFile[v.addr]
      BY <2>1
    <2>3. flock'[v.addr] # NoTenant =>
            flock'[v.addr] = flock[v.addr] /\ tenant'[flock[v.addr]] = tenant[flock[v.addr]]
      BY <1>1, <1>f, <2>1, Holder
    <2> QED BY <2>1, <2>2, <2>3 DEF Announced
  <1>7. VethInv'
    BY DEF VethInv
  <1> QED BY <1>l, <1>2, <1>3, <1>4, <1>5, <1>6, <1>7

-----------------------------------------------------------------------------
(***************************************************************************)
(* Requests and leases                                                     *)
(***************************************************************************)

LEMMA AsksInv ==
    ASSUME PoolInv, NEW t \in Tenants, NEW l \in {"scan", "route"}, NEW kind \in {"host", "isolated", "kfunc"},
           NEW n, n = Explicit \/ n = uniqueLinkBase(t),
           l = "route" => kind = "host", kind = "isolated" => n # Explicit,
           Asks(t, l, kind, n)
    PROVE  PoolInv'
  <1> USE DEF PoolInv
  <1>1. PICK r : r = [Vacant EXCEPT !.pc = l, !.kind = kind, !.name = n]
    OBVIOUS
  <1>2. /\ tenant[t].pc = "idle" /\ Becomes(t, r)
        /\ asked' = [asked EXCEPT ![ShellOf[t]] = @ + 1]
        /\ UNCHANGED <<lockFile, stamped, flock, nets, veths, spoiled, mishaps>>
    BY <1>1 DEF Asks, pcOf
  <1>f. FilesKept
    BY <1>2, FilesSame
  <1>3. n \in Names
    BY Generated DEF PoolType
  <1>4. LocalInv(r)
    BY <1>1, <1>3, AskLocal
  <1>5. r.pc = l /\ r.kind = kind /\ r.name = n /\ r.slot = NoSlot
    BY <1>1 DEF Vacant
  <1>6. /\ tenant' \in [Tenants -> Tenant] /\ LocalsInv'
        /\ tenant'[t] = r /\ \A u \in Tenants : u # t => tenant'[u] = tenant[u]
    BY <1>2, <1>4, Becoming
  <1>7. PoolType'
    <2>1. asked \in [Shells -> Nat] /\ asked[ShellOf[t]] + 1 \in Nat
      BY Generated DEF PoolType
    <2>2. asked' \in [Shells -> Nat]
      BY <1>2, <2>1
    <2> QED BY <1>2, <1>6, <2>2 DEF PoolType
  <1>8. NameInv' /\ (n # Explicit => VethOf(n) = {})
    BY <1>2, <1>5, <1>6, NamesAsked
  <1>9. tenant[t].slot = NoSlot
    BY <1>2 DEF LocalsInv, LocalInv, SlotInv
  <1>10. LeaseInv'
    <2>1. \A u \in Tenants :
               /\ tenant'[u].slot = tenant[u].slot
               /\ tenant'[u].slot # NoSlot /\ tenant'[u].pc \in HeldPCs =>
                     tenant[u].pc \in HeldPCs /\ SameHandle(tenant'[u], tenant[u])
      BY <1>5, <1>6, <1>9 DEF SameHandle
    <2> QED BY <1>2, <1>f, <2>1, LeaseKept
  <1>11. TopologyInv'
    <2>1. \A v \in VethOf(n) : n = Explicit /\ v.root
      BY <1>8 DEF VethOf, VethInv
    <2>2. TopologyOK(r, VethOf(n))
      BY <1>5, <1>8, <2>1 DEF TopologyOK
    <2> QED BY <1>2, <1>5, <1>6, <2>2, TopologyKept
  <1>12. AddressInv'
    <2>1. \A v \in veths : v.addr # NoSlot => v.addr # tenant[t].slot
      BY <1>9
    <2> QED BY <1>2, <1>6, <1>f, <2>1, AddressKept DEF Leased
  <1>13. VethInv'
    BY <1>2 DEF VethInv
  <1> QED BY <1>6, <1>7, <1>8, <1>10, <1>11, <1>12, <1>13

LEMMA RequestsInv ==
    ASSUME PoolInv, NEW t \in Tenants,
           \/ \E named, addressed \in BOOLEAN : handleNetVethPair(t, named, addressed)
           \/ handleNetNetnsVethPair(t) \/ handleKfuncAcquire(t)
    PROVE  PoolInv'
  <1>0. uniqueLinkBase(t) # Explicit
    BY Generated DEF PoolInv, PoolType
  <1>1. ASSUME NEW named \in BOOLEAN, NEW addressed \in BOOLEAN, handleNetVethPair(t, named, addressed)
        PROVE  PoolInv'
    <2>1. PICK l : l = IF addressed THEN "route" ELSE "scan"
      OBVIOUS
    <2>2. PICK n : n = IF named THEN Explicit ELSE uniqueLinkBase(t)
      OBVIOUS
    <2>3. Asks(t, l, "host", n)
      BY <1>1, <2>1, <2>2 DEF handleNetVethPair
    <2>4. l \in {"scan", "route"} /\ (n = Explicit \/ n = uniqueLinkBase(t))
      BY <2>1, <2>2
    <2> QED BY <2>3, <2>4, AsksInv
  <1>2. CASE handleNetNetnsVethPair(t)
    BY <1>0, <1>2, AsksInv DEF handleNetNetnsVethPair
  <1>3. CASE handleKfuncAcquire(t)
    BY <1>3, AsksInv DEF handleKfuncAcquire
  <1> QED BY <1>1, <1>2, <1>3

\* A lease of a slot whose addresses are in use is not this tenant's to have.
LEMMA NotYetHeld ==
    ASSUME NEW v, NEW me, me.pc \in {"idle", "scan", "try", "write", "route", "clean", "build", "undo"}
    PROVE  ~HolderKnows(v, me)
  BY DEF HolderKnows

LEMMA ScansInv ==
    ASSUME PoolInv, NEW t \in Tenants, scanSlots(t) \/ scanKfuncSlots(t)
    PROVE  PoolInv'
  <1>1. PICK S : S = IF tenant[t].kind = "kfunc" THEN KfuncSlots ELSE NetSlots
    OBVIOUS
  <1>2. PICK q \in scanOrder(S) : Becomes(t, [tenant[t] EXCEPT !.pc = "try", !.cands = q])
    BY <1>1 DEF scanSlots, scanKfuncSlots
  <1>3. q \in Seq(S)
    BY <1>1, <1>2, ScanType
  <1>4. tenant[t].pc = "scan" /\ UNCHANGED <<lockFile, stamped, flock, nets, veths, asked, spoiled, mishaps>>
    BY DEF scanSlots, scanKfuncSlots, pcOf
  <1>5. LocalInv(tenant[t])
    BY DEF PoolInv, LocalsInv
  <1>6. PICK r : r = [tenant[t] EXCEPT !.pc = "try", !.cands = q]
    OBVIOUS
  <1>7. LocalInv(r)
    BY <1>1, <1>3, <1>4, <1>5, <1>6, ScanLocal
  <1>8. r.pc = "try" /\ SameHandle(r, tenant[t])
    BY <1>5, <1>6 DEF LocalInv, Tenant, SameHandle
  <1>9. TopologyOK(tenant[t], VethOf(tenant[t].name))
    BY DEF PoolInv, TopologyInv
  <1>10. TopologyOK(r, VethOf(r.name))
    BY <1>4, <1>8, <1>9 DEF TopologyOK, Early, SameHandle
  <1>11. \A v : ~HolderKnows(v, tenant[t])
    BY <1>4, NotYetHeld
  <1>12. r.pc \notin HeldPCs
    BY <1>8 DEF HeldPCs
  <1>13. FilesKept
    BY <1>4, FilesSame DEF PoolInv
  <1> QED BY <1>13, <1>2, <1>4, <1>6, <1>7, <1>8, <1>10, <1>11, <1>12, QuietMove DEF Leased

LEMMA TryInv ==
    ASSUME PoolInv, NEW t \in Tenants, tryAcquireSlot(t)
    PROVE  PoolInv'
  <1>1. PICK me : me = tenant[t]
    OBVIOUS
  <1>2. PICK s : s = Head(me.cands)
    OBVIOUS
  <1>3. /\ me.pc = "try" /\ me.cands # <<>>
        /\ UNCHANGED <<nets, veths, asked, spoiled, mishaps>>
    BY <1>1 DEF tryAcquireSlot, pcOf
  <1>o. lockFile' = lockFile \/ (lockFile[s].state = "none" /\ lockFile' = [lockFile EXCEPT ![s] = Blank])
    BY <1>1, <1>2 DEF tryAcquireSlot
  <1>4. LocalInv(me)
    BY <1>1 DEF PoolInv, LocalsInv
  <1>5. s \in Slots /\ LocalInv([me EXCEPT !.cands = Tail(@)])
        /\ LocalInv([me EXCEPT !.pc = "check", !.slot = s, !.cands = <<>>])
    BY <1>2, <1>3, <1>4, TryLocal
  <1>6. CASE flock[s] # NoTenant
    <2>1. Becomes(t, [me EXCEPT !.cands = Tail(@)]) /\ flock' = flock
      BY <1>1, <1>2, <1>6 DEF tryAcquireSlot
    <2>2. PICK r : r = [me EXCEPT !.cands = Tail(@)]
      OBVIOUS
    <2>3. LocalInv(r) /\ r.pc = "try" /\ SameHandle(r, me)
      BY <1>3, <1>4, <1>5, <2>2 DEF LocalInv, Tenant, SameHandle
    <2>4. TopologyOK(me, VethOf(me.name))
      BY <1>1 DEF PoolInv, TopologyInv
    <2>5. TopologyOK(r, VethOf(r.name))
      BY <1>3, <2>3, <2>4 DEF TopologyOK, Early, SameHandle
    <2>6. \A v : ~HolderKnows(v, me)
      BY <1>3, NotYetHeld
    <2>7. r.pc \notin HeldPCs
      BY <2>3 DEF HeldPCs
    <2>8. FilesKept
      <3>1. DOMAIN lockFile = Slots
        BY DEF PoolInv, PoolType
      <3> QED BY <1>o, <1>5, <3>1 DEF FilesKept
    <2>9. Becomes(t, r) /\ UNCHANGED <<flock, nets, veths, asked, spoiled>>
      BY <1>3, <2>1, <2>2
    <2> QED BY <1>1, <1>3, <2>3, <2>5, <2>6, <2>7, <2>8, <2>9, QuietMove DEF Leased
  <1>7. CASE flock[s] = NoTenant
    <2>1. Becomes(t, [me EXCEPT !.pc = "check", !.slot = s, !.cands = <<>>]) /\ flock' = [flock EXCEPT ![s] = t]
      BY <1>1, <1>2, <1>7 DEF tryAcquireSlot
    <2> QED BY <1>1, <1>3, <1>o, <1>5, <1>7, <2>1, Acquired
  <1> QED BY <1>6, <1>7

\* A handle moves on to stage l.
LEMMA AtInv ==
    ASSUME PoolInv, NEW t \in Tenants, NEW l \in {"scan", "write", "giveback"},
           l = "scan" => tenant[t].pc = "try",
           l = "write" => tenant[t].pc = "check",
           l = "giveback" => tenant[t].pc \in {"route", "up"},
           At(t, l), UNCHANGED <<lockFile, flock, nets, veths, asked>>, spoiled \subseteq spoiled',
           \A v \in veths : Leased(v, t) => v.addr \in spoiled'
    PROVE  PoolInv'
  <1>1. LocalInv(tenant[t]) /\ TopologyOK(tenant[t], VethOf(tenant[t].name))
    BY DEF PoolInv, LocalsInv, TopologyInv
  <1>2. PICK r : r = [tenant[t] EXCEPT !.pc = l]
    OBVIOUS
  <1>3. LocalInv(r) /\ Becomes(t, r)
    BY <1>1, <1>2, MoveLocal DEF At
  <1>4. r.pc = l /\ SameHandle(r, tenant[t])
    BY <1>1, <1>2 DEF LocalInv, Tenant, SameHandle
  <1>5. tenant[t].pc # "idle" /\ (l \in HeldPCs => tenant[t].pc \in HeldPCs)
    BY DEF HeldPCs
  <1>6. TopologyOK(r, VethOf(r.name))
    BY <1>1, <1>4 DEF TopologyOK, Early, SameHandle
  <1>7. FilesKept
    BY FilesSame DEF PoolInv
  <1> QED BY <1>3, <1>4, <1>5, <1>6, <1>7, QuietMove

\* A handle goes with its lease.
LEMMA UnlockInv ==
    ASSUME PoolInv, NEW t \in Tenants, Becomes(t, Vacant), tenant[t].slot # NoSlot,
           Unlocked(tenant[t].slot), DOMAIN lockFile' = Slots,
           \A x \in Slots : x # tenant[t].slot => lockFile'[x] = lockFile[x],
           spoiled \subseteq spoiled',
           \A v \in veths : v.addr \notin spoiled' /\ Leased(v, t) => lockFile'[v.addr] = lockFile[v.addr],
           UNCHANGED <<nets, veths, asked>>
    PROVE  PoolInv'
  <1> USE DEF PoolInv
  <1>1. tenant' = [u \in Tenants |-> IF u \in {t} THEN Vacant ELSE tenant[u]]
    BY DEF Becomes, PoolType
  <1>2. tenant[t].slot \in Slots /\ flock[tenant[t].slot] = t
    <2>1. tenant[t].slot \in Slots \cup {NoSlot}
      BY DEF PoolType, Tenant
    <2> QED BY <2>1 DEF LeaseInv
  <1>3. \A x \in Slots : flock[x] = t => x = tenant[t].slot
    BY TenantsAssumption DEF LeaseInv
  <1>4. flock' = [x \in Slots |-> IF flock[x] \in {t} THEN NoTenant ELSE flock[x]]
    <2>1. flock' = [flock EXCEPT ![tenant[t].slot] = NoTenant] /\ DOMAIN flock = Slots
      BY DEF Unlocked, PoolType
    <2> QED BY <1>2, <1>3, <2>1
  <1>5. \A x \in Slots : flock[x] \notin {t} => lockFile'[x] = lockFile[x]
    BY <1>2
  <1>6. ASSUME NEW v \in veths, v.addr # NoSlot, v.addr \notin spoiled', flock[v.addr] \in {t}, Announced(v)
        PROVE  lockFile'[v.addr] = lockFile[v.addr]
    <2>1. v.addr = tenant[t].slot /\ v.addr \notin spoiled
      BY <1>3, <1>6, Holder
    <2>2. Leased(v, t)
      BY <1>6, <2>1, TenantsAssumption DEF Announced, Leased
    <2> QED BY <1>6, <2>2
  <1>7. {t} \in SUBSET Tenants
    OBVIOUS
  <1> QED BY <1>1, <1>4, <1>5, <1>6, <1>7, Vacated

\* The lists of slots are of two pools.
LEMMA KfuncLease ==
    ASSUME PoolInv, NEW t \in Tenants, tenant[t].kind = "kfunc", NEW v \in veths
    PROVE  ~Leased(v, t)
  <1>1. v.addr # NoSlot => v.addr \in NetSlots
    BY DEF PoolInv, PoolType, Veth
  <1>2. tenant[t].slot \in KfuncSlots \cup {NoSlot}
    BY DEF PoolInv, LocalsInv, LocalInv, SlotInv
  <1> QED BY <1>1, <1>2, SlotFacts DEF Leased

LEMMA GiveUpInv ==
    ASSUME PoolInv, NEW t \in Tenants, acquirePoolSlot(t) \/ acquireKfuncSlot(t)
    PROVE  PoolInv'
  <1>1. /\ tenant[t].pc = "try" /\ (At(t, "scan") \/ Becomes(t, Vacant))
        /\ UNCHANGED <<lockFile, flock, nets, veths, asked, spoiled>>
    BY DEF acquirePoolSlot, acquireKfuncSlot, pcOf
  <1>2. tenant[t].slot = NoSlot
    BY <1>1 DEF PoolInv, LocalsInv, LocalInv, SlotInv
  <1>3. \A v \in veths : ~Leased(v, t)
    BY <1>2 DEF Leased
  <1> QED BY <1>1, <1>2, <1>3, AtInv, QuietQuit

\* A slot that passes the check has no pair with its addresses, the file
\* says whose they were and nothing is left of that tenant; or a look erred,
\* and the slot of the pair that was not seen is noted.
LEMMA CheckInv ==
    ASSUME PoolInv, NEW t \in Tenants, checkPrevious(t)
    PROVE  PoolInv'
  <1> DEFINE prev == lockFile[tenant[t].slot]
  <1>1. tenant[t].pc = "check" /\ UNCHANGED <<lockFile, stamped, nets, veths, asked>>
    BY DEF checkPrevious, pcOf
  <1>2. PICK errs \in SUBSET {"link", "a", "b"} :
            IF assertSlotClean(prev, errs)
              THEN At(t, "write") /\ UNCHANGED flock /\ spoiled' = spoiled \cup Overlooked(prev)
              ELSE Becomes(t, Vacant) /\ Unlocked(tenant[t].slot) /\ UNCHANGED spoiled
    BY DEF checkPrevious, leaseOf
  <1>3. CASE assertSlotClean(prev, errs)
    <2>1. At(t, "write") /\ flock' = flock /\ spoiled' = spoiled \cup Overlooked(prev)
      BY <1>2, <1>3
    <2>2. ASSUME NEW v \in veths, Leased(v, t) PROVE v.addr \in spoiled'
      <3>1. Filed(v, prev)
        BY <2>2 DEF Leased
      <3>2. CASE assertSlotClean(prev, {})
        <4>1. ~v.root
          BY <3>1, <3>2 DEF assertSlotClean, linkCheck, Filed
        <4>2. "a" \in v.in /\ Net(v.name, "a") \in nets
          BY <4>1 DEF PoolInv, VethInv
        <4> QED BY <3>1, <3>2, <4>1, <4>2 DEF assertSlotClean, netnsCheck, Net, Filed
      <3>3. CASE ~assertSlotClean(prev, {})
        <4>1. v.addr \in Overlooked(prev)
          BY <3>1, <3>3 DEF Overlooked, Filed
        <4> QED BY <2>1, <4>1
      <3> QED BY <3>2, <3>3
    <2> QED BY <1>1, <2>1, <2>2, AtInv
  <1>4. CASE ~assertSlotClean(prev, errs)
    <2>1. Becomes(t, Vacant) /\ Unlocked(tenant[t].slot) /\ UNCHANGED spoiled
      BY <1>2, <1>4
    <2>2. tenant[t].slot # NoSlot /\ DOMAIN lockFile = Slots
      BY <1>1 DEF PoolInv, PoolType, LocalsInv, LocalInv, SlotInv
    <2> QED BY <1>1, <2>1, <2>2, UnlockInv
  <1> QED BY <1>3, <1>4

LEMMA AvailableInv ==
    ASSUME PoolInv, NEW t \in Tenants, assertKfuncSlotAvailable(t)
    PROVE  PoolInv'
  <1>1. /\ tenant[t].pc = "check" /\ tenant[t].kind = "kfunc"
        /\ UNCHANGED <<lockFile, stamped, nets, veths, asked, spoiled>>
        /\ (At(t, "write") /\ flock' = flock) \/ (Becomes(t, Vacant) /\ Unlocked(tenant[t].slot))
    BY DEF assertKfuncSlotAvailable, pcOf, leaseOf
  <1>2. tenant[t].slot # NoSlot /\ DOMAIN lockFile = Slots
    BY <1>1 DEF PoolInv, PoolType, LocalsInv, LocalInv, SlotInv
  <1>3. \A v \in veths : ~Leased(v, t)
    BY <1>1, KfuncLease
  <1>4. CASE At(t, "write") /\ flock' = flock
    BY <1>1, <1>3, <1>4, AtInv
  <1>5. CASE Becomes(t, Vacant) /\ Unlocked(tenant[t].slot)
    BY <1>1, <1>2, <1>3, <1>5, UnlockInv
  <1> QED BY <1>1, <1>4, <1>5

LEMMA WriteInv ==
    ASSUME PoolInv, NEW t \in Tenants, writeProvenance(t)
    PROVE  PoolInv'
  <1>1. PICK me : me = tenant[t]
    OBVIOUS
  <1>2. /\ me.pc = "write" /\ UNCHANGED <<flock, nets, veths, asked, spoiled, mishaps>>
        /\ lockFile' = [lockFile EXCEPT ![me.slot] = provenance(t, "acquired")]
    BY <1>1 DEF writeProvenance, pcOf
  <1>3. LocalInv(me)
    BY <1>1 DEF PoolInv, LocalsInv
  <1>4. me.kind \in {"host", "isolated", "kfunc"}
    BY <1>3, Fields
  <1>5. CASE me.kind = "kfunc"
    <2>1. Becomes(t, [me EXCEPT !.pc = "up"])
      BY <1>1, <1>5 DEF writeProvenance
    <2>2. PICK r : r = [me EXCEPT !.pc = "up"]
      OBVIOUS
    <2>3. LocalInv(r)
      BY <1>2, <1>3, <1>5, <2>2, MoveLocal
    <2>4. r.pc = "up" /\ SameHandle(r, me) /\ r.kind = "kfunc"
      BY <1>3, <1>5, <2>2 DEF LocalInv, Tenant, SameHandle
    <2> QED BY <1>1, <1>2, <2>1, <2>2, <2>3, <2>4, Written
  <1>6. CASE me.kind = "host"
    <2>1. Becomes(t, [me EXCEPT !.pc = "route"])
      BY <1>1, <1>6 DEF writeProvenance
    <2>2. PICK r : r = [me EXCEPT !.pc = "route"]
      OBVIOUS
    <2>3. LocalInv(r)
      BY <1>2, <1>3, <1>6, <2>2, MoveLocal
    <2>4. r.pc = "route" /\ SameHandle(r, me)
      BY <1>3, <2>2 DEF LocalInv, Tenant, SameHandle
    <2> QED BY <1>1, <1>2, <2>1, <2>2, <2>3, <2>4, Written
  <1>7. CASE me.kind = "isolated"
    <2>1. Becomes(t, Commands(me, "clean", preClean(me.kind)))
      BY <1>1, <1>7 DEF writeProvenance
    <2>2. PICK r : r = Commands(me, "clean", preClean(me.kind))
      OBVIOUS
    <2>3. preClean(me.kind) \in Seq(Dels) /\ preClean(me.kind) # <<>>
      BY RemovalLists
    <2>4. LocalInv(r) /\ SameHandle(r, me) /\ r.pc = "clean"
      BY <1>3, <1>7, <2>2, <2>3, CommandsLocal
    <2> QED BY <1>1, <1>2, <2>1, <2>2, <2>4, Written
  <1> QED BY <1>4, <1>5, <1>6, <1>7

\* What a failed write leaves in the file of a slot announces nothing.
LEMMA FileFailsInv ==
    ASSUME PoolInv, NEW t \in Tenants, fileFails(t)
    PROVE  PoolInv'
  <1>1. PICK s : s = tenant[t].slot
    OBVIOUS
  <1>2. /\ tenant[t].pc \in {"scan", "try", "check", "write"} /\ Becomes(t, Vacant)
        /\ UNCHANGED <<nets, veths, asked, spoiled>>
        /\ s = NoSlot => flock' = flock
        /\ s # NoSlot => Unlocked(s)
        /\ tenant[t].pc = "write" => lockFile' = [lockFile EXCEPT ![s] = Blank]
        /\ tenant[t].pc # "write" => lockFile' = lockFile
    BY <1>1 DEF fileFails, leaseOf, pcOf
  <1>3. DOMAIN lockFile = Slots /\ (tenant[t].pc \in {"check", "write"} => s # NoSlot)
    BY <1>1 DEF PoolInv, PoolType, LocalsInv, LocalInv, SlotInv
  <1>4. CASE s = NoSlot
    BY <1>1, <1>2, <1>3, <1>4, QuietQuit
  <1>5. CASE s # NoSlot
    <2>1. DOMAIN lockFile' = Slots
      BY <1>2, <1>3
    <2>2. \A x \in Slots : x # s => lockFile'[x] = lockFile[x]
      BY <1>2, <1>3
    <2>3. ASSUME NEW v \in veths, Leased(v, t) PROVE lockFile'[v.addr] = lockFile[v.addr]
      <3>1. tenant[t].pc # "write"
        BY <2>3 DEF Leased, HolderKnows
      <3> QED BY <1>2, <3>1
    <2> QED BY <1>1, <1>2, <1>5, <2>1, <2>2, <2>3, UnlockInv
  <1> QED BY <1>4, <1>5

-----------------------------------------------------------------------------
(***************************************************************************)
(* Lists of commands begin and end                                         *)
(***************************************************************************)

LEMMA RouteInv ==
    ASSUME PoolInv, NEW t \in Tenants, testnetrouteEnsure(t)
    PROVE  PoolInv'
  <1>1. PICK me : me = tenant[t]
    OBVIOUS
  <1>2. /\ me.pc = "route" /\ UNCHANGED <<lockFile, stamped, flock, nets, veths, asked, spoiled>>
        /\ Becomes(t, Commands(me, "clean", preClean(me.kind))) \/ At(t, "giveback")
    BY <1>1 DEF testnetrouteEnsure, pcOf
  <1>3. LocalInv(me) /\ TopologyOK(me, VethOf(me.name))
    BY <1>1 DEF PoolInv, LocalsInv, TopologyInv
  <1>4. \A v \in veths : ~Leased(v, t)
    BY <1>1, <1>2, NotYetHeld DEF Leased
  <1>5. CASE Becomes(t, Commands(me, "clean", preClean(me.kind)))
    <2>1. PICK r : r = Commands(me, "clean", preClean(me.kind))
      OBVIOUS
    <2>2. preClean(me.kind) \in Seq(Dels) /\ preClean(me.kind) # <<>> /\ me.kind # "kfunc"
      BY <1>2, <1>3, RemovalLists DEF LocalInv, SlotInv
    <2>3. LocalInv(r) /\ SameHandle(r, me) /\ r.pc = "clean"
      BY <1>3, <2>1, <2>2, CommandsLocal
    <2>4. TopologyOK(r, VethOf(r.name))
      BY <1>2, <1>3, <2>3 DEF TopologyOK, Early, SameHandle
    <2>5. me.pc # "idle" /\ me.pc \in HeldPCs
      BY <1>2 DEF HeldPCs
    <2>6. FilesKept
      BY <1>2, FilesSame DEF PoolInv
    <2> QED BY <1>1, <1>2, <1>4, <1>5, <2>1, <2>3, <2>4, <2>5, <2>6, QuietMove
  <1>6. CASE At(t, "giveback")
    BY <1>1, <1>2, <1>4, <1>6, AtInv
  <1> QED BY <1>2, <1>5, <1>6

LEMMA BuildFailsInv ==
    ASSUME PoolInv, NEW t \in Tenants, runIPFails(t)
    PROVE  PoolInv'
  <1>1. PICK me : me = tenant[t]
    OBVIOUS
  <1>2. /\ me.pc = "build" /\ UNCHANGED <<lockFile, stamped, flock, nets, veths, asked, spoiled>>
        /\ Becomes(t, Commands(me, "undo", rollback(me.made)))
    BY <1>1 DEF runIPFails, pcOf
  <1>3. LocalInv(me) /\ TopologyOK(me, VethOf(me.name))
    BY <1>1 DEF PoolInv, LocalsInv, TopologyInv
  <1>4. \A v \in veths : ~Leased(v, t)
    BY <1>1, <1>2, NotYetHeld DEF Leased
  <1>5. PICK r : r = Commands(me, "undo", rollback(me.made))
    OBVIOUS
  <1>6. rollback(me.made) \in Seq(Dels) /\ me.kind # "kfunc"
    BY <1>2, <1>3, UndoList DEF LocalInv, SlotInv
  <1>7. LocalInv(r) /\ SameHandle(r, me) /\ r.pc \in {"undo", "giveback"}
    BY <1>3, <1>5, <1>6, CommandsLocal
  <1>8. TopologyOK(r, VethOf(r.name))
    BY <1>2, <1>3, <1>7 DEF TopologyOK, Early, SameHandle
  <1>9. me.pc # "idle" /\ me.pc \in HeldPCs
    BY <1>2 DEF HeldPCs
  <1>10. FilesKept
    BY <1>2, FilesSame DEF PoolInv
  <1> QED BY <1>1, <1>2, <1>4, <1>5, <1>7, <1>8, <1>9, <1>10, QuietMove

\* The removal that begins will take the pair away, or fail.
LEMMA ReleaseInv ==
    ASSUME PoolInv, NEW t \in Tenants, handleNetRelease(t)
    PROVE  PoolInv'
  <1>1. PICK me : me = tenant[t]
    OBVIOUS
  <1>2. /\ me.pc = "up" /\ me.kind # "kfunc" /\ UNCHANGED <<lockFile, stamped, flock, nets, veths, asked, spoiled>>
        /\ Becomes(t, Commands([me EXCEPT !.failed = FALSE], "release", tearDown(me.kind)))
    BY <1>1 DEF handleNetRelease, pcOf
  <1>3. LocalInv(me) /\ TopologyOK(me, VethOf(me.name))
    BY <1>1 DEF PoolInv, LocalsInv, TopologyInv
  <1>4. PICK q : q = [me EXCEPT !.failed = FALSE]
    OBVIOUS
  <1>5. /\ q \in Tenant /\ q.pc = me.pc /\ q.kind = me.kind /\ q.name = me.name /\ q.slot = me.slot
        /\ q.cands = me.cands /\ q.todo = me.todo
    BY <1>3, <1>4 DEF LocalInv, Tenant
  <1>6. LocalInv(q)
    <2>1. CommandInv(q)
      BY <1>2, <1>5 DEF CommandInv
    <2>2. SlotInv(q)
      BY <1>3, <1>5 DEF LocalInv, SlotInv
    <2> QED BY <1>5, <2>1, <2>2 DEF LocalInv
  <1>7. PICK r : r = Commands(q, "release", tearDown(me.kind))
    OBVIOUS
  <1>8. /\ tearDown(me.kind) \in Seq(Dels) /\ tearDown(me.kind) # <<>>
        /\ me.kind = "isolated" => "del a" \in Range(tearDown(me.kind))
        /\ me.kind # "isolated" => "del link" \in Range(tearDown(me.kind))
    BY RemovalLists
  <1>9. LocalInv(r) /\ SameHandle(r, q) /\ r.pc = "release" /\ r.todo = tearDown(me.kind)
    <2>1. q.kind # "kfunc"
      BY <1>2, <1>5
    <2>2. tearDown(me.kind) \in Seq(Dels) /\ tearDown(me.kind) # <<>>
      BY <1>8
    <2> QED BY <1>6, <1>7, <2>1, <2>2, CommandsLocal
  <1>10. SameHandle(r, me)
    BY <1>5, <1>9 DEF SameHandle
  <1>11. TopologyOK(r, VethOf(r.name))
    BY <1>2, <1>3, <1>9, <1>10 DEF TopologyOK, Early, SameHandle
  <1>12. ASSUME NEW v \in veths, Leased(v, t) PROVE HolderKnows(v, r)
    <2>1. v.name = me.name /\ v \in VethOf(me.name)
      BY <1>1, <1>2, <1>12 DEF Leased, HolderKnows, VethOf
    <2>2. me.kind = "host" \/ me.kind = "isolated"
      BY <1>2, <1>3, Fields
    <2>3. CASE me.kind = "host"
      <3>1. v.root
        BY <1>2, <1>3, <2>1, <2>3 DEF TopologyOK
      <3>2. Queued(r, "del link")
        BY <1>8, <1>9, <2>3 DEF Queued
      <3> QED BY <1>9, <1>10, <2>1, <3>1, <3>2 DEF HolderKnows, SameHandle
    <2>4. CASE me.kind = "isolated"
      <3>1. "a" \in v.in
        BY <1>2, <1>3, <2>1, <2>4 DEF TopologyOK
      <3>2. Queued(r, "del a")
        BY <1>8, <1>9, <2>4 DEF Queued
      <3> QED BY <1>9, <1>10, <2>1, <3>1, <3>2 DEF HolderKnows, SameHandle
    <2> QED BY <2>2, <2>3, <2>4
  <1>13. me.pc # "idle" /\ me.pc \in HeldPCs
    BY <1>2 DEF HeldPCs
  <1>14. FilesKept
    BY <1>2, FilesSame DEF PoolInv
  <1>15. Becomes(t, r)
    BY <1>2, <1>4, <1>7
  <1> QED BY <1>1, <1>2, <1>9, <1>10, <1>11, <1>12, <1>13, <1>14, <1>15, QuietMove

LEMMA KfuncReleaseInv ==
    ASSUME PoolInv, NEW t \in Tenants, handleKfuncRelease(t)
    PROVE  PoolInv'
  <1>1. /\ tenant[t].pc = "up" /\ tenant[t].kind = "kfunc" /\ At(t, "giveback")
        /\ UNCHANGED <<lockFile, stamped, flock, nets, veths, asked, spoiled, mishaps>>
    BY DEF handleKfuncRelease, pcOf
  <1>2. \A v \in veths : ~Leased(v, t)
    BY <1>1, KfuncLease
  <1> QED BY <1>1, <1>2, AtInv

\* A pair that is still there when its slot is given back was left by a
\* removal that failed, and is noted.
LEMMA LeftNoted ==
    ASSUME NEW t \in Tenants, tenant[t].pc = "giveback", NEW v \in veths, Leased(v, t)
    PROVE  v.addr \in LeftBy(t)
  <1>1. tenant[t].failed /\ v.name = tenant[t].name
    BY DEF Leased, HolderKnows
  <1> QED BY <1>1 DEF LeftBy, VethOf

LEMMA GiveBackInv ==
    ASSUME PoolInv, NEW t \in Tenants, releasePoolSlot(t) \/ releaseKfuncSlot(t)
    PROVE  PoolInv'
  <1>0. DOMAIN lockFile = Slots
    BY DEF PoolInv, PoolType
  <1>1. /\ tenant[t].pc = "giveback" /\ Becomes(t, Vacant) /\ UNCHANGED <<nets, veths, asked>>
    BY DEF releasePoolSlot, releaseKfuncSlot, pcOf
  <1>2. CASE tenant[t].slot = NoSlot
    <2>1. tenant[t].kind # "kfunc"
      BY <1>1, <1>2 DEF PoolInv, LocalsInv, LocalInv, SlotInv
    <2>2. UNCHANGED <<lockFile, stamped, flock, spoiled, mishaps>>
      BY <1>2, <2>1 DEF releasePoolSlot, releaseKfuncSlot, leaseOf
    <2> QED BY <1>1, <1>2, <2>2, QuietQuit
  <1>3. CASE tenant[t].slot # NoSlot
    <2>1. GivesBack(t) /\ (spoiled' = spoiled \cup LeftBy(t) \/ (tenant[t].kind = "kfunc" /\ spoiled' = spoiled))
      BY <1>3 DEF releasePoolSlot, releaseKfuncSlot, leaseOf
    <2>2. Unlocked(tenant[t].slot) /\ \E b : lockFile' = [lockFile EXCEPT ![tenant[t].slot] = b]
      BY <2>1 DEF GivesBack, leaseOf
    <2>3. DOMAIN lockFile' = Slots /\ \A x \in Slots : x # tenant[t].slot => lockFile'[x] = lockFile[x]
      BY <1>0, <2>2
    <2>4. ASSUME NEW v \in veths, Leased(v, t) PROVE v.addr \in spoiled'
      BY <1>1, <2>1, <2>4, LeftNoted, KfuncLease
    <2> QED BY <1>1, <1>3, <2>1, <2>2, <2>3, <2>4, UnlockInv
  <1> QED BY <1>2, <1>3

\* A shell that exits leaves its pairs announced, or tears the file of a slot
\* no pair of which is still its own.
LEMMA ExitInv ==
    ASSUME PoolInv, NEW p \in Shells, shellExits(p)
    PROVE  PoolInv'
  <1>1. PICK M : M = {t \in Tenants : ShellOf[t] = p}
    OBVIOUS
  <1>2. /\ tenant' = [t \in Tenants |-> IF t \in M THEN Vacant ELSE tenant[t]]
        /\ flock' = [s \in Slots |-> IF flock[s] \in M THEN NoTenant ELSE flock[s]]
        /\ UNCHANGED <<nets, veths, asked>>
    BY <1>1 DEF shellExits
  <1>0. DOMAIN lockFile = Slots /\ M \in SUBSET Tenants
    BY <1>1 DEF PoolInv, PoolType
  <1>3. CASE UNCHANGED <<lockFile, stamped, spoiled>>
    BY <1>0, <1>2, <1>3, Vacated
  <1>4. ASSUME NEW t \in M, tenant[t].pc \in {"write", "giveback"}, tenant[t].slot # NoSlot,
               lockFile' = [lockFile EXCEPT ![tenant[t].slot] = Blank],
               spoiled' = spoiled \cup LeftBy(t)
        PROVE  PoolInv'
    <2>1. t \in Tenants
      BY <1>0
    <2>2. tenant[t].slot \in Slots /\ flock[tenant[t].slot] = t
      <3>1. tenant[t].slot \in Slots \cup {NoSlot}
        BY <2>1 DEF PoolInv, PoolType, Tenant
      <3> QED BY <1>4, <2>1, <3>1 DEF PoolInv, LeaseInv
    <2>3. DOMAIN lockFile' = Slots /\ \A x \in Slots : x # tenant[t].slot => lockFile'[x] = lockFile[x]
      BY <1>0, <1>4
    <2>4. \A x \in Slots : flock[x] \notin M => lockFile'[x] = lockFile[x]
      BY <2>2, <2>3
    <2>5. ASSUME NEW v \in veths, v.addr # NoSlot, v.addr \notin spoiled', Announced(v)
          PROVE  lockFile'[v.addr] = lockFile[v.addr]
      <3>1. v.addr \in Slots
        BY <2>5, Holder DEF PoolInv
      <3>2. ASSUME v.addr = tenant[t].slot PROVE FALSE
        <4>1. Leased(v, t)
          BY <1>4, <2>1, <2>2, <2>5, <3>2, TenantsAssumption DEF Leased, Announced
        <4>2. tenant[t].pc = "giveback"
          BY <1>4, <4>1 DEF Leased, HolderKnows
        <4> QED BY <1>4, <2>1, <2>5, <4>1, <4>2, LeftNoted
      <3> QED BY <2>3, <3>1, <3>2
    <2> QED BY <1>0, <1>2, <1>4, <2>3, <2>4, <2>5, Vacated
  <1>5. \/ UNCHANGED <<lockFile, stamped, spoiled>>
        \/ \E t \in M : /\ tenant[t].pc \in {"write", "giveback"} /\ tenant[t].slot # NoSlot
                        /\ lockFile' = [lockFile EXCEPT ![tenant[t].slot] = Blank]
                        /\ spoiled' = spoiled \cup LeftBy(t)
    BY <1>1 DEF shellExits, leaseOf, pcOf
  <1> QED BY <1>3, <1>4, <1>5

-----------------------------------------------------------------------------
(***************************************************************************)
(* Commands that remove                                                    *)
(***************************************************************************)

\* A removal takes away what has the handle's name, and nothing else.
Removes(n, c) ==
    /\ veths' \subseteq veths /\ \A v \in veths : v.name # n => v \in veths'
    /\ \A v \in veths' : \A i \in v.in : Net(v.name, i) \in nets'

\* The pair v is not one command c would have removed.
Outlived(v, c) == (c = "del link" => ~v.root) /\ (c = "del a" => "a" \notin v.in)

LEMMA IpRemoves ==
    ASSUME VethInv, NEW t, NEW c \in Dels, ipDoes(t, c)
    PROVE  Removes(tenant[t].name, c) /\ \A v \in veths' : v.name = tenant[t].name => Outlived(v, c)
  <1>1. PICK n : n = tenant[t].name
    OBVIOUS
  <1>2. CASE c = "del link"
    <2>1. veths' = veths \ RootVeth(n) /\ nets' = nets
      BY <1>1, <1>2 DEF ipDoes
    <2>2. veths' = {v \in veths : ~(v.name = n /\ v.root)}
      BY <2>1 DEF RootVeth, VethOf
    <2> QED BY <1>1, <1>2, <2>1, <2>2 DEF Removes, Outlived, VethInv
  <1>3. CASE c = "del a"
    <2>1. nets' = nets \ {Net(n, "a")} /\ veths' = {v \in veths : ~(v.name = n /\ "a" \in v.in)}
      BY <1>1, <1>3 DEF ipDoes
    <2>2. \A m, i : Net(m, i) = Net(n, "a") => m = n /\ i = "a"
      BY DEF Net
    <2>3. \A v \in veths' : \A i \in v.in : Net(v.name, i) \in nets'
      BY <2>1, <2>2 DEF VethInv
    <2> QED BY <1>1, <1>3, <2>1, <2>3 DEF Removes, Outlived
  <1>4. CASE c = "del b"
    <2>1. nets' = nets \ {Net(n, "b")} /\ veths' = {v \in veths : ~(v.name = n /\ "b" \in v.in)}
      BY <1>1, <1>4 DEF ipDoes
    <2>2. \A m, i : Net(m, i) = Net(n, "b") => m = n /\ i = "b"
      BY DEF Net
    <2>3. \A v \in veths' : \A i \in v.in : Net(v.name, i) \in nets'
      BY <2>1, <2>2 DEF VethInv
    <2> QED BY <1>1, <1>4, <2>1, <2>3 DEF Removes, Outlived
  <1> QED BY <1>2, <1>3, <1>4 DEF Dels

\* Where there is nothing to remove, what is there is not to be removed.
LEMMA IpCannot ==
    ASSUME VethInv, NEW n, NEW c \in Dels, ~ipCan(n, c), NEW v \in veths, v.name = n
    PROVE  Outlived(v, c)
  <1>1. CASE c = "del link"
    <2>1. RootVeth(n) = {}
      BY <1>1 DEF ipCan
    <2>2. ~v.root
      BY <2>1 DEF RootVeth, VethOf
    <2> QED BY <1>1, <2>2 DEF Outlived
  <1>2. CASE c = "del a"
    <2>1. Net(n, "a") \notin nets
      BY <1>2 DEF ipCan
    <2>2. "a" \notin v.in
      BY <2>1 DEF VethInv
    <2> QED BY <1>2, <2>2 DEF Outlived
  <1>3. CASE c = "del b"
    BY <1>3 DEF Outlived
  <1> QED BY <1>1, <1>2, <1>3 DEF Dels

\* What has another name is not touched; two handles share a name only if it
\* is the one scripts pass.
LEMMA OthersTopology ==
    ASSUME PoolInv, VethInv', NEW t \in Tenants, Live(t),
           \A u \in Tenants : u # t => tenant'[u] = tenant[u],
           \A v \in veths : v.name # tenant[t].name => v \in veths',
           \A v \in veths' : v.name # tenant[t].name => v \in veths,
           TopologyOK(tenant'[t], {v \in veths' : v.name = tenant'[t].name})
    PROVE  TopologyInv'
  <1>1. ASSUME NEW u \in Tenants, u # t
        PROVE  TopologyOK(tenant[u], {v \in veths' : v.name = tenant[u].name})
    <2>1. CASE tenant[u].name # tenant[t].name
      <3>1. {v \in veths' : v.name = tenant[u].name} = VethOf(tenant[u].name)
        BY <2>1 DEF VethOf
      <3> QED BY <3>1 DEF PoolInv, TopologyInv
    <2>2. CASE ~Live(u)
      BY <2>2 DEF TopologyOK, Early, Live
    <2>3. CASE Live(u) /\ tenant[u].name = tenant[t].name
      <3>1. tenant[u].name = Explicit
        BY <1>1, <2>3 DEF PoolInv, NameInv
      <3>2. tenant[u].kind # "isolated"
        BY <3>1 DEF PoolInv, LocalsInv, LocalInv, SlotInv
      <3>3. \A v \in {v \in veths' : v.name = tenant[u].name} : v.root
        BY <3>1 DEF VethInv
      <3> QED BY <3>1, <3>2, <3>3 DEF TopologyOK
    <2> QED BY <2>1, <2>2, <2>3
  <1> QED BY <1>1 DEF TopologyInv, VethOf

LEMMA RemovalInv ==
    ASSUME PoolInv, NEW t \in Tenants, tenant[t].pc \in {"clean", "undo", "release"},
           NEW q, LocalInv(q), SameHandle(q, tenant[t]), q.pc = tenant[t].pc, q.todo = tenant[t].todo,
           tenant[t].failed => q.failed, Becomes(t, Stepped(q)),
           Removes(tenant[t].name, Head(q.todo)),
           \A v \in veths' : v.name = tenant[t].name => q.failed \/ Outlived(v, Head(q.todo)),
           UNCHANGED <<lockFile, flock, asked, spoiled>>
    PROVE  PoolInv'
  <1> USE DEF PoolInv
  <1>0. PICK me : me = tenant[t]
    OBVIOUS
  <1>1. PICK r : r = Stepped(q)
    OBVIOUS
  <1>2. /\ LocalInv(r) /\ SameHandle(r, me) /\ r.failed = q.failed
        /\ q.todo \in Seq(Dels) /\ q.todo # <<>>
        /\ Tail(q.todo) # <<>> => r.pc = me.pc /\ r.todo = Tail(q.todo)
        /\ Tail(q.todo) = <<>> => r.pc = IF me.pc = "clean" THEN "build" ELSE "giveback"
    BY <1>0, <1>1, RemovalStepped DEF SameHandle
  <1>3. /\ tenant' \in [Tenants -> Tenant] /\ LocalsInv'
        /\ tenant'[t] = r /\ \A u \in Tenants : u # t => tenant'[u] = tenant[u]
    BY <1>1, <1>2, Becoming
  <1>4. veths' \subseteq veths /\ (\A v \in veths : v.name # me.name => v \in veths')
    BY <1>0 DEF Removes
  <1>5. PoolType'
    BY <1>3, <1>4 DEF PoolType
  <1>6. NameInv'
    <2>1. \A u \in Tenants : tenant'[u].pc = "idle" \/ (tenant[u].pc # "idle" /\ tenant'[u].name = tenant[u].name)
      BY <1>0, <1>2, <1>3 DEF SameHandle
    <2> QED BY <1>4, <2>1, NamesKept
  <1>f. FilesKept
    BY FilesSame
  <1>7. LeaseInv'
    <2>1. \A u \in Tenants : SameHandle(tenant'[u], tenant[u])
      BY <1>0, <1>2, <1>3 DEF SameHandle
    <2>2. me.pc \in HeldPCs
      BY <1>0 DEF HeldPCs
    <2>3. \A u \in Tenants :
               /\ tenant'[u].slot = tenant[u].slot
               /\ tenant'[u].slot # NoSlot /\ tenant'[u].pc \in HeldPCs =>
                     tenant[u].pc \in HeldPCs /\ SameHandle(tenant'[u], tenant[u])
      BY <1>0, <1>3, <2>1, <2>2 DEF SameHandle
    <2> QED BY <1>f, <2>3, LeaseKept
  <1>8. VethInv'
    BY <1>4 DEF VethInv, Removes
  <1>9. TopologyInv'
    <2>1. TopologyOK(me, VethOf(me.name))
      BY <1>0 DEF TopologyInv
    <2>2. {v \in veths' : v.name = r.name} \subseteq VethOf(me.name)
      BY <1>2, <1>4 DEF VethOf, SameHandle
    <2>3. me.kind = "isolated" => me.name # Explicit
      BY <1>0 DEF LocalsInv, LocalInv, SlotInv
    <2>4. PICK V : V = {v \in veths' : v.name = r.name}
      OBVIOUS
    <2>5. V \subseteq VethOf(me.name)
      BY <2>2, <2>4
    <2>6. TopologyOK(r, V)
      <3>1. CASE me.pc = "clean"
        <4>1. me.name # Explicit => VethOf(me.name) = {}
          BY <2>1, <3>1 DEF TopologyOK, Early
        <4>2. r.pc = "clean" \/ r.pc = "build"
          BY <1>2, <3>1
        <4>3. \A v \in V : me.kind = "host" => v.root
          BY <2>1, <2>5, <3>1 DEF TopologyOK
        <4> QED BY <1>2, <2>3, <2>5, <4>1, <4>2, <4>3 DEF TopologyOK, SameHandle
      <3>2. CASE me.pc # "clean"
        <4>1. me.pc = "undo" \/ me.pc = "release"
          BY <1>0, <3>2
        <4>2. r.pc = me.pc \/ r.pc = "giveback"
          BY <1>2, <3>2
        <4> QED BY <1>2, <2>1, <2>5, <4>1, <4>2 DEF TopologyOK, Early, SameHandle
      <3> QED BY <3>1, <3>2
    <2>7. TopologyOK(r, {v \in veths' : v.name = r.name})
      BY <2>4, <2>6
    <2>8. TopologyOK(tenant'[t], {v \in veths' : v.name = tenant'[t].name})
      BY <1>3, <2>7
    <2>9. Live(t)
      BY DEF Live
    <2> QED BY <1>0, <1>3, <1>4, <1>8, <2>8, <2>9, OthersTopology
  <1>10. AddressInv'
    <2>1. ASSUME NEW v \in veths', Leased(v, t) PROVE HolderKnows(v, r)
      <3>1. me.pc = "release" /\ v.name = me.name
        BY <1>0, <2>1 DEF Leased, HolderKnows
      <3>2. r.name = v.name /\ (r.pc = "release" \/ r.pc = "giveback")
        BY <1>2, <3>1 DEF SameHandle
      <3>3. CASE q.failed
        BY <1>2, <3>2, <3>3 DEF HolderKnows
      <3>4. CASE ~q.failed
        <4>1. Outlived(v, Head(q.todo))
          BY <1>0, <3>1, <3>4
        <4>2. \/ v.root /\ "del link" \in Range(q.todo)
              \/ "a" \in v.in /\ "del a" \in Range(q.todo)
          BY <1>0, <2>1, <3>1, <3>4 DEF Leased, HolderKnows, Queued
        <4>3. Range(q.todo) = {Head(q.todo)} \cup Range(Tail(q.todo))
          BY <1>2, RangeTail
        <4>4. \/ v.root /\ "del link" \in Range(Tail(q.todo))
              \/ "a" \in v.in /\ "del a" \in Range(Tail(q.todo))
          BY <4>1, <4>2, <4>3 DEF Outlived
        <4>5. Tail(q.todo) # <<>>
          BY <4>4, RangeEmpty
        <4>6. r.pc = "release" /\ r.todo = Tail(q.todo)
          BY <1>2, <3>1, <4>5
        <4> QED BY <3>2, <4>4, <4>6 DEF HolderKnows, Queued
      <3> QED BY <3>3, <3>4
    <2> QED BY <1>3, <1>4, <1>f, <2>1, AddressKept
  <1> QED BY <1>3, <1>5, <1>6, <1>7, <1>8, <1>9, <1>10

LEMMA IgnoreErrInv ==
    ASSUME PoolInv, NEW t \in Tenants, runIPIgnoreErr(t)
    PROVE  PoolInv'
  <1>1. PICK me : me = tenant[t]
    OBVIOUS
  <1>2. PICK c : c = Head(me.todo)
    OBVIOUS
  <1>3. me.pc \in {"clean", "undo", "release"} /\ UNCHANGED <<lockFile, stamped, flock, asked, spoiled>>
    BY <1>1 DEF runIPIgnoreErr, pcOf
  <1>4. LocalInv(me) /\ VethInv
    BY <1>1 DEF PoolInv, LocalsInv
  <1>5. c \in Dels
    BY <1>2, <1>3, <1>4, RemovalStepped
  <1>6. CASE ipCan(me.name, c) /\ ipDoes(t, c) /\ Becomes(t, Stepped(me))
    <2>1. SameHandle(me, me)
      BY DEF SameHandle
    <2>2. Removes(me.name, c) /\ \A v \in veths' : v.name = me.name => Outlived(v, c)
      BY <1>1, <1>4, <1>5, <1>6, IpRemoves
    <2> QED BY <1>1, <1>2, <1>3, <1>4, <1>6, <2>1, <2>2, RemovalInv
  <1>7. CASE /\ Becomes(t, Stepped([me EXCEPT !.failed = @ \/ ipCan(me.name, c)]))
             /\ UNCHANGED <<nets, veths>>
    <2>1. PICK b \in BOOLEAN : b = (me.failed \/ ipCan(me.name, c))
      OBVIOUS
    <2>2. PICK q : q = [me EXCEPT !.failed = b]
      OBVIOUS
    <2>3. q = [me EXCEPT !.failed = @ \/ ipCan(me.name, c)]
      BY <2>1, <2>2
    <2>4. /\ q \in Tenant /\ q.pc = me.pc /\ q.kind = me.kind /\ q.name = me.name /\ q.slot = me.slot
          /\ q.cands = me.cands /\ q.todo = me.todo /\ q.failed = b
      BY <1>4, <2>1, <2>2 DEF LocalInv, Tenant
    <2>5. LocalInv(q) /\ SameHandle(q, me)
      <3>1. CommandInv(q)
        BY <1>4, <2>4 DEF LocalInv, CommandInv
      <3>2. SlotInv(q)
        BY <1>4, <2>4 DEF LocalInv, SlotInv
      <3> QED BY <2>4, <3>1, <3>2 DEF LocalInv, SameHandle
    <2>6. Removes(me.name, c)
      BY <1>4, <1>7 DEF Removes, VethInv
    <2>7. \A v \in veths' : v.name = me.name => q.failed \/ Outlived(v, c)
      BY <1>4, <1>5, <1>7, <2>1, <2>4, IpCannot
    <2>8. me.failed => q.failed
      BY <2>1, <2>4
    <2> QED BY <1>1, <1>2, <1>3, <1>7, <2>3, <2>4, <2>5, <2>6, <2>7, <2>8, RemovalInv
  <1> QED BY <1>1, <1>2, <1>6, <1>7 DEF runIPIgnoreErr

-----------------------------------------------------------------------------
(***************************************************************************)
(* Commands that build                                                     *)
(***************************************************************************)

\* What is common to them: other names are left alone, and a pair gets the
\* addresses of the handle's slot with the last command only.
LEMMA Built ==
    ASSUME PoolInv, NEW t \in Tenants, tenant[t].pc = "build",
           NEW r, LocalInv(r), SameHandle(r, tenant[t]), r.pc \in {"build", "up"}, Becomes(t, r),
           UNCHANGED <<lockFile, flock, asked, spoiled>>,
           veths' \subseteq Veth, VethInv',
           \A v \in veths : v.name # tenant[t].name => v \in veths',
           \A v \in veths' : v.name # tenant[t].name => v \in veths,
           TopologyOK(r, {v \in veths' : v.name = r.name}),
           \A w \in veths' : w.name = tenant[t].name /\ w.addr # NoSlot =>
               \/ r.pc = "up" /\ w.addr = tenant[t].slot
               \/ \E v \in veths : /\ v.name = w.name /\ v.addr = w.addr
                                   /\ (v.root => w.root) /\ ("a" \in v.in => "a" \in w.in)
    PROVE  PoolInv'
  <1> USE DEF PoolInv
  <1>0. PICK me : me = tenant[t]
    OBVIOUS
  <1>1. /\ tenant' \in [Tenants -> Tenant] /\ LocalsInv'
        /\ tenant'[t] = r /\ (\A u \in Tenants : u # t => tenant'[u] = tenant[u])
    BY Becoming
  <1>2. PoolType'
    BY <1>1 DEF PoolType
  <1>3. Live(t)
    BY DEF Live
  <1>4. NameInv'
    <2>1. \A u \in Tenants : tenant'[u].pc = "idle" \/ (tenant[u].pc # "idle" /\ tenant'[u].name = tenant[u].name)
      BY <1>1 DEF SameHandle
    <2>2. \A v \in veths' : (\E w \in veths : v.name = w.name) \/ (\E u \in Tenants : Live(u) /\ v.name = tenant[u].name)
      BY <1>3
    <2> QED BY <2>1, <2>2, NamesKept
  <1>5. LeaseInv'
    <2>1. FilesKept
      BY FilesSame
    <2>2. tenant[t].pc \in HeldPCs
      BY DEF HeldPCs
    <2>3. \A u \in Tenants :
               /\ tenant'[u].slot = tenant[u].slot
               /\ tenant'[u].slot # NoSlot /\ tenant'[u].pc \in HeldPCs =>
                     tenant[u].pc \in HeldPCs /\ SameHandle(tenant'[u], tenant[u])
      BY <1>1, <2>2 DEF SameHandle
    <2> QED BY <2>1, <2>3, LeaseKept
  <1>6. TopologyInv'
    BY <1>1, <1>3, OthersTopology
  <1>7. AddressInv'
    <2> SUFFICES ASSUME NEW w \in veths', w.addr # NoSlot, w.addr \notin spoiled PROVE Announced(w)'
      BY DEF AddressInv
    <2>1. ASSUME NEW v \in veths, v.name = w.name, v.addr = w.addr, v.root => w.root, "a" \in v.in => "a" \in w.in
          PROVE  Announced(w)'
      <3>1. Announced(v)
        BY <2>1 DEF AddressInv
      <3>2. Filed(w, lockFile[w.addr])
        <4>1. Filed(v, lockFile[w.addr])
          BY <2>1, <3>1 DEF Announced
        <4> QED BY <2>1, <4>1 DEF Filed
      <3>3. ASSUME flock[w.addr] # NoTenant PROVE HolderKnows(w, tenant'[flock[w.addr]])
        <4>1. PICK u : u = flock[w.addr]
          OBVIOUS
        <4>2. u \in Tenants
          BY <2>1, <3>3, <4>1, Holder
        <4>3. HolderKnows(v, tenant[u])
          BY <2>1, <3>1, <3>3, <4>1 DEF Announced
        <4>4. u # t
          BY <4>3 DEF HolderKnows
        <4>5. HolderKnows(w, tenant[u])
          BY <2>1, <4>3 DEF HolderKnows
        <4> QED BY <1>1, <4>1, <4>2, <4>4, <4>5
      <3> QED BY <3>2, <3>3 DEF Announced
    <2>2. CASE w.name = me.name /\ r.pc = "up" /\ w.addr = me.slot
      <3>1. me.kind # "kfunc"
        BY <1>0 DEF LocalsInv, LocalInv, SlotInv
      <3>2. me.slot # NoSlot /\ flock[me.slot] = t /\ lockFile[me.slot] = provenance(t, "acquired")
        BY <1>0, <2>2 DEF LeaseInv, HeldPCs
      <3>3. Filed(w, lockFile[w.addr])
        BY <1>0, <2>2, <3>1, <3>2 DEF Filed, provenance, Body, Sides
      <3>4. HolderKnows(w, r)
        BY <1>0, <2>2 DEF HolderKnows, SameHandle
      <3> QED BY <1>1, <2>2, <3>2, <3>3, <3>4 DEF Announced
    <2>3. CASE w.name # me.name
      BY <1>0, <2>1, <2>3
    <2> QED BY <1>0, <2>1, <2>2, <2>3
  <1> QED BY <1>1, <1>2, <1>4, <1>5, <1>6, <1>7

\* A handle that builds, and what it becomes with the command c.
Building(me, c, r) ==
    /\ me.pc = "build" /\ me.kind \in {"host", "isolated"} /\ (me.kind = "isolated" => me.name # Explicit)
    /\ me.slot \in NetSlots \cup {NoSlot} /\ me.name \in Names
    /\ LocalInv(r) /\ SameHandle(r, me)
    /\ c \in Builds
    /\ c # "addr" => r.pc = "build" /\ Range(me.todo) = {c} \cup Range(r.todo)
    /\ c = "addr" => r.pc = "up" /\ Range(me.todo) = {c}
    /\ c = "add link" => "add link" \notin Range(r.todo) /\ "move a" \in Range(r.todo)

LEMMA RunsIP ==
    ASSUME PoolInv, NEW t \in Tenants, runIP(t)
    PROVE  \E r : Becomes(t, r) /\ Building(tenant[t], Head(tenant[t].todo), r)
  <1>1. PICK me : me = tenant[t]
    OBVIOUS
  <1>2. PICK c : c = Head(me.todo)
    OBVIOUS
  <1>3. LocalInv(me) /\ me.pc = "build"
    BY <1>1 DEF PoolInv, LocalsInv, runIP, pcOf
  <1>4. PICK q : q = [me EXCEPT !.made = @ \cup ({c} \cap {"add a", "add b", "add link"})]
    OBVIOUS
  <1>5. /\ q \in Tenant /\ q.pc = me.pc /\ q.kind = me.kind /\ q.name = me.name /\ q.slot = me.slot
        /\ q.cands = me.cands /\ q.todo = me.todo
    <2>1. {c} \cap {"add a", "add b", "add link"} \subseteq Builds
      BY DEF Builds
    <2> QED BY <1>3, <1>4, <2>1 DEF LocalInv, Tenant
  <1>6. LocalInv(q)
    <2>1. CommandInv(q)
      BY <1>3, <1>5 DEF LocalInv, CommandInv
    <2>2. SlotInv(q)
      BY <1>3, <1>5 DEF LocalInv, SlotInv
    <2> QED BY <1>5, <2>1, <2>2 DEF LocalInv
  <1>7. PICK r : r = Stepped(q)
    OBVIOUS
  <1>8. Becomes(t, r)
    BY <1>1, <1>2, <1>4, <1>7 DEF runIP
  <1>9. /\ LocalInv(r) /\ SameHandle(r, me)
        /\ me.todo \in Seq(Builds) /\ BuildList(me.todo) /\ me.todo # <<>>
        /\ Tail(me.todo) # <<>> => r.pc = "build" /\ r.todo = Tail(me.todo)
        /\ Tail(me.todo) = <<>> => r.pc = "up"
    BY <1>3, <1>5, <1>6, <1>7, BuildStepped DEF SameHandle
  <1>10. Range(me.todo) = {c} \cup Range(Tail(me.todo))
    BY <1>2, <1>9, RangeTail
  <1>11. c \in Builds
    BY <1>2, <1>9
  <1>12. CASE Tail(me.todo) # <<>>
    <2>1. /\ c # "addr"
          /\ c = "add link" => "add link" \notin Range(Tail(me.todo)) /\ "move a" \in Range(Tail(me.todo))
      BY <1>2, <1>9, <1>12, BuildTail
    <2>2. Building(me, c, r)
      BY <1>3, <1>9, <1>10, <1>11, <1>12, <2>1 DEF Building, LocalInv, SlotInv, Tenant
    <2> QED BY <1>1, <1>2, <1>8, <2>2
  <1>13. CASE Tail(me.todo) = <<>>
    <2>1. c = "addr" /\ Range(me.todo) = {"addr"}
      BY <1>2, <1>9, <1>13, BuildHead
    <2>2. Building(me, c, r)
      BY <1>3, <1>9, <1>11, <1>13, <2>1 DEF Building, LocalInv, SlotInv, Tenant
    <2> QED BY <1>1, <1>2, <1>8, <2>2
  <1> QED BY <1>12, <1>13

LEMMA AddsNet ==
    ASSUME PoolInv, NEW t \in Tenants, NEW r, Building(tenant[t], Head(tenant[t].todo), r), Becomes(t, r),
           UNCHANGED <<lockFile, flock, asked, spoiled>>,
           Head(tenant[t].todo) \in {"add a", "add b"}, ipDoes(t, Head(tenant[t].todo))
    PROVE  PoolInv'
  <1>1. PICK me : me = tenant[t]
    OBVIOUS
  <1>2. PICK c : c = Head(me.todo)
    OBVIOUS
  <1>3. Building(me, c, r)
    BY <1>1, <1>2
  <1>4. veths' = veths /\ nets \subseteq nets'
    BY <1>1, <1>2 DEF ipDoes
  <1>5. TopologyOK(r, VethOf(r.name))
    <2>1. TopologyOK(me, VethOf(me.name))
      BY <1>1 DEF PoolInv, TopologyInv
    <2>2. r.pc = "build" /\ me.pc = "build" /\ Range(me.todo) = {c} \cup Range(r.todo)
      BY <1>1, <1>2, <1>3 DEF Building
    <2>3. r.name = me.name /\ r.kind = me.kind /\ r.slot = me.slot
      BY <1>3 DEF Building, SameHandle
    <2> QED BY <1>1, <1>2, <2>1, <2>2, <2>3 DEF TopologyOK, Early, Queued
  <1>6. TopologyOK(r, {v \in veths' : v.name = r.name})
    BY <1>4, <1>5 DEF VethOf
  <1>7. VethInv'
    BY <1>4 DEF PoolInv, VethInv
  <1>8. veths' \subseteq Veth
    BY <1>4 DEF PoolInv, PoolType
  <1>9. LocalInv(r) /\ SameHandle(r, tenant[t]) /\ r.pc \in {"build", "up"} /\ tenant[t].pc = "build"
    BY DEF Building
  <1> QED BY <1>4, <1>6, <1>7, <1>8, <1>9, Built

LEMMA AddsLink ==
    ASSUME PoolInv, NEW t \in Tenants, NEW r, Building(tenant[t], Head(tenant[t].todo), r), Becomes(t, r),
           UNCHANGED <<lockFile, flock, asked, spoiled>>,
           Head(tenant[t].todo) = "add link", ipCan(tenant[t].name, "add link"), ipDoes(t, "add link")
    PROVE  PoolInv'
  <1>1. PICK me : me = tenant[t]
    OBVIOUS
  <1>2. PICK n : n = me.name
    OBVIOUS
  <1>3. PICK x : x = [name |-> n, root |-> TRUE, in |-> {}, addr |-> NoSlot]
    OBVIOUS
  <1>4. Building(me, "add link", r)
    BY <1>1
  <1>5. veths' = veths \cup {x} /\ nets' = nets
    BY <1>1, <1>2, <1>3 DEF ipDoes
  <1>6. x \in Veth /\ x.name = n /\ x.root /\ x.in = {} /\ x.addr = NoSlot
    BY <1>2, <1>3, <1>4 DEF Veth, Building
  <1>7. TopologyOK(me, VethOf(n))
    BY <1>1, <1>2 DEF PoolInv, TopologyInv
  <1>8. r.pc = "build" /\ me.pc = "build" /\ Range(me.todo) = {"add link"} \cup Range(r.todo)
    BY <1>1, <1>4 DEF Building
  <1>9. r.name = me.name /\ r.kind = me.kind /\ r.slot = me.slot
    BY <1>4 DEF Building, SameHandle
  <1>10. \A v \in veths : v.name # n
    <2>1. CASE n = Explicit
      <3>1. RootVeth(n) = {}
        BY <1>1, <1>2 DEF ipCan
      <3>2. \A v \in veths : v.name = n => v.root
        BY <2>1 DEF PoolInv, VethInv
      <3> QED BY <3>1, <3>2 DEF RootVeth, VethOf
    <2>2. CASE n # Explicit
      <3>1. Early(me)
        BY <1>8 DEF Early, Queued
      <3>2. VethOf(n) = {}
        BY <1>2, <1>7, <2>2, <3>1 DEF TopologyOK
      <3> QED BY <3>2 DEF VethOf
    <2> QED BY <2>1, <2>2
  <1>11. {v \in veths' : v.name = n} = {x}
    BY <1>5, <1>6, <1>10
  <1>12. TopologyOK(r, {x})
    <2>1. "add link" \notin Range(r.todo) /\ "move a" \in Range(r.todo)
      BY <1>4 DEF Building
    <2>2. ~Early(r)
      BY <1>8, <2>1 DEF Early, Queued
    <2> QED BY <1>6, <1>8, <2>1, <2>2 DEF TopologyOK, Queued
  <1>13. TopologyOK(r, {v \in veths' : v.name = r.name})
    BY <1>2, <1>9, <1>11, <1>12
  <1>14. VethInv'
    BY <1>5, <1>6, <1>10 DEF PoolInv, VethInv
  <1>15. veths' \subseteq Veth
    BY <1>5, <1>6 DEF PoolInv, PoolType
  <1>16. LocalInv(r) /\ SameHandle(r, tenant[t]) /\ r.pc \in {"build", "up"} /\ tenant[t].pc = "build"
    BY DEF Building
  <1>17. \A v \in veths' : v = x \/ v \in veths
    BY <1>5
  <1>18. \A v \in veths : v \in veths'
    BY <1>5
  <1>19. x.name = tenant[t].name
    BY <1>1, <1>2, <1>6
  <1> QED BY <1>6, <1>13, <1>14, <1>15, <1>16, <1>17, <1>18, <1>19, Built

\* The pair v after command c of handle me.
Changed(me, c, v) ==
    [name |-> v.name,
     root |-> IF c = "move a" THEN me.kind = "host" ELSE v.root,
     in   |-> IF c = "move a" THEN v.in \cup {"a"} ELSE IF c = "move b" THEN v.in \cup {"b"} ELSE v.in,
     addr |-> IF c = "addr" THEN me.slot ELSE v.addr]

LEMMA EditIn ==
    ASSUME NEW v \in Veth, NEW J \in SUBSET {"a", "b"}
    PROVE  [v EXCEPT !.in = J] = [name |-> v.name, root |-> v.root, in |-> J, addr |-> v.addr]
  BY DEF Veth

LEMMA EditRoot ==
    ASSUME NEW v \in Veth, NEW b \in BOOLEAN
    PROVE  [v EXCEPT !.root = b] = [name |-> v.name, root |-> b, in |-> v.in, addr |-> v.addr]
  BY DEF Veth

LEMMA IpChanges ==
    ASSUME PoolType, NEW t, NEW c \in {"move a", "move b", "addr"}, ipDoes(t, c)
    PROVE  /\ veths' = {IF v.name = tenant[t].name THEN Changed(tenant[t], c, v) ELSE v : v \in veths}
           /\ nets' = nets
  <1>1. PICK n : n = tenant[t].name
    OBVIOUS
  <1>2. \A v \in veths : v \in Veth
    BY DEF PoolType
  <1>3. \A v \in veths : v \in VethOf(n) <=> v.name = n
    BY DEF VethOf
  <1>4. CASE c = "move a"
    <2>0. PICK b \in BOOLEAN : b = (tenant[t].kind = "host")
      OBVIOUS
    <2>1. /\ veths' = {IF v \in VethOf(n) THEN [v EXCEPT !.in = @ \cup {"a"}, !.root = b] ELSE v : v \in veths}
          /\ nets' = nets
      BY <1>1, <1>4, <2>0 DEF ipDoes
    <2>2. ASSUME NEW v \in Veth PROVE [v EXCEPT !.in = @ \cup {"a"}, !.root = b] = Changed(tenant[t], c, v)
      <3>1. [v EXCEPT !.in = @ \cup {"a"}, !.root = b]
              = [name |-> v.name, root |-> b, in |-> v.in \cup {"a"}, addr |-> v.addr]
        <4>1. PICK J \in SUBSET {"a", "b"} : J = v.in \cup {"a"}
          BY DEF Veth
        <4>2. [[v EXCEPT !.in = J] EXCEPT !.root = b] = [name |-> v.name, root |-> b, in |-> J, addr |-> v.addr]
          <5>1. PICK x : x = [v EXCEPT !.in = J]
            OBVIOUS
          <5>2. x \in Veth /\ x.name = v.name /\ x.in = J /\ x.addr = v.addr
            BY <5>1 DEF Veth
          <5>3. [x EXCEPT !.root = b] = [name |-> x.name, root |-> b, in |-> x.in, addr |-> x.addr]
            BY <5>2, EditRoot
          <5> QED BY <5>1, <5>2, <5>3
        <4> QED BY <4>1, <4>2
      <3>2. Changed(tenant[t], c, v) = [name |-> v.name, root |-> b, in |-> v.in \cup {"a"}, addr |-> v.addr]
        BY <1>4, <2>0, Zenon DEF Changed
      <3> QED BY <3>1, <3>2
    <2> QED BY <1>1, <1>2, <1>3, <2>1, <2>2
  <1>5. CASE c = "move b"
    <2>1. /\ veths' = {IF v \in VethOf(n) THEN [v EXCEPT !.in = @ \cup {"b"}] ELSE v : v \in veths}
          /\ nets' = nets
      BY <1>1, <1>5 DEF ipDoes
    <2>2. ASSUME NEW v \in Veth PROVE [v EXCEPT !.in = @ \cup {"b"}] = Changed(tenant[t], c, v)
      <3>1. [v EXCEPT !.in = @ \cup {"b"}] = [name |-> v.name, root |-> v.root, in |-> v.in \cup {"b"}, addr |-> v.addr]
        <4>1. PICK J \in SUBSET {"a", "b"} : J = v.in \cup {"b"}
          BY DEF Veth
        <4> QED BY <4>1, EditIn
      <3>2. Changed(tenant[t], c, v) = [name |-> v.name, root |-> v.root, in |-> v.in \cup {"b"}, addr |-> v.addr]
        <4>1. c # "move a" /\ c # "addr"
          BY <1>5
        <4> QED BY <1>5, <4>1, Zenon DEF Changed
      <3> QED BY <3>1, <3>2
    <2> QED BY <1>1, <1>2, <1>3, <2>1, <2>2
  <1>6. CASE c = "addr"
    <2>1. /\ veths' = {IF v \in VethOf(n) THEN [v EXCEPT !.addr = tenant[t].slot] ELSE v : v \in veths}
          /\ nets' = nets
      BY <1>1, <1>6 DEF ipDoes, leaseOf
    <2>2. \A v \in Veth : [v EXCEPT !.addr = tenant[t].slot] = Changed(tenant[t], c, v)
      BY <1>6 DEF Changed, Veth
    <2> QED BY <1>1, <1>2, <1>3, <2>1, <2>2
  <1> QED BY <1>4, <1>5, <1>6

LEMMA Changes ==
    ASSUME PoolInv, NEW t \in Tenants, NEW r, Building(tenant[t], Head(tenant[t].todo), r), Becomes(t, r),
           UNCHANGED <<lockFile, flock, asked, spoiled>>,
           Head(tenant[t].todo) \in {"move a", "move b", "addr"},
           ipCan(tenant[t].name, Head(tenant[t].todo)), ipDoes(t, Head(tenant[t].todo))
    PROVE  PoolInv'
  <1>1. PICK me : me = tenant[t]
    OBVIOUS
  <1>2. PICK n : n = me.name
    OBVIOUS
  <1>3. PICK c \in {"move a", "move b", "addr"} : c = Head(me.todo)
    BY <1>1
  <1>4. Building(me, c, r)
    BY <1>1, <1>3
  <1>5. veths' = {IF v.name = n THEN Changed(me, c, v) ELSE v : v \in veths} /\ nets' = nets
    <2>1. PoolType /\ ipDoes(t, c)
      BY <1>1, <1>3 DEF PoolInv
    <2>2. /\ veths' = {IF v.name = tenant[t].name THEN Changed(tenant[t], c, v) ELSE v : v \in veths}
          /\ nets' = nets
      BY <2>1, IpChanges
    <2> QED BY <1>1, <1>2, <2>2
  <1>6. \A v \in veths : (v.name # n => v \in veths') /\ (v.name = n => Changed(me, c, v) \in veths')
    BY <1>5
  <1>7. \A w \in veths' : (w \in veths /\ w.name # n) \/ (\E v \in veths : v.name = n /\ w = Changed(me, c, v))
    BY <1>5
  <1>8. ASSUME NEW v
        PROVE  /\ Changed(me, c, v).name = v.name
               /\ Changed(me, c, v).root = IF c = "move a" THEN me.kind = "host" ELSE v.root
               /\ Changed(me, c, v).in = IF c = "move a" THEN v.in \cup {"a"}
                                         ELSE IF c = "move b" THEN v.in \cup {"b"} ELSE v.in
               /\ Changed(me, c, v).addr = IF c = "addr" THEN me.slot ELSE v.addr
    BY DEF Changed
  <1>9. /\ me.pc = "build" /\ me.kind \in {"host", "isolated"} /\ (me.kind = "isolated" => n # Explicit)
        /\ me.slot \in NetSlots \cup {NoSlot} /\ r.name = n /\ r.kind = me.kind /\ r.slot = me.slot
    BY <1>2, <1>4 DEF Building, SameHandle
  <1>10. TopologyOK(me, VethOf(n))
    BY <1>1, <1>2 DEF PoolInv, TopologyInv
  <1>11. \A v \in veths : v \in Veth
    BY DEF PoolInv, PoolType
  <1>12. ASSUME NEW v \in veths, v.name = n PROVE Changed(me, c, v) \in Veth
    BY <1>9, <1>11, <1>12 DEF Changed, Veth
  <1>13. veths' \subseteq Veth
    BY <1>7, <1>11, <1>12
  <1>14. VethInv'
    <2>1. \A v, w \in veths : v.name = w.name => v = w
      BY DEF PoolInv, VethInv
    <2>2. \A v \in veths : (\A i \in v.in : Net(v.name, i) \in nets) /\ (v.root \/ "a" \in v.in) /\ (v.name = Explicit => v.root)
      BY DEF PoolInv, VethInv
    <2>3. ASSUME NEW v \in veths', NEW w \in veths', v.name = w.name PROVE v = w
      <3>1. CASE v.name = n
        <4>1. PICK x \in veths : x.name = n /\ v = Changed(me, c, x)
          BY <1>7, <3>1
        <4>2. PICK y \in veths : y.name = n /\ w = Changed(me, c, y)
          BY <1>7, <2>3, <3>1
        <4>3. x = y
          BY <2>1, <4>1, <4>2
        <4> QED BY <4>1, <4>2, <4>3
      <3>2. CASE v.name # n
        <4>1. \A x : Changed(me, c, x).name = x.name
          BY <1>8
        <4>2. v \in veths /\ w \in veths
          BY <1>7, <2>3, <3>2, <4>1
        <4> QED BY <2>1, <2>3, <4>2
      <3> QED BY <3>1, <3>2
    <2>4. c = "move a" => Net(n, "a") \in nets
      BY <1>1, <1>2, <1>3 DEF ipCan
    <2>5. c = "move b" => Net(n, "b") \in nets
      BY <1>1, <1>2, <1>3 DEF ipCan
    <2>6. ASSUME NEW v \in veths, v.name = n, NEW w, w = Changed(me, c, v)
          PROVE  (\A i \in w.in : Net(w.name, i) \in nets) /\ (w.root \/ "a" \in w.in) /\ (w.name = Explicit => w.root)
      <3>1. CASE c = "move a"
        <4>1. w.name = n /\ w.in = v.in \cup {"a"} /\ (w.root <=> me.kind = "host")
          BY <1>8, <2>6, <3>1
        <4>2. \A i \in v.in : Net(n, i) \in nets
          BY <2>2, <2>6
        <4> QED BY <1>9, <2>4, <3>1, <4>1, <4>2
      <3>2. CASE c = "move b"
        <4>1. w.name = n /\ w.in = v.in \cup {"b"} /\ w.root = v.root
          BY <1>8, <2>6, <3>2
        <4>2. \A i \in v.in : Net(n, i) \in nets
          BY <2>2, <2>6
        <4> QED BY <2>2, <2>5, <2>6, <3>2, <4>1, <4>2
      <3>3. CASE c = "addr"
        BY <1>8, <2>2, <2>6, <3>3
      <3> QED BY <3>1, <3>2, <3>3
    <2>7. \A w \in veths' : (\A i \in w.in : Net(w.name, i) \in nets) /\ (w.root \/ "a" \in w.in) /\ (w.name = Explicit => w.root)
      BY <1>7, <2>2, <2>6
    <2> QED BY <1>5, <2>3, <2>7 DEF VethInv
  <1>15. TopologyOK(r, {w \in veths' : w.name = n})
    <2>1. PICK V : V = {w \in veths' : w.name = n}
      OBVIOUS
    <2>2. \A w \in V : \E v \in VethOf(n) : w = Changed(me, c, v)
      BY <1>7, <2>1 DEF VethOf
    <2>3. CASE c = "addr"
      <3>1. r.pc = "up" /\ Range(me.todo) = {"addr"}
        BY <1>4, <2>3 DEF Building
      <3>2. ~Queued(me, "move a")
        BY <3>1 DEF Queued
      <3>3. \E v \in VethOf(n) : TRUE
        BY <1>1, <1>2, <1>3, <2>3 DEF ipCan
      <3>4. \E w \in V : w.addr = me.slot
        BY <1>6, <1>8, <2>1, <2>3, <3>3 DEF VethOf
      <3>5. ASSUME NEW w \in V
            PROVE  (me.kind = "host" => w.root) /\ (me.kind = "isolated" => "a" \in w.in)
        <4>1. PICK v \in VethOf(n) : w = Changed(me, c, v)
          BY <2>2
        <4>2. w.root = v.root /\ w.in = v.in
          BY <1>8, <2>3, <4>1
        <4> QED BY <1>9, <1>10, <3>2, <4>2 DEF TopologyOK
      <3>6. TopologyOK(r, V)
        BY <1>9, <3>1, <3>4, <3>5 DEF TopologyOK, Early
      <3> QED BY <2>1, <3>6
    <2>4. CASE c # "addr"
      <3>1. r.pc = "build" /\ Range(me.todo) = {c} \cup Range(r.todo)
        BY <1>4, <2>4 DEF Building
      <3>2. n # Explicit /\ Early(r) => V = {}
        <4>1. Early(r) => Early(me)
          BY <1>9, <3>1 DEF Early, Queued
        <4>2. n # Explicit /\ Early(me) => VethOf(n) = {}
          BY <1>2, <1>10 DEF TopologyOK
        <4> QED BY <2>2, <4>1, <4>2
      <3>3. ASSUME NEW w \in V
            PROVE  /\ n # Explicit => w.addr = NoSlot
                   /\ me.kind = "host" => w.root
                   /\ me.kind = "isolated" => "a" \in w.in \/ "move a" \in Range(r.todo)
        <4>1. PICK v \in VethOf(n) : w = Changed(me, c, v)
          BY <2>2
        <4>2. /\ n # Explicit => v.addr = NoSlot
              /\ me.kind = "host" => v.root
              /\ me.kind = "isolated" => "a" \in v.in \/ "move a" \in Range(me.todo)
          BY <1>2, <1>9, <1>10 DEF TopologyOK, Queued
        <4>3. CASE c = "move a"
          BY <1>8, <4>1, <4>2, <4>3
        <4>4. CASE c = "move b"
          BY <1>8, <3>1, <4>1, <4>2, <4>4
        <4> QED BY <2>4, <4>3, <4>4
      <3>4. TopologyOK(r, V)
        BY <1>9, <3>1, <3>2, <3>3 DEF TopologyOK, Queued
      <3> QED BY <2>1, <3>4
    <2> QED BY <2>3, <2>4
  <1>16. TopologyOK(r, {w \in veths' : w.name = r.name})
    BY <1>9, <1>15
  <1>17. ASSUME NEW w \in veths', w.name = n, w.addr # NoSlot
         PROVE  \/ r.pc = "up" /\ w.addr = me.slot
                \/ \E v \in veths : /\ v.name = w.name /\ v.addr = w.addr
                                    /\ (v.root => w.root) /\ ("a" \in v.in => "a" \in w.in)
    <2>1. PICK v \in veths : v.name = n /\ w = Changed(me, c, v)
      BY <1>7, <1>17
    <2>2. CASE c = "addr"
      <3>1. r.pc = "up"
        BY <1>4, <2>2 DEF Building
      <3>2. w.addr = me.slot
        BY <1>8, <2>1, <2>2
      <3> QED BY <3>1, <3>2
    <2>3. CASE c = "move b"
      <3>1. v.name = w.name /\ v.addr = w.addr /\ v.root = w.root /\ ("a" \in v.in => "a" \in w.in)
        BY <1>8, <2>1, <2>3
      <3> QED BY <3>1
    <2>4. CASE c = "move a"
      <3>1. v.name = w.name /\ v.addr = w.addr /\ "a" \in w.in /\ (w.root <=> me.kind = "host")
        BY <1>8, <2>1, <2>4
      <3>2. n # Explicit => v.addr = NoSlot
        BY <1>2, <1>9, <1>10, <2>1 DEF TopologyOK, VethOf
      <3>3. me.kind = "host"
        BY <1>9, <1>17, <3>1, <3>2
      <3> QED BY <3>1, <3>3
    <2> QED BY <2>2, <2>3, <2>4
  <1>18. LocalInv(r) /\ SameHandle(r, tenant[t]) /\ r.pc \in {"build", "up"} /\ tenant[t].pc = "build"
    BY DEF Building
  <1>19. n = tenant[t].name /\ me.slot = tenant[t].slot
    BY <1>1, <1>2
  <1>20. \A v \in veths' : v.name # n => v \in veths
    BY <1>7, <1>8
  <1> QED BY <1>6, <1>13, <1>14, <1>16, <1>17, <1>18, <1>19, <1>20, Built

LEMMA BuildInv ==
    ASSUME PoolInv, NEW t \in Tenants, runIP(t)
    PROVE  PoolInv'
  <1>1. PICK r : Becomes(t, r) /\ Building(tenant[t], Head(tenant[t].todo), r)
    BY RunsIP
  <1>2. /\ ipCan(tenant[t].name, Head(tenant[t].todo)) /\ ipDoes(t, Head(tenant[t].todo))
        /\ UNCHANGED <<lockFile, flock, asked, spoiled>>
    BY DEF runIP
  <1>3. CASE Head(tenant[t].todo) \in {"add a", "add b"}
    BY <1>1, <1>2, <1>3, AddsNet
  <1>4. CASE Head(tenant[t].todo) = "add link"
    BY <1>1, <1>2, <1>4, AddsLink
  <1>5. CASE Head(tenant[t].todo) \in {"move a", "move b", "addr"}
    BY <1>1, <1>2, <1>5, Changes
  <1>6. Head(tenant[t].todo) \in Builds
    BY <1>1 DEF Building
  <1> QED BY <1>3, <1>4, <1>5, <1>6 DEF Builds

-----------------------------------------------------------------------------
(***************************************************************************)
(* The theorem                                                             *)
(***************************************************************************)

LEMMA InitInv == PoolInit => PoolInv
  <1> SUFFICES ASSUME PoolInit PROVE PoolInv
    OBVIOUS
  <1>1. \A t \in Tenants : tenant[t] = Vacant
    BY DEF PoolInit
  <1>2. LocalsInv
    BY <1>1, VacantLocal DEF LocalsInv
  <1>3. Vacant.pc = "idle" /\ Vacant.slot = NoSlot /\ Vacant \in Tenant
    BY VacantLocal DEF Vacant, LocalInv
  <1>4. PoolType
    BY <1>3 DEF PoolType, PoolInit
  <1>5. NameInv
    BY <1>1, <1>3 DEF NameInv, Live, PoolInit
  <1>6. LeaseInv
    BY <1>1, <1>3 DEF LeaseInv, PoolInit, HeldPCs
  <1>7. VethInv /\ AddressInv
    BY DEF PoolInit, VethInv, AddressInv
  <1>8. TopologyInv
    BY <1>1, VacantTopology DEF TopologyInv
  <1> QED BY <1>2, <1>4, <1>5, <1>6, <1>7, <1>8 DEF PoolInv

LEMMA StutterInv == ASSUME PoolInv, UNCHANGED poolVars PROVE PoolInv'
  <1> USE DEF poolVars
  <1>1. PoolType' /\ LocalsInv'
    BY DEF PoolInv, PoolType, LocalsInv
  <1>2. NameInv' /\ LeaseInv' /\ VethInv'
    BY DEF PoolInv, NameInv, LeaseInv, VethInv, Live, provenance
  <1>3. TopologyInv' /\ AddressInv'
    BY DEF PoolInv, TopologyInv, AddressInv, Announced, VethOf
  <1> QED BY <1>1, <1>2, <1>3 DEF PoolInv

LEMMA StepInv == ASSUME PoolInv, [PoolNext]_poolVars PROVE PoolInv'
  <1>1. ASSUME NEW t \in Tenants,
               \/ \E named, addressed \in BOOLEAN : handleNetVethPair(t, named, addressed)
               \/ handleNetNetnsVethPair(t) \/ handleKfuncAcquire(t)
        PROVE  PoolInv'
    BY <1>1, RequestsInv
  <1>2. ASSUME NEW t \in Tenants, scanSlots(t) \/ scanKfuncSlots(t) PROVE PoolInv'
    BY <1>2, ScansInv
  <1>3. ASSUME NEW t \in Tenants, tryAcquireSlot(t) PROVE PoolInv'
    BY <1>3, TryInv
  <1>4. ASSUME NEW t \in Tenants, acquirePoolSlot(t) \/ acquireKfuncSlot(t) PROVE PoolInv'
    BY <1>4, GiveUpInv
  <1>5. ASSUME NEW t \in Tenants, checkPrevious(t) PROVE PoolInv'
    BY <1>5, CheckInv
  <1>6. ASSUME NEW t \in Tenants, assertKfuncSlotAvailable(t) PROVE PoolInv'
    BY <1>6, AvailableInv
  <1>7. ASSUME NEW t \in Tenants, writeProvenance(t) PROVE PoolInv'
    BY <1>7, WriteInv
  <1>8. ASSUME NEW t \in Tenants, fileFails(t) PROVE PoolInv'
    BY <1>8, FileFailsInv
  <1>9. ASSUME NEW t \in Tenants, testnetrouteEnsure(t) PROVE PoolInv'
    BY <1>9, RouteInv
  <1>10. ASSUME NEW t \in Tenants, runIP(t) PROVE PoolInv'
    BY <1>10, BuildInv
  <1>11. ASSUME NEW t \in Tenants, runIPFails(t) PROVE PoolInv'
    BY <1>11, BuildFailsInv
  <1>12. ASSUME NEW t \in Tenants, runIPIgnoreErr(t) PROVE PoolInv'
    BY <1>12, IgnoreErrInv
  <1>13. ASSUME NEW t \in Tenants, handleNetRelease(t) PROVE PoolInv'
    BY <1>13, ReleaseInv
  <1>14. ASSUME NEW t \in Tenants, handleKfuncRelease(t) PROVE PoolInv'
    BY <1>14, KfuncReleaseInv
  <1>15. ASSUME NEW t \in Tenants, releasePoolSlot(t) \/ releaseKfuncSlot(t) PROVE PoolInv'
    BY <1>15, GiveBackInv
  <1>16. ASSUME NEW p \in Shells, shellExits(p) PROVE PoolInv'
    BY <1>16, ExitInv
  <1>17. CASE testsEnd \/ UNCHANGED poolVars
    BY <1>17, StutterInv DEF testsEnd
  <1> QED BY <1>1, <1>2, <1>3, <1>4, <1>5, <1>6, <1>7, <1>8, <1>9, <1>10, <1>11, <1>12,
             <1>13, <1>14, <1>15, <1>16, <1>17 DEF PoolNext

LEMMA InvApart == PoolInv => TopologiesApart
  <1> SUFFICES ASSUME PoolInv PROVE TopologiesApart
    OBVIOUS
  <1>1. ASSUME NEW v \in veths, NEW w \in veths, v.addr = w.addr, v.addr # NoSlot, v.addr \notin spoiled
        PROVE  v = w
    <2>1. Announced(v) /\ Announced(w)
      BY <1>1 DEF PoolInv, AddressInv
    <2>2. v.name = w.name
      BY <1>1, <2>1 DEF Announced, Filed
    <2> QED BY <2>2 DEF PoolInv, VethInv
  <1>2. ASSUME NEW t \in Tenants, tenant[t].pc = "up", tenant[t].kind # "kfunc", tenant[t].name # Explicit
        PROVE  \E v \in VethOf(tenant[t].name) : v.addr = tenant[t].slot
    BY <1>2 DEF PoolInv, TopologyInv, TopologyOK
  <1> QED BY <1>1, <1>2 DEF TopologiesApart, pcOf, leaseOf

\* Two topologies never carry the addresses of one slot, and one that is up
\* keeps those of its lease (netpool.go, net.go): for any pools, shells and
\* handles, whatever fails, tears or exits.  The slots in spoiled are excepted
\* from the first: those given back after a failed removal, and those of a
\* dead tenant whose link a look that erred did not see.
THEOREM SlotsApart == PoolSpec => []TopologiesApart
  <1>1. PoolInit => PoolInv
    BY InitInv
  <1>2. PoolInv /\ [PoolNext]_poolVars => PoolInv'
    BY StepInv
  <1>3. PoolInv => TopologiesApart
    BY InvApart
  <1> QED BY <1>1, <1>2, <1>3, PTL DEF PoolSpec
=============================================================================
