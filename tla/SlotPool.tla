------------------------------ MODULE SlotPool ------------------------------
(***************************************************************************)
(* The pools the shells of a test run share (netpool.go, kfuncpool.go) and *)
(* the topologies built on their slots (net.go).                           *)
(*                                                                         *)
(* A slot is leased by an flock on its lock file, which the kernel drops   *)
(* when the holder dies.  What the holder built in the kernel survives it, *)
(* so the file names its tenant, and the next one looks whether that       *)
(* tenant's namespaces or link are still there.  A net slot stands for the *)
(* addresses of its subnet, a kfunc slot for a function to trigger.        *)
(*                                                                         *)
(* One action is one call: an open with its flock, a read, a write, an     *)
(* ip(8) command.  Bringing links up and the second address go with the    *)
(* first address.  Commands run in a topology change nothing here.         *)
(***************************************************************************)
EXTENDS Naturals, Sequences, SequencesExt, Functions

CONSTANTS
    NetSlots, KfuncSlots,  \* the slots of the two pools
    Tenants,               \* the handles scripts have at a time
    ShellOf,               \* the shell process each belongs to
    MaxRequests,           \* bound: handles ever asked for
    MaxMishaps,            \* bound: failures and exits in a behaviour
    PoolFaults             \* the failures that may happen

ASSUME SlotsAssumption ==
    /\ NetSlots \cup KfuncSlots \subseteq Nat \ {0}
    /\ NetSlots \cap KfuncSlots = {}
    /\ IsFiniteSet(NetSlots \cup KfuncSlots)
ASSUME PoolFaultsAssumption == PoolFaults \subseteq {"file", "look", "route", "ip", "exit"}
ASSUME PoolBoundAssumption == MaxRequests \in Nat /\ MaxMishaps \in Nat

VARIABLES
    lockFile,  \* per slot: the provenance in its lock file
    stamped,   \* slots whose file exists, the longest untouched first
    flock,     \* per slot: the tenant that has its lock
    nets,      \* kernel: the named network namespaces
    veths,     \* kernel: the veth pairs
    tenant,    \* the handles and the calls that make and release them
    asked,     \* per shell: how many it asked for (linkNameSeq)
    spoiled,   \* slots leased on, or given back, with a link still there
    mishaps    \* how many failures and exits there were

poolVars == <<lockFile, stamped, flock, nets, veths, tenant, asked, spoiled, mishaps>>

NoSlot   == 0
NoTenant == "none"

ASSUME TenantsAssumption == NoTenant \notin Tenants

Explicit == <<"script", 0>>      \* the name scripts pass with --ns and --host-link
Slots    == NetSlots \cup KfuncSlots
Shells   == {ShellOf[t] : t \in Tenants}

Vacant == [pc |-> "idle", kind |-> "host", name |-> Explicit, slot |-> NoSlot,
           cands |-> <<>>, todo |-> <<>>, made |-> {}, failed |-> FALSE]

\* A blank body is one that was just created, or torn by a failed write.
Body(state, name, sides) == [state |-> state, name |-> name, sides |-> sides]
NoFile == Body("none", Explicit, {})
Blank  == Body("blank", Explicit, {})

PoolInit ==
    /\ lockFile = [s \in Slots |-> NoFile]
    /\ stamped = <<>>
    /\ flock = [s \in Slots |-> NoTenant]
    /\ nets = {} /\ veths = {}
    /\ tenant = [t \in Tenants |-> Vacant]
    /\ asked = [p \in Shells |-> 0]
    /\ spoiled = {}
    /\ mishaps = 0

pcOf(t) == tenant[t].pc

\* The slot a handle was given; one with addresses of its own has none.
leaseOf(t) == tenant[t].slot

Becomes(t, r) == tenant' = [tenant EXCEPT ![t] = r]
At(t, l) == Becomes(t, [tenant[t] EXCEPT !.pc = l])

\* A failure the environment chooses to inject.
Mishap(f) ==
    /\ f \in PoolFaults
    /\ mishaps < MaxMishaps
    /\ mishaps' = mishaps + 1

\* A script makes one call at a time.
ShellIdle(t) == \A u \in Tenants : ShellOf[u] = ShellOf[t] => pcOf(u) \in {"idle", "up"}

Sides(kind) == IF kind = "isolated" THEN {"a", "b"} ELSE {"a"}

-----------------------------------------------------------------------------
(***************************************************************************)
(* The ip(8) commands of a topology                                        *)
(***************************************************************************)

\* Leftovers under the names to be used are removed first.
preClean(kind) ==
    IF kind = "isolated" THEN <<"del link", "del a", "del b">> ELSE <<"del link", "del a">>
buildSteps(kind) ==
    IF kind = "isolated" THEN <<"add a", "add b", "add link", "move a", "move b", "addr">>
                         ELSE <<"add a", "add link", "move a", "addr">>
tearDown(kind) ==
    IF kind = "isolated" THEN <<"del a", "del b">> ELSE <<"del link", "del a">>

\* What was made goes, the link first.
rollback(made) ==
    (IF "add link" \in made THEN <<"del link">> ELSE <<>>)
        \o (IF "add a" \in made THEN <<"del a">> ELSE <<>>)
        \o (IF "add b" \in made THEN <<"del b">> ELSE <<>>)

\* A list of commands begins; the undo of nothing is done at once.
Commands(me, l, cs) ==
    [me EXCEPT !.pc = IF cs = <<>> THEN "giveback" ELSE l, !.todo = cs]

-----------------------------------------------------------------------------
(***************************************************************************)
(* Leasing a slot                                                          *)
(***************************************************************************)

\* A hash of the process id and a counter: no two requests get the same name.
uniqueLinkBase(t) == <<ShellOf[t], asked[ShellOf[t]] + 1>>

\* The handles asked for so far.
Requested == FoldFunction(+, 0, asked)

\* A request starts with names and, when it needs a slot, with a scan.
Asks(t, l, kind, n) ==
    /\ pcOf(t) = "idle" /\ ShellIdle(t)
    /\ Requested < MaxRequests
    /\ asked' = [asked EXCEPT ![ShellOf[t]] = @ + 1]
    /\ Becomes(t, [Vacant EXCEPT !.pc = l, !.kind = kind, !.name = n])
    /\ UNCHANGED <<lockFile, stamped, flock, nets, veths, spoiled, mishaps>>

\* net veth-pair: names and addresses are given by the script, or not.
handleNetVethPair(t, named, addressed) ==
    Asks(t, IF addressed THEN "route" ELSE "scan", "host",
            IF named THEN Explicit ELSE uniqueLinkBase(t))

handleNetNetnsVethPair(t) == Asks(t, "scan", "isolated", uniqueLinkBase(t))

handleKfuncAcquire(t) == Asks(t, "scan", "kfunc", Explicit)

\* Slots without a file come first, then by when they were last written.
ScansBefore(r, s) ==
    LET new(x) == lockFile[x].state = "none" IN
    \/ new(r) /\ (new(s) => r < s)
    \/ /\ ~new(r) /\ ~new(s)
       /\ \E i, j \in DOMAIN stamped : i < j /\ stamped[i] = r /\ stamped[j] = s

scanOrder(S) ==
    {q \in [1..Cardinality(S) -> S] :
        \A i, j \in 1..Cardinality(S) : i < j => ScansBefore(q[i], q[j])}

scanSlots(t) ==
    /\ pcOf(t) = "scan" /\ tenant[t].kind # "kfunc"
    /\ \E q \in scanOrder(NetSlots) : Becomes(t, [tenant[t] EXCEPT !.pc = "try", !.cands = q])
    /\ UNCHANGED <<lockFile, stamped, flock, nets, veths, asked, spoiled, mishaps>>

scanKfuncSlots(t) ==
    /\ pcOf(t) = "scan" /\ tenant[t].kind = "kfunc"
    /\ \E q \in scanOrder(KfuncSlots) : Becomes(t, [tenant[t] EXCEPT !.pc = "try", !.cands = q])
    /\ UNCHANGED <<lockFile, stamped, flock, nets, veths, asked, spoiled, mishaps>>

Stamp(s) == stamped' = Append(SelectSeq(stamped, LAMBDA r : r # s), s)

\* The next candidate's file is opened, which creates it, and its lock tried.
tryAcquireSlot(t) ==
    LET me == tenant[t]
        s  == Head(me.cands)
    IN  /\ pcOf(t) = "try" /\ me.cands # <<>>
        /\ IF lockFile[s].state = "none"
             THEN lockFile' = [lockFile EXCEPT ![s] = Blank] /\ Stamp(s)
             ELSE UNCHANGED <<lockFile, stamped>>
        /\ IF flock[s] # NoTenant
             THEN Becomes(t, [me EXCEPT !.cands = Tail(@)]) /\ UNCHANGED flock
             ELSE /\ flock' = [flock EXCEPT ![s] = t]
                  /\ Becomes(t, [me EXCEPT !.pc = "check", !.slot = s, !.cands = <<>>])
        /\ UNCHANGED <<nets, veths, asked, spoiled, mishaps>>

\* All of them are leased: a net slot is waited for, up to a deadline.
acquirePoolSlot(t) ==
    /\ pcOf(t) = "try" /\ tenant[t].cands = <<>> /\ tenant[t].kind # "kfunc"
    /\ At(t, "scan") \/ Becomes(t, Vacant)
    /\ UNCHANGED <<lockFile, stamped, flock, nets, veths, asked, spoiled, mishaps>>

acquireKfuncSlot(t) ==
    /\ pcOf(t) = "try" /\ tenant[t].cands = <<>> /\ tenant[t].kind = "kfunc"
    /\ Becomes(t, Vacant)
    /\ UNCHANGED <<lockFile, stamped, flock, nets, veths, asked, spoiled, mishaps>>

\* A look that errs, whatever the error, finds nothing; errs are those that do.
linkCheck(n, errs)     == "link" \notin errs /\ \E v \in veths : v.name = n /\ v.root
netnsCheck(n, i, errs) == i \notin errs /\ [name |-> n, side |-> i] \in nets

\* Mutant: only the link is looked for.
slotCleanOfLink(prev, errs) == prev.state = "acquired" => ~linkCheck(prev.name, errs)

\* A tenant that released the slot is trusted; one that did not must be seen
\* to have left neither its link nor a namespace.
assertSlotClean(prev, errs) ==
    prev.state = "acquired" =>
        ~linkCheck(prev.name, errs) /\ \A i \in prev.sides : ~netnsCheck(prev.name, i, errs)

\* The slot whose link is still there although it is judged clean.
Overlooked(prev) ==
    {v.addr : v \in {w \in veths : w.name = prev.name /\ ~assertSlotClean(prev, {})}}

Unlocked(s) == flock' = [flock EXCEPT ![s] = NoTenant]

\* The body is read again under the lock.
checkPrevious(t) ==
    LET s == leaseOf(t) IN
    /\ pcOf(t) = "check" /\ tenant[t].kind # "kfunc"
    /\ \E errs \in SUBSET {"link", "a", "b"} :
        /\ IF errs = {} THEN UNCHANGED mishaps ELSE Mishap("look")
        /\ IF assertSlotClean(lockFile[s], errs)
             THEN At(t, "write") /\ UNCHANGED flock /\ spoiled' = spoiled \cup Overlooked(lockFile[s])
             ELSE Becomes(t, Vacant) /\ Unlocked(s) /\ UNCHANGED spoiled
    /\ UNCHANGED <<lockFile, stamped, nets, veths, asked>>

\* The module that exports the function may have gone.
assertKfuncSlotAvailable(t) ==
    LET s == leaseOf(t) IN
    /\ pcOf(t) = "check" /\ tenant[t].kind = "kfunc"
    /\ \/ At(t, "write") /\ UNCHANGED <<flock, mishaps>>
       \/ Mishap("file") /\ Becomes(t, Vacant) /\ Unlocked(s)
    /\ UNCHANGED <<lockFile, stamped, nets, veths, asked, spoiled>>

\* What the file says of the tenant: the names the next one looks for.
provenance(t, state) ==
    IF tenant[t].kind = "kfunc" THEN Body(state, Explicit, {})
    ELSE Body(state, tenant[t].name, Sides(tenant[t].kind))

writeProvenance(t) ==
    LET me == tenant[t] IN
    /\ pcOf(t) = "write"
    /\ lockFile' = [lockFile EXCEPT ![me.slot] = provenance(t, "acquired")]
    /\ Stamp(me.slot)
    /\ Becomes(t, CASE me.kind = "kfunc" -> [me EXCEPT !.pc = "up"]
                    [] me.kind = "host"  -> [me EXCEPT !.pc = "route"]
                    [] OTHER             -> Commands(me, "clean", preClean(me.kind)))
    /\ UNCHANGED <<flock, nets, veths, asked, spoiled, mishaps>>

\* The file cannot be opened, read or written; a failed write tears it.
fileFails(t) ==
    LET s == leaseOf(t) IN
    /\ pcOf(t) \in {"scan", "try", "check", "write"}
    /\ Mishap("file")
    /\ Becomes(t, Vacant)
    /\ IF s = NoSlot THEN UNCHANGED flock ELSE Unlocked(s)
    /\ IF pcOf(t) = "write" THEN lockFile' = [lockFile EXCEPT ![s] = Blank] /\ Stamp(s)
                            ELSE UNCHANGED <<lockFile, stamped>>
    /\ UNCHANGED <<nets, veths, asked, spoiled>>

-----------------------------------------------------------------------------
(***************************************************************************)
(* Building and removing a topology                                        *)
(***************************************************************************)

\* The bypass rule for host routing; the slot goes back when it fails.
testnetrouteEnsure(t) ==
    /\ pcOf(t) = "route"
    /\ \/ Becomes(t, Commands(tenant[t], "clean", preClean(tenant[t].kind))) /\ UNCHANGED mishaps
       \/ Mishap("route") /\ At(t, "giveback")
    /\ UNCHANGED <<lockFile, stamped, flock, nets, veths, asked, spoiled>>

Net(n, i)    == [name |-> n, side |-> i]
VethOf(n)    == {v \in veths : v.name = n}
RootVeth(n)  == {v \in VethOf(n) : v.root}

\* When a command can work.
ipCan(n, c) ==
    CASE c = "add a"    -> Net(n, "a") \notin nets
      [] c = "add b"    -> Net(n, "b") \notin nets
      [] c = "add link" -> RootVeth(n) = {}
      [] c = "move a"   -> RootVeth(n) # {} /\ Net(n, "a") \in nets
      [] c = "move b"   -> VethOf(n) # {} /\ Net(n, "b") \in nets
      [] c = "addr"     -> VethOf(n) # {}
      [] c = "del link" -> RootVeth(n) # {}
      [] c = "del a"    -> Net(n, "a") \in nets
      [] c = "del b"    -> Net(n, "b") \in nets

\* What it does.  A veth pair goes with either of its ends, and an end with
\* the namespace it is in.  A host pair keeps one end in the root namespace.
ipDoes(t, c) ==
    LET n       == tenant[t].name
        drop(i) == {v \in veths : ~(v.name = n /\ i \in v.in)}
        edit(F(_)) == {IF v \in VethOf(n) THEN F(v) ELSE v : v \in veths}
    IN CASE c \in {"add a", "add b"} ->
              /\ nets' = nets \cup {Net(n, IF c = "add a" THEN "a" ELSE "b")}
              /\ UNCHANGED veths
         [] c = "add link" ->
              /\ veths' = veths \cup {[name |-> n, root |-> TRUE, in |-> {}, addr |-> NoSlot]}
              /\ UNCHANGED nets
         [] c = "move a" ->
              /\ veths' = edit(LAMBDA v : [v EXCEPT !.in = @ \cup {"a"}, !.root = tenant[t].kind = "host"])
              /\ UNCHANGED nets
         [] c = "move b" ->
              veths' = edit(LAMBDA v : [v EXCEPT !.in = @ \cup {"b"}]) /\ UNCHANGED nets
         [] c = "addr" ->
              veths' = edit(LAMBDA v : [v EXCEPT !.addr = leaseOf(t)]) /\ UNCHANGED nets
         [] c = "del link" -> veths' = veths \ RootVeth(n) /\ UNCHANGED nets
         [] c = "del a" -> nets' = nets \ {Net(n, "a")} /\ veths' = drop("a")
         [] c = "del b" -> nets' = nets \ {Net(n, "b")} /\ veths' = drop("b")

\* The command at the head is done with, and leads on if it was the last.
Stepped(me) ==
    LET rest == [me EXCEPT !.todo = Tail(@)] IN
    CASE rest.todo # <<>>  -> rest
      [] rest.todo = <<>> /\ me.pc = "clean" -> Commands(rest, "build", buildSteps(me.kind))
      [] rest.todo = <<>> /\ me.pc = "build" -> [rest EXCEPT !.pc = "up"]
      [] OTHER -> [rest EXCEPT !.pc = "giveback"]

\* A command of the build.
runIP(t) ==
    LET me == tenant[t]
        c  == Head(me.todo)
    IN  /\ pcOf(t) = "build"
        /\ ipCan(me.name, c) /\ ipDoes(t, c)
        /\ Becomes(t, Stepped([me EXCEPT !.made = @ \cup ({c} \cap {"add a", "add b", "add link"})]))
        /\ UNCHANGED <<lockFile, stamped, flock, asked, spoiled, mishaps>>

runIPFails(t) ==
    LET me == tenant[t] IN
    /\ pcOf(t) = "build"
    /\ IF ipCan(me.name, Head(me.todo)) THEN Mishap("ip") ELSE UNCHANGED mishaps
    /\ Becomes(t, Commands(me, "undo", rollback(me.made)))
    /\ UNCHANGED <<lockFile, stamped, flock, nets, veths, asked, spoiled>>

\* A command that removes something; that there is nothing to remove, or
\* that it fails, is not looked at.
runIPIgnoreErr(t) ==
    LET me  == tenant[t]
        c   == Head(me.todo)
        can == ipCan(me.name, c)
    IN  /\ pcOf(t) \in {"clean", "undo", "release"}
        /\ \/ /\ can /\ ipDoes(t, c)
              /\ Becomes(t, Stepped(me))
              /\ UNCHANGED mishaps
           \/ /\ IF can THEN Mishap("ip") ELSE UNCHANGED mishaps
              /\ Becomes(t, Stepped([me EXCEPT !.failed = @ \/ can]))
              /\ UNCHANGED <<nets, veths>>
        /\ UNCHANGED <<lockFile, stamped, flock, asked, spoiled>>

\* net release: the handle is done with, whatever becomes of the commands.
handleNetRelease(t) ==
    LET me == tenant[t] IN
    /\ pcOf(t) = "up" /\ me.kind # "kfunc" /\ ShellIdle(t)
    /\ Becomes(t, Commands([me EXCEPT !.failed = FALSE], "release", tearDown(me.kind)))
    /\ UNCHANGED <<lockFile, stamped, flock, nets, veths, asked, spoiled, mishaps>>

handleKfuncRelease(t) ==
    /\ pcOf(t) = "up" /\ tenant[t].kind = "kfunc" /\ ShellIdle(t)
    /\ At(t, "giveback")
    /\ UNCHANGED <<lockFile, stamped, flock, nets, veths, asked, spoiled, mishaps>>

\* The slot whose link is still there after a removal that failed.
LeftBy(t) == {v.addr : v \in {w \in VethOf(tenant[t].name) : tenant[t].failed}}

\* The release is recorded and the lock dropped.  A write that fails tears
\* the file and drops the lock all the same.
GivesBack(t) ==
    LET s == leaseOf(t) IN
    /\ \/ lockFile' = [lockFile EXCEPT ![s] = provenance(t, "released")] /\ UNCHANGED mishaps
       \/ lockFile' = [lockFile EXCEPT ![s] = Blank] /\ Mishap("file")
    /\ Stamp(s) /\ Unlocked(s)

releasePoolSlot(t) ==
    /\ pcOf(t) = "giveback" /\ tenant[t].kind # "kfunc"
    /\ Becomes(t, Vacant)
    /\ IF leaseOf(t) = NoSlot THEN UNCHANGED <<lockFile, stamped, flock, spoiled, mishaps>>
                              ELSE GivesBack(t) /\ spoiled' = spoiled \cup LeftBy(t)
    /\ UNCHANGED <<nets, veths, asked>>

releaseKfuncSlot(t) ==
    /\ pcOf(t) = "giveback" /\ tenant[t].kind = "kfunc"
    /\ Becomes(t, Vacant)
    /\ GivesBack(t)
    /\ UNCHANGED <<nets, veths, asked, spoiled>>

\* A shell exits, or is killed: its locks go, what it built stays, and a
\* file it was writing may be torn.
shellExits(p) ==
    LET mine    == {t \in Tenants : ShellOf[t] = p}
        writing == {t \in mine : pcOf(t) \in {"write", "giveback"} /\ leaseOf(t) # NoSlot}
    IN  /\ \E t \in mine : pcOf(t) # "idle"
        /\ Mishap("exit")
        /\ tenant' = [t \in Tenants |-> IF t \in mine THEN Vacant ELSE tenant[t]]
        /\ flock' = [s \in Slots |-> IF flock[s] \in mine THEN NoTenant ELSE flock[s]]
        /\ \/ UNCHANGED <<lockFile, stamped, spoiled>>
           \/ \E t \in writing :
                /\ lockFile' = [lockFile EXCEPT ![leaseOf(t)] = Blank]
                /\ Stamp(leaseOf(t))
                /\ spoiled' = spoiled \cup LeftBy(t)
        /\ UNCHANGED <<nets, veths, asked>>

\* No test is left that would ask.
testsEnd ==
    /\ Requested = MaxRequests
    /\ \A t \in Tenants : pcOf(t) = "idle"
    /\ UNCHANGED poolVars

PoolNext ==
    \/ \E t \in Tenants :
        \/ \E named, addressed \in BOOLEAN : handleNetVethPair(t, named, addressed)
        \/ handleNetNetnsVethPair(t) \/ handleKfuncAcquire(t)
        \/ scanSlots(t) \/ scanKfuncSlots(t) \/ tryAcquireSlot(t)
        \/ acquirePoolSlot(t) \/ acquireKfuncSlot(t)
        \/ checkPrevious(t) \/ assertKfuncSlotAvailable(t) \/ writeProvenance(t)
        \/ fileFails(t) \/ testnetrouteEnsure(t)
        \/ runIP(t) \/ runIPFails(t) \/ runIPIgnoreErr(t)
        \/ handleNetRelease(t) \/ handleKfuncRelease(t)
        \/ releasePoolSlot(t) \/ releaseKfuncSlot(t)
    \/ \E p \in Shells : shellExits(p)
    \/ testsEnd

PoolSpec == PoolInit /\ [][PoolNext]_poolVars

-----------------------------------------------------------------------------
(***************************************************************************)
(* What a lease promises                                                   *)
(***************************************************************************)

\* Two topologies never carry the addresses of one slot, over crashes, torn
\* files and tenants that never cleaned up.  The exceptions are the
\* slots in spoiled, on which the code does let two meet: a slot given back
\* although the command that removes its link failed (net.go), and one whose
\* last tenant died and left its link, leased on because the look for it
\* erred and an error reads as absence (netpool.go).
\* A topology with a generated name stands, with the addresses of its lease,
\* until its own shell removes it.
TopologiesApart ==
    /\ \A v, w \in veths : v.addr = w.addr /\ v.addr # NoSlot => v = w \/ v.addr \in spoiled
    /\ \A t \in Tenants :
        pcOf(t) = "up" /\ tenant[t].kind # "kfunc" /\ tenant[t].name # Explicit =>
            \E v \in VethOf(tenant[t].name) : v.addr = leaseOf(t)
=============================================================================
