------------------------------ MODULE WriterLock ------------------------------
(***************************************************************************)
(* The global writer lock (lock/lock.go) and the namespace helper that     *)
(* inherits it (platform/ebpf/attach_uprobe.go, internal/bpfman/ns).       *)
(*                                                                         *)
(* flock(2) locks belong to an open file description: every Run opens one  *)
(* of its own, a helper gets a descriptor of its parent's, and the lock    *)
(* goes when the last descriptor of its description is closed.             *)
(***************************************************************************)
EXTENDS Naturals

CONSTANTS
    Clients,   \* processes, or goroutines of the daemon, that call lock.Run
    Helpers,   \* bpfman-ns child processes
    Descs,     \* open file descriptions of the lock file
    None       \* no description, no helper

Actors == Clients \cup Helpers

ASSUME ActorAssumption == Clients \cap Helpers = {}
ASSUME NoneAssumption  == None \notin Helpers \cup Descs

VARIABLES
    pc,        \* [client: where its Run is]
    fd,        \* [actor: the description its descriptor refers to]
    locked,    \* kernel: the description that holds the exclusive flock
    helper,    \* [client: the child it waits for]
    hpc,       \* [helper: where it is]
    cause,     \* [client: what cancelled the acquisition context first]
    acquired,  \* [client: has the callback been entered]
    result     \* [client: what the last Run returned]

vars == <<pc, fd, locked, helper, hpc, cause, acquired, result>>

Causes  == {"none", "own", "parent"}
Results == {"none", "ok", "failed", "deadline", "timeout", "panic"}

Init ==
    /\ pc = [c \in Clients |-> "idle"]
    /\ fd = [a \in Actors |-> None]
    /\ locked = None
    /\ helper = [c \in Clients |-> None]
    /\ hpc = [h \in Helpers |-> "none"]
    /\ cause = [c \in Clients |-> "none"]
    /\ acquired = [c \in Clients |-> FALSE]
    /\ result = [c \in Clients |-> "none"]

\* A descriptor is closed, by the code or by the exit of its process.
Close(a) ==
    /\ fd' = [fd EXCEPT ![a] = None]
    /\ locked' = IF \E b \in Actors \ {a} : fd[b] = fd[a] THEN locked
                 ELSE IF locked = fd[a] THEN None ELSE locked

Unused(d) == \A a \in Actors : fd[a] # d

Free(a) == locked \in {None, fd[a]}

-----------------------------------------------------------------------------
(***************************************************************************)
(* Run and RunWithTimeout                                                  *)
(***************************************************************************)

\* acquireWriter opens the lock file.
Open(c) ==
    /\ pc[c] = "idle"
    /\ \E d \in Descs : Unused(d)
    /\ fd' = [fd EXCEPT ![c] = CHOOSE d \in Descs : Unused(d)]
    /\ pc' = [pc EXCEPT ![c] = "polling"]
    /\ cause' = [cause EXCEPT ![c] = "none"]
    /\ acquired' = [acquired EXCEPT ![c] = FALSE]
    /\ result' = [result EXCEPT ![c] = "none"]
    /\ UNCHANGED <<locked, helper, hpc>>

\* Mutant: the lock belongs to the process (fcntl), not to the description.
TryLockByProcess(c) ==
    /\ pc[c] = "polling"
    /\ locked = None
    /\ locked' = c
    /\ pc' = [pc EXCEPT ![c] = "holding"]
    /\ acquired' = [acquired EXCEPT ![c] = TRUE]
    /\ UNCHANGED <<fd, helper, hpc, cause, result>>

\* Mutant: the lock is not asked for exclusively.
TryLockShared(c) ==
    /\ pc[c] = "polling"
    /\ locked' = fd[c]
    /\ pc' = [pc EXCEPT ![c] = "holding"]
    /\ acquired' = [acquired EXCEPT ![c] = TRUE]
    /\ UNCHANGED <<fd, helper, hpc, cause, result>>

\* One flock(LOCK_EX|LOCK_NB), which does not look at the context.
TryLock(c) ==
    /\ pc[c] = "polling"
    /\ \/ /\ Free(c)
          /\ locked' = fd[c]
          /\ pc' = [pc EXCEPT ![c] = "holding"]
          /\ acquired' = [acquired EXCEPT ![c] = TRUE]
       \/ /\ ~Free(c)
          /\ pc' = [pc EXCEPT ![c] = "backoff"]
          /\ UNCHANGED <<locked, acquired>>
    /\ UNCHANGED <<fd, helper, hpc, cause, result>>

\* The backoff timer wins the select, even of a context that is done.
Retry(c) ==
    /\ pc[c] = "backoff"
    /\ pc' = [pc EXCEPT ![c] = "polling"]
    /\ UNCHANGED <<fd, locked, helper, hpc, cause, acquired, result>>

\* The acquisition timeout elapses, or the caller's own context ends: the
\* first of them is the cause.
Expire(c) ==
    /\ pc[c] # "idle"
    /\ cause[c] = "none"
    /\ cause' \in {[cause EXCEPT ![c] = k] : k \in Causes \ {"none"}}
    /\ UNCHANGED <<pc, fd, locked, helper, hpc, acquired, result>>

\* Mutant: any deadline error after the timeout elapsed is a lock timeout.
TranslateAny(c, err) ==
    IF err = "deadline" /\ cause[c] = "own" THEN "timeout" ELSE err

\* RunWithTimeout's relabelling of a failure to acquire.
Translate(c, err) ==
    IF err = "deadline" /\ ~acquired[c] /\ cause[c] = "own" THEN "timeout" ELSE err

Return(c, err) ==
    /\ Close(c)
    /\ pc' = [pc EXCEPT ![c] = "idle"]
    /\ result' = [result EXCEPT ![c] = Translate(c, err)]

GiveUp(c) ==
    /\ pc[c] = "backoff"
    /\ cause[c] # "none"
    /\ Return(c, "deadline")
    /\ UNCHANGED <<helper, hpc, cause, acquired>>

\* flock fails with anything but EWOULDBLOCK.
FlockFails(c) ==
    /\ pc[c] = "polling"
    /\ Return(c, "failed")
    /\ UNCHANGED <<helper, hpc, cause, acquired>>

\* The callback returns; a deadline error may be of its own making.
CallbackReturns(c) ==
    /\ pc[c] \in {"holding", "helped"}
    /\ \E err \in {"ok", "failed", "deadline"} : Return(c, err)
    /\ UNCHANGED <<helper, hpc, cause, acquired>>

\* Mutant: Run does not look for a frame of its own path in the context.
ReenterUnchecked(c) ==
    /\ pc[c] = "holding"
    /\ pc' = [pc EXCEPT ![c] = "waiting"]
    /\ UNCHANGED <<fd, locked, helper, hpc, cause, acquired, result>>

\* Run called from the callback finds the active frame and panics; the
\* deferred Close runs.
Reenter(c) ==
    /\ pc[c] = "holding"
    /\ Return(c, "panic")
    /\ UNCHANGED <<helper, hpc, cause, acquired>>

\* The process of a client is killed; a helper of its lives on.
Crash(c) ==
    /\ pc[c] # "idle"
    /\ Close(c)
    /\ pc' = [pc EXCEPT ![c] = "idle"]
    /\ helper' = [helper EXCEPT ![c] = None]
    /\ UNCHANGED <<hpc, cause, acquired, result>>

-----------------------------------------------------------------------------
(***************************************************************************)
(* The namespace helper                                                    *)
(***************************************************************************)

\* DupFD, and the start of the child with the duplicate.
SpawnHelper(c) ==
    /\ pc[c] = "holding"
    /\ \E h \in Helpers :
         /\ hpc[h] = "none"
         /\ hpc' = [hpc EXCEPT ![h] = "started"]
         /\ fd' = [fd EXCEPT ![h] = fd[c]]
         /\ helper' = [helper EXCEPT ![c] = h]
    /\ pc' = [pc EXCEPT ![c] = "waiting"]
    /\ UNCHANGED <<locked, cause, acquired, result>>

\* InheritedLockFromFD; its failure ends the helper (HelperExits).
InheritLock(h) ==
    /\ hpc[h] = "started"
    /\ Free(h)
    /\ locked' = fd[h]
    /\ hpc' = [hpc EXCEPT ![h] = "working"]
    /\ UNCHANGED <<pc, fd, helper, cause, acquired, result>>

\* Mutant: a helper that is done unlocks instead of closing its descriptor.
HelperUnlocks(h) ==
    /\ hpc[h] # "none"
    /\ hpc' = [hpc EXCEPT ![h] = "none"]
    /\ fd' = [fd EXCEPT ![h] = None]
    /\ locked' = None
    /\ UNCHANGED <<pc, helper, cause, acquired, result>>

\* The helper has sent the descriptor of the target, fails, or is killed (by
\* its parent too, when nothing comes through the socket).
HelperExits(h) ==
    /\ hpc[h] # "none"
    /\ Close(h)
    /\ hpc' = [hpc EXCEPT ![h] = "none"]
    /\ UNCHANGED <<pc, helper, cause, acquired, result>>

\* cmd.Wait returns, on every path out of attachUprobeViaHelper.
WaitHelper(c) ==
    /\ pc[c] = "waiting"
    /\ helper[c] # None
    /\ hpc[helper[c]] = "none"
    /\ pc' = [pc EXCEPT ![c] = "helped"]
    /\ helper' = [helper EXCEPT ![c] = None]
    /\ UNCHANGED <<fd, locked, hpc, cause, acquired, result>>

-----------------------------------------------------------------------------
Holder(c) == CallbackReturns(c) \/ WaitHelper(c)

Next ==
    \/ \E c \in Clients :
         \/ Open(c) \/ TryLock(c) \/ Retry(c) \/ Expire(c) \/ GiveUp(c) \/ FlockFails(c)
         \/ CallbackReturns(c) \/ Reenter(c) \/ Crash(c)
         \/ SpawnHelper(c) \/ WaitHelper(c)
    \/ \E h \in Helpers : InheritLock(h) \/ HelperExits(h)

Spec == Init /\ [][Next]_vars

\* Callbacks return and helpers exit.  Nothing is assumed of the pollers.
FairSpec ==
    /\ Spec
    /\ \A c \in Clients : WF_vars(Holder(c))
    /\ \A h \in Helpers : WF_vars(HelperExits(h))

-----------------------------------------------------------------------------
(***************************************************************************)
(* Properties                                                              *)
(***************************************************************************)
InSection(a) ==
    \/ a \in Clients /\ pc[a] \in {"holding", "waiting", "helped"}
    \/ a \in Helpers /\ hpc[a] = "working"

Inside == {a \in Actors : InSection(a)}

\* The types: in particular the lock is held by a description, not by a
\* process.
TypeOK ==
    /\ pc \in [Clients -> {"idle", "polling", "backoff", "holding", "waiting", "helped"}]
    /\ fd \in [Actors -> Descs \cup {None}]
    /\ locked \in Descs \cup {None}
    /\ helper \in [Clients -> Helpers \cup {None}]
    /\ hpc \in [Helpers -> {"none", "started", "working"}]
    /\ cause \in [Clients -> Causes]
    /\ acquired \in [Clients -> BOOLEAN]
    /\ result \in [Clients -> Results]

\* Whoever is in the section belongs to one and the same Run: never two
\* clients, never a client beside the orphaned helper of a client that died,
\* however the exits of parents and helpers interleave with the pollers.
MutualExclusion ==
    \A a, b \in Inside :
        /\ fd[a] = fd[b]
        /\ a \in Clients /\ b \in Clients => a = b

\* A TimeoutError is returned only by a Run whose own timeout elapsed first
\* and whose callback was never entered: not for a callback that fails with a
\* deadline error after a late acquisition, nor for the caller's deadline.
TimeoutMeansNotRun ==
    \A c \in Clients : result[c] = "timeout" => ~acquired[c] /\ cause[c] = "own"

Section == INSTANCE WriterSection WITH inside <- Inside

\* The lock implements the section the rest of bpfman relies on.
ImplementsSection == Section!Spec

\* No hold lasts forever: no Run waits for a lock it holds itself, and
\* neither a killed client nor a lost helper keeps the lock.
HoldEnds == \A d \in Descs : (locked = d) ~> (locked # d)

=============================================================================
