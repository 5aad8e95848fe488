--------------------------- MODULE WriterLockProofs ---------------------------
(***************************************************************************)
(* For any number of clients, helpers and file descriptions: the lock is   *)
(* exclusive, implements WriterSection, and TimeoutError means what it     *)
(* says.                                                                   *)
(***************************************************************************)
EXTENDS WriterLock, TLAPS

SectionPCs == {"holding", "waiting", "helped"}

\* A client has a descriptor while its Run is in progress, a helper while it
\* lives, and the lock is with everyone in the section.
HoldersLock ==
    /\ \A c \in Clients : pc[c] = "idle" <=> fd[c] = None
    /\ \A c \in Clients : pc[c] \in SectionPCs => fd[c] = locked
    /\ \A h \in Helpers : hpc[h] = "none" => fd[h] = None
    /\ \A h \in Helpers : hpc[h] # "none" => fd[h] = locked /\ fd[h] # None

\* Only a helper shares a description, with the client that spawned it.
Ownership ==
    /\ \A c, d \in Clients : fd[c] = fd[d] /\ fd[c] # None => c = d
    /\ \A c \in Clients, h \in Helpers :
          fd[c] = fd[h] /\ fd[c] # None => pc[c] \in SectionPCs

\* There is one helper at a time, and its parent waits for it.
OneHelper ==
    /\ \A h, k \in Helpers : hpc[h] # "none" /\ hpc[k] # "none" => h = k
    /\ \A c \in Clients, h \in Helpers :
          pc[c] \in SectionPCs /\ hpc[h] # "none" => pc[c] = "waiting" /\ helper[c] = h

LockInv == TypeOK /\ HoldersLock /\ Ownership /\ OneHelper

\* The state of the lock is well typed in every behaviour of every instance.
THEOREM TypeCorrect == Spec => []TypeOK
<1>1. Init => TypeOK
  BY DEF Init, TypeOK, Causes, Results
<1>2. TypeOK /\ [Next]_vars => TypeOK'
  <2> SUFFICES ASSUME TypeOK, [Next]_vars PROVE TypeOK'
    OBVIOUS
  <2> USE DEF TypeOK, Causes, Results, Actors
  <2>1. ASSUME NEW c \in Clients, Open(c) PROVE TypeOK'
    <3>1. (CHOOSE d \in Descs : Unused(d)) \in Descs
      BY <2>1 DEF Open
    <3> QED BY <2>1, <3>1 DEF Open
  <2>2. ASSUME NEW c \in Clients, TryLock(c) PROVE TypeOK'
    <3>1. CASE Free(c)
      <4>1. acquired' = [acquired EXCEPT ![c] = TRUE]
        BY <2>2, <3>1 DEF TryLock
      <4>2. acquired' \in [Clients -> BOOLEAN]
        BY <4>1, Zenon
      <4> QED BY <2>2, <3>1, <4>2 DEF TryLock
    <3>2. CASE ~Free(c)
      BY <2>2, <3>2 DEF TryLock
    <3> QED BY <3>1, <3>2
  <2>3. ASSUME NEW c \in Clients, Retry(c) PROVE TypeOK'
    BY <2>3 DEF Retry
  <2>4. ASSUME NEW c \in Clients, Expire(c) PROVE TypeOK'
    BY <2>4 DEF Expire
  <2>5. ASSUME NEW a \in Actors, Close(a)
        PROVE fd' \in [Actors -> Descs \cup {None}] /\ locked' \in Descs \cup {None}
    BY <2>5 DEF Close
  <2>6. ASSUME NEW c \in Clients, NEW err \in {"ok", "failed", "deadline", "panic"}, Return(c, err),
               UNCHANGED <<helper, hpc, cause, acquired>>
        PROVE TypeOK'
    <3>1. Translate(c, err) \in Results
      BY DEF Translate
    <3> QED BY <2>5, <2>6, <3>1 DEF Return
  <2>7. ASSUME NEW c \in Clients, GiveUp(c) \/ FlockFails(c) \/ CallbackReturns(c) \/ Reenter(c)
        PROVE TypeOK'
    BY <2>6, <2>7 DEF GiveUp, FlockFails, CallbackReturns, Reenter
  <2>8. ASSUME NEW c \in Clients, Crash(c) PROVE TypeOK'
    BY <2>5, <2>8 DEF Crash
  <2>9. ASSUME NEW c \in Clients, SpawnHelper(c) PROVE TypeOK'
    BY <2>9 DEF SpawnHelper
  <2>10. ASSUME NEW c \in Clients, WaitHelper(c) PROVE TypeOK'
    BY <2>10 DEF WaitHelper
  <2>11. ASSUME NEW h \in Helpers, InheritLock(h) PROVE TypeOK'
    BY <2>11 DEF InheritLock
  <2>12. ASSUME NEW h \in Helpers, HelperExits(h) PROVE TypeOK'
    BY <2>5, <2>12 DEF HelperExits
  <2>13. CASE UNCHANGED vars
    BY <2>13 DEF vars
  <2> QED
    BY <2>1, <2>2, <2>3, <2>4, <2>7, <2>8, <2>9, <2>10, <2>11, <2>12, <2>13 DEF Next
<1> QED BY <1>1, <1>2, PTL DEF Spec

-----------------------------------------------------------------------------
LEMMA InitInv == Init => LockInv
<1> SUFFICES ASSUME Init PROVE LockInv
  OBVIOUS
<1>1. \A a \in Actors : fd[a] = None
  BY DEF Init
<1>2. TypeOK
  BY DEF Init, TypeOK, Causes, Results
<1> QED
  BY <1>1, <1>2
  DEF Init, LockInv, HoldersLock, Ownership, OneHelper, Actors, SectionPCs

\* What a Close leaves: the lock stays with every other actor that refers to
\* the same description.
LEMMA CloseKeeps ==
    ASSUME TypeOK, NEW a \in Actors, Close(a)
    PROVE  /\ fd' = [fd EXCEPT ![a] = None]
           /\ \A b \in Actors \ {a} : fd[b] = locked => locked' = locked
BY DEF Close, TypeOK

\* A client that leaves the section, or stops polling, disturbs nobody.
LEMMA LeaveInv ==
    ASSUME LockInv, TypeOK', NEW c \in Clients, Close(c),
           pc' = [pc EXCEPT ![c] = "idle"],
           UNCHANGED hpc,
           \A d \in Clients \ {c} : helper'[d] = helper[d]
    PROVE  LockInv'
<1> USE DEF LockInv, TypeOK, Actors, SectionPCs
<1>1. fd' = [fd EXCEPT ![c] = None]
  BY CloseKeeps
<1>2. \A b \in Actors \ {c} : fd[b] = locked => locked' = locked
  BY CloseKeeps
<1>3. HoldersLock'
  BY <1>1, <1>2, ActorAssumption DEF HoldersLock
<1>4. Ownership'
  BY <1>1, ActorAssumption DEF Ownership
<1>5. OneHelper'
  BY DEF OneHelper
<1> QED BY <1>3, <1>4, <1>5

\* Every step keeps the lock with those in the section.
LEMMA NextInv == LockInv /\ TypeOK' /\ [Next]_vars => LockInv'
<1> SUFFICES ASSUME LockInv, TypeOK', [Next]_vars PROVE LockInv'
  OBVIOUS
<1> USE DEF LockInv, TypeOK, Actors, SectionPCs
<1>1. ASSUME NEW c \in Clients, Open(c) PROVE LockInv'
  <2> DEFINE d == CHOOSE x \in Descs : Unused(x)
  <2>1. d \in Descs /\ Unused(d)
    BY <1>1 DEF Open
  <2>2. d # None /\ \A a \in Actors : fd[a] # d
    BY <2>1, NoneAssumption DEF Unused
  <2>3. fd' = [fd EXCEPT ![c] = d] /\ pc' = [pc EXCEPT ![c] = "polling"] /\ pc[c] = "idle"
    BY <1>1 DEF Open
  <2> HIDE DEF d
  <2>4. HoldersLock'
    <3>1. locked' = locked /\ hpc' = hpc
      BY <1>1 DEF Open
    <3>2. \A h \in Helpers : fd'[h] = fd[h]
      BY <2>3, ActorAssumption
    <3>3. \A e \in Clients \ {c} : fd'[e] = fd[e] /\ pc'[e] = pc[e]
      BY <2>3
    <3>4. fd'[c] = d /\ pc'[c] = "polling"
      BY <2>3
    <3> QED BY <2>2, <3>1, <3>2, <3>3, <3>4 DEF HoldersLock
  <2>5. Ownership'
    BY <2>2, <2>3, ActorAssumption DEF Ownership
  <2>6. OneHelper'
    BY <1>1, <2>3 DEF Open, OneHelper
  <2> QED BY <2>4, <2>5, <2>6
<1>2. ASSUME NEW c \in Clients, TryLock(c) PROVE LockInv'
  <2>1. CASE ~Free(c)
    BY <1>2, <2>1 DEF TryLock, HoldersLock, Ownership, OneHelper
  <2>2. CASE Free(c)
    <3>1. /\ locked' = fd[c] /\ fd[c] # None
          /\ pc[c] = "polling" /\ pc' = [pc EXCEPT ![c] = "holding"]
          /\ UNCHANGED <<fd, helper, hpc>>
      BY <1>2, <2>2 DEF TryLock, HoldersLock
    <3>2. \A h \in Helpers : hpc[h] = "none"
      BY <2>2, <3>1 DEF Free, HoldersLock, Ownership
    <3>3. \A d \in Clients : pc[d] \notin SectionPCs
      BY <2>2, <3>1 DEF Free, HoldersLock, Ownership
    <3>4. HoldersLock'
      BY <3>1, <3>2, <3>3 DEF HoldersLock
    <3>5. Ownership'
      BY <3>1 DEF Ownership
    <3>6. OneHelper'
      BY <3>1, <3>2 DEF OneHelper
    <3> QED BY <3>4, <3>5, <3>6
  <2> QED BY <2>1, <2>2
<1>3. ASSUME NEW c \in Clients, Retry(c) PROVE LockInv'
  BY <1>3 DEF Retry, HoldersLock, Ownership, OneHelper
<1>4. ASSUME NEW c \in Clients, Expire(c) PROVE LockInv'
  BY <1>4 DEF Expire, HoldersLock, Ownership, OneHelper
<1>5. ASSUME NEW c \in Clients, GiveUp(c) \/ FlockFails(c) \/ CallbackReturns(c) \/ Reenter(c)
      PROVE LockInv'
  BY <1>5, LeaveInv DEF GiveUp, FlockFails, CallbackReturns, Reenter, Return
<1>6. ASSUME NEW c \in Clients, Crash(c) PROVE LockInv'
  BY <1>6, LeaveInv DEF Crash
<1>7. ASSUME NEW c \in Clients, SpawnHelper(c) PROVE LockInv'
  <2>1. PICK h \in Helpers : /\ hpc[h] = "none"
                             /\ hpc' = [hpc EXCEPT ![h] = "started"]
                             /\ fd' = [fd EXCEPT ![h] = fd[c]]
                             /\ helper' = [helper EXCEPT ![c] = h]
    BY <1>7 DEF SpawnHelper
  <2>2. pc[c] = "holding" /\ pc' = [pc EXCEPT ![c] = "waiting"] /\ locked' = locked
    BY <1>7 DEF SpawnHelper
  <2>3. fd[c] = locked /\ fd[c] # None
    BY <2>2 DEF HoldersLock
  <2>4. \A k \in Helpers : hpc[k] = "none"
    BY <2>2 DEF OneHelper
  <2>5. HoldersLock'
    BY <2>1, <2>2, <2>3, <2>4, ActorAssumption DEF HoldersLock
  <2>6. Ownership'
    BY <2>1, <2>2, <2>3, <2>4, ActorAssumption DEF Ownership
  <2>7. \A d \in Clients : pc[d] \in SectionPCs => d = c
    BY <2>3 DEF HoldersLock, Ownership
  <2>8. OneHelper'
    BY <2>1, <2>2, <2>4, <2>7 DEF OneHelper
  <2> QED BY <2>5, <2>6, <2>8
<1>8. ASSUME NEW c \in Clients, WaitHelper(c) PROVE LockInv'
  <2>1. \A h \in Helpers : hpc[h] = "none"
    BY <1>8 DEF WaitHelper, OneHelper
  <2> QED BY <1>8, <2>1 DEF WaitHelper, HoldersLock, Ownership, OneHelper
<1>9. ASSUME NEW h \in Helpers, InheritLock(h) PROVE LockInv'
  <2>1. locked' = locked
    BY <1>9 DEF InheritLock, HoldersLock
  <2> QED BY <1>9, <2>1 DEF InheritLock, HoldersLock, Ownership, OneHelper
<1>10. ASSUME NEW h \in Helpers, HelperExits(h) PROVE LockInv'
  <2>1. fd' = [fd EXCEPT ![h] = None] /\ \A b \in Actors \ {h} : fd[b] = locked => locked' = locked
    BY <1>10, CloseKeeps DEF HelperExits
  <2>2. hpc' = [hpc EXCEPT ![h] = "none"] /\ UNCHANGED <<pc, helper>>
    BY <1>10 DEF HelperExits
  <2>3. HoldersLock'
    BY <2>1, <2>2, ActorAssumption DEF HoldersLock
  <2>4. Ownership'
    BY <2>1, <2>2, ActorAssumption DEF Ownership
  <2>5. OneHelper'
    BY <2>2 DEF OneHelper
  <2> QED BY <2>3, <2>4, <2>5
<1>11. CASE UNCHANGED vars
  BY <1>11 DEF vars, HoldersLock, Ownership, OneHelper
<1> QED
  BY <1>1, <1>2, <1>3, <1>4, <1>5, <1>6, <1>7, <1>8, <1>9, <1>10, <1>11 DEF Next

\* The descriptors and the lock agree in every reachable state.
LEMMA InvHolds == Spec => []LockInv
<1>1. LockInv /\ TypeOK' /\ [Next]_vars => LockInv'
  BY NextInv
<1> QED BY <1>1, InitInv, TypeCorrect, PTL DEF Spec

\* Whoever is in the section has the descriptor that holds the lock.
LEMMA InsideLocked ==
    ASSUME LockInv
    PROVE  \A a \in Inside : fd[a] = locked /\ fd[a] # None
BY DEF LockInv, HoldersLock, Inside, InSection, SectionPCs

\* Everyone in the section belongs to one Run: two processes never change
\* runtime state at the same time, whatever crashes, times out or inherits.
THEOREM Exclusive == Spec => []MutualExclusion
<1>1. LockInv => MutualExclusion
  BY InsideLocked DEF LockInv, Ownership, MutualExclusion
<1> QED BY <1>1, InvHolds, PTL

-----------------------------------------------------------------------------
\* A Run in progress has not returned anything.
TimeoutInv == TimeoutMeansNotRun /\ \A c \in Clients : pc[c] # "idle" => result[c] = "none"

\* A TimeoutError tells its caller that the callback did not run.
THEOREM TimeoutNotRun == Spec => []TimeoutMeansNotRun
<1>1. Init => TimeoutInv
  BY DEF Init, TimeoutInv, TimeoutMeansNotRun
<1>2. TimeoutInv /\ TypeOK /\ [Next]_vars => TimeoutInv'
  <2> SUFFICES ASSUME TimeoutInv, TypeOK, [Next]_vars PROVE TimeoutInv'
    OBVIOUS
  <2> USE DEF TimeoutInv, TimeoutMeansNotRun, TypeOK
  <2>1. ASSUME NEW c \in Clients, NEW err \in {"ok", "failed", "deadline", "panic"}, Return(c, err),
               UNCHANGED <<cause, acquired>>
        PROVE TimeoutInv'
    <3>1. result' = [result EXCEPT ![c] = Translate(c, err)] /\ pc' = [pc EXCEPT ![c] = "idle"]
      BY <2>1 DEF Return
    <3>2. Translate(c, err) = "timeout" => ~acquired[c] /\ cause[c] = "own"
      BY DEF Translate
    <3> QED BY <2>1, <3>1, <3>2
  <2>2. ASSUME NEW c \in Clients, GiveUp(c) \/ FlockFails(c) \/ CallbackReturns(c) \/ Reenter(c)
        PROVE TimeoutInv'
    BY <2>1, <2>2 DEF GiveUp, FlockFails, CallbackReturns, Reenter
  <2>3. ASSUME NEW c \in Clients, Open(c) PROVE TimeoutInv'
    BY <2>3 DEF Open
  <2>4. ASSUME NEW c \in Clients, TryLock(c) PROVE TimeoutInv'
    <3>1. /\ result' = result /\ cause' = cause
          /\ pc[c] = "polling" /\ \A d \in Clients : pc'[d] # "idle" <=> pc[d] # "idle"
      BY <2>4 DEF TryLock
    <3>2. \A d \in Clients \ {c} : acquired'[d] = acquired[d]
      BY <2>4 DEF TryLock
    <3> QED BY <3>1, <3>2
  <2>5. ASSUME NEW c \in Clients, Retry(c) PROVE TimeoutInv'
    BY <2>5 DEF Retry
  <2>6. ASSUME NEW c \in Clients, Expire(c) PROVE TimeoutInv'
    BY <2>6 DEF Expire
  <2>7. ASSUME NEW c \in Clients, Crash(c) PROVE TimeoutInv'
    BY <2>7 DEF Crash
  <2>8. ASSUME NEW c \in Clients, SpawnHelper(c) PROVE TimeoutInv'
    BY <2>8 DEF SpawnHelper
  <2>9. ASSUME NEW c \in Clients, WaitHelper(c) PROVE TimeoutInv'
    BY <2>9 DEF WaitHelper
  <2>10. ASSUME NEW h \in Helpers, InheritLock(h) \/ HelperExits(h) PROVE TimeoutInv'
    BY <2>10 DEF InheritLock, HelperExits
  <2>11. CASE UNCHANGED vars
    BY <2>11 DEF vars
  <2> QED
    BY <2>2, <2>3, <2>4, <2>5, <2>6, <2>7, <2>8, <2>9, <2>10, <2>11 DEF Next
<1> QED BY <1>1, <1>2, TypeCorrect, PTL DEF Spec, TimeoutInv

-----------------------------------------------------------------------------
\* The lock implements the abstract section: a client enters only an empty
\* one, a helper only beside its own client or in its place.
THEOREM Implements == Spec => ImplementsSection
<1>1. Init => Section!Init
  BY DEF Init, Section!Init, Inside, InSection, Actors
<1>2. LockInv /\ TypeOK' /\ [Next]_vars => [Section!Next]_Inside
  <2> SUFFICES ASSUME LockInv, TypeOK', [Next]_vars PROVE Section!Next \/ Inside' = Inside
    OBVIOUS
  <2> USE DEF LockInv, TypeOK, Inside, InSection, Actors
  <2>1. ASSUME NEW c \in Clients, TryLock(c), Free(c) PROVE Section!Next
    <3>1. /\ pc[c] = "polling" /\ pc' = [pc EXCEPT ![c] = "holding"] /\ UNCHANGED hpc
          /\ fd[c] # None
      BY <2>1 DEF TryLock, HoldersLock
    <3>2. \A h \in Helpers : hpc[h] = "none"
      BY <2>1, <3>1 DEF Free, HoldersLock, Ownership, SectionPCs
    <3>3. \A d \in Clients : pc[d] \notin SectionPCs
      BY <2>1, <3>1 DEF Free, HoldersLock, Ownership, SectionPCs
    <3>4. Inside = {}
      BY <3>2, <3>3 DEF SectionPCs
    <3>5. Inside' = {c}
      BY <3>1, <3>2, <3>3, ActorAssumption DEF SectionPCs
    <3> QED BY <3>4, <3>5 DEF Section!Next, Section!Enter
  <2>2. ASSUME NEW h \in Helpers, InheritLock(h) PROVE Section!Next
    <3>1. hpc[h] = "started" /\ hpc' = [hpc EXCEPT ![h] = "working"] /\ UNCHANGED pc
      BY <2>2 DEF InheritLock
    <3>2. Inside \cap Helpers = {}
      BY <3>1, ActorAssumption DEF OneHelper
    <3>3. \A c, d \in Inside : c = d
      BY <3>2, InsideLocked DEF Ownership
    <3>4. Inside' = Inside \cup {h}
      BY <3>1, ActorAssumption
    <3> QED BY <3>2, <3>3, <3>4 DEF Section!Next, Section!Join
  <2>3. ASSUME NEW c \in Clients, pc' = [pc EXCEPT ![c] = "idle"], UNCHANGED hpc
        PROVE Section!Next \/ Inside' = Inside
    <3>1. Inside' = Inside \ {c}
      BY <2>3, ActorAssumption
    <3> QED BY <3>1 DEF Section!Next, Section!Leave
  <2>4. ASSUME NEW h \in Helpers, hpc' = [hpc EXCEPT ![h] = "none"], UNCHANGED pc
        PROVE Section!Next \/ Inside' = Inside
    <3>1. Inside' = Inside \ {h}
      BY <2>4, ActorAssumption
    <3> QED BY <3>1 DEF Section!Next, Section!Leave
  <2>5. ASSUME NEW c \in Clients,
               GiveUp(c) \/ FlockFails(c) \/ CallbackReturns(c) \/ Reenter(c) \/ Crash(c)
        PROVE Section!Next \/ Inside' = Inside
    BY <2>3, <2>5 DEF GiveUp, FlockFails, CallbackReturns, Reenter, Return, Crash
  <2>6. ASSUME NEW h \in Helpers, HelperExits(h) PROVE Section!Next \/ Inside' = Inside
    BY <2>4, <2>6 DEF HelperExits
  <2>7. ASSUME NEW c \in Clients, Open(c) \/ Retry(c) \/ Expire(c) \/ WaitHelper(c)
        PROVE Inside' = Inside
    BY <2>7, ActorAssumption DEF Open, Retry, Expire, WaitHelper
  <2>8. ASSUME NEW c \in Clients, TryLock(c), ~Free(c) PROVE Inside' = Inside
    BY <2>8, ActorAssumption DEF TryLock
  <2>9. ASSUME NEW c \in Clients, SpawnHelper(c) PROVE Inside' = Inside
    BY <2>9, ActorAssumption DEF SpawnHelper
  <2>10. CASE UNCHANGED vars
    BY <2>10 DEF vars
  <2> QED
    BY <2>1, <2>2, <2>5, <2>6, <2>7, <2>8, <2>9, <2>10 DEF Next
<1> QED
  BY <1>1, <1>2, InvHolds, TypeCorrect, PTL DEF Spec, ImplementsSection, Section!Spec

=============================================================================
