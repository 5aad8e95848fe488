---------------------------- MODULE LinksProofs ----------------------------
(***************************************************************************)
(* Proofs about Links, for any number of programs, priorities and link     *)
(* ids and under any faults: the store names every pinned link, attached   *)
(* links stay attached, and the TCX chain is in the order of the rows.     *)
(***************************************************************************)
EXTENDS Links, Integers, WellFoundedInduction, TLAPS

\* What an operation in progress is about.
JobType ==
    /\ pc \in {"attach", "finalise", "undorow"} => job.prog \in Probes /\ job.id \in LinkIDs
    /\ pc \in {"tcx", "save"} =>
          job.prog \in TCX /\ job.prio \in Priorities /\ job.id = None /\ nextID \in LinkIDs
    /\ pc = "undoattach" =>
          \/ job.prog \in Probes /\ job.id \in LinkIDs
          \/ job.prog \in TCX /\ job.id = None
    /\ pc = "delete" => job.id \in LinkIDs
    /\ pc \in {"detachall", "deleterow"} => job.prog \in Programs

TypeInv == TypeOK /\ JobType

\* Ids are handed out once, and a program has one row at the TCX hook.
RowInv ==
    /\ \A k, l \in links : k.id = l.id => k = l
    /\ \A l \in links : l.id < nextID
    /\ \A k, l \in TCXLinks : k.prog = l.prog => k = l
    /\ \A f \in pins : f.prog \in Probes => f.id < nextID

\* The kernel's chain has every program once.
NoDuplicates == \A i, j \in DOMAIN chain : chain[i] = chain[j] => i = j

\* A program leaves the chain before its pin is removed.
ChainPinned == \A i \in DOMAIN chain : [prog |-> chain[i], id |-> None] \in pins

\* The row of the simple attach in progress, and its pin.
SimpleInv ==
    /\ pc \in {"attach", "finalise", "undorow", "undoattach"} /\ job.prog \in Probes =>
          [id |-> job.id, prog |-> job.prog, prio |-> None] \in links /\ job.id \notin promised
    /\ pc = "attach" => Path(job) \notin pins
    /\ pc = "undorow" /\ Path(job) \in pins => job.id \in leaked

\* The program of the TCX attach in progress has no row; what it displaced
\* is gone, and once it is in the chain it is where its row will belong.
TCXInv ==
    /\ pc \in {"tcx", "save", "undoattach"} => \A l \in TCXLinks : l.prog # job.prog
    /\ pc = "tcx" => ~InChain(job.prog)
    /\ pc = "save" =>
          /\ Path(job) \in pins => InChain(job.prog)
          /\ \A l \in TCXLinks : \A i, j \in DOMAIN chain :
                chain[i] = l.prog /\ chain[j] = job.prog =>
                    IF l.prio > job.prio THEN j < i ELSE i < j

\* A row is deleted once its pin is gone and nobody counts on its link.
RemovalInv ==
    /\ pc = "delete" =>
          job.id \notin promised /\ \A l \in links : l.id = job.id => Path(l) \notin pins
    /\ pc = "detachall" => \A l \in LinksOf(job.prog) :
          l.id \notin promised /\ (l.id \notin job.todo => Path(l) \notin pins)
    /\ pc = "deleterow" => \A l \in LinksOf(job.prog) : l.id \notin promised /\ Path(l) \notin pins

\* W is the chain without some of its programs: what stays keeps its order.
Thinned(W) ==
    /\ W \in Seq(TCX)
    /\ \A a \in DOMAIN W : InChain(W[a])
    /\ \A a, b \in DOMAIN W : a < b =>
          \E c, d \in DOMAIN chain : c < d /\ chain[c] = W[a] /\ chain[d] = W[b]

-----------------------------------------------------------------------------
(***************************************************************************)
(* The chain                                                               *)
(***************************************************************************)

\* A concatenation, element by element.
LEMMA Concat ==
  ASSUME NEW S, NEW s \in Seq(S), NEW t \in Seq(S)
  PROVE  /\ s \o t \in Seq(S) /\ Len(s \o t) = Len(s) + Len(t)
         /\ \A a \in 1..Len(s) : (s \o t)[a] = s[a]
         /\ \A a \in (Len(s) + 1)..(Len(s) + Len(t)) : (s \o t)[a] = t[a - Len(s)]
  OBVIOUS

\* A sequence with one element taken out.
LEMMA TakenOut ==
  ASSUME NEW S, NEW s \in Seq(S), NEW i \in 1..Len(s)
  PROVE  LET W == SubSeq(s, 1, i - 1) \o SubSeq(s, i + 1, Len(s))
         IN  /\ W \in Seq(S) /\ Len(W) = Len(s) - 1
             /\ \A a \in 1..(Len(s) - 1) : W[a] = IF a < i THEN s[a] ELSE s[a + 1]
  <1> DEFINE A == SubSeq(s, 1, i - 1)
             C == SubSeq(s, i + 1, Len(s))
  <1>1. A \in Seq(S) /\ Len(A) = i - 1 /\ \A a \in 1..(i - 1) : A[a] = s[a]
    OBVIOUS
  <1>2. C \in Seq(S) /\ Len(C) = Len(s) - i
    OBVIOUS
  <1>3. \A a \in i..(Len(s) - 1) : C[a - (i - 1)] = s[a + 1]
    OBVIOUS
  <1> HIDE DEF A, C
  <1>4. A \o C \in Seq(S) /\ Len(A \o C) = Len(s) - 1
    BY <1>1, <1>2
  <1>5. ASSUME NEW a \in 1..(Len(s) - 1) PROVE (A \o C)[a] = IF a < i THEN s[a] ELSE s[a + 1]
    <2>1. CASE a < i
      <3>1. (A \o C)[a] = A[a]
        BY <1>1, <1>2, <2>1, Concat
      <3> QED BY <1>1, <2>1, <3>1
    <2>2. CASE a >= i
      <3>1. (A \o C)[a] = C[a - (i - 1)]
        BY <1>1, <1>2, <2>2, Concat
      <3>2. a \in i..(Len(s) - 1)
        BY <2>2
      <3>3. C[a - (i - 1)] = s[a + 1]
        BY <1>3, <3>2
      <3>4. (A \o C)[a] = s[a + 1]
        BY <3>1, <3>3, Zenon
      <3>5. ~(a < i)
        BY <2>2
      <3> QED BY <3>4, <3>5, Zenon
    <2>3. a < i \/ a >= i
      OBVIOUS
    <2> QED BY <2>1, <2>2, <2>3, Zenon
  <1> QED BY <1>4, <1>5 DEF A, C

\* A sequence with one element put in after the first n.
PutIn(s, x, n) == SubSeq(s, 1, n) \o <<x>> \o SubSeq(s, n + 1, Len(s))

\* Its elements.
LEMMA PutInLemma ==
  ASSUME NEW S, NEW s \in Seq(S), NEW x \in S, NEW n \in 0..Len(s)
  PROVE  /\ PutIn(s, x, n) \in Seq(S) /\ Len(PutIn(s, x, n)) = Len(s) + 1
         /\ \A a \in 1..n : PutIn(s, x, n)[a] = s[a]
         /\ PutIn(s, x, n)[n + 1] = x
         /\ \A a \in (n + 2)..(Len(s) + 1) : PutIn(s, x, n)[a] = s[a - 1]
  <1> DEFINE A == SubSeq(s, 1, n)
             C == SubSeq(s, n + 1, Len(s))
             B == A \o <<x>>
  <1>1. A \in Seq(S) /\ Len(A) = n /\ \A a \in 1..n : A[a] = s[a]
    OBVIOUS
  <1>2. C \in Seq(S) /\ Len(C) = Len(s) - n
    OBVIOUS
  <1>3. \A a \in (n + 2)..(Len(s) + 1) : C[a - (n + 1)] = s[a - 1]
    OBVIOUS
  <1> HIDE DEF A, C
  <1>4. B \in Seq(S) /\ Len(B) = n + 1 /\ B[n + 1] = x /\ \A a \in 1..n : B[a] = s[a]
    BY <1>1
  <1> HIDE DEF B
  <1>5. B \o C \in Seq(S) /\ Len(B \o C) = Len(s) + 1
    BY <1>2, <1>4
  <1>6. \A a \in 1..(n + 1) : (B \o C)[a] = B[a]
    BY <1>2, <1>4, Concat
  <1>7. ASSUME NEW a \in (n + 2)..(Len(s) + 1) PROVE (B \o C)[a] = s[a - 1]
    <2>1. a \in (Len(B) + 1)..(Len(B) + Len(C))
      BY <1>2, <1>4
    <2>2. (B \o C)[a] = C[a - Len(B)]
      BY <1>2, <1>4, <2>1, Concat
    <2>3. C[a - (n + 1)] = s[a - 1]
      BY <1>3
    <2> QED BY <1>4, <2>2, <2>3, Zenon
  <1>8. /\ \A a \in 1..n : (B \o C)[a] = s[a]
        /\ (B \o C)[n + 1] = x
    BY <1>4, <1>6
  <1>9. PutIn(s, x, n) = B \o C
    BY DEF PutIn, A, B, C
  <1> QED BY <1>5, <1>7, <1>8, <1>9, Zenon

\* Taking a program out of the chain keeps the others, in their order.
LEMMA WithoutLemma ==
  ASSUME chain \in Seq(TCX), NEW p
  PROVE  /\ Thinned(ChainWithout(p))
         /\ NoDuplicates =>
               /\ \A a \in DOMAIN ChainWithout(p) : ChainWithout(p)[a] # p
               /\ \A q : q # p /\ InChain(q) =>
                     \E a \in DOMAIN ChainWithout(p) : ChainWithout(p)[a] = q
  <1>1. CASE ~InChain(p)
    BY <1>1 DEF ChainWithout, Thinned, InChain
  <1>2. CASE InChain(p)
    <2> DEFINE i == CHOOSE i \in Position(p) : TRUE
               W == SubSeq(chain, 1, i - 1) \o SubSeq(chain, i + 1, Len(chain))
    <2>1. i \in 1..Len(chain) /\ chain[i] = p
      BY <1>2 DEF InChain, Position
    <2>2. ChainWithout(p) = W
      BY <1>2 DEF ChainWithout
    <2> HIDE DEF i
    <2>3. /\ W \in Seq(TCX) /\ Len(W) = Len(chain) - 1
          /\ \A a \in 1..(Len(chain) - 1) : W[a] = IF a < i THEN chain[a] ELSE chain[a + 1]
      BY <2>1, TakenOut
    <2> HIDE DEF W
    <2>4. DOMAIN W = 1..(Len(chain) - 1) /\ DOMAIN chain = 1..Len(chain)
      BY <2>3
    <2>5. Thinned(W)
      <3>1. ASSUME NEW a \in DOMAIN W PROVE InChain(W[a])
        <4> DEFINE c == IF a < i THEN a ELSE a + 1
        <4>1. c \in DOMAIN chain /\ chain[c] = W[a]
          BY <2>1, <2>3, <2>4
        <4> QED BY <4>1 DEF InChain
      <3>2. ASSUME NEW a \in DOMAIN W, NEW b \in DOMAIN W, a < b
            PROVE  \E c, d \in DOMAIN chain : c < d /\ chain[c] = W[a] /\ chain[d] = W[b]
        <4> DEFINE c == IF a < i THEN a ELSE a + 1
                   d == IF b < i THEN b ELSE b + 1
        <4>1. c \in DOMAIN chain /\ d \in DOMAIN chain /\ c < d
          BY <2>1, <2>4, <3>2
        <4>2. chain[c] = W[a] /\ chain[d] = W[b]
          BY <2>1, <2>3, <2>4, <3>2
        <4> QED BY <4>1, <4>2
      <3> QED BY <2>3, <3>1, <3>2 DEF Thinned
    <2>6. ASSUME NoDuplicates, NEW a \in DOMAIN W PROVE W[a] # p
      BY <2>1, <2>3, <2>4, <2>6 DEF NoDuplicates
    <2>7. ASSUME NEW q, q # p, InChain(q) PROVE \E a \in DOMAIN W : W[a] = q
      <3>1. PICK b \in DOMAIN chain : chain[b] = q
        BY <2>7 DEF InChain
      <3>2. b # i
        BY <2>1, <2>7, <3>1
      <3> DEFINE a == IF b < i THEN b ELSE b - 1
      <3>3. a \in DOMAIN W /\ W[a] = q
        BY <2>1, <2>3, <2>4, <3>1, <3>2
      <3> QED BY <3>3
    <2> QED BY <2>2, <2>5, <2>6, <2>7
  <1> QED BY <1>1, <1>2

\* A chain that stays as it is has lost nothing.
LEMMA SameChain == ASSUME chain \in Seq(TCX) PROVE Thinned(chain)
  BY DEF Thinned, InChain

\* Where the programs are after an insertion.
LEMMA InsertedLemma ==
  ASSUME chain \in Seq(TCX), job.prog \in TCX, NEW n \in 0..Len(chain)
  PROVE  /\ Inserted(n) \in Seq(TCX) /\ DOMAIN Inserted(n) = 1..(Len(chain) + 1)
         /\ \A a \in 1..n : Inserted(n)[a] = chain[a]
         /\ Inserted(n)[n + 1] = job.prog
         /\ \A a \in (n + 2)..(Len(chain) + 1) : Inserted(n)[a] = chain[a - 1]
  <1>1. Inserted(n) = PutIn(chain, job.prog, n)
    BY DEF Inserted, PutIn
  <1> DEFINE W == PutIn(chain, job.prog, n)
  <1>2. W \in Seq(TCX) /\ Len(W) = Len(chain) + 1
    BY PutInLemma
  <1>3. /\ \A a \in 1..n : W[a] = chain[a]
        /\ W[n + 1] = job.prog
        /\ \A a \in (n + 2)..(Len(chain) + 1) : W[a] = chain[a - 1]
    <2>1. \A a \in 1..n : W[a] = chain[a]
      BY PutInLemma
    <2>2. W[n + 1] = job.prog
      BY PutInLemma
    <2>3. \A a \in (n + 2)..(Len(chain) + 1) : W[a] = chain[a - 1]
      BY PutInLemma
    <2> QED BY <2>1, <2>2, <2>3
  <1> HIDE DEF W
  <1>4. DOMAIN W = 1..(Len(chain) + 1)
    BY <1>2
  <1> QED BY <1>1, <1>2, <1>3, <1>4, Zenon DEF W

-----------------------------------------------------------------------------
(***************************************************************************)
(* The order of the rows                                                   *)
(***************************************************************************)

\* Rows with ids of their own.
Numbered(A) ==
    /\ \A l \in A : l.prio \in Nat /\ l.id \in Nat /\ l.id <= MaxLinks
    /\ \A k, l \in A : k.id = l.id => k = l

\* Every set of natural numbers has a least one.
LEMMA LeastNumber ==
  ASSUME NEW T \in SUBSET Nat, T # {}
  PROVE  \E x \in T : \A y \in T : x <= y
  <1> DEFINE R == {ss \in Nat \X Nat : ss[1] < ss[2]}
  <1>1. IsWellFoundedOn(R, Nat)
    BY NatLessThanWellFounded DEF OpToRel
  <1>2. \A x, y \in Nat : <<x, y>> \in R <=> x < y
    OBVIOUS
  <1> HIDE DEF R
  <1>3. PICK x \in T : \A y \in T : ~(<<y, x>> \in R)
    BY <1>1, WFMin
  <1>4. ASSUME NEW y \in T PROVE x <= y
    <2>1. ~(<<y, x>> \in R)
      BY <1>3
    <2>2. x \in Nat /\ y \in Nat
      OBVIOUS
    <2>3. ~(y < x)
      BY <1>2, <2>1, <2>2
    <2> QED BY <2>2, <2>3
  <1> QED BY <1>4

\* ORDER BY priority, id is an order with a first row ...
LEMMA FirstRow ==
  ASSUME NEW A, A # {}, Numbered(A)
  PROVE  \E l \in A : \A k \in A : k # l => Precedes(l, k)
  <1> DEFINE P == {l.prio : l \in A}
  <1>1. P \in SUBSET Nat /\ P # {}
    BY DEF Numbered
  <1>2. PICK p \in P : \A q \in P : p <= q
    BY <1>1, LeastNumber
  <1> DEFINE I == {l.id : l \in {m \in A : m.prio = p}}
  <1>3. I \in SUBSET Nat /\ I # {}
    BY <1>2 DEF Numbered
  <1>4. PICK i \in I : \A j \in I : i <= j
    BY <1>3, LeastNumber
  <1>5. PICK l \in A : l.prio = p /\ l.id = i
    BY <1>4
  <1>6. ASSUME NEW k \in A, k # l PROVE Precedes(l, k)
    <2>1. p <= k.prio
      BY <1>2
    <2>2. k.prio = p => i <= k.id
      BY <1>4
    <2>3. k.id # i /\ k.prio \in Nat /\ k.id \in Nat /\ p \in Nat /\ i \in Nat
      BY <1>1, <1>3, <1>5, <1>6 DEF Numbered
    <2> QED BY <1>5, <2>1, <2>2, <2>3 DEF Precedes
  <1> QED BY <1>6

\* ... and, ids being bounded, a last one.
LEMMA LastRow ==
  ASSUME NEW A, A # {}, Numbered(A)
  PROVE  \E l \in A : \A k \in A : k # l => Precedes(k, l)
  <1> DEFINE Upto(n) == {l \in A : l.id <= n}
             Last(n) == \E l \in Upto(n) : \A k \in Upto(n) : k # l => Precedes(k, l)
             T == {n \in Nat : Upto(n) # {} /\ ~Last(n)}
  <1>1. T = {}
    <2>1. SUFFICES ASSUME T # {} PROVE FALSE
      OBVIOUS
    <2>2. PICK n \in T : \A m \in T : n <= m
      BY <2>1, LeastNumber
    <2>0. n \in Nat
      OBVIOUS
    <2>3. n \in Nat /\ Upto(n) # {} /\ ~Last(n)
      OBVIOUS
    <2>4. PICK r \in Upto(n) : r.id = n
      <3>1. SUFFICES ASSUME \A l \in Upto(n) : l.id # n PROVE FALSE
        OBVIOUS
      <3>2. n # 0
        BY <2>3, <3>1 DEF Numbered
      <3>3. n - 1 \in Nat
        BY <2>3, <3>2
      <3>4. Upto(n) = Upto(n - 1)
        BY <2>3, <3>1 DEF Numbered
      <3>5. n - 1 \in T
        BY <2>3, <3>3, <3>4
      <3> QED BY <2>2, <2>3, <3>5
    <2>5. PICK k \in Upto(n) : k # r /\ ~Precedes(k, r)
      BY <2>3
    <2>6. k.id < n /\ n - 1 \in Nat /\ k \in Upto(n - 1)
      <3>1. k \in A /\ k.id \in Nat /\ k.id <= n /\ k.id # n
        BY <2>4, <2>5 DEF Numbered
      <3>2. k.id < n /\ n - 1 \in Nat /\ k.id <= n - 1
        BY <2>0, <3>1
      <3> QED BY <3>1, <3>2
    <2>7. n - 1 \notin T
      <3>1. SUFFICES ASSUME n - 1 \in T PROVE FALSE
        OBVIOUS
      <3>2. n <= n - 1
        BY <2>2, <3>1
      <3> QED BY <2>3, <3>2
    <2>8. Last(n - 1)
      BY <2>6, <2>7, Zenon
    <2>9. PICK m \in Upto(n - 1) : \A l \in Upto(n - 1) : l # m => Precedes(l, m)
      BY <2>8
    <2>10. Precedes(r, m)
      <3>1. Precedes(k, m) \/ k = m
        BY <2>6, <2>9
      <3>2. /\ r.prio \in Nat /\ k.prio \in Nat /\ m.prio \in Nat
            /\ r.id \in Nat /\ k.id \in Nat /\ m.id \in Nat
        BY DEF Numbered
      <3>3. m.id < r.id
        BY <2>3, <2>4, <3>2
      <3> QED BY <2>4, <2>5, <2>6, <3>1, <3>2, <3>3 DEF Precedes
    <2>11. ASSUME NEW l \in Upto(n), l # m PROVE Precedes(l, m)
      <3>1. CASE l.id = n
        BY <2>4, <2>10, <3>1 DEF Numbered
      <3>2. CASE l.id # n
        <4>1. l \in Upto(n - 1)
          <5>1. l \in A /\ l.id \in Nat /\ l.id <= n
            BY DEF Numbered
          <5>2. l.id <= n - 1
            BY <2>0, <3>2, <5>1
          <5> QED BY <5>1, <5>2
        <4> QED BY <2>9, <2>11, <4>1
      <3> QED BY <3>1, <3>2
    <2>12. m \in Upto(n)
      <3>1. m \in A /\ m.id <= n - 1 /\ m.id \in Nat
        BY DEF Numbered
      <3> QED BY <2>3, <3>1
    <2> QED BY <2>3, <2>11, <2>12
  <1>2. Upto(MaxLinks) = A
    BY DEF Numbered
  <1>3. Last(MaxLinks)
    BY <1>1, <1>2, BoundAssumption
  <1> QED BY <1>2, <1>3

-----------------------------------------------------------------------------
(***************************************************************************)
(* Types                                                                   *)
(***************************************************************************)

\* Detaching takes away, and leaves the rest of the chain in order.
LEMMA DetachGives ==
  ASSUME chain \in Seq(TCX), NEW l, DetachLink(l) \/ DetachLinkFails(l)
  PROVE  pins' \subseteq pins /\ Thinned(chain')
  BY WithoutLemma, SameChain DEF DetachLink, DetachLinkFails

LEMMA TypeInit == Init => TypeInv
  BY BoundAssumption DEF Init, TypeInv, TypeOK, JobType, NoJob, None, Programs, LinkIDs

\* An operation that returns is about nothing.
LEMMA ReturnType ==
  ASSUME TypeInv, Return
  PROVE  /\ pc' = "idle" /\ JobType'
         /\ job' \in [prog: Programs \cup {None}, prio: Priorities \cup {None},
                      id: LinkIDs \cup {None}, todo: SUBSET LinkIDs]
  BY DEF TypeInv, TypeOK, JobType, Return, NoJob

\* The position found is one of the chain, or just before it.
LEMMA AttachOrderType ==
  ASSUME chain \in Seq(TCX) PROVE AttachOrder \subseteq 0..Len(chain)
  BY DEF AttachOrder, Position

LEMMA TypeNext == TypeInv /\ [Next]_vars => TypeInv'
  <1> SUFFICES ASSUME TypeInv, [Next]_vars PROVE TypeInv'
    OBVIOUS
  <1> USE DEF TypeInv, TypeOK, objects, store, history, oper
  <1>t. ASSUME NEW W, Thinned(W) PROVE W \in Seq(TCX)
    BY <1>t DEF Thinned
  <1>1. ASSUME NEW p \in Programs, CreatePendingLink(p) PROVE TypeInv'
    <2>1. links' \subseteq Row
      BY <1>1 DEF CreatePendingLink, Row
    <2>2. nextID' \in 1..(MaxLinks + 1)
      BY <1>1, BoundAssumption DEF CreatePendingLink, LinkIDs
    <2>3. /\ job' \in [prog: Programs \cup {None}, prio: Priorities \cup {None},
                       id: LinkIDs \cup {None}, todo: SUBSET LinkIDs]
          /\ job'.prog \in Probes /\ job'.id \in LinkIDs
      BY <1>1 DEF CreatePendingLink, NoJob
    <2> QED BY <1>1, <2>1, <2>2, <2>3 DEF CreatePendingLink, JobType
  <1>2. ASSUME NEW p \in Programs, NEW prio \in Priorities, AttachTCX(p, prio) PROVE TypeInv'
    <2>1. pins' \subseteq pins /\ chain' \in Seq(TCX)
      BY <1>2, <1>t, DetachGives DEF AttachTCX
    <2>2. CASE UNCHANGED oper
      BY <1>2, <2>1, <2>2 DEF AttachTCX, JobType
    <2>3. CASE job' = [NoJob EXCEPT !.prog = p, !.prio = prio] /\ pc' = "tcx"
      <3>1. /\ job' \in [prog: Programs \cup {None}, prio: Priorities \cup {None},
                         id: LinkIDs \cup {None}, todo: SUBSET LinkIDs]
            /\ job'.prog = p /\ job'.prio = prio /\ job'.id = None
        BY <2>3 DEF NoJob
      <3>2. p \in TCX /\ nextID \in LinkIDs
        BY <1>2 DEF AttachTCX
      <3> QED BY <1>2, <2>1, <2>3, <3>1, <3>2 DEF AttachTCX, JobType
    <2> QED BY <1>2, <2>2, <2>3 DEF AttachTCX
  <1>3. CASE AttachPinned
    BY <1>3 DEF AttachPinned, JobType, Path, Programs
  <1>4. CASE AttachPinnedFails
    BY <1>4 DEF AttachPinnedFails, JobType
  <1>5. CASE FinaliseLink
    BY <1>5, ReturnType DEF FinaliseLink, JobType
  <1>6. CASE FinaliseLinkFails
    BY <1>6 DEF FinaliseLinkFails, JobType
  <1>7. CASE UndoAttach
    <2>1. pins' \subseteq pins /\ chain' \in Seq(TCX)
      BY <1>7, <1>t, DetachGives DEF UndoAttach
    <2>2. leaked' \subseteq LinkIDs
      BY <1>7 DEF UndoAttach, JobType, None
    <2>3. pc' \in {"return", "undorow"} /\ (pc' = "undorow" => job.prog \notin TCX)
      BY <1>7 DEF UndoAttach
    <2> QED BY <1>7, <2>1, <2>2, <2>3 DEF UndoAttach, JobType
  <1>8. CASE UndoRow
    BY <1>8, ReturnType DEF UndoRow
  <1>9. CASE Fail
    BY <1>9, ReturnType DEF Fail
  <1>10. CASE AttachTCXKernel
    <2>1. PICK n \in AttachOrder : chain' = Inserted(n)
      BY <1>10 DEF AttachTCXKernel
    <2>2. chain' \in Seq(TCX)
      <3>1. n \in 0..Len(chain) /\ job.prog \in TCX
        BY <1>10, AttachOrderType DEF AttachTCXKernel, JobType
      <3>2. Inserted(n) \in Seq(TCX)
        BY <3>1, InsertedLemma
      <3> QED BY <2>1, <3>2
    <2>3. pins' \subseteq [prog: Programs, id: LinkIDs \cup {None}]
      BY <1>10 DEF AttachTCXKernel, JobType, Path, Programs
    <2> QED BY <1>10, <2>2, <2>3 DEF AttachTCXKernel, JobType
  <1>11. CASE AttachTCXKernelFails
    BY <1>11, ReturnType DEF AttachTCXKernelFails
  <1>12. CASE SaveLink
    <2>1. links' \subseteq Row
      <3>1. [id |-> nextID, prog |-> job.prog, prio |-> job.prio] \in Row
        BY <1>12 DEF SaveLink, JobType, Row, Programs
      <3> QED BY <1>12, <3>1 DEF SaveLink
    <2>2. nextID' \in 1..(MaxLinks + 1) /\ promised' \subseteq LinkIDs
      <3>1. nextID \in LinkIDs
        BY <1>12 DEF SaveLink, JobType
      <3>2. nextID' \in 1..(MaxLinks + 1)
        BY <1>12, <3>1, BoundAssumption DEF SaveLink, LinkIDs
      <3>3. promised' \subseteq promised \cup {nextID}
        BY <1>12 DEF SaveLink
      <3> QED BY <3>1, <3>2, <3>3
    <2> QED BY <1>12, <2>1, <2>2, ReturnType DEF SaveLink
  <1>13. CASE SaveLinkFails
    BY <1>13 DEF SaveLinkFails, JobType
  <1>14. ASSUME NEW l \in links, Detach(l) PROVE TypeInv'
    <2>1. pins' \subseteq pins /\ chain' \in Seq(TCX)
      BY <1>14, <1>t, DetachGives DEF Detach
    <2>2. CASE UNCHANGED oper
      BY <1>14, <2>1, <2>2 DEF Detach, JobType
    <2>3. CASE job' = [NoJob EXCEPT !.id = l.id] /\ pc' = "delete"
      <3>1. l.id \in LinkIDs
        BY DEF Row
      <3>2. /\ job' \in [prog: Programs \cup {None}, prio: Priorities \cup {None},
                         id: LinkIDs \cup {None}, todo: SUBSET LinkIDs]
            /\ job'.id \in LinkIDs
        BY <2>3, <3>1 DEF NoJob
      <3> QED BY <1>14, <2>1, <2>3, <3>2 DEF Detach, JobType
    <2> QED BY <1>14, <2>2, <2>3 DEF Detach
  <1>15. CASE DeleteLink
    BY <1>15, ReturnType DEF DeleteLink
  <1>16. ASSUME NEW p \in Programs, Unload(p) PROVE TypeInv'
    <2>1. /\ job' \in [prog: Programs \cup {None}, prio: Priorities \cup {None},
                       id: LinkIDs \cup {None}, todo: SUBSET LinkIDs]
          /\ job'.prog = p
      <3>1. {l.id : l \in LinksOf(p)} \in SUBSET LinkIDs
        BY DEF LinksOf, Row
      <3>2. job' = [NoJob EXCEPT !.prog = p, !.todo = {l.id : l \in LinksOf(p)}]
        BY <1>16 DEF Unload
      <3> HIDE DEF TypeInv
      <3> QED BY <3>1, <3>2 DEF NoJob
    <2> QED BY <1>16, <2>1 DEF Unload, JobType
  <1>17. CASE DetachNext
    <2>1. PICK l \in LinksOf(job.prog) :
             /\ DetachLink(l) \/ DetachLinkFails(l)
             /\ \/ job' = [job EXCEPT !.todo = @ \ {l.id}] /\ UNCHANGED pc
                \/ Return
      BY <1>17 DEF DetachNext
    <2>2. pins' \subseteq pins /\ chain' \in Seq(TCX)
      BY <1>t, <2>1, DetachGives
    <2>3. CASE Return
      BY <1>17, <2>2, <2>3, ReturnType DEF DetachNext
    <2>4. CASE job' = [job EXCEPT !.todo = @ \ {l.id}] /\ UNCHANGED pc
      BY <1>17, <2>2, <2>4 DEF DetachNext, JobType
    <2> QED BY <2>1, <2>3, <2>4
  <1>18. CASE UnloadKernelProgram
    <2>1. CASE Return
      BY <1>18, <2>1, ReturnType DEF UnloadKernelProgram
    <2>2. CASE pc' = "deleterow" /\ UNCHANGED job
      BY <1>18, <2>2 DEF UnloadKernelProgram, JobType
    <2> QED BY <1>18, <2>1, <2>2 DEF UnloadKernelProgram
  <1>19. CASE DeleteProgramRecord
    BY <1>19, ReturnType DEF DeleteProgramRecord
  <1>20. CASE Crash
    BY <1>20, ReturnType DEF Crash
  <1>21. ASSUME NEW p \in Programs, ProgramDies(p) PROVE TypeInv'
    <2>1. chain' \in Seq(TCX)
      BY <1>21, <1>t, WithoutLemma DEF ProgramDies
    <2> QED BY <1>21, <2>1 DEF ProgramDies, JobType
  <1>22. CASE UNCHANGED vars
    BY <1>22 DEF vars, JobType
  <1> QED
    BY <1>1, <1>2, <1>3, <1>4, <1>5, <1>6, <1>7, <1>8, <1>9, <1>10, <1>11, <1>12, <1>13, <1>14,
       <1>15, <1>16, <1>17, <1>18, <1>19, <1>20, <1>21, <1>22 DEF Next, Quiet

\* The tables, the pins, the chain and the operation in progress are well
\* typed; in particular no row is without an allocated id.
THEOREM TypeCorrect == Spec => []TypeOK
  <1>1. TypeInv => TypeOK
    BY DEF TypeInv
  <1> QED BY <1>1, TypeInit, TypeNext, PTL DEF Spec

-----------------------------------------------------------------------------
(***************************************************************************)
(* The TCX chain                                                           *)
(***************************************************************************)

\* The rows TCX anchors are taken from are numbered.
LEMMA AnchorsNumbered ==
  ASSUME TypeInv, RowInv, NEW A, A \subseteq TCXLinks PROVE Numbered(A)
  <1>1. ASSUME NEW l \in A PROVE l.prio \in Nat /\ l.id \in Nat /\ l.id <= MaxLinks
    <2>1. l \in Row
      BY DEF TypeInv, TypeOK, TCXLinks
    <2>2. l.id \in 1..MaxLinks /\ l.prio \in Priorities \cup {None}
      BY <2>1 DEF Row, LinkIDs
    <2>3. l.prio \in Nat
      <3>1. \A x \in Priorities : x \in Nat
        BY PriorityAssumption
      <3>2. None \in Nat
        BY DEF None
      <3> QED BY <2>2, <3>1, <3>2
    <2>4. l.id \in Nat /\ l.id <= MaxLinks
      BY <2>2, BoundAssumption
    <2> QED BY <2>3, <2>4
  <1>2. ASSUME NEW k \in A, NEW l \in A, k.id = l.id PROVE k = l
    BY <1>2 DEF RowInv, TCXLinks
  <1> QED BY <1>1, <1>2 DEF Numbered

\* The new program comes to run after the rows of at most its priority and
\* before the others, whichever of them are in the chain.
LEMMA Placed ==
  ASSUME TypeInv, RowInv, NoDuplicates, ChainPinned, TCXOrder, pc = "tcx", ~InChain(job.prog),
         NEW n \in AttachOrder, NEW l \in TCXLinks, l.prog # job.prog,
         NEW i \in DOMAIN Inserted(n), Inserted(n)[i] = l.prog,
         NEW j \in DOMAIN Inserted(n), Inserted(n)[j] = job.prog
  PROVE  IF l.prio > job.prio THEN j < i ELSE i < j
  <1>0. chain \in Seq(TCX) /\ job.prog \in TCX /\ job.prio \in Priorities
    BY DEF TypeInv, TypeOK, JobType
  <1>1. /\ chain \in Seq(TCX) /\ job.prog \in TCX /\ job.prio \in Nat
        /\ DOMAIN chain = 1..Len(chain) /\ Len(chain) \in Nat
    <2>1. \A x \in Priorities : x \in Nat
      BY PriorityAssumption
    <2>2. DOMAIN chain = 1..Len(chain) /\ Len(chain) \in Nat
      BY <1>0
    <2> QED BY <1>0, <2>1, <2>2
  <1>2. n \in 0..Len(chain)
    BY <1>1, AttachOrderType
  <1> DEFINE W == Inserted(n)
  <1>3. /\ DOMAIN W = 1..(Len(chain) + 1)
        /\ \A a \in 1..n : W[a] = chain[a]
        /\ W[n + 1] = job.prog
        /\ \A a \in (n + 2)..(Len(chain) + 1) : W[a] = chain[a - 1]
    BY <1>1, <1>2, InsertedLemma
  <1> HIDE DEF W
  <1>4. W[i] = l.prog /\ W[j] = job.prog /\ i \in DOMAIN W /\ j \in DOMAIN W
    BY DEF W
  <1>5. j = n + 1
    <2>1. \A a \in 1..Len(chain) : chain[a] # job.prog
      BY <1>1 DEF InChain
    <2>2. j \in 1..(Len(chain) + 1) /\ n \in Nat
      BY <1>1, <1>2, <1>3, <1>4
    <2>3. ~(j \in 1..n)
      BY <1>1, <1>2, <1>3, <1>4, <2>1
    <2>4. ~(j \in (n + 2)..(Len(chain) + 1))
      <3>1. SUFFICES ASSUME j \in (n + 2)..(Len(chain) + 1) PROVE FALSE
        OBVIOUS
      <3>2. chain[j - 1] = job.prog
        BY <1>3, <1>4, <3>1
      <3>3. j - 1 \in 1..Len(chain)
        BY <1>1, <1>2, <3>1
      <3> QED BY <2>1, <3>2, <3>3
    <2> QED BY <1>1, <2>2, <2>3, <2>4
  <1>6. PICK a \in 1..Len(chain) : chain[a] = l.prog /\ ((i = a /\ a <= n) \/ (i = a + 1 /\ a > n))
    <2>1. CASE i \in 1..n
      <3>1. chain[i] = l.prog
        BY <1>3, <1>4, <2>1
      <3>2. i \in 1..Len(chain) /\ i <= n
        BY <1>1, <1>2, <2>1
      <3> QED BY <3>1, <3>2
    <2>2. CASE i \in (n + 2)..(Len(chain) + 1)
      <3>1. chain[i - 1] = l.prog
        BY <1>3, <1>4, <2>2
      <3>2. i - 1 \in 1..Len(chain) /\ i = (i - 1) + 1 /\ i - 1 > n
        BY <1>1, <1>2, <2>2
      <3> QED BY <3>1, <3>2
    <2>3. i # n + 1
      BY <1>3, <1>4
    <2>4. i \in 1..n \/ i \in (n + 2)..(Len(chain) + 1)
      BY <1>1, <1>2, <1>3, <1>4, <2>3
    <2> QED BY <2>1, <2>2, <2>4
  <1>7. l \in Anchors
    <2>1. [prog |-> chain[a], id |-> None] \in pins
      BY <1>1 DEF ChainPinned
    <2>2. \E f \in pins : f.prog = l.prog
      BY <1>6, <2>1
    <2> QED BY <2>2 DEF Anchors, Live
  <1>8. Numbered(Anchors)
    BY AnchorsNumbered DEF Anchors
  <1>9. ASSUME NEW k \in Anchors, NEW m \in Anchors, Precedes(k, m),
               NEW b \in 1..Len(chain), NEW c \in 1..Len(chain), chain[b] = k.prog, chain[c] = m.prog
        PROVE  b < c
    BY <1>1, <1>9 DEF TCXOrder, Anchors
  <1>10. CASE \E k \in Anchors : RunsAfter(k)
    <2> DEFINE F == FirstAfter
               A == {k \in Anchors : RunsAfter(k)}
    <2>1. Numbered(A) /\ A # {}
      BY <1>8, <1>10 DEF Numbered
    <2>2. \E k \in A : \A m \in A : m # k => Precedes(k, m)
      BY <2>1, FirstRow
    <2>3. \E k \in Anchors : RunsAfter(k) /\ \A m \in Anchors : RunsAfter(m) /\ m # k => Precedes(k, m)
      BY <2>2
    <2>4. /\ F \in Anchors /\ RunsAfter(F)
          /\ \A m \in Anchors : RunsAfter(m) /\ m # F => Precedes(F, m)
      BY <2>3 DEF FirstAfter
    <2>5. AttachOrder = {b - 1 : b \in Position(F.prog)}
      BY <1>7, <1>10 DEF AttachOrder
    <2> HIDE DEF F
    <2>6. PICK b \in 1..Len(chain) : chain[b] = F.prog /\ n = b - 1
      BY <1>1, <2>5 DEF Position
    <2>7. l.prio \in Nat /\ F.prio \in Nat
      BY <1>7, <1>8, <2>4 DEF Numbered
    <2>8. CASE l.prio > job.prio
      <3>1. l = F \/ Precedes(F, l)
        BY <1>7, <2>4, <2>8 DEF RunsAfter
      <3>2. l = F => a = b
        BY <1>1, <1>6, <2>6 DEF NoDuplicates
      <3>3. Precedes(F, l) => b < a
        BY <1>6, <1>7, <1>9, <2>4, <2>6
      <3>4. a > n
        BY <2>6, <3>1, <3>2, <3>3
      <3> QED BY <1>2, <1>5, <1>6, <2>8, <3>4
    <2>9. CASE ~(l.prio > job.prio)
      <3>1. Precedes(l, F)
        BY <1>1, <2>4, <2>7, <2>9 DEF RunsAfter, Precedes
      <3>2. a < b
        BY <1>6, <1>7, <1>9, <2>4, <2>6, <3>1
      <3> QED BY <1>2, <1>5, <1>6, <2>6, <2>9, <3>2
    <2> QED BY <2>8, <2>9
  <1>11. CASE ~\E k \in Anchors : RunsAfter(k)
    <2> DEFINE L == LastAnchor
    <2>1. \E k \in Anchors : \A m \in Anchors : m # k => Precedes(m, k)
      BY <1>7, <1>8, LastRow
    <2>2. L \in Anchors /\ \A m \in Anchors : m # L => Precedes(m, L)
      BY <2>1 DEF LastAnchor
    <2>3. AttachOrder = Position(L.prog)
      BY <1>7, <1>11 DEF AttachOrder
    <2> HIDE DEF L
    <2>4. n \in 1..Len(chain) /\ chain[n] = L.prog
      BY <1>1, <2>3 DEF Position
    <2>5. a <= n
      <3>1. l = L => a = n
        BY <1>1, <1>6, <2>4 DEF NoDuplicates
      <3>2. Precedes(l, L) => a < n
        BY <1>6, <1>7, <1>9, <2>2, <2>4
      <3> QED BY <1>7, <2>2, <2>4, <3>1, <3>2
    <2>6. ~(l.prio > job.prio)
      BY <1>7, <1>11 DEF RunsAfter
    <2> QED BY <1>2, <1>5, <1>6, <2>5, <2>6
  <1> QED BY <1>10, <1>11

\* An insertion keeps the order of the programs that were there, and brings in
\* only the new one.
LEMMA InsertedKeeps ==
  ASSUME chain \in Seq(TCX), job.prog \in TCX, NEW n \in 0..Len(chain)
  PROVE  /\ \A i \in DOMAIN Inserted(n) : Inserted(n)[i] = job.prog \/ InChain(Inserted(n)[i])
         /\ \A q : q = job.prog \/ InChain(q) => \E i \in DOMAIN Inserted(n) : Inserted(n)[i] = q
         /\ \A i, j \in DOMAIN Inserted(n) :
               i < j /\ Inserted(n)[i] # job.prog /\ Inserted(n)[j] # job.prog =>
                   \E c, d \in DOMAIN chain :
                       c < d /\ chain[c] = Inserted(n)[i] /\ chain[d] = Inserted(n)[j]
         /\ ~InChain(job.prog) /\ NoDuplicates =>
               \A i, j \in DOMAIN Inserted(n) : Inserted(n)[i] = Inserted(n)[j] => i = j
  <1> DEFINE W == Inserted(n)
             Back(a) == IF a <= n THEN a ELSE a - 1
  <1>1. /\ DOMAIN W = 1..(Len(chain) + 1)
        /\ \A a \in 1..n : W[a] = chain[a]
        /\ W[n + 1] = job.prog
        /\ \A a \in (n + 2)..(Len(chain) + 1) : W[a] = chain[a - 1]
    BY InsertedLemma
  <1>2. DOMAIN chain = 1..Len(chain) /\ Len(chain) \in Nat /\ n \in Nat
    OBVIOUS
  <1> HIDE DEF W
  <1>3. ASSUME NEW a \in DOMAIN W, a # n + 1
        PROVE  Back(a) \in DOMAIN chain /\ chain[Back(a)] = W[a]
    <2>1. CASE a \in 1..n
      BY <1>1, <1>2, <2>1
    <2>2. CASE a \in (n + 2)..(Len(chain) + 1)
      <3>1. W[a] = chain[a - 1]
        BY <1>1, <2>2
      <3>2. Back(a) = a - 1 /\ a - 1 \in 1..Len(chain)
        BY <1>2, <2>2
      <3> QED BY <1>2, <3>1, <3>2
    <2>3. a \in 1..n \/ a \in (n + 2)..(Len(chain) + 1)
      BY <1>1, <1>2, <1>3
    <2> QED BY <2>1, <2>2, <2>3
  <1>4. ASSUME NEW a \in DOMAIN W PROVE W[a] = job.prog \/ InChain(W[a])
    <2>1. CASE a = n + 1
      BY <1>1, <2>1
    <2>2. CASE a # n + 1
      BY <1>3, <2>2 DEF InChain
    <2> QED BY <2>1, <2>2
  <1>5. ASSUME NEW q, q = job.prog \/ InChain(q) PROVE \E a \in DOMAIN W : W[a] = q
    <2>1. CASE q = job.prog
      <3>1. n + 1 \in DOMAIN W
        BY <1>1, <1>2
      <3> QED BY <1>1, <2>1, <3>1
    <2>2. CASE InChain(q)
      <3>1. PICK b \in 1..Len(chain) : chain[b] = q
        BY <1>2, <2>2 DEF InChain
      <3>2. CASE b <= n
        <4>1. b \in DOMAIN W /\ W[b] = q
          BY <1>1, <1>2, <3>1, <3>2
        <4> QED BY <4>1
      <3>3. CASE b > n
        <4>1. b + 1 \in (n + 2)..(Len(chain) + 1) /\ b + 1 \in DOMAIN W /\ (b + 1) - 1 = b
          BY <1>1, <1>2, <3>3
        <4>2. W[b + 1] = chain[(b + 1) - 1]
          BY <1>1, <4>1
        <4>3. W[b + 1] = q
          BY <3>1, <4>1, <4>2
        <4> QED BY <4>1, <4>3
      <3> QED BY <1>2, <3>2, <3>3
    <2> QED BY <1>5, <2>1, <2>2
  <1>6. ASSUME NEW a \in DOMAIN W, NEW b \in DOMAIN W, a < b, W[a] # job.prog, W[b] # job.prog
        PROVE  \E c, d \in DOMAIN chain : c < d /\ chain[c] = W[a] /\ chain[d] = W[b]
    <2>1. a # n + 1 /\ b # n + 1
      BY <1>1, <1>6
    <2>2. /\ Back(a) \in DOMAIN chain /\ chain[Back(a)] = W[a]
          /\ Back(b) \in DOMAIN chain /\ chain[Back(b)] = W[b]
      BY <1>3, <2>1
    <2>3. a \in Nat /\ b \in Nat
      BY <1>1
    <2>4. Back(a) < Back(b)
      BY <1>2, <1>6, <2>1, <2>3
    <2> HIDE DEF Back
    <2> QED BY <2>2, <2>4
  <1>7. ASSUME ~InChain(job.prog), NoDuplicates, NEW a \in DOMAIN W, NEW b \in DOMAIN W, W[a] = W[b]
        PROVE  a = b
    <2>1. CASE a = n + 1 \/ b = n + 1
      <3>1. \A c \in DOMAIN W : c # n + 1 => W[c] # job.prog
        BY <1>3, <1>7 DEF InChain
      <3> QED BY <1>1, <1>7, <2>1, <3>1
    <2>2. CASE a # n + 1 /\ b # n + 1
      <3>1. Back(a) = Back(b)
        <4> HIDE DEF Back
        <4> QED BY <1>3, <1>7, <2>2 DEF NoDuplicates
      <3>2. a \in Nat /\ b \in Nat
        BY <1>1
      <3> QED BY <1>2, <2>2, <3>1, <3>2
    <2> QED BY <2>1, <2>2
  <1> QED BY <1>4, <1>5, <1>6, <1>7 DEF W


-----------------------------------------------------------------------------
(***************************************************************************)
(* The inductive invariant                                                 *)
(***************************************************************************)
Inv ==
    /\ TypeInv /\ RowInv
    /\ NoDuplicates /\ ChainPinned /\ TCXOrder
    /\ SimpleInv /\ TCXInv /\ RemovalInv
    /\ PinsNamed /\ LinksAttached

\* No row, no pin and no place in the chain is given out.
OnlyLess ==
    links' \subseteq links /\ nextID' = nextID /\ pins' \subseteq pins /\ Thinned(chain')

\* Four steps give out something; every other step only takes away.
LEMMA StepKinds ==
  ASSUME TypeInv, [Next]_vars
  PROVE  \/ \E p \in Programs : CreatePendingLink(p)
         \/ AttachPinned \/ AttachTCXKernel \/ SaveLink
         \/ OnlyLess
  <1>t. chain \in Seq(TCX)
    BY DEF TypeInv, TypeOK
  <1>s. UNCHANGED <<links, nextID, pins, chain>> => OnlyLess
    BY <1>t, SameChain DEF OnlyLess
  <1> USE DEF store, objects, history, oper
  <1>1. ASSUME NEW p \in Programs, NEW prio \in Priorities, AttachTCX(p, prio) PROVE OnlyLess
    BY <1>1, <1>t, DetachGives DEF AttachTCX, OnlyLess
  <1>2. CASE AttachPinnedFails \/ FinaliseLink \/ FinaliseLinkFails \/ Fail
             \/ AttachTCXKernelFails \/ SaveLinkFails \/ UnloadKernelProgram \/ Crash
    BY <1>2, <1>s DEF AttachPinnedFails, FinaliseLink, FinaliseLinkFails, Fail,
                      AttachTCXKernelFails, SaveLinkFails, UnloadKernelProgram, Crash
  <1>3. CASE UndoAttach
    BY <1>3, <1>t, DetachGives DEF UndoAttach, OnlyLess
  <1>4. CASE UndoRow
    BY <1>4, <1>t, SameChain DEF UndoRow, OnlyLess
  <1>5. ASSUME NEW l \in links, Detach(l) PROVE OnlyLess
    BY <1>5, <1>t, DetachGives DEF Detach, OnlyLess
  <1>6. CASE DeleteLink
    BY <1>6, <1>t, SameChain DEF DeleteLink, OnlyLess
  <1>7. ASSUME NEW p \in Programs, Unload(p) PROVE OnlyLess
    BY <1>7, <1>s DEF Unload
  <1>8. CASE DetachNext
    <2>1. PICK l \in links : DetachLink(l) \/ DetachLinkFails(l)
      BY <1>8 DEF DetachNext, LinksOf
    <2> QED BY <1>8, <1>t, <2>1, DetachGives DEF DetachNext, OnlyLess
  <1>9. CASE DeleteProgramRecord
    BY <1>9, <1>t, SameChain DEF DeleteProgramRecord, OnlyLess
  <1>10. ASSUME NEW p \in Programs, ProgramDies(p) PROVE OnlyLess
    BY <1>10, <1>t, WithoutLemma DEF ProgramDies, OnlyLess
  <1>11. CASE UNCHANGED vars
    BY <1>11, <1>s DEF vars
  <1> QED
    BY <1>1, <1>2, <1>3, <1>4, <1>5, <1>6, <1>7, <1>8, <1>9, <1>10, <1>11 DEF Next, Quiet

\* A row's path: pins of TCX programs are named after the program alone.
LEMMA PathLemma ==
  ASSUME TypeInv
  PROVE  /\ \A l \in links : l.id \in LinkIDs /\ l.prog \in Programs
         /\ \A k, l : Path(k) = Path(l) => k.prog = l.prog
         /\ \A k, l : k.prog = l.prog /\ k.prog \in TCX => Path(k) = Path(l)
         /\ \A k, l : Path(k) = Path(l) /\ k.prog \in Probes => k.id = l.id
         /\ \A l : Path(l).prog = l.prog
         /\ \A l : l.prog \in Probes => Path(l).id = l.id
         /\ \A l : l.prog \in TCX => Path(l) = [prog |-> l.prog, id |-> None]
  <1>1. \A p \in Probes : p \notin TCX
    BY ProgramAssumption
  <1>2. \A l \in links : l.id \in LinkIDs /\ l.prog \in Programs
    BY DEF TypeInv, TypeOK, Row
  <1>3. \A l : Path(l).prog = l.prog
    BY DEF Path
  <1>4. \A l : l.prog \in Probes => Path(l).id = l.id
    BY <1>1 DEF Path
  <1>5. \A l : l.prog \in TCX => Path(l) = [prog |-> l.prog, id |-> None]
    BY DEF Path
  <1>6. \A k, l : Path(k) = Path(l) => k.prog = l.prog
    BY <1>3
  <1>7. \A k, l : Path(k) = Path(l) /\ k.prog \in Probes => k.id = l.id
    BY <1>3, <1>4
  <1>8. \A k, l : k.prog = l.prog /\ k.prog \in TCX => Path(k) = Path(l)
    BY <1>5
  <1> QED BY <1>2, <1>3, <1>4, <1>5, <1>6, <1>7, <1>8

LEMMA RowNext == Inv /\ [Next]_vars => RowInv'
  <1> SUFFICES ASSUME Inv, [Next]_vars PROVE RowInv'
    OBVIOUS
  <1> USE DEF store, objects, history, oper
  <1>0. TypeInv /\ RowInv
    BY DEF Inv
  <1>i. nextID \in Nat /\ \A l \in links : l.id \in Nat /\ l.prog \in Programs
    BY <1>0, PathLemma, BoundAssumption DEF TypeInv, TypeOK, LinkIDs
  <1>f. \A f \in pins : f.prog \in Probes => f.id \in Nat
    BY <1>0 DEF TypeInv, TypeOK, LinkIDs, None
  <1>1. ASSUME NEW p \in Programs, CreatePendingLink(p) PROVE RowInv'
    <2> DEFINE r == [id |-> nextID, prog |-> p, prio |-> None]
    <2>1. links' = links \cup {r} /\ nextID' = nextID + 1 /\ pins' = pins /\ p \in Probes
      BY <1>1 DEF CreatePendingLink
    <2>2. r.id = nextID /\ r.prog = p
      OBVIOUS
    <2>3. TCXLinks' = TCXLinks
      BY <2>1, <2>2, ProgramAssumption DEF TCXLinks
    <2> HIDE DEF r
    <2>4. \A l \in links : l.id < nextID
      BY <1>0 DEF RowInv
    <2>5. \A k, l \in links' : k.id = l.id => k = l
      BY <1>0, <1>i, <2>1, <2>2, <2>4 DEF RowInv
    <2>6. \A l \in links' : l.id < nextID'
      BY <1>i, <2>1, <2>2, <2>4
    <2>7. \A f \in pins' : f.prog \in Probes => f.id < nextID'
      BY <1>0, <1>i, <1>f, <2>1 DEF RowInv
    <2> QED BY <1>0, <2>3, <2>5, <2>6, <2>7 DEF RowInv
  <1>2. CASE AttachPinned
    <2>1. links' = links /\ nextID' = nextID /\ TCXLinks' = TCXLinks
      BY <1>2 DEF AttachPinned, TCXLinks
    <2>2. pins' = pins \cup {Path(job)} /\ job.prog \in Probes
      BY <1>0, <1>2 DEF AttachPinned, TypeInv, JobType
    <2>3. [id |-> job.id, prog |-> job.prog, prio |-> None] \in links
      BY <1>2, <2>2 DEF AttachPinned, Inv, SimpleInv
    <2>4. job.id < nextID
      BY <1>0, <2>3 DEF RowInv
    <2>5. Path(job).id = job.id
      BY <1>0, <2>2, PathLemma
    <2> QED BY <1>0, <2>1, <2>2, <2>4, <2>5 DEF RowInv
  <1>3. CASE AttachTCXKernel
    <2>1. links' = links /\ nextID' = nextID /\ TCXLinks' = TCXLinks
      BY <1>3 DEF AttachTCXKernel, TCXLinks
    <2>2. pins' = pins \cup {Path(job)} /\ job.prog \in TCX
      BY <1>0, <1>3 DEF AttachTCXKernel, TypeInv, JobType
    <2>3. Path(job).prog \notin Probes
      BY <1>0, <2>2, PathLemma, ProgramAssumption
    <2> QED BY <1>0, <2>1, <2>2, <2>3 DEF RowInv
  <1>4. CASE SaveLink
    <2> DEFINE r == [id |-> nextID, prog |-> job.prog, prio |-> job.prio]
    <2>1. links' = links \cup {r} /\ nextID' = nextID + 1 /\ pins' = pins
      BY <1>4 DEF SaveLink
    <2>2. r.id = nextID /\ r.prog = job.prog
      OBVIOUS
    <2>3. TCXLinks' \subseteq TCXLinks \cup {r}
      BY <2>1 DEF TCXLinks
    <2>4. \A l \in TCXLinks : l.prog # job.prog
      BY <1>4 DEF Inv, TCXInv, SaveLink
    <2> HIDE DEF r
    <2>5. \A l \in links : l.id < nextID
      BY <1>0 DEF RowInv
    <2>6. \A k, l \in links' : k.id = l.id => k = l
      BY <1>0, <1>i, <2>1, <2>2, <2>5 DEF RowInv
    <2>7. \A l \in links' : l.id < nextID'
      BY <1>i, <2>1, <2>2, <2>5
    <2>8. \A f \in pins' : f.prog \in Probes => f.id < nextID'
      BY <1>0, <1>i, <1>f, <2>1 DEF RowInv
    <2>9. \A k, l \in TCXLinks' : k.prog = l.prog => k = l
      BY <1>0, <2>2, <2>3, <2>4 DEF RowInv
    <2> QED BY <2>6, <2>7, <2>8, <2>9 DEF RowInv
  <1>5. CASE OnlyLess
    <2>1. links' \subseteq links /\ nextID' = nextID /\ pins' \subseteq pins /\ TCXLinks' \subseteq TCXLinks
      BY <1>5 DEF OnlyLess, TCXLinks
    <2> QED BY <1>0, <2>1 DEF RowInv
  <1> QED BY <1>0, <1>1, <1>2, <1>3, <1>4, <1>5, StepKinds


\* Rows are ordered strictly.
LEMMA OrderLemma ==
  ASSUME Inv
  PROVE  /\ \A l \in TCXLinks : l.prio \in Nat /\ l.id \in Nat
         /\ \A l \in TCXLinks : ~Precedes(l, l)
         /\ \A k, l \in TCXLinks : k.prog = l.prog => k = l
  <1>1. Numbered(TCXLinks)
    BY AnchorsNumbered DEF Inv
  <1>2. \A l \in TCXLinks : l.prio \in Nat /\ l.id \in Nat
    BY <1>1 DEF Numbered
  <1>3. \A l \in TCXLinks : ~Precedes(l, l)
    BY <1>2 DEF Precedes
  <1> QED BY <1>2, <1>3 DEF Inv, RowInv

LEMMA ChainNext == Inv /\ [Next]_vars => NoDuplicates' /\ TCXOrder'
  <1> SUFFICES ASSUME Inv, [Next]_vars PROVE NoDuplicates' /\ TCXOrder'
    OBVIOUS
  <1> USE DEF store, objects, history, oper
  <1>0. TypeInv /\ NoDuplicates /\ TCXOrder
    BY DEF Inv
  <1>p. \A k, l : Precedes(k, l)' <=> Precedes(k, l)
    BY DEF Precedes
  <1>c. chain \in Seq(TCX) /\ chain' \in Seq(TCX)
    BY <1>0, TypeNext DEF TypeInv, TypeOK
  <1>d. /\ DOMAIN chain = 1..Len(chain) /\ Len(chain) \in Nat
        /\ DOMAIN chain' = 1..Len(chain') /\ Len(chain') \in Nat
    BY <1>c
  <1>s. ASSUME chain' = chain, TCXLinks' \subseteq TCXLinks PROVE NoDuplicates' /\ TCXOrder'
    BY <1>0, <1>p, <1>s DEF NoDuplicates, TCXOrder
  <1>1. ASSUME NEW p \in Programs, CreatePendingLink(p) PROVE NoDuplicates' /\ TCXOrder'
    <2>1. links' = links \cup {[id |-> nextID, prog |-> p, prio |-> None]} /\ chain' = chain /\ p \in Probes
      BY <1>1 DEF CreatePendingLink
    <2>2. TCXLinks' \subseteq TCXLinks
      BY <2>1, ProgramAssumption DEF TCXLinks
    <2> QED BY <1>s, <2>1, <2>2
  <1>2. CASE AttachPinned
    BY <1>2, <1>s DEF AttachPinned, TCXLinks
  <1>3. CASE AttachTCXKernel
    <2>1. PICK n \in AttachOrder : chain' = Inserted(n)
      BY <1>3 DEF AttachTCXKernel
    <2>2. n \in 0..Len(chain) /\ job.prog \in TCX /\ ~InChain(job.prog) /\ TCXLinks' = TCXLinks
      BY <1>0, <1>3, <1>c, AttachOrderType DEF AttachTCXKernel, TypeInv, JobType, Inv, TCXInv, TCXLinks
    <2>3. \A l \in TCXLinks : l.prog # job.prog
      BY <1>3 DEF AttachTCXKernel, Inv, TCXInv
    <2>4. NoDuplicates'
      <3>1. \A i, j \in DOMAIN Inserted(n) : Inserted(n)[i] = Inserted(n)[j] => i = j
        BY <1>0, <1>c, <2>2, InsertedKeeps
      <3> QED BY <2>1, <3>1 DEF NoDuplicates
    <2>5. ASSUME NEW k \in TCXLinks, NEW l \in TCXLinks, Precedes(k, l),
                 NEW i \in DOMAIN chain', NEW j \in DOMAIN chain', chain'[i] = k.prog, chain'[j] = l.prog
          PROVE  i < j
      <3>1. i # j
        BY <2>5, OrderLemma
      <3>2. ~(j < i)
        <4>1. SUFFICES ASSUME j < i PROVE FALSE
          OBVIOUS
        <4>2. PICK c, d \in DOMAIN chain : c < d /\ chain[c] = l.prog /\ chain[d] = k.prog
          BY <1>c, <2>1, <2>2, <2>3, <2>5, <4>1, InsertedKeeps
        <4>3. d < c
          BY <1>0, <2>5, <4>2 DEF TCXOrder
        <4> QED BY <1>d, <4>2, <4>3
      <3> QED BY <1>d, <3>1, <3>2
    <2> QED BY <1>p, <2>2, <2>4, <2>5 DEF TCXOrder
  <1>4. CASE SaveLink
    <2> DEFINE r == [id |-> nextID, prog |-> job.prog, prio |-> job.prio]
    <2>1. links' = links \cup {r} /\ chain' = chain /\ pc = "save"
      BY <1>4 DEF SaveLink
    <2>2. NoDuplicates'
      BY <1>0, <2>1 DEF NoDuplicates
    <2>3. TCXLinks' \subseteq TCXLinks \cup {r}
      BY <2>1 DEF TCXLinks
    <2>4. \A l \in TCXLinks : \A i, j \in DOMAIN chain : chain[i] = l.prog /\ chain[j] = job.prog =>
                    IF l.prio > job.prio THEN j < i ELSE i < j
      BY <2>1 DEF Inv, TCXInv
    <2>5. r.id = nextID /\ r.prog = job.prog /\ r.prio = job.prio
      OBVIOUS
    <2>6. nextID \in Nat /\ job.prio \in Nat
      <3>1. job.prio \in Priorities /\ nextID \in LinkIDs
        BY <1>0, <2>1 DEF TypeInv, JobType
      <3>2. \A x \in Priorities : x \in Nat
        BY PriorityAssumption
      <3> QED BY <3>1, <3>2, BoundAssumption DEF LinkIDs
    <2>7. \A l \in TCXLinks : l.id < nextID
      BY DEF Inv, RowInv, TCXLinks
    <2> HIDE DEF r
    <2>8. ASSUME NEW k \in TCXLinks', NEW l \in TCXLinks', Precedes(k, l),
                 NEW i \in DOMAIN chain, NEW j \in DOMAIN chain, chain[i] = k.prog, chain[j] = l.prog
          PROVE  i < j
      <3>1. CASE k \in TCXLinks /\ l \in TCXLinks
        BY <1>0, <2>8, <3>1 DEF TCXOrder
      <3>2. CASE k = r /\ l = r
        BY <2>5, <2>6, <2>8, <3>2 DEF Precedes
      <3>3. CASE k \in TCXLinks /\ l = r
        <4>1. ~(k.prio > job.prio)
          BY <2>5, <2>6, <2>8, <3>3, OrderLemma DEF Precedes
        <4> QED BY <2>4, <2>5, <2>8, <3>3, <4>1
      <3>4. CASE k = r /\ l \in TCXLinks
        <4>1. l.prio > job.prio
          BY <2>5, <2>6, <2>7, <2>8, <3>4, OrderLemma DEF Precedes
        <4> QED BY <2>4, <2>5, <2>8, <3>4, <4>1
      <3> QED BY <2>3, <3>1, <3>2, <3>3, <3>4
    <2> QED BY <1>p, <2>1, <2>2, <2>8 DEF TCXOrder
  <1>5. CASE OnlyLess
    <2>1. TCXLinks' \subseteq TCXLinks /\ Thinned(chain')
      BY <1>5 DEF OnlyLess, TCXLinks
    <2>2. ASSUME NEW a \in DOMAIN chain', NEW b \in DOMAIN chain', a < b
          PROVE  \E c, d \in DOMAIN chain : c < d /\ chain[c] = chain'[a] /\ chain[d] = chain'[b]
      BY <2>1, <2>2 DEF Thinned
    <2>3. ASSUME NEW a \in DOMAIN chain', NEW b \in DOMAIN chain', a < b
          PROVE  chain'[a] # chain'[b]
      BY <1>0, <1>d, <2>2, <2>3 DEF NoDuplicates
    <2>4. NoDuplicates'
      BY <1>d, <2>3 DEF NoDuplicates
    <2>5. ASSUME NEW k \in TCXLinks, NEW l \in TCXLinks, Precedes(k, l),
                 NEW i \in DOMAIN chain', NEW j \in DOMAIN chain', chain'[i] = k.prog, chain'[j] = l.prog
          PROVE  i < j
      <3>1. i # j
        BY <2>5, OrderLemma
      <3>2. ~(j < i)
        <4>1. SUFFICES ASSUME j < i PROVE FALSE
          OBVIOUS
        <4>2. PICK c, d \in DOMAIN chain : c < d /\ chain[c] = l.prog /\ chain[d] = k.prog
          BY <2>2, <2>5, <4>1
        <4>3. d < c
          BY <1>0, <2>5, <4>2 DEF TCXOrder
        <4> QED BY <1>d, <4>2, <4>3
      <3> QED BY <1>d, <3>1, <3>2
    <2> QED BY <1>p, <2>1, <2>4, <2>5 DEF TCXOrder
  <1> QED BY <1>0, <1>1, <1>2, <1>3, <1>4, <1>5, StepKinds

\* What detaching does: the pin and the program go together, and nothing else.
LEMMA DetachLemma ==
  ASSUME Inv, NEW l, DetachLink(l) \/ DetachLinkFails(l)
  PROVE  /\ pins' \subseteq pins /\ pins \ {Path(l)} \subseteq pins'
         /\ DetachLink(l) => Path(l) \notin pins'
         /\ Path(l) \notin pins => chain' = chain
         /\ \A q : InChain(q)' => InChain(q)
         /\ \A q : q # l.prog /\ InChain(q) => InChain(q)'
         /\ DetachLink(l) /\ Path(l) \in pins => ~InChain(l.prog)'
         /\ ChainPinned'
  <1>1. chain \in Seq(TCX) /\ NoDuplicates /\ ChainPinned
    BY DEF Inv, TypeInv, TypeOK
  <1>2. chain' = chain \/ chain' = ChainWithout(l.prog)
    BY DEF DetachLink, DetachLinkFails
  <1>3. pins' = pins \/ pins' = pins \ {Path(l)}
    BY DEF DetachLink, DetachLinkFails
  <1>4. DetachLink(l) => Path(l) \notin pins' /\ (Path(l) \in pins => chain' = ChainWithout(l.prog))
    BY DEF DetachLink
  <1>5. Path(l) \notin pins => chain' = chain
    BY DEF DetachLink, DetachLinkFails
  <1>6. /\ \A a \in DOMAIN ChainWithout(l.prog) : ChainWithout(l.prog)[a] # l.prog
        /\ \A a \in DOMAIN ChainWithout(l.prog) : InChain(ChainWithout(l.prog)[a])
        /\ \A q : q # l.prog /\ InChain(q) =>
              \E a \in DOMAIN ChainWithout(l.prog) : ChainWithout(l.prog)[a] = q
    BY <1>1, WithoutLemma DEF Thinned
  <1>7. \A q : InChain(q)' => InChain(q)
    BY <1>2, <1>6 DEF InChain
  <1>8. \A q : q # l.prog /\ InChain(q) => InChain(q)'
    BY <1>2, <1>6 DEF InChain
  <1>9. DetachLink(l) /\ Path(l) \in pins => ~InChain(l.prog)'
    BY <1>4, <1>6 DEF InChain
  <1>10. ChainPinned'
    <2>1. ASSUME NEW a \in DOMAIN chain' PROVE [prog |-> chain'[a], id |-> None] \in pins'
      <3>1. InChain(chain'[a])
        BY <1>7 DEF InChain
      <3>2. [prog |-> chain'[a], id |-> None] \in pins
        BY <1>1, <3>1 DEF InChain, ChainPinned
      <3>3. CASE chain'[a] = l.prog
        <4>1. pins' = pins
          BY <1>6, <1>9, <3>3 DEF InChain, DetachLink, DetachLinkFails
        <4> QED BY <3>2, <4>1
      <3>4. CASE chain'[a] # l.prog
        <4>1. [prog |-> chain'[a], id |-> None] # Path(l)
          BY <3>4 DEF Path
        <4> QED BY <1>3, <3>2, <4>1
      <3> QED BY <3>3, <3>4
    <2> QED BY <2>1 DEF ChainPinned
  <1> QED BY <1>3, <1>4, <1>5, <1>7, <1>8, <1>9, <1>10


\* Between operations there is nothing in progress to say anything about.
LEMMA NothingInProgress ==
  ASSUME pc' = "idle" PROVE SimpleInv' /\ TCXInv' /\ RemovalInv'
  BY DEF SimpleInv, TCXInv, RemovalInv

\* Detaching one link leaves every other recorded link as it was.
LEMMA OthersKept ==
  ASSUME Inv, NEW l, DetachLink(l) \/ DetachLinkFails(l),
         NEW k \in links, Path(k) \in pins, k.prog \in TCX => InChain(k.prog), Path(k) # Path(l)
  PROVE  Path(k) \in pins' /\ (k.prog \in TCX => InChain(k.prog)')
  <1>1. Path(k) \in pins'
    BY DetachLemma
  <1>2. ASSUME k.prog \in TCX PROVE InChain(k.prog)'
    <2>1. k.prog # l.prog
      BY <1>2, PathLemma DEF Inv
    <2> QED BY <1>2, <2>1, DetachLemma
  <1> QED BY <1>1, <1>2

\* The rest of the invariant, given that pins and chain shrank by a detach and
\* the rows did not change: what remains to be shown of the promised links.
LEMMA DetachKeeps ==
  ASSUME Inv, NEW l, DetachLink(l) \/ DetachLinkFails(l),
         links' = links, leaked \subseteq leaked', promised' \subseteq promised,
         \A k \in links : k.id \in promised' => Path(k) # Path(l)
  PROVE  PinsNamed' /\ LinksAttached'
  <1>1. PinsNamed'
    <2>1. pins' \subseteq pins
      BY DetachLemma
    <2>2. \A k : Path(k)' = Path(k)
      BY DEF Path
    <2> QED BY <2>1, <2>2 DEF Inv, PinsNamed
  <1>2. ASSUME NEW id \in promised'
        PROVE  \E k \in links : k.id = id /\ Path(k) \in pins' /\ (k.prog \in TCX => InChain(k.prog)')
    <2>1. PICK k \in links : k.id = id /\ Path(k) \in pins /\ (k.prog \in TCX => InChain(k.prog))
      BY <1>2 DEF Inv, LinksAttached
    <2>2. Path(k) # Path(l)
      BY <2>1
    <2>3. Path(k) \in pins' /\ (k.prog \in TCX => InChain(k.prog)')
      BY <2>1, <2>2, OthersKept
    <2> QED BY <2>1, <2>3
  <1>3. \A k : Path(k)' = Path(k)
    BY DEF Path
  <1>4. LinksAttached'
    BY <1>2, <1>3 DEF LinksAttached
  <1> QED BY <1>1, <1>4

\* Rows share a path only when they are the same row.
LEMMA OwnPath ==
  ASSUME Inv, NEW k \in links, NEW l \in links, Path(k) = Path(l) PROVE k = l
  <1>1. TypeInv /\ RowInv
    BY DEF Inv
  <1>2. k.prog = l.prog /\ (k.prog \in Probes \/ k.prog \in TCX)
    BY <1>1, PathLemma DEF Programs
  <1>3. CASE k.prog \in Probes
    <2>1. k.id = l.id
      BY <1>1, <1>3, PathLemma, Zenon
    <2> QED BY <1>1, <2>1, Zenon DEF RowInv
  <1>4. CASE k.prog \in TCX
    BY <1>1, <1>2, <1>4 DEF RowInv, TCXLinks
  <1> QED BY <1>2, <1>3, <1>4

Rest == ChainPinned /\ SimpleInv /\ TCXInv /\ RemovalInv /\ PinsNamed /\ LinksAttached

\* A step that touches neither the rows nor the kernel.
LEMMA OnlyControl ==
  ASSUME Inv, UNCHANGED <<links, pins, chain, leaked>>, promised' \subseteq promised
  PROVE  ChainPinned' /\ PinsNamed' /\ LinksAttached'
  <1>1. \A k : Path(k)' = Path(k)
    BY DEF Path
  <1>2. \A q : InChain(q)' <=> InChain(q)
    BY DEF InChain
  <1>3. ChainPinned'
    BY DEF Inv, ChainPinned
  <1>4. PinsNamed'
    BY <1>1 DEF Inv, PinsNamed
  <1>5. LinksAttached'
    BY <1>1, <1>2 DEF Inv, LinksAttached
  <1> QED BY <1>3, <1>4, <1>5

LEMMA PendingNext == ASSUME Inv, NEW p \in Programs, CreatePendingLink(p) PROVE Rest'
  <1> USE DEF store, objects, history, oper
  <1>0. TypeInv /\ RowInv /\ SimpleInv
    BY DEF Inv
  <1>p. \A k : Path(k)' = Path(k)
    BY DEF Path
  <1>t. \A q \in Probes : q \notin TCX
    BY ProgramAssumption
  <1> DEFINE r == [id |-> nextID, prog |-> p, prio |-> None]
  <1>1. /\ links' = links \cup {r} /\ UNCHANGED <<pins, chain, promised, leaked>>
        /\ p \in Probes /\ pc' = "attach" /\ nextID \in LinkIDs
    BY DEF CreatePendingLink
  <1>2. job'.prog = p /\ job'.id = nextID
    <2>1. job' = [NoJob EXCEPT !.prog = p, !.id = nextID]
      BY DEF CreatePendingLink
    <2> QED BY <2>1 DEF NoJob
  <1>n. nextID \in Nat
    BY <1>1, BoundAssumption DEF LinkIDs
  <1>3. ChainPinned'
    BY <1>1 DEF Inv, ChainPinned
  <1>4. PinsNamed'
    BY <1>p, <1>1 DEF Inv, PinsNamed
  <1>5. \A q : InChain(q)' <=> InChain(q)
    BY <1>1 DEF InChain
  <1>6. LinksAttached'
    BY <1>p, <1>1, <1>5 DEF Inv, LinksAttached
  <1>7. nextID \notin promised
    <2>1. ASSUME nextID \in promised PROVE FALSE
      <3>1. PICK l \in links : l.id = nextID
        BY <2>1 DEF Inv, LinksAttached
      <3> QED BY <1>0, <1>n, <3>1 DEF RowInv
    <2> QED BY <2>1
  <1>8. Path(job') \notin pins
    <2>1. Path(job').prog \in Probes /\ Path(job').id = nextID
      BY <1>t, <1>1, <1>2 DEF Path
    <2> QED BY <1>0, <1>n, <2>1 DEF RowInv
  <1>9. SimpleInv'
    <2>1. Path(job)' = Path(job')
      BY DEF Path
    <2>2. Path(job)' \notin pins'
      BY <1>1, <1>8, <2>1
    <2>3. [id |-> job'.id, prog |-> job'.prog, prio |-> None] \in links' /\ job'.id \notin promised'
      BY <1>1, <1>2, <1>7
    <2> QED BY <1>1, <2>2, <2>3 DEF SimpleInv
  <1>10. TCXInv' /\ RemovalInv'
    BY <1>1 DEF TCXInv, RemovalInv
  <1> QED BY <1>3, <1>4, <1>6, <1>9, <1>10 DEF Rest

LEMMA SimpleNext ==
  ASSUME Inv, AttachPinned \/ AttachPinnedFails \/ FinaliseLink \/ FinaliseLinkFails
  PROVE  Rest'
  <1> USE DEF store, objects, history, oper
  <1>0. TypeInv /\ RowInv /\ SimpleInv
    BY DEF Inv
  <1>p. \A k : Path(k)' = Path(k)
    BY DEF Path
  <1>t. \A q \in Probes : q \notin TCX
    BY ProgramAssumption
  <1>1. CASE AttachPinned
    <2> DEFINE r == [id |-> job.id, prog |-> job.prog, prio |-> None]
    <2>1. /\ pins' = pins \cup {Path(job)} /\ UNCHANGED <<links, chain, promised, leaked, job>>
          /\ pc = "attach" /\ pc' = "finalise" /\ job.prog \in Probes
      BY <1>0, <1>1 DEF AttachPinned, TypeInv, JobType
    <2>2. r \in links /\ job.id \notin promised
      BY <1>0, <2>1 DEF SimpleInv
    <2>3. Path(r) = Path(job)
      BY DEF Path
    <2> HIDE DEF r
    <2>4. PinsNamed'
      BY <1>p, <2>1, <2>2, <2>3 DEF Inv, PinsNamed
    <2>5. \A q : InChain(q)' <=> InChain(q)
      BY <2>1 DEF InChain
    <2>6. LinksAttached'
      BY <1>p, <2>1, <2>5 DEF Inv, LinksAttached
    <2>7. ChainPinned'
      BY <2>1 DEF Inv, ChainPinned
    <2>8. SimpleInv' /\ TCXInv' /\ RemovalInv'
      BY <2>1, <2>2 DEF SimpleInv, TCXInv, RemovalInv, r
    <2> QED BY <2>4, <2>6, <2>7, <2>8 DEF Rest
  <1>2. CASE AttachPinnedFails
    <2>1. /\ UNCHANGED <<links, pins, chain, promised, leaked, job>>
          /\ pc = "attach" /\ pc' = "undorow"
      BY <1>2 DEF AttachPinnedFails
    <2>2. ChainPinned' /\ PinsNamed' /\ LinksAttached'
      BY <2>1, OnlyControl
    <2>3. SimpleInv'
      <3>1. Path(job)' = Path(job)
        BY <2>1 DEF Path
      <3>2. Path(job)' \notin pins'
        BY <1>0, <2>1, <3>1 DEF SimpleInv
      <3> QED BY <1>0, <2>1, <3>2 DEF SimpleInv
    <2>4. TCXInv' /\ RemovalInv'
      BY <2>1 DEF TCXInv, RemovalInv
    <2> QED BY <2>2, <2>3, <2>4 DEF Rest
  <1>3. CASE FinaliseLink
    <2> DEFINE r == [id |-> job.id, prog |-> job.prog, prio |-> None]
    <2>1. /\ promised' = promised \cup {id \in {job.id} : Path(job) \in pins}
          /\ UNCHANGED <<links, pins, chain, leaked>>
          /\ pc = "finalise" /\ pc' = "idle" /\ job.prog \in Probes
      BY <1>0, <1>3 DEF FinaliseLink, Return, TypeInv, JobType
    <2>2. r \in links
      BY <1>0, <2>1 DEF SimpleInv
    <2>3. Path(r) = Path(job) /\ r.id = job.id /\ r.prog \notin TCX
      BY <1>t, <2>1 DEF Path
    <2> HIDE DEF r
    <2>4. PinsNamed' /\ ChainPinned'
      BY <1>p, <2>1 DEF Inv, PinsNamed, ChainPinned
    <2>5. \A q : InChain(q)' <=> InChain(q)
      BY <2>1 DEF InChain
    <2>6. ASSUME NEW id \in promised'
          PROVE  \E k \in links : k.id = id /\ Path(k) \in pins /\ (k.prog \in TCX => InChain(k.prog))
      <3>1. CASE id \in promised
        BY <3>1 DEF Inv, LinksAttached
      <3>2. CASE id \notin promised
        <4>1. id = job.id /\ Path(job) \in pins
          BY <2>1, <2>6, <3>2
        <4> QED BY <2>2, <2>3, <4>1
      <3> QED BY <3>1, <3>2
    <2>7. LinksAttached'
      BY <1>p, <2>1, <2>5, <2>6 DEF LinksAttached
    <2> QED BY <2>1, <2>4, <2>7, NothingInProgress DEF Rest
  <1>4. CASE FinaliseLinkFails
    <2>1. /\ UNCHANGED <<links, pins, chain, promised, leaked, job>>
          /\ pc = "finalise" /\ pc' = "undoattach" /\ job.prog \in Probes
      BY <1>0, <1>4 DEF FinaliseLinkFails, TypeInv, JobType
    <2>2. ChainPinned' /\ PinsNamed' /\ LinksAttached'
      BY <2>1, OnlyControl
    <2>3. SimpleInv' /\ RemovalInv'
      BY <1>0, <2>1 DEF SimpleInv, RemovalInv
    <2>4. TCXInv'
      BY <1>t, <2>1 DEF TCXInv, TCXLinks
    <2> QED BY <2>2, <2>3, <2>4 DEF Rest
  <1> QED BY <1>1, <1>2, <1>3, <1>4


LEMMA UndoNext == ASSUME Inv, UndoAttach \/ UndoRow \/ Fail \/ Crash PROVE Rest'
  <1> USE DEF store, objects, history, oper
  <1>0. TypeInv /\ RowInv /\ SimpleInv
    BY DEF Inv
  <1>p. \A k : Path(k)' = Path(k)
    BY DEF Path
  <1>t. \A q \in Probes : q \notin TCX
    BY ProgramAssumption
  <1>1. CASE UndoAttach
    <2>1. /\ UNCHANGED <<links, promised, job>> /\ pc = "undoattach" /\ leaked \subseteq leaked'
          /\ DetachLink(job) \/ DetachLinkFails(job)
      BY <1>1 DEF UndoAttach
    <2>2. \/ job.prog \in Probes /\ job.id \in LinkIDs
          \/ job.prog \in TCX
      BY <1>0, <2>1 DEF TypeInv, JobType
    <2>3. ASSUME NEW k \in links, k.id \in promised' PROVE Path(k) # Path(job)
      <3>1. SUFFICES ASSUME Path(k) = Path(job) PROVE FALSE
        OBVIOUS
      <3>2. k.prog = job.prog
        BY <1>0, <3>1, PathLemma
      <3>3. CASE job.prog \in Probes
        <4>1. k.id = job.id
          BY <1>0, <3>1, <3>2, <3>3, PathLemma, Zenon
        <4>2. job.id \notin promised
          BY <1>0, <2>1, <3>3 DEF SimpleInv
        <4> QED BY <2>1, <2>3, <4>1, <4>2
      <3>4. CASE job.prog \in TCX
        <4>1. \A l \in TCXLinks : l.prog # job.prog
          BY <2>1 DEF Inv, TCXInv
        <4> QED BY <3>2, <3>4, <4>1 DEF TCXLinks
      <3> QED BY <2>2, <3>3, <3>4
    <2>4. PinsNamed' /\ LinksAttached'
      BY <2>1, <2>3, DetachKeeps
    <2>5. ChainPinned'
      BY <2>1, DetachLemma
    <2>6. CASE job.prog \in TCX
      <3>1. pc' = "return"
        BY <1>1, <2>6 DEF UndoAttach
      <3>2. SimpleInv' /\ TCXInv' /\ RemovalInv'
        BY <3>1 DEF SimpleInv, TCXInv, RemovalInv
      <3> QED BY <2>4, <2>5, <3>2 DEF Rest
    <2>7. CASE job.prog \in Probes /\ job.id \in LinkIDs
      <3>1. pc' = "undorow"
        BY <1>1, <1>t, <2>7 DEF UndoAttach
      <3>2. TCXInv' /\ RemovalInv'
        BY <3>1 DEF TCXInv, RemovalInv
      <3>3. Path(job) \in pins' => job.id \in leaked'
        <4>1. CASE DetachLink(job)
          BY <4>1, DetachLemma
        <4>2. CASE leaked' = leaked \cup ({job.id} \ {None})
          <5>1. job.id # None
            BY <2>7 DEF LinkIDs, None
          <5> QED BY <4>2, <5>1
        <4> QED BY <1>1, <4>1, <4>2 DEF UndoAttach
      <3>4. [id |-> job.id, prog |-> job.prog, prio |-> None] \in links /\ job.id \notin promised
        BY <1>0, <2>1, <2>7 DEF SimpleInv
      <3>5. Path(job)' = Path(job)
        BY <2>1 DEF Path
      <3>6. SimpleInv'
        BY <2>1, <3>1, <3>3, <3>4, <3>5 DEF SimpleInv
      <3> QED BY <2>4, <2>5, <3>2, <3>6 DEF Rest
    <2> QED BY <2>2, <2>6, <2>7
  <1>2. CASE UndoRow
    <2> DEFINE r == [id |-> job.id, prog |-> job.prog, prio |-> None]
    <2>1. /\ links' = {l \in links : l.id # job.id} \/ links' = links
          /\ UNCHANGED <<pins, chain, promised, leaked>> /\ pc = "undorow" /\ pc' = "idle"
          /\ job.prog \in Probes
      BY <1>0, <1>2 DEF UndoRow, Return, TypeInv, JobType
    <2>2. r \in links /\ job.id \notin promised /\ (Path(job) \in pins => job.id \in leaked)
      BY <1>0, <2>1 DEF SimpleInv
    <2>3. Path(r) = Path(job) /\ r.id = job.id /\ r.prog = job.prog
      BY DEF Path
    <2> HIDE DEF r
    <2>4. ASSUME NEW f \in pins, f.prog \in Probes, f.id \notin leaked
          PROVE  \E l \in links' : Path(l) = f
      <3>1. PICK l \in links : Path(l) = f
        BY <2>4 DEF Inv, PinsNamed
      <3>2. l.id # job.id
        <4>1. SUFFICES ASSUME l.id = job.id PROVE FALSE
          OBVIOUS
        <4>2. l = r
          BY <1>0, <2>2, <2>3, <4>1 DEF RowInv
        <4>3. Path(job) = f
          BY <2>3, <3>1, <4>2
        <4>4. f.id = job.id
          BY <2>1, <4>3, <1>t DEF Path
        <4> QED BY <2>2, <2>4, <4>3, <4>4
      <3> QED BY <2>1, <3>1, <3>2
    <2>5. PinsNamed'
      BY <1>p, <2>1, <2>4 DEF PinsNamed
    <2>6. \A q : InChain(q)' <=> InChain(q)
      BY <2>1 DEF InChain
    <2>7. LinksAttached'
      BY <1>p, <2>1, <2>2, <2>6 DEF Inv, LinksAttached
    <2>8. ChainPinned'
      BY <2>1 DEF Inv, ChainPinned
    <2> QED BY <2>1, <2>5, <2>7, <2>8, NothingInProgress DEF Rest
  <1>3. CASE Fail \/ Crash
    <2>1. UNCHANGED <<links, pins, chain, promised, leaked>> /\ pc' = "idle"
      BY <1>3 DEF Fail, Crash, Return
    <2> QED BY <2>1, OnlyControl, NothingInProgress DEF Rest
  <1> QED BY <1>1, <1>2, <1>3

LEMMA AttachTCXNext ==
  ASSUME Inv, NEW p \in Programs, NEW prio \in Priorities, AttachTCX(p, prio)
  PROVE  Rest'
  <1> USE DEF store, objects, history, oper
  <1> DEFINE d == [id |-> None, prog |-> p]
  <1>0. TypeInv /\ ChainPinned
    BY DEF Inv
  <1>1. /\ UNCHANGED <<links, promised, leaked>> /\ p \in TCX /\ Idle
        /\ \A l \in TCXLinks : l.prog # p
        /\ \/ DetachLink(d) /\ job' = [NoJob EXCEPT !.prog = p, !.prio = prio] /\ pc' = "tcx"
           \/ DetachLinkFails(d) /\ UNCHANGED oper
    BY DEF AttachTCX
  <1>2. d.prog = p /\ Path(d) = [prog |-> p, id |-> None]
    BY <1>1 DEF Path
  <1> HIDE DEF d
  <1>3. \A k \in links : Path(k) # Path(d)
    BY <1>0, <1>1, <1>2, PathLemma DEF TCXLinks
  <1>4. PinsNamed' /\ LinksAttached' /\ ChainPinned'
    BY <1>1, <1>3, DetachKeeps, DetachLemma
  <1>5. CASE UNCHANGED oper
    BY <1>1, <1>4, <1>5, NothingInProgress DEF Rest, Idle
  <1>6. CASE DetachLink(d) /\ job' = [NoJob EXCEPT !.prog = p, !.prio = prio] /\ pc' = "tcx"
    <2>1. job'.prog = p /\ pc' = "tcx"
      BY <1>6 DEF NoJob
    <2>2. ~InChain(p)'
      <3>1. CASE Path(d) \in pins
        BY <1>2, <1>6, <3>1, DetachLemma
      <3>2. CASE Path(d) \notin pins
        <4>1. ~InChain(p)
          BY <1>0, <1>2, <3>2 DEF ChainPinned, InChain
        <4> QED BY <1>6, <4>1, DetachLemma
      <3> QED BY <3>1, <3>2
    <2>3. ~InChain(job.prog)'
      BY <2>1, <2>2 DEF InChain
    <2>4. TCXInv'
      BY <1>1, <2>1, <2>3 DEF TCXInv, TCXLinks
    <2>5. SimpleInv' /\ RemovalInv'
      BY <2>1 DEF SimpleInv, RemovalInv
    <2> QED BY <1>4, <2>4, <2>5 DEF Rest
  <1> QED BY <1>1, <1>5, <1>6


LEMMA KernelNext ==
  ASSUME Inv, AttachTCXKernel \/ AttachTCXKernelFails \/ SaveLink \/ SaveLinkFails
  PROVE  Rest'
  <1> USE DEF store, objects, history, oper
  <1>0. TypeInv /\ RowInv /\ NoDuplicates /\ ChainPinned /\ TCXOrder /\ TCXInv /\ chain \in Seq(TCX)
    BY DEF Inv, TypeInv, TypeOK
  <1>p. \A k : Path(k)' = Path(k)
    BY DEF Path
  <1>t. \A q \in Probes : q \notin TCX
    BY ProgramAssumption
  <1>1. CASE AttachTCXKernel
    <2>1. PICK n \in AttachOrder : chain' = Inserted(n)
      BY <1>1 DEF AttachTCXKernel
    <2>2. /\ UNCHANGED <<links, promised, leaked, job>> /\ pins' = pins \cup {Path(job)}
          /\ pc = "tcx" /\ pc' = "save"
      BY <1>1 DEF AttachTCXKernel
    <2>3. n \in 0..Len(chain) /\ job.prog \in TCX
      BY <1>0, <2>2, AttachOrderType DEF TypeInv, JobType
    <2>4. ~InChain(job.prog) /\ \A l \in TCXLinks : l.prog # job.prog
      BY <1>0, <2>2 DEF TCXInv
    <2>5. Path(job) = [prog |-> job.prog, id |-> None] /\ TCXLinks' = TCXLinks
      BY <2>2, <2>3 DEF Path, TCXLinks
    <2>6. /\ \A i \in DOMAIN chain' : chain'[i] = job.prog \/ InChain(chain'[i])
          /\ \A q : q = job.prog \/ InChain(q) => \E i \in DOMAIN chain' : chain'[i] = q
      BY <1>0, <2>1, <2>3, InsertedKeeps
    <2>7. ChainPinned'
      BY <1>0, <2>2, <2>5, <2>6 DEF ChainPinned, InChain
    <2>8. PinsNamed'
      BY <1>p, <1>t, <2>2, <2>3, <2>5 DEF Inv, PinsNamed
    <2>9. \A q : InChain(q) \/ q = job.prog => InChain(q)'
      BY <2>6 DEF InChain
    <2>10. LinksAttached'
      BY <1>p, <2>2, <2>9 DEF Inv, LinksAttached
    <2>11. ASSUME NEW l \in TCXLinks, NEW i \in DOMAIN chain', NEW j \in DOMAIN chain',
                  chain'[i] = l.prog, chain'[j] = job.prog
           PROVE  IF l.prio > job.prio THEN j < i ELSE i < j
      BY <1>0, <2>1, <2>2, <2>4, <2>11, Placed
    <2>12. InChain(job.prog)'
      BY <2>2, <2>6 DEF InChain
    <2>13. TCXInv'
      BY <2>2, <2>4, <2>5, <2>11, <2>12 DEF TCXInv
    <2>14. SimpleInv' /\ RemovalInv'
      BY <2>2 DEF SimpleInv, RemovalInv
    <2> QED BY <2>7, <2>8, <2>10, <2>13, <2>14 DEF Rest
  <1>2. CASE AttachTCXKernelFails
    <2>1. UNCHANGED <<links, pins, chain, promised, leaked>> /\ pc' = "idle"
      BY <1>2 DEF AttachTCXKernelFails, Return
    <2> QED BY <2>1, OnlyControl, NothingInProgress DEF Rest
  <1>3. CASE SaveLink
    <2> DEFINE r == [id |-> nextID, prog |-> job.prog, prio |-> job.prio]
    <2>1. /\ links' = links \cup {r} /\ promised' = promised \cup {id \in {nextID} : Path(job) \in pins}
          /\ UNCHANGED <<pins, chain, leaked>> /\ pc = "save" /\ pc' = "idle"
      BY <1>3 DEF SaveLink, Return
    <2>2. job.prog \in TCX /\ (Path(job) \in pins => InChain(job.prog))
      BY <1>0, <2>1 DEF TypeInv, JobType, TCXInv
    <2>3. r.id = nextID /\ r.prog = job.prog
      OBVIOUS
    <2> HIDE DEF r
    <2>4. Path(r) = Path(job)
      BY <1>0, <2>2, <2>3, PathLemma
    <2>5. \A q : InChain(q)' <=> InChain(q)
      BY <2>1 DEF InChain
    <2>6. ASSUME NEW id \in promised'
          PROVE  \E k \in links' : k.id = id /\ Path(k) \in pins /\ (k.prog \in TCX => InChain(k.prog))
      <3>1. CASE id \in promised
        BY <2>1, <3>1 DEF Inv, LinksAttached
      <3>2. CASE id \notin promised
        <4>1. id = nextID /\ Path(job) \in pins
          BY <2>1, <2>6, <3>2
        <4> QED BY <2>1, <2>2, <2>3, <2>4, <4>1
      <3> QED BY <3>1, <3>2
    <2>7. LinksAttached'
      BY <1>p, <2>1, <2>5, <2>6 DEF LinksAttached
    <2>8. PinsNamed' /\ ChainPinned'
      BY <1>p, <2>1 DEF Inv, PinsNamed, ChainPinned
    <2> QED BY <2>1, <2>7, <2>8, NothingInProgress DEF Rest
  <1>4. CASE SaveLinkFails
    <2>1. /\ UNCHANGED <<links, pins, chain, promised, leaked, job>>
          /\ pc = "save" /\ pc' = "undoattach" /\ job.prog \in TCX
      BY <1>0, <1>4 DEF SaveLinkFails, TypeInv, JobType
    <2>2. ChainPinned' /\ PinsNamed' /\ LinksAttached'
      BY <2>1, OnlyControl
    <2>3. SimpleInv' /\ RemovalInv'
      BY <1>t, <2>1 DEF SimpleInv, RemovalInv
    <2>4. TCXInv'
      BY <1>0, <2>1 DEF TCXInv, TCXLinks
    <2> QED BY <2>2, <2>3, <2>4 DEF Rest
  <1> QED BY <1>1, <1>2, <1>3, <1>4

LEMMA DetachNextStep == ASSUME Inv, NEW l \in links, Detach(l) PROVE Rest'
  <1> USE DEF store, objects, history, oper
  <1>0. TypeInv /\ RowInv
    BY DEF Inv
  <1>1. /\ UNCHANGED <<links, leaked>> /\ promised' = promised \ {l.id} /\ Idle
        /\ \/ DetachLink(l) /\ job' = [NoJob EXCEPT !.id = l.id] /\ pc' = "delete"
           \/ DetachLinkFails(l) /\ UNCHANGED oper
    BY DEF Detach
  <1>2. \A k \in links : k.id \in promised' => Path(k) # Path(l)
    BY <1>1, OwnPath
  <1>3. PinsNamed' /\ LinksAttached' /\ ChainPinned'
    BY <1>1, <1>2, DetachKeeps, DetachLemma
  <1>4. CASE UNCHANGED oper
    BY <1>1, <1>3, <1>4, NothingInProgress DEF Rest, Idle
  <1>5. CASE DetachLink(l) /\ job' = [NoJob EXCEPT !.id = l.id] /\ pc' = "delete"
    <2>1. job'.id = l.id /\ pc' = "delete" /\ Path(l) \notin pins'
      BY <1>5, DetachLemma DEF NoJob
    <2>2. \A k \in links : k.id = l.id => k = l
      BY <1>0 DEF RowInv
    <2>3. \A k : Path(k)' = Path(k)
      BY DEF Path
    <2>4. RemovalInv'
      BY <1>1, <2>1, <2>2, <2>3 DEF RemovalInv
    <2>5. SimpleInv' /\ TCXInv'
      BY <2>1 DEF SimpleInv, TCXInv
    <2> QED BY <1>3, <2>4, <2>5 DEF Rest
  <1> QED BY <1>1, <1>4, <1>5

\* Rows may go when nobody counts on their links and their pins are gone.
LEMMA RowsGo ==
  ASSUME Inv, UNCHANGED <<pins, chain, promised, leaked>>, pc' = "idle", links' \subseteq links,
         \A l \in links \ links' : l.id \notin promised /\ Path(l) \notin pins
  PROVE  Rest'
  <1>1. \A k : Path(k)' = Path(k)
    BY DEF Path
  <1>2. \A q : InChain(q)' <=> InChain(q)
    BY DEF InChain
  <1>3. PinsNamed'
    BY <1>1 DEF Inv, PinsNamed
  <1>4. LinksAttached'
    BY <1>1, <1>2 DEF Inv, LinksAttached
  <1>5. ChainPinned'
    BY DEF Inv, ChainPinned
  <1> QED BY <1>3, <1>4, <1>5, NothingInProgress DEF Rest

LEMMA DeleteNext == ASSUME Inv, DeleteLink \/ DeleteProgramRecord PROVE Rest'
  <1> USE DEF store, objects, history, oper
  <1>1. CASE DeleteLink
    <2>1. /\ links' = {l \in links : l.id # job.id} \/ links' = links
          /\ UNCHANGED <<pins, chain, promised, leaked>> /\ pc = "delete" /\ pc' = "idle"
      BY <1>1 DEF DeleteLink, Return
    <2>2. \A l \in links \ links' : l.id \notin promised /\ Path(l) \notin pins
      BY <2>1 DEF Inv, RemovalInv
    <2>3. links' \subseteq links
      BY <2>1
    <2> QED BY <2>1, <2>2, <2>3, RowsGo
  <1>2. CASE DeleteProgramRecord
    <2>1. /\ links' = links \ LinksOf(job.prog) \/ links' = links
          /\ UNCHANGED <<pins, chain, promised, leaked>> /\ pc = "deleterow" /\ pc' = "idle"
      BY <1>2 DEF DeleteProgramRecord, Return
    <2>2. \A l \in links \ links' : l.id \notin promised /\ Path(l) \notin pins
      BY <2>1 DEF Inv, RemovalInv
    <2>3. links' \subseteq links
      BY <2>1
    <2> QED BY <2>1, <2>2, <2>3, RowsGo
  <1> QED BY <1>1, <1>2

LEMMA UnloadNext == ASSUME Inv, NEW p \in Programs, Unload(p) PROVE Rest'
  <1> USE DEF store, objects, history, oper
  <1>1. /\ UNCHANGED <<links, pins, chain, leaked>> /\ promised' = promised \ {l.id : l \in LinksOf(p)}
        /\ pc' = "detachall"
    BY DEF Unload
  <1>2. job'.prog = p /\ job'.todo = {l.id : l \in LinksOf(p)}
    <2>1. job' = [NoJob EXCEPT !.prog = p, !.todo = {l.id : l \in LinksOf(p)}]
      BY DEF Unload
    <2> QED BY <2>1 DEF NoJob
  <1>3. ChainPinned' /\ PinsNamed' /\ LinksAttached'
    BY <1>1, OnlyControl
  <1>4. \A l \in LinksOf(p) : l.id \notin promised' /\ l.id \in job'.todo
    BY <1>1, <1>2
  <1>5. LinksOf(job.prog)' = LinksOf(p)
    BY <1>1, <1>2 DEF LinksOf
  <1>6. RemovalInv'
    BY <1>1, <1>4, <1>5 DEF RemovalInv
  <1>7. SimpleInv' /\ TCXInv'
    BY <1>1 DEF SimpleInv, TCXInv
  <1> QED BY <1>3, <1>6, <1>7 DEF Rest

LEMMA DetachAllNext == ASSUME Inv, DetachNext \/ UnloadKernelProgram PROVE Rest'
  <1> USE DEF store, objects, history, oper
  <1>0. TypeInv /\ RowInv /\ RemovalInv
    BY DEF Inv
  <1>p. \A k : Path(k)' = Path(k)
    BY DEF Path
  <1>1. CASE DetachNext
    <2>1. PICK l \in LinksOf(job.prog) :
             \/ DetachLink(l) /\ job' = [job EXCEPT !.todo = @ \ {l.id}] /\ UNCHANGED pc
             \/ DetachLinkFails(l) /\ Return
      BY <1>1 DEF DetachNext
    <2>2. UNCHANGED <<links, promised, leaked>> /\ pc = "detachall" /\ l \in links
      BY <1>1 DEF DetachNext, LinksOf
    <2>3. \A k \in LinksOf(job.prog) :
             k.id \notin promised /\ (k.id \notin job.todo => Path(k) \notin pins)
      BY <1>0, <2>2 DEF RemovalInv
    <2>4. \A k \in links : k.id \in promised' => Path(k) # Path(l)
      BY <2>2, <2>3, OwnPath
    <2>5. PinsNamed' /\ LinksAttached' /\ ChainPinned'
      BY <2>1, <2>2, <2>4, DetachKeeps, DetachLemma
    <2>6. CASE DetachLinkFails(l) /\ Return
      BY <2>5, <2>6, NothingInProgress DEF Rest, Return
    <2>7. CASE DetachLink(l) /\ job' = [job EXCEPT !.todo = @ \ {l.id}] /\ UNCHANGED pc
      <3>1. job'.prog = job.prog /\ job'.todo = job.todo \ {l.id} /\ pc' = "detachall"
        BY <1>0, <2>2, <2>7 DEF TypeInv, TypeOK
      <3>2. pins' \subseteq pins /\ Path(l) \notin pins'
        BY <2>7, DetachLemma
      <3>3. LinksOf(job.prog)' = LinksOf(job.prog)
        BY <2>2, <3>1 DEF LinksOf
      <3>4. \A k \in links : k.id = l.id => k = l
        BY <1>0, <2>2 DEF RowInv
      <3>5. ASSUME NEW k \in LinksOf(job.prog), k.id \notin job'.todo PROVE Path(k) \notin pins'
        <4>1. CASE k.id = l.id
          BY <3>2, <3>4, <4>1 DEF LinksOf
        <4>2. CASE k.id # l.id
          <5>1. k.id \notin job.todo
            BY <3>1, <3>5, <4>2
          <5> QED BY <2>3, <3>2, <5>1
        <4> QED BY <4>1, <4>2
      <3>6. RemovalInv'
        BY <1>p, <2>2, <2>3, <3>1, <3>3, <3>5 DEF RemovalInv
      <3>7. SimpleInv' /\ TCXInv'
        BY <3>1 DEF SimpleInv, TCXInv
      <3> QED BY <2>5, <3>6, <3>7 DEF Rest
    <2> QED BY <2>1, <2>6, <2>7
  <1>2. CASE UnloadKernelProgram
    <2>1. /\ UNCHANGED <<links, pins, chain, promised, leaked>> /\ pc = "detachall" /\ job.todo = {}
          /\ (pc' = "deleterow" /\ UNCHANGED job) \/ pc' = "idle"
      BY <1>2 DEF UnloadKernelProgram, Return
    <2>2. ChainPinned' /\ PinsNamed' /\ LinksAttached'
      BY <2>1, OnlyControl
    <2>3. CASE pc' = "idle"
      BY <2>2, <2>3, NothingInProgress DEF Rest
    <2>4. CASE pc' = "deleterow" /\ UNCHANGED job
      <3>1. LinksOf(job.prog)' = LinksOf(job.prog)
        BY <2>1, <2>4 DEF LinksOf
      <3>2. \A k \in LinksOf(job.prog) : k.id \notin promised /\ Path(k) \notin pins
        BY <1>0, <2>1 DEF RemovalInv
      <3>3. RemovalInv'
        BY <1>p, <2>1, <2>4, <3>1, <3>2 DEF RemovalInv
      <3>4. SimpleInv' /\ TCXInv'
        BY <2>4 DEF SimpleInv, TCXInv
      <3> QED BY <2>2, <3>3, <3>4 DEF Rest
    <2> QED BY <2>1, <2>3, <2>4
  <1> QED BY <1>1, <1>2


LEMMA DiesNext == ASSUME Inv, NEW p \in Programs, ProgramDies(p) PROVE Rest'
  <1> USE DEF store, objects, history, oper
  <1>0. /\ TypeInv /\ RowInv /\ NoDuplicates /\ ChainPinned /\ SimpleInv /\ TCXInv /\ RemovalInv
        /\ chain \in Seq(TCX)
    BY DEF Inv, TypeInv, TypeOK
  <1>1. /\ UNCHANGED <<links, leaked, pc, job>> /\ pins' = {f \in pins : f.prog # p}
        /\ chain' = ChainWithout(p) /\ promised' = promised \ {l.id : l \in LinksOf(p)}
    BY DEF ProgramDies
  <1>p. (\A k : Path(k)' = Path(k)) /\ Path(job)' = Path(job)
    BY <1>1 DEF Path
  <1>2. /\ Thinned(chain')
        /\ \A a \in DOMAIN chain' : chain'[a] # p /\ InChain(chain'[a])
        /\ \A q : q # p /\ InChain(q) => \E a \in DOMAIN chain' : chain'[a] = q
    BY <1>0, <1>1, WithoutLemma DEF Thinned
  <1>3. (\A q : q # p /\ InChain(q) => InChain(q)') /\ (\A q : InChain(q)' => InChain(q))
    BY <1>2 DEF InChain
  <1>4. \A l : Path(l).prog = l.prog
    BY DEF Path
  <1>5. ChainPinned'
    <2>1. ASSUME NEW a \in DOMAIN chain' PROVE [prog |-> chain'[a], id |-> None] \in pins'
      <3>1. [prog |-> chain'[a], id |-> None] \in pins
        BY <1>0, <1>2 DEF ChainPinned, InChain
      <3>2. [prog |-> chain'[a], id |-> None].prog # p
        BY <1>2
      <3> QED BY <1>1, <3>1, <3>2
    <2> QED BY <2>1 DEF ChainPinned
  <1>6. PinsNamed'
    BY <1>1, <1>p DEF Inv, PinsNamed
  <1>7. LinksAttached'
    <2>1. ASSUME NEW id \in promised'
          PROVE  \E k \in links : k.id = id /\ Path(k) \in pins' /\ (k.prog \in TCX => InChain(k.prog)')
      <3>1. PICK k \in links : k.id = id /\ Path(k) \in pins /\ (k.prog \in TCX => InChain(k.prog))
        BY <1>1 DEF Inv, LinksAttached
      <3>2. k.prog # p
        BY <1>1, <2>1, <3>1 DEF LinksOf
      <3>3. Path(k) \in pins' /\ (k.prog \in TCX => InChain(k.prog)')
        BY <1>1, <1>3, <1>4, <3>1, <3>2
      <3> QED BY <3>1, <3>3
    <2> QED BY <1>1, <1>p, <2>1 DEF LinksAttached
  <1>8. SimpleInv'
    <2>1. pins' \subseteq pins /\ promised' \subseteq promised
      BY <1>1
    <2> QED BY <1>0, <1>1, <1>p, <2>1 DEF SimpleInv
  <1>9. TCXInv'
    <2>1. TCXLinks' = TCXLinks
      BY <1>1 DEF TCXLinks
    <2>2. InChain(job.prog)' => InChain(job.prog)
      BY <1>1, <1>3 DEF InChain
    <2>3. ASSUME pc = "save", Path(job) \in pins' PROVE InChain(job.prog)'
      <3>1. job.prog # p /\ InChain(job.prog)
        BY <1>0, <1>1, <1>4, <2>3 DEF TCXInv
      <3> QED BY <1>1, <1>3, <3>1 DEF InChain
    <2>4. ASSUME pc = "save", NEW l \in TCXLinks, NEW i \in DOMAIN chain', NEW j \in DOMAIN chain',
                 chain'[i] = l.prog, chain'[j] = job.prog
          PROVE  IF l.prio > job.prio THEN j < i ELSE i < j
      <3>1. l.prog # job.prog
        BY <1>0, <2>4 DEF TCXInv
      <3>2. i # j /\ i \in Nat /\ j \in Nat
        <4>1. chain' \in Seq(TCX)
          BY <1>2 DEF Thinned
        <4> QED BY <2>4, <3>1, <4>1
      <3>3. \A c, d \in DOMAIN chain : chain[c] = l.prog /\ chain[d] = job.prog =>
               IF l.prio > job.prio THEN d < c ELSE c < d
        BY <1>0, <2>4 DEF TCXInv
      <3>4. CASE i < j
        <4>1. PICK c, d \in DOMAIN chain : c < d /\ chain[c] = l.prog /\ chain[d] = job.prog
          BY <1>2, <2>4, <3>4 DEF Thinned
        <4>2. ~(d < c)
          BY <1>0, <4>1
        <4> QED BY <3>3, <3>4, <4>1, <4>2
      <3>5. CASE j < i
        <4>1. PICK c, d \in DOMAIN chain : c < d /\ chain[c] = job.prog /\ chain[d] = l.prog
          BY <1>2, <2>4, <3>5 DEF Thinned
        <4>2. ~(d < c)
          BY <1>0, <4>1
        <4> QED BY <3>3, <3>5, <4>1, <4>2
      <3> QED BY <3>2, <3>4, <3>5
    <2> QED BY <1>0, <1>1, <1>p, <2>1, <2>2, <2>3, <2>4 DEF TCXInv
  <1>10. RemovalInv'
    <2>1. pins' \subseteq pins /\ promised' \subseteq promised /\ LinksOf(job.prog)' = LinksOf(job.prog)
      BY <1>1 DEF LinksOf
    <2> QED BY <1>0, <1>1, <1>p, <2>1 DEF RemovalInv
  <1> QED BY <1>5, <1>6, <1>7, <1>8, <1>9, <1>10 DEF Rest

LEMMA InvInit == Init => Inv
  <1> SUFFICES ASSUME Init PROVE Inv
    OBVIOUS
  <1>1. TypeInv
    BY TypeInit
  <1>2. links = {} /\ pins = {} /\ chain = <<>> /\ promised = {} /\ pc = "idle"
    BY DEF Init
  <1>3. RowInv /\ NoDuplicates /\ ChainPinned /\ TCXOrder
    BY <1>2 DEF RowInv, TCXLinks, NoDuplicates, ChainPinned, TCXOrder
  <1>4. SimpleInv /\ TCXInv /\ RemovalInv /\ PinsNamed /\ LinksAttached
    BY <1>2 DEF SimpleInv, TCXInv, RemovalInv, PinsNamed, LinksAttached
  <1> QED BY <1>1, <1>3, <1>4 DEF Inv

LEMMA InvNext == Inv /\ [Next]_vars => Inv'
  <1> SUFFICES ASSUME Inv, [Next]_vars PROVE Inv'
    OBVIOUS
  <1>1. TypeInv' /\ RowInv' /\ NoDuplicates' /\ TCXOrder'
    BY TypeNext, RowNext, ChainNext DEF Inv
  <1>2. CASE UNCHANGED vars
    BY <1>2 DEF Inv, vars, store, objects, history, oper, TypeInv, TypeOK, JobType, RowInv, TCXLinks,
                NoDuplicates, ChainPinned, TCXOrder, Precedes, SimpleInv, TCXInv, RemovalInv,
                LinksOf, PinsNamed, LinksAttached, Path, InChain
  <1>3. CASE Next
    <2>1. Quiet => UNCHANGED vars
      BY DEF Quiet
    <2>2. Rest' \/ UNCHANGED vars
      BY <1>3, <2>1, PendingNext, SimpleNext, UndoNext, AttachTCXNext, KernelNext, DetachNextStep,
         DeleteNext, UnloadNext, DetachAllNext, DiesNext DEF Next
    <2>3. CASE Rest'
      BY <1>1, <2>3 DEF Inv, Rest
    <2> QED BY <1>2, <2>2, <2>3
  <1> QED BY <1>2, <1>3

-----------------------------------------------------------------------------
(***************************************************************************)
(* The theorems                                                            *)
(***************************************************************************)

\* The store names every pinned link of a probe or tracing program, at every
\* step of every attach, detach and unload, after every crash and failure, but
\* for the pins a rollback could not remove.
THEOREM PinsAlwaysNamed == Spec => []PinsNamed
  <1>1. Inv => PinsNamed
    BY DEF Inv
  <1> QED BY <1>1, InvInit, InvNext, PTL DEF Spec

\* A link whose attach succeeded keeps its row, its pin and its place at the
\* hook until it is detached, its program is unloaded or it dies.
THEOREM AttachedStay == Spec => []LinksAttached
  <1>1. Inv => LinksAttached
    BY DEF Inv
  <1> QED BY <1>1, InvInit, InvNext, PTL DEF Spec

\* The kernel runs the recorded TCX programs in the order of the rows, for any
\* number of them, with any priorities.
THEOREM ChainInOrder == Spec => []TCXOrder
  <1>1. Inv => TCXOrder
    BY DEF Inv
  <1> QED BY <1>1, InvInit, InvNext, PTL DEF Spec


=============================================================================
