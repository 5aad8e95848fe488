--------------------------- MODULE BatchDeleteProofs ---------------------------
(***************************************************************************)
(* A batch reports as gone what is gone, takes nothing along that it may   *)
(* not, and takes no owner before its dependants: DeleteInv is the         *)
(* inductive invariant.                                                    *)
(*                                                                         *)
(* Owners are no dependants, so both depth-first walks, of the ordering    *)
(* and of the deletes, are at most two calls deep.  That is what makes the *)
(* order of the ids right: when an id is placed its dependants are placed  *)
(* already or have none that could be missing.                             *)
(***************************************************************************)
EXTENDS BatchDelete, FiniteSetTheorems, TLAPS

Frame == [id: ProgIDs, rest: SUBSET ProgIDs]

Batch == [kind: {"none", "programs", "links"}, ids: Seq(ProgIDs \cup DelLinks), expand: BOOLEAN,
          deps: [ProgIDs -> SUBSET ProgIDs],
          unvisited: Seq(ProgIDs), visits: Seq(Frame), seen: SUBSET ProgIDs,
          todo: Seq(ProgIDs \cup DelLinks), item: ProgIDs \cup DelLinks \cup {NoProg},
          stack: Seq(ProgIDs), removedPrograms: SUBSET ProgIDs, removedLinks: SUBSET DelLinks]

\* Links are of programs that are there, and owners are no dependants.
RowsInv ==
    /\ progRows \subseteq ProgIDs
    /\ owner \in [ProgIDs -> ProgIDs \cup {NoProg}]
    /\ \A p \in ProgIDs : owner[p] # NoProg => owner[p] # p /\ owner[owner[p]] = NoProg
    /\ linkProg \in [DelLinks -> progRows \cup {NoProg}]

ResultsInv == results \in Seq([id: ProgIDs \cup DelLinks, ok: BOOLEAN])

\* The ids of a call, and those still to be dealt with.
ListsInv ==
    /\ batch \in Batch
    /\ batch.kind = "programs" => Range(batch.ids) \subseteq ProgIDs
    /\ batch.kind = "links" => Range(batch.ids) \subseteq DelLinks
    /\ Range(batch.unvisited) \subseteq Range(batch.ids)
    /\ Range(batch.todo) \subseteq Range(batch.ids)

\* Every program that has an owner is on its list where the list was read.
DepsInv ==
    /\ \A p \in ProgIDs : \A d \in batch.deps[p] : owner[d] = p
    /\ batch.expand \/ (batch.kind = "programs" /\ Len(batch.ids) > 1) =>
          \A d \in progRows : owner[d] # NoProg => d \in batch.deps[owner[d]]

\* The selected programs that use the maps of o.
SelectedDependants(o) == {d \in Range(batch.ids) \cap progRows : owner[d] = o}

\* The walk is in at most two visits: of an id, and of a dependant of it,
\* which has none itself.  Dependants not yet placed are still to be visited.
WalkInv ==
    /\ batch.visits = <<>> \/ Len(batch.visits) \in {1, 2}
    /\ Ordering => batch.kind = "programs" /\ Len(batch.ids) > 1 /\ batch.stack = <<>>
    /\ \A i \in DOMAIN batch.visits : batch.visits[i].id \in Range(batch.ids)
    /\ \A i \in DOMAIN batch.visits :
          batch.visits[i].rest \subseteq batch.deps[batch.visits[i].id] \cap Range(batch.ids)
    /\ Len(batch.visits) = 2 => owner[batch.visits[2].id] = batch.visits[1].id
    /\ Ordering => \A p \in batch.seen :
          p \in Range(batch.todo) \/ \E i \in DOMAIN batch.visits : batch.visits[i].id = p
    /\ batch.visits # <<>> => \A d \in SelectedDependants(batch.visits[1].id) :
          \/ d \in batch.visits[1].rest \/ d \in Range(batch.todo)
          \/ Len(batch.visits) = 2 /\ batch.visits[2].id = d

Settled(d) == \E i \in DOMAIN results : results[i].id = d

\* Before an id, its selected dependants are dealt with.
OrderInv ==
    batch.kind = "programs" =>
    /\ \A i \in DOMAIN batch.todo : \A d \in SelectedDependants(batch.todo[i]) :
          \/ Settled(d) \/ (batch.stack # <<>> /\ batch.item = d)
          \/ \E j \in DOMAIN batch.todo : j < i /\ batch.todo[j] = d
    /\ batch.stack # <<>> => \A d \in SelectedDependants(batch.item) : Settled(d)

\* The calls of deleteProgram in progress: of one program, and of a
\* dependant of it in a recursive delete.
StackInv ==
    batch.stack # <<>> =>
    /\ Len(batch.stack) \in {1, 2} /\ batch.kind # "none"
    /\ Len(batch.stack) = 2 => batch.expand /\ owner[batch.stack[2]] = batch.stack[1]
    /\ batch.kind = "programs" => batch.stack[1] = batch.item /\ batch.item \in Range(batch.ids)
    /\ batch.kind = "links" => batch.item \in batch.removedLinks /\ DelLinksOf(batch.stack[1]) = {}

\* What a result without an error says.
GoneItem(id) ==
    IF batch.kind = "links" THEN id \in DelLinks /\ linkProg[id] = NoProg
    ELSE batch.kind = "programs" => id \notin progRows

\* What was removed, and what is said of it.
GoneInv ==
    /\ batch.removedPrograms \cap progRows = {}
    /\ \A l \in batch.removedLinks : linkProg[l] = NoProg
    /\ batch.kind = "programs" => \A p \in batch.removedPrograms :
          p \in Range(batch.ids) \/ (batch.expand /\ owner[p] \in Range(batch.ids))
    /\ batch.kind = "links" /\ ~batch.expand => batch.removedLinks \subseteq Range(batch.ids)
    /\ \A i \in DOMAIN results : results[i].ok => GoneItem(results[i].id)

DeleteInv ==
    /\ RowsInv /\ ResultsInv /\ ListsInv /\ DepsInv /\ WalkInv
    /\ OrderInv /\ StackInv /\ GoneInv /\ DependantsFirst
-----------------------------------------------------------------------------
(***************************************************************************)
(* Sequences                                                               *)
(***************************************************************************)
LEMMA ProgIsNoLink == NoProg \notin ProgIDs
  BY ProgIDsAssumption DEF NoProg

LEMMA RangeEmpty == Range(<<>>) = {}
  BY DEF Range

LEMMA RangeSeq ==
    ASSUME NEW S, NEW q \in Seq(S)
    PROVE  Range(q) \subseteq S /\ \A x \in Range(q) : \E i \in DOMAIN q : q[i] = x
  BY DEF Range

LEMMA RangeIn ==
    ASSUME NEW q, NEW i \in DOMAIN q
    PROVE  q[i] \in Range(q)
  BY DEF Range

LEMMA HeadTail ==
    ASSUME NEW S, NEW q \in Seq(S), q # <<>>
    PROVE  /\ Head(q) \in S /\ Tail(q) \in Seq(S)
           /\ Head(q) = q[1] /\ 1 \in DOMAIN q
           /\ \A i \in DOMAIN Tail(q) : i + 1 \in DOMAIN q /\ q[i + 1] = Tail(q)[i] /\ i \in Nat
           /\ \A i \in DOMAIN q : i # 1 => i - 1 \in DOMAIN Tail(q) /\ Tail(q)[i - 1] = q[i]
  OBVIOUS

LEMMA RangeTail ==
    ASSUME NEW S, NEW q \in Seq(S), q # <<>>
    PROVE  Head(q) \in Range(q) /\ Range(Tail(q)) \subseteq Range(q)
  <1>0. /\ Tail(q) \in Seq(S) /\ Head(q) = q[1] /\ 1 \in DOMAIN q
        /\ \A i \in DOMAIN Tail(q) : i + 1 \in DOMAIN q /\ q[i + 1] = Tail(q)[i]
    BY HeadTail
  <1>1. Head(q) \in Range(q)
    BY <1>0, RangeIn
  <1>2. ASSUME NEW x \in Range(Tail(q)) PROVE x \in Range(q)
    <2>1. PICK i \in DOMAIN Tail(q) : Tail(q)[i] = x
      BY <1>0, RangeSeq
    <2>2. i + 1 \in DOMAIN q /\ q[i + 1] = x
      BY <1>0, <2>1
    <2> QED BY <2>2, RangeIn
  <1> QED BY <1>1, <1>2

LEMMA AppendFacts ==
    ASSUME NEW S, NEW q \in Seq(S), NEW x \in S
    PROVE  /\ Append(q, x) \in Seq(S) /\ Append(q, x) # <<>>
           /\ Len(Append(q, x)) = Len(q) + 1
           /\ DOMAIN Append(q, x) = DOMAIN q \cup {Len(q) + 1}
           /\ \A i \in DOMAIN q : Append(q, x)[i] = q[i] /\ i < Len(q) + 1
           /\ Append(q, x)[Len(q) + 1] = x
  OBVIOUS

LEMMA RangeAppend ==
    ASSUME NEW S, NEW q \in Seq(S), NEW x \in S
    PROVE  Range(Append(q, x)) = Range(q) \cup {x}
  <1> DEFINE a == Append(q, x)
  <1>0. /\ a \in Seq(S) /\ DOMAIN a = DOMAIN q \cup {Len(q) + 1}
        /\ \A i \in DOMAIN q : a[i] = q[i]
        /\ a[Len(q) + 1] = x
    BY AppendFacts
  <1> HIDE DEF a
  <1>1. ASSUME NEW y \in Range(a) PROVE y \in Range(q) \cup {x}
    <2>1. PICK i \in DOMAIN a : a[i] = y
      BY <1>0, RangeSeq
    <2>2. CASE i \in DOMAIN q
      BY <1>0, <2>1, <2>2, RangeIn
    <2>3. CASE i = Len(q) + 1
      BY <1>0, <2>1, <2>3
    <2> QED BY <1>0, <2>1, <2>2, <2>3
  <1>2. ASSUME NEW y \in Range(q) PROVE y \in Range(a)
    <2>1. PICK i \in DOMAIN q : q[i] = y
      BY RangeSeq
    <2>2. i \in DOMAIN a /\ a[i] = y
      BY <1>0, <2>1
    <2> QED BY <2>2, RangeIn
  <1>3. x \in Range(a)
    <2>1. Len(q) + 1 \in DOMAIN a /\ a[Len(q) + 1] = x
      BY <1>0
    <2> QED BY <2>1, RangeIn
  <1>4. Range(a) = Range(q) \cup {x}
    BY <1>1, <1>2, <1>3
  <1> QED BY <1>4 DEF a

LEMMA OneLong ==
    ASSUME NEW S, NEW x \in S
    PROVE  <<x>> \in Seq(S) /\ <<x>> # <<>> /\ Len(<<x>>) = 1 /\ <<x>>[1] = x
  OBVIOUS

LEMMA OneTwo ==
    ASSUME NEW S, NEW q \in Seq(S), Len(q) \in {1, 2}
    PROVE  /\ Last(q) = q[Len(q)] /\ Last(q) \in S /\ q # <<>>
           /\ Len(q) = 1 => Front(q) = <<>> /\ DOMAIN q = {1} /\ q[1] \in S
           /\ Len(q) = 2 => /\ Front(q) \in Seq(S) /\ Len(Front(q)) = 1 /\ Front(q)[1] = q[1]
                            /\ Front(q) # <<>>
                            /\ DOMAIN q = {1, 2} /\ q[1] \in S /\ q[2] \in S
                            /\ DOMAIN Front(q) = {1}
  <1>1. DOMAIN q = 1..Len(q) /\ \A i \in 1..Len(q) : q[i] \in S
    OBVIOUS
  <1>2. Last(q) = q[Len(q)] /\ Last(q) \in S /\ q # <<>>
    BY <1>1 DEF Last
  <1>3. CASE Len(q) = 1
    <2>1. DOMAIN q = {1} /\ q[1] \in S
      BY <1>1, <1>3
    <2>2. Front(q) = <<>>
      BY <1>3 DEF Front
    <2> QED BY <1>2, <1>3, <2>1, <2>2
  <1>4. CASE Len(q) = 2
    <2>1. DOMAIN q = {1, 2} /\ q[1] \in S /\ q[2] \in S
      BY <1>1, <1>4
    <2>2. Front(q) = SubSeq(q, 1, 1)
      BY <1>4 DEF Front
    <2>3. SubSeq(q, 1, 1) \in Seq(S) /\ Len(SubSeq(q, 1, 1)) = 1 /\ SubSeq(q, 1, 1)[1] = q[1]
      BY <1>1, <1>4
    <2>4. DOMAIN SubSeq(q, 1, 1) = {1} /\ SubSeq(q, 1, 1) # <<>>
      BY <2>3
    <2> QED BY <1>2, <1>4, <2>1, <2>2, <2>3, <2>4
  <1> QED BY <1>3, <1>4

-----------------------------------------------------------------------------
(***************************************************************************)
(* What steps leave alone                                                  *)
(***************************************************************************)
SameCall ==
    /\ batch'.kind = batch.kind /\ batch'.ids = batch.ids
    /\ batch'.expand = batch.expand /\ batch'.deps = batch.deps

SameRows == UNCHANGED <<progRows, owner, linkProg>>

LEMMA RowsKept ==
    ASSUME RowsInv, SameRows
    PROVE  RowsInv'
  BY DEF RowsInv, SameRows

LEMMA RowsDetach ==
    ASSUME RowsInv, NEW l \in DelLinks, UNCHANGED <<progRows, owner>>,
           linkProg' = [linkProg EXCEPT ![l] = NoProg]
    PROVE  RowsInv' /\ \A k \in DelLinks : linkProg'[k] = IF k = l THEN NoProg ELSE linkProg[k]
  BY DEF RowsInv

LEMMA ListsKept ==
    ASSUME ListsInv, SameCall, batch' \in Batch,
           Range(batch'.unvisited) \subseteq Range(batch.unvisited),
           Range(batch'.todo) \subseteq Range(batch.ids)
    PROVE  ListsInv'
  BY DEF ListsInv, SameCall

LEMMA DepsKept ==
    ASSUME DepsInv, SameCall, owner' = owner, progRows' \subseteq progRows
    PROVE  DepsInv'
  BY DEF DepsInv, SameCall

\* Nothing to be ordered any more, or not yet.
NotOrdering == batch.unvisited = <<>> /\ batch.visits = <<>>

LEMMA WalkIdle ==
    ASSUME NotOrdering
    PROVE  WalkInv
  BY DEF NotOrdering, WalkInv, Ordering

LEMMA WalkIdleNext ==
    ASSUME batch'.unvisited = <<>>, batch'.visits = <<>>
    PROVE  WalkInv'
  BY DEF WalkInv, Ordering

LEMMA DeletingIsNotOrdering ==
    ASSUME WalkInv, Deleting
    PROVE  NotOrdering
  BY DEF NotOrdering, WalkInv, Ordering, Deleting

LEMMA StackIdle ==
    ASSUME batch'.stack = <<>>
    PROVE  StackInv'
  BY DEF StackInv

\* Selected dependants are programs with an owner.
LEMMA SelectedFacts ==
    ASSUME RowsInv, ListsInv, batch.kind = "programs", NEW o \in ProgIDs,
           NEW d \in SelectedDependants(o)
    PROVE  /\ d \in ProgIDs /\ d \in progRows /\ d \in Range(batch.ids)
           /\ owner[d] = o /\ owner[d] # NoProg /\ o # d /\ owner[o] = NoProg
  BY ProgIsNoLink DEF SelectedDependants, RowsInv, ListsInv

LEMMA SelectedFewer ==
    ASSUME NEW o, SameCall, owner' = owner, progRows' \subseteq progRows
    PROVE  SelectedDependants(o)' \subseteq SelectedDependants(o)
  BY DEF SelectedDependants, SameCall

-----------------------------------------------------------------------------
(***************************************************************************)
(* Results                                                                 *)
(***************************************************************************)
\* The results kept, and one more of id.
Added(id, ok) ==
    /\ \A i \in DOMAIN results : i \in DOMAIN results' /\ results'[i] = results[i]
    /\ \A i \in DOMAIN results' : \/ i \in DOMAIN results /\ results'[i] = results[i]
                                  \/ results'[i].id = id /\ results'[i].ok = ok
    /\ \E i \in DOMAIN results' : results'[i].id = id /\ results'[i].ok = ok

LEMMA ResultAdded ==
    ASSUME ResultsInv, NEW id \in ProgIDs \cup DelLinks, NEW ok \in BOOLEAN,
           results' = Result(id, ok)
    PROVE  ResultsInv' /\ Added(id, ok)
  <1> DEFINE R == [id: ProgIDs \cup DelLinks, ok: BOOLEAN]
  <1>1. PICK r \in R : r = [id |-> id, ok |-> ok]
    OBVIOUS
  <1>2. r.id = id /\ r.ok = ok
    BY <1>1
  <1>3. results \in Seq(R) /\ results' = Append(results, r)
    BY <1>1 DEF ResultsInv, Result
  <1> HIDE DEF R
  <1>4. /\ results' \in Seq(R)
        /\ DOMAIN results' = DOMAIN results \cup {Len(results) + 1}
        /\ \A i \in DOMAIN results : results'[i] = results[i]
        /\ results'[Len(results) + 1] = r
    BY <1>3, AppendFacts
  <1>5. ResultsInv'
    BY <1>4 DEF R, ResultsInv
  <1>6. Added(id, ok)
    BY <1>2, <1>4 DEF Added
  <1> QED BY <1>5, <1>6

LEMMA SettledKept ==
    ASSUME NEW d, Settled(d),
           UNCHANGED results \/ \E id, ok : Added(id, ok)
    PROVE  Settled(d)'
  <1>1. CASE UNCHANGED results
    BY <1>1 DEF Settled
  <1>2. CASE \E id, ok : Added(id, ok)
    BY <1>2 DEF Settled, Added
  <1> QED BY <1>1, <1>2

LEMMA SettledNow ==
    ASSUME NEW id, NEW ok, Added(id, ok)
    PROVE  Settled(id)'
  BY DEF Settled, Added

\* An owner that was removed before stays removed after its dependants.
LEMMA FirstKept ==
    ASSUME DependantsFirst, SameCall, owner' = owner, progRows' \subseteq progRows,
           batch'.removedPrograms = batch.removedPrograms,
           UNCHANGED results \/ \E id, ok : Added(id, ok)
    PROVE  DependantsFirst'
  <1>1. ASSUME NEW d, \E i \in DOMAIN results : results[i].id = d /\ ~results[i].ok
        PROVE  (\E i \in DOMAIN results : results[i].id = d /\ ~results[i].ok)'
    <2>1. CASE UNCHANGED results
      BY <1>1, <2>1
    <2>2. CASE \E id, ok : Added(id, ok)
      BY <1>1, <2>2 DEF Added
    <2> QED BY <2>1, <2>2
  <1> QED BY <1>1 DEF DependantsFirst, SameCall

\* The rows and what was removed as they were, the results too.
LEMMA GoneSame ==
    ASSUME GoneInv, SameCall, SameRows, UNCHANGED results,
           batch'.removedPrograms = batch.removedPrograms,
           batch'.removedLinks = batch.removedLinks
    PROVE  GoneInv'
  BY DEF GoneInv, GoneItem, SameCall, SameRows

\* One more result, right if it is without an error.
LEMMA GoneAdded ==
    ASSUME GoneInv, SameCall, SameRows, NEW id, NEW ok, Added(id, ok),
           ok => GoneItem(id),
           batch'.removedPrograms = batch.removedPrograms,
           batch'.removedLinks = batch.removedLinks
    PROVE  GoneInv'
  <1>1. \A x : GoneItem(x)' <=> GoneItem(x)
    BY DEF GoneItem, SameCall, SameRows
  <1>2. ASSUME NEW i \in DOMAIN results', results'[i].ok PROVE GoneItem(results'[i].id)
    BY <1>2 DEF Added, GoneInv
  <1> QED BY <1>1, <1>2 DEF GoneInv, GoneItem, SameCall, SameRows

\* A link is detached, and one more result says so at most.
LEMMA GoneDetach ==
    ASSUME GoneInv, RowsInv, SameCall, NEW l \in DelLinks, UNCHANGED <<progRows, owner>>,
           linkProg' = [linkProg EXCEPT ![l] = NoProg],
           batch'.removedPrograms = batch.removedPrograms,
           batch'.removedLinks = batch.removedLinks \cup {l},
           batch.removedLinks \subseteq DelLinks,
           batch.kind = "links" /\ ~batch.expand => l \in Range(batch.ids),
           UNCHANGED results \/ (batch.kind = "links" /\ \E ok : Added(l, ok))
    PROVE  GoneInv'
  <1>1. \A k \in DelLinks : linkProg'[k] = IF k = l THEN NoProg ELSE linkProg[k]
    BY RowsDetach
  <1>2. \A x : GoneItem(x) => GoneItem(x)'
    BY <1>1 DEF GoneItem, SameCall
  <1>3. batch.kind = "links" => GoneItem(l)'
    BY <1>1 DEF GoneItem, SameCall
  <1>4. ASSUME NEW i \in DOMAIN results', results'[i].ok
        PROVE  IF batch'.kind = "links"
               THEN results'[i].id \in DelLinks /\ linkProg'[results'[i].id] = NoProg
               ELSE batch'.kind = "programs" => results'[i].id \notin progRows'
    <2>1. PICK x : x = results'[i].id
      OBVIOUS
    <2>2. GoneItem(x)'
      <3>1. CASE UNCHANGED results
        BY <1>2, <1>4, <2>1, <3>1 DEF GoneInv
      <3>2. CASE batch.kind = "links" /\ \E ok : Added(l, ok)
        BY <1>2, <1>3, <1>4, <2>1, <3>2 DEF GoneInv, Added
      <3> QED BY <3>1, <3>2
    <2> QED BY <2>1, <2>2 DEF GoneItem
  <1>5. \A k \in batch'.removedLinks : linkProg'[k] = NoProg
    BY <1>1 DEF GoneInv
  <1> QED BY <1>4, <1>5 DEF GoneInv, GoneItem, SameCall

-----------------------------------------------------------------------------
(***************************************************************************)
(* The order of the ids                                                    *)
(***************************************************************************)
LEMMA OrderOfLinks ==
    ASSUME batch'.kind # "programs"
    PROVE  OrderInv'
  BY DEF OrderInv

\* In the middle of an item.
LEMMA OrderSame ==
    ASSUME OrderInv, SameCall, owner' = owner, progRows' \subseteq progRows, UNCHANGED results,
           batch.stack # <<>>, batch'.stack # <<>>,
           batch'.item = batch.item, batch'.todo = batch.todo
    PROVE  OrderInv'
  <1>1. \A o : SelectedDependants(o)' \subseteq SelectedDependants(o)
    BY SelectedFewer
  <1>2. \A d : Settled(d)' <=> Settled(d)
    BY DEF Settled
  <1> QED BY <1>1, <1>2 DEF OrderInv, SameCall

\* An item ends.
LEMMA OrderItemEnds ==
    ASSUME OrderInv, SameCall, owner' = owner, progRows' \subseteq progRows,
           NEW ok, Added(batch.item, ok),
           batch'.stack = <<>>, batch'.todo = batch.todo
    PROVE  OrderInv'
  <1>1. \A o : SelectedDependants(o)' \subseteq SelectedDependants(o)
    BY SelectedFewer
  <1>2. PICK x : x = batch.item
    OBVIOUS
  <1>3. Settled(x)' /\ \A d : Settled(d) => Settled(d)'
    BY <1>2, SettledKept, SettledNow
  <1> QED BY <1>1, <1>2, <1>3 DEF OrderInv, SameCall

\* The next id: it is dealt with at once, or is the item from here on.
LEMMA OrderPop ==
    ASSUME OrderInv, SameCall, UNCHANGED <<owner, progRows>>, batch \in Batch,
           batch.stack = <<>>, batch.todo # <<>>, batch'.todo = Tail(batch.todo),
           \/ batch'.stack = <<>> /\ \E ok : Added(Head(batch.todo), ok)
           \/ batch'.stack # <<>> /\ batch'.item = Head(batch.todo) /\ UNCHANGED results
    PROVE  OrderInv'
  <1>0. SUFFICES ASSUME batch.kind = "programs" PROVE OrderInv'
    BY OrderOfLinks DEF SameCall
  <1> DEFINE q == batch.todo
             t == batch'.todo
  <1>1. \A o : SelectedDependants(o)' = SelectedDependants(o)
    BY DEF SelectedDependants, SameCall
  <1>2. \A d : Settled(d) => Settled(d)'
    BY SettledKept
  <1>3. /\ q[1] = Head(q) /\ 1 \in DOMAIN q
        /\ \A i \in DOMAIN t : i + 1 \in DOMAIN q /\ q[i + 1] = t[i] /\ i \in Nat
        /\ \A i \in DOMAIN q : i # 1 => i - 1 \in DOMAIN t /\ t[i - 1] = q[i]
    BY HeadTail DEF Batch
  <1>4. DOMAIN q \subseteq Nat \ {0}
    BY DEF Batch
  <1>h. PICK h : h = q[1]
    OBVIOUS
  <1>5. \/ batch'.stack = <<>> /\ Settled(h)'
        \/ batch'.stack # <<>> /\ batch'.item = h
    BY <1>3, <1>h, SettledNow
  <1>6. /\ \A i \in DOMAIN q : \A d \in SelectedDependants(q[i]) :
              Settled(d) \/ \E j \in DOMAIN q : j < i /\ q[j] = d
    BY <1>0 DEF OrderInv
  <1>7. ASSUME NEW i \in DOMAIN t, NEW d \in SelectedDependants(t[i])
        PROVE  \/ Settled(d)' \/ (batch'.stack # <<>> /\ batch'.item = d)
               \/ \E j \in DOMAIN t : j < i /\ t[j] = d
    <2>1. i + 1 \in DOMAIN q /\ q[i + 1] = t[i] /\ i \in Nat
      BY <1>3
    <2>2. Settled(d) \/ \E j \in DOMAIN q : j < i + 1 /\ q[j] = d
      BY <1>6, <1>7, <2>1
    <2>3. CASE Settled(d)
      BY <1>2, <2>3
    <2>4. ASSUME NEW j \in DOMAIN q, j < i + 1, q[j] = d
          PROVE  \/ Settled(d)' \/ (batch'.stack # <<>> /\ batch'.item = d)
                 \/ \E k \in DOMAIN t : k < i /\ t[k] = d
      <3>1. CASE j = 1
        BY <1>5, <1>h, <2>4, <3>1
      <3>2. CASE j # 1
        <4>1. j - 1 \in DOMAIN t /\ t[j - 1] = d
          BY <1>3, <2>4, <3>2
        <4>2. j - 1 < i
          BY <1>4, <2>1, <2>4
        <4> QED BY <4>1, <4>2
      <3> QED BY <3>1, <3>2
    <2> QED BY <2>2, <2>3, <2>4
  <1>8. ASSUME batch'.stack # <<>>, NEW d \in SelectedDependants(q[1]) PROVE Settled(d)'
    <2>1. Settled(d)
      <3>1. ~ \E j \in DOMAIN q : j < 1
        BY <1>4
      <3> QED BY <1>3, <1>6, <1>8, <3>1
    <2> QED BY <1>2, <2>1
  <1>9. \A i \in DOMAIN t : \A d \in Range(batch'.ids) \cap progRows' : owner'[d] = t[i] =>
           \/ Settled(d)' \/ (batch'.stack # <<>> /\ batch'.item = d)
           \/ \E j \in DOMAIN t : j < i /\ t[j] = d
    BY <1>7 DEF SelectedDependants, SameCall
  <1>10. batch'.stack # <<>> =>
            \A d \in Range(batch'.ids) \cap progRows' : owner'[d] = batch'.item => Settled(d)'
    BY <1>h, <1>5, <1>8 DEF SelectedDependants, SameCall
  <1> HIDE DEF t
  <1> QED BY <1>9, <1>10 DEF OrderInv, SelectedDependants, t

-----------------------------------------------------------------------------
(***************************************************************************)
(* Calls begin and end                                                     *)
(***************************************************************************)
LEMMA NoBatchFacts ==
    /\ NoBatch \in Batch /\ NoBatch.kind = "none" /\ NoBatch.ids = <<>> /\ ~NoBatch.expand
    /\ NoBatch.deps = [p \in ProgIDs |-> {}]
    /\ NoBatch.unvisited = <<>> /\ NoBatch.visits = <<>> /\ NoBatch.seen = {}
    /\ NoBatch.todo = <<>> /\ NoBatch.stack = <<>>
    /\ NoBatch.removedPrograms = {} /\ NoBatch.removedLinks = {}
  BY DEF NoBatch, Batch

LEMMA DependentsType ==
    ASSUME RowsInv, NEW wanted \in BOOLEAN
    PROVE  /\ DependentsByOwner(wanted) \in [ProgIDs -> SUBSET ProgIDs]
           /\ \A p \in ProgIDs : \A d \in DependentsByOwner(wanted)[p] : owner[d] = p
           /\ wanted => \A d \in progRows : owner[d] # NoProg => d \in DependentsByOwner(wanted)[owner[d]]
  <1>1. \A p \in ProgIDs : DependentsOf(p) \in SUBSET ProgIDs
    BY DEF DependentsOf, RowsInv
  <1>2. \A d \in progRows : owner[d] # NoProg => owner[d] \in ProgIDs
    BY DEF RowsInv
  <1> QED BY <1>1, <1>2 DEF DependentsByOwner, DependentsOf

\* A call before anything is deleted: only the order is to be shown.
LEMMA StartInv ==
    ASSUME RowsInv, SameRows, ResultsInv', results' = <<>>, batch' \in Batch,
           ListsInv', DepsInv', WalkInv', OrderInv',
           batch'.stack = <<>>, batch'.removedPrograms = {}, batch'.removedLinks = {}
    PROVE  DeleteInv'
  <1>1. RowsInv' /\ StackInv'
    BY RowsKept, StackIdle
  <1>2. GoneInv'
    BY DEF GoneInv
  <1>3. DependantsFirst'
    BY DEF DependantsFirst
  <1> QED BY <1>1, <1>2, <1>3 DEF DeleteInv

LEMMA EmptyResults == ASSUME results' = <<>> PROVE ResultsInv'
  BY DEF ResultsInv

LEMMA StartProgramsInv ==
    ASSUME DeleteInv, NEW ids \in Seq(ProgIDs), NEW expand \in BOOLEAN,
           StartPrograms(ids, expand), results' = <<>>, SameRows
    PROVE  DeleteInv'
  <1> USE DEF DeleteInv
  <1> DEFINE wanted == expand \/ Len(ids) > 1
             deps   == DependentsByOwner(wanted)
             b      == [NoBatch EXCEPT !.kind = "programs", !.ids = ids, !.expand = expand,
                                       !.deps = deps]
  <1>1. /\ deps \in [ProgIDs -> SUBSET ProgIDs]
        /\ \A p \in ProgIDs : \A d \in deps[p] : owner[d] = p
        /\ wanted => \A d \in progRows : owner[d] # NoProg => d \in deps[owner[d]]
    BY DependentsType
  <1>2. ids \in Seq(ProgIDs \cup DelLinks)
    OBVIOUS
  <1> HIDE DEF deps
  <1>3. /\ b \in Batch /\ b.kind = "programs" /\ b.ids = ids /\ b.expand = expand /\ b.deps = deps
        /\ b.unvisited = <<>> /\ b.visits = <<>> /\ b.seen = {} /\ b.todo = <<>> /\ b.stack = <<>>
        /\ b.removedPrograms = {} /\ b.removedLinks = {}
    BY <1>1, <1>2, NoBatchFacts DEF Batch
  <1>4. batch' = OrderProgramDeletes(b)
    BY DEF StartPrograms, deps
  <1> HIDE DEF b
  <1> DEFINE given == Len(ids) <= 1 \/ \A p \in ProgIDs : deps[p] = {}
  <1>5. batch' = IF given THEN [b EXCEPT !.todo = ids] ELSE [b EXCEPT !.unvisited = ids]
    BY <1>3, <1>4 DEF OrderProgramDeletes
  <1> HIDE DEF given
  <1>6. /\ batch' \in Batch /\ batch'.kind = "programs" /\ batch'.ids = ids
        /\ batch'.expand = expand /\ batch'.deps = deps
        /\ batch'.visits = <<>> /\ batch'.seen = {} /\ batch'.stack = <<>>
        /\ batch'.removedPrograms = {} /\ batch'.removedLinks = {}
        /\ given => batch'.todo = ids /\ batch'.unvisited = <<>>
        /\ ~given => batch'.todo = <<>> /\ batch'.unvisited = ids
    <2>1. CASE given
      BY <1>2, <1>3, <1>5, <2>1 DEF Batch
    <2>2. CASE ~given
      BY <1>3, <1>5, <2>2 DEF Batch
    <2> QED BY <2>1, <2>2
  <1>7. Range(ids) \subseteq ProgIDs
    BY RangeSeq
  <1>8. ListsInv'
    <2>1. CASE given
      BY <1>6, <1>7, <2>1, RangeEmpty DEF ListsInv
    <2>2. CASE ~given
      BY <1>6, <1>7, <2>2, RangeEmpty DEF ListsInv
    <2> QED BY <2>1, <2>2
  <1>9. DepsInv'
    BY <1>1, <1>6 DEF DepsInv, SameRows
  <1>10. WalkInv'
    <2>1. CASE given
      BY <1>6, <2>1, WalkIdleNext
    <2>2. CASE ~given
      <3>1. Len(ids) > 1
        BY <2>2 DEF given
      <3> QED BY <1>6, <2>2, <3>1 DEF WalkInv, Ordering
    <2> QED BY <2>1, <2>2
  <1>11. OrderInv'
    <2>1. CASE given
      <3>1. ASSUME NEW i \in DOMAIN ids, NEW d \in Range(ids) \cap progRows, owner[d] = ids[i]
            PROVE  FALSE
        <4>1. d \in ProgIDs /\ ids[i] \in ProgIDs /\ owner[d] # NoProg /\ owner[d] # d
          BY <1>7, <3>1, ProgIsNoLink DEF RowsInv
        <4>2. CASE Len(ids) <= 1
          <5>1. PICK j \in DOMAIN ids : ids[j] = d
            BY RangeSeq
          <5>2. i = j
            BY <4>2
          <5> QED BY <3>1, <4>1, <5>1, <5>2
        <4>3. CASE Len(ids) > 1 /\ \A p \in ProgIDs : deps[p] = {}
          BY <1>1, <3>1, <4>1, <4>3
        <4>4. Len(ids) \in Nat
          OBVIOUS
        <4> QED BY <2>1, <4>2, <4>3, <4>4 DEF given
      <3> QED BY <1>6, <2>1, <3>1 DEF OrderInv, SelectedDependants, SameRows
    <2>2. CASE ~given
      BY <1>6, <2>2 DEF OrderInv
    <2> QED BY <2>1, <2>2
  <1>12. ResultsInv'
    BY EmptyResults
  <1> QED BY <1>6, <1>8, <1>9, <1>10, <1>11, <1>12, StartInv

LEMMA ListsOfIds ==
    ASSUME NEW S, NEW ids \in IDLists(S)
    PROVE  ids \in Seq(S)
  <1>1. PICK n \in 1..MaxBatch : ids \in [1..n -> S]
    BY DEF IDLists
  <1>2. n \in Nat
    BY MaxBatchAssumption
  <1> QED BY <1>1, <1>2

LEMMA DeleteProgramsStep ==
    ASSUME DeleteInv, NEW ids \in IDLists(ProgIDs), NEW r \in BOOLEAN, DeletePrograms(ids, r)
    PROVE  DeleteInv'
  BY ListsOfIds, StartProgramsInv DEF DeletePrograms, SameRows

LEMMA DeleteAllStep ==
    ASSUME DeleteInv, DeleteAll
    PROVE  DeleteInv'
  <1>1. PICK ids \in ListPrograms(progRows) : StartPrograms(ids, TRUE)
    BY DEF DeleteAll
  <1>2. progRows \subseteq ProgIDs
    BY DEF DeleteInv, RowsInv
  <1>3. IsFiniteSet(progRows)
    BY <1>2, ProgIDsAssumption, FS_Subset
  <1>4. Cardinality(progRows) \in Nat
    BY <1>3, FS_CardinalityType
  <1>5. ids \in [1..Cardinality(progRows) -> progRows]
    BY DEF ListPrograms
  <1>6. ids \in Seq(ProgIDs)
    BY <1>2, <1>4, <1>5
  <1> QED BY <1>1, <1>6, StartProgramsInv DEF DeleteAll, SameRows

LEMMA DeleteLinksStep ==
    ASSUME DeleteInv, NEW ids \in IDLists(DelLinks), NEW r \in BOOLEAN, DeleteLinks(ids, r)
    PROVE  DeleteInv'
  <1> USE DEF DeleteInv
  <1>1. ids \in Seq(DelLinks) /\ ids \in Seq(ProgIDs \cup DelLinks)
    BY ListsOfIds
  <1> DEFINE deps == DependentsByOwner(r)
  <1>2. /\ deps \in [ProgIDs -> SUBSET ProgIDs]
        /\ \A p \in ProgIDs : \A d \in deps[p] : owner[d] = p
        /\ r => \A d \in progRows : owner[d] # NoProg => d \in deps[owner[d]]
    BY DependentsType
  <1>3. /\ batch' = [NoBatch EXCEPT !.kind = "links", !.ids = ids, !.expand = r,
                                    !.deps = deps, !.todo = ids]
        /\ results' = <<>> /\ SameRows
    BY DEF DeleteLinks, SameRows
  <1> HIDE DEF deps
  <1>4. /\ batch' \in Batch /\ batch'.kind = "links" /\ batch'.ids = ids
        /\ batch'.expand = r /\ batch'.deps = deps /\ batch'.todo = ids
        /\ batch'.unvisited = <<>> /\ batch'.visits = <<>> /\ batch'.stack = <<>>
        /\ batch'.removedPrograms = {} /\ batch'.removedLinks = {}
    BY <1>1, <1>2, <1>3, NoBatchFacts DEF Batch
  <1>5. Range(ids) \subseteq DelLinks
    BY <1>1, RangeSeq
  <1>6. ListsInv'
    BY <1>4, <1>5, RangeEmpty DEF ListsInv
  <1>7. DepsInv'
    BY <1>2, <1>3, <1>4 DEF DepsInv, SameRows
  <1>8. WalkInv' /\ OrderInv' /\ ResultsInv'
    BY <1>3, <1>4, WalkIdleNext, OrderOfLinks, EmptyResults
  <1> QED BY <1>3, <1>4, <1>6, <1>7, <1>8, StartInv

\* Between two calls nothing of a batch is left but its results.
LEMMA NoCallInv ==
    ASSUME RowsInv, SameRows, ResultsInv', batch' = NoBatch
    PROVE  DeleteInv'
  <1>1. RowsInv' /\ StackInv' /\ WalkInv' /\ OrderInv'
    BY RowsKept, StackIdle, WalkIdleNext, OrderOfLinks, NoBatchFacts
  <1>2. ListsInv'
    BY NoBatchFacts, RangeEmpty DEF ListsInv
  <1>3. DepsInv'
    BY NoBatchFacts DEF DepsInv
  <1>4. GoneInv'
    BY NoBatchFacts DEF GoneInv, GoneItem
  <1>5. DependantsFirst'
    BY NoBatchFacts DEF DependantsFirst
  <1> QED BY <1>1, <1>2, <1>3, <1>4, <1>5 DEF DeleteInv

LEMMA DependentsUnknownStep ==
    ASSUME DeleteInv, NEW ids, ids \in IDLists(ProgIDs) \/ ids \in IDLists(DelLinks),
           DependentsUnknown(ids)
    PROVE  DeleteInv'
  <1>1. ids \in Seq(ProgIDs \cup DelLinks)
    <2>1. CASE ids \in IDLists(ProgIDs)
      <3>1. ids \in Seq(ProgIDs)
        BY <2>1, ListsOfIds
      <3> QED BY <3>1
    <2>2. CASE ids \in IDLists(DelLinks)
      <3>1. ids \in Seq(DelLinks)
        BY <2>2, ListsOfIds
      <3> QED BY <3>1
    <2> QED BY <2>1, <2>2
  <1>2. ResultsInv'
    <2> DEFINE R == [id: ProgIDs \cup DelLinks, ok: BOOLEAN]
    <2>1. \A i \in DOMAIN ids : [id |-> ids[i], ok |-> FALSE] \in R
      BY <1>1
    <2>2. DOMAIN ids = 1..Len(ids) /\ Len(ids) \in Nat
      BY <1>1
    <2>3. results' = [i \in DOMAIN ids |-> [id |-> ids[i], ok |-> FALSE]]
      BY DEF DependentsUnknown
    <2>4. results' \in [1..Len(ids) -> R]
      BY <2>1, <2>2, <2>3
    <2> HIDE DEF R
    <2>5. results' \in Seq(R)
      BY <2>2, <2>4
    <2> QED BY <2>5 DEF R, ResultsInv
  <1> QED BY <1>2, NoCallInv DEF DependentsUnknown, SameRows, DeleteInv

LEMMA EndBatchStep ==
    ASSUME DeleteInv, EndBatch
    PROVE  DeleteInv'
  <1>1. ResultsInv'
    BY DEF DeleteInv, ResultsInv, EndBatch
  <1> QED BY <1>1, NoCallInv DEF EndBatch, SameRows, DeleteInv

-----------------------------------------------------------------------------
(***************************************************************************)
(* The walk that orders the ids                                            *)
(***************************************************************************)
\* Nothing is deleted meanwhile: the walk and the order are to be shown.
LEMMA WalkStep ==
    ASSUME DeleteInv, SameRows, UNCHANGED results, SameCall, batch' \in Batch,
           Range(batch'.unvisited) \subseteq Range(batch.unvisited),
           Range(batch'.todo) \subseteq Range(batch.ids),
           batch'.stack = <<>>,
           batch'.removedPrograms = batch.removedPrograms,
           batch'.removedLinks = batch.removedLinks,
           WalkInv', OrderInv'
    PROVE  DeleteInv'
  <1> USE DEF DeleteInv
  <1>1. RowsInv' /\ StackInv' /\ ListsInv' /\ GoneInv'
    BY RowsKept, StackIdle, ListsKept, GoneSame
  <1>2. DepsInv' /\ DependantsFirst'
    BY DepsKept, FirstKept DEF SameRows
  <1>3. ResultsInv'
    BY DEF ResultsInv
  <1> QED BY <1>1, <1>2, <1>3

\* The order is of the same ids.
LEMMA OrderWhileVisiting ==
    ASSUME OrderInv, SameRows, UNCHANGED results, SameCall,
           batch.stack = <<>>, batch'.stack = <<>>, batch'.todo = batch.todo
    PROVE  OrderInv'
  BY DEF OrderInv, SameRows, SameCall, Settled, SelectedDependants

LEMMA FrameType ==
    ASSUME NEW id \in ProgIDs, NEW R \in SUBSET ProgIDs
    PROVE  /\ [id |-> id, rest |-> R] \in Frame
           /\ [id |-> id, rest |-> R].id = id /\ [id |-> id, rest |-> R].rest = R
  BY DEF Frame

LEMMA FrameLess ==
    ASSUME NEW v \in Frame, NEW R \in SUBSET ProgIDs
    PROVE  LET w == [v EXCEPT !.rest = R] IN w \in Frame /\ w.id = v.id /\ w.rest = R
  BY DEF Frame

\* The fields of the record after a visit begins, or does not.
LEMMA VisitFields ==
    ASSUME NEW b \in Batch, NEW id \in ProgIDs
    PROVE  LET c == Visit(b, id)
               f == [id |-> id, rest |-> b.deps[id] \cap Range(b.ids)]
           IN  /\ c \in Batch /\ c.kind = b.kind /\ c.ids = b.ids /\ c.expand = b.expand
               /\ c.deps = b.deps /\ c.unvisited = b.unvisited /\ c.todo = b.todo
               /\ c.stack = b.stack
               /\ c.removedPrograms = b.removedPrograms /\ c.removedLinks = b.removedLinks
               /\ id \in b.seen => c.seen = b.seen /\ c.visits = b.visits
               /\ id \notin b.seen => c.seen = b.seen \cup {id} /\ c.visits = Append(b.visits, f)
  <1>1. b.deps[id] \cap Range(b.ids) \in SUBSET ProgIDs
    BY DEF Batch
  <1>2. PICK f \in Frame : f = [id |-> id, rest |-> b.deps[id] \cap Range(b.ids)]
    BY <1>1, FrameType
  <1>3. PICK v \in Seq(Frame) : v = Append(b.visits, f)
    <2>1. b.visits \in Seq(Frame)
      BY DEF Batch
    <2> QED BY <2>1, AppendFacts
  <1>4. PICK s \in SUBSET ProgIDs : s = b.seen \cup {id}
    BY DEF Batch
  <1>5. Visit(b, id) = IF id \in b.seen THEN b ELSE [b EXCEPT !.seen = s, !.visits = v]
    BY <1>2, <1>3, <1>4 DEF Visit
  <1>6. CASE id \in b.seen
    BY <1>5, <1>6
  <1>7. CASE id \notin b.seen
    <2>1. PICK c : c = Visit(b, id)
      OBVIOUS
    <2>2. c = [b EXCEPT !.seen = s, !.visits = v]
      BY <1>5, <1>7, <2>1
    <2>3. /\ c \in Batch /\ c.kind = b.kind /\ c.ids = b.ids /\ c.expand = b.expand
          /\ c.deps = b.deps /\ c.unvisited = b.unvisited /\ c.todo = b.todo
          /\ c.stack = b.stack
          /\ c.removedPrograms = b.removedPrograms /\ c.removedLinks = b.removedLinks
          /\ c.seen = s /\ c.visits = v
      BY <2>2 DEF Batch
    <2> QED BY <1>2, <1>3, <1>4, <1>7, <2>1, <2>3
  <1> QED BY <1>6, <1>7

LEMMA VisitNamedStep ==
    ASSUME DeleteInv, VisitNamed
    PROVE  DeleteInv'
  <1> USE DEF DeleteInv
  <1> DEFINE id == Head(batch.unvisited)
             b  == [batch EXCEPT !.unvisited = Tail(@)]
             f  == [id |-> id, rest |-> batch.deps[id] \cap Range(batch.ids)]
  <1>1. /\ batch.unvisited # <<>> /\ batch.visits = <<>> /\ batch' = Visit(b, id)
        /\ SameRows /\ UNCHANGED results
    BY DEF VisitNamed, SameRows
  <1>2. batch \in Batch /\ batch.unvisited \in Seq(ProgIDs)
    BY DEF ListsInv, Batch
  <1>3. /\ id \in ProgIDs /\ Tail(batch.unvisited) \in Seq(ProgIDs)
        /\ id \in Range(batch.unvisited)
        /\ Range(Tail(batch.unvisited)) \subseteq Range(batch.unvisited)
    BY <1>1, <1>2, HeadTail, RangeTail
  <1>4. /\ b \in Batch /\ b.kind = batch.kind /\ b.ids = batch.ids /\ b.expand = batch.expand
        /\ b.deps = batch.deps /\ b.unvisited = Tail(batch.unvisited) /\ b.todo = batch.todo
        /\ b.stack = batch.stack /\ b.seen = batch.seen /\ b.visits = <<>>
        /\ b.removedPrograms = batch.removedPrograms /\ b.removedLinks = batch.removedLinks
    BY <1>1, <1>2, <1>3 DEF Batch
  <1> HIDE DEF b, id
  <1>5. /\ batch' \in Batch /\ batch'.kind = b.kind /\ batch'.ids = b.ids /\ batch'.expand = b.expand
        /\ batch'.deps = b.deps /\ batch'.unvisited = b.unvisited /\ batch'.todo = b.todo
        /\ batch'.stack = b.stack
        /\ batch'.removedPrograms = b.removedPrograms /\ batch'.removedLinks = b.removedLinks
        /\ id \in b.seen => batch'.seen = b.seen /\ batch'.visits = b.visits
        /\ id \notin b.seen => batch'.seen = b.seen \cup {id} /\ batch'.visits = Append(b.visits, f)
    BY <1>1, <1>3, <1>4, VisitFields
  <1>6. batch.kind = "programs" /\ Len(batch.ids) > 1 /\ batch.stack = <<>>
    BY <1>1 DEF WalkInv, Ordering
  <1>7. SameCall /\ batch'.stack = <<>> /\ batch'.todo = batch.todo
    BY <1>4, <1>5, <1>6 DEF SameCall
  <1>8. OrderInv'
    BY <1>1, <1>6, <1>7, OrderWhileVisiting
  <1>9. \A p \in batch.seen : p \in Range(batch.todo)
    BY <1>1 DEF WalkInv, Ordering
  <1>10. WalkInv'
    <2>1. CASE id \in batch.seen
      <3>1. batch'.visits = <<>> /\ batch'.seen = batch.seen
        BY <1>4, <1>5, <2>1
      <3> QED BY <1>6, <1>7, <1>9, <3>1 DEF WalkInv, Ordering, SameCall
    <2>2. CASE id \notin batch.seen
      <3>1. f \in Frame /\ f.id = id /\ f.rest = batch.deps[id] \cap Range(batch.ids)
        <4>1. batch.deps[id] \cap Range(batch.ids) \in SUBSET ProgIDs
          BY <1>2, <1>3 DEF Batch
        <4> QED BY <1>3, <4>1, FrameType
      <3> HIDE DEF f
      <3>2. <<>> \in Seq(Frame)
        OBVIOUS
      <3>3. /\ Len(batch'.visits) = 1 /\ batch'.visits # <<>> /\ DOMAIN batch'.visits = {1}
            /\ batch'.visits[1] = f
        <4>1. batch'.visits = Append(<<>>, f)
          BY <1>4, <1>5, <2>2
        <4> QED BY <3>1, <3>2, <4>1
      <3>4. batch'.seen = batch.seen \cup {id}
        BY <1>4, <1>5, <2>2
      <3>5. id \in Range(batch.ids)
        BY <1>3 DEF ListsInv
      <3>6. \A d \in Range(batch.ids) \cap progRows : owner[d] = id => d \in f.rest
        BY <1>3, <1>6, <3>1, ProgIsNoLink DEF DepsInv
      <3>7. \A d \in Range(batch'.ids) \cap progRows' : owner'[d] = batch'.visits[1].id =>
               d \in batch'.visits[1].rest
        BY <1>1, <1>7, <3>1, <3>3, <3>6 DEF SameCall, SameRows
      <3> QED BY <1>6, <1>7, <1>9, <3>1, <3>3, <3>4, <3>5, <3>7
              DEF WalkInv, Ordering, SameCall, SelectedDependants
    <2> QED BY <2>1, <2>2
  <1>11. Range(batch'.todo) \subseteq Range(batch.ids)
    BY <1>7 DEF ListsInv
  <1>12. Range(batch'.unvisited) \subseteq Range(batch.unvisited)
    BY <1>3, <1>4, <1>5
  <1> QED BY <1>1, <1>4, <1>5, <1>7, <1>8, <1>10, <1>11, <1>12, WalkStep

\* A visit inside another is of a dependant, which has no dependants.
LEMMA VisitsFacts ==
    ASSUME DeleteInv, batch.visits # <<>>
    PROVE  /\ batch.visits \in Seq(Frame) /\ Len(batch.visits) \in {1, 2}
           /\ Last(batch.visits) = batch.visits[Len(batch.visits)] /\ Last(batch.visits) \in Frame
           /\ batch.visits[1] \in Frame
           /\ Len(batch.visits) = 2 => owner[Last(batch.visits).id] # NoProg
           /\ Last(batch.visits).rest \subseteq
                 batch.deps[Last(batch.visits).id] \cap Range(batch.ids)
           /\ batch.kind = "programs" /\ Len(batch.ids) > 1 /\ batch.stack = <<>>
           /\ Range(batch.ids) \subseteq ProgIDs
  <1>1. batch.visits \in Seq(Frame) /\ Len(batch.visits) \in {1, 2}
    BY DEF DeleteInv, ListsInv, Batch, WalkInv
  <1>2. /\ Last(batch.visits) = batch.visits[Len(batch.visits)] /\ Last(batch.visits) \in Frame
        /\ batch.visits[1] \in Frame
        /\ Len(batch.visits) \in DOMAIN batch.visits
    <2>1. CASE Len(batch.visits) = 1
      BY <1>1, <2>1, OneTwo
    <2>2. CASE Len(batch.visits) = 2
      BY <1>1, <2>2, OneTwo
    <2> QED BY <1>1, <2>1, <2>2
  <1>3. batch.kind = "programs" /\ Len(batch.ids) > 1 /\ batch.stack = <<>>
    BY DEF DeleteInv, WalkInv, Ordering
  <1>4. Len(batch.visits) = 2 => owner[Last(batch.visits).id] # NoProg
    <2>1. batch.visits[1].id \in ProgIDs
      BY <1>2 DEF Frame
    <2> QED BY <1>2, <2>1, ProgIsNoLink DEF DeleteInv, WalkInv
  <1>5. Last(batch.visits).rest \subseteq batch.deps[Last(batch.visits).id] \cap Range(batch.ids)
    BY <1>2 DEF DeleteInv, WalkInv
  <1>6. Range(batch.ids) \subseteq ProgIDs
    BY <1>3 DEF DeleteInv, ListsInv
  <1> QED BY <1>1, <1>2, <1>3, <1>4, <1>5, <1>6

LEMMA VisitDependentStep ==
    ASSUME DeleteInv, VisitDependent
    PROVE  DeleteInv'
  <1> USE DEF DeleteInv
  <1>0. batch.visits # <<>> /\ SameRows /\ UNCHANGED results
    BY DEF VisitDependent, SameRows
  <1>1. PICK v : v = Last(batch.visits)
    OBVIOUS
  <1>2. PICK d \in Least(v.rest) :
           batch' = Visit([batch EXCEPT !.visits = Append(Front(@), [v EXCEPT !.rest = @ \ {d}])], d)
    BY <1>1 DEF VisitDependent
  <1>3. /\ batch.visits \in Seq(Frame) /\ Len(batch.visits) \in {1, 2}
        /\ v = batch.visits[Len(batch.visits)] /\ v \in Frame
        /\ Len(batch.visits) = 2 => owner[v.id] # NoProg
        /\ v.rest \subseteq batch.deps[v.id] \cap Range(batch.ids)
        /\ batch.kind = "programs" /\ Len(batch.ids) > 1 /\ batch.stack = <<>>
        /\ Range(batch.ids) \subseteq ProgIDs
    BY <1>0, <1>1, VisitsFacts
  <1>4. batch \in Batch /\ v.id \in ProgIDs /\ v.rest \in SUBSET ProgIDs /\ d \in v.rest
    BY <1>3 DEF Frame, ListsInv, Least
  <1>5. d \in ProgIDs /\ owner[d] = v.id /\ d # v.id /\ owner[v.id] = NoProg
    BY <1>3, <1>4, ProgIsNoLink DEF DepsInv, RowsInv
  <1>6. Len(batch.visits) = 1 /\ v = batch.visits[1] /\ Front(batch.visits) = <<>>
        /\ DOMAIN batch.visits = {1}
    BY <1>3, <1>5, OneTwo
  <1>7. PICK w \in Frame : w = [v EXCEPT !.rest = @ \ {d}] /\ w.id = v.id /\ w.rest = v.rest \ {d}
    <2>1. v.rest \ {d} \in SUBSET ProgIDs
      BY <1>4
    <2> QED BY <1>3, <2>1, FrameLess
  <1>8. PICK ws \in Seq(Frame) : /\ ws = Append(Front(batch.visits), w)
                                 /\ Len(ws) = 1 /\ ws[1] = w /\ DOMAIN ws = {1} /\ ws # <<>>
    <2>1. <<>> \in Seq(Frame)
      OBVIOUS
    <2>2. /\ Append(<<>>, w) \in Seq(Frame) /\ Len(Append(<<>>, w)) = 1 /\ Append(<<>>, w)[1] = w
          /\ DOMAIN Append(<<>>, w) = {1} /\ Append(<<>>, w) # <<>>
      BY <2>1
    <2> QED BY <1>6, <2>2
  <1>9. PICK b : b = [batch EXCEPT !.visits = ws]
    OBVIOUS
  <1>10. batch' = Visit(b, d)
    BY <1>2, <1>7, <1>8, <1>9
  <1>11. /\ b \in Batch /\ b.kind = batch.kind /\ b.ids = batch.ids /\ b.expand = batch.expand
         /\ b.deps = batch.deps /\ b.unvisited = batch.unvisited /\ b.todo = batch.todo
         /\ b.stack = batch.stack /\ b.seen = batch.seen /\ b.visits = ws
         /\ b.removedPrograms = batch.removedPrograms /\ b.removedLinks = batch.removedLinks
    BY <1>4, <1>9 DEF Batch
  <1>12. PICK f : f = [id |-> d, rest |-> batch.deps[d] \cap Range(batch.ids)]
    OBVIOUS
  <1>13. /\ batch' \in Batch /\ batch'.kind = b.kind /\ batch'.ids = b.ids /\ batch'.expand = b.expand
         /\ batch'.deps = b.deps /\ batch'.unvisited = b.unvisited /\ batch'.todo = b.todo
         /\ batch'.stack = b.stack
         /\ batch'.removedPrograms = b.removedPrograms /\ batch'.removedLinks = b.removedLinks
         /\ d \in b.seen => batch'.seen = b.seen /\ batch'.visits = b.visits
         /\ d \notin b.seen => batch'.seen = b.seen \cup {d} /\ batch'.visits = Append(b.visits, f)
    BY <1>5, <1>10, <1>11, <1>12, VisitFields
  <1>14. SameCall /\ batch'.stack = <<>> /\ batch'.todo = batch.todo
    BY <1>3, <1>11, <1>13 DEF SameCall
  <1>15. OrderInv'
    BY <1>0, <1>3, <1>14, OrderWhileVisiting
  <1>16. \A p \in batch.seen : p \in Range(batch.todo) \/ p = v.id
    BY <1>0, <1>6 DEF WalkInv, Ordering
  <1>17. \A e \in Range(batch.ids) \cap progRows : owner[e] = v.id =>
            e \in v.rest \/ e \in Range(batch.todo)
    BY <1>0, <1>6 DEF WalkInv, SelectedDependants
  <1>18. v.id \in Range(batch.ids)
    BY <1>6 DEF WalkInv
  <1>19. WalkInv'
    <2>1. CASE d \in batch.seen
      <3>1. batch'.visits = ws /\ batch'.seen = batch.seen
        BY <1>11, <1>13, <2>1
      <3>2. d \in Range(batch.todo)
        BY <1>5, <1>16, <2>1
      <3>3. \A e \in Range(batch'.ids) \cap progRows' : owner'[e] = batch'.visits[1].id =>
               e \in batch'.visits[1].rest \/ e \in Range(batch'.todo)
        BY <1>0, <1>7, <1>8, <1>14, <1>17, <3>1, <3>2 DEF SameCall, SameRows
      <3>4. \A i \in DOMAIN batch'.visits : /\ batch'.visits[i].id \in Range(batch'.ids)
               /\ batch'.visits[i].rest \subseteq batch'.deps[batch'.visits[i].id] \cap Range(batch'.ids)
        BY <1>3, <1>7, <1>8, <1>14, <1>18, <3>1 DEF SameCall
      <3>5. \A p \in batch'.seen : p \in Range(batch'.todo)
               \/ \E i \in DOMAIN batch'.visits : batch'.visits[i].id = p
        BY <1>7, <1>8, <1>14, <1>16, <3>1
      <3> QED BY <1>3, <1>8, <1>14, <3>1, <3>3, <3>4, <3>5
              DEF WalkInv, Ordering, SameCall, SelectedDependants
    <2>2. CASE d \notin batch.seen
      <3>1. batch'.seen = batch.seen \cup {d} /\ batch'.visits = Append(ws, f)
        BY <1>11, <1>13, <2>2
      <3>2. f \in Frame /\ f.id = d /\ f.rest = batch.deps[d] \cap Range(batch.ids)
        <4>1. batch.deps[d] \cap Range(batch.ids) \in SUBSET ProgIDs
          BY <1>3
        <4> QED BY <1>5, <1>12, <4>1, FrameType
      <3>3. /\ Len(batch'.visits) = 2 /\ DOMAIN batch'.visits = {1, 2} /\ batch'.visits # <<>>
            /\ batch'.visits[1] = w /\ batch'.visits[2] = f
        BY <1>8, <3>1, <3>2, AppendFacts
      <3>4. \A e \in Range(batch'.ids) \cap progRows' : owner'[e] = batch'.visits[1].id =>
               e \in batch'.visits[1].rest \/ e \in Range(batch'.todo) \/ batch'.visits[2].id = e
        BY <1>0, <1>7, <1>14, <1>17, <3>2, <3>3 DEF SameCall, SameRows
      <3>5. \A i \in DOMAIN batch'.visits : /\ batch'.visits[i].id \in Range(batch'.ids)
               /\ batch'.visits[i].rest \subseteq batch'.deps[batch'.visits[i].id] \cap Range(batch'.ids)
        <4>1. d \in Range(batch.ids)
          BY <1>3, <1>4
        <4> QED BY <1>3, <1>7, <1>14, <1>18, <3>2, <3>3, <4>1 DEF SameCall
      <3>6. \A p \in batch'.seen : p \in Range(batch'.todo)
               \/ \E i \in DOMAIN batch'.visits : batch'.visits[i].id = p
        BY <1>7, <1>14, <1>16, <3>1, <3>2, <3>3
      <3>7. owner'[batch'.visits[2].id] = batch'.visits[1].id
        BY <1>0, <1>5, <1>7, <3>2, <3>3 DEF SameRows
      <3> QED BY <1>3, <1>14, <3>3, <3>4, <3>5, <3>6, <3>7
              DEF WalkInv, Ordering, SameCall, SelectedDependants
    <2> QED BY <2>1, <2>2
  <1>20. Range(batch'.todo) \subseteq Range(batch.ids)
    BY <1>14 DEF ListsInv
  <1> QED BY <1>0, <1>11, <1>13, <1>14, <1>15, <1>19, <1>20, WalkStep

LEMMA PlaceVisitedStep ==
    ASSUME DeleteInv, PlaceVisited
    PROVE  DeleteInv'
  <1> USE DEF DeleteInv
  <1>0. batch.visits # <<>> /\ SameRows /\ UNCHANGED results
    BY DEF PlaceVisited, SameRows
  <1>1. PICK v : v = Last(batch.visits)
    OBVIOUS
  <1>2. PICK id : id = v.id
    OBVIOUS
  <1>3. /\ batch.visits \in Seq(Frame) /\ Len(batch.visits) \in {1, 2}
        /\ v = batch.visits[Len(batch.visits)] /\ v \in Frame
        /\ Len(batch.visits) = 2 => owner[v.id] # NoProg
        /\ batch.kind = "programs" /\ Len(batch.ids) > 1 /\ batch.stack = <<>>
        /\ Range(batch.ids) \subseteq ProgIDs
    BY <1>0, <1>1, VisitsFacts
  <1>4. /\ v.rest = {}
        /\ batch' = [batch EXCEPT !.visits = Front(@), !.todo = Append(@, id)]
    BY <1>1, <1>2 DEF PlaceVisited
  <1>5. id \in ProgIDs /\ id \in Range(batch.ids)
    <2>1. Len(batch.visits) \in DOMAIN batch.visits
      <3>1. CASE Len(batch.visits) = 1
        BY <1>3, <3>1, OneTwo
      <3>2. CASE Len(batch.visits) = 2
        BY <1>3, <3>2, OneTwo
      <3> QED BY <1>3, <3>1, <3>2
    <2> QED BY <1>2, <1>3, <2>1 DEF WalkInv, Frame
  <1>6. Front(batch.visits) \in Seq(Frame)
    <2>1. CASE Len(batch.visits) = 1
      <3>1. <<>> \in Seq(Frame)
        OBVIOUS
      <3> QED BY <1>3, <2>1, <3>1, OneTwo
    <2>2. CASE Len(batch.visits) = 2
      BY <1>3, <2>2, OneTwo
    <2> QED BY <1>3, <2>1, <2>2
  <1>7. PICK n : n = Len(batch.todo) + 1
    OBVIOUS
  <1>8. PICK t \in Seq(ProgIDs \cup DelLinks) :
           /\ t = Append(batch.todo, id) /\ Range(t) = Range(batch.todo) \cup {id}
           /\ DOMAIN t = DOMAIN batch.todo \cup {n} /\ t[n] = id
           /\ \A i \in DOMAIN batch.todo : t[i] = batch.todo[i] /\ i < n
    <2>1. batch.todo \in Seq(ProgIDs \cup DelLinks) /\ id \in ProgIDs \cup DelLinks
      BY <1>5 DEF ListsInv, Batch
    <2>2. PICK t : t = Append(batch.todo, id)
      OBVIOUS
    <2>3. Range(t) = Range(batch.todo) \cup {id}
      BY <2>1, <2>2, RangeAppend
    <2>4. /\ t \in Seq(ProgIDs \cup DelLinks)
          /\ DOMAIN t = DOMAIN batch.todo \cup {n} /\ t[n] = id
          /\ \A i \in DOMAIN batch.todo : t[i] = batch.todo[i] /\ i < n
      BY <1>7, <2>1, <2>2, AppendFacts
    <2> QED BY <2>2, <2>3, <2>4
  <1>9. /\ batch' \in Batch /\ SameCall
        /\ batch'.unvisited = batch.unvisited /\ batch'.todo = t
        /\ batch'.stack = batch.stack /\ batch'.seen = batch.seen
        /\ batch'.visits = Front(batch.visits)
        /\ batch'.removedPrograms = batch.removedPrograms
        /\ batch'.removedLinks = batch.removedLinks
    <2>1. PICK fs \in Seq(Frame) : fs = Front(batch.visits)
      BY <1>6
    <2>2. batch' = [batch EXCEPT !.visits = fs, !.todo = t]
      BY <1>4, <1>8, <2>1
    <2>3. batch \in Batch
      BY DEF ListsInv
    <2> QED BY <2>1, <2>2, <2>3 DEF Batch, SameCall
  <1>10. \A d \in Range(batch.ids) \cap progRows : owner[d] = id => d \in Range(batch.todo)
    <2>1. CASE Len(batch.visits) = 1
      BY <1>0, <1>2, <1>3, <1>4, <2>1 DEF WalkInv, SelectedDependants
    <2>2. CASE Len(batch.visits) = 2
      <3>1. ASSUME NEW d \in Range(batch.ids) \cap progRows, owner[d] = id PROVE FALSE
        <4>1. d \in ProgIDs /\ owner[d] # NoProg
          BY <1>3, <1>5, <3>1, ProgIsNoLink
        <4>2. owner[id] = NoProg
          BY <3>1, <4>1 DEF RowsInv
        <4> QED BY <1>2, <1>3, <2>2, <4>2
      <3> QED BY <3>1
    <2> QED BY <1>3, <2>1, <2>2
  <1>11. OrderInv'
    <2>1. ASSUME NEW i \in DOMAIN t, NEW d \in Range(batch.ids) \cap progRows, owner[d] = t[i]
          PROVE  Settled(d) \/ \E j \in DOMAIN t : j < i /\ t[j] = d
      <3>1. CASE i \in DOMAIN batch.todo
        <4>1. Settled(d) \/ \E j \in DOMAIN batch.todo : j < i /\ batch.todo[j] = d
          BY <1>3, <1>8, <2>1, <3>1 DEF OrderInv, SelectedDependants
        <4> QED BY <1>8, <4>1
      <3>2. CASE i = n
        <4>1. d \in Range(batch.todo)
          BY <1>8, <1>10, <2>1, <3>2
        <4>2. batch.todo \in Seq(ProgIDs \cup DelLinks)
          BY DEF ListsInv, Batch
        <4>3. PICK j \in DOMAIN batch.todo : batch.todo[j] = d
          BY <4>1, <4>2, RangeSeq
        <4> QED BY <1>8, <3>2, <4>3
      <3> QED BY <1>8, <3>1, <3>2
    <2>2. \A d : Settled(d)' <=> Settled(d)
      BY <1>0 DEF Settled
    <2>3. \A i \in DOMAIN batch'.todo : \A d \in Range(batch'.ids) \cap progRows' :
             owner'[d] = batch'.todo[i] =>
                Settled(d)' \/ \E j \in DOMAIN batch'.todo : j < i /\ batch'.todo[j] = d
      BY <1>0, <1>9, <2>1, <2>2 DEF SameCall, SameRows
    <2> QED BY <1>3, <1>9, <2>3 DEF OrderInv, SelectedDependants
  <1>12. WalkInv'
    <2>1. CASE Len(batch.visits) = 1
      <3>1. batch'.visits = <<>>
        BY <1>3, <1>9, <2>1, OneTwo
      <3>2. \A p \in batch.seen : p \in Range(batch.todo) \/ p = id
        <4>1. DOMAIN batch.visits = {1}
          BY <1>3, <2>1, OneTwo
        <4> QED BY <1>0, <1>2, <1>3, <2>1, <4>1 DEF WalkInv, Ordering
      <3>3. \A p \in batch'.seen : p \in Range(batch'.todo)
        BY <1>8, <1>9, <3>2
      <3> QED BY <1>3, <1>9, <3>1, <3>3 DEF WalkInv, Ordering, SameCall
    <2>2. CASE Len(batch.visits) = 2
      <3>1. /\ DOMAIN batch.visits = {1, 2}
            /\ Len(batch'.visits) = 1 /\ DOMAIN batch'.visits = {1} /\ batch'.visits # <<>>
            /\ batch'.visits[1] = batch.visits[1]
        BY <1>3, <1>9, <2>2, OneTwo
      <3>2. \A p \in batch'.seen : p \in Range(batch'.todo)
               \/ \E i \in DOMAIN batch'.visits : batch'.visits[i].id = p
        <4>1. \A p \in batch.seen : p \in Range(batch.todo) \/ p = batch.visits[1].id \/ p = id
          BY <1>0, <1>2, <1>3, <2>2, <3>1 DEF WalkInv, Ordering
        <4> QED BY <1>8, <1>9, <3>1, <4>1
      <3>3. \A d \in Range(batch'.ids) \cap progRows' : owner'[d] = batch'.visits[1].id =>
               d \in batch'.visits[1].rest \/ d \in Range(batch'.todo)
        <4>1. \A d \in Range(batch.ids) \cap progRows : owner[d] = batch.visits[1].id =>
                 d \in batch.visits[1].rest \/ d \in Range(batch.todo) \/ d = id
          BY <1>0, <1>2, <1>3, <2>2 DEF WalkInv, SelectedDependants
        <4> QED BY <1>0, <1>8, <1>9, <3>1, <4>1 DEF SameCall, SameRows
      <3>4. /\ batch'.visits[1].id \in Range(batch'.ids)
            /\ batch'.visits[1].rest \subseteq batch'.deps[batch'.visits[1].id] \cap Range(batch'.ids)
        BY <1>9, <3>1 DEF WalkInv, SameCall
      <3> QED BY <1>3, <1>9, <3>1, <3>2, <3>3, <3>4
              DEF WalkInv, Ordering, SameCall, SelectedDependants
    <2> QED BY <1>3, <2>1, <2>2
  <1>13. Range(batch'.todo) \subseteq Range(batch.ids)
    BY <1>5, <1>8, <1>9 DEF ListsInv
  <1> QED BY <1>0, <1>3, <1>9, <1>11, <1>12, <1>13, WalkStep

-----------------------------------------------------------------------------
(***************************************************************************)
(* The items                                                               *)
(***************************************************************************)
LEMMA ItemStep ==
    ASSUME DeleteInv, RowsInv', owner' = owner, progRows' \subseteq progRows, ResultsInv',
           SameCall, batch' \in Batch,
           batch'.unvisited = <<>>, batch'.visits = <<>>,
           Range(batch'.todo) \subseteq Range(batch.ids),
           OrderInv', StackInv', GoneInv', DependantsFirst'
    PROVE  DeleteInv'
  <1>1. ListsInv'
    <2>1. Range(batch'.unvisited) \subseteq Range(batch.unvisited)
      BY RangeEmpty
    <2> QED BY <2>1, ListsKept DEF DeleteInv
  <1>2. DepsInv' /\ WalkInv'
    BY DepsKept, WalkIdleNext DEF DeleteInv
  <1> QED BY <1>1, <1>2 DEF DeleteInv

LEMMA TodoFacts ==
    ASSUME DeleteInv, Between, batch.todo # <<>>
    PROVE  /\ batch \in Batch /\ NotOrdering /\ batch.stack = <<>>
           /\ Head(batch.todo) \in Range(batch.ids) /\ Head(batch.todo) \in ProgIDs \cup DelLinks
           /\ Tail(batch.todo) \in Seq(ProgIDs \cup DelLinks)
           /\ Range(Tail(batch.todo)) \subseteq Range(batch.ids)
           /\ batch.kind = "programs" => Head(batch.todo) \in ProgIDs
           /\ batch.kind = "links" => Head(batch.todo) \in DelLinks
  <1>1. batch \in Batch /\ Range(batch.todo) \subseteq Range(batch.ids)
    BY DEF DeleteInv, ListsInv
  <1>2. batch.todo \in Seq(ProgIDs \cup DelLinks)
    BY <1>1 DEF Batch
  <1>3. Head(batch.todo) \in Range(batch.todo) /\ Range(Tail(batch.todo)) \subseteq Range(batch.todo)
    BY <1>2, RangeTail
  <1>4. Head(batch.todo) \in ProgIDs \cup DelLinks /\ Tail(batch.todo) \in Seq(ProgIDs \cup DelLinks)
    BY <1>2, HeadTail
  <1>5. NotOrdering /\ batch.stack = <<>>
    BY DEF Between, Ordering, NotOrdering
  <1> QED BY <1>1, <1>3, <1>4, <1>5 DEF DeleteInv, ListsInv

LEMMA EndItemFacts ==
    ASSUME ResultsInv, NEW c \in Batch, NEW id \in ProgIDs \cup DelLinks, NEW ok \in BOOLEAN,
           EndItem(c, id, ok)
    PROVE  /\ ResultsInv' /\ Added(id, ok)
           /\ batch' \in Batch /\ batch'.kind = c.kind /\ batch'.ids = c.ids /\ batch'.expand = c.expand
           /\ batch'.deps = c.deps /\ batch'.unvisited = c.unvisited /\ batch'.visits = c.visits
           /\ batch'.todo = c.todo /\ batch'.stack = <<>>
           /\ batch'.removedPrograms = c.removedPrograms /\ batch'.removedLinks = c.removedLinks
  <1>0. <<>> \in Seq(ProgIDs)
    OBVIOUS
  <1>1. PICK e \in Seq(ProgIDs) : e = <<>>
    BY <1>0
  <1>2. ResultsInv' /\ Added(id, ok)
    BY ResultAdded DEF EndItem
  <1> DEFINE f == [c EXCEPT !.stack = e]
  <1>f. /\ f \in Batch /\ f.kind = c.kind /\ f.ids = c.ids /\ f.expand = c.expand
        /\ f.deps = c.deps /\ f.unvisited = c.unvisited /\ f.visits = c.visits
        /\ f.todo = c.todo /\ f.stack = <<>>
        /\ f.removedPrograms = c.removedPrograms /\ f.removedLinks = c.removedLinks
    BY <1>1 DEF Batch
  <1>g. batch' = [f EXCEPT !.item = NoProg]
    BY <1>1 DEF EndItem
  <1> HIDE DEF f
  <1>3. /\ batch' \in Batch /\ batch'.kind = c.kind /\ batch'.ids = c.ids /\ batch'.expand = c.expand
        /\ batch'.deps = c.deps /\ batch'.unvisited = c.unvisited /\ batch'.visits = c.visits
        /\ batch'.todo = c.todo /\ batch'.stack = <<>>
        /\ batch'.removedPrograms = c.removedPrograms /\ batch'.removedLinks = c.removedLinks
    BY <1>f, <1>g DEF Batch
  <1> QED BY <1>2, <1>3

LEMMA NextProgramStep ==
    ASSUME DeleteInv, NextProgram
    PROVE  DeleteInv'
  <1> USE DEF DeleteInv
  <1>1. PICK id : id = Head(batch.todo)
    OBVIOUS
  <1>2. PICK t : t = Tail(batch.todo)
    OBVIOUS
  <1>3. /\ batch \in Batch /\ NotOrdering /\ batch.stack = <<>> /\ batch.kind = "programs"
        /\ batch.todo # <<>> /\ id \in Range(batch.ids) /\ id \in ProgIDs
        /\ t \in Seq(ProgIDs \cup DelLinks) /\ Range(t) \subseteq Range(batch.ids)
        /\ SameRows
    BY <1>1, <1>2, TodoFacts DEF NextProgram, SameRows
  <1>4. PICK b : b = [batch EXCEPT !.todo = t]
    OBVIOUS
  <1>5. /\ b \in Batch /\ b.kind = batch.kind /\ b.ids = batch.ids /\ b.expand = batch.expand
        /\ b.deps = batch.deps /\ b.unvisited = <<>> /\ b.visits = <<>> /\ b.todo = t
        /\ b.removedPrograms = batch.removedPrograms /\ b.removedLinks = batch.removedLinks
    BY <1>3, <1>4 DEF Batch, NotOrdering
  <1>6. \/ id \in batch.removedPrograms /\ EndItem(b, id, TRUE)
        \/ batch' = [b EXCEPT !.item = id, !.stack = <<id>>] /\ UNCHANGED results
    BY <1>1, <1>2, <1>4 DEF NextProgram
  <1>7. RowsInv' /\ owner' = owner /\ progRows' \subseteq progRows
    BY <1>3, RowsKept DEF SameRows
  <1>8. CASE id \in batch.removedPrograms /\ EndItem(b, id, TRUE)
    <2>2. ResultsInv' /\ Added(id, TRUE)
      BY <1>3, <1>5, <1>8, EndItemFacts
    <2>3. /\ batch' \in Batch /\ batch'.kind = b.kind /\ batch'.ids = b.ids /\ batch'.expand = b.expand
          /\ batch'.deps = b.deps /\ batch'.unvisited = b.unvisited /\ batch'.visits = b.visits
          /\ batch'.todo = b.todo /\ batch'.stack = <<>>
          /\ batch'.removedPrograms = b.removedPrograms /\ batch'.removedLinks = b.removedLinks
      BY <1>3, <1>5, <1>8, EndItemFacts
    <2>4. SameCall
      BY <1>5, <2>3 DEF SameCall
    <2>5. OrderInv'
      BY <1>1, <1>2, <1>3, <1>5, <2>2, <2>3, <2>4, OrderPop DEF SameRows
    <2>6. StackInv'
      BY <2>3, StackIdle
    <2>7. GoneItem(id)
      BY <1>3, <1>8 DEF GoneInv, GoneItem
    <2>8. GoneInv'
      BY <1>3, <1>5, <2>2, <2>3, <2>4, <2>7, GoneAdded
    <2>9. DependantsFirst'
      BY <1>5, <1>7, <2>2, <2>3, <2>4, FirstKept
    <2> QED BY <1>3, <1>5, <1>7, <2>2, <2>3, <2>4, <2>5, <2>6, <2>8, <2>9, ItemStep
  <1>9. CASE batch' = [b EXCEPT !.item = id, !.stack = <<id>>] /\ UNCHANGED results
    <2>1. PICK st \in Seq(ProgIDs) : st = <<id>> /\ st # <<>> /\ Len(st) = 1 /\ st[1] = id
      BY <1>3, OneLong
    <2>2. batch' = [b EXCEPT !.item = id, !.stack = st]
      BY <1>9, <2>1
    <2>3. /\ batch' \in Batch /\ batch'.kind = b.kind /\ batch'.ids = b.ids /\ batch'.expand = b.expand
          /\ batch'.deps = b.deps /\ batch'.unvisited = b.unvisited /\ batch'.visits = b.visits
          /\ batch'.todo = b.todo /\ batch'.stack = st /\ batch'.item = id
          /\ batch'.removedPrograms = b.removedPrograms /\ batch'.removedLinks = b.removedLinks
      BY <1>3, <1>5, <2>2 DEF Batch
    <2>4. SameCall
      BY <1>5, <2>3 DEF SameCall
    <2>5. OrderInv'
      BY <1>1, <1>2, <1>3, <1>5, <1>9, <2>1, <2>3, <2>4, OrderPop DEF SameRows
    <2>6. StackInv'
      BY <1>3, <2>1, <2>3, <2>4 DEF StackInv, SameCall
    <2>7. GoneInv'
      BY <1>3, <1>5, <1>9, <2>3, <2>4, GoneSame
    <2>8. DependantsFirst'
      BY <1>5, <1>7, <1>9, <2>3, <2>4, FirstKept
    <2>9. ResultsInv'
      BY <1>9 DEF ResultsInv
    <2> QED BY <1>3, <1>5, <1>7, <2>3, <2>4, <2>5, <2>6, <2>7, <2>8, <2>9, ItemStep
  <1> QED BY <1>6, <1>8, <1>9

LEMMA NextLinkStep ==
    ASSUME DeleteInv, NextLink
    PROVE  DeleteInv'
  <1> USE DEF DeleteInv
  <1>1. PICK id : id = Head(batch.todo)
    OBVIOUS
  <1>2. PICK t : t = Tail(batch.todo)
    OBVIOUS
  <1>3. /\ batch \in Batch /\ NotOrdering /\ batch.stack = <<>> /\ batch.kind = "links"
        /\ batch.todo # <<>> /\ id \in Range(batch.ids) /\ id \in DelLinks
        /\ t \in Seq(ProgIDs \cup DelLinks) /\ Range(t) \subseteq Range(batch.ids)
        /\ UNCHANGED <<progRows, owner>>
    BY <1>1, <1>2, TodoFacts DEF NextLink
  <1>4. PICK b : b = [batch EXCEPT !.todo = t]
    OBVIOUS
  <1>5. /\ b \in Batch /\ b.kind = batch.kind /\ b.ids = batch.ids /\ b.expand = batch.expand
        /\ b.deps = batch.deps /\ b.unvisited = <<>> /\ b.visits = <<>> /\ b.todo = t
        /\ b.removedPrograms = batch.removedPrograms /\ b.removedLinks = batch.removedLinks
    BY <1>3, <1>4 DEF Batch, NotOrdering
  <1>6. PICK d : d = [b EXCEPT !.removedLinks = b.removedLinks \cup {id}]
    OBVIOUS
  <1>7. /\ d \in Batch /\ d.kind = batch.kind /\ d.ids = batch.ids /\ d.expand = batch.expand
        /\ d.deps = batch.deps /\ d.unvisited = <<>> /\ d.visits = <<>> /\ d.todo = t
        /\ d.removedPrograms = batch.removedPrograms
        /\ d.removedLinks = batch.removedLinks \cup {id}
    <2>1. PICK R \in SUBSET DelLinks : R = b.removedLinks \cup {id}
      BY <1>3, <1>5 DEF Batch
    <2>2. d = [b EXCEPT !.removedLinks = R]
      BY <1>6, <2>1
    <2> QED BY <1>5, <2>1, <2>2 DEF Batch
  <1>8. PICK p : p = linkProg[id]
    OBVIOUS
  <1>9. \/ /\ UNCHANGED linkProg
           /\ \E ok \in BOOLEAN : EndItem(b, id, ok) /\ (ok => id \in batch.removedLinks)
        \/ /\ p # NoProg /\ linkProg' = [linkProg EXCEPT ![id] = NoProg]
           /\ \/ \E ok \in BOOLEAN : EndItem(d, id, ok)
              \/ /\ Orphaned(p, id)
                 /\ batch' = [d EXCEPT !.item = id, !.stack = <<p>>] /\ UNCHANGED results
    BY <1>1, <1>2, <1>4, <1>6, <1>8 DEF NextLink
  <1>11. CASE /\ UNCHANGED linkProg
              /\ \E ok \in BOOLEAN : EndItem(b, id, ok) /\ (ok => id \in batch.removedLinks)
    <2>1. PICK ok \in BOOLEAN : EndItem(b, id, ok) /\ (ok => id \in batch.removedLinks)
      BY <1>11
    <2>2. /\ ResultsInv' /\ Added(id, ok)
          /\ batch' \in Batch /\ batch'.kind = b.kind /\ batch'.ids = b.ids /\ batch'.expand = b.expand
          /\ batch'.deps = b.deps /\ batch'.unvisited = b.unvisited /\ batch'.visits = b.visits
          /\ batch'.todo = b.todo /\ batch'.stack = <<>>
          /\ batch'.removedPrograms = b.removedPrograms /\ batch'.removedLinks = b.removedLinks
      BY <1>3, <1>5, <2>1, EndItemFacts
    <2>3. SameCall /\ SameRows
      BY <1>3, <1>5, <1>11, <2>2 DEF SameCall, SameRows
    <2>4. RowsInv' /\ owner' = owner /\ progRows' \subseteq progRows
      BY <2>3, RowsKept DEF SameRows
    <2>5. OrderInv' /\ StackInv'
      BY <1>3, <1>5, <2>2, OrderOfLinks, StackIdle
    <2>6. ok => GoneItem(id)
      BY <1>3, <2>1 DEF GoneInv, GoneItem
    <2>7. GoneInv'
      BY <1>5, <2>2, <2>3, <2>6, GoneAdded
    <2>8. DependantsFirst'
      BY <1>5, <2>2, <2>3, <2>4, FirstKept
    <2> QED BY <1>3, <1>5, <2>2, <2>3, <2>4, <2>5, <2>7, <2>8, ItemStep
  <1>12. CASE /\ p # NoProg /\ linkProg' = [linkProg EXCEPT ![id] = NoProg]
              /\ \E ok \in BOOLEAN : EndItem(d, id, ok)
    <2>1. PICK ok \in BOOLEAN : EndItem(d, id, ok)
      BY <1>12
    <2>2. /\ ResultsInv' /\ Added(id, ok)
          /\ batch' \in Batch /\ batch'.kind = d.kind /\ batch'.ids = d.ids /\ batch'.expand = d.expand
          /\ batch'.deps = d.deps /\ batch'.unvisited = d.unvisited /\ batch'.visits = d.visits
          /\ batch'.todo = d.todo /\ batch'.stack = <<>>
          /\ batch'.removedPrograms = d.removedPrograms /\ batch'.removedLinks = d.removedLinks
      BY <1>3, <1>7, <2>1, EndItemFacts
    <2>3. SameCall
      BY <1>7, <2>2 DEF SameCall
    <2>4. RowsInv' /\ owner' = owner /\ progRows' \subseteq progRows
      BY <1>3, <1>12, RowsDetach
    <2>5. OrderInv' /\ StackInv'
      BY <1>3, <1>7, <2>2, OrderOfLinks, StackIdle
    <2>6. batch.removedLinks \subseteq DelLinks
      BY <1>3 DEF Batch
    <2>7. GoneInv'
      BY <1>3, <1>7, <1>12, <2>2, <2>3, <2>6, GoneDetach
    <2>8. DependantsFirst'
      BY <1>7, <2>2, <2>3, <2>4, FirstKept
    <2> QED BY <1>3, <1>7, <2>2, <2>3, <2>4, <2>5, <2>7, <2>8, ItemStep
  <1>13. CASE /\ p # NoProg /\ linkProg' = [linkProg EXCEPT ![id] = NoProg]
              /\ Orphaned(p, id)
              /\ batch' = [d EXCEPT !.item = id, !.stack = <<p>>] /\ UNCHANGED results
    <2>1. p \in ProgIDs
      BY <1>3, <1>8, <1>13 DEF RowsInv
    <2>2. PICK st \in Seq(ProgIDs) : st = <<p>> /\ st # <<>> /\ Len(st) = 1 /\ st[1] = p
      BY <2>1, OneLong
    <2>3. batch' = [d EXCEPT !.item = id, !.stack = st]
      BY <1>13, <2>2
    <2>4. /\ batch' \in Batch /\ batch'.kind = d.kind /\ batch'.ids = d.ids /\ batch'.expand = d.expand
          /\ batch'.deps = d.deps /\ batch'.unvisited = d.unvisited /\ batch'.visits = d.visits
          /\ batch'.todo = d.todo /\ batch'.stack = st /\ batch'.item = id
          /\ batch'.removedPrograms = d.removedPrograms /\ batch'.removedLinks = d.removedLinks
      BY <1>3, <1>7, <2>3 DEF Batch
    <2>5. SameCall
      BY <1>7, <2>4 DEF SameCall
    <2>6. /\ RowsInv' /\ owner' = owner /\ progRows' \subseteq progRows
          /\ \A k \in DelLinks : linkProg'[k] = IF k = id THEN NoProg ELSE linkProg[k]
      BY <1>3, <1>13, RowsDetach
    <2>7. OrderInv'
      BY <1>3, <1>7, <2>4, OrderOfLinks
    <2>8. DelLinksOf(p)' = {}
      BY <1>13, <2>6 DEF DelLinksOf, Orphaned
    <2>9. StackInv'
      BY <1>3, <1>7, <2>2, <2>4, <2>8 DEF StackInv, DelLinksOf
    <2>10. batch.removedLinks \subseteq DelLinks
      BY <1>3 DEF Batch
    <2>11. GoneInv'
      BY <1>3, <1>7, <1>13, <2>4, <2>5, <2>10, GoneDetach
    <2>12. DependantsFirst'
      BY <1>7, <1>13, <2>4, <2>5, <2>6, FirstKept
    <2>13. ResultsInv'
      BY <1>13 DEF ResultsInv
    <2> QED BY <1>3, <1>7, <2>4, <2>5, <2>6, <2>7, <2>9, <2>11, <2>12, <2>13, ItemStep
  <1> QED BY <1>9, <1>11, <1>12, <1>13

-----------------------------------------------------------------------------
(***************************************************************************)
(* Inside an item                                                          *)
(***************************************************************************)
LEMMA StackFacts ==
    ASSUME DeleteInv, Deleting
    PROVE  /\ batch \in Batch /\ NotOrdering /\ batch.kind \in {"programs", "links"}
           /\ batch.stack \in Seq(ProgIDs) /\ batch.stack # <<>> /\ Len(batch.stack) \in {1, 2}
           /\ Last(batch.stack) = batch.stack[Len(batch.stack)] /\ Last(batch.stack) \in ProgIDs
           /\ batch.stack[1] \in ProgIDs
           /\ Len(batch.stack) = 2 => batch.expand /\ owner[Last(batch.stack)] = batch.stack[1]
           /\ batch.item \in ProgIDs \cup DelLinks
           /\ Range(batch.todo) \subseteq Range(batch.ids)
           /\ batch.kind = "programs" => batch.stack[1] = batch.item /\ batch.item \in Range(batch.ids)
           /\ batch.kind = "links" => batch.item \in batch.removedLinks /\ DelLinksOf(batch.stack[1]) = {}
           /\ batch.removedLinks \subseteq DelLinks
  <1>1. batch \in Batch /\ Range(batch.todo) \subseteq Range(batch.ids)
    BY DEF DeleteInv, ListsInv
  <1>2. /\ batch.stack \in Seq(ProgIDs) /\ batch.kind \in {"none", "programs", "links"}
        /\ batch.removedLinks \subseteq DelLinks
    BY <1>1 DEF Batch
  <1>3. NotOrdering
    BY DeletingIsNotOrdering DEF DeleteInv
  <1>4. /\ batch.stack # <<>> /\ Len(batch.stack) \in {1, 2} /\ batch.kind # "none"
        /\ Len(batch.stack) = 2 => batch.expand /\ owner[batch.stack[2]] = batch.stack[1]
        /\ batch.kind = "programs" => batch.stack[1] = batch.item /\ batch.item \in Range(batch.ids)
        /\ batch.kind = "links" => batch.item \in batch.removedLinks /\ DelLinksOf(batch.stack[1]) = {}
    BY DEF DeleteInv, StackInv, Deleting
  <1>5. /\ Last(batch.stack) = batch.stack[Len(batch.stack)] /\ Last(batch.stack) \in ProgIDs
        /\ batch.stack[1] \in ProgIDs
    BY <1>2, <1>4, OneTwo
  <1>6. batch.item \in ProgIDs \cup DelLinks
    BY <1>2, <1>4, <1>5
  <1> QED BY <1>1, <1>2, <1>3, <1>4, <1>5, <1>6

LEMMA DeleteDependentStep ==
    ASSUME DeleteInv, DeleteDependent
    PROVE  DeleteInv'
  <1> USE DEF DeleteInv
  <1>1. PICK p : p = Last(batch.stack)
    OBVIOUS
  <1>2. PICK d \in Least(Pending(p)) : batch' = [batch EXCEPT !.stack = Append(@, d)]
    BY <1>1 DEF DeleteDependent
  <1>3. Deleting /\ Descends(p) /\ SameRows /\ UNCHANGED results
    BY <1>1 DEF DeleteDependent, SameRows
  <1>4. /\ batch \in Batch /\ NotOrdering /\ batch.kind \in {"programs", "links"}
        /\ batch.stack \in Seq(ProgIDs) /\ batch.stack # <<>> /\ Len(batch.stack) \in {1, 2}
        /\ p = batch.stack[Len(batch.stack)] /\ p \in ProgIDs
        /\ Len(batch.stack) = 2 => owner[p] = batch.stack[1]
        /\ batch.stack[1] \in ProgIDs /\ Range(batch.todo) \subseteq Range(batch.ids)
        /\ batch.kind = "programs" => batch.stack[1] = batch.item /\ batch.item \in Range(batch.ids)
        /\ batch.kind = "links" => batch.item \in batch.removedLinks /\ DelLinksOf(batch.stack[1]) = {}
    BY <1>1, <1>3, StackFacts
  <1>5. d \in batch.deps[p] /\ batch.expand
    BY <1>2, <1>3 DEF Least, Pending, Descends
  <1>6. d \in ProgIDs
    BY <1>4, <1>5 DEF Batch
  <1>7. owner[d] = p /\ owner[p] = NoProg
    BY <1>4, <1>5, <1>6, ProgIsNoLink DEF DepsInv, RowsInv
  <1>8. Len(batch.stack) = 1 /\ p = batch.stack[1]
    BY <1>4, <1>7, ProgIsNoLink
  <1>9. PICK st \in Seq(ProgIDs) : /\ st = Append(batch.stack, d) /\ st # <<>> /\ Len(st) = 2
                                   /\ st[1] = p /\ st[2] = d
    <2>1. PICK st : st = Append(batch.stack, d)
      OBVIOUS
    <2>2. 1 \in DOMAIN batch.stack
      BY <1>4
    <2>3. st \in Seq(ProgIDs) /\ st # <<>> /\ Len(st) = 2 /\ st[1] = p /\ st[2] = d
      BY <1>4, <1>6, <1>8, <2>1, <2>2, AppendFacts
    <2> QED BY <2>1, <2>3
  <1>10. /\ batch' \in Batch /\ SameCall
         /\ batch'.unvisited = batch.unvisited /\ batch'.visits = batch.visits
         /\ batch'.todo = batch.todo /\ batch'.stack = st /\ batch'.item = batch.item
         /\ batch'.removedPrograms = batch.removedPrograms /\ batch'.removedLinks = batch.removedLinks
    <2>1. batch' = [batch EXCEPT !.stack = st]
      BY <1>2, <1>9
    <2> QED BY <1>4, <2>1 DEF Batch, SameCall
  <1>11. RowsInv' /\ owner' = owner /\ progRows' \subseteq progRows
    BY <1>3, RowsKept DEF SameRows
  <1>12. OrderInv'
    BY <1>3, <1>4, <1>9, <1>10, <1>11, OrderSame
  <1>13. StackInv'
    <2>1. \A x : DelLinksOf(x)' = DelLinksOf(x)
      BY <1>3 DEF DelLinksOf, SameRows
    <2>2. /\ Len(batch'.stack) = 2 /\ batch'.kind # "none" /\ batch'.expand
          /\ owner'[batch'.stack[2]] = batch'.stack[1]
          /\ batch'.kind = "programs" => batch'.stack[1] = batch'.item /\ batch'.item \in Range(batch'.ids)
      BY <1>4, <1>5, <1>7, <1>8, <1>9, <1>10, <1>11 DEF SameCall
    <2>3. batch'.kind = "links" => batch'.item \in batch'.removedLinks /\ {l \in DelLinks : linkProg'[l] = batch'.stack[1]} = {}
      BY <1>3, <1>4, <1>8, <1>9, <1>10 DEF SameCall, DelLinksOf, SameRows
    <2> QED BY <2>2, <2>3 DEF StackInv, DelLinksOf
  <1>14. GoneInv'
    BY <1>3, <1>10, GoneSame
  <1>15. DependantsFirst'
    BY <1>3, <1>10, <1>11, FirstKept
  <1>16. ResultsInv'
    BY <1>3 DEF ResultsInv
  <1>17. batch'.unvisited = <<>> /\ batch'.visits = <<>>
    BY <1>4, <1>10 DEF NotOrdering
  <1> QED BY <1>4, <1>10, <1>11, <1>12, <1>13, <1>14, <1>15, <1>16, <1>17, ItemStep

LEMMA DetachLinkOfStep ==
    ASSUME DeleteInv, NEW l \in DelLinks, DetachLinkOf(l)
    PROVE  DeleteInv'
  <1> USE DEF DeleteInv
  <1>1. PICK p : p = Last(batch.stack)
    OBVIOUS
  <1>2. /\ Deleting /\ linkProg[l] = p /\ linkProg' = [linkProg EXCEPT ![l] = NoProg]
        /\ batch' = [batch EXCEPT !.removedLinks = @ \cup {l}]
        /\ UNCHANGED <<progRows, owner>> /\ UNCHANGED results
    BY <1>1 DEF DetachLinkOf
  <1>3. /\ batch \in Batch /\ NotOrdering /\ batch.kind \in {"programs", "links"}
        /\ batch.stack \in Seq(ProgIDs) /\ batch.stack # <<>> /\ Len(batch.stack) \in {1, 2}
        /\ p = batch.stack[Len(batch.stack)]
        /\ Len(batch.stack) = 2 => batch.expand /\ owner[p] = batch.stack[1]
        /\ batch.stack[1] \in ProgIDs /\ Range(batch.todo) \subseteq Range(batch.ids)
        /\ batch.kind = "programs" => batch.stack[1] = batch.item /\ batch.item \in Range(batch.ids)
        /\ batch.kind = "links" => batch.item \in batch.removedLinks /\ DelLinksOf(batch.stack[1]) = {}
        /\ batch.removedLinks \subseteq DelLinks
    BY <1>1, <1>2, StackFacts
  <1>4. /\ batch' \in Batch /\ SameCall
        /\ batch'.unvisited = batch.unvisited /\ batch'.visits = batch.visits
        /\ batch'.todo = batch.todo /\ batch'.stack = batch.stack /\ batch'.item = batch.item
        /\ batch'.removedPrograms = batch.removedPrograms
        /\ batch'.removedLinks = batch.removedLinks \cup {l}
    <2>1. PICK R \in SUBSET DelLinks : R = batch.removedLinks \cup {l}
      BY <1>3
    <2>2. batch' = [batch EXCEPT !.removedLinks = R]
      BY <1>2, <2>1
    <2> QED BY <1>3, <2>1, <2>2 DEF Batch, SameCall
  <1>5. /\ RowsInv' /\ owner' = owner /\ progRows' \subseteq progRows
        /\ \A k \in DelLinks : linkProg'[k] = IF k = l THEN NoProg ELSE linkProg[k]
    BY <1>2, RowsDetach
  <1>6. OrderInv'
    BY <1>2, <1>3, <1>4, <1>5, OrderSame
  <1>7. StackInv'
    <2>1. batch.kind = "links" => \A k \in DelLinks : linkProg'[k] # batch.stack[1]
      BY <1>3, <1>5, ProgIsNoLink DEF DelLinksOf
    <2> QED BY <1>3, <1>4, <1>5, <2>1 DEF StackInv, DelLinksOf, SameCall
  <1>8. batch.kind = "links" /\ ~batch.expand => l \in Range(batch.ids)
    BY <1>2, <1>3 DEF DelLinksOf
  <1>9. GoneInv'
    BY <1>2, <1>3, <1>4, <1>8, GoneDetach
  <1>10. DependantsFirst'
    BY <1>2, <1>4, <1>5, FirstKept
  <1>11. ResultsInv'
    BY <1>2 DEF ResultsInv
  <1>12. batch'.unvisited = <<>> /\ batch'.visits = <<>>
    BY <1>3, <1>4 DEF NotOrdering
  <1> QED BY <1>3, <1>4, <1>5, <1>6, <1>7, <1>9, <1>10, <1>11, <1>12, ItemStep

LEMMA DeleteFailsStep ==
    ASSUME DeleteInv, DeleteFails
    PROVE  DeleteInv'
  <1> USE DEF DeleteInv
  <1>1. Deleting /\ EndItem(batch, batch.item, FALSE) /\ SameRows
    BY DEF DeleteFails, SameRows
  <1>2. /\ batch \in Batch /\ NotOrdering /\ batch.item \in ProgIDs \cup DelLinks
        /\ Range(batch.todo) \subseteq Range(batch.ids)
    BY <1>1, StackFacts
  <1>3. /\ ResultsInv' /\ Added(batch.item, FALSE)
        /\ batch' \in Batch /\ batch'.kind = batch.kind /\ batch'.ids = batch.ids /\ batch'.expand = batch.expand
        /\ batch'.deps = batch.deps /\ batch'.unvisited = batch.unvisited /\ batch'.visits = batch.visits
        /\ batch'.todo = batch.todo /\ batch'.stack = <<>>
        /\ batch'.removedPrograms = batch.removedPrograms /\ batch'.removedLinks = batch.removedLinks
    BY <1>1, <1>2, EndItemFacts
  <1>4. SameCall
    BY <1>3 DEF SameCall
  <1>5. RowsInv' /\ owner' = owner /\ progRows' \subseteq progRows
    BY <1>1, RowsKept DEF SameRows
  <1>6. OrderInv' /\ StackInv'
    BY <1>3, <1>4, <1>5, OrderItemEnds, StackIdle
  <1>7. GoneInv'
    BY <1>1, <1>3, <1>4, GoneAdded
  <1>8. DependantsFirst'
    BY <1>3, <1>4, <1>5, FirstKept
  <1>9. batch'.unvisited = <<>> /\ batch'.visits = <<>>
    BY <1>2, <1>3 DEF NotOrdering
  <1> QED BY <1>2, <1>3, <1>4, <1>5, <1>6, <1>7, <1>8, <1>9, ItemStep

\* The program that goes leaves no dependant that should have gone before.
LEMMA FirstUnloaded ==
    ASSUME DeleteInv, Deleting, SameCall, owner' = owner, NEW p, p = Last(batch.stack), ~Descends(p),
           progRows' = progRows \ {p}, batch'.removedPrograms = batch.removedPrograms \cup {p},
           UNCHANGED results \/ \E id, ok : Added(id, ok)
    PROVE  DependantsFirst'
  <1> USE DEF DeleteInv
  <1>1. /\ batch.kind \in {"programs", "links"} /\ Len(batch.stack) \in {1, 2}
        /\ p = batch.stack[Len(batch.stack)] /\ p \in ProgIDs
        /\ Len(batch.stack) = 2 => batch.expand
        /\ batch.kind = "programs" => batch.stack[1] = batch.item
        /\ batch.stack # <<>>
    BY StackFacts
  <1>2. ASSUME NEW d, \E i \in DOMAIN results : results[i].id = d /\ ~results[i].ok
        PROVE  \E i \in DOMAIN results' : results'[i].id = d /\ ~results'[i].ok
    <2>1. CASE UNCHANGED results
      BY <1>2, <2>1
    <2>2. CASE \E id, ok : Added(id, ok)
      BY <1>2, <2>2 DEF Added
    <2> QED BY <2>1, <2>2
  <1>3. ASSUME NEW d \in progRows, owner[d] = p
        PROVE  /\ ~batch.expand
               /\ batch.kind = "programs" /\ d \in Range(batch.ids) =>
                     \E i \in DOMAIN results : results[i].id = d /\ ~results[i].ok
    <2>1. ~batch.expand
      <3>1. SUFFICES ASSUME batch.expand PROVE FALSE
        OBVIOUS
      <3>2. batch.deps[p] \subseteq batch.removedPrograms
        BY <3>1 DEF Descends, Pending
      <3>3. d \in batch.deps[p]
        BY <1>1, <1>3, <3>1, ProgIsNoLink DEF DepsInv
      <3> QED BY <1>3, <3>2, <3>3 DEF GoneInv
    <2>2. ASSUME batch.kind = "programs", d \in Range(batch.ids)
          PROVE  \E i \in DOMAIN results : results[i].id = d /\ ~results[i].ok
      <3>1. p = batch.item
        BY <1>1, <2>1, <2>2
      <3>2. Settled(d)
        BY <1>1, <1>3, <2>2, <3>1 DEF OrderInv, SelectedDependants
      <3>3. PICK i \in DOMAIN results : results[i].id = d
        BY <3>2 DEF Settled
      <3>4. ~results[i].ok
        BY <1>3, <2>2, <3>3 DEF GoneInv, GoneItem
      <3> QED BY <3>3, <3>4
    <2> QED BY <2>1, <2>2
  <1>4. ASSUME NEW o \in batch'.removedPrograms, NEW d \in progRows', owner'[d] = o
        PROVE  /\ ~batch'.expand
               /\ batch'.kind = "programs" /\ d \in Range(batch'.ids) =>
                     \E i \in DOMAIN results' : results'[i].id = d /\ ~results'[i].ok
    <2>1. d \in progRows /\ owner[d] = o
      BY <1>4
    <2>2. /\ ~batch.expand
          /\ batch.kind = "programs" /\ d \in Range(batch.ids) =>
                \E i \in DOMAIN results : results[i].id = d /\ ~results[i].ok
      <3>1. CASE o = p
        BY <1>3, <2>1, <3>1
      <3>2. CASE o \in batch.removedPrograms
        BY <2>1, <3>2 DEF DependantsFirst
      <3> QED BY <1>4, <3>1, <3>2
    <2> QED BY <1>2, <2>2 DEF SameCall
  <1> QED BY <1>4 DEF DependantsFirst

LEMMA UnloadDeletedStep ==
    ASSUME DeleteInv, UnloadDeleted
    PROVE  DeleteInv'
  <1> USE DEF DeleteInv
  <1>1. PICK p : p = Last(batch.stack)
    OBVIOUS
  <1>2. /\ Deleting /\ ~Descends(p) /\ DelLinksOf(p) = {} /\ progRows' = progRows \ {p}
        /\ UNCHANGED <<owner, linkProg>>
    BY <1>1 DEF UnloadDeleted
  <1>3. IF Len(batch.stack) = 1 THEN EndItem(Unloaded(p), batch.item, TRUE)
                                ELSE batch' = Unloaded(p) /\ UNCHANGED results
    BY <1>1 DEF UnloadDeleted
  <1>4. /\ batch \in Batch /\ NotOrdering /\ batch.kind \in {"programs", "links"}
        /\ batch.stack \in Seq(ProgIDs) /\ batch.stack # <<>> /\ Len(batch.stack) \in {1, 2}
        /\ p = batch.stack[Len(batch.stack)] /\ p \in ProgIDs
        /\ batch.stack[1] \in ProgIDs
        /\ Len(batch.stack) = 2 => batch.expand /\ owner[p] = batch.stack[1]
        /\ batch.item \in ProgIDs \cup DelLinks
        /\ Range(batch.todo) \subseteq Range(batch.ids)
        /\ batch.kind = "programs" => batch.stack[1] = batch.item /\ batch.item \in Range(batch.ids)
        /\ batch.kind = "links" => batch.item \in batch.removedLinks /\ DelLinksOf(batch.stack[1]) = {}
        /\ batch.removedLinks \subseteq DelLinks
    BY <1>1, <1>2, StackFacts
  <1>5. Front(batch.stack) \in Seq(ProgIDs)
    <2>1. CASE Len(batch.stack) = 1
      <3>1. <<>> \in Seq(ProgIDs)
        OBVIOUS
      <3> QED BY <1>4, <2>1, <3>1, OneTwo
    <2>2. CASE Len(batch.stack) = 2
      BY <1>4, <2>2, OneTwo
    <2> QED BY <1>4, <2>1, <2>2
  <1>6. PICK u : u = Unloaded(p)
    OBVIOUS
  <1>7. /\ u \in Batch /\ u.kind = batch.kind /\ u.ids = batch.ids /\ u.expand = batch.expand
        /\ u.deps = batch.deps /\ u.unvisited = <<>> /\ u.visits = <<>>
        /\ u.todo = batch.todo /\ u.stack = Front(batch.stack) /\ u.item = batch.item
        /\ u.removedPrograms = batch.removedPrograms \cup {p} /\ u.removedLinks = batch.removedLinks
    <2>1. PICK fs \in Seq(ProgIDs) : fs = Front(batch.stack)
      BY <1>5
    <2>2. PICK R \in SUBSET ProgIDs : R = batch.removedPrograms \cup {p}
      BY <1>4 DEF Batch
    <2>3. u = [batch EXCEPT !.stack = fs, !.removedPrograms = R]
      BY <1>6, <2>1, <2>2 DEF Unloaded
    <2> QED BY <1>4, <2>1, <2>2, <2>3 DEF Batch, NotOrdering
  <1>8. RowsInv' /\ owner' = owner /\ progRows' \subseteq progRows
    <2>1. \A l \in DelLinks : linkProg[l] \in progRows' \cup {NoProg}
      BY <1>2 DEF RowsInv, DelLinksOf
    <2>2. linkProg' \in [DelLinks -> progRows' \cup {NoProg}]
      BY <1>2, <2>1 DEF RowsInv
    <2> QED BY <1>2, <2>2 DEF RowsInv
  <1>9. p \in Range(batch.ids) \/ (batch.expand /\ owner[p] \in Range(batch.ids)) \/ batch.kind = "links"
    BY <1>4
  <1>10. \A x : GoneItem(x) => IF batch.kind = "links" THEN x \in DelLinks /\ linkProg'[x] = NoProg
                               ELSE batch.kind = "programs" => x \notin progRows'
    BY <1>2 DEF GoneItem
  <1>11. CASE Len(batch.stack) = 1
    <2>1. EndItem(u, batch.item, TRUE)
      BY <1>3, <1>6, <1>11
    <2>2. /\ ResultsInv' /\ Added(batch.item, TRUE)
          /\ batch' \in Batch /\ batch'.kind = u.kind /\ batch'.ids = u.ids /\ batch'.expand = u.expand
          /\ batch'.deps = u.deps /\ batch'.unvisited = u.unvisited /\ batch'.visits = u.visits
          /\ batch'.todo = u.todo /\ batch'.stack = <<>>
          /\ batch'.removedPrograms = u.removedPrograms /\ batch'.removedLinks = u.removedLinks
      BY <1>4, <1>7, <2>1, EndItemFacts
    <2>3. SameCall
      BY <1>7, <2>2 DEF SameCall
    <2>4. OrderInv' /\ StackInv'
      BY <1>7, <1>8, <2>2, <2>3, OrderItemEnds, StackIdle
    <2>5. DependantsFirst'
      BY <1>1, <1>2, <1>7, <2>2, <2>3, FirstUnloaded
    <2>6. IF batch.kind = "links" THEN batch.item \in DelLinks /\ linkProg'[batch.item] = NoProg
          ELSE batch.kind = "programs" => batch.item \notin progRows'
      BY <1>2, <1>4, <1>11 DEF GoneInv
    <2>7. ASSUME NEW i \in DOMAIN results', results'[i].ok
          PROVE  IF batch.kind = "links" THEN results'[i].id \in DelLinks /\ linkProg'[results'[i].id] = NoProg
                 ELSE batch.kind = "programs" => results'[i].id \notin progRows'
      <3>1. CASE i \in DOMAIN results /\ results'[i] = results[i]
        BY <1>10, <2>7, <3>1 DEF GoneInv
      <3>2. CASE results'[i].id = batch.item
        BY <2>6, <3>2
      <3> QED BY <2>2, <2>7, <3>1, <3>2 DEF Added
    <2>8. GoneInv'
      <3>1. batch'.removedPrograms \cap progRows' = {}
        BY <1>2, <1>7, <2>2 DEF GoneInv
      <3>2. \A l \in batch'.removedLinks : linkProg'[l] = NoProg
        BY <1>2, <1>7, <2>2 DEF GoneInv
      <3>3. batch'.kind = "programs" => \A q \in batch'.removedPrograms :
               q \in Range(batch'.ids) \/ (batch'.expand /\ owner'[q] \in Range(batch'.ids))
        BY <1>7, <1>8, <1>9, <2>2 DEF GoneInv
      <3>4. batch'.kind = "links" /\ ~batch'.expand => batch'.removedLinks \subseteq Range(batch'.ids)
        BY <1>7, <2>2 DEF GoneInv
      <3> QED BY <2>3, <2>7, <3>1, <3>2, <3>3, <3>4 DEF GoneInv, GoneItem, SameCall
    <2> QED BY <1>4, <1>7, <1>8, <2>2, <2>3, <2>4, <2>5, <2>8, ItemStep
  <1>12. CASE Len(batch.stack) = 2
    <2>1. batch' = u /\ UNCHANGED results
      BY <1>3, <1>6, <1>12
    <2>2. /\ batch.stack[1] = batch'.stack[1] /\ Len(batch'.stack) = 1 /\ batch'.stack # <<>>
      BY <1>4, <1>7, <1>12, <2>1, OneTwo
    <2>3. SameCall
      BY <1>7, <2>1 DEF SameCall
    <2>4. OrderInv'
      BY <1>4, <1>7, <1>8, <2>1, <2>2, <2>3, OrderSame
    <2>5. DependantsFirst'
      BY <1>1, <1>2, <1>7, <2>1, <2>3, FirstUnloaded
    <2>6. StackInv'
      <3>1. /\ Len(batch'.stack) \in {1, 2} /\ Len(batch'.stack) # 2 /\ batch'.kind # "none"
            /\ batch'.kind = "programs" => batch'.stack[1] = batch'.item /\ batch'.item \in Range(batch'.ids)
        <4>1. batch'.kind = batch.kind /\ batch'.ids = batch.ids /\ batch'.item = batch.item
          BY <1>7, <2>1
        <4> QED BY <1>4, <2>2, <4>1
      <3>2. batch'.kind = "links" => /\ batch'.item \in batch'.removedLinks
                                     /\ {l \in DelLinks : linkProg'[l] = batch'.stack[1]} = {}
        BY <1>2, <1>4, <1>7, <2>1, <2>2 DEF DelLinksOf
      <3> QED BY <3>1, <3>2 DEF StackInv, DelLinksOf
    <2>7. ASSUME NEW i \in DOMAIN results', results'[i].ok
          PROVE  IF batch.kind = "links" THEN results'[i].id \in DelLinks /\ linkProg'[results'[i].id] = NoProg
                 ELSE batch.kind = "programs" => results'[i].id \notin progRows'
      BY <1>10, <2>1, <2>7 DEF GoneInv
    <2>8. GoneInv'
      <3>1. batch'.removedPrograms \cap progRows' = {}
        BY <1>2, <1>7, <2>1 DEF GoneInv
      <3>2. \A l \in batch'.removedLinks : linkProg'[l] = NoProg
        BY <1>2, <1>7, <2>1 DEF GoneInv
      <3>3. batch'.kind = "programs" => \A q \in batch'.removedPrograms :
               q \in Range(batch'.ids) \/ (batch'.expand /\ owner'[q] \in Range(batch'.ids))
        BY <1>7, <1>8, <1>9, <2>1 DEF GoneInv
      <3>4. batch'.kind = "links" /\ ~batch'.expand => batch'.removedLinks \subseteq Range(batch'.ids)
        BY <1>7, <2>1 DEF GoneInv
      <3> QED BY <2>3, <2>7, <3>1, <3>2, <3>3, <3>4 DEF GoneInv, GoneItem, SameCall
    <2>9. ResultsInv'
      BY <2>1 DEF ResultsInv
    <2> QED BY <1>4, <1>7, <1>8, <2>1, <2>3, <2>4, <2>5, <2>6, <2>8, <2>9, ItemStep
  <1> QED BY <1>4, <1>11, <1>12

-----------------------------------------------------------------------------
(***************************************************************************)
(* The invariant, and what it says of a batch                              *)
(***************************************************************************)
LEMMA DeleteInitInv ==
    ASSUME DeleteInit
    PROVE  DeleteInv
  <1>1. batch = NoBatch /\ results = <<>>
    BY DEF DeleteInit
  <1>2. RowsInv
    BY DEF DeleteInit, RowsInv
  <1>3. ResultsInv
    BY <1>1 DEF ResultsInv
  <1>4. ListsInv
    BY <1>1, NoBatchFacts, RangeEmpty DEF ListsInv
  <1>5. DepsInv
    BY <1>1, NoBatchFacts DEF DepsInv
  <1>6. WalkInv
    BY <1>1, NoBatchFacts, WalkIdle DEF NotOrdering
  <1>7. OrderInv /\ StackInv
    BY <1>1, NoBatchFacts DEF OrderInv, StackInv
  <1>8. GoneInv
    BY <1>1, NoBatchFacts DEF GoneInv
  <1>9. DependantsFirst
    BY <1>1, NoBatchFacts DEF DependantsFirst
  <1> QED BY <1>2, <1>3, <1>4, <1>5, <1>6, <1>7, <1>8, <1>9 DEF DeleteInv

LEMMA DeleteStutter ==
    ASSUME DeleteInv, UNCHANGED deleteVars
    PROVE  DeleteInv'
  BY DEF deleteVars, DeleteInv, RowsInv, ResultsInv, ListsInv, DepsInv, WalkInv, OrderInv, StackInv,
         GoneInv, DependantsFirst, GoneItem, Settled, SelectedDependants, DelLinksOf, Ordering

LEMMA DeleteNextInv ==
    ASSUME DeleteInv, [DeleteNext]_deleteVars
    PROVE  DeleteInv'
  <1>1. CASE UNCHANGED deleteVars
    BY <1>1, DeleteStutter
  <1>2. CASE \E ids \in IDLists(ProgIDs) : (\E r \in BOOLEAN : DeletePrograms(ids, r)) \/ DependentsUnknown(ids)
    BY <1>2, DeleteProgramsStep, DependentsUnknownStep
  <1>3. CASE DeleteAll
    BY <1>3, DeleteAllStep
  <1>4. CASE \E ids \in IDLists(DelLinks) : (\E r \in BOOLEAN : DeleteLinks(ids, r)) \/ DependentsUnknown(ids)
    BY <1>4, DeleteLinksStep, DependentsUnknownStep
  <1>5. CASE VisitNamed \/ VisitDependent \/ PlaceVisited
    BY <1>5, VisitNamedStep, VisitDependentStep, PlaceVisitedStep
  <1>6. CASE NextProgram \/ NextLink
    BY <1>6, NextProgramStep, NextLinkStep
  <1>7. CASE DeleteDependent \/ \E l \in DelLinks : DetachLinkOf(l)
    BY <1>7, DeleteDependentStep, DetachLinkOfStep
  <1>8. CASE UnloadDeleted \/ DeleteFails \/ EndBatch
    BY <1>8, UnloadDeletedStep, DeleteFailsStep, EndBatchStep
  <1> QED BY <1>1, <1>2, <1>3, <1>4, <1>5, <1>6, <1>7, <1>8 DEF DeleteNext

LEMMA DeleteInvGone ==
    ASSUME DeleteInv
    PROVE  GoneAsReported
  <1>1. \A p \in batch.removedPrograms : DelLinksOf(p) = {}
    <2>1. ASSUME NEW p \in batch.removedPrograms, NEW l \in DelLinks, linkProg[l] = p PROVE FALSE
      <3>1. p \notin progRows
        BY <2>1 DEF DeleteInv, GoneInv
      <3>3. p \in ProgIDs
        BY <2>1 DEF DeleteInv, ListsInv, Batch
      <3>2. linkProg[l] \in progRows \cup {NoProg}
        BY DEF DeleteInv, RowsInv
      <3> QED BY <2>1, <3>1, <3>2, <3>3, ProgIsNoLink
    <2> QED BY <2>1 DEF DelLinksOf
  <1>2. GoneInv
    BY DEF DeleteInv
  <1>3. \A i \in DOMAIN results : results[i].ok =>
           IF batch.kind = "links" THEN linkProg[results[i].id] = NoProg
           ELSE batch.kind = "programs" => results[i].id \notin progRows
    BY <1>2 DEF GoneInv, GoneItem
  <1> QED BY <1>1, <1>2, <1>3 DEF GoneAsReported, GoneInv

\* The invariant of the batch deletes, for any programs, links, owners and
\* bounds.
LEMMA DeleteSafe == DeleteSpec => []DeleteInv
  <1>1. DeleteInit => DeleteInv
    BY DeleteInitInv
  <1>2. DeleteInv /\ [DeleteNext]_deleteVars => DeleteInv'
    BY DeleteNextInv
  <1> QED BY <1>1, <1>2, PTL DEF DeleteSpec

\* Whatever fails on the way, what a batch reports without an error is gone,
\* and nothing went that was not named or, in a recursive delete, a dependant
\* of what was named (manager/delete.go).
THEOREM ReportsWhatIsGone == DeleteSpec => []GoneAsReported
  <1>1. DeleteInv => GoneAsReported
    BY DeleteInvGone
  <1> QED BY <1>1, DeleteSafe, PTL

\* orderProgramDeletes and deleteProgram take dependants before owners, in
\* whichever order the ids are named.
THEOREM OwnersGoLast == DeleteSpec => []DependantsFirst
  <1>1. DeleteInv => DependantsFirst
    BY DEF DeleteInv
  <1> QED BY <1>1, DeleteSafe, PTL

=============================================================================
