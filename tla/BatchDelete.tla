----------------------------- MODULE BatchDelete -----------------------------
(***************************************************************************)
(* Deleting several programs or links in one call (manager/delete.go): the *)
(* order of owners and dependants of shared maps, the recursion into       *)
(* dependants, and the result reported for each item.                      *)
(*                                                                         *)
(* The caller holds the writer lock throughout, so the only steps are the  *)
(* batch's own; any Detach, Unload or listing may fail, which ends that    *)
(* item and not the batch.  Dependants are sets; that they are listed in   *)
(* the order of their ids is that the least one comes first.               *)
(***************************************************************************)
EXTENDS Naturals, Sequences, FiniteSets, SequencesExt, Functions

CONSTANTS
    ProgIDs,      \* kernel program ids
    DelLinks,     \* link ids
    MaxBatch,     \* bound: ids named in one call
    DeleteFaults  \* the failures that may happen

NoProg == 0

ASSUME ProgIDsAssumption == ProgIDs \subseteq Nat \ {NoProg} /\ IsFiniteSet(ProgIDs)
ASSUME MaxBatchAssumption == MaxBatch \in Nat
ASSUME DeleteFaultsAssumption == DeleteFaults \subseteq {"list", "detach", "unload"}

VARIABLES
    progRows,  \* store: the managed programs
    owner,     \* store: whose maps each program uses, NoProg for its own
    linkProg,  \* store: per link its program, NoProg when there is no link
    batch,     \* the call in progress
    results    \* its results so far

deleteVars == <<progRows, owner, linkProg, batch, results>>

NoBatch == [kind |-> "none", ids |-> <<>>, expand |-> FALSE,
            deps |-> [p \in ProgIDs |-> {}],
            unvisited |-> <<>>, visits |-> <<>>, seen |-> {},
            todo |-> <<>>, item |-> NoProg, stack |-> <<>>,
            removedPrograms |-> {}, removedLinks |-> {}]

DelLinksOf(p) == {l \in DelLinks : linkProg[l] = p}

\* A load records the owner of the owner's maps, so owners are no dependants.
DeleteInit ==
    /\ progRows = ProgIDs
    /\ owner \in {o \in [ProgIDs -> ProgIDs \cup {NoProg}] :
                     \A p \in ProgIDs : o[p] # NoProg => o[p] # p /\ o[o[p]] = NoProg}
    /\ linkProg \in [DelLinks -> ProgIDs \cup {NoProg}]
    /\ batch = NoBatch /\ results = <<>>

\* ListPrograms: ascending by id.
ListPrograms(S) ==
    {q \in [1..Cardinality(S) -> S] : Range(q) = S /\ \A i, j \in DOMAIN q : i < j => q[i] < q[j]}

Least(S) == {d \in S : \A e \in S : d <= e}

\* programDependentsByOwner: read once, before anything is deleted.
DependentsOf(p) == {d \in progRows : owner[d] = p}

DependentsByOwner(wanted) ==
    [p \in ProgIDs |-> IF wanted THEN DependentsOf(p) ELSE {}]

\* Mutant: the ids are taken in the order they were named.
OrderAsGiven(b) == [b EXCEPT !.todo = b.ids]

\* Where there is nothing to order the ids are taken as given; else the
\* walk below puts them in order.
OrderProgramDeletes(b) ==
    IF Len(b.ids) <= 1 \/ \A p \in ProgIDs : b.deps[p] = {}
    THEN [b EXCEPT !.todo = b.ids]
    ELSE [b EXCEPT !.unvisited = b.ids]

Result(id, ok) == Append(results, [id |-> id, ok |-> ok])

-----------------------------------------------------------------------------
(***************************************************************************)
(* The two calls                                                           *)
(***************************************************************************)
StartPrograms(ids, expand) ==
    batch' = OrderProgramDeletes(
        [NoBatch EXCEPT !.kind = "programs", !.ids = ids, !.expand = expand,
                        !.deps = DependentsByOwner(expand \/ Len(ids) > 1)])

DeletePrograms(ids, expand) ==
    /\ batch = NoBatch
    /\ results' = <<>>
    /\ StartPrograms(ids, expand)
    /\ UNCHANGED <<progRows, owner, linkProg>>

\* --all: every managed program, with its dependants.
DeleteAll ==
    /\ batch = NoBatch
    /\ results' = <<>>
    /\ \E ids \in ListPrograms(progRows) : StartPrograms(ids, TRUE)
    /\ UNCHANGED <<progRows, owner, linkProg>>

DeleteLinks(ids, recursive) ==
    /\ batch = NoBatch
    /\ results' = <<>>
    /\ batch' = [NoBatch EXCEPT !.kind = "links", !.ids = ids, !.expand = recursive,
                                !.deps = DependentsByOwner(recursive), !.todo = ids]
    /\ UNCHANGED <<progRows, owner, linkProg>>

\* The dependants of a recursive delete, or of more than one program, could
\* not be listed: every item has that error.
DependentsUnknown(ids) ==
    /\ batch = NoBatch
    /\ "list" \in DeleteFaults
    /\ results' = [i \in DOMAIN ids |-> [id |-> ids[i], ok |-> FALSE]]
    /\ UNCHANGED <<progRows, owner, linkProg, batch>>

-----------------------------------------------------------------------------
(***************************************************************************)
(* The walk of orderProgramDeletes, depth first.  visits holds the visit   *)
(* calls in progress, the innermost last, with the selected dependants     *)
(* each has still to visit.                                                *)
(***************************************************************************)
Ordering == batch.unvisited # <<>> \/ batch.visits # <<>>

\* visit returns at once from an id it has seen.
Visit(b, id) ==
    IF id \in b.seen THEN b
    ELSE [b EXCEPT !.seen = @ \cup {id},
                   !.visits = Append(@, [id |-> id, rest |-> b.deps[id] \cap Range(b.ids)])]

VisitNamed ==
    /\ batch.unvisited # <<>> /\ batch.visits = <<>>
    /\ batch' = Visit([batch EXCEPT !.unvisited = Tail(@)], Head(batch.unvisited))
    /\ UNCHANGED <<progRows, owner, linkProg, results>>

VisitDependent ==
    /\ batch.visits # <<>>
    /\ LET v == Last(batch.visits) IN
       \E d \in Least(v.rest) :
           batch' = Visit([batch EXCEPT !.visits = Append(Front(@), [v EXCEPT !.rest = @ \ {d}])], d)
    /\ UNCHANGED <<progRows, owner, linkProg, results>>

\* An id is placed after its selected dependants.
PlaceVisited ==
    /\ batch.visits # <<>> /\ Last(batch.visits).rest = {}
    /\ batch' = [batch EXCEPT !.visits = Front(@), !.todo = Append(@, Last(batch.visits).id)]
    /\ UNCHANGED <<progRows, owner, linkProg, results>>

-----------------------------------------------------------------------------
(***************************************************************************)
(* One item after the other.  stack holds the deleteProgram calls in       *)
(* progress, the innermost last.                                           *)
(***************************************************************************)
Between == batch # NoBatch /\ ~Ordering /\ batch.stack = <<>>

EndItem(b, id, ok) ==
    /\ batch' = [b EXCEPT !.stack = <<>>, !.item = NoProg]
    /\ results' = Result(id, ok)

NextProgram ==
    /\ Between /\ batch.kind = "programs" /\ batch.todo # <<>>
    /\ LET id == Head(batch.todo)
           b  == [batch EXCEPT !.todo = Tail(@)]
       IN  \/ id \in batch.removedPrograms /\ EndItem(b, id, TRUE)
           \/ /\ id \notin batch.removedPrograms
              /\ batch' = [b EXCEPT !.item = id, !.stack = <<id>>]
              /\ UNCHANGED results
    /\ UNCHANGED <<progRows, owner, linkProg>>

\* Whether detaching l leaves p without links; p then goes too.
Orphaned(p, l) == DelLinksOf(p) \subseteq {l}

\* deleteLink: get, Detach, list the program's links, then the orphan.
NextLink ==
    /\ Between /\ batch.kind = "links" /\ batch.todo # <<>>
    /\ LET id == Head(batch.todo)
           p  == linkProg[id]
           b  == [batch EXCEPT !.todo = Tail(@)]
           d  == [b EXCEPT !.removedLinks = @ \cup {id}]
       IN  \/ /\ id \in batch.removedLinks
              /\ EndItem(b, id, TRUE)
              /\ UNCHANGED linkProg
           \/ /\ id \notin batch.removedLinks
              /\ p = NoProg \/ "detach" \in DeleteFaults
              /\ EndItem(b, id, FALSE)
              /\ UNCHANGED linkProg
           \/ /\ id \notin batch.removedLinks /\ p # NoProg
              /\ linkProg' = [linkProg EXCEPT ![id] = NoProg]
              /\ \/ /\ "list" \in DeleteFaults
                    /\ EndItem(d, id, FALSE)
                 \/ /\ ~Orphaned(p, id) \/ p \in batch.removedPrograms
                    /\ EndItem(d, id, TRUE)
                 \/ /\ Orphaned(p, id) /\ p \notin batch.removedPrograms
                    /\ batch' = [d EXCEPT !.item = id, !.stack = <<p>>]
                    /\ UNCHANGED results
    /\ UNCHANGED <<progRows, owner>>

Deleting == batch.stack # <<>>

\* The dependants still there, for a recursive delete.
Pending(p) == batch.deps[p] \ batch.removedPrograms

Descends(p) == batch.expand /\ Pending(p) # {}

DeleteDependent ==
    /\ Deleting
    /\ Descends(Last(batch.stack))
    /\ \E d \in Least(Pending(Last(batch.stack))) :
           batch' = [batch EXCEPT !.stack = Append(@, d)]
    /\ UNCHANGED <<progRows, owner, linkProg, results>>

DetachLinkOf(l) ==
    /\ Deleting
    /\ ~Descends(Last(batch.stack))
    /\ linkProg[l] = Last(batch.stack)
    /\ linkProg' = [linkProg EXCEPT ![l] = NoProg]
    /\ batch' = [batch EXCEPT !.removedLinks = @ \cup {l}]
    /\ UNCHANGED <<progRows, owner, results>>

\* Unload, the end of deleteProgram: back to the caller, or the item is done.
Unloaded(p) == [batch EXCEPT !.stack = Front(@), !.removedPrograms = @ \cup {p}]

UnloadDeleted ==
    LET p == Last(batch.stack)
    IN  /\ Deleting
        /\ ~Descends(p)
        /\ DelLinksOf(p) = {} /\ p \in progRows
        /\ progRows' = progRows \ {p}
        /\ IF Len(batch.stack) = 1
           THEN EndItem(Unloaded(p), batch.item, TRUE)
           ELSE batch' = Unloaded(p) /\ UNCHANGED results
        /\ UNCHANGED <<owner, linkProg>>

\* A listing, Detach or Unload fails: every caller returns the error, so the
\* item ends here, with what was deleted so far gone.
AbortMarksRemoved ==
    /\ Deleting
    /\ DeleteFaults # {} \/ Last(batch.stack) \notin progRows
    /\ EndItem([batch EXCEPT !.removedPrograms = @ \cup {Last(batch.stack)}], batch.item, FALSE)
    /\ UNCHANGED <<progRows, owner, linkProg>>

DeleteFails ==
    LET p == Last(batch.stack)
    IN  /\ Deleting
        /\ ~Descends(p)
        /\ \/ "list" \in DeleteFaults
           \/ "detach" \in DeleteFaults /\ DelLinksOf(p) # {}
           \/ "unload" \in DeleteFaults /\ DelLinksOf(p) = {}
           \/ p \notin progRows
        /\ EndItem(batch, batch.item, FALSE)
        /\ UNCHANGED <<progRows, owner, linkProg>>

\* The results go back to the caller.
EndBatch ==
    /\ Between
    /\ batch.todo = <<>>
    /\ batch' = NoBatch
    /\ UNCHANGED <<progRows, owner, linkProg, results>>

IDLists(S) == UNION {[1..n -> S] : n \in 1..MaxBatch}

DeleteNext ==
    \/ \E ids \in IDLists(ProgIDs) :
           \/ \E r \in BOOLEAN : DeletePrograms(ids, r)
           \/ DependentsUnknown(ids)
    \/ DeleteAll
    \/ \E ids \in IDLists(DelLinks) :
           \/ \E r \in BOOLEAN : DeleteLinks(ids, r)
           \/ DependentsUnknown(ids)
    \/ VisitNamed \/ VisitDependent \/ PlaceVisited
    \/ NextProgram \/ NextLink \/ DeleteDependent
    \/ \E l \in DelLinks : DetachLinkOf(l)
    \/ UnloadDeleted \/ DeleteFails \/ EndBatch

DeleteSpec == DeleteInit /\ [][DeleteNext]_deleteVars

-----------------------------------------------------------------------------
(***************************************************************************)
(* What a batch promises                                                   *)
(***************************************************************************)

\* An item reported without an error is gone, also when an earlier item, or
\* one that failed in the end, took it along.  Nothing else went: programs
\* only when named, dependants of those only when recursive, and for links
\* only programs that have lost all of them.
GoneAsReported ==
    LET named == IF batch.kind = "programs" THEN Range(batch.ids) ELSE batch.removedPrograms
    IN  /\ \A i \in DOMAIN results : results[i].ok =>
               IF batch.kind = "links" THEN linkProg[results[i].id] = NoProg
               ELSE batch.kind = "programs" => results[i].id \notin progRows
        /\ batch.kind = "programs" =>
               \A p \in batch.removedPrograms :
                   p \in named \/ (batch.expand /\ owner[p] \in named)
        /\ batch.kind = "links" /\ ~batch.expand =>
               batch.removedLinks \subseteq Range(batch.ids)
        /\ \A p \in batch.removedPrograms : DelLinksOf(p) = {}

\* An owner goes only after its dependants: all of them in a recursive
\* delete, the selected ones otherwise, in whichever order they were named.
\* A dependant that is still there was reported as failed before.
DependantsFirst ==
    \A o \in batch.removedPrograms : \A d \in progRows : owner[d] = o =>
        /\ ~batch.expand
        /\ batch.kind = "programs" /\ d \in Range(batch.ids) =>
               \E i \in DOMAIN results : results[i].id = d /\ ~results[i].ok
=============================================================================
