----------------------------- MODULE AttachPoint -----------------------------
(***************************************************************************)
(* What an attach point promises its clients, whatever a dispatcher needs  *)
(* to do for it.  A link is a program with a priority and an id.  A packet *)
(* runs through the programs in runs.  A link that was recorded and that   *)
(* nobody asked to detach runs at every instant; a program starts running  *)
(* only because it is a link or because somebody is attaching it; a link   *)
(* is recorded, or forgotten, at an instant at which exactly the recorded  *)
(* links run; and the last ones are forgotten when nothing runs any more.  *)
(* Revisions, slots, pins, dispatcher ids and rollbacks are not part of    *)
(* the promise.                                                            *)
(***************************************************************************)
CONSTANTS LinkIDs, Programs, Priorities

VARIABLES
    links,    \* the recorded links
    asked,    \* the ids of those a client asked to detach
    wanted,   \* the program being attached, if any
    runs,     \* the programs a packet runs through
    up        \* does the interface exist

point == <<links, asked, wanted, runs, up>>

ProgramsOf(S) == {x.prog : x \in S}

\* The links nobody asked to detach.
Kept == {k \in links : k.link \notin asked}

\* The promise of every instant.
Honoured == IF up THEN ProgramsOf(Kept) \subseteq runs ELSE runs = {}

\* The promise of the instants at which the record changes.
Exact == up => runs = ProgramsOf(links)

Init ==
    /\ links = {} /\ asked = {} /\ wanted = {} /\ runs = {}
    /\ up = TRUE

\* A client wants a program attached ...
Want(p, prio) ==
    /\ up /\ wanted = {}
    /\ wanted' = {[prog |-> p, prio |-> prio]}
    /\ UNCHANGED <<links, asked, runs, up>>

\* ... and gets a link for it.
Record(id) ==
    /\ id \notin {k.link : k \in links}
    /\ \E w \in wanted : links' = links \cup {[link |-> id, prog |-> w.prog, prio |-> w.prio]}
    /\ wanted' = {}
    /\ Exact'
    /\ UNCHANGED <<asked, runs, up>>

\* A client wants a link detached; its program may stop at once ...
Ask(k) ==
    /\ asked' = asked \cup {k.link}
    /\ runs' \subseteq runs
    /\ UNCHANGED <<links, wanted, up>>

\* ... and the link is forgotten ...
Drop(k) ==
    /\ k.link \in asked
    /\ links' = links \ {k}
    /\ asked' = asked \ {k.link}
    /\ Exact'
    /\ UNCHANGED <<wanted, runs, up>>

\* ... or, nobody being left to serve, they all are.
Clear ==
    /\ runs = {}
    /\ up => Kept = {}
    /\ links' = {} /\ asked' = {}
    /\ UNCHANGED <<wanted, runs, up>>

\* Packets take another path: links, and the program being attached.
Switch ==
    /\ runs' \subseteq ProgramsOf(links) \cup ProgramsOf(wanted)
    /\ UNCHANGED <<links, asked, wanted, up>>

\* What nobody relies on stops, and an attach may be given up.
Fade ==
    /\ runs' \subseteq runs
    /\ wanted' \in {wanted, {}}
    /\ UNCHANGED <<links, asked, up>>

\* The interface is gone.
Down ==
    /\ up' = FALSE
    /\ runs' = {}
    /\ UNCHANGED <<links, asked, wanted>>

Next ==
    /\ \/ \E p \in Programs, prio \in Priorities : Want(p, prio)
       \/ \E id \in LinkIDs : Record(id)
       \/ \E k \in links : Ask(k) \/ Drop(k)
       \/ Clear \/ Switch \/ Fade \/ Down
    /\ Honoured'

Spec == Init /\ [][Next]_point

=============================================================================
