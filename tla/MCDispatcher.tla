---------------------------- MODULE MCDispatcher ----------------------------
(* Dispatcher on small instances. *)
EXTENDS Dispatcher, TLC

\* Programs 2 and 3 have the same name.
MCNameOf == [p \in Programs |-> IF p = 1 THEN 1 ELSE 2]

Sym == Permutations(DispatcherIDs) \cup Permutations(LinkIDs)

=============================================================================
