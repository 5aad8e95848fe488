----------------------------- MODULE WriterSection -----------------------------
(***************************************************************************)
(* What the writer lock promises the rest of bpfman: the code that changes *)
(* runtime state is run by one client at a time, together with the one     *)
(* namespace helper that works for it, and nobody enters before the last   *)
(* of the two has left.  Dispatcher, Links and ProgramLifecycle take this  *)
(* for granted when they let one locked operation run at a time.           *)
(***************************************************************************)
EXTENDS Naturals

CONSTANTS Clients, Helpers

VARIABLE inside   \* who is in the section

Init == inside = {}

Enter(c) == inside = {} /\ inside' = {c}

\* A helper joins its client, or takes over from one that died.
Join(h) ==
    /\ inside \cap Helpers = {}
    /\ \A c, d \in inside : c = d
    /\ inside' = inside \cup {h}

Leave(a) == inside' = inside \ {a}

Next ==
    \/ \E c \in Clients : Enter(c)
    \/ \E h \in Helpers : Join(h)
    \/ \E a \in inside : Leave(a)

Spec == Init /\ [][Next]_inside

=============================================================================
