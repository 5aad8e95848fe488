------------------------------- MODULE MCNode -------------------------------
(***************************************************************************)
(* A small instance of Node.  One volume is published at two targets, so   *)
(* that their calls meet; one target starts out with a foreign mount.      *)
(***************************************************************************)
EXTENDS Node, MCDispatcher

CONSTANT v1

OneVolume == [t \in Targets |-> v1]

NodeSym == Permutations(Tenants) \cup Permutations(Pullers)

\* Both maps read-only, one of them, and none.
SomeRequests ==
    {[maps |-> <<2, 1>>, ro |-> TRUE]}
        \cup {[maps |-> ms, ro |-> FALSE] : ms \in {<<1>>, <<>>}}

\* Two good images, and one each that holds no object, the wrong one, none
\* for this architecture, and an untrusted signature.
Registry ==
    [first  |-> [archs |-> {"amd64", "arm64"}, signature |-> "trusted",
                 wrap |-> "gzip", files |-> <<"bpf">>],
     second |-> [archs |-> {}, signature |-> "none",
                 wrap |-> "targz", files |-> <<"text", "bpf">>],
     empty  |-> [archs |-> {}, signature |-> "none",
                 wrap |-> "tar", files |-> <<"text">>],
     junk   |-> [archs |-> {}, signature |-> "trusted",
                 wrap |-> "none", files |-> <<"elf">>],
     alien  |-> [archs |-> {"s390x"}, signature |-> "trusted",
                 wrap |-> "none", files |-> <<"bpf">>],
     rogue  |-> [archs |-> {}, signature |-> "other",
                 wrap |-> "none", files |-> <<"bpf">>]]

\* Every handle is of a shell of its own.
OneEach == [t \in Tenants |-> t]
=============================================================================
