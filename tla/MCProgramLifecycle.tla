------------------------- MODULE MCProgramLifecycle -------------------------
(***************************************************************************)
(* Small instances of ProgramLifecycle.                                    *)
(***************************************************************************)
EXTENDS ProgramLifecycle, TLC

Own           == [owner |-> None, shared |-> {}]
PinByName(m)  == [owner |-> None, shared |-> {m}]
SharingWith(i) == [owner |-> i, shared |-> {}]

\* Loads of one program: with its own maps, with a shared map, with the maps
\* of program 1; and a batch of two.
AllBatches ==
    {<<Own>>, <<SharingWith(1)>>, <<Own, Own>>} \cup {<<PinByName(m)>> : m \in MapNames}

\* One program at a time, all with shared maps: by name, or with program 1.
SharingBatches == {<<SharingWith(1)>>} \cup {<<PinByName(m)>> : m \in MapNames}

Symmetry == Permutations(Processes)
=============================================================================
