-------------------------------- MODULE Node --------------------------------
(***************************************************************************)
(* Five parts of a node: the dispatchers, and what works around them and   *)
(* holds the writer lock throughout or never takes it: batch deletes, the  *)
(* CSI node service, the image cache and the pools of the test shells.  A  *)
(* behaviour exercises one of them, so that one run checks each against    *)
(* its own properties and faults.                                          *)
(***************************************************************************)
EXTENDS Dispatcher, CSINode, ImageCache, BatchDelete, SlotPool

VARIABLE part  \* which of them this behaviour exercises

nodeVars == <<part, vars, csiVars, imageVars, deleteVars, poolVars>>

Parts == {"dispatchers", "csi", "image", "delete", "pool"}

\* The parts that stand still start in one state each.
CsiRests ==
    /\ loaded = {} /\ mapPins = [l \in LoadIDs |-> {}] /\ nextLoad = 1
    /\ podMount = [v \in Volumes |-> <<>>] /\ target = [t \in Targets |-> <<>>]
    /\ bpffs = [i \in Instances |-> {}]
    /\ inflight = {} /\ call = [c \in Calls |-> NoCall]
    /\ published = [t \in Targets |-> NoRequest] /\ leftover = {}

ImageRests ==
    /\ tag = Missing
    /\ entryDir = FALSE /\ object = Missing /\ metadata = Missing
    /\ pull = [p \in Pullers |-> NoPull] /\ result = [p \in Pullers |-> Failed]
    /\ crossed = FALSE

DeleteRests ==
    /\ progRows = ProgIDs /\ owner = [p \in ProgIDs |-> NoProg]
    /\ linkProg = [l \in DelLinks |-> NoProg]
    /\ batch = NoBatch /\ results = <<>>

NodeInit ==
    /\ part \in Parts
    /\ Init
    /\ IF part = "csi" THEN CsiInit ELSE CsiRests
    /\ IF part = "image" THEN ImageInit ELSE ImageRests
    /\ IF part = "delete" THEN DeleteInit ELSE DeleteRests
    /\ PoolInit

NodeNext ==
    \/ /\ part = "dispatchers" /\ Next
       /\ UNCHANGED <<part, csiVars, imageVars, deleteVars, poolVars>>
    \/ /\ part = "csi" /\ CsiNext
       /\ UNCHANGED <<part, vars, imageVars, deleteVars, poolVars>>
    \/ /\ part = "image" /\ ImageNext
       /\ UNCHANGED <<part, vars, csiVars, deleteVars, poolVars>>
    \/ /\ part = "delete" /\ DeleteNext
       /\ UNCHANGED <<part, vars, csiVars, imageVars, poolVars>>
    \/ /\ part = "pool" /\ PoolNext
       /\ UNCHANGED <<part, vars, csiVars, imageVars, deleteVars>>

NodeSpec == NodeInit /\ [][NodeNext]_nodeVars
=============================================================================
