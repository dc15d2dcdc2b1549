------------------------------ MODULE Broadcast -----------------------------
(***************************************************************************)
(* The wrapper that axis_broadcast_wrap.py writes for B_COUNT ports and    *)
(* the axis_broadcast in it.                                               *)
(***************************************************************************)
EXTENDS AxisStream

CONSTANT B_COUNT  \* M_COUNT

ASSUME BroadcastAssumption == B_COUNT \in Nat \ {0}

VARIABLE cast     \* the datapath by slice; its ready is s_axis_tready_reg

BPorts == 0 .. B_COUNT - 1

(* The port behind slice i, by the order of the concatenation. *)
CastPort == [i \in BPorts |-> [j \in 1 .. B_COUNT |-> B_COUNT - j][B_COUNT - i]]
CastSlice == [p \in BPorts |-> CHOOSE i \in BPorts : CastPort[i] = p]
CastOut(p) == cast.out[CastSlice[p]]

BroadcastInit == cast = DatapathInit(BPorts)

(* A clock edge with in on the input, and tready of the ports in ready.    *)
BroadcastStep(in, ready) ==
    LET taken == {i \in BPorts : CastPort[i] \in ready}
    IN  cast' = Datapath(cast, [i \in BPorts |-> in], taken,
                         \A i \in BPorts : cast.out[i] # <<>> => i \in taken)
=============================================================================
