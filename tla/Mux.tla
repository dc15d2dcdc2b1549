-------------------------------- MODULE Mux ---------------------------------
(***************************************************************************)
(* The wrapper that axis_mux_wrap.py writes for C_COUNT ports, and the     *)
(* axis_mux in it: a frame goes on from the port that select names when it *)
(* begins.                                                                 *)
(***************************************************************************)
EXTENDS AxisStream

CONSTANT C_COUNT  \* S_COUNT

ASSUME MuxAssumption == C_COUNT \in Nat \ {0, 1}

VARIABLES
    select_reg, frame_reg,  \* the slice of the frame under way, if there is one
    s_axis_tready_reg,      \* the slices with tready
    chosen                  \* the output datapath, with the one output 0

muxVars == <<select_reg, frame_reg, s_axis_tready_reg, chosen>>

CPorts == 0 .. C_COUNT - 1

(* The port behind slice i, by the order of the concatenation; select goes *)
(* through the wrapper as it is, and means slices.                         *)
ChoicePort == [i \in CPorts |-> [j \in 1 .. C_COUNT |-> C_COUNT - j][C_COUNT - i]]
ChoiceReady(p) == \E i \in s_axis_tready_reg : ChoicePort[i] = p

MuxInit ==
    /\ select_reg = 0 /\ frame_reg = FALSE /\ s_axis_tready_reg = {}
    /\ chosen = DatapathInit({0})

(* A clock edge with in on the ports, the two controls, and tready of the  *)
(* output.                                                                 *)
MuxStep(in, enable, select, tready) ==
    LET current == in[ChoicePort[select_reg]]
        accepted == current # <<>> /\ select_reg \in s_axis_tready_reg
        begins == ~frame_reg /\ enable /\ in[ChoicePort[select]] # <<>>
        ends == accepted /\ current[1].last
    IN  /\ select_reg' = IF begins THEN select ELSE select_reg
        /\ frame_reg' = (begins \/ (frame_reg /\ ~ends))
        /\ chosen' = Datapath(chosen,
                        [q \in {0} |-> IF accepted /\ frame_reg THEN current ELSE <<>>],
                        IF tready THEN {0} ELSE {}, tready)
        /\ s_axis_tready_reg' = IF chosen'.ready /\ frame_reg' THEN {select_reg'} ELSE {}
=============================================================================
