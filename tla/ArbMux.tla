------------------------------- MODULE ArbMux -------------------------------
(***************************************************************************)
(* The wrapper that axis_arb_mux_wrap.py writes for S_COUNT ports and the  *)
(* axis_arb_mux in it, with ID_ENABLE, DEST_ENABLE, LAST_ENABLE and        *)
(* UPDATE_TID set.                                                         *)
(***************************************************************************)
EXTENDS AxisStream, Arbiter

CONSTANT S_ID_WIDTH

ASSUME ArbMuxAssumption == S_ID_WIDTH \in Nat

VARIABLES
    s_axis_reg,   \* the input register of every slice
    arb,          \* the arbiter of the slices
    mux           \* the output datapath, with the one output 0

arbMuxVars == <<s_axis_reg, arb, mux>>

(*************************** the wrapper ***********************************)
MuxCn == BitLength(S_COUNT - 1)
M_ID_WIDTH == S_ID_WIDTH + MuxCn

(* The signals of the ports are concatenated from the highest port down,   *)
(* and the leftmost has the highest bits: the port behind slice i.         *)
MutMuxPort == [i \in SPorts |-> [j \in 1 .. S_COUNT |-> j - 1][S_COUNT - i]]  \* mutant: range(n)
MuxPort == [i \in SPorts |-> [j \in 1 .. S_COUNT |-> S_COUNT - j][S_COUNT - i]]
MuxSlice == [p \in SPorts |-> CHOOSE i \in SPorts : MuxPort[i] = p]

(* tready of port p *)
MuxReady(p) == s_axis_reg[MuxSlice[p]] = <<>> \/ (mux.ready /\ arb.grant = MuxSlice[p])

(*************************** the module ************************************)
ArbMuxInit ==
    s_axis_reg = Idle(SPorts) /\ arb = ArbiterInit /\ mux = DatapathInit({0})

(* The slice's number replaces the upper bits of tid. *)
Routed(w) ==
    LET low == 2^(M_ID_WIDTH - CLog2(S_COUNT))
    IN  [w EXCEPT !.tid = (@ % low) + arb.grant * low]

Granted == arb.grant # NoGrant /\ s_axis_reg[arb.grant] # <<>> /\ mux.ready

Acknowledge == Granted /\ s_axis_reg[arb.grant][1].last

Requests(in) ==
    {i \in SPorts : IF i = arb.grant THEN in[MuxPort[i]] # <<>> ELSE s_axis_reg[i] # <<>>}

(* A clock edge with in on the ports and tready of the output.             *)
ArbMuxStep(in, tready) ==
    /\ s_axis_reg' = [i \in SPorts |-> IF MuxReady(MuxPort[i]) THEN in[MuxPort[i]]
                                       ELSE s_axis_reg[i]]
    /\ arb' = Arbitrate(arb, Requests(in), Acknowledge)
    /\ mux' = Datapath(mux, [q \in {0} |-> IF Granted THEN <<Routed(s_axis_reg[arb.grant][1])>>
                                           ELSE <<>>],
                       IF tready THEN {0} ELSE {}, tready)
=============================================================================
