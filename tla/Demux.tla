------------------------------- MODULE Demux --------------------------------
(***************************************************************************)
(* The wrapper that axis_demux_wrap.py writes for M_COUNT ports and the    *)
(* axis_demux in it, with TDEST_ROUTE, DEST_ENABLE and ID_ENABLE set and   *)
(* enable high.                                                            *)
(***************************************************************************)
EXTENDS AxisStream

CONSTANTS M_COUNT, M_DEST_WIDTH

ASSUME DemuxAssumption == M_COUNT \in Nat \ {0, 1} /\ M_DEST_WIDTH \in Nat

VARIABLES
    select, drop, frame,  \* of the frame under way
    s_axis_tready,        \* of the input
    demux                 \* the output datapath by slice

demuxVars == <<select, drop, frame, s_axis_tready, demux>>

MPorts == 0 .. M_COUNT - 1

(*************************** the wrapper ***********************************)
DemuxCn == BitLength(M_COUNT - 1)
S_DEST_WIDTH == M_DEST_WIDTH + DemuxCn

(* The port behind slice i, by the order of the concatenation. *)
DemuxPort == [i \in MPorts |-> [j \in 1 .. M_COUNT |-> M_COUNT - j][M_COUNT - i]]
DemuxSlice == [p \in MPorts |-> CHOOSE i \in MPorts : DemuxPort[i] = p]
DemuxOut(p) == demux.out[DemuxSlice[p]]

(*************************** the module ************************************)
DemuxInit ==
    /\ select = 0 /\ drop = FALSE /\ frame = FALSE /\ s_axis_tready = FALSE
    /\ demux = DatapathInit(MPorts)

(* The upper bits of tdest; there may be fewer outputs than they can name. *)
Route(w) == w.tdest \div 2^(S_DEST_WIDTH - CLog2(M_COUNT))

(* A clock edge with in on the input, and tready of the ports in ready.    *)
DemuxStep(in, ready) ==
    LET accepted == in # <<>> /\ s_axis_tready
        first == accepted /\ ~frame
        last == accepted /\ in[1].last
        select_ctl == IF first THEN Route(in[1]) ELSE select
        drop_ctl == IF first THEN Route(in[1]) >= M_COUNT ELSE drop
        taken == {i \in MPorts : demux.out[i] # <<>> /\ DemuxPort[i] \in ready}
    IN  /\ select' = IF first /\ ~last THEN select_ctl ELSE select
        /\ drop' = (drop_ctl /\ ~last)
        /\ frame' = IF accepted THEN ~last ELSE frame
        /\ demux' = Datapath(demux,
                       [i \in MPorts |-> IF accepted /\ ~drop_ctl /\ i = select_ctl
                                         THEN <<[in[1] EXCEPT !.tdest = @ % 2^M_DEST_WIDTH]>>
                                         ELSE <<>>],
                       taken, taken # {})
        /\ s_axis_tready' = (demux'.ready \/ drop_ctl)
=============================================================================
