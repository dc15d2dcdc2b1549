------------------------------- MODULE Switch -------------------------------
(***************************************************************************)
(* The wrapper that axis_switch_wrap.py writes for S_COUNT and O_COUNT     *)
(* ports and the axis_switch in it, with ID_ENABLE and UPDATE_TID set and  *)
(* the other parameters of the wrapper as they are: output p is for        *)
(* tdest = p, every input is connected with every output, no registers at  *)
(* the inputs and skid buffers (axis_register.v) at the outputs.           *)
(***************************************************************************)
EXTENDS AxisStream, Arbiter

CONSTANTS
    O_COUNT,       \* M_COUNT
    O_DEST_WIDTH,  \* M_DEST_WIDTH
    I_ID_WIDTH     \* S_ID_WIDTH

ASSUME SwitchAssumption ==
    O_COUNT \in Nat \ {0, 1} /\ O_DEST_WIDTH \in Nat /\ I_ID_WIDTH \in Nat

OPorts == 0 .. O_COUNT - 1

VARIABLES
    decoded,     \* by input slice: select, drop and select_valid
    arbs,        \* by output slice, the arbiter of the input slices
    crossed      \* by output slice, the register, with the one output 0

switchVars == <<decoded, arbs, crossed>>

(*************************** the wrapper ***********************************)
SwitchCm == BitLength(S_COUNT - 1)
O_ID_WIDTH == I_ID_WIDTH + SwitchCm

(* The ports behind the slices, by the order of the concatenation; M_BASE  *)
(* and M_TOP are concatenated alike.                                       *)
InPort  == [i \in SPorts |-> [j \in 1 .. S_COUNT |-> S_COUNT - j][S_COUNT - i]]
OutPort == [n \in OPorts |-> [j \in 1 .. O_COUNT |-> O_COUNT - j][O_COUNT - n]]
InSlice  == [p \in SPorts |-> CHOOSE i \in SPorts : InPort[i] = p]
OutSlice == [p \in OPorts |-> CHOOSE n \in OPorts : OutPort[n] = p]
M_BASE == OutPort
M_TOP  == OutPort

CrossOut(p) == crossed[OutSlice[p]].out[0]

(*************************** the module ************************************)
SwitchInit ==
    /\ decoded = [i \in SPorts |-> [select |-> 0, drop |-> FALSE, select_valid |-> FALSE]]
    /\ arbs = [n \in OPorts |-> ArbiterInit]
    /\ crossed = [n \in OPorts |-> DatapathInit({0})]

(* int_axis_tready and int_s_axis_tready                                   *)
OutReady(n, i) == arbs[n].grant = i /\ crossed[n].ready
InReady(i) == OutReady(decoded[i].select, i) \/ decoded[i].drop
SwitchReady(p) == InReady(InSlice[p])

(* int_axis_tvalid: slice i has a word for output slice n.                 *)
For(in, i, n) ==
    /\ in[InPort[i]] # <<>>
    /\ decoded[i].select_valid /\ ~decoded[i].drop /\ decoded[i].select = n

(* A frame is routed in the cycle before its first word is taken.          *)
Decode(d, in, ready) ==
    LET ends  == in # <<>> /\ ready /\ in[1].last
        match == {n \in OPorts : in[1].tdest \in M_BASE[n] .. M_TOP[n]}
    IN  IF in # <<>> /\ ~d.select_valid /\ ~d.drop
          THEN [ select       |-> IF match = {} THEN 0 ELSE Max(match),
                 select_valid |-> match # {},
                 drop         |-> match = {} ]
          ELSE [ select       |-> d.select,
                 select_valid |-> d.select_valid /\ ~ends,
                 drop         |-> d.drop /\ ~ends ]

(* The word for output slice n, with the slice's number in the upper bits  *)
(* of tid and the lower bits of tdest.                                     *)
Crossing(in, n) ==
    LET i   == arbs[n].grant
        low == 2^(O_ID_WIDTH - CLog2(S_COUNT))
    IN  IF i # NoGrant /\ For(in, i, n)
          THEN <<[in[InPort[i]][1] EXCEPT !.tid   = (@ % low) + i * low,
                                          !.tdest = @ % 2^O_DEST_WIDTH]>>
          ELSE <<>>

(* A clock edge with in on the inputs, and tready of the ports in ready.   *)
SwitchStep(in, ready) ==
    /\ decoded' = [i \in SPorts |-> Decode(decoded[i], in[InPort[i]], InReady(i))]
    /\ arbs' = [n \in OPorts |->
          LET word == Crossing(in, n)
          IN  Arbitrate(arbs[n], {i \in SPorts : For(in, i, n) /\ arbs[n].grant # i},
                        word # <<>> /\ word[1].last /\ crossed[n].ready)]
    /\ crossed' = [n \in OPorts |->
          Datapath(crossed[n], [q \in {0} |-> Crossing(in, n)],
                   IF OutPort[n] \in ready THEN {0} ELSE {}, OutPort[n] \in ready)]
=============================================================================
