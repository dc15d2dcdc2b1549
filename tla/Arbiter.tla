------------------------------ MODULE Arbiter -------------------------------
(***************************************************************************)
(* arbiter.v with its priority encoders, as axis_arb_mux and axis_switch   *)
(* use it: ARB_BLOCK and ARB_BLOCK_ACK set, so that a grant is held until  *)
(* it is acknowledged.                                                     *)
(***************************************************************************)
EXTENDS Integers, FiniteSets, FiniteSetsExt

CONSTANTS
    S_COUNT,              \* PORTS
    ARB_TYPE_ROUND_ROBIN,
    ARB_LSB_HIGH_PRIORITY

ASSUME ArbiterAssumption ==
    /\ S_COUNT \in Nat \ {0, 1}
    /\ ARB_TYPE_ROUND_ROBIN \in BOOLEAN /\ ARB_LSB_HIGH_PRIORITY \in BOOLEAN

SPorts == 0 .. S_COUNT - 1
NoGrant == S_COUNT

(* The registers: the granted port or none, and a set of ports.            *)
ArbiterInit == [grant |-> NoGrant, mask |-> {}]

First(ports) == IF ARB_LSB_HIGH_PRIORITY THEN Min(ports) ELSE Max(ports)

MutBehind(i) == SPorts  \* mutant: the mask lets every port through
Behind(i) == {j \in SPorts : IF ARB_LSB_HIGH_PRIORITY THEN j > i ELSE j < i}

(* The registers after a clock edge with a set of requests.                *)
Arbitrate(arbiter, request, acknowledged) ==
    LET masked == request \cap arbiter.mask
        chosen == IF ARB_TYPE_ROUND_ROBIN /\ masked # {} THEN First(masked)
                  ELSE First(request)
    IN  IF arbiter.grant # NoGrant /\ ~acknowledged THEN arbiter
        ELSE IF request = {} THEN [arbiter EXCEPT !.grant = NoGrant]
        ELSE [ grant |-> chosen,
               mask  |-> IF ARB_TYPE_ROUND_ROBIN THEN Behind(chosen) ELSE arbiter.mask ]
=============================================================================
