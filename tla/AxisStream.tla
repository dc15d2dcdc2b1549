----------------------------- MODULE AxisStream -----------------------------
(***************************************************************************)
(* What the modules of the AXI stream library (src/axis) share: the two    *)
(* registers behind every output, of which the second takes the word that  *)
(* is under way when a sink stops, and the widths of port numbers.  A      *)
(* register that may hold a word is a sequence of none or one; what a      *)
(* stage has for its outputs is a function of them.                        *)
(***************************************************************************)
EXTENDS Integers, Sequences

Idle(ports) == [q \in ports |-> <<>>]

Valid(slot) == \E q \in DOMAIN slot : slot[q] # <<>>

DatapathInit(ports) == [ready |-> FALSE, out |-> Idle(ports), temp |-> Idle(ports)]

(* One clock edge of an output datapath s.  in is what the module has for  *)
(* it, taken the outputs whose word is accepted, and moved holds when all  *)
(* of the output register is, as the module puts it.                       *)
Datapath(s, in, taken, moved) ==
    LET free == moved \/ ~Valid(s.out)
        left == [q \in DOMAIN s.out |-> IF q \in taken THEN <<>> ELSE s.out[q]]
    IN  [ready |-> moved \/ (~Valid(s.temp) /\ (~Valid(s.out) \/ ~Valid(in))),
         out   |-> IF s.ready THEN IF free THEN in ELSE left
                   ELSE IF moved THEN s.temp ELSE left,
         temp  |-> IF s.ready THEN IF free THEN s.temp ELSE in
                   ELSE IF moved THEN Idle(DOMAIN s.temp) ELSE s.temp]

(* (n - 1).bit_length() of the wrapper scripts, and $clog2 of the modules. *)
BitLength(k) == CHOOSE b \in 0 .. k : k < 2^b /\ \A c \in 0 .. b - 1 : 2^c <= k
CLog2(n) == CHOOSE b \in 0 .. n : n <= 2^b /\ \A c \in 0 .. b - 1 : 2^c < n
=============================================================================
