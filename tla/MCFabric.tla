------------------------------ MODULE MCFabric ------------------------------
(* Two sources: a frame of two words for output 1; and frames of one word  *)
(* for outputs 1 and 2 and one of two for the port that two bits can name  *)
(* and that is not there.                                                  *)
EXTENDS Fabric

W(start, last, dest) == [start |-> start, last |-> last, dest |-> dest]

MCStreams ==
    [p \in SPorts |->
        IF p = 0 THEN <<W(TRUE, FALSE, 1), W(FALSE, TRUE, 1)>>
        ELSE <<W(TRUE, TRUE, 2), W(TRUE, TRUE, 1), W(TRUE, FALSE, 3), W(FALSE, TRUE, 3)>>]
=============================================================================
