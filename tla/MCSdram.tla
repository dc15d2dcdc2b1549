------------------------------- MODULE MCSdram -------------------------------
(* The controller with two rows of one column, and words of one bit.        *)
EXTENDS SdramBus

MCCells == {[a \in ChipAddress |-> 0]}
=============================================================================
