---------------------------- MODULE MCVisualizer ----------------------------
(* The visualizer on a list of two, with three urls of the board.          *)
EXTENDS Visualizer

MCCounts == 0 .. 222

(* data.csv: empty, as it is in the repository, or of an earlier use.      *)
MCFirstFile == {<<>>, <<[url |-> "a", count |-> 2]>>}
=============================================================================
