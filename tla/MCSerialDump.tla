---------------------------- MODULE MCSerialDump ----------------------------
(* The dump of one small cell.                                             *)
EXTENDS SerialDump

MCPackets == {}
=============================================================================
