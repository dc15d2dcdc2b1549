----------------------------- MODULE PacketPipe -----------------------------
(***************************************************************************)
(* What the storage machine may expect of the modules before it: packets   *)
(* come one after the other, each of them is delivered once, with nothing  *)
(* of its neighbours in it, and only one that nobody wants is dropped.     *)
(***************************************************************************)
EXTENDS Integers

CONSTANTS
    Packets,
    Nobody,           \* no packet
    Wanted(_),        \* the packet is to be delivered
    Meaning(_)        \* what is delivered of a packet

VARIABLES
    inflight,
    got               \* [msg, n]: what was delivered last, how many modulo 2

PipeInit == inflight = Nobody /\ got.n = 0

Send == inflight = Nobody /\ inflight' \in Packets /\ UNCHANGED got

Deliver ==
    /\ inflight # Nobody /\ Wanted(inflight)
    /\ got' = [msg |-> Meaning(inflight), n |-> 1 - got.n]
    /\ inflight' = Nobody

DropUnwanted ==
    /\ inflight # Nobody /\ ~Wanted(inflight)
    /\ inflight' = Nobody
    /\ UNCHANGED got

PipeNext == Send \/ Deliver \/ DropUnwanted
PipeSpec == PipeInit /\ [][PipeNext]_<<inflight, got>>

=============================================================================
