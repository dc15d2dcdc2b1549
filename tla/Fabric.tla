------------------------------- MODULE Fabric -------------------------------
(***************************************************************************)
(* A bench for the AXI stream library: sources on the ports of a mux,      *)
(* which is either the arbitrated one or the one with a select input, its  *)
(* output broadcast to a monitor and to a demux, sinks behind both; or     *)
(* sources and sinks on the ports of a switch.  All modules have one       *)
(* clock.  A source offers words of its stream when it likes and holds a   *)
(* word until it is accepted; a sink is ready, and a select is made, at    *)
(* any edge.                                                               *)
(***************************************************************************)
EXTENDS ArbMux, Mux, Broadcast, Demux, Switch

CONSTANT Streams  \* by port, the words [start, last, dest] sent over and over

ASSUME FabricAssumption ==
    C_COUNT = S_COUNT /\ O_COUNT = M_COUNT /\ I_ID_WIDTH = S_ID_WIDTH /\ B_COUNT > 1

(* A stream is a row of whole frames, each for one destination, which the  *)
(* bits of a port number can name.                                         *)
ASSUME StreamAssumption ==
    \A p \in SPorts :
        LET words == Streams[p]
        IN  /\ words \in Seq([start : BOOLEAN, last : BOOLEAN, dest : Nat])
            /\ words # <<>> /\ words[1].start
            /\ \A k \in DOMAIN words :
                  LET n == (k % Len(words)) + 1
                  IN  /\ words[n].start = words[k].last
                      /\ words[k].last \/ words[n].dest = words[k].dest
                      /\ words[k].dest < 2^CLog2(M_COUNT)

VARIABLES
    bench,      \* which mux it is, or the switch
    at,         \* the number of the word that a source offers, or will
    offered     \* the ports with a word on them

chainVars == <<cast, demuxVars>>
vars == <<arbMuxVars, muxVars, chainVars, switchVars, bench, at, offered>>

ToMonitor == 0    \* the ports of the broadcast
ToDemux == 1

Monitor == M_COUNT  \* the sinks: the monitor, and the outputs by their port
OutputWord(p) == IF bench = "switch" THEN CrossOut(p) ELSE DemuxOut(p)
Waiting == {p \in MPorts : OutputWord(p) # <<>>}
           \cup (IF CastOut(ToMonitor) # <<>> THEN {Monitor} ELSE {})

(* tdest counts with the first word of a frame only; later words say 0.    *)
(* The switch has the port in all of it, the demux in the upper bits.  The *)
(* upper bits of tid are set on the way, but not by the mux with a select. *)
Word(p, k) ==
    LET w == Streams[p][k]
    IN  [port |-> p, k |-> k, last |-> w.last,
         tid |-> 2^S_ID_WIDTH - 1 + (IF bench = "select" THEN p * 2^S_ID_WIDTH ELSE 0),
         tdest |-> IF ~w.start THEN 0
                   ELSE w.dest * (IF bench = "switch" THEN 1 ELSE 2^M_DEST_WIDTH)]

Init ==
    /\ ArbMuxInit /\ MuxInit /\ BroadcastInit /\ DemuxInit /\ SwitchInit
    /\ bench \in {"arbitrated", "select", "switch"}
    /\ at = [p \in SPorts |-> 1] /\ offered = {}

Accepts(p) ==
    \/ bench = "arbitrated" /\ MuxReady(p)
    \/ bench = "select"     /\ ChoiceReady(p)
    \/ bench = "switch"     /\ SwitchReady(p)

Muxed == IF bench = "arbitrated" THEN mux ELSE chosen

ChainStep(ready) ==
    /\ BroadcastStep(Muxed.out[0], (IF Monitor \in ready THEN {ToMonitor} ELSE {})
                                   \cup (IF s_axis_tready THEN {ToDemux} ELSE {}))
    /\ DemuxStep(CastOut(ToDemux), ready)

BenchStep(in, ready) ==
    \/ /\ bench = "arbitrated" /\ UNCHANGED <<muxVars, switchVars>>
       /\ ChainStep(ready) /\ ArbMuxStep(in, cast.ready)
    \/ /\ bench = "select" /\ UNCHANGED <<arbMuxVars, switchVars>>
       /\ ChainStep(ready)
       /\ \/ \E select_in \in SPorts : MuxStep(in, TRUE, select_in, cast.ready)
          \/ MuxStep(in, FALSE, 0, cast.ready)
    \/ /\ bench = "switch" /\ UNCHANGED <<arbMuxVars, muxVars, chainVars>>
       /\ SwitchStep(in, ready)

(* A clock edge with the sinks in ready (only one that has a word counts). *)
Edge(ready) ==
    LET in == [p \in SPorts |-> IF p \in offered THEN <<Word(p, at[p])>> ELSE <<>>]
        accepted == {p \in offered : Accepts(p)}
    IN  /\ BenchStep(in, ready)
        /\ at' = [p \in SPorts |-> IF p \in accepted THEN (at[p] % Len(Streams[p])) + 1
                                   ELSE at[p]]
        /\ offered' \in {(offered \ accepted) \cup more :
                            more \in SUBSET ((SPorts \ offered) \cup accepted)}
        /\ UNCHANGED bench

Next == \E ready \in SUBSET Waiting : Edge(ready)

(* The clock runs: when nothing else can change, a source goes on with its *)
(* next word.  A sink that is shown words again and again takes one some   *)
(* time.  With a select input, nothing is said of when things happen.      *)
Scheduled(ready) == bench # "select" /\ Edge(ready)

Fairness ==
    /\ WF_vars(\E ready \in SUBSET Waiting : Scheduled(ready))
    /\ \A s \in MPorts \cup {Monitor} :
          SF_vars(\E ready \in SUBSET Waiting : s \in ready /\ Scheduled(ready))

Spec == Init /\ [][Next]_vars /\ Fairness

(*************************** properties ************************************)
(* A word by what the receiver can tell: the port in tid, and its payload. *)
Seen(words) ==
    [i \in DOMAIN words |-> [port |-> words[i].port, k |-> words[i].k,
                             id |-> words[i].tid \div 2^S_ID_WIDTH]]

(* The words under way to the monitor; and to output p, with those before  *)
(* the demux by their frame, those behind it by the register.              *)
InCast(q) == CastOut(q) \o cast.temp[CastSlice[q]] \o Muxed.out[0] \o Muxed.temp[0]

Only(p, slot) ==
    IF slot # <<>> /\ Streams[slot[1].port][slot[1].k].dest = p THEN slot ELSE <<>>

Coming(p) ==
    IF bench = "switch" THEN CrossOut(p) \o crossed[OutSlice[p]].temp[0]
    ELSE DemuxOut(p) \o demux.temp[DemuxSlice[p]]
         \o Only(p, CastOut(ToDemux)) \o Only(p, cast.temp[CastSlice[ToDemux]])
         \o Only(p, Muxed.out[0]) \o Only(p, Muxed.temp[0])

(* A word has passed when it is behind the arbiter or the select.          *)
Passing(p) ==
    LET held == IF bench = "arbitrated" THEN s_axis_reg[MuxSlice[p]] ELSE <<>>
    IN  IF held = <<>> THEN at[p] ELSE held[1].k

Frames == INSTANCE FrameSwitch WITH
    Ports <- SPorts, Outputs <- MPorts, Stream <- Streams,
    monitored <- bench # "switch",
    next <- [p \in SPorts |-> Passing(p)],
    seen <- [s \in MPorts \cup {Monitor} |->
                IF s = Monitor THEN Seen(InCast(ToMonitor)) ELSE Seen(Coming(s))]

(* Either way it is a switch of frames: whatever the sinks and sources do, *)
(* nothing is lost, repeated, reordered, sent to another output, mixed     *)
(* with another frame or said to be from another port.                     *)
IsASwitch == Frames!FsSpec

(* With round robin arbitration, of one mux or of every output of a        *)
(* switch, no source waits for ever to begin a frame, whatever the others  *)
(* offer.  (Streams with a frame of several words: one that is served      *)
(* comes to a word that begins no frame.)                                  *)
NoStarvation ==
    \A p \in SPorts :
        LET waits == bench # "select" /\ p \in offered /\ Streams[p][at[p]].start
        IN  waits ~> ~waits
=============================================================================
