----------------------------- MODULE FrameSwitch ----------------------------
(***************************************************************************)
(* What the AXI stream modules promise together: every word of a frame     *)
(* comes out once at the output that the frame is for, if there is that    *)
(* output, and once at the monitor, if there is one; there frames come     *)
(* whole and one after the other, those of a port in order.                *)
(***************************************************************************)
EXTENDS Integers, Sequences

CONSTANTS
    Ports, Outputs,
    Monitor,  \* not an output
    Stream    \* what a port sends over and over: words [start, last, dest]

VARIABLES
    monitored,  \* there is a monitor
    next,       \* the number of the next word to pass, by port
    seen        \* the words that a sink will see

fsVars == <<monitored, next, seen>>

Sinks == Outputs \cup {Monitor}

FsInit ==
    /\ monitored \in BOOLEAN
    /\ next = [p \in Ports |-> 1] /\ seen = [s \in Sinks |-> <<>>]

To(p) ==
    ({Stream[p][next[p]].dest} \cap Outputs) \cup (IF monitored THEN {Monitor} ELSE {})

Sent(p) == [port |-> p, id |-> p, k |-> next[p]]

(* The ports in passing have a word go on. *)
Pass(passing) ==
    /\ next' = [p \in Ports |-> IF p \in passing THEN (next[p] % Len(Stream[p])) + 1
                                ELSE next[p]]
    /\ \A p \in passing : \A q \in Ports \ {p} :
          To(p) \cap To(q) # {} => q \notin passing /\ Stream[q][next[q]].start

Gained(s, passing) ==
    IF \E p \in passing : s \in To(p)
      THEN <<Sent(CHOOSE p \in passing : s \in To(p))>> ELSE <<>>

(* What the sinks will see, some of them having taken a word. *)
Moved(s, passing) ==
    {t \o Gained(s, passing) : t \in {seen[s]} \cup
                                     (IF seen[s] = <<>> THEN {} ELSE {Tail(seen[s])})}

FsNext ==
    /\ \E passing \in SUBSET Ports :
          Pass(passing) /\ \A s \in Sinks : seen'[s] \in Moved(s, passing)
    /\ DOMAIN seen' = Sinks /\ UNCHANGED monitored

FsSpec == FsInit /\ [][FsNext]_fsVars
=============================================================================
