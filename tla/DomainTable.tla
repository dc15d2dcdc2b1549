---------------------------- MODULE DomainTable ----------------------------
(***************************************************************************)
(* What the storage machine promises to its user: a table that counts, for *)
(* every domain name, the packets seen and the answers they carried.  A    *)
(* packet adds its share to each counter of its own name exactly once, no  *)
(* other step changes a counter, and the table is only ever cleared as a   *)
(* whole.  Counters are as wide as a memory word.                          *)
(***************************************************************************)
EXTENDS Integers

CONSTANTS
    DomainNames,   \* the names that packets ask for
    Shares,        \* the packets: [name, queries, resolved, a, aaaa, cname]
    CounterMod     \* a counter wraps at this value

Counters == {"queries", "resolved", "a", "aaaa", "cname"}
NoPacket == [name |-> "none"]

VARIABLES
    table,     \* the counters of every name
    current,   \* the packet being counted
    todo       \* the counters it has not reached yet

EmptyTable == [n \in DomainNames |-> [c \in Counters |-> 0]]

TableInit ==
    /\ table = EmptyTable
    /\ current = NoPacket
    /\ todo = {}

Begin(p) ==
    /\ current = NoPacket
    /\ current' = p
    /\ todo' = Counters
    /\ UNCHANGED table

Add(c) ==
    /\ c \in todo
    /\ table' = [table EXCEPT ![current.name][c] = (@ + current[c]) % CounterMod]
    /\ todo' = todo \ {c}
    /\ UNCHANGED current

Finish ==
    /\ current # NoPacket
    /\ todo = {}
    /\ current' = NoPacket
    /\ UNCHANGED <<table, todo>>

Clear ==
    /\ current = NoPacket
    /\ table' = EmptyTable
    /\ UNCHANGED <<current, todo>>

TableNext ==
    \/ \E p \in Shares : Begin(p)
    \/ \E c \in Counters : Add(c)
    \/ Finish
    \/ Clear

TableSpec == TableInit /\ [][TableNext]_<<table, current, todo>>

=============================================================================
