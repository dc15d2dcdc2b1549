----------------------------- MODULE MCStorage -----------------------------
(* The storage machine on its own, with a memory that may answer anything. *)
EXTENDS StorageInvariants

NameOf(low, high) == [i \in 0 .. NameWords - 1 |-> IF i = 0 THEN low ELSE high]
Plain == [ZeroPacket EXCEPT !.name = NameOf(2, 1), !.host = 3]

(* A question, an answer of one record of each kind, and packets that      *)
(* count more records of a kind than they have registers for.              *)
MCPackets ==
    { Plain,
      [Plain EXCEPT !.nA = 1, !.nAAAA = 1, !.nCNAME = 1,
                    !.a[1] = 3, !.aaaa[1] = [q \in 0 .. Quarters - 1 |-> q + 1],
                    !.cname[1] = NameOf(2, 3)],
      [Plain EXCEPT !.nA = AMax + 1, !.a = [i \in 1 .. AMax |-> i]],
      [Plain EXCEPT !.nAAAA = 2, !.nCNAME = 3, !.name = NameOf(0, 2),
                    !.aaaa[1] = [q \in 0 .. Quarters - 1 |-> 3 - q],
                    !.aaaa[2] = [q \in 0 .. Quarters - 1 |-> q + 2]] }

(* Bounds of the run: the memory answers anything, except that a stored    *)
(* statistic is 0 or 3 (3 for the counts that decide about space and for   *)
(* the query count, which then wraps), and an offloaded word is 0.         *)
Bounded ==
    /\ state = "READ_STATS_W" =>
          blk'[intrablock] \in
             IF intrablock \in {QueryCount, AAAACount, CNameCount} THEN {0, 3} ELSE {0}
    /\ latched' = 0

=============================================================================
