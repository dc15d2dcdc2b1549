--------------------------- MODULE MCStorageSdram ---------------------------
(* The storage machine on the SDRAM controller.                            *)
EXTENDS StorageSdram

NameOf(low, high) == [i \in 0 .. NameWords - 1 |-> IF i = 0 THEN low ELSE high]
Plain == [ZeroPacket EXCEPT !.name = NameOf(2, 5), !.host = 3]

MCPackets ==
    { Plain,
      [Plain EXCEPT !.name = NameOf(2, 6), !.host = 9, !.nA = 1, !.nAAAA = 1, !.nCNAME = 1,
                    !.a[1] = 8, !.aaaa[1] = [q \in 0 .. Quarters - 1 |-> 4 + q],
                    !.cname[1] = NameOf(2, 3)],
      [Plain EXCEPT !.name = NameOf(2, 6), !.nA = 2, !.a = [i \in 1 .. AMax |-> 8 + i]] }
=============================================================================
