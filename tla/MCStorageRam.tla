---------------------------- MODULE MCStorageRam ----------------------------
(* The storage machine with the test bench memory, a few names apart.      *)
EXTENDS StorageRam

(* Domains of one label of up to two letters: each fills three or four     *)
(* bytes of the name register, which has two words of two bytes here.      *)
D(label) == <<label>>
MCDomains == {D(<<a>>) : a \in 1 .. 3} \cup {D(<<a, b>>) : a \in 1 .. 3, b \in 1 .. 3}

NameFrom(d) ==
    [w \in 0 .. NameWords - 1 |->
        InRegister(d)[w * Bytes + 1] * ByteValues + InRegister(d)[w * Bytes]]
NameOf(low, high) == [i \in 0 .. NameWords - 1 |-> IF i = 0 THEN low ELSE high]

Asking(d) == [ZeroPacket EXCEPT !.name = NameFrom(d), !.host = 3]
Plain  == Asking(D(<<1, 2>>))

Ipv6(first) == [q \in 0 .. Quarters - 1 |-> first + q]

(* Two names that share their last word, as under one top level domain,    *)
(* and one that does not; every kind of answer, alone and together.        *)
MCPackets ==
    { Plain,
      [Plain EXCEPT !.nA = 3, !.nCNAME = 2, !.a = [i \in 1 .. AMax |-> 10 + i],
                    !.cname[1] = NameOf(2, 3), !.cname[2] = NameOf(2, 7)],
      [Asking(D(<<2, 2>>)) EXCEPT !.host = 9, !.nAAAA = 2,
                    !.aaaa[1] = Ipv6(5), !.aaaa[2] = Ipv6(4)],
      [Asking(D(<<3>>)) EXCEPT !.nAAAA = 1, !.nCNAME = 1,
                    !.aaaa[1] = Ipv6(5), !.cname[2] = NameOf(2, 3)],
      [Asking(D(<<2, 2>>)) EXCEPT !.nA = 1, !.nAAAA = 1, !.nCNAME = 1,
                    !.a[1] = 8, !.aaaa[1] = Ipv6(4), !.cname[1] = NameOf(2, 3)] }

(* One packet with an address of each kind.                                *)
MixedPackets == {[Asking(D(<<1>>)) EXCEPT !.host = 9, !.nA = 1, !.nAAAA = 1,
                                          !.a[1] = 8, !.aaaa[1] = Ipv6(4)]}

MCMems == {ZeroMem}

(* SDRAM after power-up may hold anything; here every word is a one, so    *)
(* that every flag is set.                                                 *)
GarbledMems == {[a \in Address |-> 1]}
=============================================================================
