----------------------------- MODULE DomainHash -----------------------------
(***************************************************************************)
(* dns-parse-sim/domainhash.py: the script that tells from a log of DNS    *)
(* packets whether the hash map of the device can hold all domains, by the *)
(* bucket that each falls into.  It is the reference for sbdm2048.v.  A    *)
(* domain is the sequence of its labels, and a label the sequence of its   *)
(* bytes.                                                                  *)
(***************************************************************************)
EXTENDS Integers, SequencesExt

CONSTANTS
    PyShift1, PyShift2,   \* the shifts of the sdbm hash            [6, 16]
    RowBits               \* bits of the hash the device looks at   [11]

(* The domain as it is in the packet: each label after its length, without *)
(* the NUL at the end.                                                     *)
DomainArray(domain) ==
    FlattenSeq([i \in DOMAIN domain |-> <<Len(domain[i])>> \o domain[i]])

(* Python's integers do not wrap; the hash is cut to 11 bits at the end.   *)
CalculateDomainLsb(domain) ==
    LET Sdbm(h, c) == c + h * 2^PyShift1 + h * 2^PyShift2 - h
    IN  FoldLeft(Sdbm, 0, DomainArray(domain)) % 2^RowBits

=============================================================================
