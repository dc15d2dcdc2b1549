------------------------------ MODULE Sbdm2048 ------------------------------
(***************************************************************************)
(* sbdm2048.v: the unit that hashes a domain name of 256 bytes, one byte   *)
(* at every clock edge, from the most significant one down to byte 1.      *)
(* (Byte 0 is the NUL at the end of the name and does not enter.)  One     *)
(* step is one clock edge; what the unit is wired to is a parameter.       *)
(***************************************************************************)
EXTENDS Integers

CONSTANTS
    QnameBytes,    \* bytes of the name register      [256]
    HashBits,      \* width of the hash               [32]
    Shift1, Shift2 \* the shifts of the sdbm hash     [6, 16]

ASSUME HashAssumption == {QnameBytes, HashBits, Shift1, Shift2} \subseteq Nat \ {0}

VARIABLES
    hash_state,    \* state_reg
    counter,       \* counter_reg
    hash_value,    \* hash_reg
    qname_ready,   \* qname_ready_reg
    hash_valid     \* hash_valid_reg

hashVars == <<hash_state, counter, hash_value, qname_ready, hash_valid>>

HashInit ==
    /\ hash_state = "IDLE"
    /\ counter = QnameBytes - 1
    /\ hash_value = 0
    /\ qname_ready = FALSE /\ hash_valid = FALSE

SdbmStep(byte, h) == (byte + h * 2^Shift1 + h * 2^Shift2 - h) % 2^HashBits

(* Mutant: the hash of the name before is not cleared.                     *)
MutHashStart ==
    /\ hash_state = "IDLE"
    /\ hash_state' = "HASH"
    /\ qname_ready' = FALSE
    /\ UNCHANGED hash_value

(* A new name is accepted, whether or not the last result was taken.       *)
HashStart ==
    /\ hash_state = "IDLE"
    /\ hash_state' = "HASH"
    /\ hash_value' = 0
    /\ qname_ready' = FALSE

HashRest(hash_ready) ==
    /\ hash_state = "IDLE"
    /\ qname_ready' = ~(hash_valid /\ ~hash_ready)
    /\ UNCHANGED <<hash_state, hash_value>>

HashIdle(qname_valid, hash_ready) ==
    /\ IF qname_valid THEN HashStart ELSE HashRest(hash_ready)
    /\ counter' = QnameBytes - 1
    /\ hash_valid' = (hash_valid /\ ~hash_ready)

HashByte(qname) ==
    /\ hash_state = "HASH" /\ counter # 0
    /\ hash_value' = SdbmStep(qname[counter], hash_value)
    /\ counter' = counter - 1
    /\ hash_valid' = FALSE
    /\ UNCHANGED <<hash_state, qname_ready>>

HashEnd ==
    /\ hash_state = "HASH" /\ counter = 0
    /\ hash_state' = "IDLE"
    /\ hash_valid' = TRUE
    /\ UNCHANGED <<counter, hash_value, qname_ready>>

(* A clock edge; qname[i] is byte i of the register that is hashed.        *)
HashStep(qname, qname_valid, hash_ready) ==
    HashIdle(qname_valid, hash_ready) \/ HashByte(qname) \/ HashEnd

=============================================================================
