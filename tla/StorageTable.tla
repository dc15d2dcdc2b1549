---------------------------- MODULE StorageTable ----------------------------
(***************************************************************************)
(* What the contents of the memory mean, and what the storage machine owes *)
(* to its user when it works on a memory.  The properties here are those   *)
(* of the composition with a memory; StorageRam and StorageSdram say which *)
(* memory.  The machine comes with its hash unit and with the handshake of *)
(* the analyzer, both of which are wired to parser_valid.                  *)
(***************************************************************************)
EXTENDS Storage, Sbdm2048, FiniteSets, Sequences

CONSTANTS
    UartReady,     \* what uart_ready may be; the test bench ties it to 1
    ShowIn,        \* states of the machine in which the next packet may come
    ByteValues,    \* values of a byte                         [256]
    RowBits,       \* bits of the hash that select a bucket    [11]
    Domains        \* the domains that packets may ask for

ASSUME TableAssumption ==
    /\ UartReady \subseteq BOOLEAN /\ UartReady # {}
    /\ ShowIn \subseteq States
    /\ ByteValues^Bytes = Half * Half
    /\ NameWords * Bytes <= QnameBytes

VARIABLES
    mem,           \* the contents of the memory
    ack,           \* wb_ack_i
    answer,        \* wb_data_i
    parser_valid   \* the analyzer shows a packet
busVars == <<vars, hashVars, mem, ack, answer, parser_valid>>

ZeroMem == [a \in Address |-> 0]

FrontInit == HashInit /\ parser_valid = FALSE

(* The register qry_name_reg as the bytes that are wired to the hash unit, *)
(* byte 0 the NUL.                                                         *)
Qname(n) ==
    [i \in 0 .. QnameBytes - 1 |->
        IF i < NameWords * Bytes
          THEN (n[i \div Bytes] \div ByteValues^(i % Bytes)) % ByteValues ELSE 0]

(* The analyzer takes its packet back when it sees parser_ready, and shows *)
(* the next one at some later time.                                        *)
MayShow == state \in ShowIn /\ (state = "IDLE" => parsed_pkts < OffloadAfter)
Show ==
    parser_valid' \in IF parser_valid THEN {~parser_ready}
                      ELSE IF MayShow THEN BOOLEAN ELSE {FALSE}

(* What steps with the machine on every edge, whatever the memory is.      *)
Front == Show /\ HashStep(Qname(pkt.name), parser_valid, TRUE)

(* Traffic that leaves the machine time: the analyzer comes to show a      *)
(* packet only while the machine is idle.  Nothing in the source makes it  *)
(* wait; with ShowIn = {"IDLE"} every step is like this.                   *)
Unhurried == ~parser_valid /\ parser_valid' => state = "IDLE"

-----------------------------------------------------------------------------
(* The memory has nothing to say: a wait state waits, an offload serves    *)
(* the UART.                                                               *)
Wait  == state \in WaitStates /\ UNCHANGED vars
Serve == \E uart_ready \in UartReady :
            IF uart_ready THEN OffloadByte ELSE state = "OFFLOAD" /\ UNCHANGED vars

Take  == parser_valid /\ \E p \in Packets : Capture(p)
Rest  == ~parser_valid /\ IdleQuiet
Hash  == IF qname_ready THEN HashDone ELSE HashBusy
Ask   == Requests \/ ZeroWord \/ IdleOffload
Answered ==
    /\ ack
    /\ \/ Answers(answer)
       \/ \E uart_ready \in UartReady : AnswerOffloadWord(answer, uart_ready)
Unanswered == ~ack /\ (Wait \/ Serve)

(* A clock edge of the storage machine.                                    *)
MachineStep == Rest \/ Take \/ Hash \/ Ask \/ Answered \/ Unanswered

-----------------------------------------------------------------------------
(* The table that the memory holds.                                        *)

At(row, cell, word) == mem[[row |-> row, cell |-> cell, word |-> word]]
StoredName(row, cell) ==
    [i \in 0 .. NameWords - 1 |-> At(row, cell, NameWords - 1 - i)]

(* The cells in use for the name n.                                        *)
CellsOf(n) ==
    {rc \in Row \X Cell : At(rc[1], rc[2], InUse) = 1 /\ StoredName(rc[1], rc[2]) = n}

SlotOf == [queries |-> QueryCount, resolved |-> Resolved, a |-> ACount,
           aaaa |-> AAAACount, cname |-> CNameCount]

(* Two cells for one name are no table.                                    *)
Counted(n, c) ==
    IF state \in {"ZERO", "ZERO_WAIT"} \/ CellsOf(n) = {} THEN 0
    ELSE IF Cardinality(CellsOf(n)) > 1 THEN -1
    ELSE LET rc == CHOOSE x \in CellsOf(n) : TRUE IN At(rc[1], rc[2], SlotOf[c])

Share(p) == [name |-> p.name, queries |-> 1, resolved |-> p.nA + p.nAAAA + p.nCNAME,
             a |-> p.nA, aaaa |-> p.nAAAA, cname |-> p.nCNAME]

Uncounted ==
    CASE state \in {"HASHING", "CHECK_CELLS", "CHECK_CELLS_WAIT", "CHECK_NAME",
                    "CHECK_NAME_WAIT", "WRITE_QNAME", "WRITE_QNAME_WAIT", "SET_IN_USE",
                    "SET_IN_USE_W", "READ_STATS", "READ_STATS_W"} -> DOMAIN SlotOf
      [] state = "UPDATE_STATS" -> {c \in DOMAIN SlotOf : SlotOf[c] >= intrablock}
      [] state = "UPDATE_STATS_W" ->
           {c \in DOMAIN SlotOf :
               \/ SlotOf[c] > intrablock
               \/ SlotOf[c] = intrablock /\ At(hash, interblock, intrablock) # wb.dat}
      [] OTHER -> {}

NamesAsked == {p.name : p \in Packets}
Table == INSTANCE DomainTable
    WITH DomainNames <- NamesAsked,
         Shares      <- {Share(p) : p \in Packets},
         CounterMod  <- Half * Half,
         table   <- [n \in NamesAsked |-> [c \in DOMAIN SlotOf |-> Counted(n, c)]],
         current <- IF state \in {"IDLE", "OFFLOAD", "ZERO", "ZERO_WAIT"}
                      THEN [name |-> "none"] ELSE Share(pkt),
         todo    <- Uncounted

(* The machine and its memory implement the domain table: every packet is  *)
(* counted once, under its own name, in each of the five counters, and the *)
(* memory is clean again when the machine returns from zeroing.            *)
CountsLikeATable == Table!TableSpec

-----------------------------------------------------------------------------
Offloading == state = "OFFLOAD" /\ wb.stb

(* The cell that receives a new name is free: it has no statistics, unless *)
(* it holds that name already.  (Cells are probed for their flag, then for *)
(* their name; a probe at the wrong word takes a used cell for a free one.) *)
CellTakenIsFree ==
    state = "WRITE_QNAME" /\ data_count = NameWords - 1 =>
        \/ \A s \in StatSlots : At(hash, interblock, s) = 0
        \/ StoredName(hash, interblock) = pkt.name

(* Statistics are only written to a cell in use for the packet's own name. *)
StatisticsOfTheName ==
    state \in {"UPDATE_STATS", "UPDATE_STATS_W"} =>
        /\ At(hash, interblock, InUse) = 1
        /\ StoredName(hash, interblock) = pkt.name

(* The acknowledge that the offload takes for word k of the cell does      *)
(* carry word k, although the strobe never drops between two reads.        *)
OffloadReadsInOrder ==
    state = "OFFLOAD" /\ ack =>
        /\ wb.addr = [Here EXCEPT !.word = intrablock - 1]
        /\ answer = mem[wb.addr]

(* Every byte of the previous word has been offered to the UART when the   *)
(* next word replaces it.                                                  *)
OffloadDropsNoByte ==
    [][ state = "OFFLOAD" /\ intrablock > 1 /\ intrablock' = intrablock + 1 =>
          data_count = Bytes ]_busVars

AAAASlot(k) == [q \in 0 .. Quarters - 1 |-> At(hash, interblock, AAAABase + k * Quarters + q)]

(* When a packet is done, each of its AAAA records is in a slot of its     *)
(* cell: no later step of the same packet damages it.  (A record that ends *)
(* with a zero word is excepted: the querying host may overwrite that      *)
(* word, see RecordsKept.)                                                  *)
AAAARecordsKept ==
    [][ parsed_pkts' = parsed_pkts + 1 =>
          \A i \in 1 .. pkt.nAAAA :
             pkt.aaaa[i][Quarters - 1] # 0 =>
                \E k \in 0 .. AAAASlots - 1 : AAAASlot(k) = pkt.aaaa[i] ]_busVars

(* When a packet is done, its querying host is among the hosts of its cell *)
(* and each of its addresses among the addresses.                          *)
InRegion(word, first, next) ==
    \E o \in first .. next - 1 : At(hash, interblock, o) = word
RecordsKept ==
    [][ parsed_pkts' = parsed_pkts + 1 =>
          /\ InRegion(pkt.host, QHostBase, BlockWords)
          /\ \A i \in 1 .. pkt.nA : InRegion(pkt.a[i], ABase, AAAABase) ]_busVars

(* A packet that was taken is worked off: the machine is idle again or     *)
(* offloads because a part of the cell is full.                            *)
PacketIsWorkedOff == (state = "HASHING") ~> (state \in {"IDLE", "OFFLOAD"})

(* An offload that starts in IDLE reaches the end of the cell, zeroes the  *)
(* memory and returns to IDLE.                                             *)
PlannedOffloadEnds == Offloading ~> (state = "IDLE" /\ mem = ZeroMem)

(* Any offload, also one that begins because no cell or slot is free,      *)
(* comes to an end, and the machine is idle again.                         *)
EveryOffloadEnds == (state = "OFFLOAD") ~> (state = "IDLE")

-----------------------------------------------------------------------------
(* The script that predicts the buckets.                                   *)

Py == INSTANCE DomainHash
    WITH PyShift1 <- Shift1, PyShift2 <- Shift2

(* The bytes of a domain in the name register.                             *)
InRegister(d) ==
    LET bytes == Append(Py!DomainArray(d), 0)
    IN  [i \in 0 .. QnameBytes - 1 |-> IF i < Len(bytes) THEN bytes[Len(bytes) - i] ELSE 0]

(* When the machine goes on, the hash unit has the hash of the name of the *)
(* packet, all of it and nothing of the name before, and its lower bits    *)
(* are the bucket that domainhash.py predicts for that domain.             *)
HashIsOfTheName ==
    [][ state = "HASHING" /\ state' = "CHECK_CELLS" =>
          \A d \in Domains :
             InRegister(d) = Qname(pkt.name) =>
                hash_value % 2^RowBits = Py!CalculateDomainLsb(d) ]_busVars

=============================================================================
