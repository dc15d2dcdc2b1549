------------------------------ MODULE Storage ------------------------------
(***************************************************************************)
(* storage.v: the state machine that keeps the DNS statistics in SDRAM.    *)
(*                                                                         *)
(* The machine takes the fields of one parsed DNS packet from the          *)
(* analyzer, finds or makes the cell of the domain name, updates the       *)
(* statistics of the cell and appends the resource records and the         *)
(* querying host that the cell does not hold yet.  After OffloadAfter      *)
(* packets it streams one cell to the UART and zeroes the whole memory.    *)
(*                                                                         *)
(* One step is one clock edge.  Each action is one branch of the case      *)
(* statement over state_reg; an action called Answer... is the part of a   *)
(* wait state that runs when wb_ack_i is high.  A wait state without an    *)
(* acknowledge keeps every register, which is a stuttering step here.      *)
(*                                                                         *)
(* This module is OPEN: the memory may answer any word at any clock edge,  *)
(* and the packet, the hash unit and the UART are free inputs.  StorageRam *)
(* closes it with the memory of the test bench.                            *)
(*                                                                         *)
(* Words are numbers.  The upper and the lower half of a word (Half * Half *)
(* = 2^32) and its lowest bit are the only parts the code ever separates,  *)
(* besides the bytes that go to the UART.  The layout of a cell is a       *)
(* parameter; the values of the code are given in brackets.                *)
(***************************************************************************)
EXTENDS Integers

CONSTANTS
    Rows,          \* hash buckets                             [2^11]
    Cells,         \* cells of a bucket                        [8]
    NameWords,     \* words of a stored name                   [64]
    ABase,         \* first A slot                             [128]
    AAAABase,      \* first AAAA slot                          [512]
    CNameBase,     \* first CNAME slot                         [768]
    QHostBase,     \* first querying host                      [1024]
    BlockWords,    \* words of a cell                          [2048]
    Quarters,      \* words of an AAAA record                  [4]
    Bytes,         \* bytes of a word                          [4]
    Half,          \* values of half a word                    [2^16]
    AMax,          \* A records a packet can carry             [30]
    AAAAMax,       \* AAAA records a packet can count          [7]
    OffloadAfter,  \* packets between two offloads             [2]
    Packets        \* the packets the analyzer may present

Word   == 0 .. Half * Half - 1
Row    == 0 .. Rows - 1
Cell   == 0 .. Cells - 1
Offset == 0 .. BlockWords - 1
Name   == [0 .. NameWords - 1 -> Word]   \* word 0 ends with the NUL of the name

(* The fields of a packet that the machine uses.  ans_cname_count is two   *)
(* bits wide and may say 3 although only two CNAME registers exist.        *)
Packet == [ name   : Name,
            host   : Word,
            a      : [1 .. AMax -> Word],
            aaaa   : [1 .. AAAAMax -> [0 .. Quarters - 1 -> Word]],
            cname  : [1 .. 2 -> Name],
            nA     : 0 .. AMax + 1,
            nAAAA  : 0 .. AAAAMax,
            nCNAME : 0 .. 3 ]

InUse      == NameWords
QueryCount == NameWords + 1
Resolved   == NameWords + 2
QHosts     == NameWords + 3
ACount     == NameWords + 4
AAAACount  == NameWords + 5
CNameCount == NameWords + 6
StatSlots  == QueryCount .. CNameCount

AAAASlots  == (CNameBase - AAAABase) \div Quarters     \* [64]
CNameSlots == (QHostBase - CNameBase) \div NameWords   \* [4]
CNameTop   == CNameBase + NameWords - 1                \* [831]

ASSUME SizeAssumption ==
    /\ {Rows, Cells, NameWords, Quarters, Bytes, AMax, AAAAMax} \subseteq Nat \ {0}
    /\ OffloadAfter \in Nat
    /\ Half \in Nat /\ Half >= 2 /\ Half % 2 = 0

ASSUME LayoutAssumption ==
    /\ {ABase, AAAABase, CNameBase, QHostBase, BlockWords} \subseteq Nat
    /\ NameWords + 6 < ABase
    /\ ABase < AAAABase
    /\ AAAABase < CNameBase /\ (CNameBase - AAAABase) % Quarters = 0
    /\ CNameBase + NameWords <= QHostBase /\ Quarters <= NameWords
    /\ QHostBase + 1 < BlockWords /\ BlockWords % NameWords = 0

ASSUME PacketAssumption == Packets \subseteq Packet

-----------------------------------------------------------------------------
(* Registers.  hdr_*, qry_type, qry_class, ans_type, ans_class, ans_ttl and *)
(* ans_datalen are copied from the packet and never used, cell_flags and    *)
(* overflow are never read: they are left out.                              *)

VARIABLES
    state,         \* state_reg
    data_count,    \* data_count_reg
    intrablock,    \* intrablock_addr_reg
    interblock,    \* interblock_addr_reg
    hash,          \* hash_reg[10:0]
    parser_ready,  \* parser_ready_reg
    parsed_pkts,   \* parsed_pkts_reg
    pkt,           \* qry_name_reg, ans_*_reg and dest_ip_reg
    left,          \* ans_a_count_reg, ans_aaaa_count_reg, ans_cname_count_reg
    blk,           \* the six statistics registers, by their slot in the cell
    wb,            \* the Wishbone outputs; wb_cyc is always equal to wb_stb
    latched,       \* wb_data_i_reg
    uart           \* uart_valid_reg and uart_data_reg (a byte: word and index)

place == <<intrablock, interblock, hash>>
work  == <<parsed_pkts, pkt, left, blk>>
side  == <<parser_ready, latched, uart>>
vars  == <<state, data_count, place, work, side, wb>>

Address == [row : Row, cell : Cell, word : Offset]
Zero    == [row |-> 0, cell |-> 0, word |-> 0]
Here    == [row |-> hash, cell |-> interblock, word |-> intrablock]
LastAddress == [row |-> Rows - 1, cell |-> Cells - 1, word |-> BlockWords - 1]

(* Mutant: the end of a cell is not looked at when the address advances.   *)
MutNextAddress(a) == [a EXCEPT !.word = @ + 1]

(* The address after a, which is not the last one, when all three parts    *)
(* are one number.                                                         *)
NextAddress(a) ==
    IF a.word < BlockWords - 1 THEN [a EXCEPT !.word = @ + 1]
    ELSE IF a.cell < Cells - 1 THEN [row |-> a.row, cell |-> a.cell + 1, word |-> 0]
    ELSE [row |-> a.row + 1, cell |-> 0, word |-> 0]

ReadWaits  == {"CHECK_CELLS_WAIT", "CHECK_NAME_WAIT", "READ_STATS_W", "CHECK_A_W",
               "CHECK_AAAA_W", "CHECK_CNAME_W", "CHECK_QHOST_W", "READ_QHOST_STAT_W"}
WriteWaits == {"ZERO_WAIT", "WRITE_QNAME_WAIT", "SET_IN_USE_W", "UPDATE_STATS_W",
               "APPEND_A_W", "APPEND_AAAA_W", "APPEND_CNAME_W", "WRITE_QHOST_W",
               "UPDATE_QHOST_STAT_W"}
WaitStates == ReadWaits \cup WriteWaits
States == WaitStates \cup
    {"IDLE", "HASHING", "OFFLOAD", "ZERO", "CHECK_CELLS", "CHECK_NAME", "WRITE_QNAME",
     "SET_IN_USE", "READ_STATS", "UPDATE_STATS", "CHECK_A", "APPEND_A", "CHECK_AAAA",
     "APPEND_AAAA", "CHECK_CNAME", "APPEND_CNAME", "CHECK_QHOST", "WRITE_QHOST",
     "READ_QHOST_STAT", "UPDATE_QHOST_STAT"}

(* A register without a reset value powers up as zero.                     *)
ZeroName   == [i \in 0 .. NameWords - 1 |-> 0]
ZeroPacket ==
    [ name |-> ZeroName, host |-> 0, a |-> [i \in 1 .. AMax |-> 0],
      aaaa |-> [i \in 1 .. AAAAMax |-> [q \in 0 .. Quarters - 1 |-> 0]],
      cname |-> [i \in 1 .. 2 |-> ZeroName], nA |-> 0, nAAAA |-> 0, nCNAME |-> 0 ]

Init ==
    /\ state = "IDLE"
    /\ data_count = 0 /\ intrablock = 0 /\ interblock = 0 /\ hash = 0
    /\ parser_ready = FALSE /\ parsed_pkts = 0
    /\ pkt = ZeroPacket
    /\ left = [a |-> 0, aaaa |-> 0, cname |-> 0]
    /\ blk = [s \in StatSlots |-> 0]
    /\ wb = [addr |-> Zero, dat |-> 0, we |-> FALSE, stb |-> FALSE]
    /\ latched = 0
    /\ uart = [valid |-> FALSE, word |-> 0, byte |-> 0]

-----------------------------------------------------------------------------
(* The packet registers as the code indexes them.  Each operator returns   *)
(* the SET of words the build may read: one word, or every word that       *)
(* agrees with the bits in range when the part-select leaves the register. *)

(* ans_addr_reg holds {ans_addr, .., ans_addr_30, 16'b0}, zero-extended to *)
(* 1024 bits, so no 32-bit window of the code falls on a whole address.    *)
Addr(k) == IF k \in 1 .. AMax THEN pkt.a[k] ELSE 0

(* ans_addr_reg[1023 - ((n - 1) * 32) +: 32]: for n = 0 nothing and for    *)
(* n = 1 only bit 1023, which is zero, is in range.                        *)
ACompareWords(n) ==
    IF n = 0 THEN Word
    ELSE IF n = 1 THEN {w \in Word : w % 2 = 0}
    ELSE {(Addr(n - 3) % (Half \div 2)) * (2 * Half) + Addr(n - 2) \div (Half \div 2)}

(* ans_addr_reg[n * 32 +: 32]                                              *)
AAppendWord(n) ==
    (Addr(AMax - n) % Half) * Half + Addr(AMax + 1 - n) \div Half

(* ans_aaaa_addr_reg[1023 - (((count - 1) * 4 + data_count) * 32) -: 32]   *)
AAAAWord == pkt.aaaa[left.aaaa][data_count]

(* ans_cname_reg[((count - 1) * 64 + i) * 32 +: 32] of                     *)
(* {ans_cname_1, ans_cname_2}: count 1 selects ans_cname_2, count 3 leaves *)
(* the register.                                                           *)
CNameWords(i) ==
    IF left.cname \in 1 .. 2 THEN {pkt.cname[3 - left.cname][i]} ELSE Word

AAAASpace  == (blk[AAAACount] + left.aaaa) % (Half * Half) <= AAAASlots
CNameSpace == (blk[CNameCount] + left.cname) % (Half * Half) <= CNameSlots

(* Mutant: the A and the AAAA counts are swapped.                          *)
MutNewStat(s) ==
    (CASE s = QueryCount -> blk[s] + 1
       [] s = Resolved   -> blk[s] + left.a + left.aaaa + left.cname
       [] s = ACount     -> blk[s] + left.aaaa
       [] s = AAAACount  -> blk[s] + left.a
       [] s = CNameCount -> blk[s] + left.cname
       [] OTHER          -> blk[s]) % (Half * Half)

(* The value UPDATE_STATS writes to statistics slot s.                     *)
NewStat(s) ==
    (CASE s = QueryCount -> blk[s] + 1
       [] s = Resolved   -> blk[s] + left.a + left.aaaa + left.cname
       [] s = ACount     -> blk[s] + left.a
       [] s = AAAACount  -> blk[s] + left.aaaa
       [] s = CNameCount -> blk[s] + left.cname
       [] OTHER          -> blk[s]) % (Half * Half)

(* Mutant: UPDATE_STATS does not skip QHosts.                              *)
MutNextStat(s) == s + 1

(* QHosts is left to UPDATE_QHOST_STAT.                                    *)
NextStat(s) == IF s = Resolved THEN ACount ELSE s + 1

-----------------------------------------------------------------------------
(* Steps shared by the states.                                             *)

Goto(s, offset, count) == state' = s /\ intrablock' = offset /\ data_count' = count

(* Mutants: data_count is not cleared; the scan starts at the first word.   *)
MutStartAAAA  == Goto("CHECK_AAAA", AAAABase, data_count)
MutStartCName == Goto("CHECK_CNAME", CNameBase, 0)

StartAAAA  == Goto("CHECK_AAAA", AAAABase, 0)
StartCName == Goto("CHECK_CNAME", CNameTop, 0)
StartQHost == Goto("CHECK_QHOST", QHostBase, data_count)
Overflow   == Goto("OFFLOAD", intrablock, data_count)

Drop      == wb' = [wb EXCEPT !.stb = FALSE]
DropWrite == wb' = [wb EXCEPT !.stb = FALSE, !.we = FALSE]

(* Mutant: the address stays the one of the access before.                 *)
MutRequest(from, to, we, dat) ==
    /\ state = from
    /\ state' = to
    /\ wb' = [wb EXCEPT !.dat = dat, !.we = we, !.stb = TRUE]
    /\ UNCHANGED <<data_count, place, work, side>>

(* A request state drives the bus with the current position for the wait   *)
(* state that follows it.                                                  *)
Request(from, to, we, dat) ==
    /\ state = from
    /\ state' = to
    /\ wb' = [addr |-> Here, dat |-> dat, we |-> we, stb |-> TRUE]
    /\ UNCHANGED <<data_count, place, work, side>>

CheckCells    == Request("CHECK_CELLS", "CHECK_CELLS_WAIT", FALSE, wb.dat)
CheckName     == Request("CHECK_NAME", "CHECK_NAME_WAIT", FALSE, wb.dat)
ReadStats     == Request("READ_STATS", "READ_STATS_W", FALSE, wb.dat)
CheckA        == Request("CHECK_A", "CHECK_A_W", FALSE, wb.dat)
CheckAAAA     == Request("CHECK_AAAA", "CHECK_AAAA_W", FALSE, wb.dat)
CheckCName    == Request("CHECK_CNAME", "CHECK_CNAME_W", FALSE, wb.dat)
(* Mutant: the strobe is not raised.                                       *)
MutCheckQHost ==
    /\ state = "CHECK_QHOST"
    /\ state' = "CHECK_QHOST_W"
    /\ wb' = [wb EXCEPT !.addr = Here, !.we = FALSE]
    /\ UNCHANGED <<data_count, place, work, side>>

CheckQHost    == Request("CHECK_QHOST", "CHECK_QHOST_W", FALSE, wb.dat)
ReadQHostStat == Request("READ_QHOST_STAT", "READ_QHOST_STAT_W", FALSE, wb.dat)

(* Mutants: the name is written first word first; the flag is written as 0; *)
(* the sum is taken again after NextStat; the first quarter goes to every   *)
(* word of the record.                                                      *)
MutWriteQName ==
    Request("WRITE_QNAME", "WRITE_QNAME_WAIT", TRUE, pkt.name[intrablock])
MutSetInUse == Request("SET_IN_USE", "SET_IN_USE_W", TRUE, 0)
MutUpdateStats ==
    Request("UPDATE_STATS", "UPDATE_STATS_W", TRUE, NewStat(NextStat(intrablock)))
MutAppendAAAA ==
    Request("APPEND_AAAA", "APPEND_AAAA_W", TRUE, pkt.aaaa[left.aaaa][0])

WriteQName ==
    Request("WRITE_QNAME", "WRITE_QNAME_WAIT", TRUE, pkt.name[data_count])
SetInUse == Request("SET_IN_USE", "SET_IN_USE_W", TRUE, 1)
UpdateStats == Request("UPDATE_STATS", "UPDATE_STATS_W", TRUE, wb.dat)
(* ans_a_count is the input wire: the analyzer may have moved on.          *)
AppendA(ans_a_count) ==
    Request("APPEND_A", "APPEND_A_W", TRUE, AAppendWord(ans_a_count))
AppendAAAA == Request("APPEND_AAAA", "APPEND_AAAA_W", TRUE, AAAAWord)
AppendCName ==
    /\ state = "APPEND_CNAME"
    /\ \E w \in CNameWords(data_count) :
          Request("APPEND_CNAME", "APPEND_CNAME_W", TRUE, w)
WriteQHost == Request("WRITE_QHOST", "WRITE_QHOST_W", TRUE, pkt.host)
UpdateQHostStat ==
    Request("UPDATE_QHOST_STAT", "UPDATE_QHOST_STAT_W", TRUE, wb.dat)

-----------------------------------------------------------------------------
(* Zeroing the memory: the address is kept in wb_addr_reg itself.          *)

ZeroWord ==
    /\ state = "ZERO"
    /\ state' = "ZERO_WAIT"
    /\ wb' = [wb EXCEPT !.stb = TRUE, !.we = TRUE, !.dat = 0]
    /\ parsed_pkts' = 0
    /\ UNCHANGED <<data_count, place, pkt, left, blk, side>>

AnswerZero ==
    /\ state = "ZERO_WAIT"
    /\ \/ /\ wb.addr = LastAddress
          /\ DropWrite
          /\ state' = "IDLE"
       \/ /\ wb.addr # LastAddress
          /\ wb' = [wb EXCEPT !.stb = FALSE, !.we = FALSE, !.addr = NextAddress(@)]
          /\ state' = "ZERO"
    /\ UNCHANGED <<data_count, place, work, side>>

-----------------------------------------------------------------------------
(* Taking a packet.                                                        *)

(* Mutant: the position still is the word on the bus.                      *)
MutIdleOffload ==
    /\ state = "IDLE"
    /\ parsed_pkts >= OffloadAfter
    /\ parser_ready' = TRUE
    /\ Goto("OFFLOAD", 0, data_count)
    /\ wb' = [wb EXCEPT !.addr = [Here EXCEPT !.word = 0], !.stb = TRUE, !.we = FALSE]
    /\ UNCHANGED <<interblock, hash, work, latched, uart>>

IdleOffload ==
    /\ state = "IDLE"
    /\ parsed_pkts >= OffloadAfter
    /\ parser_ready' = TRUE
    /\ Goto("OFFLOAD", 1, data_count)
    /\ wb' = [wb EXCEPT !.addr = [Here EXCEPT !.word = 0], !.stb = TRUE, !.we = FALSE]
    /\ UNCHANGED <<interblock, hash, work, latched, uart>>

Capture(p) ==
    /\ state = "IDLE"
    /\ parsed_pkts < OffloadAfter
    /\ parser_ready' = TRUE
    /\ Goto("HASHING", InUse, NameWords - 1)
    /\ interblock' = 0
    /\ pkt' = p
    /\ left' = [a |-> p.nA, aaaa |-> p.nAAAA, cname |-> p.nCNAME]
    /\ UNCHANGED <<hash, parsed_pkts, blk, latched, uart, wb>>

IdleQuiet ==
    /\ state = "IDLE"
    /\ parsed_pkts < OffloadAfter
    /\ parser_ready' = TRUE
    /\ UNCHANGED <<state, data_count, place, work, latched, uart, wb>>

HashBusy ==
    /\ state = "HASHING"
    /\ parser_ready' = FALSE
    /\ UNCHANGED <<state, data_count, place, work, latched, uart, wb>>

(* The hash unit is ready; its result is not used.                         *)
HashDone ==
    /\ state = "HASHING"
    /\ parser_ready' = FALSE
    /\ hash' = 0
    /\ state' = "CHECK_CELLS"
    /\ UNCHANGED <<data_count, intrablock, interblock, work, latched, uart, wb>>

-----------------------------------------------------------------------------
(* Finding the cell of the name.                                           *)

(* Mutant: a new name is written from the flag on.                         *)
MutAnswerCheckCells(din) ==
    /\ state = "CHECK_CELLS_WAIT"
    /\ Drop
    /\ IF din % 2 = 1
         THEN Goto("CHECK_NAME", NameWords - 1, data_count)
         ELSE Goto("WRITE_QNAME", intrablock, data_count)
    /\ UNCHANGED <<interblock, hash, work, side>>

AnswerCheckCells(din) ==
    /\ state = "CHECK_CELLS_WAIT"
    /\ Drop
    /\ IF din % 2 = 1
         THEN Goto("CHECK_NAME", NameWords - 1, data_count)
         ELSE Goto("WRITE_QNAME", 0, data_count)
    /\ UNCHANGED <<interblock, hash, work, side>>

(* Mutant: the last word is not compared.                                  *)
MutNameMatches(din) == din = 0 \/ intrablock = 0

(* The end of a stored name shows as a zero word.                          *)
NameMatches(din) == din = 0 \/ (intrablock = 0 /\ din = pkt.name[NameWords - 1])

AnswerCheckName(din) ==
    /\ state = "CHECK_NAME_WAIT"
    /\ Drop
    /\ \/ /\ NameMatches(din)
          /\ Goto("READ_STATS", QueryCount, data_count)
          /\ UNCHANGED interblock
       \/ /\ ~NameMatches(din)
          /\ din = pkt.name[NameWords - 1 - intrablock]
          /\ Goto("CHECK_NAME", intrablock - 1, data_count)
          /\ UNCHANGED interblock
       \/ /\ ~NameMatches(din)
          /\ din # pkt.name[NameWords - 1 - intrablock]
          /\ IF interblock = Cells - 1
               THEN Overflow /\ UNCHANGED interblock
               ELSE /\ Goto("CHECK_CELLS", intrablock, data_count)
                    /\ interblock' = interblock + 1
    /\ UNCHANGED <<hash, work, side>>

AnswerWriteQName ==
    /\ state = "WRITE_QNAME_WAIT"
    /\ DropWrite
    /\ IF data_count = 0
         THEN Goto("SET_IN_USE", InUse, data_count)
         ELSE Goto("WRITE_QNAME", intrablock + 1, data_count - 1)
    /\ UNCHANGED <<interblock, hash, work, side>>

AnswerSetInUse ==
    /\ state = "SET_IN_USE_W"
    /\ DropWrite
    /\ Goto("READ_STATS", QueryCount, data_count)
    /\ UNCHANGED <<interblock, hash, work, side>>

-----------------------------------------------------------------------------
(* Reading and writing the statistics.  The data of the next write is put  *)
(* on wb_data_o while the previous access is being acknowledged.           *)

AnswerReadStats(din) ==
    /\ state = "READ_STATS_W"
    /\ blk' = [blk EXCEPT ![intrablock] = din]
    /\ \/ /\ intrablock # CNameCount
          /\ Drop
          /\ Goto("READ_STATS", intrablock + 1, data_count)
       \/ /\ intrablock = CNameCount
          /\ wb' = [wb EXCEPT !.stb = FALSE, !.dat = NewStat(QueryCount)]
          /\ Goto("UPDATE_STATS", QueryCount, data_count)
    /\ UNCHANGED <<interblock, hash, parsed_pkts, pkt, left, side>>

AfterStats ==
    IF left.a > 0 THEN Goto("CHECK_A", ABase, data_count)
    ELSE IF left.aaaa > 0 THEN IF AAAASpace THEN StartAAAA ELSE Overflow
    ELSE IF left.cname > 0 /\ CNameSpace THEN StartCName
    ELSE StartQHost

AnswerUpdateStats ==
    /\ state = "UPDATE_STATS_W"
    /\ \/ /\ intrablock # CNameCount
          /\ wb' = [wb EXCEPT !.stb = FALSE, !.we = FALSE,
                              !.dat = NewStat(NextStat(intrablock))]
          /\ Goto("UPDATE_STATS", NextStat(intrablock), data_count)
       \/ /\ intrablock = CNameCount
          /\ DropWrite
          /\ AfterStats
    /\ UNCHANGED <<interblock, hash, work, side>>

-----------------------------------------------------------------------------
(* A records: left.a + 1 rounds, the last one with left.a = 0.             *)

(* Mutant: an off-by-one in the test for AAAA records.                     *)
MutAfterA == IF left.aaaa >= 0 THEN StartAAAA ELSE StartQHost

AfterA ==
    IF left.aaaa > 0 THEN StartAAAA
    ELSE IF left.cname > 0 THEN StartCName
    ELSE StartQHost

AnswerCheckA(din, ans_a_count) ==
    /\ state = "CHECK_A_W"
    /\ \E w \in ACompareWords(ans_a_count) :
         \/ /\ din = w /\ left.a = 0
            /\ AfterA
            /\ Drop
            /\ UNCHANGED left
         \/ /\ din = w /\ left.a > 0
            /\ left' = [left EXCEPT !.a = @ - 1]
            /\ Goto("CHECK_A", ABase, data_count)
            /\ UNCHANGED wb
         \/ /\ din # w /\ intrablock = AAAABase - 1
            /\ Overflow
            /\ Drop
            /\ UNCHANGED left
         \/ /\ din # w /\ intrablock # AAAABase - 1
            /\ IF din = 0
                 THEN Goto("APPEND_A", intrablock, data_count)
                 ELSE Goto("CHECK_A", intrablock + 1, data_count)
            /\ UNCHANGED <<left, wb>>
    /\ UNCHANGED <<interblock, hash, parsed_pkts, pkt, blk, side>>

(* wb_we stays high whatever follows.                                      *)
AnswerAppendA ==
    /\ state = "APPEND_A_W"
    /\ IF left.a = 0
         THEN /\ AfterA
              /\ wb' = [wb EXCEPT !.stb = FALSE, !.we = TRUE]
              /\ UNCHANGED left
         ELSE /\ left' = [left EXCEPT !.a = @ - 1]
              /\ Goto("CHECK_A", ABase, data_count)
              /\ wb' = [wb EXCEPT !.stb = TRUE, !.we = TRUE]
    /\ UNCHANGED <<interblock, hash, parsed_pkts, pkt, blk, side>>

-----------------------------------------------------------------------------
(* AAAA records: left.aaaa down to 1, a quarter at a time.                 *)

LastQuarter == data_count = Quarters - 1

AnswerCheckAAAA(din) ==
    /\ state = "CHECK_AAAA_W"
    /\ DropWrite
    /\ \/ /\ din = AAAAWord /\ LastQuarter /\ left.aaaa = 1
          /\ IF left.cname > 0 /\ CNameSpace THEN StartCName ELSE StartQHost
          /\ UNCHANGED left
       \/ /\ din = AAAAWord /\ LastQuarter /\ left.aaaa # 1
          /\ left' = [left EXCEPT !.aaaa = @ - 1]
          /\ StartAAAA
       \/ /\ din = AAAAWord /\ ~LastQuarter
          /\ Goto("CHECK_AAAA", intrablock + 1, data_count + 1)
          /\ UNCHANGED left
       \/ /\ din # AAAAWord
          /\ IF intrablock >= CNameBase - 1 THEN Overflow
             ELSE IF din = 0 /\ data_count = 0
               THEN Goto("APPEND_AAAA", intrablock, data_count)
             ELSE Goto("CHECK_AAAA", intrablock + Quarters - data_count, 0)
          /\ UNCHANGED left
    /\ UNCHANGED <<interblock, hash, parsed_pkts, pkt, blk, side>>

(* The way to CHECK_QHOST does not set intrablock_addr.                    *)
AnswerAppendAAAA ==
    /\ state = "APPEND_AAAA_W"
    /\ DropWrite
    /\ \/ /\ LastQuarter
          /\ left' = [left EXCEPT !.aaaa = @ - 1]
          /\ IF left.aaaa > 1 THEN StartAAAA
             ELSE IF left.cname > 0 /\ CNameSpace THEN StartCName
             ELSE Goto("CHECK_QHOST", intrablock, data_count)
       \/ /\ ~LastQuarter
          /\ Goto("APPEND_AAAA", intrablock + 1, data_count + 1)
          /\ UNCHANGED left
    /\ UNCHANGED <<interblock, hash, parsed_pkts, pkt, blk, side>>

-----------------------------------------------------------------------------
(* CNAME records: a slot is read from its last word to its first.          *)

CNameMatches(din, top) == din = 0 \/ (din = top /\ data_count = NameWords - 1)

AnswerCheckCName(din) ==
    /\ state = "CHECK_CNAME_W"
    /\ Drop
    /\ \E top \in CNameWords(NameWords - 1), w \in CNameWords(data_count) :
       /\ data_count = NameWords - 1 => w = top
       /\ \/ /\ CNameMatches(din, top) /\ data_count = 0
            /\ Goto("APPEND_CNAME", (intrablock - (NameWords - 1)) % BlockWords,
                    NameWords - 1)
            /\ UNCHANGED left
         \/ /\ CNameMatches(din, top) /\ data_count # 0 /\ left.cname = 1
            /\ StartQHost
            /\ UNCHANGED left
         \/ /\ CNameMatches(din, top) /\ data_count # 0 /\ left.cname # 1
            /\ left' = [left EXCEPT !.cname = @ - 1]
            /\ StartCName
         \/ /\ ~CNameMatches(din, top) /\ din = w
            /\ Goto("CHECK_CNAME", (intrablock - 1) % BlockWords, data_count + 1)
            /\ UNCHANGED left
         \/ /\ ~CNameMatches(din, top) /\ din # w
            /\ IF data_count = NameWords - 1
                 THEN Goto("CHECK_QHOST", intrablock, data_count)
                 ELSE Goto("CHECK_CNAME",
                           (intrablock + NameWords + data_count) % BlockWords, 0)
            /\ UNCHANGED left
    /\ UNCHANGED <<interblock, hash, parsed_pkts, pkt, blk, side>>

AnswerAppendCName ==
    /\ state = "APPEND_CNAME_W"
    /\ DropWrite
    /\ \/ /\ data_count = 0
          /\ left' = [left EXCEPT !.cname = @ - 1]
          /\ IF left.cname = 1 THEN StartQHost ELSE StartCName
       \/ /\ data_count # 0
          /\ Goto("APPEND_CNAME", (intrablock + 1) % BlockWords, data_count - 1)
          /\ UNCHANGED left
    /\ UNCHANGED <<interblock, hash, parsed_pkts, pkt, blk, side>>

-----------------------------------------------------------------------------
(* The querying host ends the work on a packet.                            *)

PacketDone == parsed_pkts' = parsed_pkts + 1

AnswerCheckQHost(din) ==
    /\ state = "CHECK_QHOST_W"
    /\ Drop
    /\ \/ /\ din = pkt.host
          /\ Goto("IDLE", intrablock, data_count)
          /\ PacketDone
       \/ /\ din # pkt.host
          /\ IF din = 0 THEN Goto("WRITE_QHOST", intrablock, data_count)
             ELSE IF intrablock = BlockWords - 1 THEN Overflow
             ELSE Goto("CHECK_QHOST", intrablock + 1, data_count)
          /\ UNCHANGED parsed_pkts
    /\ UNCHANGED <<interblock, hash, pkt, left, blk, side>>

AnswerWriteQHost ==
    /\ state = "WRITE_QHOST_W"
    /\ DropWrite
    /\ Goto("READ_QHOST_STAT", QHosts, data_count)
    /\ UNCHANGED <<interblock, hash, work, side>>

(* The word that comes back is dropped: the count read with the other      *)
(* statistics is incremented.                                              *)
AnswerReadQHostStat ==
    /\ state = "READ_QHOST_STAT_W"
    /\ wb' = [wb EXCEPT !.stb = FALSE, !.dat = (blk[QHosts] + 1) % (Half * Half)]
    /\ Goto("UPDATE_QHOST_STAT", intrablock, data_count)
    /\ UNCHANGED <<interblock, hash, work, side>>

AnswerUpdateQHostStat ==
    /\ state = "UPDATE_QHOST_STAT_W"
    /\ DropWrite
    /\ Goto("IDLE", intrablock, data_count)
    /\ PacketDone
    /\ UNCHANGED <<interblock, hash, pkt, left, blk, side>>

-----------------------------------------------------------------------------
(* Offloading one cell.  The strobe stays high, so the memory is read      *)
(* again and again while the bytes of the last word go out.                *)

AnswerOffloadLast ==
    /\ state = "OFFLOAD"
    /\ intrablock = BlockWords - 1
    /\ Goto("ZERO", intrablock, data_count)
    /\ wb' = [wb EXCEPT !.stb = FALSE, !.we = FALSE, !.addr = Zero]
    /\ UNCHANGED <<interblock, hash, work, side>>

(* Mutant: the strobe drops after each word.                               *)
MutAnswerOffloadWord(din, uart_ready) ==
    /\ state = "OFFLOAD"
    /\ intrablock # BlockWords - 1
    /\ wb' = [wb EXCEPT !.addr = Here, !.stb = FALSE]
    /\ latched' = din
    /\ IF uart_ready
         THEN /\ Goto("OFFLOAD", intrablock + 1, 1)
              /\ uart' = [valid |-> TRUE, word |-> din, byte |-> 0]
         ELSE /\ Goto("OFFLOAD", intrablock + 1, 0)
              /\ uart' = [uart EXCEPT !.valid = FALSE]
    /\ UNCHANGED <<interblock, hash, parser_ready, work>>

AnswerOffloadWord(din, uart_ready) ==
    /\ state = "OFFLOAD"
    /\ intrablock # BlockWords - 1
    /\ wb' = [wb EXCEPT !.addr = Here]
    /\ latched' = din
    /\ IF uart_ready
         THEN /\ Goto("OFFLOAD", intrablock + 1, 1)
              /\ uart' = [valid |-> TRUE, word |-> din, byte |-> 0]
         ELSE /\ Goto("OFFLOAD", intrablock + 1, 0)
              /\ uart' = [uart EXCEPT !.valid = FALSE]
    /\ UNCHANGED <<interblock, hash, parser_ready, work>>

(* Mutant: the last byte of a word is not offered.                         *)
MutOffloadByte ==
    /\ state = "OFFLOAD"
    /\ IF data_count < Bytes - 1
         THEN /\ uart' = [valid |-> TRUE, word |-> latched, byte |-> data_count]
              /\ Goto("OFFLOAD", intrablock, data_count + 1)
         ELSE /\ uart' = [uart EXCEPT !.valid = FALSE]
              /\ UNCHANGED <<state, data_count, intrablock>>
    /\ UNCHANGED <<interblock, hash, parser_ready, latched, work, wb>>

(* No acknowledge, and the UART is ready.                                  *)
OffloadByte ==
    /\ state = "OFFLOAD"
    /\ IF data_count < Bytes
         THEN /\ uart' = [valid |-> TRUE, word |-> latched, byte |-> data_count]
              /\ Goto("OFFLOAD", intrablock, data_count + 1)
         ELSE /\ uart' = [uart EXCEPT !.valid = FALSE]
              /\ UNCHANGED <<state, data_count, intrablock>>
    /\ UNCHANGED <<interblock, hash, parser_ready, latched, work, wb>>

-----------------------------------------------------------------------------
Reset ==
    /\ state' = "IDLE"
    /\ parser_ready' = FALSE
    /\ data_count' = 0 /\ intrablock' = 0 /\ interblock' = 0
    /\ parsed_pkts' = 0
    /\ wb' = [addr |-> Zero, dat |-> 0, we |-> FALSE, stb |-> FALSE]
    /\ UNCHANGED <<hash, pkt, left, blk, latched, uart>>

-----------------------------------------------------------------------------
(* The steps that do not look at the bus.                                  *)

Live == 0 .. AMax + 1    \* the wire ans_a_count

Idling ==
    \/ IdleOffload \/ IdleQuiet \/ HashBusy \/ HashDone
    \/ \E p \in Packets : Capture(p)
Requests ==
    \/ CheckCells \/ CheckName \/ ReadStats \/ CheckA \/ CheckAAAA \/ CheckCName
    \/ CheckQHost \/ ReadQHostStat \/ WriteQName \/ SetInUse \/ UpdateStats
    \/ AppendAAAA \/ AppendCName \/ WriteQHost \/ UpdateQHostStat
    \/ \E live \in Live : AppendA(live)

(* The steps of a wait state that is acknowledged with the word din.       *)
FindAnswers(din) ==
    \/ AnswerCheckCells(din) \/ AnswerCheckName(din)
    \/ AnswerWriteQName \/ AnswerSetInUse
StatAnswers(din)  == AnswerReadStats(din) \/ AnswerUpdateStats
AAnswers(din)     == AnswerAppendA \/ \E live \in Live : AnswerCheckA(din, live)
AAAAAnswers(din)  == AnswerCheckAAAA(din) \/ AnswerAppendAAAA
CNameAnswers(din) == AnswerCheckCName(din) \/ AnswerAppendCName
HostAnswers(din) ==
    \/ AnswerCheckQHost(din) \/ AnswerWriteQHost
    \/ AnswerReadQHostStat \/ AnswerUpdateQHostStat
Answers(din) ==
    \/ FindAnswers(din) \/ StatAnswers(din) \/ AAnswers(din) \/ AAAAAnswers(din)
    \/ CNameAnswers(din) \/ HostAnswers(din) \/ AnswerOffloadLast \/ AnswerZero

Next ==
    \/ Idling \/ Requests \/ ZeroWord \/ OffloadByte \/ Reset
    \/ \E din \in Word :
         \/ Answers(din)
         \/ \E rdy \in BOOLEAN : AnswerOffloadWord(din, rdy)

Spec == Init /\ [][Next]_vars

=============================================================================
