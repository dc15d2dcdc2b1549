--------------------------- MODULE Storage_proofs ---------------------------
(***************************************************************************)
(* The invariants of StorageInvariants hold for every size of the memory,  *)
(* every layout of a cell that LayoutAssumption allows, every packet and   *)
(* every behaviour of the memory, the hash unit and the UART.              *)
(*                                                                         *)
(* There is one lemma for each conjunct of IInv, and in it one step for    *)
(* each group of actions of Next.                                          *)
(***************************************************************************)
EXTENDS StorageInvariants, TLAPS

-----------------------------------------------------------------------------
(* Facts about the model: what the assumptions on the constants say one by *)
(* one, the types of the words that the machine computes, and the          *)
(* arithmetic of aligned slots.                                            *)

(* The sizes and the layout of a cell, as separate facts.                  *)
LEMMA LayoutFacts ==
    /\ Rows \in Nat \ {0} /\ Cells \in Nat \ {0} /\ NameWords \in Nat \ {0}
    /\ Quarters \in Nat \ {0} /\ Bytes \in Nat \ {0}
    /\ AMax \in Nat \ {0} /\ AAAAMax \in Nat \ {0}
    /\ OffloadAfter \in Nat
    /\ ABase \in Nat /\ AAAABase \in Nat /\ CNameBase \in Nat
    /\ QHostBase \in Nat /\ BlockWords \in Nat
    /\ NameWords + 6 < ABase /\ ABase < AAAABase /\ AAAABase < CNameBase
    /\ CNameBase + NameWords <= QHostBase /\ Quarters <= NameWords
    /\ QHostBase + 1 < BlockWords
BY SizeAssumption, LayoutAssumption

(* Words are naturals, 0 and 1 are words, and every natural reduced modulo *)
(* the size of a word is one.                                              *)
LEMMA WordFacts ==
    /\ 0 \in Word /\ 1 \in Word
    /\ \A w \in Word : w \in Nat
    /\ \A n \in Nat : n % (Half * Half) \in Word
<1>1. Half * Half \in Nat /\ Half * Half >= 4
  BY SizeAssumption
<1> QED BY <1>1 DEF Word

-----------------------------------------------------------------------------
(* The words that the machine writes are words.                            *)

(* The new value of a statistics slot wraps like the register.             *)
LEMMA NewStatType ==
    ASSUME TypeOK, NEW s \in StatSlots
    PROVE  NewStat(s) \in Word
<1> DEFINE sum ==
       CASE s = QueryCount -> blk[s] + 1
         [] s = Resolved   -> blk[s] + left.a + left.aaaa + left.cname
         [] s = ACount     -> blk[s] + left.a
         [] s = AAAACount  -> blk[s] + left.aaaa
         [] s = CNameCount -> blk[s] + left.cname
         [] OTHER          -> blk[s]
<1>1. blk[s] \in Nat
  <2>1. blk[s] \in Word
    BY DEF TypeOK, WorkType
  <2> QED BY <2>1, WordFacts
<1>2. left.a \in Nat /\ left.aaaa \in Nat /\ left.cname \in Nat
  BY LayoutFacts DEF TypeOK, WorkType
<1>3. sum \in Nat
  BY <1>1, <1>2
<1> QED BY <1>3, WordFacts DEF NewStat

(* A word of the stored name, of an AAAA record, of a CNAME, and the host. *)
LEMMA NameType ==
    ASSUME TypeOK, NEW i \in 0 .. NameWords - 1
    PROVE  pkt.name[i] \in Word
BY LayoutFacts DEF TypeOK, WorkType, Packet, Name

(* The quarter of the AAAA record that data_count selects.                 *)
LEMMA AAAAType ==
    ASSUME TypeOK, left.aaaa > 0, data_count \in 0 .. Quarters - 1
    PROVE  AAAAWord \in Word
BY LayoutFacts DEF TypeOK, WorkType, AAAAWord, Packet

(* Whatever the part-select of the CNAME register returns.                 *)
LEMMA CNameType ==
    ASSUME TypeOK, NEW i \in 0 .. NameWords - 1
    PROVE  CNameWords(i) \subseteq Word
BY LayoutFacts DEF TypeOK, WorkType, CNameWords, Packet, Name

(* The address of the querying host.                                       *)
LEMMA HostType == ASSUME TypeOK PROVE pkt.host \in Word
BY LayoutFacts DEF TypeOK, WorkType, Packet

(* The counts of a packet that the analyzer presents.                      *)
LEMMA PacketCounts ==
    ASSUME NEW p \in Packets
    PROVE  /\ p \in Packet
           /\ p.nA \in 0 .. AMax + 1 /\ p.nAAAA \in 0 .. AAAAMax /\ p.nCNAME \in 0 .. 3
BY LayoutFacts, PacketAssumption DEF Packet

(* The word appended as an A record, two halves of neighbouring addresses, *)
(* is a word for every value of the count on the wire.                     *)
LEMMA AppendType ==
    ASSUME TypeOK, NEW n \in 0 .. AMax + 1
    PROVE  AAppendWord(n) \in Word
<1>1. \A k \in Int : Addr(k) \in Word
  BY WordFacts, LayoutFacts DEF TypeOK, WorkType, Addr, Packet
<1>2. /\ Addr(AMax - n) \in 0 .. Half * Half - 1
      /\ Addr(AMax + 1 - n) \in 0 .. Half * Half - 1
  BY <1>1, LayoutFacts DEF Word
<1>3. Half \in Nat /\ Half >= 2
  BY SizeAssumption
<1>4. Addr(AMax - n) % Half \in 0 .. Half - 1
  BY <1>2, <1>3
<1>5. Addr(AMax + 1 - n) \div Half \in 0 .. Half - 1
  <2>1. SUFFICES ASSUME NEW x \in 0 .. Half * Half - 1 PROVE x \div Half \in 0 .. Half - 1
    BY <1>2
  <2> QED BY <1>3
<1>6. ASSUME NEW x \in 0 .. Half - 1, NEW y \in 0 .. Half - 1
      PROVE  x * Half + y \in 0 .. Half * Half - 1
  <2>1. x * Half <= (Half - 1) * Half
    BY <1>3
  <2>2. x * Half \in Nat
    BY <1>3
  <2> QED BY <2>1, <2>2, <1>3
<1> QED BY <1>4, <1>5, <1>6 DEF AAppendWord, Word

(* The address after one that is not the last is an address.               *)
LEMMA NextAddressType ==
    ASSUME NEW a \in Address, a # LastAddress
    PROVE  NextAddress(a) \in Address
<1>1. a.row \in Row /\ a.cell \in Cell /\ a.word \in Offset
  BY DEF Address
<1>2. CASE a.word < BlockWords - 1
  BY <1>1, <1>2, LayoutFacts DEF NextAddress, Address, Offset
<1>3. CASE ~(a.word < BlockWords - 1) /\ a.cell < Cells - 1
  BY <1>1, <1>3, LayoutFacts DEF NextAddress, Address, Cell, Offset
<1>4. CASE ~(a.word < BlockWords - 1) /\ ~(a.cell < Cells - 1)
  <2>1. a.word = BlockWords - 1 /\ a.cell = Cells - 1
    BY <1>1, <1>4, LayoutFacts DEF Offset, Cell
  <2>2. a.row # Rows - 1
    <3>1. SUFFICES ASSUME a.row = Rows - 1 PROVE a = LastAddress
      OBVIOUS
    <3> QED BY <3>1, <2>1, Zenon DEF Address, LastAddress
  <2> QED BY <1>1, <1>4, <2>2, LayoutFacts DEF NextAddress, Address, Row, Cell, Offset
<1> QED BY <1>2, <1>3, <1>4

-----------------------------------------------------------------------------
(* Slots of a fixed size.                                                  *)

(* Quotient and remainder.                                                 *)
LEMMA DivMod ==
    ASSUME NEW q \in Nat \ {0}, NEW a \in Int
    PROVE  a = (a \div q) * q + (a % q) /\ a % q \in 0 .. q - 1 /\ a \div q \in Int
OBVIOUS

(* Adding a multiple of q does not change the remainder.                   *)
LEMMA Multiple ==
    ASSUME NEW q \in Nat \ {0}, NEW a \in Int, NEW k \in Int
    PROVE  (a + k * q) % q = a % q
<1>1. PICK j \in Int, r \in 0 .. q - 1 : a = j * q + r
  BY DivMod
<1>2. a + k * q = (j + k) * q + r
  BY <1>1
<1>3. \A m \in Int, s \in 0 .. q - 1 : (m * q + s) % q = s
  OBVIOUS
<1> QED BY <1>1, <1>2, <1>3

(* The slot after an aligned slot is aligned.                              *)
LEMMA AlignedNext ==
    ASSUME NEW q \in Nat \ {0}, NEW n \in Int, n % q = 0
    PROVE  (n + q) % q = 0
<1>1. PICK k \in Int : n = k * q
  OBVIOUS
<1>2. n + q = (k + 1) * q
  BY <1>1
<1>3. \A m \in Int : (m * q) % q = 0
  OBVIOUS
<1> QED BY <1>2, <1>3

(* An aligned slot below an aligned end ends at the end or below it.       *)
LEMMA AlignedBelow ==
    ASSUME NEW q \in Nat \ {0}, NEW lo \in Int, NEW hi \in Int, NEW x \in Int,
           (hi - lo) % q = 0, (x - lo) % q = 0, x < hi
    PROVE  x + q <= hi
<1>1. PICK k \in Int : hi - lo = k * q
  OBVIOUS
<1>2. PICK j \in Int : x - lo = j * q
  OBVIOUS
<1>3. j < k
  <2>1. SUFFICES ASSUME j >= k PROVE FALSE
    OBVIOUS
  <2>2. j * q >= k * q
    BY <2>1
  <2> QED BY <2>2, <1>1, <1>2
<1>4. (j + 1) * q <= k * q
  BY <1>3
<1> QED BY <1>4, <1>1, <1>2

(* The first AAAA slot of a cell.                                          *)
LEMMA FirstSlot ==
    /\ AAAABase \in AAAABase .. CNameBase - Quarters
    /\ (AAAABase - AAAABase) % Quarters = 0
<1>1. /\ AAAABase \in Int /\ CNameBase \in Int /\ Quarters \in Nat \ {0}
      /\ AAAABase < CNameBase
  BY LayoutFacts
<1>2. (CNameBase - AAAABase) % Quarters = 0
  BY LayoutAssumption
<1>3. (AAAABase - AAAABase) % Quarters = 0
  BY <1>1
<1>4. AAAABase + Quarters <= CNameBase
  BY <1>1, <1>2, <1>3, AlignedBelow
<1> QED BY <1>1, <1>3, <1>4

(* The scan of the AAAA part goes from slot to slot and stops at its end.  *)
LEMMA NextSlot ==
    ASSUME NEW slot \in AAAABase .. CNameBase,
           (slot - AAAABase) % Quarters = 0, slot < CNameBase
    PROVE  /\ slot + Quarters \in AAAABase .. CNameBase
           /\ ((slot + Quarters) - AAAABase) % Quarters = 0
<1>1. AAAABase \in Int /\ CNameBase \in Int /\ slot \in Int /\ Quarters \in Nat \ {0}
  BY LayoutFacts
<1>2. (CNameBase - AAAABase) % Quarters = 0
  BY LayoutAssumption
<1>3. slot + Quarters <= CNameBase
  BY <1>1, <1>2, AlignedBelow
<1>4. slot - AAAABase \in Int /\ (slot - AAAABase) + Quarters = (slot + Quarters) - AAAABase
  BY <1>1
<1>5. ((slot - AAAABase) + Quarters) % Quarters = 0
  BY <1>1, <1>4, AlignedNext
<1> QED BY <1>1, <1>3, <1>4, <1>5

(* A cell holds a whole number of names, so a position that wraps around   *)
(* the cell keeps its place in its slot.                                   *)
LEMMA WrapKeepsSlot ==
    ASSUME NEW x \in Int, NEW y \in Int
    PROVE  ((x % BlockWords) + y) % NameWords = (x + y) % NameWords
<1>1. BlockWords \in Nat \ {0} /\ NameWords \in Nat \ {0}
  BY LayoutFacts
<1>2. PICK m \in Int : BlockWords = m * NameWords
  <2>1. /\ BlockWords = (BlockWords \div NameWords) * NameWords + 0
        /\ BlockWords \div NameWords \in Int
    BY <1>1, DivMod, LayoutAssumption
  <2> QED BY <1>1, <2>1
<1> DEFINE z == x % BlockWords
           j == x \div BlockWords
<1>3. x = j * BlockWords + z /\ z \in Int /\ j \in Int
  BY <1>1, DivMod
<1> HIDE DEF z, j
<1>4. j * BlockWords = (j * m) * NameWords /\ j * m \in Int
  BY <1>1, <1>2, <1>3
<1> DEFINE k == j * m
<1>5. k \in Int /\ x = k * NameWords + z
  BY <1>3, <1>4
<1> HIDE DEF k
<1>6. x + y = (z + y) + k * NameWords
  BY <1>1, <1>3, <1>5
<1>7. ((z + y) + k * NameWords) % NameWords = (z + y) % NameWords
  <2>1. z + y \in Int
    BY <1>3
  <2> QED BY <2>1, <1>1, <1>5, Multiple, Zenon
<1> QED BY <1>6, <1>7 DEF z

-----------------------------------------------------------------------------
(* Types.                                                                  *)

(* The registers that hold the packet and the statistics keep their types. *)
LEMMA WorkTypeStep == ASSUME IInv, Next PROVE WorkType'
<1>1. CASE Idling
  BY <1>1, LayoutFacts, PacketCounts, WordFacts DEF IInv, WorkType, PacketsInv, Resting,
     TypeOK, Idling, IdleOffload, IdleQuiet, HashBusy, HashDone, Capture, Goto, place,
     work, side
<1>2. CASE Requests
  BY <1>2, LayoutFacts, PacketCounts, WordFacts DEF IInv, WorkType, PacketsInv, Resting,
     TypeOK, Requests, CheckCells, CheckName, ReadStats, CheckA, CheckAAAA, CheckCName,
     CheckQHost, ReadQHostStat, WriteQName, SetInUse, UpdateStats, AppendAAAA,
     AppendCName, WriteQHost, UpdateQHostStat, AppendA, Request, place, work, side
<1>3. CASE ZeroWord \/ OffloadByte \/ Reset \/ AnswerZero \/ AnswerOffloadLast
  BY <1>3, LayoutFacts, PacketCounts, WordFacts DEF IInv, WorkType, PacketsInv, Resting,
     TypeOK, ZeroWord, OffloadByte, Reset, AnswerZero, AnswerOffloadLast, Drop,
     DropWrite, Goto, place, work, side
<1>4. ASSUME NEW din \in Word, FindAnswers(din) PROVE WorkType'
  BY <1>4, LayoutFacts, PacketCounts, WordFacts DEF IInv, WorkType, PacketsInv, Resting,
     TypeOK, FindAnswers, AnswerCheckCells, AnswerCheckName, AnswerWriteQName,
     AnswerSetInUse, Goto, Overflow, Drop, DropWrite, place, work, side
<1>5. ASSUME NEW din \in Word, StatAnswers(din) PROVE WorkType'
  BY <1>5, LayoutFacts, PacketCounts, WordFacts DEF IInv, WorkType, PacketsInv, Resting,
     TypeOK, StatAnswers, AnswerReadStats, AnswerUpdateStats, AfterStats, StartAAAA,
     StartCName, StartQHost, Goto, Overflow, Drop, DropWrite, place, work, side
<1>6. ASSUME NEW din \in Word, AAnswers(din) PROVE WorkType'
  BY <1>6, LayoutFacts, PacketCounts, WordFacts DEF IInv, WorkType, PacketsInv, Resting,
     TypeOK, AAnswers, AnswerCheckA, AnswerAppendA, AfterA, StartAAAA, StartCName,
     StartQHost, Goto, Overflow, Drop, DropWrite, place, work, side
<1>7. ASSUME NEW din \in Word, AAAAAnswers(din) PROVE WorkType'
  <2>1. TypeOK /\ RecordsRemain
    BY DEF IInv
  <2>2. ASSUME left.aaaa > 0
        PROVE  [left EXCEPT !.aaaa = @ - 1]
                  \in [a : 0 .. AMax + 1, aaaa : 0 .. AAAAMax, cname : 0 .. 3]
    BY <2>1, <2>2, LayoutFacts DEF TypeOK, WorkType
  <2>3. /\ left' \in {left, [left EXCEPT !.aaaa = @ - 1]}
        /\ UNCHANGED <<parsed_pkts, pkt, blk>> /\ left.aaaa > 0
    BY <1>7, <2>1 DEF AAAAAnswers, AnswerCheckAAAA, AnswerAppendAAAA, RecordsRemain
  <2> QED BY <2>1, <2>2, <2>3 DEF TypeOK, WorkType
<1>8. ASSUME NEW din \in Word, CNameAnswers(din) PROVE WorkType'
  <2>1. TypeOK /\ RecordsRemain
    BY DEF IInv
  <2>2. ASSUME left.cname > 0
        PROVE  [left EXCEPT !.cname = @ - 1]
                  \in [a : 0 .. AMax + 1, aaaa : 0 .. AAAAMax, cname : 0 .. 3]
    BY <2>1, <2>2, LayoutFacts DEF TypeOK, WorkType
  <2>3. /\ left' \in {left, [left EXCEPT !.cname = @ - 1]}
        /\ UNCHANGED <<parsed_pkts, pkt, blk>> /\ left.cname > 0
    BY <1>8, <2>1 DEF CNameAnswers, AnswerCheckCName, AnswerAppendCName, RecordsRemain
  <2> QED BY <2>1, <2>2, <2>3 DEF TypeOK, WorkType
<1>9. ASSUME NEW din \in Word, HostAnswers(din) PROVE WorkType'
  BY <1>9, LayoutFacts, PacketCounts, WordFacts DEF IInv, WorkType, PacketsInv, Resting,
     TypeOK, HostAnswers, AnswerCheckQHost, AnswerWriteQHost, AnswerReadQHostStat,
     AnswerUpdateQHostStat, PacketDone, Goto, Overflow, Drop, DropWrite, place, work,
     side
<1>10. ASSUME NEW din \in Word, NEW rdy \in BOOLEAN, AnswerOffloadWord(din, rdy)
       PROVE  WorkType'
  BY <1>10, LayoutFacts, PacketCounts, WordFacts DEF IInv, WorkType, PacketsInv,
     Resting, TypeOK, AnswerOffloadWord, Goto, place, work, side
<1> QED
  BY <1>1, <1>2, <1>3, <1>4, <1>5, <1>6, <1>7, <1>8, <1>9, <1>10 DEF Next, Answers

(* The registers of the UART keep their types.                             *)
LEMMA SideTypeStep == ASSUME IInv, Next PROVE SideType'
<1>1. CASE Idling
  BY <1>1, LayoutFacts, WordFacts DEF IInv, SideType, TypeOK, Idling, IdleOffload,
     IdleQuiet, HashBusy, HashDone, Capture, Goto, place, work, side
<1>2. CASE Requests
  BY <1>2, LayoutFacts, WordFacts DEF IInv, SideType, TypeOK, Requests, CheckCells,
     CheckName, ReadStats, CheckA, CheckAAAA, CheckCName, CheckQHost, ReadQHostStat,
     WriteQName, SetInUse, UpdateStats, AppendAAAA, AppendCName, WriteQHost,
     UpdateQHostStat, AppendA, Request, place, work, side
<1>3. CASE ZeroWord \/ OffloadByte \/ Reset \/ AnswerZero \/ AnswerOffloadLast
  <2>1. PlaceType /\ SideType
    BY DEF IInv, TypeOK
  <2>2. CASE OffloadByte /\ data_count < Bytes
    <3>1. data_count \in 0 .. Bytes - 1
      BY <2>1, <2>2, LayoutFacts DEF PlaceType, DataCount
    <3>2. /\ uart' = [valid |-> TRUE, word |-> latched, byte |-> data_count]
          /\ UNCHANGED <<latched, parser_ready>>
      BY <2>2 DEF OffloadByte
    <3> QED BY <2>1, <3>1, <3>2 DEF SideType
  <2>3. CASE OffloadByte /\ ~(data_count < Bytes)
    BY <2>1, <2>3 DEF SideType, OffloadByte
  <2>4. CASE ~OffloadByte
    BY <1>3, <2>1, <2>4 DEF SideType, ZeroWord, Reset, AnswerZero, AnswerOffloadLast, side
  <2> QED BY <2>2, <2>3, <2>4
<1>4. ASSUME NEW din \in Word, FindAnswers(din) PROVE SideType'
  BY <1>4, LayoutFacts, WordFacts DEF IInv, SideType, TypeOK, FindAnswers,
     AnswerCheckCells, AnswerCheckName, AnswerWriteQName, AnswerSetInUse, Goto,
     Overflow, Drop, DropWrite, place, work, side
<1>5. ASSUME NEW din \in Word, StatAnswers(din) PROVE SideType'
  BY <1>5, LayoutFacts, WordFacts DEF IInv, SideType, TypeOK, StatAnswers,
     AnswerReadStats, AnswerUpdateStats, AfterStats, StartAAAA, StartCName, StartQHost,
     Goto, Overflow, Drop, DropWrite, place, work, side
<1>6. ASSUME NEW din \in Word, AAnswers(din) PROVE SideType'
  BY <1>6, LayoutFacts, WordFacts DEF IInv, SideType, TypeOK, AAnswers, AnswerCheckA,
     AnswerAppendA, AfterA, StartAAAA, StartCName, StartQHost, Goto, Overflow, Drop,
     DropWrite, place, work, side
<1>7. ASSUME NEW din \in Word, AAAAAnswers(din) PROVE SideType'
  BY <1>7, LayoutFacts, WordFacts DEF IInv, SideType, TypeOK, AAAAAnswers,
     AnswerCheckAAAA, AnswerAppendAAAA, LastQuarter, StartAAAA, StartCName, StartQHost,
     Goto, Overflow, Drop, DropWrite, place, work, side
<1>8. ASSUME NEW din \in Word, CNameAnswers(din) PROVE SideType'
  BY <1>8, LayoutFacts, WordFacts DEF IInv, SideType, TypeOK, CNameAnswers,
     AnswerCheckCName, AnswerAppendCName, CNameMatches, StartCName, StartQHost, Goto,
     Overflow, Drop, DropWrite, place, work, side
<1>9. ASSUME NEW din \in Word, HostAnswers(din) PROVE SideType'
  BY <1>9, LayoutFacts, WordFacts DEF IInv, SideType, TypeOK, HostAnswers,
     AnswerCheckQHost, AnswerWriteQHost, AnswerReadQHostStat, AnswerUpdateQHostStat,
     PacketDone, Goto, Overflow, Drop, DropWrite, place, work, side
<1>10. ASSUME NEW din \in Word, NEW rdy \in BOOLEAN, AnswerOffloadWord(din, rdy)
       PROVE  SideType'
  <2>1. SideType /\ 0 \in 0 .. Bytes - 1
    BY LayoutFacts DEF IInv, TypeOK
  <2>2. uart' \in [valid : BOOLEAN, word : Word, byte : 0 .. Bytes - 1]
    <3>1. CASE rdy
      <4>1. uart' = [valid |-> TRUE, word |-> din, byte |-> 0]
        BY <1>10, <3>1 DEF AnswerOffloadWord
      <4> QED BY <2>1, <4>1
    <3>2. CASE ~rdy
      <4>1. uart' = [uart EXCEPT !.valid = FALSE]
        BY <1>10, <3>2 DEF AnswerOffloadWord
      <4> QED BY <2>1, <4>1 DEF SideType
    <3> QED BY <3>1, <3>2
  <2> QED BY <1>10, <2>1, <2>2 DEF SideType, AnswerOffloadWord
<1> QED
  BY <1>1, <1>2, <1>3, <1>4, <1>5, <1>6, <1>7, <1>8, <1>9, <1>10 DEF Next, Answers

(* The position stays inside the cell.  Every addition to intrablock_addr  *)
(* happens below the end of the part the state walks through, or wraps.    *)
LEMMA PlaceTypeStep == ASSUME IInv, Next PROVE PlaceType'
<1> USE LayoutFacts DEF IInv, TypeOK, PlaceType
<1>1. CASE Idling
  <2> USE DEF States, DataCount, Offset, Cell, Row
  <2>1. CASE IdleOffload \/ IdleQuiet \/ HashBusy \/ HashDone
    BY <2>1 DEF IdleOffload, IdleQuiet, HashBusy, HashDone, Goto, place
  <2>2. ASSUME NEW p \in Packets, Capture(p) PROVE PlaceType'
    BY <2>2 DEF Capture, Goto, InUse
  <2> QED BY <1>1, <2>1, <2>2 DEF Idling
<1>2. CASE Requests
  <2>1. state' \in WaitStates /\ UNCHANGED <<data_count, place>>
    BY <1>2 DEF WaitStates, ReadWaits, WriteWaits, Requests, CheckCells, CheckName,
       ReadStats, CheckA, CheckAAAA, CheckCName, CheckQHost, ReadQHostStat, WriteQName,
       SetInUse, UpdateStats, AppendAAAA, AppendCName, WriteQHost, UpdateQHostStat,
       AppendA, Request
  <2> QED BY <2>1 DEF place, States
<1>3. CASE ZeroWord \/ OffloadByte \/ Reset \/ AnswerZero \/ AnswerOffloadLast
  <2> USE DEF States, WaitStates, WriteWaits, DataCount, Offset, Cell, Row
  <2>1. CASE ZeroWord \/ AnswerZero \/ AnswerOffloadLast
    BY <2>1 DEF ZeroWord, AnswerZero, AnswerOffloadLast, Goto, place
  <2>2. CASE OffloadByte
    BY <2>2 DEF OffloadByte, Goto
  <2>3. CASE Reset
    BY <2>3 DEF Reset
  <2> QED BY <1>3, <2>1, <2>2, <2>3
<1>4. ASSUME NEW din \in Word, FindAnswers(din) PROVE PlaceType'
  <2> USE DEF States, DataCount, Offset, Cell
  <2>1. CASE AnswerCheckCells(din)
    BY <2>1 DEF AnswerCheckCells, Goto
  <2>2. CASE AnswerCheckName(din)
    BY <2>2 DEF AnswerCheckName, Goto, Overflow, PositionInv, NameMatches, QueryCount
  <2>3. CASE AnswerWriteQName \/ AnswerSetInUse
    BY <2>3 DEF AnswerWriteQName, AnswerSetInUse, Goto, NameInv, InUse, QueryCount
  <2> QED BY <1>4, <2>1, <2>2, <2>3 DEF FindAnswers
<1>5. ASSUME NEW din \in Word, StatAnswers(din) PROVE PlaceType'
  <2> USE DEF States, DataCount, Offset
  <2>1. CASE AnswerReadStats(din)
    BY <2>1 DEF AnswerReadStats, Goto, PositionInv, StatSlots, QueryCount, CNameCount
  <2>2. CASE AnswerUpdateStats
    <3>1. intrablock # CNameCount => NextStat(intrablock) \in Offset
      BY <2>2 DEF AnswerUpdateStats, PositionInv, NextStat, StatSlots, QueryCount,
         Resolved, ACount, QHosts, CNameCount
    <3> QED BY <3>1, <2>2 DEF AnswerUpdateStats, AfterStats, Goto, StartAAAA, StartCName,
         StartQHost, Overflow, CNameTop
  <2> QED BY <1>5, <2>1, <2>2 DEF StatAnswers
<1>6. ASSUME NEW din \in Word, AAnswers(din) PROVE PlaceType'
  <2> USE DEF States, DataCount, Offset, Goto, PositionInv, AfterA, StartAAAA, StartCName,
         StartQHost, Overflow, CNameTop
  <2>1. ASSUME NEW live \in Live, AnswerCheckA(din, live) PROVE PlaceType'
    BY <2>1 DEF AnswerCheckA
  <2>2. CASE AnswerAppendA
    BY <2>2 DEF AnswerAppendA
  <2> QED BY <1>6, <2>1, <2>2 DEF AAnswers
<1>7. ASSUME NEW din \in Word, AAAAAnswers(din) PROVE PlaceType'
  <2> USE DEF States, DataCount, Offset
  <2>1. CASE AnswerCheckAAAA(din)
    <3>1. intrablock < CNameBase - 1 => intrablock + Quarters - data_count \in Offset
      BY <2>1 DEF AnswerCheckAAAA, AAAAInv
    <3>2. data_count # Quarters - 1 =>
             intrablock + 1 \in Offset /\ data_count + 1 \in DataCount
      BY <2>1 DEF AnswerCheckAAAA, AAAAInv
    <3> QED BY <3>1, <3>2, <2>1 DEF AnswerCheckAAAA, LastQuarter, Goto, StartAAAA,
         StartCName, StartQHost, CNameTop, Overflow
  <2>2. CASE AnswerAppendAAAA
    <3>1. data_count # Quarters - 1 =>
             intrablock + 1 \in Offset /\ data_count + 1 \in DataCount
      BY <2>2 DEF AnswerAppendAAAA, AAAAInv
    <3> QED BY <3>1, <2>2 DEF AnswerAppendAAAA, LastQuarter, Goto, StartAAAA, StartCName,
         StartQHost, CNameTop
  <2> QED BY <1>7, <2>1, <2>2 DEF AAAAAnswers
<1>8. ASSUME NEW din \in Word, CNameAnswers(din) PROVE PlaceType'
  <2> USE DEF States, DataCount, Offset
  <2>1. \A n \in Int : n % BlockWords \in 0 .. BlockWords - 1
    OBVIOUS
  <2>2. CASE AnswerCheckCName(din)
    BY <2>1, <2>2 DEF AnswerCheckCName, Goto, CNameInv, StartCName, StartQHost, CNameTop,
       CNameMatches
  <2>3. CASE AnswerAppendCName
    BY <2>1, <2>3 DEF AnswerAppendCName, Goto, CNameInv, StartCName, StartQHost, CNameTop
  <2> QED BY <1>8, <2>2, <2>3 DEF CNameAnswers
<1>9. ASSUME NEW din \in Word, HostAnswers(din) PROVE PlaceType'
  BY <1>9 DEF States, DataCount, Offset, HostAnswers, AnswerCheckQHost, AnswerWriteQHost,
     AnswerReadQHostStat, AnswerUpdateQHostStat, Goto, Overflow, QHosts
<1>10. ASSUME NEW din \in Word, NEW rdy \in BOOLEAN, AnswerOffloadWord(din, rdy)
       PROVE  PlaceType'
  BY <1>10 DEF States, DataCount, Offset, AnswerOffloadWord, Goto
<1> QED
  BY <1>1, <1>2, <1>3, <1>4, <1>5, <1>6, <1>7, <1>8, <1>9, <1>10 DEF Next, Answers

(* A request puts a typed address and a typed word on the bus.             *)
LEMMA RequestType ==
    ASSUME TypeOK, NEW from, NEW to, NEW we \in BOOLEAN, NEW dat \in Word,
           Request(from, to, we, dat)
    PROVE  BusType'
<1>1. Here \in Address
  BY DEF TypeOK, PlaceType, Here, Address
<1>2. wb' = [addr |-> Here, dat |-> dat, we |-> we, stb |-> TRUE]
  BY DEF Request
<1> QED BY <1>1, <1>2 DEF BusType

(* The bus registers keep their types: the data are words, and the address *)
(* that walks the memory in ZERO stops at the last one.                    *)
LEMMA BusTypeStep == ASSUME IInv, Next PROVE BusType'
<1>1. TypeOK
  BY DEF IInv
<1>2. CASE Idling
  <2>1. CASE IdleOffload
    <3>1. [Here EXCEPT !.word = 0] \in Address
      BY <1>1, LayoutFacts DEF TypeOK, PlaceType, Here, Address, Offset
    <3> QED BY <3>1, <1>1, <2>1 DEF IdleOffload, BusType, TypeOK
  <2>2. CASE ~IdleOffload
    <3>1. wb' = wb
      BY <1>2, <2>2 DEF Idling, IdleQuiet, HashBusy, HashDone, Capture
    <3> QED BY <3>1, <1>1 DEF BusType, TypeOK
  <2> QED BY <2>1, <2>2
<1>3. CASE Requests
  <2>1. wb.dat \in Word
    BY <1>1 DEF TypeOK, BusType
  <2>2. CASE \/ CheckCells \/ CheckName \/ ReadStats \/ CheckA \/ CheckAAAA \/ CheckCName
             \/ CheckQHost \/ ReadQHostStat \/ UpdateStats \/ UpdateQHostStat
    BY <1>1, <2>1, <2>2, RequestType DEF CheckCells, CheckName, ReadStats, CheckA,
       CheckAAAA, CheckCName, CheckQHost, ReadQHostStat, UpdateStats, UpdateQHostStat
  <2>3. CASE WriteQName
    <3>1. pkt.name[data_count] \in Word
      BY <1>1, <2>3, NameType DEF WriteQName, Request, IInv, NameInv
    <3> QED BY <3>1, <1>1, <2>3, RequestType DEF WriteQName
  <2>4. CASE SetInUse
    BY <1>1, <2>4, WordFacts, RequestType DEF SetInUse
  <2>5. CASE AppendAAAA
    <3>1. AAAAWord \in Word
      BY <1>1, <2>5, AAAAType DEF AppendAAAA, Request, IInv, AAAAInv, RecordsRemain
    <3> QED BY <3>1, <1>1, <2>5, RequestType DEF AppendAAAA
  <2>6. CASE AppendCName
    <3>1. CNameWords(data_count) \subseteq Word
      BY <1>1, <2>6, CNameType DEF AppendCName, IInv, CNameInv
    <3> QED BY <3>1, <1>1, <2>6, RequestType DEF AppendCName
  <2>7. CASE WriteQHost
    BY <1>1, <2>7, HostType, RequestType DEF WriteQHost
  <2>8. ASSUME NEW live \in Live, AppendA(live) PROVE BusType'
    BY <1>1, <2>8, AppendType, RequestType DEF AppendA, Live
  <2> QED BY <1>3, <2>2, <2>3, <2>4, <2>5, <2>6, <2>7, <2>8 DEF Requests
<1>4. CASE ZeroWord \/ OffloadByte \/ Reset \/ AnswerZero \/ AnswerOffloadLast
  <2>1. BusType /\ Zero \in Address /\ 0 \in Word
    BY <1>1, LayoutFacts, WordFacts DEF TypeOK, Zero, Address, Row, Cell, Offset
  <2>2. CASE ZeroWord \/ OffloadByte
    BY <2>1, <2>2 DEF BusType, ZeroWord, OffloadByte
  <2>3. CASE Reset
    BY <2>1, <2>3 DEF BusType, Reset
  <2>4. CASE AnswerOffloadLast
    BY <2>1, <2>4 DEF BusType, AnswerOffloadLast
  <2>5. CASE AnswerZero
    <3>1. wb.addr \in Address
      BY <2>1 DEF BusType
    <3>2. wb.addr # LastAddress => NextAddress(wb.addr) \in Address
      BY <3>1, NextAddressType
    <3> QED BY <3>2, <2>1, <2>5 DEF BusType, AnswerZero, DropWrite
  <2> QED BY <1>4, <2>2, <2>3, <2>4, <2>5
<1>5. ASSUME NEW din \in Word, FindAnswers(din) \/ AAAAAnswers(din) \/ CNameAnswers(din)
      PROVE  BusType'
  <2>1. Drop \/ DropWrite
    BY <1>5 DEF FindAnswers, AnswerCheckCells, AnswerCheckName, AnswerWriteQName,
       AnswerSetInUse, AAAAAnswers, AnswerCheckAAAA, AnswerAppendAAAA, CNameAnswers,
       AnswerCheckCName, AnswerAppendCName
  <2> QED BY <2>1, <1>1 DEF TypeOK, BusType, Drop, DropWrite
<1>6. ASSUME NEW din \in Word, StatAnswers(din) PROVE BusType'
  <2>1. CASE AnswerReadStats(din)
    <3>1. NewStat(QueryCount) \in Word
      BY <1>1, NewStatType, LayoutFacts DEF StatSlots, QueryCount, CNameCount
    <3> QED BY <3>1, <1>1, <2>1 DEF TypeOK, BusType, AnswerReadStats, Drop
  <2>2. CASE AnswerUpdateStats /\ intrablock # CNameCount
    <3>1. NextStat(intrablock) \in StatSlots
      BY <2>2, LayoutFacts DEF IInv, PositionInv, AnswerUpdateStats, NextStat, StatSlots,
         QueryCount, Resolved, ACount, QHosts, CNameCount
    <3>2. NewStat(NextStat(intrablock)) \in Word
      BY <3>1, <1>1, NewStatType
    <3> QED BY <3>2, <1>1, <2>2 DEF TypeOK, BusType, AnswerUpdateStats
  <2>3. CASE AnswerUpdateStats /\ intrablock = CNameCount
    BY <1>1, <2>3 DEF TypeOK, BusType, AnswerUpdateStats, DropWrite
  <2> QED BY <1>6, <2>1, <2>2, <2>3 DEF StatAnswers
<1>7. ASSUME NEW din \in Word, AAnswers(din) PROVE BusType'
  <2>1. wb' \in { wb, [wb EXCEPT !.stb = FALSE], [wb EXCEPT !.stb = FALSE, !.we = TRUE],
                  [wb EXCEPT !.stb = TRUE, !.we = TRUE] }
    BY <1>7 DEF AAnswers, AnswerCheckA, AnswerAppendA, Drop
  <2> QED BY <2>1, <1>1 DEF TypeOK, BusType
<1>8. ASSUME NEW din \in Word, HostAnswers(din) PROVE BusType'
  <2>1. (blk[QHosts] + 1) % (Half * Half) \in Word
    <3>1. blk[QHosts] \in Word
      BY <1>1, LayoutFacts DEF TypeOK, WorkType, StatSlots, QueryCount, QHosts, CNameCount
    <3> QED BY <3>1, WordFacts
  <2> QED BY <2>1, <1>1, <1>8 DEF TypeOK, BusType, HostAnswers, AnswerCheckQHost,
       AnswerWriteQHost, AnswerReadQHostStat, AnswerUpdateQHostStat, Drop, DropWrite
<1>9. ASSUME NEW din \in Word, NEW rdy \in BOOLEAN, AnswerOffloadWord(din, rdy)
      PROVE  BusType'
  <2>1. Here \in Address
    BY <1>1 DEF TypeOK, PlaceType, Here, Address
  <2> QED BY <2>1, <1>1, <1>9 DEF TypeOK, BusType, AnswerOffloadWord
<1> QED
  BY <1>2, <1>3, <1>4, <1>5, <1>6, <1>7, <1>8, <1>9 DEF Next, Answers

-----------------------------------------------------------------------------
(* Counts of records and packets.                                          *)

(* A packet is only captured while another one may be counted, and only the*)
(* end of a packet counts it.                                              *)
LEMMA PacketsInvStep == ASSUME IInv, Next PROVE PacketsInv'
<1>1. CASE Idling
  BY <1>1, LayoutFacts, PacketAssumption DEF IInv, PacketsInv, Resting, Idling,
     IdleOffload, IdleQuiet, HashBusy, HashDone, Capture, Goto, place, work, side
<1>2. CASE Requests
  BY <1>2, LayoutFacts, PacketAssumption DEF IInv, PacketsInv, Resting, Requests,
     CheckCells, CheckName, ReadStats, CheckA, CheckAAAA, CheckCName, CheckQHost,
     ReadQHostStat, WriteQName, SetInUse, UpdateStats, AppendAAAA, AppendCName,
     WriteQHost, UpdateQHostStat, AppendA, Request, place, work, side
<1>3. CASE ZeroWord \/ OffloadByte \/ Reset \/ AnswerZero \/ AnswerOffloadLast
  BY <1>3, LayoutFacts, PacketAssumption DEF IInv, PacketsInv, Resting, ZeroWord,
     OffloadByte, Reset, AnswerZero, AnswerOffloadLast, Drop, DropWrite, Goto, place,
     work, side
<1>4. ASSUME NEW din \in Word, FindAnswers(din) PROVE PacketsInv'
  BY <1>4, LayoutFacts, PacketAssumption DEF IInv, PacketsInv, Resting, FindAnswers,
     AnswerCheckCells, AnswerCheckName, AnswerWriteQName, AnswerSetInUse, Goto,
     Overflow, Drop, DropWrite, place, work, side
<1>5. ASSUME NEW din \in Word, StatAnswers(din) PROVE PacketsInv'
  BY <1>5, LayoutFacts, PacketAssumption DEF IInv, PacketsInv, Resting, StatAnswers,
     AnswerReadStats, AnswerUpdateStats, AfterStats, StartAAAA, StartCName, StartQHost,
     Goto, Overflow, Drop, DropWrite, place, work, side
<1>6. ASSUME NEW din \in Word, AAnswers(din) PROVE PacketsInv'
  BY <1>6, LayoutFacts, PacketAssumption DEF IInv, PacketsInv, Resting, AAnswers,
     AnswerCheckA, AnswerAppendA, AfterA, StartAAAA, StartCName, StartQHost, Goto,
     Overflow, Drop, DropWrite, place, work, side
<1>7. ASSUME NEW din \in Word, AAAAAnswers(din) PROVE PacketsInv'
  BY <1>7, LayoutFacts, PacketAssumption DEF IInv, PacketsInv, Resting, AAAAAnswers,
     AnswerCheckAAAA, AnswerAppendAAAA, LastQuarter, StartAAAA, StartCName, StartQHost,
     Goto, Overflow, Drop, DropWrite, place, work, side
<1>8. ASSUME NEW din \in Word, CNameAnswers(din) PROVE PacketsInv'
  BY <1>8, LayoutFacts, PacketAssumption DEF IInv, PacketsInv, Resting, CNameAnswers,
     AnswerCheckCName, AnswerAppendCName, CNameMatches, StartCName, StartQHost, Goto,
     Overflow, Drop, DropWrite, place, work, side
<1>9. ASSUME NEW din \in Word, HostAnswers(din) PROVE PacketsInv'
  BY <1>9, LayoutFacts, PacketAssumption DEF IInv, PacketsInv, Resting, HostAnswers,
     AnswerCheckQHost, AnswerWriteQHost, AnswerReadQHostStat, AnswerUpdateQHostStat,
     PacketDone, Goto, Overflow, Drop, DropWrite, place, work, side
<1>10. ASSUME NEW din \in Word, NEW rdy \in BOOLEAN, AnswerOffloadWord(din, rdy)
       PROVE  PacketsInv'
  BY <1>10, LayoutFacts, PacketAssumption DEF IInv, PacketsInv, Resting,
     AnswerOffloadWord, Goto, place, work, side
<1> QED
  BY <1>1, <1>2, <1>3, <1>4, <1>5, <1>6, <1>7, <1>8, <1>9, <1>10 DEF Next, Answers

(* The position and data_count walk the name in opposite directions.       *)
LEMMA NameInvStep == ASSUME IInv, Next PROVE NameInv'
<1>1. CASE Idling
  BY <1>1, LayoutFacts DEF IInv, NameInv, PositionInv, PlaceType, TypeOK, Idling,
     IdleOffload, IdleQuiet, HashBusy, HashDone, Capture, Goto, place, work, side
<1>2. CASE Requests
  BY <1>2, LayoutFacts DEF IInv, NameInv, PositionInv, PlaceType, TypeOK, Requests,
     CheckCells, CheckName, ReadStats, CheckA, CheckAAAA, CheckCName, CheckQHost,
     ReadQHostStat, WriteQName, SetInUse, UpdateStats, AppendAAAA, AppendCName,
     WriteQHost, UpdateQHostStat, AppendA, Request, place, work, side
<1>3. CASE ZeroWord \/ OffloadByte \/ Reset \/ AnswerZero \/ AnswerOffloadLast
  BY <1>3, LayoutFacts DEF IInv, NameInv, PositionInv, PlaceType, TypeOK, ZeroWord,
     OffloadByte, Reset, AnswerZero, AnswerOffloadLast, Drop, DropWrite, Goto, place,
     work, side
<1>4. ASSUME NEW din \in Word, FindAnswers(din) PROVE NameInv'
  <2> USE LayoutFacts DEF IInv, NameInv, PositionInv
  <2>1. CASE AnswerCheckCells(din)
    BY <2>1 DEF AnswerCheckCells, Goto
  <2>2. CASE AnswerCheckName(din)
    BY <2>2 DEF AnswerCheckName, Goto, Overflow
  <2>3. CASE AnswerWriteQName
    BY <2>3 DEF AnswerWriteQName, Goto
  <2>4. CASE AnswerSetInUse
    BY <2>4 DEF AnswerSetInUse, Goto
  <2> QED BY <1>4, <2>1, <2>2, <2>3, <2>4 DEF FindAnswers
<1>5. ASSUME NEW din \in Word, StatAnswers(din) PROVE NameInv'
  BY <1>5, LayoutFacts DEF IInv, NameInv, PositionInv, PlaceType, TypeOK, StatAnswers,
     AnswerReadStats, AnswerUpdateStats, AfterStats, StartAAAA, StartCName, StartQHost,
     Goto, Overflow, Drop, DropWrite, place, work, side
<1>6. ASSUME NEW din \in Word, AAnswers(din) PROVE NameInv'
  BY <1>6, LayoutFacts DEF IInv, NameInv, PositionInv, PlaceType, TypeOK, AAnswers,
     AnswerCheckA, AnswerAppendA, AfterA, StartAAAA, StartCName, StartQHost, Goto,
     Overflow, Drop, DropWrite, place, work, side
<1>7. ASSUME NEW din \in Word, AAAAAnswers(din) PROVE NameInv'
  BY <1>7, LayoutFacts DEF IInv, NameInv, PositionInv, PlaceType, TypeOK, AAAAAnswers,
     AnswerCheckAAAA, AnswerAppendAAAA, LastQuarter, StartAAAA, StartCName, StartQHost,
     Goto, Overflow, Drop, DropWrite, place, work, side
<1>8. ASSUME NEW din \in Word, CNameAnswers(din) PROVE NameInv'
  BY <1>8, LayoutFacts DEF IInv, NameInv, PositionInv, PlaceType, TypeOK, CNameAnswers,
     AnswerCheckCName, AnswerAppendCName, CNameMatches, StartCName, StartQHost, Goto,
     Overflow, Drop, DropWrite, place, work, side
<1>9. ASSUME NEW din \in Word, HostAnswers(din) PROVE NameInv'
  BY <1>9, LayoutFacts DEF IInv, NameInv, PositionInv, PlaceType, TypeOK, HostAnswers,
     AnswerCheckQHost, AnswerWriteQHost, AnswerReadQHostStat, AnswerUpdateQHostStat,
     PacketDone, Goto, Overflow, Drop, DropWrite, place, work, side
<1>10. ASSUME NEW din \in Word, NEW rdy \in BOOLEAN, AnswerOffloadWord(din, rdy)
       PROVE  NameInv'
  BY <1>10, LayoutFacts DEF IInv, NameInv, PositionInv, PlaceType, TypeOK,
     AnswerOffloadWord, Goto, place, work, side
<1> QED
  BY <1>1, <1>2, <1>3, <1>4, <1>5, <1>6, <1>7, <1>8, <1>9, <1>10 DEF Next, Answers

(* While a CNAME is read or written, data_count is inside the name.        *)
LEMMA CNameInvStep == ASSUME IInv, Next PROVE CNameInv'
<1>1. CASE Idling
  BY <1>1, LayoutFacts DEF IInv, CNameInv, PlaceType, TypeOK, Idling, IdleOffload,
     IdleQuiet, HashBusy, HashDone, Capture, Goto, place, work, side
<1>2. CASE Requests
  BY <1>2, LayoutFacts DEF IInv, CNameInv, PlaceType, TypeOK, Requests, CheckCells,
     CheckName, ReadStats, CheckA, CheckAAAA, CheckCName, CheckQHost, ReadQHostStat,
     WriteQName, SetInUse, UpdateStats, AppendAAAA, AppendCName, WriteQHost,
     UpdateQHostStat, AppendA, Request, place, work, side
<1>3. CASE ZeroWord \/ OffloadByte \/ Reset \/ AnswerZero \/ AnswerOffloadLast
  BY <1>3, LayoutFacts DEF IInv, CNameInv, PlaceType, TypeOK, ZeroWord, OffloadByte,
     Reset, AnswerZero, AnswerOffloadLast, Drop, DropWrite, Goto, place, work, side
<1>4. ASSUME NEW din \in Word, FindAnswers(din) PROVE CNameInv'
  BY <1>4, LayoutFacts DEF IInv, CNameInv, PlaceType, TypeOK, FindAnswers,
     AnswerCheckCells, AnswerCheckName, AnswerWriteQName, AnswerSetInUse, Goto,
     Overflow, Drop, DropWrite, place, work, side
<1>5. ASSUME NEW din \in Word, StatAnswers(din) PROVE CNameInv'
  BY <1>5, LayoutFacts DEF IInv, CNameInv, PlaceType, TypeOK, StatAnswers,
     AnswerReadStats, AnswerUpdateStats, AfterStats, StartAAAA, StartCName, StartQHost,
     Goto, Overflow, Drop, DropWrite, place, work, side
<1>6. ASSUME NEW din \in Word, AAnswers(din) PROVE CNameInv'
  BY <1>6, LayoutFacts DEF IInv, CNameInv, PlaceType, TypeOK, AAnswers, AnswerCheckA,
     AnswerAppendA, AfterA, StartAAAA, StartCName, StartQHost, Goto, Overflow, Drop,
     DropWrite, place, work, side
<1>7. ASSUME NEW din \in Word, AAAAAnswers(din) PROVE CNameInv'
  BY <1>7, LayoutFacts DEF IInv, CNameInv, PlaceType, TypeOK, AAAAAnswers,
     AnswerCheckAAAA, AnswerAppendAAAA, LastQuarter, StartAAAA, StartCName, StartQHost,
     Goto, Overflow, Drop, DropWrite, place, work, side
<1>8. ASSUME NEW din \in Word, CNameAnswers(din) PROVE CNameInv'
  BY <1>8, LayoutFacts DEF IInv, CNameInv, PlaceType, TypeOK, CNameAnswers,
     AnswerCheckCName, AnswerAppendCName, CNameMatches, StartCName, StartQHost, Goto,
     Overflow, Drop, DropWrite, place, work, side
<1>9. ASSUME NEW din \in Word, HostAnswers(din) PROVE CNameInv'
  BY <1>9, LayoutFacts DEF IInv, CNameInv, PlaceType, TypeOK, HostAnswers,
     AnswerCheckQHost, AnswerWriteQHost, AnswerReadQHostStat, AnswerUpdateQHostStat,
     PacketDone, Goto, Overflow, Drop, DropWrite, place, work, side
<1>10. ASSUME NEW din \in Word, NEW rdy \in BOOLEAN, AnswerOffloadWord(din, rdy)
       PROVE  CNameInv'
  BY <1>10, LayoutFacts DEF IInv, CNameInv, PlaceType, TypeOK, AnswerOffloadWord, Goto,
     place, work, side
<1> QED
  BY <1>1, <1>2, <1>3, <1>4, <1>5, <1>6, <1>7, <1>8, <1>9, <1>10 DEF Next, Answers

(* Nothing touches the record counts before the statistics are written.    *)
LEMMA CountsInvStep == ASSUME IInv, Next PROVE CountsInv'
<1>1. CASE Idling
  BY <1>1, LayoutFacts DEF IInv, CountsInv, BeforeRecords, Scanning, Idling,
     IdleOffload, IdleQuiet, HashBusy, HashDone, Capture, Goto, place, work, side
<1>2. CASE Requests
  BY <1>2, LayoutFacts DEF IInv, CountsInv, BeforeRecords, Scanning, Requests,
     CheckCells, CheckName, ReadStats, CheckA, CheckAAAA, CheckCName, CheckQHost,
     ReadQHostStat, WriteQName, SetInUse, UpdateStats, AppendAAAA, AppendCName,
     WriteQHost, UpdateQHostStat, AppendA, Request, place, work, side
<1>3. CASE ZeroWord \/ OffloadByte \/ Reset \/ AnswerZero \/ AnswerOffloadLast
  BY <1>3, LayoutFacts DEF IInv, CountsInv, BeforeRecords, Scanning, ZeroWord,
     OffloadByte, Reset, AnswerZero, AnswerOffloadLast, Drop, DropWrite, Goto, place,
     work, side
<1>4. ASSUME NEW din \in Word, FindAnswers(din) PROVE CountsInv'
  BY <1>4, LayoutFacts DEF IInv, CountsInv, BeforeRecords, Scanning, FindAnswers,
     AnswerCheckCells, AnswerCheckName, AnswerWriteQName, AnswerSetInUse, Goto,
     Overflow, Drop, DropWrite, place, work, side
<1>5. ASSUME NEW din \in Word, StatAnswers(din) PROVE CountsInv'
  BY <1>5, LayoutFacts DEF IInv, CountsInv, BeforeRecords, Scanning, StatAnswers,
     AnswerReadStats, AnswerUpdateStats, AfterStats, StartAAAA, StartCName, StartQHost,
     Goto, Overflow, Drop, DropWrite, place, work, side
<1>6. ASSUME NEW din \in Word, AAnswers(din) PROVE CountsInv'
  BY <1>6, LayoutFacts DEF IInv, CountsInv, BeforeRecords, Scanning, AAnswers,
     AnswerCheckA, AnswerAppendA, AfterA, StartAAAA, StartCName, StartQHost, Goto,
     Overflow, Drop, DropWrite, place, work, side
<1>7. ASSUME NEW din \in Word, AAAAAnswers(din) PROVE CountsInv'
  BY <1>7, LayoutFacts DEF IInv, CountsInv, BeforeRecords, Scanning, AAAAAnswers,
     AnswerCheckAAAA, AnswerAppendAAAA, LastQuarter, StartAAAA, StartCName, StartQHost,
     Goto, Overflow, Drop, DropWrite, place, work, side
<1>8. ASSUME NEW din \in Word, CNameAnswers(din) PROVE CountsInv'
  BY <1>8, LayoutFacts DEF IInv, CountsInv, BeforeRecords, Scanning, CNameAnswers,
     AnswerCheckCName, AnswerAppendCName, CNameMatches, StartCName, StartQHost, Goto,
     Overflow, Drop, DropWrite, place, work, side
<1>9. ASSUME NEW din \in Word, HostAnswers(din) PROVE CountsInv'
  BY <1>9, LayoutFacts DEF IInv, CountsInv, BeforeRecords, Scanning, HostAnswers,
     AnswerCheckQHost, AnswerWriteQHost, AnswerReadQHostStat, AnswerUpdateQHostStat,
     PacketDone, Goto, Overflow, Drop, DropWrite, place, work, side
<1>10. ASSUME NEW din \in Word, NEW rdy \in BOOLEAN, AnswerOffloadWord(din, rdy)
       PROVE  CountsInv'
  BY <1>10, LayoutFacts DEF IInv, CountsInv, BeforeRecords, Scanning, AnswerOffloadWord,
     Goto, place, work, side
<1> QED
  BY <1>1, <1>2, <1>3, <1>4, <1>5, <1>6, <1>7, <1>8, <1>9, <1>10 DEF Next, Answers

(* The record counts are only decreased where a record was worked off, and *)
(* the states of a kind of record are only entered while one is left.      *)
LEMMA RecordsRemainStep == ASSUME IInv, Next PROVE RecordsRemain'
<1>1. CASE Idling
  BY <1>1, LayoutFacts DEF IInv, RecordsRemain, TypeOK, WorkType, Idling, IdleOffload,
     IdleQuiet, HashBusy, HashDone, Capture, Goto, place, work, side
<1>2. CASE Requests
  BY <1>2, LayoutFacts DEF IInv, RecordsRemain, TypeOK, WorkType, Requests, CheckCells,
     CheckName, ReadStats, CheckA, CheckAAAA, CheckCName, CheckQHost, ReadQHostStat,
     WriteQName, SetInUse, UpdateStats, AppendAAAA, AppendCName, WriteQHost,
     UpdateQHostStat, AppendA, Request, place, work, side
<1>3. CASE ZeroWord \/ OffloadByte \/ Reset \/ AnswerZero \/ AnswerOffloadLast
  BY <1>3, LayoutFacts DEF IInv, RecordsRemain, TypeOK, WorkType, ZeroWord, OffloadByte,
     Reset, AnswerZero, AnswerOffloadLast, Drop, DropWrite, Goto, place, work, side
<1>4. ASSUME NEW din \in Word, FindAnswers(din) PROVE RecordsRemain'
  BY <1>4, LayoutFacts DEF IInv, RecordsRemain, TypeOK, WorkType, FindAnswers,
     AnswerCheckCells, AnswerCheckName, AnswerWriteQName, AnswerSetInUse, Goto,
     Overflow, Drop, DropWrite, place, work, side
<1>5. ASSUME NEW din \in Word, StatAnswers(din) PROVE RecordsRemain'
  BY <1>5, LayoutFacts DEF IInv, RecordsRemain, TypeOK, WorkType, StatAnswers,
     AnswerReadStats, AnswerUpdateStats, AfterStats, StartAAAA, StartCName, StartQHost,
     Goto, Overflow, Drop, DropWrite, place, work, side
<1>6. ASSUME NEW din \in Word, AAnswers(din) PROVE RecordsRemain'
  BY <1>6, LayoutFacts DEF IInv, RecordsRemain, TypeOK, WorkType, AAnswers,
     AnswerCheckA, AnswerAppendA, AfterA, StartAAAA, StartCName, StartQHost, Goto,
     Overflow, Drop, DropWrite, place, work, side
<1>7. ASSUME NEW din \in Word, AAAAAnswers(din) PROVE RecordsRemain'
  BY <1>7, LayoutFacts DEF IInv, RecordsRemain, TypeOK, WorkType, AAAAAnswers,
     AnswerCheckAAAA, AnswerAppendAAAA, LastQuarter, StartAAAA, StartCName, StartQHost,
     Goto, Overflow, Drop, DropWrite, place, work, side
<1>8. ASSUME NEW din \in Word, CNameAnswers(din) PROVE RecordsRemain'
  BY <1>8, LayoutFacts DEF IInv, RecordsRemain, TypeOK, WorkType, CNameAnswers,
     AnswerCheckCName, AnswerAppendCName, CNameMatches, StartCName, StartQHost, Goto,
     Overflow, Drop, DropWrite, place, work, side
<1>9. ASSUME NEW din \in Word, HostAnswers(din) PROVE RecordsRemain'
  BY <1>9, LayoutFacts DEF IInv, RecordsRemain, TypeOK, WorkType, HostAnswers,
     AnswerCheckQHost, AnswerWriteQHost, AnswerReadQHostStat, AnswerUpdateQHostStat,
     PacketDone, Goto, Overflow, Drop, DropWrite, place, work, side
<1>10. ASSUME NEW din \in Word, NEW rdy \in BOOLEAN, AnswerOffloadWord(din, rdy)
       PROVE  RecordsRemain'
  BY <1>10, LayoutFacts DEF IInv, RecordsRemain, TypeOK, WorkType, AnswerOffloadWord,
     Goto, place, work, side
<1> QED
  BY <1>1, <1>2, <1>3, <1>4, <1>5, <1>6, <1>7, <1>8, <1>9, <1>10 DEF Next, Answers

-----------------------------------------------------------------------------
(* The position.                                                           *)

(* Each state that works on a part of the cell stays inside that part.     *)
LEMMA PositionInvStep == ASSUME IInv, Next PROVE PositionInv'
<1> USE LayoutFacts DEF IInv, PositionInv, InUse, StatSlots, QueryCount, QHosts, CNameCount
<1>1. CASE Idling
  BY <1>1 DEF Idling, IdleOffload, IdleQuiet, HashBusy, HashDone, Capture, Goto, place
<1>2. CASE Requests
  BY <1>2 DEF Requests, CheckCells, CheckName, ReadStats, CheckA, CheckAAAA, CheckCName,
     CheckQHost, ReadQHostStat, WriteQName, SetInUse, UpdateStats, AppendAAAA, AppendCName,
     WriteQHost, UpdateQHostStat, AppendA, Request, place
<1>3. CASE ZeroWord \/ OffloadByte \/ Reset \/ AnswerZero \/ AnswerOffloadLast
  BY <1>3 DEF ZeroWord, OffloadByte, Reset, AnswerZero, AnswerOffloadLast, Goto
<1>4. ASSUME NEW din \in Word, FindAnswers(din) PROVE PositionInv'
  <2>1. CASE AnswerCheckCells(din)
    BY <2>1 DEF AnswerCheckCells, Goto
  <2>2. CASE AnswerCheckName(din)
    BY <2>2 DEF AnswerCheckName, Goto, Overflow, NameMatches
  <2>3. CASE AnswerWriteQName
    BY <2>3 DEF AnswerWriteQName, Goto
  <2>4. CASE AnswerSetInUse
    BY <2>4 DEF AnswerSetInUse, Goto
  <2> QED BY <1>4, <2>1, <2>2, <2>3, <2>4 DEF FindAnswers
<1>5. ASSUME NEW din \in Word, StatAnswers(din) PROVE PositionInv'
  <2>1. CASE AnswerReadStats(din)
    BY <2>1 DEF AnswerReadStats, Goto
  <2>2. CASE AnswerUpdateStats
    BY <2>2 DEF AnswerUpdateStats, Goto, NextStat, Resolved, ACount, AfterStats, Overflow,
       StartAAAA, StartCName, StartQHost
  <2> QED BY <1>5, <2>1, <2>2 DEF StatAnswers
<1>6. ASSUME NEW din \in Word, AAnswers(din) PROVE PositionInv'
  BY <1>6 DEF AAnswers, AnswerCheckA, AnswerAppendA, AfterA, StartAAAA, StartCName,
     StartQHost, Goto, Overflow
<1>7. ASSUME NEW din \in Word, AAAAAnswers(din) \/ CNameAnswers(din) PROVE PositionInv'
  BY <1>7 DEF AAAAAnswers, AnswerCheckAAAA, AnswerAppendAAAA, CNameAnswers,
     AnswerCheckCName, AnswerAppendCName, StartAAAA, StartCName, StartQHost, Goto, Overflow
<1>8. ASSUME NEW din \in Word,
             HostAnswers(din) \/ \E rdy \in BOOLEAN : AnswerOffloadWord(din, rdy)
      PROVE  PositionInv'
  BY <1>8 DEF HostAnswers, AnswerCheckQHost, AnswerWriteQHost, AnswerReadQHostStat,
     AnswerUpdateQHostStat, AnswerOffloadWord, Goto, Overflow
<1> QED
  BY <1>1, <1>2, <1>3, <1>4, <1>5, <1>6, <1>7, <1>8 DEF Next, Answers

(* The AAAA part is scanned and filled slot by slot.                       *)
LEMMA AAAAInvStep == ASSUME IInv, Next PROVE AAAAInv'
<1> USE LayoutFacts
<1> DEFINE slot == intrablock - data_count
<1>1. data_count \in Int /\ intrablock \in Int
  BY DEF IInv, TypeOK, PlaceType, DataCount, Offset
<1>2. ASSUME StartAAAA PROVE AAAAInv'
  <2>1. state' = "CHECK_AAAA" /\ intrablock' = AAAABase /\ data_count' = 0
    BY <1>2 DEF StartAAAA, Goto
  <2>2. intrablock' - data_count' = AAAABase
    BY <2>1
  <2> QED BY <2>1, <2>2, FirstSlot DEF AAAAInv
<1>3. ASSUME \/ StartAAAA
             \/ state' \notin {"CHECK_AAAA", "CHECK_AAAA_W", "APPEND_AAAA", "APPEND_AAAA_W"}
      PROVE  AAAAInv'
  BY <1>2, <1>3 DEF AAAAInv
<1>4. CASE Requests
  BY <1>4 DEF IInv, AAAAInv, Requests, CheckCells, CheckName, ReadStats, CheckA, CheckAAAA,
     CheckCName, CheckQHost, ReadQHostStat, WriteQName, SetInUse, UpdateStats, AppendAAAA,
     AppendCName, WriteQHost, UpdateQHostStat, AppendA, Request, place
<1>5. CASE Idling \/ ZeroWord \/ OffloadByte \/ Reset \/ AnswerZero \/ AnswerOffloadLast
  BY <1>3, <1>5 DEF Idling, IdleOffload, IdleQuiet, HashBusy, HashDone, Capture, ZeroWord,
     OffloadByte, Reset, AnswerZero, AnswerOffloadLast, Goto
<1>6. ASSUME NEW din \in Word, FindAnswers(din) PROVE AAAAInv'
  BY <1>3, <1>6 DEF FindAnswers, AnswerCheckCells, AnswerCheckName, AnswerWriteQName,
     AnswerSetInUse, Goto, Overflow
<1>7. ASSUME NEW din \in Word, StatAnswers(din) \/ AAnswers(din) PROVE AAAAInv'
  <2>1. CASE StatAnswers(din)
    BY <1>3, <2>1 DEF StatAnswers, AnswerReadStats, AnswerUpdateStats, AfterStats,
       StartCName, StartQHost, Goto, Overflow
  <2>2. CASE AAnswers(din)
    BY <1>3, <2>2 DEF AAnswers, AnswerCheckA, AnswerAppendA, AfterA, StartCName,
       StartQHost, Goto, Overflow
  <2> QED BY <1>7, <2>1, <2>2
<1>8. ASSUME NEW din \in Word, AnswerCheckAAAA(din) PROVE AAAAInv'
  <2>1. /\ data_count \in 0 .. Quarters - 1
        /\ slot \in AAAABase .. CNameBase
        /\ (slot - AAAABase) % Quarters = 0
    BY <1>8 DEF IInv, AnswerCheckAAAA, AAAAInv
  <2>2. CASE din = AAAAWord /\ LastQuarter
    BY <1>3, <1>8, <2>2 DEF AnswerCheckAAAA, LastQuarter, Goto, StartCName, StartQHost
  <2>3. CASE din = AAAAWord /\ ~LastQuarter
    <3>1. /\ state' = "CHECK_AAAA"
          /\ intrablock' = intrablock + 1 /\ data_count' = data_count + 1
      BY <1>8, <2>3 DEF AnswerCheckAAAA, Goto
    <3>2. intrablock' - data_count' = slot
      BY <1>1, <3>1
    <3> QED BY <2>1, <2>3, <3>1, <3>2 DEF AAAAInv, LastQuarter
  <2>4. CASE din # AAAAWord /\ intrablock >= CNameBase - 1
    BY <1>3, <1>8, <2>4 DEF AnswerCheckAAAA, Goto, Overflow
  <2>5. CASE din # AAAAWord /\ intrablock < CNameBase - 1
    <3>1. /\ slot + Quarters \in AAAABase .. CNameBase
          /\ ((slot + Quarters) - AAAABase) % Quarters = 0
      <4>1. slot < CNameBase
        BY <1>1, <2>1, <2>5
      <4>2. \A s \in AAAABase .. CNameBase :
               (s - AAAABase) % Quarters = 0 /\ s < CNameBase =>
                  /\ s + Quarters \in AAAABase .. CNameBase
                  /\ ((s + Quarters) - AAAABase) % Quarters = 0
        BY NextSlot
      <4> HIDE DEF slot
      <4> QED BY <2>1, <4>1, <4>2
    <3>2. CASE din = 0 /\ data_count = 0
      BY <1>1, <1>8, <2>1, <2>5, <3>1, <3>2 DEF AnswerCheckAAAA, AAAAInv, Goto
    <3>3. CASE ~(din = 0 /\ data_count = 0)
      <4>1. /\ state' = "CHECK_AAAA"
            /\ intrablock' = intrablock + Quarters - data_count /\ data_count' = 0
        BY <1>1, <1>8, <2>5, <3>3 DEF AnswerCheckAAAA, Goto
      <4>2. intrablock' - data_count' = slot + Quarters /\ data_count' \in 0 .. Quarters - 1
        BY <1>1, <4>1
      <4>3. /\ intrablock' - data_count' \in AAAABase .. CNameBase
            /\ (intrablock' - data_count' - AAAABase) % Quarters = 0
        BY <3>1, <4>2
      <4> QED BY <4>1, <4>2, <4>3 DEF AAAAInv
    <3> QED BY <3>2, <3>3
  <2> QED BY <1>1, <2>2, <2>3, <2>4, <2>5
<1>9. CASE AnswerAppendAAAA
  <2>1. /\ data_count \in 0 .. Quarters - 1
        /\ slot \in AAAABase .. CNameBase - Quarters
        /\ (slot - AAAABase) % Quarters = 0
    BY <1>9 DEF IInv, AnswerAppendAAAA, AAAAInv
  <2>2. CASE LastQuarter
    BY <1>3, <1>9, <2>2 DEF AnswerAppendAAAA, LastQuarter, Goto, StartCName
  <2>3. CASE ~LastQuarter
    <3>1. /\ state' = "APPEND_AAAA"
          /\ intrablock' = intrablock + 1 /\ data_count' = data_count + 1
      BY <1>9, <2>3 DEF AnswerAppendAAAA, Goto
    <3>2. intrablock' - data_count' = slot
      BY <1>1, <3>1
    <3> QED BY <2>1, <2>3, <3>1, <3>2 DEF AAAAInv, LastQuarter
  <2> QED BY <2>2, <2>3
<1>10. ASSUME NEW din \in Word,
              \/ CNameAnswers(din) \/ HostAnswers(din)
              \/ \E rdy \in BOOLEAN : AnswerOffloadWord(din, rdy)
       PROVE  AAAAInv'
  BY <1>3, <1>10 DEF CNameAnswers, AnswerCheckCName, AnswerAppendCName, StartCName,
     StartQHost, HostAnswers, AnswerCheckQHost, AnswerWriteQHost, AnswerReadQHostStat,
     AnswerUpdateQHostStat, AnswerOffloadWord, Goto, Overflow
<1> QED
  BY <1>4, <1>5, <1>6, <1>7, <1>8, <1>9, <1>10 DEF Next, Answers, AAAAAnswers

(* A scan of the CNAME part starts at the last word of the first slot.     *)
LEMMA CNameStart == ASSUME StartCName PROVE CNameSlotsAligned'
<1>1. CNameTop \in Int /\ CNameTop' = CNameTop /\ NameWords \in Nat \ {0}
  BY LayoutFacts DEF CNameTop
<1>2. CNameTop + (0 - CNameTop) = 0 /\ 0 % NameWords = 0
  BY <1>1
<1> QED BY <1>1, <1>2, Zenon DEF StartCName, Goto, CNameSlotsAligned

(* The distance from the end of a slot is kept: one word up is one count   *)
(* down, and the jump to another slot is as long as a name.                *)
LEMMA CNameStep ==
    ASSUME IInv, NEW din \in Word, CNameAnswers(din)
    PROVE  CNameSlotsAligned'
<1>1. /\ intrablock \in Int /\ data_count \in Int /\ NameWords \in Nat \ {0}
      /\ CNameTop \in Int /\ CNameTop' = CNameTop
  BY LayoutFacts DEF IInv, TypeOK, PlaceType, Offset, DataCount, CNameTop
<1> DEFINE distance == intrablock + (data_count - CNameTop)
<1>2. distance \in Int /\ distance % NameWords = 0
  BY <1>1 DEF IInv, CNameAnswers, AnswerCheckCName, AnswerAppendCName, CNameSlotsAligned
<1>3. ASSUME NEW x \in Int, NEW y \in Int,
             \/ x + (y - CNameTop) = distance
             \/ x + (y - CNameTop) = distance + 1 * NameWords,
             intrablock' = x % BlockWords, data_count' = y
      PROVE  CNameSlotsAligned'
  <2>1. y - CNameTop \in Int /\ 1 \in Int
    BY <1>1
  <2>2. ((x % BlockWords) + (y - CNameTop)) % NameWords = (x + (y - CNameTop)) % NameWords
    BY <2>1, WrapKeepsSlot
  <2> HIDE DEF distance
  <2>3. (distance + 1 * NameWords) % NameWords = distance % NameWords
    BY <1>1, <1>2, <2>1, Multiple, Zenon
  <2>4. (x + (y - CNameTop)) % NameWords = 0
    BY <2>3, <1>2, <1>3
  <2> QED BY <1>1, <1>3, <2>2, <2>4, Zenon DEF CNameSlotsAligned
<1>4. CASE AnswerCheckCName(din)
  <2>1. \/ /\ data_count = 0
           /\ Goto("APPEND_CNAME", (intrablock - (NameWords - 1)) % BlockWords, NameWords - 1)
        \/ state' = "CHECK_QHOST"
        \/ StartCName
        \/ Goto("CHECK_CNAME", (intrablock - 1) % BlockWords, data_count + 1)
        \/ Goto("CHECK_CNAME", (intrablock + NameWords + data_count) % BlockWords, 0)
    BY <1>4, Zenon DEF AnswerCheckCName, Goto, StartQHost
  <2>2. CASE /\ data_count = 0
             /\ Goto("APPEND_CNAME", (intrablock - (NameWords - 1)) % BlockWords,
                     NameWords - 1)
    <3>1. (intrablock - (NameWords - 1)) + ((NameWords - 1) - CNameTop) = distance
      BY <1>1, <2>2
    <3> HIDE DEF distance
    <3> QED BY <1>1, <1>3, <2>2, <3>1 DEF Goto
  <2>3. CASE state' = "CHECK_QHOST"
    BY <2>3 DEF CNameSlotsAligned
  <2>4. CASE StartCName
    BY <2>4, CNameStart
  <2>5. CASE Goto("CHECK_CNAME", (intrablock - 1) % BlockWords, data_count + 1)
    <3>1. (intrablock - 1) + ((data_count + 1) - CNameTop) = distance
      BY <1>1
    <3> HIDE DEF distance
    <3> QED BY <1>1, <1>3, <2>5, <3>1 DEF Goto
  <2>6. CASE Goto("CHECK_CNAME", (intrablock + NameWords + data_count) % BlockWords, 0)
    <3>1. (intrablock + NameWords + data_count) + (0 - CNameTop) = distance + 1 * NameWords
      BY <1>1
    <3> HIDE DEF distance
    <3> QED BY <1>1, <1>3, <2>6, <3>1 DEF Goto
  <2> QED BY <2>1, <2>2, <2>3, <2>4, <2>5, <2>6
<1>5. CASE AnswerAppendCName
  <2>1. CASE data_count = 0
    <3>1. StartCName \/ state' = "CHECK_QHOST"
      BY <1>5, <2>1 DEF AnswerAppendCName, StartQHost, Goto
    <3> QED BY <3>1, CNameStart DEF CNameSlotsAligned
  <2>2. CASE data_count # 0
    <3>1. intrablock' = (intrablock + 1) % BlockWords /\ data_count' = data_count - 1
      BY <1>5, <2>2 DEF AnswerAppendCName, Goto
    <3>2. (intrablock + 1) + ((data_count - 1) - CNameTop) = distance
      BY <1>1
    <3> HIDE DEF distance
    <3> QED BY <1>1, <1>3, <3>1, <3>2
  <2> QED BY <2>1, <2>2
<1> QED BY <1>4, <1>5 DEF CNameAnswers

(* No step leaves the slots of the CNAME part.                             *)
LEMMA CNameSlotsAlignedStep == ASSUME IInv, Next PROVE CNameSlotsAligned'
<1>1. CASE Requests
  BY <1>1 DEF IInv, CNameSlotsAligned, CNameTop, Requests, CheckCells, CheckName, ReadStats,
     CheckA, CheckAAAA, CheckCName, CheckQHost, ReadQHostStat, WriteQName, SetInUse,
     UpdateStats, AppendAAAA, AppendCName, WriteQHost, UpdateQHostStat, AppendA, Request,
     place
<1>2. ASSUME NEW din \in Word, StatAnswers(din) \/ AAnswers(din) \/ AAAAAnswers(din)
      PROVE  CNameSlotsAligned'
  <2>1. \/ StartCName
        \/ state' \notin {"CHECK_CNAME", "CHECK_CNAME_W", "APPEND_CNAME", "APPEND_CNAME_W"}
    <3>1. CASE StatAnswers(din)
      BY <3>1 DEF StatAnswers, AnswerReadStats, AnswerUpdateStats, AfterStats, StartAAAA,
         StartQHost, Goto, Overflow
    <3>2. CASE AAnswers(din)
      BY <3>2 DEF AAnswers, AnswerCheckA, AnswerAppendA, AfterA, StartAAAA, StartQHost, Goto,
         Overflow
    <3>3. CASE AAAAAnswers(din)
      BY <3>3 DEF AAAAAnswers, AnswerCheckAAAA, AnswerAppendAAAA, StartAAAA, StartQHost,
         Goto, Overflow
    <3> QED BY <1>2, <3>1, <3>2, <3>3
  <2> QED BY <2>1, CNameStart DEF CNameSlotsAligned
<1>3. ASSUME NEW din \in Word, CNameAnswers(din) PROVE CNameSlotsAligned'
  BY <1>3, CNameStep
<1>4. CASE Idling \/ ZeroWord \/ OffloadByte \/ Reset \/ AnswerZero \/ AnswerOffloadLast
  BY <1>4 DEF IInv, CNameSlotsAligned, Idling, IdleOffload, IdleQuiet, HashBusy, HashDone,
     Capture, ZeroWord, OffloadByte, Reset, AnswerZero, AnswerOffloadLast, Goto
<1>5. ASSUME NEW din \in Word,
             \/ FindAnswers(din) \/ HostAnswers(din)
             \/ \E rdy \in BOOLEAN : AnswerOffloadWord(din, rdy)
      PROVE  CNameSlotsAligned'
  BY <1>5 DEF CNameSlotsAligned, FindAnswers, AnswerCheckCells, AnswerCheckName,
     AnswerWriteQName, AnswerSetInUse, HostAnswers, AnswerCheckQHost, AnswerWriteQHost,
     AnswerReadQHostStat, AnswerUpdateQHostStat, AnswerOffloadWord, Goto, Overflow
<1> QED BY <1>1, <1>2, <1>3, <1>4, <1>5 DEF Next, Answers

-----------------------------------------------------------------------------
(* The bus.                                                                *)

(* A wait state is only entered with its request on the bus, and the       *)
(* answer takes the strobe down, except between two A slots.               *)
LEMMA BusInvStep == ASSUME IInv, Next PROVE BusInv'
<1>1. TypeOK
  BY DEF IInv
<1>2. CASE Idling
  <2> USE DEF IInv, BusInv, WaitStates, ReadWaits, WriteWaits
  <2>1. CASE IdleOffload
    <3>1. state' = "OFFLOAD" /\ ~wb'.we
      BY <1>1, <2>1 DEF IdleOffload, Goto, TypeOK, BusType
    <3> QED BY <3>1
  <2>2. CASE IdleQuiet \/ HashBusy \/ HashDone
    BY <2>2 DEF IdleQuiet, HashBusy, HashDone
  <2>3. ASSUME NEW p \in Packets, Capture(p) PROVE BusInv'
    BY <2>3 DEF Capture, Goto
  <2> QED BY <1>2, <2>1, <2>2, <2>3 DEF Idling
<1>3. CASE Requests
  BY <1>3, LayoutFacts DEF IInv, BusInv, Here, PositionInv, WaitStates, ReadWaits,
     WriteWaits, Requests, CheckCells, CheckName, ReadStats, CheckA, CheckAAAA, CheckCName,
     CheckQHost, ReadQHostStat, WriteQName, SetInUse, UpdateStats, AppendAAAA, AppendCName,
     WriteQHost, UpdateQHostStat, AppendA, Request, place
<1>4. CASE ZeroWord \/ OffloadByte
  <2>1. CASE ZeroWord
    <3>1. wb'.stb /\ wb'.we /\ state' = "ZERO_WAIT"
      BY <1>1, <2>1 DEF ZeroWord, TypeOK, BusType
    <3> QED BY <3>1 DEF BusInv, WaitStates, WriteWaits
  <2>2. CASE OffloadByte
    BY <2>2 DEF IInv, BusInv, WaitStates, ReadWaits, WriteWaits, OffloadByte, Goto
  <2> QED BY <1>4, <2>1, <2>2
<1>5. CASE Reset \/ AnswerZero \/ AnswerOffloadLast
  <2>1. state' \in {"ZERO", "IDLE"}
    BY <1>5 DEF Reset, AnswerZero, AnswerOffloadLast, Goto
  <2>2. ~wb'.stb
    <3>1. CASE Reset
      BY <3>1 DEF Reset
    <3>2. CASE AnswerZero
      BY <1>1, <3>2 DEF AnswerZero, TypeOK, BusType, DropWrite
    <3>3. CASE AnswerOffloadLast
      BY <1>1, <3>3 DEF AnswerOffloadLast, TypeOK, BusType
    <3> QED BY <1>5, <3>1, <3>2, <3>3
  <2> QED BY <2>1, <2>2 DEF BusInv, WaitStates, ReadWaits, WriteWaits
<1>6. ASSUME ~wb'.stb, state' \notin WaitStates PROVE BusInv'
  BY <1>6 DEF BusInv
<1>7. ASSUME NEW din \in Word, FindAnswers(din) PROVE BusInv'
  <2>1. ~wb'.stb
    BY <1>1, <1>7 DEF TypeOK, BusType, FindAnswers, AnswerCheckCells, AnswerCheckName,
       AnswerWriteQName, AnswerSetInUse, Drop, DropWrite
  <2>2. state' \notin WaitStates
    BY <1>7 DEF WaitStates, ReadWaits, WriteWaits, FindAnswers, AnswerCheckCells,
       AnswerCheckName, AnswerWriteQName, AnswerSetInUse, Goto, Overflow
  <2> QED BY <1>6, <2>1, <2>2
<1>8. ASSUME NEW din \in Word, StatAnswers(din) PROVE BusInv'
  <2>1. ~wb'.stb
    BY <1>1, <1>8 DEF TypeOK, BusType, StatAnswers, AnswerReadStats, AnswerUpdateStats,
       Drop, DropWrite
  <2>2. state' \notin WaitStates
    BY <1>8 DEF WaitStates, ReadWaits, WriteWaits, StatAnswers, AnswerReadStats,
       AnswerUpdateStats, AfterStats, StartAAAA, StartCName, StartQHost, Goto, Overflow
  <2> QED BY <1>6, <2>1, <2>2
<1>9. ASSUME NEW din \in Word, AAAAAnswers(din) PROVE BusInv'
  <2>1. ~wb'.stb
    BY <1>1, <1>9 DEF TypeOK, BusType, AAAAAnswers, AnswerCheckAAAA, AnswerAppendAAAA,
       DropWrite
  <2>2. state' \notin WaitStates
    BY <1>9 DEF WaitStates, ReadWaits, WriteWaits, AAAAAnswers, AnswerCheckAAAA,
       AnswerAppendAAAA, StartAAAA, StartCName, StartQHost, Goto, Overflow
  <2> QED BY <1>6, <2>1, <2>2
<1>10. ASSUME NEW din \in Word, CNameAnswers(din) PROVE BusInv'
  <2>1. ~wb'.stb
    BY <1>1, <1>10 DEF TypeOK, BusType, CNameAnswers, AnswerCheckCName, AnswerAppendCName,
       Drop, DropWrite
  <2>2. state' \notin WaitStates
    BY <1>10 DEF WaitStates, ReadWaits, WriteWaits, CNameAnswers, AnswerCheckCName,
       AnswerAppendCName, StartCName, StartQHost, Goto, Overflow
  <2> QED BY <1>6, <2>1, <2>2
<1>11. ASSUME NEW din \in Word, HostAnswers(din) PROVE BusInv'
  <2>1. ~wb'.stb
    BY <1>1, <1>11 DEF TypeOK, BusType, HostAnswers, AnswerCheckQHost, AnswerWriteQHost,
       AnswerReadQHostStat, AnswerUpdateQHostStat, Drop, DropWrite
  <2>2. state' \notin WaitStates
    BY <1>11 DEF WaitStates, ReadWaits, WriteWaits, HostAnswers, AnswerCheckQHost,
       AnswerWriteQHost, AnswerReadQHostStat, AnswerUpdateQHostStat, Goto, Overflow
  <2> QED BY <1>6, <2>1, <2>2
<1>12. ASSUME NEW din \in Word, AAnswers(din) PROVE BusInv'
  <2>1. state' \notin WaitStates
    BY <1>12 DEF WaitStates, ReadWaits, WriteWaits, AAnswers, AnswerCheckA, AnswerAppendA,
       AfterA, StartAAAA, StartCName, StartQHost, Goto, Overflow
  <2>2. wb.addr = Here /\ intrablock \in ABase .. AAAABase - 1
    BY <1>12 DEF IInv, BusInv, PositionInv, WaitStates, ReadWaits, WriteWaits, AAnswers,
       AnswerCheckA, AnswerAppendA
  <2>3. UNCHANGED <<hash, interblock>>
    BY <1>12 DEF AAnswers, AnswerCheckA, AnswerAppendA
  <2>4. CASE AnswerAppendA
    <3>1. wb'.addr = wb.addr /\ (wb'.stb => state' = "CHECK_A")
      BY <1>1, <2>4 DEF TypeOK, BusType, AnswerAppendA, Goto
    <3> QED BY <2>1, <2>2, <2>3, <3>1 DEF BusInv, Here
  <2>5. ASSUME NEW live \in Live, AnswerCheckA(din, live) PROVE BusInv'
    <3>1. wb'.addr = wb.addr /\ ~(wb'.stb /\ wb'.we)
      BY <1>1, <2>5 DEF IInv, TypeOK, BusType, BusInv, WaitStates, ReadWaits, WriteWaits,
         AnswerCheckA, Drop
    <3> QED BY <2>1, <2>2, <2>3, <3>1 DEF BusInv, Here
  <2> QED BY <1>12, <2>4, <2>5 DEF AAnswers
<1>13. ASSUME NEW din \in Word, NEW rdy \in BOOLEAN, AnswerOffloadWord(din, rdy)
       PROVE  BusInv'
  <2>1. state' = "OFFLOAD" /\ wb'.we = wb.we /\ wb'.stb = wb.stb
    BY <1>1, <1>13 DEF TypeOK, BusType, AnswerOffloadWord, Goto
  <2> QED BY <1>13, <2>1 DEF IInv, BusInv, WaitStates, ReadWaits, WriteWaits,
       AnswerOffloadWord
<1> QED
  BY <1>2, <1>3, <1>4, <1>5, <1>7, <1>8, <1>9, <1>10, <1>11, <1>12, <1>13
  DEF Next, Answers

(* The word on the bus is the one that belongs to the position.            *)
LEMMA DataInvStep == ASSUME IInv, Next PROVE DataInv'
<1>1. CASE Requests
  <2>1. CASE UpdateStats
    <3>1. /\ UNCHANGED <<blk, left, intrablock>>
          /\ state' = "UPDATE_STATS_W" /\ wb'.dat = NewStat(intrablock)
      BY <2>1 DEF IInv, DataInv, UpdateStats, Request, place, work
    <3>2. NewStat(intrablock)' = NewStat(intrablock)
      BY <3>1 DEF NewStat
    <3> QED BY <3>1, <3>2 DEF DataInv
  <2>2. CASE AppendAAAA
    <3>1. /\ UNCHANGED <<left, pkt, data_count>>
          /\ state' = "APPEND_AAAA_W" /\ wb'.dat = AAAAWord
      BY <2>2 DEF AppendAAAA, Request, work
    <3> QED BY <3>1 DEF DataInv, AAAAWord
  <2>3. CASE WriteQName
    BY <2>3 DEF DataInv, WriteQName, Request, work
  <2>4. CASE ~UpdateStats /\ ~AppendAAAA /\ ~WriteQName
    <3>1. state' \notin {"WRITE_QNAME_WAIT", "UPDATE_STATS", "UPDATE_STATS_W",
                         "APPEND_AAAA_W"}
      BY <1>1, <2>4 DEF Requests, CheckCells, CheckName, ReadStats, CheckA, CheckAAAA,
         CheckCName, CheckQHost, ReadQHostStat, SetInUse, AppendCName, WriteQHost,
         UpdateQHostStat, AppendA, Request
    <3> QED BY <3>1 DEF DataInv
  <2> QED BY <2>1, <2>2, <2>3, <2>4
<1>2. ASSUME NEW din \in Word, AnswerReadStats(din) PROVE DataInv'
  <2>1. CASE intrablock # CNameCount
    BY <1>2, <2>1 DEF DataInv, AnswerReadStats, Goto
  <2>2. CASE intrablock = CNameCount
    <3>1. blk'[QueryCount] = blk[QueryCount]
      BY <1>2, <2>2, LayoutFacts DEF IInv, TypeOK, WorkType, AnswerReadStats, QueryCount,
         CNameCount, StatSlots
    <3>2. NewStat(QueryCount)' = NewStat(QueryCount)
      BY <3>1, LayoutFacts DEF NewStat, QueryCount, Resolved, ACount, AAAACount, CNameCount
    <3>3. /\ state' = "UPDATE_STATS" /\ intrablock' = QueryCount
          /\ wb' = [wb EXCEPT !.stb = FALSE, !.dat = NewStat(QueryCount)]
      BY <1>2, <2>2 DEF AnswerReadStats, Goto
    <3>4. wb'.dat = NewStat(QueryCount)
      BY <3>3 DEF IInv, TypeOK, BusType
    <3> QED BY <3>2, <3>3, <3>4 DEF DataInv, QueryCount
  <2> QED BY <2>1, <2>2
<1>3. CASE AnswerUpdateStats
  <2>1. CASE intrablock # CNameCount
    <3>1. /\ state' = "UPDATE_STATS" /\ intrablock' = NextStat(intrablock)
          /\ wb' = [wb EXCEPT !.stb = FALSE, !.we = FALSE,
                              !.dat = NewStat(NextStat(intrablock))]
          /\ UNCHANGED <<blk, left>>
      BY <1>3, <2>1 DEF AnswerUpdateStats, Goto, work
    <3>2. wb'.dat = NewStat(NextStat(intrablock))
      BY <3>1 DEF IInv, TypeOK, BusType
    <3>3. NewStat(intrablock)' = NewStat(NextStat(intrablock))
      BY <3>1 DEF NewStat
    <3> QED BY <3>1, <3>2, <3>3 DEF DataInv
  <2>2. CASE intrablock = CNameCount
    BY <1>3, <2>2 DEF DataInv, AnswerUpdateStats, AfterStats, StartAAAA, StartCName,
       StartQHost, Goto, Overflow
  <2> QED BY <2>1, <2>2
<1>4. CASE Idling \/ ZeroWord \/ OffloadByte \/ Reset \/ AnswerZero \/ AnswerOffloadLast
  BY <1>4 DEF DataInv, Idling, IdleOffload, IdleQuiet, HashBusy, HashDone, Capture, ZeroWord,
     OffloadByte, Reset, AnswerZero, AnswerOffloadLast, Goto
<1>5. ASSUME NEW din \in Word,
             FindAnswers(din) \/ AAnswers(din) \/ AAAAAnswers(din) \/ CNameAnswers(din)
      PROVE  DataInv'
  BY <1>5 DEF DataInv, FindAnswers, AnswerCheckCells, AnswerCheckName, AnswerWriteQName,
     AnswerSetInUse, AAnswers, AnswerCheckA, AnswerAppendA, AfterA, AAAAAnswers,
     AnswerCheckAAAA, AnswerAppendAAAA, CNameAnswers, AnswerCheckCName, AnswerAppendCName,
     StartAAAA, StartCName, StartQHost, Goto, Overflow
<1>6. ASSUME NEW din \in Word,
             HostAnswers(din) \/ \E rdy \in BOOLEAN : AnswerOffloadWord(din, rdy)
      PROVE  DataInv'
  BY <1>6 DEF DataInv, HostAnswers, AnswerCheckQHost, AnswerWriteQHost,
     AnswerReadQHostStat, AnswerUpdateQHostStat, AnswerOffloadWord, Goto, Overflow
<1> QED BY <1>1, <1>2, <1>3, <1>4, <1>5, <1>6 DEF Next, Answers, StatAnswers

-----------------------------------------------------------------------------
(* The inductive invariant.                                                *)

(* It holds when the machine powers up.                                    *)
LEMMA InitInv == Init => IInv
<1> SUFFICES ASSUME Init PROVE IInv
  OBVIOUS
<1> USE LayoutFacts, WordFacts DEF Init
<1>1. PlaceType
  BY DEF PlaceType, States, DataCount, Offset, Cell, Row
<1>2. WorkType
  <2>1. ZeroPacket \in Packet
    <3>1. ZeroName \in Name
      BY DEF ZeroName, Name
    <3> QED BY <3>1 DEF ZeroPacket, Packet
  <2> QED BY <2>1 DEF WorkType
<1>3. SideType /\ BusType
  <2>1. Zero \in Address /\ 0 \in 0 .. Bytes - 1
    BY DEF Zero, Address, Offset, Cell, Row
  <2>2. uart = [valid |-> FALSE, word |-> 0, byte |-> 0]
    OBVIOUS
  <2>3. uart \in [valid : BOOLEAN, word : Word, byte : 0 .. Bytes - 1]
    BY <2>1, <2>2
  <2>4. wb \in [addr : Address, dat : Word, we : BOOLEAN, stb : BOOLEAN]
    BY <2>1
  <2> QED BY <2>3, <2>4 DEF SideType, BusType
<1>4. /\ PacketsInv /\ PositionInv /\ NameInv /\ AAAAInv /\ CNameInv
      /\ CNameSlotsAligned /\ CountsInv /\ RecordsRemain /\ DataInv
  BY DEF PacketsInv, Resting, PositionInv, NameInv, AAAAInv, CNameInv, CNameSlotsAligned,
     CountsInv, RecordsRemain, DataInv, BeforeRecords, Scanning
<1>5. BusInv
  BY DEF BusInv, WaitStates, ReadWaits, WriteWaits
<1> QED BY <1>1, <1>2, <1>3, <1>4, <1>5 DEF IInv, TypeOK

(* Every step keeps it.                                                    *)
LEMMA NextInv == ASSUME IInv, [Next]_vars PROVE IInv'
<1>1. CASE Next
  <2>1. TypeOK'
    BY <1>1, PlaceTypeStep, WorkTypeStep, SideTypeStep, BusTypeStep DEF TypeOK
  <2> QED BY <1>1, <2>1, PacketsInvStep, PositionInvStep, NameInvStep, AAAAInvStep,
       CNameInvStep, CNameSlotsAlignedStep, CountsInvStep, RecordsRemainStep, BusInvStep,
       DataInvStep DEF IInv
<1>2. CASE UNCHANGED vars
  BY <1>2 DEF IInv, vars, place, work, side, TypeOK, PlaceType, WorkType, SideType, BusType,
     PacketsInv, Resting, PositionInv, NameInv, AAAAInv, CNameInv, CNameSlotsAligned,
     CNameTop, CountsInv, RecordsRemain, DataInv, BusInv, Here, NewStat, AAAAWord
<1> QED BY <1>1, <1>2

(* The inductive invariant holds in every reachable state, whatever the    *)
(* memory answers and whatever packets arrive.                             *)
THEOREM Invariance == Spec => []IInv
BY InitInv, NextInv, PTL DEF Spec

-----------------------------------------------------------------------------
(* What it implies.                                                        *)

(* Every register keeps its type: no address computed by the machine       *)
(* leaves its cell, no cell number leaves its bucket.                      *)
THEOREM TypeCorrect == Spec => []TypeOK
<1>1. IInv => TypeOK
  BY DEF IInv
<1> QED BY <1>1, Invariance, PTL

(* The bus follows the state machine: a wait state always has its own      *)
(* request on the bus.                                                     *)
THEOREM RequestsWaitedFor == Spec => []WaitsForItsRequest
<1>1. IInv => WaitsForItsRequest
  BY DEF IInv, TypeOK, BusType, BusInv, WaitsForItsRequest, WaitStates
<1> QED BY <1>1, Invariance, PTL

(* No write of a state touches what names, flag, statistics, A or AAAA     *)
(* records are written to, but its own; CNAMEs and hosts keep to the cell. *)
THEOREM RegionsKept == Spec => []WritesInRegion
<1>1. IInv => WritesInRegion
  <2> SUFFICES ASSUME IInv, wb.stb, wb.we
               PROVE  /\ wb.addr.word \in Region(state)
                      /\ state # "ZERO_WAIT" =>
                            wb.addr.row = hash /\ wb.addr.cell = interblock
    BY DEF WritesInRegion
  <2> USE LayoutFacts DEF IInv
  <2>1. state \in WriteWaits \cup {"CHECK_A"}
    BY DEF BusInv
  <2>2. CASE state = "CHECK_A"
    BY <2>2 DEF BusInv, Region
  <2>3. CASE state = "ZERO_WAIT"
    BY <2>3 DEF TypeOK, BusType, Address, Region
  <2>4. CASE state \in WriteWaits \ {"ZERO_WAIT"}
    <3>1. wb.addr = Here
      BY <2>4 DEF BusInv, WaitStates
    <3>2. intrablock \in Region(state)
      <4>1. CASE state = "APPEND_AAAA_W"
        BY <4>1 DEF AAAAInv, Region, TypeOK, PlaceType, Offset
      <4>2. CASE state = "WRITE_QNAME_WAIT"
        BY <4>2 DEF NameInv, Region
      <4> QED BY <4>1, <4>2, <2>4 DEF WriteWaits, Region, PositionInv, TypeOK, PlaceType
    <3> QED BY <3>1, <3>2, <2>4 DEF Here
  <2> QED BY <2>1, <2>2, <2>3, <2>4
<1> QED BY <1>1, Invariance, PTL

(* Every word of a name is stored at its own place.                        *)
THEOREM NamesStoredInOrder == Spec => []NameWordsInOrder
<1>1. IInv => NameWordsInOrder
  <2> SUFFICES ASSUME IInv, state = "WRITE_QNAME_WAIT"
               PROVE  wb.dat = pkt.name[NameWords - 1 - wb.addr.word]
    BY DEF NameWordsInOrder
  <2>1. wb.addr.word = intrablock
    BY DEF IInv, BusInv, Here, WaitStates, WriteWaits
  <2>2. data_count = NameWords - 1 - intrablock
    BY LayoutFacts DEF IInv, NameInv
  <2> QED BY <2>1, <2>2 DEF IInv, DataInv
<1> QED BY <1>1, Invariance, PTL

(* Each statistics slot receives its own sum, with the counts the packet   *)
(* arrived with.                                                           *)
THEOREM StatisticsPlaced == Spec => []StatisticsInTheirSlots
<1>1. IInv => StatisticsInTheirSlots
  <2> SUFFICES ASSUME IInv, state = "UPDATE_STATS_W" PROVE StatisticsInTheirSlots
    BY DEF StatisticsInTheirSlots
  <2> USE LayoutFacts DEF IInv
  <2>1. wb.addr.word = intrablock
    BY DEF BusInv, Here, WaitStates, WriteWaits
  <2>2. intrablock \in {QueryCount, Resolved, ACount, AAAACount, CNameCount}
    BY DEF PositionInv, StatSlots, QHosts, QueryCount, Resolved, ACount, AAAACount,
       CNameCount
  <2>3. left.a = pkt.nA /\ left.aaaa = pkt.nAAAA /\ left.cname = pkt.nCNAME
    BY DEF CountsInv, BeforeRecords
  <2>4. wb.dat = NewStat(intrablock)
    BY DEF DataInv
  <2> QED BY <2>1, <2>2, <2>3, <2>4 DEF StatisticsInTheirSlots, NewStat, QueryCount,
       Resolved, ACount, AAAACount, CNameCount
<1> QED BY <1>1, Invariance, PTL

(* No record is looked for after the last one was worked off.              *)
THEOREM RecordsCounted == Spec => []RecordsRemain
<1>1. IInv => RecordsRemain
  BY DEF IInv
<1> QED BY <1>1, Invariance, PTL

(* An AAAA record is written whole, quarter by quarter, into one slot.     *)
THEOREM QuartersAligned == Spec => []AAAAQuartersAligned
<1>1. IInv => AAAAQuartersAligned
  <2> SUFFICES ASSUME IInv, state = "APPEND_AAAA_W"
               PROVE  wb.dat =
                         pkt.aaaa[left.aaaa][(wb.addr.word - AAAABase) % Quarters]
    BY DEF AAAAQuartersAligned
  <2> USE LayoutFacts DEF IInv
  <2>1. wb.addr.word = intrablock
    BY DEF BusInv, Here, WaitStates, WriteWaits
  <2>2. /\ data_count \in 0 .. Quarters - 1
        /\ intrablock - data_count \in AAAABase .. CNameBase - Quarters
        /\ (intrablock - data_count - AAAABase) % Quarters = 0
    BY DEF AAAAInv
  <2>3. (intrablock - AAAABase) % Quarters = data_count
    <3> DEFINE first == intrablock - data_count - AAAABase
    <3>1. /\ first \in Nat /\ first % Quarters = 0
          /\ intrablock - AAAABase = first + data_count
      BY <2>2 DEF TypeOK, PlaceType, Offset
    <3>2. \A m \in Nat, q \in Nat \ {0}, r \in Nat :
             m % q = 0 /\ r < q => (m + r) % q = r
      OBVIOUS
    <3>3. data_count \in Nat /\ data_count < Quarters
      BY <2>2
    <3> HIDE DEF first
    <3>4. (first + data_count) % Quarters = data_count
      BY <3>1, <3>2, <3>3
    <3> QED BY <3>1, <3>4
  <2> QED BY <2>1, <2>3 DEF DataInv, AAAAWord
<1> QED BY <1>1, Invariance, PTL

(* A CNAME never straddles two slots.                                      *)
THEOREM CNamesAligned == Spec => []CNameSlotsAligned
<1>1. IInv => CNameSlotsAligned
  BY DEF IInv
<1> QED BY <1>1, Invariance, PTL

=============================================================================
