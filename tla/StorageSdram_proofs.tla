------------------------ MODULE StorageSdram_proofs ------------------------
(***************************************************************************)
(* The storage machine joined to the SDRAM controller, as in StorageSdram. *)
(* The controller takes each request over a second time while it answers   *)
(* it, and performs it again when no other one replaces it in time.  Still *)
(* it is a memory that keeps its word as long as packets only come to an   *)
(* idle machine, and then what StorageTable_proofs says of any such memory *)
(* holds on it: the machine either asks again at once, or it waits for its *)
(* hash unit, which takes longer than the repetition.  This is for all     *)
(* wait counts of the controller, every layout of a cell and all packets.  *)
(***************************************************************************)
EXTENDS StorageSdram, TLAPS

(* What the controller sees of the machine.                                *)
Bus == [wb EXCEPT !.addr = ChipAddr(@)]

(* What is proved of the machine, and of the controller, by themselves.    *)
T == INSTANCE StorageTable_proofs
    WITH mem <- [a \in Address |-> cells[ChipAddr(a)]], ack <- ack_o, answer <- dat_o
P == INSTANCE Sdram_proofs
    WITH Banks <- {0}, BankRows <- Row \X Cell \X {0, 1}, Columns <- 0 .. RowWords - 1,
         Data <- Word, bus <- Bus,
         phase <- "rest", rest <- 0, latched <- 0, since <- 0,
         MinRest <- QnameBytes, PowerUpCells <- {}

(* The behaviours that the theorems are about: packets come to an idle     *)
(* machine.  A packet that is shown earlier starts the hash unit earlier:  *)
(* its first request may come into the repetition of the last one, and be  *)
(* answered for it.  Nothing in the source keeps the analyzer from it.     *)
UnhurriedTraffic == [][Table!Unhurried]_sdVars

-----------------------------------------------------------------------------
(* Who the access under way is for.                                        *)

(* Before the next request nothing is begun: what was taken over a second  *)
(* time is replaced by that request while the chip precharges.             *)
TurnInv ==
    T!Turning =>
        /\ current_state \notin P!Serving \cup {"Act"}
        /\ command.stb \/ wb.stb => current_state = "WaitPre"

(* What is performed is what the machine waits for, and the acknowledge    *)
(* that a wait state sees is that of Pre.  An offload sees each one twice. *)
HoldInv ==
    T!Engaged =>
        /\ wb.stb
        /\ current_state = "Act" => command = Bus
        /\ current_state \in P!Serving => P!Same(command, Bus)
        /\ ack_o /\ state \in WaitStates => current_state = "Pre"

(* While nothing is asked for the last request may be repeated, for fewer  *)
(* edges than the hash takes; a write that is repeated does no harm.       *)
StillInv ==
    T!Still =>
        /\ ~wb.stb
        /\ current_state \in P!Serving => ~command.stb
        /\ command.stb => current_state \notin P!InitStates
        /\ P!Pending => T!Elapsed <= P!RepeatBound
        /\ P!Pending /\ command.we => cells[command.addr] = command.dat

MasterInv == TurnInv /\ HoldInv /\ StillInv

SdInv ==
    /\ T!MemInv /\ T!HashInv
    /\ P!CtlType /\ P!ControlInv /\ P!RowInv /\ P!DataFlow
    /\ MasterInv

-----------------------------------------------------------------------------
(* The definitions of the modules behind the two instances are the same.   *)

(* The sets.                                                               *)
LEMMA SameSets ==
    /\ T!Address = Address /\ T!Word = Word
    /\ T!WaitStates = WaitStates /\ T!ReadWaits = ReadWaits /\ T!WriteWaits = WriteWaits
BY DEF T!Address, Address, T!Row, Row, T!Cell, Cell, T!Offset, Offset, T!Word, Word,
       T!WaitStates, WaitStates, T!ReadWaits, ReadWaits, T!WriteWaits, WriteWaits

(* The edge of the machine.                                                *)
LEMMA SameMachine == Table!MachineStep => T!MachineStep
BY DEF
       T!MachineStep, Table!MachineStep, T!Unanswered, Table!Unanswered,
       T!Serve, Table!Serve, T!vars, Table!vars, T!side, Table!side, T!work,
       Table!work, T!place, Table!place, T!OffloadByte, Table!OffloadByte,
       T!Goto, Table!Goto, T!Wait, Table!Wait, T!WaitStates, Table!WaitStates,
       T!WriteWaits, Table!WriteWaits, T!ReadWaits, Table!ReadWaits, T!Answered,
       Table!Answered, T!AnswerOffloadWord, Table!AnswerOffloadWord, T!Here,
       Table!Here, T!Answers, Table!Answers, T!AnswerZero, Table!AnswerZero,
       T!NextAddress, Table!NextAddress, T!LastAddress, Table!LastAddress,
       T!DropWrite, Table!DropWrite, T!AnswerOffloadLast,
       Table!AnswerOffloadLast, T!Zero, Table!Zero, T!HostAnswers,
       Table!HostAnswers, T!AnswerUpdateQHostStat, Table!AnswerUpdateQHostStat,
       T!PacketDone, Table!PacketDone, T!AnswerReadQHostStat,
       Table!AnswerReadQHostStat, T!QHosts, Table!QHosts, T!AnswerWriteQHost,
       Table!AnswerWriteQHost, T!AnswerCheckQHost, Table!AnswerCheckQHost,
       T!Overflow, Table!Overflow, T!Drop, Table!Drop, T!CNameAnswers,
       Table!CNameAnswers, T!AnswerAppendCName, Table!AnswerAppendCName,
       T!StartCName, Table!StartCName, T!CNameTop, Table!CNameTop, T!StartQHost,
       Table!StartQHost, T!AnswerCheckCName, Table!AnswerCheckCName,
       T!CNameMatches, Table!CNameMatches, T!CNameWords, Table!CNameWords,
       T!Word, Table!Word, T!AAAAAnswers, Table!AAAAAnswers, T!AnswerAppendAAAA,
       Table!AnswerAppendAAAA, T!LastQuarter, Table!LastQuarter, T!CNameSpace,
       Table!CNameSpace, T!CNameSlots, Table!CNameSlots, T!CNameCount,
       Table!CNameCount, T!StartAAAA, Table!StartAAAA, T!AnswerCheckAAAA,
       Table!AnswerCheckAAAA, T!AAAAWord, Table!AAAAWord, T!AAnswers,
       Table!AAnswers, T!AnswerCheckA, Table!AnswerCheckA, T!AfterA,
       Table!AfterA, T!ACompareWords, Table!ACompareWords, T!Addr, Table!Addr,
       T!Live, Table!Live, T!AnswerAppendA, Table!AnswerAppendA, T!StatAnswers,
       Table!StatAnswers, T!AnswerUpdateStats, Table!AnswerUpdateStats,
       T!AfterStats, Table!AfterStats, T!AAAASpace, Table!AAAASpace,
       T!AAAASlots, Table!AAAASlots, T!AAAACount, Table!AAAACount, T!NextStat,
       Table!NextStat, T!ACount, Table!ACount, T!Resolved, Table!Resolved,
       T!NewStat, Table!NewStat, T!QueryCount, Table!QueryCount,
       T!AnswerReadStats, Table!AnswerReadStats, T!FindAnswers,
       Table!FindAnswers, T!AnswerSetInUse, Table!AnswerSetInUse,
       T!AnswerWriteQName, Table!AnswerWriteQName, T!InUse, Table!InUse,
       T!AnswerCheckName, Table!AnswerCheckName, T!NameMatches,
       Table!NameMatches, T!AnswerCheckCells, Table!AnswerCheckCells, T!Ask,
       Table!Ask, T!IdleOffload, Table!IdleOffload, T!ZeroWord, Table!ZeroWord,
       T!Requests, Table!Requests, T!AppendA, Table!AppendA, T!AAppendWord,
       Table!AAppendWord, T!Request, Table!Request, T!UpdateQHostStat,
       Table!UpdateQHostStat, T!WriteQHost, Table!WriteQHost, T!AppendCName,
       Table!AppendCName, T!AppendAAAA, Table!AppendAAAA, T!UpdateStats,
       Table!UpdateStats, T!SetInUse, Table!SetInUse, T!WriteQName,
       Table!WriteQName, T!ReadQHostStat, Table!ReadQHostStat, T!CheckQHost,
       Table!CheckQHost, T!CheckCName, Table!CheckCName, T!CheckAAAA,
       Table!CheckAAAA, T!CheckA, Table!CheckA, T!ReadStats, Table!ReadStats,
       T!CheckName, Table!CheckName, T!CheckCells, Table!CheckCells, T!Hash,
       Table!Hash, T!HashBusy, Table!HashBusy, T!HashDone, Table!HashDone,
       T!Take, Table!Take, T!Capture, Table!Capture, T!Rest, Table!Rest,
       T!IdleQuiet, Table!IdleQuiet

(* The edge of the analyzer and of the hash unit.                          *)
LEMMA SameFront == Table!Front => T!Front
BY DEF
       T!Front, Table!Front, T!Qname, Table!Qname, T!HashStep, Table!HashStep,
       T!HashEnd, Table!HashEnd, T!HashByte, Table!HashByte, T!SdbmStep,
       Table!SdbmStep, T!HashIdle, Table!HashIdle, T!HashRest, Table!HashRest,
       T!HashStart, Table!HashStart, T!Show, Table!Show, T!MayShow,
       Table!MayShow

(* The edge of the controller.                                             *)
LEMMA SameController == Sdram!SdramStep(Bus) => P!SdramStep(Bus)
BY DEF
       P!SdramStep, Sdram!SdramStep, P!RefreshTimer, Sdram!RefreshTimer,
       P!RegisterCommand, Sdram!RegisterCommand, P!Access, Sdram!Access,
       P!EndAccess, Sdram!EndAccess, P!chipVars, Sdram!chipVars, P!WaitOver,
       Sdram!WaitOver, P!Advance, Sdram!Advance, P!Waiting, Sdram!Waiting,
       P!WaitCounts, Sdram!WaitCounts, P!Precharge, Sdram!Precharge, P!Load,
       Sdram!Load, P!Acknowledge, Sdram!Acknowledge, P!SampleData,
       Sdram!SampleData, P!AwaitData, Sdram!AwaitData, P!NoAccess,
       Sdram!NoAccess, P!ReadColumn, Sdram!ReadColumn, P!Selected,
       Sdram!Selected, P!BankIsOpen, Sdram!BankIsOpen, P!WriteColumn,
       Sdram!WriteColumn, P!ChooseAccess, Sdram!ChooseAccess, P!Activate,
       Sdram!Activate, P!RowOf, Sdram!RowOf, P!RefreshChip, Sdram!RefreshChip,
       P!CountRefresh, Sdram!CountRefresh, P!Dispatch, Sdram!Dispatch,
       P!Initialise, Sdram!Initialise, P!SetMode, Sdram!SetMode, P!InitRefresh,
       Sdram!InitRefresh, P!InitPrecharge, Sdram!InitPrecharge, P!PowerUp,
       Sdram!PowerUp

(* The domain table.                                                       *)
LEMMA SameTable == T!CountsLikeATable <=> CountsLikeATable
<1>1. /\ T!SlotOf = Table!SlotOf /\ T!InUse = Table!InUse
      /\ T!Row = Table!Row /\ T!Cell = Table!Cell /\ T!NamesAsked = Table!NamesAsked
      /\ \A p : T!Share(p) = Table!Share(p)
  BY DEF T!SlotOf, Table!SlotOf, T!InUse, Table!InUse, T!QueryCount, Table!QueryCount,
         T!Resolved, Table!Resolved, T!ACount, Table!ACount, T!AAAACount, Table!AAAACount,
         T!CNameCount, Table!CNameCount, T!Row, Table!Row, T!Cell, Table!Cell,
         T!NamesAsked, Table!NamesAsked, T!Share, Table!Share
<1>2. \A r, c, w : T!At(r, c, w) = Table!At(r, c, w)
  BY DEF T!At, Table!At
<1>3. \A n : T!CellsOf(n) = Table!CellsOf(n)
  BY <1>1, <1>2 DEF T!CellsOf, Table!CellsOf, T!StoredName, Table!StoredName
<1>4. \A S : T!Cardinality(S) = Table!Cardinality(S)
  BY DEF T!Cardinality, Table!Cardinality
<1>5. \A n, c : T!Counted(n, c) = Table!Counted(n, c)
  <2> TAKE n, c
  <2>1. T!CellsOf(n) = Table!CellsOf(n) /\ T!SlotOf = Table!SlotOf
    BY <1>1, <1>3
  <2>2. T!Cardinality(T!CellsOf(n)) = Table!Cardinality(Table!CellsOf(n))
    BY <1>4, <2>1
  <2>3. \A x : T!At(x[1], x[2], T!SlotOf[c]) = Table!At(x[1], x[2], Table!SlotOf[c])
    BY <1>2, <2>1
  <2> QED
    BY <2>1, <2>2, <2>3 DEF T!Counted, Table!Counted
<1>6. T!Uncounted = Table!Uncounted
  BY <1>1, <1>2 DEF T!Uncounted, Table!Uncounted
<1> DEFINE
    Tt == [n \in T!NamesAsked |-> [c \in DOMAIN T!SlotOf |-> T!Counted(n, c)]]
    Tc == IF state \in {"IDLE", "OFFLOAD", "ZERO", "ZERO_WAIT"}
            THEN [name |-> "none"] ELSE T!Share(pkt)
    Bt == [n \in Table!NamesAsked |-> [c \in DOMAIN Table!SlotOf |-> Table!Counted(n, c)]]
    Bc == IF state \in {"IDLE", "OFFLOAD", "ZERO", "ZERO_WAIT"}
            THEN [name |-> "none"] ELSE Table!Share(pkt)
<1>7. Tt = Bt /\ Tc = Bc /\ T!Uncounted = Table!Uncounted
  BY <1>1, <1>5, <1>6
<1>8. (Tt = Bt /\ Tc = Bc /\ T!Uncounted = Table!Uncounted)'
  BY <1>7, PTL
<1>9. T!Table!TableInit <=> Table!Table!TableInit
  BY <1>1, <1>7
     DEF T!Table!TableInit, Table!Table!TableInit, T!Table!EmptyTable,
         Table!Table!EmptyTable, T!Table!Counters, Table!Table!Counters,
         T!Table!NoPacket, Table!Table!NoPacket
<1>10. \A p : T!Table!Begin(p) <=> Table!Table!Begin(p)
  BY <1>7, <1>8
     DEF T!Table!Begin, Table!Table!Begin, T!Table!Counters, Table!Table!Counters,
         T!Table!NoPacket, Table!Table!NoPacket
<1>11. \A c : T!Table!Add(c) <=> Table!Table!Add(c)
  BY <1>7, <1>8 DEF T!Table!Add, Table!Table!Add
<1>12. T!Table!Finish \/ T!Table!Clear <=> Table!Table!Finish \/ Table!Table!Clear
  BY <1>1, <1>7, <1>8
     DEF T!Table!Finish, Table!Table!Finish, T!Table!Clear, Table!Table!Clear,
         T!Table!EmptyTable, Table!Table!EmptyTable, T!Table!Counters,
         Table!Table!Counters, T!Table!NoPacket, Table!Table!NoPacket
<1>13. {T!Share(p) : p \in Packets} = {Table!Share(p) : p \in Packets}
  BY <1>1
<1>14. T!Table!TableNext <=> Table!Table!TableNext
  BY <1>10, <1>11, <1>12, <1>13
     DEF T!Table!TableNext, Table!Table!TableNext, T!Table!Counters, Table!Table!Counters
<1>15. [T!Table!TableNext]_<<Tt, Tc, T!Uncounted>>
          <=> [Table!Table!TableNext]_<<Bt, Bc, Table!Uncounted>>
  BY <1>7, <1>8, <1>14
<1> QED
  BY <1>9, <1>15, PTL
     DEF CountsLikeATable, T!CountsLikeATable, Table!CountsLikeATable,
         T!Table!TableSpec, Table!Table!TableSpec

-----------------------------------------------------------------------------
(* The assumptions of the modules behind the two instances.                *)
LEMMA TableAssumptions ==
    T!TableAssumption /\ T!SizeAssumption /\ T!LayoutAssumption /\ T!PacketAssumption
    /\ T!HashAssumption
<1>1. /\ T!States = States /\ T!CNameTop = CNameTop
      /\ T!Packet = Packet
  BY DEF T!States, States, T!WaitStates, WaitStates, T!ReadWaits, ReadWaits,
         T!WriteWaits, WriteWaits, T!CNameTop, CNameTop, T!Packet, Packet, T!Name, Name,
         T!Word, Word
<1>2. T!TableAssumption
  BY <1>1, BoardAssumption DEF T!TableAssumption
<1>3. T!SizeAssumption
  BY SizeAssumption DEF T!SizeAssumption
<1>4. T!LayoutAssumption
  BY LayoutAssumption DEF T!LayoutAssumption
<1>5. T!PacketAssumption
  BY <1>1, PacketAssumption DEF T!PacketAssumption
<1>6. T!HashAssumption
  BY HashAssumption DEF T!HashAssumption
<1> QED
  BY <1>2, <1>3, <1>4, <1>5, <1>6

(* The sizes, one by one.                                                  *)
LEMMA Sizes ==
    /\ Rows \in Nat \ {0} /\ Cells \in Nat \ {0}
    /\ RowWords \in Nat \ {0} /\ BlockWords = 2 * RowWords
    /\ 0 \in Word
<1>1. BlockWords \in Nat /\ QHostBase \in Nat /\ QHostBase + 1 < BlockWords
  BY LayoutAssumption
<1>2. Rows \in Nat \ {0} /\ Cells \in Nat \ {0}
  BY SizeAssumption
<1>3. Half * Half \in Nat /\ Half * Half >= 4
  BY SizeAssumption
<1>4. RowWords \in Nat \ {0} /\ BlockWords = 2 * RowWords
  BY <1>1, ColumnAssumption DEF RowWords
<1>5. 0 \in Word
  BY <1>3 DEF Word
<1> QED
  BY <1>2, <1>4, <1>5

(* The chip is one.                                                        *)
LEMMA ChipAssumptions == P!ChipAssumption
<1>1. NoRow \notin P!ChipRow
  BY BoardAssumption DEF P!ChipRow, Sdram!ChipRow
<1>2. 0 \in Row /\ 0 \in Cell
  BY Sizes DEF Row, Cell
<1>3. <<0, 0, 0>> \in Row \X Cell \X {0, 1}
  BY <1>2
<1>4. 0 \in 0 .. RowWords - 1 /\ 0 \in Word
  BY Sizes
<1> QED
  BY <1>1, <1>3, <1>4, BoardAssumption DEF P!ChipAssumption

(* The hash of a name is a rest.                                           *)
LEMMA RestAssumptions == P!RestAssumption
BY HashAssumption, WaitAssumption DEF P!RestAssumption

(* Each address of the machine is a place of its own in the chip.          *)
LEMMA ChipPlaces ==
    /\ \A a \in Address : ChipAddr(a) \in P!ChipAddress
    /\ \A a, b \in Address : ChipAddr(a) = ChipAddr(b) => a = b
<1>1. ASSUME NEW x \in 0 .. BlockWords - 1
      PROVE  /\ x \div RowWords \in {0, 1} /\ x % RowWords \in 0 .. RowWords - 1
             /\ x = (x \div RowWords) * RowWords + (x % RowWords)
  <2>1. RowWords \in Nat \ {0} /\ BlockWords = 2 * RowWords /\ x \in Nat /\ x < 2 * RowWords
    BY Sizes
  <2>2. /\ x \div RowWords \in Nat /\ x % RowWords \in 0 .. RowWords - 1
        /\ x = (x \div RowWords) * RowWords + (x % RowWords)
    BY <2>1
  <2>3. \A q \in Nat : q >= 2 => q * RowWords >= 2 * RowWords
    BY <2>1
  <2>4. (x \div RowWords) * RowWords <= x
    BY <2>1, <2>2
  <2>5. ~(x \div RowWords >= 2)
    BY <2>1, <2>2, <2>3, <2>4
  <2> QED
    BY <2>2, <2>5
<1>2. ASSUME NEW a \in Address
      PROVE  ChipAddr(a) \in P!ChipAddress
  <2>1. a.row \in Row /\ a.cell \in Cell /\ a.word \in 0 .. BlockWords - 1
    BY DEF Address, Offset
  <2> QED
    BY <1>1, <2>1 DEF ChipAddr, P!ChipAddress
<1>3. ASSUME NEW a \in Address, NEW b \in Address, ChipAddr(a) = ChipAddr(b)
      PROVE  a = b
  <2>1. /\ a = [row |-> a.row, cell |-> a.cell, word |-> a.word]
        /\ b = [row |-> b.row, cell |-> b.cell, word |-> b.word]
        /\ a.word \in 0 .. BlockWords - 1 /\ b.word \in 0 .. BlockWords - 1
    BY DEF Address, Offset
  <2>2. /\ <<a.row, a.cell, a.word \div RowWords>> = <<b.row, b.cell, b.word \div RowWords>>
        /\ a.word % RowWords = b.word % RowWords
    BY <1>3 DEF ChipAddr
  <2>3. a.row = b.row /\ a.cell = b.cell /\ a.word \div RowWords = b.word \div RowWords
    BY <2>2
  <2>4. a.word = b.word
    BY <1>1, <2>1, <2>2, <2>3
  <2> QED
    BY <2>1, <2>3, <2>4
<1> QED
  BY <1>2, <1>3

-----------------------------------------------------------------------------
(* The invariant at a clock edge.                                          *)
SdHyp == SdInv /\ T!Unhurried /\ T!MachineStep /\ T!Front /\ P!SdramStep(Bus)

(* What is on the bus of the machine, and of the controller.               *)
LEMMA BusFacts ==
    ASSUME T!MemInv
    PROVE  /\ wb \in [addr : Address, dat : Word, we : BOOLEAN, stb : BOOLEAN]
           /\ Bus \in P!Command
           /\ Bus.addr = ChipAddr(wb.addr) /\ Bus.dat = wb.dat
           /\ Bus.we = wb.we /\ Bus.stb = wb.stb
<1>1. wb \in [addr : Address, dat : Word, we : BOOLEAN, stb : BOOLEAN]
  BY SameSets DEF T!MemInv, T!IInv, T!TypeOK, T!BusType
<1>2. ChipAddr(wb.addr) \in P!ChipAddress
  BY <1>1, ChipPlaces
<1> QED
  BY <1>1, <1>2 DEF Bus, P!Command

(* The same, for the next state.                                           *)
LEMMA BusInChip == T!MemInv => Bus \in P!Command
BY BusFacts

(* The direction of the request is that of the state.                      *)
LEMMA Direction ==
    ASSUME T!MemInv
    PROVE  /\ state \in ReadWaits => ~wb.we
           /\ state \in WriteWaits => wb.we
           /\ T!Engaged /\ wb.stb /\ wb.we => state \in WriteWaits
<1>1. /\ state \in WaitStates => wb.stb /\ (wb.we <=> state \in WriteWaits)
      /\ wb.stb /\ wb.we => state \in WriteWaits \cup {"CHECK_A"}
  BY SameSets DEF T!MemInv, T!IInv, T!BusInv
<1>2. T!Engaged => state # "CHECK_A"
  BY SameSets DEF T!Engaged, WaitStates, ReadWaits, WriteWaits
<1> QED
  BY <1>1, <1>2 DEF WaitStates, ReadWaits, WriteWaits

(* The machine is in one of the three.                                     *)
LEMMA Classes ==
    /\ T!Turning \/ T!Engaged \/ T!Still
    /\ ~(T!Engaged /\ T!Still) /\ ~(T!Engaged /\ T!Turning) /\ ~(T!Still /\ T!Turning)
BY DEF T!Turning, T!Engaged, T!Still, T!WaitStates, T!ReadWaits, T!WriteWaits

(* The machine leaves the access that is served undisturbed.               *)
LEMMA SdCtlHyp == SdHyp => P!CtlHyp
<1>1. SUFFICES ASSUME SdHyp, Bus.stb, current_state \in P!Serving
               PROVE  P!Same(command, Bus)
  BY DEF SdHyp, SdInv, P!CtlHyp, P!Undisturbed
<1>2. wb.stb
  BY <1>1, BusFacts DEF SdHyp, SdInv
<1>3. T!Engaged
  BY <1>1, <1>2, Classes DEF SdHyp, SdInv, MasterInv, TurnInv, StillInv
<1> QED
  BY <1>1, <1>3 DEF SdHyp, SdInv, MasterInv, HoldInv

(* What the lemmas of Sdram_proofs say of this edge.                       *)
LEMMA ControllerEdge ==
    ASSUME SdHyp
    PROVE  /\ P!ControlInv' /\ P!RowInv' /\ P!DataFlow'
           /\ current_state' = "Act" => current_state = "Idle" /\ command.stb
           /\ current_state' \in P!Serving =>
                 current_state \in (P!Serving \ {"Pre"}) \cup {"Act"}
           /\ current_state' \in P!InitStates => current_state \in P!InitStates
           /\ ack_o' => current_state' = "Pre" \/ current_state = "Pre"
           /\ current_state = "Pre" => current_state' = "WaitPre" /\ cntr' = TRP_CNTR_C
           /\ current_state = "WaitPre" /\ cntr # 0 => current_state' = "WaitPre"
           /\ command.stb /\ current_state = "Act" =>
                 P!Same(command', command) /\ ~command'.stb
           /\ ~(command.stb /\ current_state = "Act") =>
                 command' = IF Bus.stb THEN Bus ELSE command
           /\ current_state = "W0" => cells' = [cells EXCEPT ![command.addr] = command.dat]
           /\ current_state # "W0" => cells' = cells
<1>1. P!CtlHyp /\ P!ChipAssumption /\ P!RestAssumption
  BY SdCtlHyp, ChipAssumptions, RestAssumptions DEF SdHyp
<1>2. /\ P!CtlType /\ P!ControlInv /\ P!RowInv /\ P!DataFlow /\ P!SdramStep(Bus)
      /\ command \in P!Command /\ Bus \in P!Command /\ P!RegisterCommand(Bus)
  BY DEF SdHyp, SdInv, P!CtlType, P!SdramStep
<1>3. P!ControlInv'
  BY <1>1, P!ControlStep
<1>4. P!RowInv'
  BY <1>1, <1>2, P!RowStep
<1>5. P!DataFlow'
  BY <1>1, <1>2, P!DataFlowStep
<1>6. /\ current_state' = "Act" => current_state = "Idle" /\ command.stb
      /\ current_state' \in P!Serving => current_state \in (P!Serving \ {"Pre"}) \cup {"Act"}
      /\ current_state' \in P!InitStates => current_state \in P!InitStates
      /\ ack_o' => current_state' = "Pre" \/ current_state = "Pre"
      /\ current_state = "Pre" => current_state' = "WaitPre" /\ cntr' = TRP_CNTR_C
      /\ current_state = "WaitPre" /\ cntr # 0 => current_state' = "WaitPre"
  BY <1>1, <1>2, P!ControlFlow
<1>7. /\ command.stb /\ current_state = "Act" => P!Same(command', command) /\ ~command'.stb
      /\ ~(command.stb /\ current_state = "Act") =>
            command' = IF Bus.stb THEN Bus ELSE command
  BY <1>1, <1>2, P!CommandStep
<1>8. /\ current_state = "W0" => cells' = [cells EXCEPT ![command.addr] = command.dat]
      /\ current_state # "W0" => cells' = cells
  BY <1>1, <1>2, P!CellsStep
<1> QED
  BY <1>3, <1>4, <1>5, <1>6, <1>7, <1>8

(* An acknowledge comes in Pre, or is the same one for a second edge.      *)
LEMMA AckPhase ==
    ASSUME SdHyp, ack_o
    PROVE  /\ current_state \in {"Pre", "WaitPre"} /\ current_state' = "WaitPre"
           /\ current_state = "Pre" => cntr' = TRP_CNTR_C
<1>1. current_state = "Pre" \/ (current_state = "WaitPre" /\ cntr = TRP_CNTR_C)
  BY DEF SdHyp, SdInv, P!ControlInv
<1>2. TRP_CNTR_C # 0
  BY WaitAssumption
<1> QED
  BY <1>1, <1>2, ControllerEdge

(* The next request replaces what was to be repeated.                      *)
LEMMA TurnStep == ASSUME SdHyp, T!Turning PROVE MasterInv'
<1>1. T!MemInv /\ T!MachineStep
  BY DEF SdHyp, SdInv
<1>2. T!Engaged' /\ wb'.stb
  BY <1>1, TableAssumptions, T!NextRequest
<1>3. /\ current_state \notin P!Serving \cup {"Act"}
      /\ command.stb => current_state = "WaitPre"
  BY DEF SdHyp, SdInv, MasterInv, TurnInv
<1>4. current_state' \notin P!Serving \cup {"Act"} /\ ~ack_o'
  BY <1>3, ControllerEdge DEF P!Serving
<1>5. ~T!Turning' /\ ~T!Still'
  BY <1>2, Classes, PTL
<1> QED
  BY <1>2, <1>4, <1>5 DEF MasterInv, TurnInv, HoldInv, StillInv

(* The access that is begun is the one that is asked for.                  *)
LEMMA HeldStep == ASSUME SdHyp, T!Engaged, ~ack_o PROVE MasterInv'
<1>1. T!MemInv /\ T!MachineStep /\ wb.stb /\ Bus.stb
  BY BusFacts DEF SdHyp, SdInv, MasterInv, HoldInv
<1>2. T!Engaged' /\ wb' = wb
  BY <1>1, TableAssumptions, T!HeldRequest
<1>3. Bus' = Bus
  BY <1>2 DEF Bus
<1>4. ~T!Turning' /\ ~T!Still'
  BY <1>2, Classes, PTL
<1>5. current_state # "Pre"
  BY DEF SdHyp, SdInv, P!ControlInv
<1>6. /\ current_state = "Act" => command = Bus
      /\ current_state \in P!Serving => P!Same(command, Bus)
  BY DEF SdHyp, SdInv, MasterInv, HoldInv
<1>7. ack_o' => current_state' = "Pre"
  BY <1>5, ControllerEdge
<1>8. current_state' = "Act" => command' = Bus'
  BY <1>1, <1>3, ControllerEdge
<1>9. current_state' \in P!Serving => P!Same(command', Bus')
  BY <1>1, <1>3, <1>6, ControllerEdge DEF P!Serving, P!Same
<1> QED
  BY <1>1, <1>2, <1>4, <1>7, <1>8, <1>9 DEF MasterInv, TurnInv, HoldInv, StillInv

(* The acknowledge comes when the chip is about to precharge: the same     *)
(* request is pending once more then, unless another one follows.          *)
LEMMA AnsweredStep == ASSUME SdHyp, T!Engaged, ack_o PROVE MasterInv'
<1>1. /\ T!MemInv /\ T!MachineStep /\ wb.stb /\ Bus.stb
      /\ current_state \in P!Serving => P!Same(command, Bus)
      /\ state \in WaitStates => current_state = "Pre"
  BY BusFacts DEF SdHyp, SdInv, MasterInv, HoldInv
<1>2. /\ T!Engaged' => wb'.stb /\ state' \notin WaitStates
      /\ T!Still' => state \in WaitStates /\ ~wb'.stb /\ state' # "HASHING"
  BY <1>1, TableAssumptions, SameSets, T!AnsweredRequest
<1>3. current_state' = "WaitPre" /\ (current_state = "Pre" => cntr' = TRP_CNTR_C)
  BY AckPhase
<1>4. current_state' \notin P!Serving \cup {"Act"} \cup P!InitStates
  BY <1>3 DEF P!Serving, P!InitStates
<1>5. TurnInv' /\ HoldInv'
  BY <1>2, <1>3, <1>4 DEF TurnInv, HoldInv
<1>6. ASSUME T!Still'
      PROVE  /\ P!Pending' => T!Elapsed' <= P!RepeatBound'
             /\ P!Pending' /\ command'.we => cells'[command'.addr] = command'.dat
  <2>1. current_state = "Pre" /\ state' # "HASHING"
    BY <1>1, <1>2, <1>6
  <2>2. T!Elapsed' = 0
    BY <2>1 DEF T!Elapsed
  <2>3. TRP_CNTR_C \in Nat /\ cntr' = TRP_CNTR_C
    BY <1>3, <2>1, BoardAssumption
  <2>4. P!RepeatBound' = 0
    BY <1>3, <2>3 DEF P!RepeatBound
  <2>5. command' = Bus /\ cells' = cells
    BY <1>1, <2>1, ControllerEdge
  <2>6. P!Same(command, Bus) /\ (command.we => cells[command.addr] = command.dat)
    BY <1>1, <2>1 DEF SdHyp, SdInv, P!DataFlow, P!Serving
  <2> QED
    BY <2>2, <2>4, <2>5, <2>6 DEF P!Same
<1>7. StillInv'
  BY <1>2, <1>4, <1>6 DEF StillInv
<1> QED
  BY <1>5, <1>7 DEF MasterInv

(* The repetition is over before the hash is there, and a write that is    *)
(* repeated changes nothing.                                               *)
LEMMA StillStep == ASSUME SdHyp, T!Still PROVE MasterInv'
<1>1. P!CtlHyp /\ P!ChipAssumption /\ P!RestAssumption
  BY SdCtlHyp, ChipAssumptions, RestAssumptions DEF SdHyp
<1>2. /\ T!MemInv /\ T!HashInv /\ T!MachineStep /\ T!Front
      /\ P!ControlInv /\ P!RowInv
      /\ ~wb.stb /\ ~Bus.stb
      /\ current_state \in P!Serving => ~command.stb
      /\ command.stb => current_state \notin P!InitStates
      /\ P!Pending => T!Elapsed <= P!RepeatBound
      /\ P!Pending /\ command.we => cells[command.addr] = command.dat
  BY BusFacts DEF SdHyp, SdInv, MasterInv, StillInv
<1>3. /\ ~wb'.stb /\ ~T!Engaged'
      /\ T!Turning' => (state = "HASHING" /\ qname_ready) \/ ack_o
  BY <1>2, TableAssumptions, T!NoRequest
<1>4. /\ T!Elapsed \in Nat /\ T!Elapsed' \in Int /\ T!Elapsed' <= T!Elapsed + 1
      /\ state = "HASHING" /\ qname_ready => T!Elapsed = QnameBytes + 1
  BY <1>2, TableAssumptions, T!ElapsedStep
<1>5. /\ command'.stb => command.stb
      /\ current_state \in P!Serving \cup {"Act"} => ~command'.stb
      /\ current_state = "Act" => command.stb
  BY <1>2, ControllerEdge DEF P!ControlInv, P!Serving
<1>6. ASSUME T!Turning'
      PROVE  /\ current_state' \notin P!Serving \cup {"Act"}
             /\ command'.stb => current_state' = "WaitPre"
  <2>1. CASE ack_o
    BY <2>1, AckPhase DEF P!Serving
  <2>2. CASE state = "HASHING" /\ qname_ready
    <3>1. T!Elapsed = QnameBytes + 1 /\ QnameBytes \in Nat
      BY <1>4, <2>2, HashAssumption
    <3>2. CASE current_state = "Pre"
      BY <3>2, ControllerEdge DEF P!Serving
    <3>3. CASE current_state # "Pre"
      <4>1. P!RepeatBound \in Int /\ P!RepeatBound < QnameBytes
        BY <1>1, <1>2, <3>3, P!RepeatBoundAtMost
      <4>2. ~P!Pending
        BY <1>2, <3>1, <4>1
      <4> QED
        BY <1>5, <4>2, ControllerEdge DEF P!Pending, P!Serving
    <3> QED
      BY <3>2, <3>3
  <2> QED
    BY <1>3, <1>6, <2>1, <2>2
<1>7. TurnInv' /\ HoldInv'
  BY <1>3, <1>6 DEF TurnInv, HoldInv
<1>8. current_state' \in P!Serving => ~command'.stb
  BY <1>5, ControllerEdge DEF P!Serving
<1>9. command'.stb => current_state' \notin P!InitStates
  BY <1>2, <1>5, ControllerEdge
<1>10. ASSUME P!Pending'
       PROVE  T!Elapsed' <= P!RepeatBound'
  <2>1. command'.stb \/ current_state' \in P!Serving
    BY <1>10 DEF P!Pending
  <2>2. current_state # "Pre" /\ P!Pending
    BY <1>5, <2>1, ControllerEdge DEF P!Pending, P!Serving
  <2>3. P!RepeatBound + 1 <= P!RepeatBound'
    BY <1>1, <1>2, <1>10, <2>2, P!RepeatBoundStep
  <2>4. P!RepeatBound \in Int
    BY <1>1, <1>2, <2>2, P!RepeatBoundAtMost
  <2>5. P!RepeatBound' \in Int
    BY BoardAssumption, ControllerEdge DEF P!RepeatBound, P!ControlInv
  <2> QED
    BY <1>2, <1>4, <2>2, <2>3, <2>4, <2>5
<1>11. ASSUME P!Pending', command'.we
       PROVE  cells'[command'.addr] = command'.dat
  BY <1>1, <1>2, <1>11, P!PendingHarmless
<1>12. StillInv'
  BY <1>3, <1>8, <1>9, <1>10, <1>11 DEF StillInv
<1> QED
  BY <1>7, <1>12 DEF MasterInv

-----------------------------------------------------------------------------
(* The memory that the machine sees.                                       *)
Mem == [a \in Address |-> cells[ChipAddr(a)]]

(* Its word at the address on the bus is that of the access.               *)
LEMMA MemAt ==
    ASSUME P!CtlType
    PROVE  /\ Mem \in [Address -> Word]
           /\ \A a \in Address : Mem[a] = cells[ChipAddr(a)]
<1>1. \A a \in Address : cells[ChipAddr(a)] \in Word
  BY ChipPlaces DEF P!CtlType
<1> QED
  BY <1>1 DEF Mem

(* A write to the chip is one to that memory.                              *)
LEMMA MemWritten ==
    ASSUME P!CtlType, NEW a \in Address, NEW d \in Word,
           cells' = [cells EXCEPT ![ChipAddr(a)] = d]
    PROVE  Mem' = [Mem EXCEPT ![a] = d]
<1>1. ASSUME NEW b \in Address
      PROVE  cells'[ChipAddr(b)] = IF b = a THEN d ELSE cells[ChipAddr(b)]
  <2>1. ChipAddr(b) \in P!ChipAddress /\ ChipAddr(a) \in P!ChipAddress
    BY ChipPlaces
  <2>2. cells \in [P!ChipAddress -> Word]
    BY DEF P!CtlType
  <2>3. b # a => ChipAddr(b) # ChipAddr(a)
    BY ChipPlaces
  <2> QED
    BY <2>1, <2>2, <2>3
<1>2. Mem' = [b \in Address |-> IF b = a THEN d ELSE cells[ChipAddr(b)]]
  BY <1>1 DEF Mem
<1>3. [Mem EXCEPT ![a] = d] = [b \in Address |-> IF b = a THEN d ELSE cells[ChipAddr(b)]]
  BY DEF Mem
<1> QED
  BY <1>2, <1>3

(* The acknowledge that a wait state takes is that of its request: a read  *)
(* brings the word of its address, and a write has put its data there.     *)
LEMMA Acknowledged ==
    ASSUME SdInv, ack_o, state \in WaitStates
    PROVE  /\ state \in ReadWaits => dat_o = cells[ChipAddr(wb.addr)]
           /\ state \in WriteWaits => cells[ChipAddr(wb.addr)] = wb.dat
<1>1. T!Engaged
  BY SameSets DEF T!Engaged
<1>2. current_state = "Pre" /\ P!Same(command, Bus)
  BY <1>1 DEF SdInv, MasterInv, HoldInv, P!Serving
<1>3. /\ ~command.we => dat_o = cells[command.addr]
      /\ command.we => cells[command.addr] = command.dat
  BY <1>2 DEF SdInv, P!DataFlow
<1> QED
  BY <1>2, <1>3, BusFacts, Direction DEF SdInv, P!Same

(* So this memory keeps its word.                                          *)
LEMMA WordKept == SdInv => T!AccessInv
<1>1. SUFFICES ASSUME SdInv, ack_o
               PROVE  /\ state \in ReadWaits => dat_o = Mem[wb.addr]
                      /\ state \in WriteWaits => Mem[wb.addr] = wb.dat
  BY SameSets DEF T!AccessInv, Mem
<1>2. wb.addr \in Address
  BY <1>1, BusFacts DEF SdInv
<1>3. Mem[wb.addr] = cells[ChipAddr(wb.addr)]
  BY <1>1, <1>2, MemAt DEF SdInv
<1> QED
  BY <1>1, <1>3, Acknowledged DEF WaitStates

(* The chip is written when the machine waits for it, with the word on the *)
(* bus, or the write repeats one whose word is there already.              *)
LEMMA WritesAsAsked ==
    ASSUME SdHyp
    PROVE  T!Stores \/ Mem' = Mem
<1>1. CASE current_state # "W0"
  BY <1>1, ControllerEdge DEF Mem
<1>2. CASE current_state = "W0"
  <2>1. /\ cells' = [cells EXCEPT ![command.addr] = command.dat]
        /\ command.we /\ ~ack_o
        /\ command.addr \in P!ChipAddress /\ cells \in [P!ChipAddress -> Word]
    BY <1>2, ControllerEdge
       DEF SdHyp, SdInv, P!ControlInv, P!CtlType, P!Command
  <2>2. ~T!Turning
    BY <1>2 DEF SdHyp, SdInv, MasterInv, TurnInv, P!Serving
  <2>3. CASE T!Still
    <3>1. cells[command.addr] = command.dat
      BY <1>2, <2>1, <2>3 DEF SdHyp, SdInv, MasterInv, StillInv, P!Pending, P!Serving
    <3>2. cells' = cells
      BY <2>1, <3>1
    <3> QED
      BY <3>2 DEF Mem
  <2>4. CASE T!Engaged
    <3>1. /\ T!MemInv /\ T!MachineStep /\ wb.stb /\ P!Same(command, Bus)
          /\ wb \in [addr : Address, dat : Word, we : BOOLEAN, stb : BOOLEAN]
      BY <1>2, <2>4, BusFacts DEF SdHyp, SdInv, MasterInv, HoldInv, P!Serving
    <3>2. command.addr = ChipAddr(wb.addr) /\ command.dat = wb.dat /\ wb.we
      BY <2>1, <3>1, BusFacts DEF P!Same
    <3>3. state \in WriteWaits
      BY <2>4, <3>1, <3>2, Direction
    <3>4. UNCHANGED T!vars
      BY <2>1, <2>4, <3>1, <3>3, TableAssumptions, SameSets, T!HeldRequest
         DEF WaitStates
    <3>5. Mem' = [Mem EXCEPT ![wb.addr] = wb.dat]
      BY <2>1, <3>1, <3>2, MemWritten DEF SdHyp, SdInv
    <3> QED
      BY <3>3, <3>4, <3>5, SameSets DEF T!Stores, Mem
  <2> QED
    BY <2>2, <2>3, <2>4, Classes
<1> QED
  BY <1>1, <1>2

-----------------------------------------------------------------------------
(* The first state.                                                        *)
LEMMA SdInitInv == SdInit => T!MemInit /\ SdInv
<1> SUFFICES ASSUME SdInit PROVE T!MemInit /\ SdInv
  OBVIOUS
<1>1. T!Init
  BY DEF SdInit, Init, T!Init, T!ZeroPacket, ZeroPacket, T!ZeroName, ZeroName,
         T!StatSlots, StatSlots, T!QueryCount, QueryCount, T!CNameCount, CNameCount,
         T!Zero, Zero
<1>2. /\ current_state = "Init" /\ cntr = 0 /\ init_pre_cntr = 0
      /\ rfsh_int_cntr = 0 /\ do_refresh = FALSE
      /\ command = [addr |-> ChipAddr(Zero), dat |-> 0, we |-> FALSE, stb |-> FALSE]
      /\ ack_o = FALSE /\ dat_o = 0 /\ open_row = NoRow /\ sense = 0
      /\ cells = [c \in Sdram!ChipAddress |-> 0]
  BY DEF SdInit, Sdram!SdramInit
<1>3. P!ChipAddress = Sdram!ChipAddress
  BY DEF P!ChipAddress, Sdram!ChipAddress
<1>4. \A a \in Address : cells[ChipAddr(a)] = 0
  BY <1>2, <1>3, ChipPlaces
<1>5. T!MemInit
  <2>1. Mem = [a \in Address |-> 0]
    BY <1>4 DEF Mem
  <2> QED
    BY <1>1, <1>2, <2>1, Sizes, SameSets DEF T!MemInit, T!ZeroMem, Mem
<1>6. T!MemInv
  BY <1>5, TableAssumptions, T!MemInitInv
<1>7. T!HashInv
  <2>1. T!FrontInit
    BY DEF SdInit, Table!FrontInit, T!FrontInit, Table!HashInit, T!HashInit
  <2> QED
    BY <1>1, <2>1, TableAssumptions, T!HashInitInv
<1>8. P!CtlType
  <2>1. /\ 0 \in 0 .. InitRefreshes /\ 0 \in 0 .. RFSH_CNTR_C
        /\ FALSE \in BOOLEAN
    BY BoardAssumption
  <2>2. command \in P!Command
    <3>1. wb.addr = Zero /\ wb.addr \in Address
      BY <1>6, BusFacts DEF SdInit, Init
    <3>2. ChipAddr(Zero) \in P!ChipAddress
      BY <3>1, ChipPlaces
    <3> QED
      BY <1>2, <3>2, Sizes DEF P!Command
  <2>3. Bus \in P!Command
    BY <1>6, BusFacts
  <2>4. cells \in [P!ChipAddress -> Word]
    BY <1>2, <1>3, Sizes
  <2>5. do_refresh \in BOOLEAN /\ ack_o \in BOOLEAN
    BY <1>2, <2>1
  <2> QED
    BY <1>2, <2>1, <2>2, <2>3, <2>4, <2>5, Sizes
       DEF P!CtlType, P!CtlStates, P!InitStates
<1>9. P!ControlInv /\ P!RowInv /\ P!DataFlow
  BY <1>2 DEF P!ControlInv, P!RowInv, P!DataFlow
<1>10. MasterInv
  <2>1. ~wb.stb /\ state = "IDLE" /\ ~command.stb
    BY <1>2 DEF SdInit, Init
  <2>2. ~T!Engaged
    BY <2>1, SameSets DEF T!Engaged, WaitStates, ReadWaits, WriteWaits
  <2> QED
    BY <1>2, <2>1, <2>2
       DEF MasterInv, TurnInv, HoldInv, StillInv, P!Pending, P!Serving
<1> QED
  BY <1>5, <1>6, <1>7, <1>8, <1>9, <1>10 DEF SdInv

(* Every edge keeps the invariant, and is one of the machine on a memory   *)
(* that keeps its word.                                                    *)
LEMMA SdEdge ==
    ASSUME SdInv, Table!Unhurried, Clock
    PROVE  T!MemEdge /\ SdInv'
<1>1. SdHyp
  <2>1. Table!MachineStep /\ Table!Front /\ Sdram!SdramStep(Bus)
    BY DEF Clock, Bus
  <2>2. T!Unhurried
    BY DEF T!Unhurried, Table!Unhurried
  <2> QED
    BY <2>1, <2>2, SameMachine, SameFront, SameController DEF SdHyp
<1>2. /\ T!MemInv /\ T!HashInv /\ T!MachineStep /\ T!Front /\ T!IInv /\ T!MemType
      /\ T!Unhurried
      /\ P!CtlType /\ P!ControlInv /\ P!RowInv
      /\ P!SdramStep(Bus) /\ P!RefreshTimer
  BY <1>1 DEF SdHyp, SdInv, T!MemInv, P!SdramStep
<1>3. P!ChipAssumption /\ P!RestAssumption
  BY ChipAssumptions, RestAssumptions
<1>4. MasterInv'
  BY <1>1, TurnStep, HeldStep, AnsweredStep, StillStep, Classes
<1>5. T!HashInv'
  BY <1>2, TableAssumptions, T!HashInvStep
<1>6. T!IInv'
  BY <1>2, TableAssumptions, T!MachineStepIsNext, T!NextInv
<1>7. /\ current_state' \in P!CtlStates
      /\ init_pre_cntr' \in 0 .. InitRefreshes
      /\ ack_o' \in BOOLEAN /\ dat_o' \in Word
      /\ open_row' \in P!ChipRow \cup {NoRow} /\ sense' \in Word
      /\ cells' \in [P!ChipAddress -> Word]
  BY <1>2, <1>3, P!ControllerTypeStep
<1>8. rfsh_int_cntr' \in 0 .. RFSH_CNTR_C /\ do_refresh' \in BOOLEAN
  BY <1>2, <1>3, P!TimerStep
<1>9. command' \in P!Command
  <2>1. command \in P!Command /\ Bus \in P!Command /\ P!RegisterCommand(Bus)
    BY <1>2 DEF P!CtlType, P!SdramStep
  <2> QED
    BY <1>3, <2>1, P!CommandStep
<1>10. T!MemType'
  <2>1. \A a \in Address : cells'[ChipAddr(a)] \in Word
    BY <1>7, ChipPlaces
  <2> QED
    BY <1>7, <2>1, SameSets DEF T!MemType
<1>11. T!MemInv'
  BY <1>6, <1>10 DEF T!MemInv
<1>12. P!CtlType'
  <2>1. (Bus \in P!Command)'
    BY <1>11, BusInChip, PTL
  <2> QED
    BY <1>7, <1>8, <1>9, <2>1 DEF P!CtlType
<1>13. P!ControlInv' /\ P!RowInv' /\ P!DataFlow'
  BY <1>1, ControllerEdge
<1>14. SdInv'
  BY <1>4, <1>5, <1>11, <1>12, <1>13 DEF SdInv
<1>15. T!AccessInv'
  BY <1>14, WordKept, PTL
<1>16. T!Stores \/ Mem' = Mem
  BY <1>1, WritesAsAsked
<1> QED
  BY <1>2, <1>10, <1>14, <1>15, <1>16 DEF T!MemEdge, Mem

(* Nothing else changes it.                                                *)
LEMMA SdStutter ==
    ASSUME SdInv, UNCHANGED sdVars
    PROVE  SdInv' /\ UNCHANGED T!memVars
<1>1. /\ UNCHANGED <<state, data_count, intrablock, interblock, hash, parser_ready>>
      /\ UNCHANGED <<parsed_pkts, pkt, left, blk, wb, latched, uart>>
  BY DEF sdVars, vars, place, work, side
<1>2. /\ UNCHANGED <<hash_state, counter, hash_value, qname_ready, hash_valid, parser_valid>>
      /\ UNCHANGED <<current_state, cntr, init_pre_cntr, rfsh_int_cntr, do_refresh>>
      /\ UNCHANGED <<open_row, sense, cells, command, ack_o, dat_o>>
  BY
     DEF sdVars, hashVars, Sdram!sdramVars, Sdram!ctlVars, Sdram!timeVars,
         Sdram!chipVars
<1>3. UNCHANGED T!vars /\ UNCHANGED T!memVars
  BY <1>1, <1>2 DEF T!vars, T!place, T!work, T!side, T!memVars
<1>4. T!MemInv'
  BY <1>3, TableAssumptions, WordKept, T!MemInvStep DEF SdInv
<1>5. T!HashInv'
  BY <1>1, <1>2 DEF SdInv, T!HashInv
<1>6. P!CtlType' /\ P!ControlInv' /\ P!RowInv' /\ P!DataFlow'
  BY <1>1, <1>2 DEF SdInv, P!CtlType, P!ControlInv, P!RowInv, P!DataFlow, Bus
<1>7. Bus' = Bus
  BY <1>1 DEF Bus
<1>8. T!Turning' = T!Turning /\ T!Engaged' = T!Engaged /\ T!Still' = T!Still
  BY <1>1 DEF T!Turning, T!Engaged, T!Still
<1>9. T!Elapsed' = T!Elapsed /\ P!RepeatBound' = P!RepeatBound /\ P!Pending' = P!Pending
  BY <1>1, <1>2 DEF T!Elapsed, P!RepeatBound, P!Pending
<1>10. MasterInv'
  BY <1>1, <1>2, <1>7, <1>8, <1>9
     DEF SdInv, MasterInv, TurnInv, HoldInv, StillInv, P!Same
<1> QED
  BY <1>3, <1>4, <1>5, <1>6, <1>10 DEF SdInv

(* The invariant, in every state, while packets come to an idle machine.   *)
THEOREM SdInvariant == SdSpec /\ UnhurriedTraffic => []SdInv
<1>1. SdInit => SdInv
  BY SdInitInv
<1>2. SdInv /\ [Clock]_sdVars /\ [Table!Unhurried]_sdVars => SdInv'
  BY SdEdge, SdStutter
<1> QED
  BY <1>1, <1>2, PTL DEF SdSpec, UnhurriedTraffic

(* No acknowledge is taken for another request's: the word that a read     *)
(* brings is the one at its own address, although each access may be done  *)
(* twice.  This is for the two joined, and packets that come to an idle    *)
(* machine, as all theorems here.                                          *)
THEOREM AnswersItsOwn == SdSpec /\ UnhurriedTraffic => []AnswerIsItsOwn
<1>1. SdInv => AnswerIsItsOwn
  BY Acknowledged DEF AnswerIsItsOwn, WaitStates
<1> QED
  BY <1>1, SdInvariant, PTL

(* The controller and its chip are a memory that keeps its word, for a     *)
(* machine that packets come to when it is idle.                           *)
THEOREM SdramKeepsItsWord == SdSpec /\ UnhurriedTraffic => T!MemSpec
<1>1. SdInit => T!MemInit
  BY SdInitInv
<1>2. SdInv /\ [Clock]_sdVars /\ [Table!Unhurried]_sdVars => [T!MemEdge]_(T!memVars)
  BY SdEdge, SdStutter
<1> QED
  BY <1>1, <1>2, SdInvariant, PTL DEF SdSpec, UnhurriedTraffic, T!MemSpec

(* So the cell that receives a new name is free on the SDRAM too, for the  *)
(* same traffic.                                                           *)
THEOREM SdramFreeCellTaken ==
    ASSUME OffloadAfter <= 2, T!SlotsFit
    PROVE  SdSpec /\ UnhurriedTraffic => []T!CellTakenIsFree
<1>1. T!MemSpec => []T!CellTakenIsFree
  BY TableAssumptions, T!FreeCellTaken
<1> QED
  BY <1>1, SdramKeepsItsWord, PTL

(* The storage machine on the SDRAM implements the domain table: every     *)
(* packet is counted once, although its accesses may be done twice, when   *)
(* packets come to an idle machine.                                        *)
THEOREM SdramCountsAsTable ==
    ASSUME OffloadAfter <= 2, Cells >= 2,
           T!SlotsFit, T!BothFit, T!NoTails
    PROVE  SdSpec /\ UnhurriedTraffic => CountsLikeATable
<1>1. T!MemSpec => T!CountsLikeATable
  BY TableAssumptions, T!CountsAsTable
<1> QED
  BY <1>1, SameTable, SdramKeepsItsWord, PTL

(* The AAAA records of a finished packet are in the slots of its cell.     *)
LEMMA SameRecords == T!AAAARecordsKept <=> AAAARecordsKept
<1>1. \A k : T!AAAASlot(k) = Table!AAAASlot(k)
  BY DEF T!AAAASlot, Table!AAAASlot, T!At, Table!At
<1>2. T!AAAASlots = Table!AAAASlots
  BY DEF T!AAAASlots, Table!AAAASlots
<1>3. T!busVars = Table!busVars
  BY DEF T!busVars, Table!busVars, T!vars, Table!vars, T!place, Table!place, T!work,
         Table!work, T!side, Table!side, T!hashVars, Table!hashVars
<1>4. (T!busVars = Table!busVars)'
  BY <1>3, PTL
<1>5. ASSUME NEW r
      PROVE  (\E k \in 0 .. T!AAAASlots - 1 : T!AAAASlot(k) = r)
                <=> \E k \in 0 .. Table!AAAASlots - 1 : Table!AAAASlot(k) = r
  BY <1>1, <1>2
<1>6. [parsed_pkts' = parsed_pkts + 1 =>
         \A i \in 1 .. pkt.nAAAA :
            pkt.aaaa[i][Quarters - 1] # 0 =>
               \E k \in 0 .. T!AAAASlots - 1 : T!AAAASlot(k) = pkt.aaaa[i]]_(T!busVars)
      <=>
      [parsed_pkts' = parsed_pkts + 1 =>
         \A i \in 1 .. pkt.nAAAA :
            pkt.aaaa[i][Quarters - 1] # 0 =>
               \E k \in 0 .. Table!AAAASlots - 1 : Table!AAAASlot(k) = pkt.aaaa[i]]_(Table!busVars)
  BY <1>3, <1>4, <1>5
<1> QED
  BY <1>6, PTL DEF T!AAAARecordsKept, AAAARecordsKept, Table!AAAARecordsKept

(* On the SDRAM too the records of a finished packet are in the slots of   *)
(* its cell: no access that the controller does twice damages one, when    *)
(* packets come to an idle machine.                                        *)
THEOREM SdramAddressesKept ==
    ASSUME OffloadAfter <= 2, Cells >= 2,
           T!SlotsFit, T!BothFit, T!RecordsFit, T!AddressesBegin
    PROVE  SdSpec /\ UnhurriedTraffic => AAAARecordsKept
<1>1. T!MemSpec => T!AAAARecordsKept
  BY TableAssumptions, T!AddressesKept
<1> QED
  BY <1>1, SameRecords, SdramKeepsItsWord, PTL

=============================================================================
