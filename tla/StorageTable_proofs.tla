------------------------ MODULE StorageTable_proofs ------------------------
(***************************************************************************)
(* What the memory holds: the storage machine on any memory that keeps its *)
(* word finds a free cell for a new name and the cell of a name that it    *)
(* knows, counts like the domain table and keeps the AAAA records of every *)
(* packet, for every layout of a cell and all packets, as long as it       *)
(* counts at most two packets before it zeroes the memory, as the code     *)
(* does.  StorageBench_proofs and StorageSdram_proofs say that their       *)
(* memory keeps its word.                                                  *)
(***************************************************************************)
EXTENDS StorageTable, Storage_proofs, FiniteSetTheorems

(* A name that is the tail of another one, cut at a word, would be taken   *)
(* for it: its end shows as a zero word.                                   *)
NoTails ==
    \A p, q \in Packets, k \in 0 .. NameWords - 1 :
       p.name[k] = 0 /\ (\A i \in 0 .. k - 1 : p.name[i] = q.name[i]) => p.name = q.name

(* The last word of CNAME slot k; the slots of one packet lie inside the   *)
(* cell.                                                                   *)
Top(k)   == CNameTop + k * NameWords
SlotsFit == Top(2) < BlockWords

-----------------------------------------------------------------------------
(* The memory.  An acknowledge is for the word on the bus: a read brings   *)
(* it, a write has put it there.  Nothing is said of the first access of   *)
(* an A record: the strobe stays up into CHECK_A and APPEND_A, and lets    *)
(* the memory of the test bench begin in the direction of the access       *)
(* before.                                                                 *)
Carried == {"CHECK_A_W", "APPEND_A_W"}
AccessInv ==
    /\ ack /\ state \in ReadWaits \ Carried => answer = mem[wb.addr]
    /\ ack /\ state \in WriteWaits \ Carried => mem[wb.addr] = wb.dat

MemType ==
    /\ ack \in BOOLEAN /\ answer \in Word
    /\ mem \in [Address -> Word]
MemInv == IInv /\ MemType

(* The memory writes the word on the bus while the machine waits for it,   *)
(* or it does not write.                                                   *)
Stores ==
    /\ state \in WriteWaits \cup {"CHECK_A_W"}
    /\ UNCHANGED vars
    /\ mem' = [mem EXCEPT ![wb.addr] = wb.dat]
MemEdge ==
    /\ MachineStep
    /\ Stores \/ mem' = mem
    /\ MemType' /\ AccessInv'

(* A memory that keeps its word, with zeroes at power-up.                  *)
memVars == <<vars, mem, ack, answer>>
MemInit == Init /\ mem = ZeroMem /\ ack = FALSE /\ answer \in Word
MemSpec == MemInit /\ [][MemEdge]_memVars

-----------------------------------------------------------------------------
(* The table of up to two packets.                                         *)
Busy    == state \notin Resting
Looking == {"HASHING", "CHECK_CELLS", "CHECK_CELLS_WAIT", "CHECK_NAME", "CHECK_NAME_WAIT"}
Writing == {"WRITE_QNAME", "WRITE_QNAME_WAIT"}
Marking == {"SET_IN_USE", "SET_IN_USE_W"}
Counting == {"READ_STATS", "READ_STATS_W", "UPDATE_STATS", "UPDATE_STATS_W"}
CNaming == {"CHECK_CNAME", "CHECK_CNAME_W", "APPEND_CNAME", "APPEND_CNAME_W"}
Hosting == {"CHECK_QHOST", "CHECK_QHOST_W", "WRITE_QHOST", "WRITE_QHOST_W"}
HostStat == {"READ_QHOST_STAT", "READ_QHOST_STAT_W", "UPDATE_QHOST_STAT",
             "UPDATE_QHOST_STAT_W"}
BeforeCNames == States \ (Resting \cup CNaming \cup Hosting \cup HostStat)

Word0(cell, word) == mem[[row |-> 0, cell |-> cell, word |-> word]]
Holds(cell, name) ==
    \A w \in 0 .. NameWords - 1 : Word0(cell, w) = name[NameWords - 1 - w]

(* All names share one row, and a packet is worked on only while at most   *)
(* one was counted.                                                        *)
WorkInv ==
    /\ hash = 0
    /\ Busy => /\ pkt \in Packets /\ left.cname <= pkt.nCNAME
               /\ parsed_pkts \in {0, 1}
               /\ parsed_pkts = 0 => interblock = 0

(* The memory is clean for the first packet, but for the cell of that one  *)
(* for the second.                                                         *)
CleanInv ==
    /\ state \in {"IDLE"} \cup Looking /\ parsed_pkts = 0 => \A a \in Address : mem[a] = 0
    /\ (state \in {"IDLE"} \cup Looking /\ parsed_pkts = 1) \/ (Busy /\ parsed_pkts = 0) =>
          \A a \in Address : a.row # 0 \/ a.cell # 0 => mem[a] = 0

(* The first packet has left its name behind.                              *)
EntryInv ==
    state \in {"IDLE"} \cup Looking /\ parsed_pkts = 1 =>
        /\ Word0(0, InUse) = 1
        /\ \E p \in Packets : Holds(0, p.name)

(* The search: the cell after the first one is probed at a wrong word, but *)
(* it is empty.                                                            *)
SearchInv ==
    /\ state = "HASHING" => interblock = 0
    /\ state \in {"CHECK_CELLS", "CHECK_CELLS_WAIT"} =>
          (interblock = 0 /\ intrablock = InUse) \/ interblock = 1
    /\ state \in {"CHECK_NAME", "CHECK_NAME_WAIT"} =>
          /\ parsed_pkts = 1 /\ interblock = 0
          /\ \A w \in intrablock + 1 .. NameWords - 1 :
                Word0(0, w) = pkt.name[NameWords - 1 - w]

(* The cell of the packet.                                                 *)
WriteInv ==
    /\ state \in Writing =>
          /\ \A s \in StatSlots : Word0(interblock, s) = 0
          /\ \A w \in 0 .. intrablock - 1 :
                Word0(interblock, w) = pkt.name[NameWords - 1 - w]
    /\ state \in Marking => Holds(interblock, pkt.name)
    /\ state = "SET_IN_USE_W" => wb.dat = 1
HeldInv ==
    /\ state \in Counting =>
          /\ Word0(interblock, InUse) = 1
          /\ parsed_pkts = 0 \/ NoTails => Holds(interblock, pkt.name)
    /\ Busy /\ state \notin BeforeRecords /\ parsed_pkts = 0 =>
          Word0(0, InUse) = 1 /\ Holds(0, pkt.name)

(* The slots for CNAMEs from the first one on are free until the CNAMEs of *)
(* the packet go there; done counts the slots before the first one and the *)
(* CNAMEs that were worked off.  The slots up to the last one matter: the  *)
(* scan does not look behind it.                                           *)
Done == pkt.nCNAME - left.cname
Checks(word, count, done, last) ==
    /\ \E k \in 0 .. last : word + count = Top(k) /\ k <= done /\ (count > 0 => k < done)
    /\ \A j \in 0 .. last : j >= done => Word0(interblock, Top(j)) = 0
Appends(word, count, done, last) ==
    /\ \E k \in 0 .. last : word + count = Top(k) /\ k <= done
    /\ \A j \in 0 .. last : j > done => Word0(interblock, Top(j)) = 0
SlotInv(first, last) ==
    /\ state \in BeforeCNames =>
          \A j \in 0 .. last : j >= first => Word0(interblock, Top(j)) = 0
    /\ state \in {"CHECK_CNAME", "CHECK_CNAME_W"} =>
          Checks(intrablock, data_count, first + Done, last)
    /\ state \in {"APPEND_CNAME", "APPEND_CNAME_W"} =>
          Appends(intrablock, data_count, first + Done, last)
    /\ state \in Hosting => intrablock > CNameCount

(* In a cell of its own a packet finds all of them free.                   *)
Fresh    == parsed_pkts = 0 \/ interblock = 1
FreshInv == Fresh => SlotInv(0, 2)

(* What is behind the address is zero.                                     *)
Before(a, b) ==
    \/ a.row < b.row
    \/ a.row = b.row /\ a.cell < b.cell
    \/ a.row = b.row /\ a.cell = b.cell /\ a.word < b.word
ZeroInv ==
    /\ state \in {"ZERO", "ZERO_WAIT"} =>
          \A a \in Address : Before(a, wb.addr) => mem[a] = 0
    /\ state = "ZERO_WAIT" => wb.dat = 0 /\ parsed_pkts = 0

TableInv ==
    /\ AccessInv /\ WorkInv /\ CleanInv /\ EntryInv /\ SearchInv
    /\ WriteInv /\ HeldInv /\ FreshInv /\ ZeroInv
-----------------------------------------------------------------------------
(* What the machine does on the bus.                                       *)

(* The states with the strobe up.                                          *)
Expecting == WaitStates \cup {"OFFLOAD"}

(* A state that asks raises the strobe for the wait state after it.        *)
LEMMA RequestFacts ==
    ASSUME Requests
    PROVE  state \notin Expecting /\ state' \in WaitStates /\ wb'.stb
BY DEF Requests, CheckCells, CheckName, ReadStats, CheckA, CheckAAAA, CheckCName,
       CheckQHost, ReadQHostStat, WriteQName, SetInUse, UpdateStats, AppendAAAA,
       AppendCName, WriteQHost, UpdateQHostStat, AppendA, Request,
       Expecting, WaitStates, ReadWaits, WriteWaits

(* An answered state drops the strobe, except on the way to CHECK_A and    *)
(* APPEND_A, and does not wait any longer.                                 *)
LEMMA DropFacts ==
    ASSUME BusType
    PROVE  /\ ~[wb EXCEPT !.stb = FALSE].stb
           /\ ~[wb EXCEPT !.stb = FALSE, !.we = FALSE].stb
           /\ ~[wb EXCEPT !.stb = FALSE, !.we = TRUE].stb
           /\ ~[wb EXCEPT !.stb = FALSE, !.we = FALSE, !.addr = Zero].stb
           /\ ~[wb EXCEPT !.stb = FALSE, !.we = FALSE, !.addr = NextAddress(@)].stb
           /\ \A d : ~[wb EXCEPT !.stb = FALSE, !.dat = d].stb
           /\ \A d : ~[wb EXCEPT !.stb = FALSE, !.we = FALSE, !.dat = d].stb
BY DEF BusType

(* An acknowledge ends the waiting, and the strobe stays up only for the   *)
(* address records.                                                        *)
LEMMA AnswerFacts ==
    ASSUME BusType, NEW din, Answers(din)
    PROVE  /\ state \in Expecting
           /\ state' \in (States \ (Expecting \cup {"HASHING"})) \cup {"OFFLOAD"}
           /\ wb'.stb => state' \in {"CHECK_A", "APPEND_A"}
<1> USE DropFacts DEF Expecting, States, WaitStates, ReadWaits, WriteWaits,
        Goto, Overflow, Drop, DropWrite, StartAAAA, StartCName, StartQHost
<1>1. CASE FindAnswers(din)
  BY <1>1
     DEF FindAnswers, AnswerCheckCells, AnswerCheckName, AnswerWriteQName,
         AnswerSetInUse
<1>2. CASE StatAnswers(din)
  BY <1>2 DEF StatAnswers, AnswerReadStats, AnswerUpdateStats, AfterStats
<1>3. CASE AAnswers(din)
  BY <1>3 DEF AAnswers, AnswerCheckA, AnswerAppendA, AfterA
<1>4. CASE AAAAAnswers(din)
  BY <1>4 DEF AAAAAnswers, AnswerCheckAAAA, AnswerAppendAAAA
<1>5. CASE CNameAnswers(din)
  BY <1>5 DEF CNameAnswers, AnswerCheckCName, AnswerAppendCName
<1>6. CASE HostAnswers(din)
  BY <1>6 DEF HostAnswers, AnswerCheckQHost, AnswerWriteQHost, AnswerReadQHostStat,
              AnswerUpdateQHostStat
<1>7. CASE AnswerOffloadLast \/ AnswerZero
  BY <1>7 DEF AnswerOffloadLast, AnswerZero
<1> QED
  BY <1>1, <1>2, <1>3, <1>4, <1>5, <1>6, <1>7 DEF Answers

(* An edge of the machine that stands between this memory and this hash    *)
(* unit is one that the open machine may take too.                         *)
LEMMA MachineStepIsNext ==
    ASSUME MemType, MachineStep
    PROVE  [Next]_vars
<1>1. CASE Rest \/ Take \/ Hash
  BY <1>1 DEF Rest, Take, Hash, Next, Idling
<1>2. CASE Ask
  BY <1>2 DEF Ask, Next, Idling
<1>3. CASE Answered
  BY <1>3, TableAssumption DEF Answered, Next, MemType
<1>4. CASE Unanswered
  BY <1>4 DEF Unanswered, Wait, Serve, Next
<1> QED
  BY <1>1, <1>2, <1>3, <1>4 DEF MachineStep

(* What holds of the open machine holds of this one.                       *)
LEMMA MemInitInv == MemInit => MemInv /\ AccessInv
<1> SUFFICES ASSUME MemInit PROVE MemInv /\ AccessInv
  OBVIOUS
<1>1. IInv /\ mem = ZeroMem /\ ack = FALSE /\ answer \in Word
  BY InitInv DEF MemInit
<1>2. ack \in BOOLEAN
  BY <1>1
<1>3. mem \in [Address -> Word]
  BY <1>1, WordFacts DEF ZeroMem
<1> QED
  BY <1>1, <1>2, <1>3 DEF MemInv, MemType, AccessInv

(* The same at every edge.                                                 *)
LEMMA MemInvStep ==
    ASSUME MemInv, AccessInv, [MemEdge]_memVars
    PROVE  MemInv' /\ AccessInv'
<1>1. CASE MemEdge
  BY <1>1, MachineStepIsNext, NextInv DEF MemEdge, MemInv
<1>2. CASE UNCHANGED memVars
  <2>1. UNCHANGED <<vars, mem, ack, answer>>
    BY <1>2 DEF memVars
  <2>2. IInv'
    BY <2>1, NextInv DEF MemInv
  <2>3. UNCHANGED <<state, wb>>
    BY <2>1 DEF vars
  <2>4. MemType' /\ AccessInv'
    BY <2>1, <2>3 DEF MemInv, MemType, AccessInv
  <2> QED
    BY <2>2, <2>4 DEF MemInv
<1> QED
  BY <1>1, <1>2

-----------------------------------------------------------------------------
(* The machine as the master of a bus, by what a slave may rely on: it     *)
(* holds a request until the acknowledge, and between two requests it      *)
(* turns to the next one at once, or keeps still for as long as the hash   *)
(* unit, the analyzer or the UART take.                                    *)
Engaged == state \in WaitStates \/ (state = "OFFLOAD" /\ wb.stb)
Still   == \/ state = "IDLE" /\ parsed_pkts < OffloadAfter
           \/ state = "HASHING"
           \/ state = "OFFLOAD" /\ ~wb.stb
Turning == ~Engaged /\ ~Still

(* A request is held as it is, and what is asked for does not change.      *)
LEMMA HeldRequest ==
    ASSUME MemInv, MachineStep, Engaged, wb.stb, ~ack
    PROVE  /\ Engaged' /\ wb' = wb
           /\ state \in WaitStates => UNCHANGED vars
<1> USE DEF Engaged, WaitStates, ReadWaits, WriteWaits, place, work, side, vars
<1>1. ~(Rest \/ Take \/ Hash)
  BY DEF Rest, Take, Hash, IdleQuiet, Capture, HashDone, HashBusy
<1>2. ~Ask
  BY RequestFacts DEF Ask, ZeroWord, IdleOffload, Expecting
<1>3. Unanswered
  BY <1>1, <1>2 DEF MachineStep, Answered
<1>4. CASE Wait
  BY <1>4 DEF Wait
<1>5. CASE Serve
  BY <1>5 DEF Serve, OffloadByte, Goto
<1> QED
  BY <1>3, <1>4, <1>5 DEF Unanswered

(* An answered request is dropped, or replaced at once: only the strobe of *)
(* an address record stays up, for the state that asks again, and that of  *)
(* an offload.                                                             *)
LEMMA AnsweredRequest ==
    ASSUME MemInv, MachineStep, Engaged, wb.stb, ack
    PROVE  /\ Engaged' => wb'.stb /\ state \notin WaitStates /\ state' \notin WaitStates
           /\ Still' => state \in WaitStates /\ ~wb'.stb /\ state' # "HASHING"
<1> USE DEF Engaged, Still, WaitStates, ReadWaits, WriteWaits
<1>1. BusType
  BY DEF MemInv, IInv, TypeOK
<1>2. ~(Rest \/ Take \/ Hash)
  BY DEF Rest, Take, Hash, IdleQuiet, Capture, HashDone, HashBusy
<1>3. ~Ask
  BY RequestFacts DEF Ask, ZeroWord, IdleOffload, Expecting
<1>4. Answered
  BY <1>2, <1>3 DEF MachineStep, Unanswered
<1>5. CASE AnswerOffloadLast
  BY <1>5 DEF AnswerOffloadLast, Goto
<1>6. CASE Answers(answer) /\ ~AnswerOffloadLast
  <2>1. state \in WaitStates
    BY <1>6 DEF Answers, FindAnswers, AnswerCheckCells, AnswerCheckName,
         AnswerWriteQName, AnswerSetInUse, StatAnswers, AnswerReadStats,
         AnswerUpdateStats, AAnswers, AnswerCheckA, AnswerAppendA, AAAAAnswers,
         AnswerCheckAAAA, AnswerAppendAAAA, CNameAnswers, AnswerCheckCName,
         AnswerAppendCName, HostAnswers, AnswerCheckQHost, AnswerWriteQHost,
         AnswerReadQHostStat, AnswerUpdateQHostStat, AnswerZero
  <2>2. /\ state' \in ((States \ Expecting) \ {"HASHING"}) \cup {"OFFLOAD"}
        /\ wb'.stb => state' \in {"CHECK_A", "APPEND_A"}
    BY <1>1, <1>6, AnswerFacts
  <2> QED
    BY <2>1, <2>2 DEF Expecting
<1>7. CASE \E rdy \in UartReady : AnswerOffloadWord(answer, rdy)
  <2>1. state = "OFFLOAD" /\ state' = "OFFLOAD" /\ wb' = [wb EXCEPT !.addr = Here]
    BY <1>7 DEF AnswerOffloadWord, Goto
  <2>2. wb'.stb
    BY <1>1, <2>1 DEF BusType
  <2> QED
    BY <2>1, <2>2
<1> QED
  BY <1>4, <1>5, <1>6, <1>7 DEF Answered

(* The next request comes at once.                                         *)
LEMMA NextRequest ==
    ASSUME MemInv, MachineStep, Turning
    PROVE  Engaged' /\ wb'.stb
<1> USE DEF Turning, Engaged, Still, WaitStates, ReadWaits, WriteWaits
<1>1. BusType
  BY DEF MemInv, IInv, TypeOK
<1>2. ~(Rest \/ Take \/ Hash)
  BY DEF Rest, Take, Hash, IdleQuiet, Capture, HashDone, HashBusy
<1>3. state # "OFFLOAD"
  OBVIOUS
<1>4. ~Answered
  BY <1>1, <1>3, AnswerFacts DEF Answered, AnswerOffloadWord, Expecting
<1>5. ~Unanswered
  BY <1>3 DEF Unanswered, Wait, Serve, OffloadByte
<1>6. CASE Requests
  BY <1>6, RequestFacts
<1>7. CASE ZeroWord
  BY <1>1, <1>7 DEF ZeroWord, BusType
<1>8. CASE IdleOffload
  BY <1>1, <1>8 DEF IdleOffload, Goto, BusType
<1> QED
  BY <1>2, <1>4, <1>5, <1>6, <1>7, <1>8 DEF MachineStep, Ask

(* Nothing is asked for while the machine keeps still, and only the end of *)
(* the hash or an acknowledge makes it go on.                              *)
LEMMA NoRequest ==
    ASSUME MemInv, MachineStep, Still, ~wb.stb
    PROVE  /\ ~wb'.stb /\ ~Engaged'
           /\ Turning' => \/ state = "HASHING" /\ qname_ready
                          \/ ack
           /\ state' = "HASHING" => \/ state = "IDLE" /\ parser_valid
                                    \/ state = "HASHING" /\ ~qname_ready
<1> USE DEF Turning, Engaged, Still, WaitStates, ReadWaits, WriteWaits, place, work, side
<1>1. BusType
  BY DEF MemInv, IInv, TypeOK
<1>2. CASE Rest
  BY <1>2 DEF Rest, IdleQuiet
<1>3. CASE Take
  BY <1>3 DEF Take, Capture, Goto
<1>4. CASE Hash
  BY <1>4 DEF Hash, HashDone, HashBusy
<1>5. ~Ask
  <2>1. ~Requests
    BY DEF Requests, CheckCells, CheckName, ReadStats, CheckA, CheckAAAA, CheckCName,
       CheckQHost, ReadQHostStat, WriteQName, SetInUse, UpdateStats, AppendAAAA,
       AppendCName, WriteQHost, UpdateQHostStat, AppendA, Request
  <2>2. OffloadAfter \in Nat /\ parsed_pkts \in Nat
    BY LayoutFacts DEF MemInv, IInv, TypeOK, WorkType
  <2> QED
    BY <2>1, <2>2 DEF Ask, ZeroWord, IdleOffload
<1>6. CASE Unanswered
  BY <1>6 DEF Unanswered, Wait, Serve, OffloadByte, Goto, vars
<1>7. CASE Answered
  <2>1. CASE Answers(answer)
    <3>1. state = "OFFLOAD"
      BY <1>1, <2>1, AnswerFacts DEF Expecting
    <3>2. AnswerOffloadLast
      BY <2>1, <3>1 DEF Answers, FindAnswers, AnswerCheckCells, AnswerCheckName,
         AnswerWriteQName, AnswerSetInUse, StatAnswers, AnswerReadStats,
         AnswerUpdateStats, AAnswers, AnswerCheckA, AnswerAppendA, AAAAAnswers,
         AnswerCheckAAAA, AnswerAppendAAAA, CNameAnswers, AnswerCheckCName,
         AnswerAppendCName, HostAnswers, AnswerCheckQHost, AnswerWriteQHost,
         AnswerReadQHostStat, AnswerUpdateQHostStat, AnswerZero
    <3>3. state' = "ZERO" /\ ~wb'.stb /\ ack
      BY <1>1, <1>7, <3>2, DropFacts DEF AnswerOffloadLast, Goto, Answered
    <3> QED
      BY <3>3
  <2>2. CASE \E rdy \in UartReady : AnswerOffloadWord(answer, rdy)
    <3>1. state' = "OFFLOAD" /\ wb' = [wb EXCEPT !.addr = Here]
      BY <2>2 DEF AnswerOffloadWord, Goto
    <3>2. ~wb'.stb
      BY <1>1, <3>1 DEF BusType
    <3> QED
      BY <3>1, <3>2
  <2> QED
    BY <1>7, <2>1, <2>2 DEF Answered
<1> QED
  BY <1>2, <1>3, <1>4, <1>5, <1>6, <1>7 DEF MachineStep

-----------------------------------------------------------------------------
(* The hash unit takes QnameBytes edges and one more for a packet that is  *)
(* shown to an idle machine.                                               *)
HashInv ==
    /\ hash_state \in {"IDLE", "HASH"}
    /\ hash_state = "HASH" =>
          state = "HASHING" /\ ~qname_ready /\ counter \in 0 .. QnameBytes - 1
    /\ parser_valid => state = "IDLE" /\ parser_ready /\ parsed_pkts < OffloadAfter

(* The edges that a packet has been hashed for.                            *)
Elapsed ==
    IF state # "HASHING" THEN 0
    ELSE IF hash_state = "HASH" THEN QnameBytes - 1 - counter
    ELSE IF qname_ready THEN QnameBytes + 1 ELSE QnameBytes

(* The machine is at its first state.                                      *)
LEMMA HashInitInv == Init /\ FrontInit => HashInv
BY DEF Init, FrontInit, HashInit, HashInv

(* A packet is taken as soon as it is shown, and the machine waits for its *)
(* hash.                                                                   *)
LEMMA FrontEdge ==
    ASSUME MemInv, MachineStep
    PROVE  /\ state = "IDLE" /\ parsed_pkts < OffloadAfter =>
                 IF parser_valid THEN Take ELSE Rest
           /\ state = "HASHING" => Hash
<1>1. BusType
  BY DEF MemInv, IInv, TypeOK
<1>2. SUFFICES ASSUME (state = "IDLE" /\ parsed_pkts < OffloadAfter) \/ state = "HASHING"
               PROVE  Rest \/ Take \/ Hash
  BY DEF Rest, Take, Hash, IdleQuiet, Capture, HashDone, HashBusy
<1>3. ~Requests /\ ~ZeroWord /\ ~IdleOffload
  <2>1. ~Requests
    BY <1>2
       DEF Requests, CheckCells, CheckName, ReadStats, CheckA, CheckAAAA,
           CheckCName,
       CheckQHost, ReadQHostStat, WriteQName, SetInUse, UpdateStats, AppendAAAA,
       AppendCName, WriteQHost, UpdateQHostStat, AppendA, Request
  <2>2. OffloadAfter \in Nat /\ parsed_pkts \in Nat
    BY LayoutFacts DEF MemInv, IInv, TypeOK, WorkType
  <2> QED
    BY <1>2, <2>1, <2>2 DEF ZeroWord, IdleOffload
<1>4. ~Answered
  BY <1>1, <1>2, AnswerFacts
     DEF Answered, AnswerOffloadWord, Expecting, WaitStates, ReadWaits, WriteWaits
<1>5. ~Unanswered
  BY <1>2 DEF Unanswered, Wait, Serve, OffloadByte, WaitStates, ReadWaits, WriteWaits
<1> QED
  BY <1>3, <1>4, <1>5 DEF MachineStep, Ask

(* The invariant of the hash unit.                                         *)
LEMMA HashInvStep ==
    ASSUME MemInv, HashInv, Unhurried, MachineStep, Front
    PROVE  HashInv'
<1> USE DEF HashStep, HashIdle, HashStart, HashRest, HashByte, HashEnd
<1>1. QnameBytes \in Nat \ {0} /\ HashStep(Qname(pkt.name), parser_valid, TRUE)
  BY HashAssumption DEF Front
<1>2. CASE parser_valid
  <2>1. Take
    BY <1>2, FrontEdge DEF HashInv
  <2>2. ~parser_valid'
    BY <1>2 DEF Front, Show, HashInv
  <2> QED
    BY <1>1, <1>2, <2>1, <2>2 DEF HashInv, Take, Capture, Goto
<1>3. CASE ~parser_valid
  <2>1. hash_state' \in {"IDLE", "HASH"}
    BY <1>1, <1>3 DEF HashInv
  <2>2. ASSUME hash_state' = "HASH"
        PROVE  state' = "HASHING" /\ ~qname_ready' /\ counter' \in 0 .. QnameBytes - 1
    <3>1. hash_state = "HASH" /\ counter # 0 /\ counter' = counter - 1
          /\ qname_ready' = qname_ready
      BY <1>1, <1>3, <2>2 DEF HashInv
    <3>2. state = "HASHING" /\ ~qname_ready /\ counter \in 0 .. QnameBytes - 1
      BY <3>1 DEF HashInv
    <3>3. state' = "HASHING"
      BY <3>2, FrontEdge DEF Hash, HashBusy
    <3> QED
      BY <1>1, <3>1, <3>2, <3>3
  <2>3. ASSUME parser_valid'
        PROVE  state' = "IDLE" /\ parser_ready' /\ parsed_pkts' < OffloadAfter
    <3>1. state = "IDLE" /\ parsed_pkts < OffloadAfter
      BY <1>3, <2>3 DEF Front, Show, MayShow, Unhurried
    <3>2. Rest
      BY <1>3, <3>1, FrontEdge
    <3> QED
      BY <3>1, <3>2 DEF Rest, IdleQuiet, work
  <2> QED
    BY <2>1, <2>2, <2>3 DEF HashInv
<1> QED
  BY <1>2, <1>3

(* The edges pass one by one.                                              *)
LEMMA ElapsedStep ==
    ASSUME MemInv, HashInv, MachineStep, Front, Still, ~wb.stb
    PROVE  /\ Elapsed \in Nat /\ Elapsed' \in Int /\ Elapsed' <= Elapsed + 1
           /\ state = "HASHING" /\ qname_ready => Elapsed = QnameBytes + 1
<1> USE DEF HashStep, HashIdle, HashStart, HashRest, HashByte, HashEnd
<1>1. QnameBytes \in Nat \ {0} /\ HashStep(Qname(pkt.name), parser_valid, TRUE)
  BY HashAssumption DEF Front
<1>2. Elapsed \in Nat
  BY <1>1 DEF HashInv, Elapsed
<1>3. CASE state' # "HASHING"
  BY <1>1, <1>2, <1>3 DEF Elapsed, HashInv
<1>4. CASE state' = "HASHING"
  <2>1. \/ state = "IDLE" /\ parser_valid
        \/ state = "HASHING" /\ ~qname_ready
    BY <1>4, NoRequest
  <2>2. CASE state = "IDLE" /\ parser_valid
    BY <1>1, <1>2, <1>4, <2>2 DEF HashInv, Elapsed
  <2>3. CASE state = "HASHING" /\ ~qname_ready
    <3>1. ~parser_valid
      BY <2>3 DEF HashInv
    <3>2. CASE hash_state = "HASH"
      BY <1>1, <1>4, <2>3, <3>1, <3>2 DEF HashInv, Elapsed
    <3>3. CASE hash_state # "HASH"
      BY <1>1, <1>4, <2>3, <3>1, <3>3 DEF HashInv, Elapsed
    <3> QED
      BY <3>2, <3>3
  <2> QED
    BY <2>1, <2>2, <2>3
<1> QED
  BY <1>2, <1>3, <1>4

-----------------------------------------------------------------------------
(* The edges of the machine, as far as the table depends on them.          *)
Later == States \ (Resting \cup Looking \cup Writing \cup Marking \cup Counting)
Same  == UNCHANGED <<hash, interblock, pkt, parsed_pkts>>

Idles  == state = "IDLE" /\ state' = "IDLE" /\ Same
Enters ==
    /\ state = "IDLE" /\ state' = "HASHING" /\ parsed_pkts < OffloadAfter
    /\ \E p \in Packets : pkt' = p /\ left'.cname = p.nCNAME
    /\ interblock' = 0
    /\ UNCHANGED <<hash, parsed_pkts>>
Looks ==
    /\ UNCHANGED <<pkt, parsed_pkts, left>>
    /\ \/ /\ state = "HASHING" /\ state' \in {"HASHING", "CHECK_CELLS"}
          /\ hash' \in {hash, 0}
          /\ UNCHANGED <<intrablock, interblock>>
       \/ /\ state \in Looking /\ UNCHANGED place
          /\ \/ state' = state
             \/ state = "CHECK_CELLS" /\ state' = "CHECK_CELLS_WAIT"
             \/ state = "CHECK_NAME" /\ state' = "CHECK_NAME_WAIT"
       \/ /\ ack /\ state = "CHECK_CELLS_WAIT" /\ state' = "CHECK_NAME"
          /\ answer % 2 = 1 /\ intrablock' = NameWords - 1
          /\ UNCHANGED <<hash, interblock>>
       \/ /\ ack /\ state = "CHECK_NAME_WAIT" /\ state' = "CHECK_NAME"
          /\ ~NameMatches(answer) /\ answer = pkt.name[NameWords - 1 - intrablock]
          /\ intrablock' = intrablock - 1
          /\ UNCHANGED <<hash, interblock>>
       \/ /\ ack /\ state = "CHECK_NAME_WAIT" /\ state' = "CHECK_CELLS"
          /\ answer # pkt.name[NameWords - 1 - intrablock]
          /\ intrablock' = intrablock /\ interblock' = interblock + 1
          /\ hash' = hash
Chooses ==
    /\ ack /\ state = "CHECK_CELLS_WAIT" /\ state' = "WRITE_QNAME"
    /\ answer % 2 # 1 /\ intrablock' = 0
    /\ Same /\ left' = left
Finds ==
    /\ ack /\ state = "CHECK_NAME_WAIT" /\ state' = "READ_STATS"
    /\ NameMatches(answer)
    /\ Same /\ left' = left
Names ==
    /\ Same /\ left' = left
    /\ \/ /\ state \in Writing /\ state' \in Writing /\ intrablock' = intrablock
       \/ /\ ack /\ state = "WRITE_QNAME_WAIT" /\ state' = "WRITE_QNAME"
          /\ intrablock' = intrablock + 1
       \/ /\ ack /\ state = "WRITE_QNAME_WAIT" /\ state' = "SET_IN_USE"
          /\ data_count = 0
       \/ state \in Marking /\ state' = state /\ wb' = wb
       \/ state = "SET_IN_USE" /\ state' = "SET_IN_USE_W" /\ wb'.dat = 1
       \/ ack /\ state = "SET_IN_USE_W" /\ state' = "READ_STATS"
Counts == Same /\ left' = left /\ state \in Counting /\ state' \in Counting
Works ==
    /\ Same /\ left'.cname <= left.cname
    /\ state \in Counting \cup Later /\ state' \in Later
Leaves ==
    /\ state \in Later /\ state' = "IDLE" /\ parsed_pkts' = parsed_pkts + 1
    /\ UNCHANGED <<hash, pkt, interblock>>
Sleeps ==
    /\ hash' = hash
    /\ state' \in {"OFFLOAD", "ZERO"} /\ state \notin {"ZERO", "ZERO_WAIT"}
    /\ state' = "ZERO" => wb'.addr = Zero
Zeroes ==
    /\ hash' = hash
    /\ \/ /\ state = "ZERO" /\ state' = "ZERO_WAIT"
          /\ wb'.addr = wb.addr /\ wb'.dat = 0 /\ parsed_pkts' = 0
       \/ state = "ZERO_WAIT" /\ state' = "ZERO_WAIT" /\ UNCHANGED <<wb, parsed_pkts>>
       \/ /\ ack /\ state = "ZERO_WAIT" /\ state' = "ZERO"
          /\ wb.addr # LastAddress /\ wb'.addr = NextAddress(wb.addr)
       \/ /\ ack /\ state = "ZERO_WAIT" /\ state' = "IDLE" /\ wb.addr = LastAddress
          /\ parsed_pkts' = parsed_pkts

Flow ==
    \/ Idles \/ Enters \/ Looks \/ Chooses \/ Finds \/ Names \/ Counts \/ Works
    \/ Leaves \/ Sleeps \/ Zeroes

(* Every edge of the machine is one of these.                              *)
LEMMA MachineFlow == ASSUME MemInv, MachineStep PROVE Flow
<1> USE DEF Same, Later, Looking, Writing, Marking, Counting, Resting, States, WaitStates,
        ReadWaits, WriteWaits, place, work, side
<1>1. IInv /\ BusType /\ WorkType /\ left.cname \in Nat
  BY LayoutFacts DEF MemInv, IInv, TypeOK, WorkType
<1>2. CASE Rest \/ Take \/ Hash
  <2>1. CASE Rest
    BY <2>1 DEF Rest, IdleQuiet, Flow, Idles
  <2>2. CASE Take
    BY <2>2 DEF Take, Capture, Goto, Flow, Enters
  <2>3. CASE Hash
    BY <2>3 DEF Hash, HashDone, HashBusy, Flow, Looks
  <2> QED
    BY <1>2, <2>1, <2>2, <2>3
<1>3. CASE Requests
  BY <1>1, <1>3
     DEF Requests, CheckCells, CheckName, ReadStats, CheckA, CheckAAAA, CheckCName,
         CheckQHost, ReadQHostStat, WriteQName, SetInUse, UpdateStats, AppendAAAA,
         AppendCName, WriteQHost, UpdateQHostStat, AppendA, Request, Flow, Looks, Names,
         Counts, Works
<1>4. CASE ZeroWord \/ IdleOffload
  <2>1. CASE ZeroWord
    BY <1>1, <2>1 DEF ZeroWord, Flow, Zeroes, BusType
  <2>2. CASE IdleOffload
    BY <2>2 DEF IdleOffload, Goto, Flow, Sleeps
  <2> QED
    BY <1>4, <2>1, <2>2
<1>5. CASE Unanswered
  <2>1. CASE Wait
    BY <1>1, <2>1 DEF Wait, vars, Flow, Looks, Names, Counts, Works, Zeroes
  <2>2. CASE Serve
    BY <2>2 DEF Serve, vars, OffloadByte, Goto, Flow, Sleeps
  <2> QED
    BY <1>5, <2>1, <2>2 DEF Unanswered
<1>6. CASE ack /\ \E rdy \in UartReady : AnswerOffloadWord(answer, rdy)
  BY <1>6 DEF AnswerOffloadWord, Goto, Flow, Sleeps
<1> USE DEF Goto, Overflow, StartAAAA, StartCName, StartQHost
<1>7. CASE ack /\ FindAnswers(answer)
  BY <1>7
     DEF FindAnswers, AnswerCheckCells, AnswerCheckName, AnswerWriteQName, AnswerSetInUse,
         Flow, Looks, Chooses, Finds, Names, Sleeps
<1>8. CASE ack /\ StatAnswers(answer)
  BY <1>1, <1>8
     DEF StatAnswers, AnswerReadStats, AnswerUpdateStats, AfterStats, Flow, Counts, Works,
         Sleeps
<1>9. CASE ack /\ AAnswers(answer)
  <2>1. [left EXCEPT !.a = @ - 1].cname = left.cname
    BY <1>1 DEF WorkType
  <2>2. Same /\ state \in {"CHECK_A_W", "APPEND_A_W"}
    BY <1>9 DEF AAnswers, AnswerCheckA, AnswerAppendA
  <2>3. left' = left \/ left' = [left EXCEPT !.a = @ - 1]
    BY <1>9 DEF AAnswers, AnswerCheckA, AnswerAppendA
  <2>4. left'.cname = left.cname \/ left'.cname = left.cname
    BY <2>1, <2>3
  <2>5. left'.cname <= left.cname
    BY <1>1, <2>4
  <2>6. state' \in {"CHECK_A", "APPEND_A", "CHECK_AAAA", "CHECK_CNAME", "CHECK_QHOST", "OFFLOAD"}
    BY <1>9 DEF AAnswers, AnswerCheckA, AnswerAppendA, AfterA
  <2> QED
    BY <2>2, <2>5, <2>6 DEF Flow, Works, Sleeps
<1>10. CASE ack /\ AAAAAnswers(answer)
  <2>1. [left EXCEPT !.aaaa = @ - 1].cname = left.cname
    BY <1>1 DEF WorkType
  <2>2. Same /\ state \in {"CHECK_AAAA_W", "APPEND_AAAA_W"}
    BY <1>10 DEF AAAAAnswers, AnswerCheckAAAA, AnswerAppendAAAA
  <2>3. left' = left \/ left' = [left EXCEPT !.aaaa = @ - 1]
    BY <1>10 DEF AAAAAnswers, AnswerCheckAAAA, AnswerAppendAAAA
  <2>4. left'.cname = left.cname \/ left'.cname = left.cname
    BY <2>1, <2>3
  <2>5. left'.cname <= left.cname
    BY <1>1, <2>4
  <2>6. state' \in {"CHECK_AAAA", "APPEND_AAAA", "CHECK_CNAME", "CHECK_QHOST", "OFFLOAD"}
    BY <1>10 DEF AAAAAnswers, AnswerCheckAAAA, AnswerAppendAAAA
  <2> QED
    BY <2>2, <2>5, <2>6 DEF Flow, Works, Sleeps
<1>11. CASE ack /\ CNameAnswers(answer)
  <2>1. [left EXCEPT !.cname = @ - 1].cname = left.cname - 1
    BY <1>1 DEF WorkType
  <2>2. Same /\ state \in {"CHECK_CNAME_W", "APPEND_CNAME_W"}
    BY <1>11 DEF CNameAnswers, AnswerCheckCName, AnswerAppendCName
  <2>3. left' = left \/ left' = [left EXCEPT !.cname = @ - 1]
    BY <1>11 DEF CNameAnswers, AnswerCheckCName, AnswerAppendCName
  <2>4. left'.cname = left.cname \/ left'.cname = left.cname - 1
    BY <2>1, <2>3
  <2>5. left'.cname <= left.cname
    BY <1>1, <2>4
  <2>6. state' \in {"CHECK_CNAME", "APPEND_CNAME", "CHECK_QHOST"}
    BY <1>11 DEF CNameAnswers, AnswerCheckCName, AnswerAppendCName
  <2> QED
    BY <2>2, <2>5, <2>6 DEF Flow, Works
<1>12. CASE ack /\ HostAnswers(answer)
  BY <1>1, <1>12
     DEF HostAnswers, AnswerCheckQHost, AnswerWriteQHost, AnswerReadQHostStat,
         AnswerUpdateQHostStat, PacketDone, Flow, Works, Leaves, Sleeps
<1>13. CASE ack /\ (AnswerOffloadLast \/ AnswerZero)
  <2>1. CASE AnswerOffloadLast
    BY <1>1, <2>1 DEF AnswerOffloadLast, Flow, Sleeps, BusType
  <2>2. CASE AnswerZero
    <3>1. /\ state = "ZERO_WAIT" /\ hash' = hash /\ parsed_pkts' = parsed_pkts
          /\ \/ wb.addr = LastAddress /\ state' = "IDLE"
             \/ /\ wb.addr # LastAddress /\ state' = "ZERO"
                /\ wb'.addr = NextAddress(wb.addr)
      BY <1>1, <2>2 DEF AnswerZero, BusType
    <3> QED
      BY <1>13, <3>1 DEF Flow, Zeroes
  <2> QED
    BY <1>13, <2>1, <2>2
<1> QED
  BY <1>2, <1>3, <1>4, <1>5, <1>6, <1>7, <1>8, <1>9, <1>10, <1>11, <1>12, <1>13
     DEF MachineStep, Ask, Answered, Answers

-----------------------------------------------------------------------------
(* What an acknowledge says, and where the slots of the CNAMEs are.        *)

(* A read brings the word of the position, a write has put its data there. *)
LEMMA AckFacts ==
    ASSUME MemInv, AccessInv, hash = 0, ack
    PROVE  /\ state \in ReadWaits \ Carried => answer = Word0(interblock, intrablock)
           /\ state \in WriteWaits \ (Carried \cup {"ZERO_WAIT"}) =>
                 Word0(interblock, intrablock) = wb.dat
<1>1. state \in WaitStates \ {"ZERO_WAIT"} => wb.addr = Here
  BY DEF MemInv, IInv, BusInv
<1> QED
  BY <1>1 DEF AccessInv, Word0, Here, WaitStates, ReadWaits, WriteWaits

(* The slots of the CNAMEs follow one another.                             *)
LEMMA TopFacts ==
    /\ Top(0) = CNameTop /\ CNameTop = CNameBase + NameWords - 1
    /\ \A k \in Nat : /\ Top(k) \in Int /\ Top(k + 1) = Top(k) + NameWords
                      /\ CNameBase + NameWords - 1 <= Top(k)
    /\ \A j, k \in Nat : j > k => Top(j) >= Top(k) + NameWords
<1>1. /\ CNameTop \in Int /\ CNameTop = CNameBase + NameWords - 1
      /\ NameWords \in Nat \ {0} /\ CNameBase \in Nat
  BY LayoutFacts DEF CNameTop
<1>2. \A a \in Nat : a * NameWords \in Nat /\ (a + 1) * NameWords = a * NameWords + NameWords
  BY <1>1
<1>3. ASSUME NEW a \in Nat, NEW b \in Nat, a <= b PROVE a * NameWords <= b * NameWords
  BY <1>1, <1>3
<1>4. Top(0) = CNameTop
  BY <1>1 DEF Top
<1>5. \A k \in Nat : /\ Top(k) \in Int /\ Top(k + 1) = Top(k) + NameWords
                     /\ CNameBase + NameWords - 1 <= Top(k)
  BY <1>1, <1>2 DEF Top
<1>6. ASSUME NEW j \in Nat, NEW k \in Nat, j > k PROVE Top(j) >= Top(k) + NameWords
  <2>1. (k + 1) * NameWords <= j * NameWords
    BY <1>3, <1>6
  <2> QED
    BY <1>1, <1>2, <2>1 DEF Top
<1> QED
  BY <1>1, <1>4, <1>5, <1>6

(* The slots up to one that lies inside the cell lie inside the cell.      *)
LEMMA Tops ==
    ASSUME NEW last \in Nat, Top(last) < BlockWords
    PROVE  \A k \in 0 .. last : Top(k) < BlockWords /\ Top(k) \in Offset
<1> TAKE k \in 0 .. last
<1>1. k \in Nat /\ (k = last \/ last > k)
  OBVIOUS
<1>2. Top(k) \in Int /\ CNameBase + NameWords - 1 <= Top(k)
  BY <1>1, TopFacts
<1>3. k = last \/ Top(last) >= Top(k) + NameWords
  BY <1>1, TopFacts
<1>4. Top(last) \in Int
  BY TopFacts
<1>5. Top(k) < BlockWords
  BY <1>2, <1>3, <1>4, LayoutFacts
<1> QED
  BY <1>2, <1>5, LayoutFacts DEF Offset
-----------------------------------------------------------------------------
(* The memory writes a word.                                               *)

(* The word written is the one at the position.                            *)
LEMMA StoreFacts ==
    ASSUME MemInv, hash = 0, Stores, state # "ZERO_WAIT"
    PROVE  \A a \in Address : a.row # 0 \/ a.cell # interblock \/ a.word # intrablock =>
              mem'[a] = mem[a]
<1>1. wb.addr = Here /\ mem \in [Address -> Word]
  BY DEF MemInv, MemType, IInv, BusInv, Stores, WaitStates, ReadWaits, WriteWaits
<1> QED
  BY <1>1 DEF Stores, Here

(* The same for the words of the first row.                                *)
LEMMA StoreWords ==
    ASSUME MemInv, hash = 0, Stores, state # "ZERO_WAIT",
           NEW c \in Cell, NEW w \in Offset, c # interblock \/ w # intrablock
    PROVE  mem'[[row |-> 0, cell |-> c, word |-> w]] = Word0(c, w)
<1> DEFINE a == [row |-> 0, cell |-> c, word |-> w]
<1>1. 0 \in Row
  BY LayoutFacts DEF Row
<1>2. a \in Address /\ a.row = 0 /\ a.cell = c /\ a.word = w
  BY <1>1 DEF Address
<1>3. mem'[a] = mem[a]
  BY <1>2, StoreFacts
<1> QED
  BY <1>3 DEF Word0

(* A write, once the name is there, goes to the statistics or behind them. *)
LEMMA StoresBehindFlag ==
    ASSUME MemInv, Stores, Busy, state \notin Writing \cup Marking,
           state \notin Counting => \E first, last \in Nat : SlotInv(first, last)
    PROVE  IF state = "UPDATE_STATS_W" THEN intrablock \in StatSlots
           ELSE IF state = "UPDATE_QHOST_STAT_W" THEN intrablock = QHosts
           ELSE intrablock > CNameCount
<1>1. /\ PlaceType /\ PositionInv /\ AAAAInv /\ CNameInv /\ NameWords \in Nat
      /\ data_count \in Int /\ intrablock \in Int
  BY LayoutFacts DEF MemInv, IInv, TypeOK, PlaceType, DataCount, Offset
<1>2. CASE state = "UPDATE_STATS_W"
  BY <1>1, <1>2 DEF PositionInv
<1>3. CASE state \in {"CHECK_A_W", "APPEND_A_W"}
  BY <1>1, <1>3, LayoutFacts DEF PositionInv, CNameCount
<1>4. CASE state = "APPEND_AAAA_W"
  BY <1>1, <1>4, LayoutFacts DEF AAAAInv, CNameCount
<1>5. CASE state = "APPEND_CNAME_W"
  <2>1. PICK first, last \in Nat : SlotInv(first, last)
    BY <1>5 DEF Counting
  <2>2. PICK k \in 0 .. last : intrablock + data_count = Top(k)
    BY <1>5, <2>1 DEF SlotInv, Appends
  <2>3. CNameBase + NameWords - 1 <= Top(k) /\ Top(k) \in Int
    BY TopFacts
  <2>4. data_count \in 0 .. NameWords - 1
    BY <1>1, <1>5 DEF CNameInv
  <2> QED
    BY <1>1, <1>5, <2>2, <2>3, <2>4, LayoutFacts DEF CNameCount
<1>6. CASE state = "WRITE_QHOST_W"
  BY <1>6 DEF SlotInv, Hosting, Counting
<1>7. CASE state = "UPDATE_QHOST_STAT_W"
  BY <1>1, <1>7 DEF PositionInv
<1> QED
  BY <1>2, <1>3, <1>4, <1>5, <1>6, <1>7
     DEF Stores, WriteWaits, Busy, Resting, Writing, Marking
(* A write keeps the slots: it goes to the one that is next, or to a place *)
(* before them all, or to the querying host.                               *)
LEMMA SlotsStored ==
    ASSUME MemInv, hash = 0, Stores, state \notin Resting,
           NEW first \in Nat, NEW last \in Nat, Top(last) < BlockWords, SlotInv(first, last)
    PROVE  SlotInv(first, last)'
<1>1. /\ state' = state /\ data_count' = data_count /\ intrablock' = intrablock
      /\ interblock' = interblock /\ pkt' = pkt /\ left' = left
      /\ state \in WriteWaits \cup {"CHECK_A_W"} /\ state # "ZERO_WAIT"
  BY DEF Stores, vars, place, work, Resting
<1>2. /\ PlaceType /\ PositionInv /\ NameInv /\ AAAAInv /\ CNameInv
      /\ interblock \in Cell /\ intrablock \in Int /\ data_count \in Int
      /\ NameWords \in Nat \ {0}
  BY LayoutFacts DEF MemInv, IInv, TypeOK, PlaceType, DataCount, Offset
<1>3. \A k \in 0 .. last : /\ Top(k) \in Offset /\ Top(k) \in Int /\ k \in Nat
                          /\ CNameBase + NameWords - 1 <= Top(k) /\ Top(k)' = Top(k)
  BY Tops, TopFacts DEF Top
<1>4. ASSUME NEW j \in 0 .. last, Top(j) # intrablock
      PROVE  Word0(interblock, Top(j))' = Word0(interblock, Top(j))
  <2>1. mem'[[row |-> 0, cell |-> interblock, word |-> Top(j)]] = Word0(interblock, Top(j))
    BY <1>1, <1>2, <1>3, <1>4, StoreWords
  <2> QED
    BY <1>1, <1>3, <2>1 DEF Word0
<1>5. ASSUME state \in BeforeCNames, NEW j \in 0 .. last, j >= first
      PROVE  Word0(interblock, Top(j))' = 0
  <2>1. intrablock < CNameBase
    <3>1. CASE state = "WRITE_QNAME_WAIT"
      BY <1>2, <3>1, LayoutFacts DEF NameInv
    <3>2. CASE state = "SET_IN_USE_W"
      BY <1>2, <3>2, LayoutFacts DEF PositionInv, InUse
    <3>3. CASE state = "UPDATE_STATS_W"
      BY <1>2, <3>3, LayoutFacts DEF PositionInv, StatSlots, QueryCount, CNameCount
    <3>4. CASE state \in {"CHECK_A_W", "APPEND_A_W"}
      BY <1>2, <3>4, LayoutFacts DEF PositionInv
    <3>5. CASE state = "APPEND_AAAA_W"
      BY <1>2, <3>5, LayoutFacts DEF AAAAInv
    <3> QED
      BY <1>1, <1>5, <3>1, <3>2, <3>3, <3>4, <3>5
         DEF WriteWaits, BeforeCNames, CNaming, Hosting, HostStat
  <2>2. Top(j) # intrablock
    BY <1>2, <1>3, <2>1, LayoutFacts
  <2> QED
    BY <1>4, <1>5, <2>2 DEF SlotInv
<1>6. ASSUME state = "APPEND_CNAME_W", NEW j \in 0 .. last, j > first + Done
      PROVE  Word0(interblock, Top(j))' = 0
  <2>1. PICK k \in 0 .. last : intrablock + data_count = Top(k) /\ k <= first + Done
    BY <1>6 DEF SlotInv, Appends
  <2>2. data_count >= 0
    BY <1>2, <1>6 DEF CNameInv
  <2>3. Done \in Int
    BY DEF MemInv, IInv, TypeOK, WorkType, Packet, Done
  <2>4. j > k
    BY <1>6, <2>1, <2>3
  <2>5. Top(j) >= Top(k) + NameWords
    BY <1>3, <2>4, TopFacts
  <2>6. Top(j) # intrablock
    BY <1>2, <1>3, <2>1, <2>2, <2>5
  <2> QED
    BY <1>4, <1>6, <2>6 DEF SlotInv, Appends
<1>7. Done' = Done /\ (first + Done)' = first + Done
  BY <1>1 DEF Done
<1>8. state = "APPEND_CNAME_W" =>
         \E k \in 0 .. last : intrablock + data_count = Top(k) /\ k <= first + Done
  BY DEF SlotInv, Appends
<1>9. state = "APPEND_CNAME_W" => Appends(intrablock, data_count, first + Done, last)'
  BY <1>1, <1>3, <1>6, <1>7, <1>8 DEF Appends
<1>10. state \notin {"CHECK_CNAME", "CHECK_CNAME_W"} /\ state # "APPEND_CNAME"
  BY <1>1 DEF WriteWaits
<1>11. state \in Hosting => intrablock > CNameCount
  BY DEF SlotInv
<1> QED
  BY <1>1, <1>5, <1>9, <1>10, <1>11 DEF SlotInv

(* A write keeps the rest of the table invariant.                          *)
LEMMA StoreKeeps ==
    ASSUME MemInv, TableInv, SlotsFit, Stores, hash' = hash
    PROVE  /\ WorkInv' /\ CleanInv' /\ EntryInv' /\ SearchInv'
           /\ WriteInv' /\ HeldInv' /\ FreshInv' /\ ZeroInv'
<1>1. /\ state' = state /\ data_count' = data_count /\ intrablock' = intrablock
      /\ interblock' = interblock /\ hash' = hash /\ parsed_pkts' = parsed_pkts
      /\ pkt' = pkt /\ left' = left /\ wb' = wb
      /\ state \in WriteWaits \cup {"CHECK_A_W"} /\ hash = 0
  BY DEF Stores, vars, place, work, TableInv, WorkInv
<1>2. /\ PlaceType /\ PositionInv /\ NameInv /\ AAAAInv /\ CNameInv
      /\ intrablock \in Offset /\ interblock \in Cell /\ 0 \in Cell
      /\ intrablock \in Int /\ data_count \in Int /\ NameWords \in Nat \ {0}
      /\ InUse \in Offset /\ StatSlots \subseteq Offset
      /\ 0 .. NameWords - 1 \subseteq Offset /\ CNameBase .. BlockWords - 1 \subseteq Offset
  <2>1. /\ PlaceType /\ PositionInv /\ NameInv /\ AAAAInv /\ CNameInv
        /\ intrablock \in Offset /\ interblock \in Cell /\ data_count \in Int
    BY LayoutFacts DEF MemInv, IInv, TypeOK, PlaceType, DataCount
  <2> QED
    BY <2>1, LayoutFacts
       DEF Offset, Cell, InUse, StatSlots, QueryCount, CNameCount
<1>3. ASSUME state # "ZERO_WAIT", NEW c \in Cell, NEW w \in Offset,
             c # interblock \/ w # intrablock
      PROVE  mem'[[row |-> 0, cell |-> c, word |-> w]] = Word0(c, w)
  BY <1>1, <1>3, StoreWords
<1>4. WorkInv'
  BY <1>1 DEF TableInv, WorkInv, Busy
<1>5. CleanInv' /\ EntryInv' /\ SearchInv'
  <2>1. state \notin {"IDLE"} \cup Looking
    BY <1>1 DEF WriteWaits, Looking
  <2>2. EntryInv' /\ SearchInv'
    BY <1>1, <2>1 DEF EntryInv, SearchInv, Looking
  <2>3. ASSUME Busy, parsed_pkts = 0, NEW a \in Address, a.row # 0 \/ a.cell # 0
        PROVE  mem'[a] = 0
    <3>1. state # "ZERO_WAIT" /\ interblock = 0
      BY <2>3 DEF Busy, Resting, TableInv, WorkInv
    <3>2. mem'[a] = mem[a]
      BY <1>1, <2>3, <3>1, StoreFacts
    <3> QED
      BY <2>3, <3>2 DEF TableInv, CleanInv
  <2>4. CleanInv'
    BY <1>1, <2>1, <2>3 DEF CleanInv, Busy
  <2> QED
    BY <2>2, <2>4
<1>6. WriteInv'
  <2>1. ASSUME state \in Writing
        PROVE  /\ \A s \in StatSlots : Word0(interblock, s)' = 0
               /\ \A w \in 0 .. intrablock - 1 :
                     Word0(interblock, w)' = pkt.name[NameWords - 1 - w]
    <3>1. intrablock \in 0 .. NameWords - 1 /\ state # "ZERO_WAIT"
      BY <1>2, <2>1 DEF NameInv, Writing
    <3>2. ASSUME NEW s \in StatSlots PROVE Word0(interblock, s)' = 0
      <4>1. s # intrablock /\ s \in Offset
        BY <1>2, <3>1 DEF StatSlots, QueryCount, CNameCount
      <4>2. Word0(interblock, s) = 0
        BY <2>1 DEF TableInv, WriteInv
      <4> QED
        BY <1>1, <1>2, <1>3, <3>1, <4>1, <4>2 DEF Word0
    <3>3. ASSUME NEW w \in 0 .. intrablock - 1
          PROVE  Word0(interblock, w)' = pkt.name[NameWords - 1 - w]
      <4>1. w # intrablock /\ w \in Offset
        BY <1>2, <3>1 DEF Offset
      <4>2. Word0(interblock, w) = pkt.name[NameWords - 1 - w]
        BY <2>1 DEF TableInv, WriteInv
      <4> QED
        BY <1>1, <1>2, <1>3, <3>1, <4>1, <4>2 DEF Word0
    <3> QED
      BY <3>2, <3>3
  <2>2. ASSUME state \in Marking PROVE Holds(interblock, pkt.name)'
    <3>1. intrablock = InUse /\ state # "ZERO_WAIT" /\ Holds(interblock, pkt.name)
      BY <1>2, <2>2 DEF PositionInv, Marking, TableInv, WriteInv
    <3>2. ASSUME NEW w \in 0 .. NameWords - 1
          PROVE  Word0(interblock, w)' = pkt.name[NameWords - 1 - w]
      <4>1. w # intrablock /\ w \in Offset
        BY <1>2, <3>1 DEF InUse
      <4>2. Word0(interblock, w) = pkt.name[NameWords - 1 - w]
        BY <3>1 DEF Holds
      <4> QED
        BY <1>1, <1>2, <1>3, <3>1, <4>1, <4>2 DEF Word0
    <3> QED
      BY <1>1, <3>2 DEF Holds
  <2>3. state = "SET_IN_USE_W" => wb.dat = 1
    BY DEF TableInv, WriteInv
  <2> QED
    BY <1>1, <2>1, <2>2, <2>3 DEF WriteInv
<1>7. ASSUME Busy, state \notin Writing \cup Marking, Fresh \/ state \in Counting
      PROVE  /\ Word0(interblock, InUse)' = Word0(interblock, InUse)
             /\ Holds(interblock, pkt.name) => Holds(interblock, pkt.name)'
  <2>1. intrablock > InUse /\ state # "ZERO_WAIT"
    BY <1>2, <1>7, StoresBehindFlag, LayoutFacts
       DEF TableInv, FreshInv, Busy, Resting, StatSlots, QueryCount, QHosts, CNameCount, InUse
  <2>2. Word0(interblock, InUse)' = Word0(interblock, InUse)
    BY <1>1, <1>2, <1>3, <2>1 DEF Word0, InUse
  <2>3. ASSUME Holds(interblock, pkt.name), NEW w \in 0 .. NameWords - 1
        PROVE  Word0(interblock, w)' = pkt.name[NameWords - 1 - w]
    <3>1. w # intrablock /\ w \in Offset
      BY <1>2, <2>1 DEF InUse
    <3> QED
      BY <1>1, <1>2, <1>3, <2>1, <2>3, <3>1 DEF Word0, Holds
  <2> QED
    BY <1>1, <2>2, <2>3 DEF Holds
<1>8. HeldInv'
  <2>1. ASSUME state \in Counting
        PROVE  /\ Word0(interblock, InUse)' = 1
               /\ parsed_pkts = 0 \/ NoTails => Holds(interblock, pkt.name)'
    <3>1. Busy /\ state \notin Writing \cup Marking
      BY <2>1 DEF Counting, Busy, Resting, Writing, Marking
    <3> QED
      BY <1>7, <2>1, <3>1 DEF TableInv, HeldInv
  <2>2. ASSUME Busy, state \notin BeforeRecords, parsed_pkts = 0
        PROVE  Word0(0, InUse)' = 1 /\ Holds(0, pkt.name)'
    <3>1. state \notin Writing \cup Marking /\ interblock = 0
      BY <2>2 DEF BeforeRecords, Scanning, Writing, Marking, TableInv, WorkInv
    <3>2. Word0(interblock, InUse) = 1 /\ Holds(interblock, pkt.name)
      BY <2>2, <3>1 DEF TableInv, HeldInv
    <3>3. Word0(interblock, InUse)' = 1 /\ Holds(interblock, pkt.name)'
      BY <1>7, <2>2, <3>1, <3>2 DEF Fresh
    <3> QED
      BY <1>1, <3>1, <3>3 DEF Holds, Word0
  <2> QED
    BY <1>1, <2>1, <2>2 DEF HeldInv, Busy
<1>9. FreshInv'
  <2> SUFFICES ASSUME Fresh, state \notin Resting PROVE SlotInv(0, 2)'
    BY <1>1 DEF FreshInv, Fresh, SlotInv, BeforeCNames, Hosting, Resting
  <2> QED
    BY <1>1, SlotsStored DEF TableInv, FreshInv, SlotsFit
<1>10. ZeroInv'
  <2>1. ASSUME state = "ZERO_WAIT", NEW a \in Address, Before(a, wb.addr)
        PROVE  mem'[a] = 0
    <3>1. mem[a] = 0 /\ wb.dat = 0
      BY <2>1 DEF TableInv, ZeroInv
    <3> QED
      BY <3>1 DEF Stores, MemInv, MemType
  <2> QED
    BY <1>1, <2>1 DEF ZeroInv, WriteWaits, TableInv
<1> QED
  BY <1>4, <1>5, <1>6, <1>8, <1>9, <1>10

-----------------------------------------------------------------------------
(* The machine steps, and the memory keeps its contents.                   *)

(* A packet is worked on in row 0, and while at most one was counted.      *)
LEMMA WorkStep ==
    ASSUME MemInv, MemInv', TableInv, Flow, OffloadAfter <= 2
    PROVE  WorkInv'
<1>1. /\ WorkInv /\ SearchInv /\ hash = 0
      /\ parsed_pkts \in Int /\ OffloadAfter \in Nat /\ parsed_pkts >= 0
  BY LayoutFacts DEF TableInv, WorkInv, MemInv, IInv, TypeOK, WorkType
<1>2. hash' = 0
  BY <1>1
     DEF Flow, Idles, Enters, Looks, Chooses, Finds, Names, Counts, Works, Leaves, Sleeps,
         Zeroes, Same, place
<1>3. ASSUME state' \notin Resting
      PROVE  /\ pkt' \in Packets /\ left'.cname <= pkt'.nCNAME
             /\ parsed_pkts' \in {0, 1}
             /\ parsed_pkts' = 0 => interblock' = 0
  <2>1. CASE Enters
    <3>1. parsed_pkts' = parsed_pkts /\ parsed_pkts < OffloadAfter /\ interblock' = 0
      BY <2>1 DEF Enters
    <3>2. parsed_pkts' \in {0, 1}
      BY <1>1, <3>1
    <3>3. PICK p \in Packets : pkt' = p /\ left'.cname = p.nCNAME
      BY <2>1 DEF Enters
    <3>4. p.nCNAME \in Int
      BY PacketCounts
    <3> QED
      BY <3>1, <3>2, <3>3, <3>4
  <2>2. CASE Looks
    <3>1. Busy /\ pkt' = pkt /\ left' = left /\ parsed_pkts' = parsed_pkts
      BY <2>2 DEF Looks, Looking, Busy, Resting
    <3>2. interblock' = interblock \/ state = "CHECK_NAME_WAIT"
      BY <2>2 DEF Looks, place
    <3> QED
      BY <1>1, <3>1, <3>2 DEF WorkInv, SearchInv
  <2>3. CASE Chooses \/ Finds \/ Names \/ Counts \/ Works
    <3>1. Busy /\ Same
      BY <2>3
         DEF Chooses, Finds, Names, Counts, Works, Busy, Resting, Writing, Marking, Counting,
             Later
    <3>2. left'.cname <= left.cname
      <4>1. left.cname \in Int
        BY DEF MemInv, IInv, TypeOK, WorkType
      <4>2. left' = left \/ left'.cname <= left.cname
        BY <2>3 DEF Chooses, Finds, Names, Counts, Works
      <4> QED
        BY <4>1, <4>2
    <3>3. pkt.nCNAME \in Int /\ left.cname \in Int /\ left'.cname \in Int
      BY DEF MemInv, IInv, TypeOK, WorkType, Packet
    <3>4. left'.cname <= pkt'.nCNAME
      BY <1>1, <3>1, <3>2, <3>3 DEF WorkInv, Same
    <3> QED
      BY <1>1, <3>1, <3>4 DEF WorkInv, Same
  <2>4. CASE Idles \/ Leaves \/ Sleeps \/ Zeroes
    BY <1>3, <2>4 DEF Idles, Leaves, Sleeps, Zeroes, Resting
  <2> QED
    BY <2>1, <2>2, <2>3, <2>4 DEF Flow
<1> QED
  BY <1>2, <1>3 DEF WorkInv, Busy

(* Every address but the last one is before the last one.                  *)
LEMMA BeforeLast ==
    ASSUME NEW a \in Address, a # LastAddress
    PROVE  Before(a, LastAddress)
<1>1. /\ a.row \in Int /\ a.cell \in Int /\ a.word \in Int
      /\ a.row <= Rows - 1 /\ a.cell <= Cells - 1 /\ a.word <= BlockWords - 1
  BY LayoutFacts DEF Address, Row, Cell, Offset
<1>2. a = [row |-> a.row, cell |-> a.cell, word |-> a.word]
  BY DEF Address
<1>3. /\ LastAddress.row = Rows - 1 /\ LastAddress.cell = Cells - 1
      /\ LastAddress.word = BlockWords - 1
  BY DEF LastAddress
<1>4. ~(a.row = Rows - 1 /\ a.cell = Cells - 1 /\ a.word = BlockWords - 1)
  BY <1>2 DEF LastAddress
<1> QED
  BY <1>1, <1>3, <1>4, LayoutFacts DEF Before

(* Between an address and the next one there is none.                      *)
LEMMA BeforeNext ==
    ASSUME NEW a \in Address, NEW b \in Address, b # LastAddress, Before(a, NextAddress(b))
    PROVE  a = b \/ Before(a, b)
<1>1. /\ a.row \in Int /\ a.cell \in 0 .. Cells - 1 /\ a.word \in 0 .. BlockWords - 1
      /\ b.row \in Int /\ b.cell \in 0 .. Cells - 1 /\ b.word \in 0 .. BlockWords - 1
  BY DEF Address, Row, Cell, Offset
<1>2. /\ a = [row |-> a.row, cell |-> a.cell, word |-> a.word]
      /\ b = [row |-> b.row, cell |-> b.cell, word |-> b.word]
  BY DEF Address
<1>3. a.row = b.row /\ a.cell = b.cell /\ a.word = b.word => a = b
  BY <1>2
<1>4. CASE b.word < BlockWords - 1
  <2>1. /\ NextAddress(b).row = b.row /\ NextAddress(b).cell = b.cell
        /\ NextAddress(b).word = b.word + 1
    BY <1>2, <1>4 DEF NextAddress
  <2> QED
    BY <1>1, <1>3, <2>1 DEF Before
<1>5. CASE ~(b.word < BlockWords - 1) /\ b.cell < Cells - 1
  <2>1. /\ NextAddress(b).row = b.row /\ NextAddress(b).cell = b.cell + 1
        /\ NextAddress(b).word = 0
    BY <1>5 DEF NextAddress
  <2> QED
    BY <1>1, <1>3, <1>5, <2>1, LayoutFacts DEF Before
<1>6. CASE ~(b.word < BlockWords - 1) /\ ~(b.cell < Cells - 1)
  <2>1. /\ NextAddress(b).row = b.row + 1 /\ NextAddress(b).cell = 0
        /\ NextAddress(b).word = 0
    BY <1>6 DEF NextAddress
  <2> QED
    BY <1>1, <1>3, <1>6, <2>1, LayoutFacts DEF Before
<1> QED
  BY <1>4, <1>5, <1>6

(* Zeroing: what is behind the address is zero, and at the end all is.     *)
LEMMA ZeroStep ==
    ASSUME MemInv, TableInv, Flow, mem' = mem
    PROVE  /\ ZeroInv'
           /\ Zeroes /\ state' = "IDLE" => \A a \in Address : mem[a] = 0
<1>1. ZeroInv /\ AccessInv /\ BusType
  BY DEF TableInv, MemInv, IInv, TypeOK
<1>2. ack /\ state = "ZERO_WAIT" => mem[wb.addr] = 0
  BY <1>1 DEF AccessInv, ZeroInv, Carried, WriteWaits
<1>3. Zeroes /\ state' = "IDLE" => \A a \in Address : mem[a] = 0
  <2> SUFFICES ASSUME Zeroes, state' = "IDLE", NEW a \in Address PROVE mem[a] = 0
    OBVIOUS
  <2>1. ack /\ state = "ZERO_WAIT" /\ wb.addr = LastAddress
    BY DEF Zeroes
  <2>2. a = LastAddress \/ Before(a, LastAddress)
    BY BeforeLast
  <2> QED
    BY <1>1, <1>2, <2>1, <2>2 DEF ZeroInv
<1>4. ZeroInv'
  <2> SUFFICES ASSUME state' \in {"ZERO", "ZERO_WAIT"}
               PROVE  /\ \A a \in Address : Before(a, wb'.addr) => mem[a] = 0
                      /\ state' = "ZERO_WAIT" => wb'.dat = 0 /\ parsed_pkts' = 0
    BY DEF ZeroInv, Before
  <2>1. Sleeps \/ Zeroes
    BY
       DEF Flow, Idles, Enters, Looks, Chooses, Finds, Names, Counts, Works,
           Leaves, Looking,
           Writing, Marking, Counting, Later, Resting
  <2>2. CASE Sleeps
    <3>1. state' = "ZERO" /\ wb'.addr = Zero
      BY <2>2 DEF Sleeps
    <3>2. \A a \in Address : ~Before(a, Zero)
      BY LayoutFacts DEF Before, Zero, Address, Row, Cell, Offset
    <3> QED
      BY <3>1, <3>2
  <2>3. CASE Zeroes
    <3>1. CASE state = "ZERO"
      <4>1. wb'.addr = wb.addr /\ wb'.dat = 0 /\ parsed_pkts' = 0
        BY <2>3, <3>1 DEF Zeroes
      <4> QED
        BY <1>1, <3>1, <4>1 DEF ZeroInv
    <3>2. CASE state = "ZERO_WAIT" /\ state' = "ZERO_WAIT"
      <4>1. wb' = wb /\ parsed_pkts' = parsed_pkts
        BY <2>3, <3>2 DEF Zeroes
      <4> QED
        BY <1>1, <3>2, <4>1 DEF ZeroInv
    <3>3. CASE state = "ZERO_WAIT" /\ state' = "ZERO"
      <4>1. ack /\ wb.addr # LastAddress /\ wb'.addr = NextAddress(wb.addr)
        BY <2>3, <3>3 DEF Zeroes
      <4>2. wb.addr \in Address
        BY <1>1 DEF BusType
      <4>3. ASSUME NEW a \in Address, Before(a, wb'.addr) PROVE mem[a] = 0
        <5>1. a = wb.addr \/ Before(a, wb.addr)
          BY <4>1, <4>2, <4>3, BeforeNext
        <5> QED
          BY <1>1, <1>2, <3>3, <4>1, <5>1 DEF ZeroInv
      <4> QED
        BY <3>3, <4>3
    <3> QED
      BY <2>3, <3>1, <3>2, <3>3 DEF Zeroes
  <2> QED
    BY <2>1, <2>2, <2>3
<1> QED
  BY <1>3, <1>4

(* The words of the table as the steps below use them.                     *)
LEMMA SameWords ==
    ASSUME mem' = mem, NEW CONSTANT c, NEW CONSTANT w
    PROVE  Word0(c, w)' = Word0(c, w)
BY DEF Word0

(* A clean memory has zero words.                                          *)
LEMMA CleanWords ==
    ASSUME CleanInv, NEW c \in Cell, NEW w \in Offset
    PROVE  /\ state \in {"IDLE"} \cup Looking /\ parsed_pkts = 0 => Word0(c, w) = 0
           /\ state \in {"IDLE"} \cup Looking /\ parsed_pkts = 1 /\ c # 0 => Word0(c, w) = 0
<1> DEFINE a == [row |-> 0, cell |-> c, word |-> w]
<1>1. a \in Address /\ a.cell = c
  BY LayoutFacts DEF Address, Row
<1> QED
  BY <1>1 DEF CleanInv, Word0

(* The memory is clean for the packets.                                    *)
LEMMA CleanStep ==
    ASSUME MemInv, TableInv, Flow, mem' = mem
    PROVE  CleanInv' /\ EntryInv'
<1>1. /\ CleanInv /\ EntryInv /\ HeldInv /\ WorkInv /\ ZeroInv
      /\ parsed_pkts \in Int /\ parsed_pkts >= 0
  BY DEF TableInv, MemInv, IInv, TypeOK, WorkType
<1>2. CASE Idles \/ Enters \/ Looks
  <2>1. /\ state \in {"IDLE"} \cup Looking /\ parsed_pkts' = parsed_pkts
        /\ state' \in {"IDLE"} \cup Looking
    BY <1>2 DEF Idles, Enters, Looks, Looking, Same
  <2>2. CleanInv'
    BY <1>1, <2>1 DEF CleanInv
  <2>3. EntryInv'
    BY <1>1, <2>1 DEF EntryInv, Word0, Holds
  <2> QED
    BY <2>2, <2>3
<1>3. CASE Chooses \/ Finds \/ Names \/ Counts \/ Works
  <2>1. /\ Busy /\ parsed_pkts' = parsed_pkts /\ state' \notin {"IDLE"} \cup Looking
        /\ state' \notin Resting
    BY <1>3
       DEF Chooses, Finds, Names, Counts, Works, Same, Looking, Writing, Marking, Counting,
           Later, Busy, Resting
  <2> QED
    BY <1>1, <2>1 DEF CleanInv, EntryInv
<1>4. CASE Leaves
  <2>1. /\ Busy /\ state \notin BeforeRecords /\ state' = "IDLE"
        /\ parsed_pkts' = parsed_pkts + 1
    BY <1>4
       DEF Leaves, Later, Looking, Writing, Marking, Counting, Busy, Resting, BeforeRecords,
           Scanning
  <2>2. parsed_pkts' = 1 => parsed_pkts = 0
    BY <1>1, <2>1
  <2>3. parsed_pkts' # 0
    BY <1>1, <2>1
  <2>4. CleanInv'
    BY <1>1, <2>1, <2>2, <2>3 DEF CleanInv, Busy, Resting
  <2>5. parsed_pkts = 0 => /\ Word0(0, InUse) = 1 /\ Holds(0, pkt.name)
                           /\ pkt \in Packets
    BY <1>1, <2>1 DEF HeldInv, WorkInv
  <2>6. EntryInv'
    BY <2>2, <2>5 DEF EntryInv, Word0, Holds
  <2> QED
    BY <2>4, <2>6
<1>5. CASE Sleeps
  BY <1>5 DEF Sleeps, CleanInv, EntryInv, Busy, Resting, Looking
<1>6. CASE Zeroes
  <2>1. CASE state' = "IDLE"
    <3>1. \A a \in Address : mem[a] = 0
      BY <1>6, <2>1, ZeroStep
    <3>2. parsed_pkts' = 0
      BY <1>1, <1>6, <2>1 DEF Zeroes, ZeroInv
    <3> QED
      BY <2>1, <3>1, <3>2 DEF CleanInv, EntryInv
  <2>2. CASE state' # "IDLE"
    BY <1>6, <2>2 DEF Zeroes, CleanInv, EntryInv, Busy, Resting, Looking
  <2> QED
    BY <2>1, <2>2
<1> QED
  BY <1>2, <1>3, <1>4, <1>5, <1>6 DEF Flow

(* The search reads the flag of cell 0 and its name, and goes on to a cell *)
(* that is empty.                                                          *)
LEMMA SearchStep ==
    ASSUME MemInv, TableInv, Flow, mem' = mem
    PROVE  SearchInv'
<1>1. /\ CleanInv /\ EntryInv /\ SearchInv /\ WorkInv /\ PositionInv
      /\ interblock \in Cell /\ intrablock \in Offset /\ InUse \in Offset
      /\ intrablock \in Int /\ NameWords \in Nat \ {0}
  BY LayoutFacts
     DEF TableInv, MemInv, IInv, TypeOK, PlaceType, Offset, InUse
<1>2. /\ ack /\ state \in {"CHECK_CELLS_WAIT", "CHECK_NAME_WAIT"} =>
            answer = Word0(interblock, intrablock)
  BY AckFacts DEF TableInv, WorkInv, ReadWaits, Carried
<1> SUFFICES ASSUME state' \in Looking PROVE SearchInv'
  BY DEF SearchInv, Looking
<1>3. CASE Enters
  BY <1>3 DEF Enters, SearchInv
<1>4. CASE Looks
  <2>1. pkt' = pkt /\ parsed_pkts' = parsed_pkts
    BY <1>4 DEF Looks
  <2>2. CASE state = "HASHING"
    BY <1>1, <1>4, <2>1, <2>2 DEF Looks, SearchInv, PositionInv, place
  <2>3. CASE /\ UNCHANGED place
             /\ \/ state' = state
                \/ state = "CHECK_CELLS" /\ state' = "CHECK_CELLS_WAIT"
                \/ state = "CHECK_NAME" /\ state' = "CHECK_NAME_WAIT"
    <3>1. interblock' = interblock /\ intrablock' = intrablock
      BY <2>3 DEF place
    <3>2. \A w : Word0(0, w)' = Word0(0, w)
      BY DEF Word0
    <3> QED
      BY <1>1, <2>1, <2>3, <3>1, <3>2 DEF SearchInv
  <2>4. CASE /\ ack /\ state = "CHECK_CELLS_WAIT" /\ state' = "CHECK_NAME"
             /\ answer % 2 = 1 /\ intrablock' = NameWords - 1
             /\ UNCHANGED <<hash, interblock>>
    <3>1. answer # 0
      BY <2>4
    <3>2. parsed_pkts = 1 /\ interblock = 0
      <4>1. Busy /\ state \in Looking
        BY <2>4 DEF Busy, Resting, Looking
      <4> QED
        BY <1>1, <1>2, <2>4, <3>1, <4>1, CleanWords DEF WorkInv
    <3>3. intrablock' + 1 .. NameWords - 1 = {}
      BY <1>1, <2>4
    <3> QED
      BY <2>1, <2>4, <3>2, <3>3 DEF SearchInv
  <2>5. CASE /\ ack /\ state = "CHECK_NAME_WAIT" /\ state' = "CHECK_NAME"
             /\ answer = pkt.name[NameWords - 1 - intrablock]
             /\ intrablock' = intrablock - 1
             /\ UNCHANGED <<hash, interblock>>
    <3>1. /\ parsed_pkts = 1 /\ interblock = 0
          /\ \A w \in intrablock + 1 .. NameWords - 1 :
                Word0(0, w) = pkt.name[NameWords - 1 - w]
      BY <1>1, <2>5 DEF SearchInv
    <3>2. Word0(0, intrablock) = pkt.name[NameWords - 1 - intrablock]
      BY <1>2, <2>5, <3>1
    <3>3. ASSUME NEW w \in intrablock' + 1 .. NameWords - 1
          PROVE  Word0(0, w)' = pkt'.name[NameWords - 1 - w]
      <4>1. w = intrablock \/ w \in intrablock + 1 .. NameWords - 1
        BY <1>1, <2>5
      <4> QED
        BY <2>1, <3>1, <3>2, <4>1 DEF Word0
    <3> QED
      BY <2>1, <2>5, <3>1, <3>3 DEF SearchInv
  <2>6. CASE /\ ack /\ state = "CHECK_NAME_WAIT" /\ state' = "CHECK_CELLS"
             /\ intrablock' = intrablock /\ interblock' = interblock + 1
    BY <1>1, <2>6 DEF SearchInv
  <2> QED
    BY <1>4, <2>2, <2>3, <2>4, <2>5, <2>6 DEF Looks
<1> QED
  BY <1>3, <1>4
     DEF Flow, Idles, Chooses, Finds, Names, Counts, Works, Leaves, Sleeps, Zeroes,
         Looking, Writing, Marking, Counting, Later

(* The cell of a new name is free, and takes the name word by word.        *)
LEMMA WriteStep ==
    ASSUME MemInv, TableInv, Flow, mem' = mem
    PROVE  WriteInv'
<1>1. /\ CleanInv /\ EntryInv /\ SearchInv /\ WriteInv /\ WorkInv /\ NameInv /\ DataInv
      /\ interblock \in Cell /\ intrablock \in Offset /\ StatSlots \subseteq Offset
      /\ intrablock \in Int /\ NameWords \in Nat \ {0} /\ InUse \in Offset
  BY LayoutFacts
     DEF TableInv, MemInv, IInv, TypeOK, PlaceType, Offset, InUse, StatSlots, QueryCount,
         CNameCount
<1>2. /\ ack /\ state = "CHECK_CELLS_WAIT" => answer = Word0(interblock, intrablock)
      /\ ack /\ state = "WRITE_QNAME_WAIT" => Word0(interblock, intrablock) = wb.dat
  BY AckFacts DEF TableInv, WorkInv, ReadWaits, WriteWaits, Carried
<1> SUFFICES ASSUME state' \in Writing \cup Marking PROVE WriteInv'
  BY DEF WriteInv, Marking
<1>3. Chooses \/ Names
  BY
     DEF Flow, Idles, Enters, Looks, Finds, Counts, Works, Leaves, Sleeps,
         Zeroes, Looking,
         Writing, Marking, Counting, Later
<1>4. /\ interblock' = interblock /\ pkt' = pkt
      /\ \A w : Word0(interblock, w)' = Word0(interblock, w)
  BY <1>3 DEF Chooses, Names, Same, Word0
<1>5. CASE Chooses
  <2>1. ack /\ state = "CHECK_CELLS_WAIT" /\ answer % 2 # 1 /\ intrablock' = 0
    BY <1>5 DEF Chooses
  <2>2. /\ state \in Looking /\ parsed_pkts \in {0, 1}
        /\ (interblock = 0 /\ intrablock = InUse) \/ interblock = 1
    BY <1>1, <2>1 DEF WorkInv, Busy, Resting, Looking, SearchInv
  <2>3. ~(parsed_pkts = 1 /\ interblock = 0)
    <3>1. 1 % 2 = 1
      OBVIOUS
    <3> QED
      BY <1>1, <1>2, <2>1, <2>2, <3>1 DEF EntryInv
  <2>4. \A s \in StatSlots : Word0(interblock, s) = 0
    BY <1>1, <2>2, <2>3, CleanWords
  <2>5. 0 .. intrablock' - 1 = {}
    BY <2>1
  <2>6. state' = "WRITE_QNAME"
    BY <1>5 DEF Chooses
  <2> QED
    BY <1>4, <2>4, <2>5, <2>6 DEF WriteInv, Marking
<1>6. CASE Names
  <2>1. CASE state \in Writing /\ state' \in Writing /\ intrablock' = intrablock
    BY <1>1, <1>4, <2>1 DEF WriteInv, Marking, Writing
  <2>2. CASE ack /\ state = "WRITE_QNAME_WAIT"
    <3>1. Word0(interblock, intrablock) = pkt.name[NameWords - 1 - intrablock]
      <4>1. data_count = NameWords - 1 - intrablock
        BY <1>1, <2>2, LayoutFacts DEF NameInv
      <4> QED
        BY <1>1, <1>2, <2>2, <4>1 DEF DataInv
    <3>2. /\ \A s \in StatSlots : Word0(interblock, s) = 0
          /\ \A w \in 0 .. intrablock - 1 :
                Word0(interblock, w) = pkt.name[NameWords - 1 - w]
      BY <1>1, <2>2 DEF WriteInv, Writing
    <3>3. ASSUME NEW w \in 0 .. intrablock
          PROVE  Word0(interblock, w) = pkt.name[NameWords - 1 - w]
      <4>1. w = intrablock \/ w \in 0 .. intrablock - 1
        BY <1>1
      <4> QED
        BY <3>1, <3>2, <4>1
    <3>4. CASE state' = "WRITE_QNAME" /\ intrablock' = intrablock + 1
      <4>1. 0 .. intrablock' - 1 = 0 .. intrablock
        BY <1>1, <3>4
      <4> QED
        BY <1>4, <3>2, <3>3, <3>4, <4>1 DEF WriteInv, Marking
    <3>5. CASE state' = "SET_IN_USE" /\ data_count = 0
      <4>1. 0 .. NameWords - 1 = 0 .. intrablock
        BY <1>1, <2>2, <3>5 DEF NameInv
      <4>2. Holds(interblock, pkt.name)'
        BY <1>4, <3>3, <4>1 DEF Holds
      <4> QED
        BY <3>5, <4>2 DEF WriteInv, Writing
    <3>6. CASE state' = "WRITE_QNAME_WAIT" /\ intrablock' = intrablock
      BY <1>4, <3>2, <3>6 DEF WriteInv, Marking
    <3>7. CASE state' = "WRITE_QNAME" /\ intrablock' = intrablock
      BY <1>4, <3>2, <3>7 DEF WriteInv, Marking
    <3> QED
      BY <1>6, <2>2, <3>4, <3>5, <3>6, <3>7 DEF Names, Writing, Marking
  <2>3. CASE state \in Marking
    <3>1. state' \in Marking /\ (state' = "SET_IN_USE_W" => wb'.dat = 1)
      BY <1>1, <1>6, <2>3 DEF Names, Marking, Writing, WriteInv
    <3>2. Holds(interblock, pkt.name)'
      BY <1>1, <1>4, <2>3 DEF WriteInv, Holds
    <3> QED
      BY <3>1, <3>2 DEF WriteInv, Writing, Marking
  <2> QED
    BY <1>6, <2>1, <2>2, <2>3 DEF Names, Marking, Writing
<1> QED
  BY <1>3, <1>5, <1>6

(* The statistics are those of the name: the cell was written for it, or   *)
(* the search has compared it down to the first word or to its end.        *)
LEMMA HeldStep ==
    ASSUME MemInv, TableInv, Flow, mem' = mem
    PROVE  HeldInv'
<1>1. /\ CleanInv /\ EntryInv /\ SearchInv /\ WriteInv /\ WorkInv /\ HeldInv /\ PositionInv
      /\ intrablock \in Int /\ NameWords \in Nat \ {0}
  BY LayoutFacts DEF TableInv, MemInv, IInv, TypeOK, PlaceType, Offset
<1>2. /\ ack /\ state = "CHECK_NAME_WAIT" => answer = Word0(interblock, intrablock)
      /\ ack /\ state = "SET_IN_USE_W" => Word0(interblock, intrablock) = wb.dat
  BY AckFacts DEF TableInv, WorkInv, ReadWaits, WriteWaits, Carried
<1>3. \A c, w : Word0(c, w)' = Word0(c, w)
  BY DEF Word0
<1>4. CASE Finds
  <2>1. /\ ack /\ state = "CHECK_NAME_WAIT" /\ state' = "READ_STATS" /\ NameMatches(answer)
        /\ interblock' = interblock /\ pkt' = pkt /\ parsed_pkts' = parsed_pkts
    BY <1>4 DEF Finds, Same
  <2>2. /\ parsed_pkts = 1 /\ interblock = 0 /\ pkt \in Packets
        /\ intrablock \in 0 .. NameWords - 1
        /\ \A w \in intrablock + 1 .. NameWords - 1 :
              Word0(0, w) = pkt.name[NameWords - 1 - w]
    BY <1>1, <2>1 DEF SearchInv, WorkInv, Busy, Resting, PositionInv
  <2>3. Word0(0, InUse) = 1
    BY <1>1, <2>1, <2>2 DEF EntryInv, Looking
  <2>4. ASSUME NoTails PROVE Holds(0, pkt.name)
    <3>1. PICK p \in Packets : Holds(0, p.name)
      BY <1>1, <2>1, <2>2 DEF EntryInv, Looking
    <3>2. CASE answer = 0
      <4> DEFINE k == NameWords - 1 - intrablock
      <4>1. k \in 0 .. NameWords - 1 /\ NameWords - 1 - k = intrablock
        BY <1>1, <2>2
      <4>2. p.name[k] = 0
        BY <1>2, <2>1, <2>2, <3>1, <3>2 DEF Holds
      <4>3. ASSUME NEW i \in 0 .. k - 1 PROVE p.name[i] = pkt.name[i]
        <5>1. /\ NameWords - 1 - i \in intrablock + 1 .. NameWords - 1
              /\ NameWords - 1 - i \in 0 .. NameWords - 1
              /\ NameWords - 1 - (NameWords - 1 - i) = i
          BY <1>1, <2>2
        <5>2. Word0(0, NameWords - 1 - i) = pkt.name[i]
          BY <2>2, <5>1
        <5>3. Word0(0, NameWords - 1 - i) = p.name[i]
          BY <3>1, <5>1 DEF Holds
        <5> QED
          BY <5>2, <5>3
      <4> HIDE DEF k
      <4>4. p.name = pkt.name
        BY <2>2, <2>4, <4>1, <4>2, <4>3 DEF NoTails
      <4> QED
        BY <3>1, <4>4
    <3>3. CASE intrablock = 0 /\ answer = pkt.name[NameWords - 1]
      <4>1. Word0(0, 0) = pkt.name[NameWords - 1 - 0]
        BY <1>1, <1>2, <2>1, <2>2, <3>3
      <4>2. \A w \in 0 .. NameWords - 1 : w = 0 \/ w \in intrablock + 1 .. NameWords - 1
        BY <1>1, <3>3
      <4> QED
        BY <2>2, <4>1, <4>2 DEF Holds
    <3> QED
      BY <2>1, <3>2, <3>3 DEF NameMatches
  <2> QED
    BY <1>3, <2>1, <2>2, <2>3, <2>4 DEF HeldInv, Holds, BeforeRecords
<1>5. CASE Names
  <2>1. CASE ack /\ state = "SET_IN_USE_W" /\ state' = "READ_STATS"
    <3>1. Holds(interblock, pkt.name) /\ wb.dat = 1 /\ intrablock = InUse
      BY <1>1, <2>1 DEF WriteInv, Marking, PositionInv
    <3>2. Word0(interblock, InUse) = 1
      BY <1>2, <2>1, <3>1
    <3>3. interblock' = interblock /\ pkt' = pkt
      BY <1>5 DEF Names, Same
    <3> QED
      BY <1>3, <2>1, <3>1, <3>2, <3>3 DEF HeldInv, Holds, BeforeRecords
  <2>2. CASE state' \in Writing \cup Marking
    BY <2>2 DEF HeldInv, Counting, Writing, Marking, BeforeRecords, Scanning
  <2> QED
    BY <1>5, <2>1, <2>2 DEF Names, Marking, Writing
<1>6. CASE Counts
  <2>1. /\ state \in Counting /\ state' \in Counting
        /\ interblock' = interblock /\ pkt' = pkt /\ parsed_pkts' = parsed_pkts
    BY <1>6 DEF Counts, Same
  <2>2. state' \in BeforeRecords
    BY <2>1 DEF Counting, BeforeRecords
  <2> QED
    BY <1>1, <1>3, <2>1, <2>2 DEF HeldInv, Holds
<1>7. CASE Works
  <2>1. /\ state \in Counting \cup Later /\ state' \in Later
        /\ interblock' = interblock /\ pkt' = pkt /\ parsed_pkts' = parsed_pkts
    BY <1>7 DEF Works, Same
  <2>2. state' \notin Counting
    BY <2>1 DEF Later, Counting
  <2>3. parsed_pkts = 0 => Word0(0, InUse) = 1 /\ Holds(0, pkt.name)
    <3>1. CASE state \in Counting
      BY <1>1, <3>1 DEF HeldInv, WorkInv, Busy, Resting, Counting
    <3>2. CASE state \in Later
      <4>1. Busy /\ state \notin BeforeRecords
        BY <3>2
           DEF Later, Busy, Resting, BeforeRecords, Scanning, Looking, Writing, Marking,
               Counting
      <4> QED
        BY <1>1, <4>1 DEF HeldInv
    <3> QED
      BY <2>1, <3>1, <3>2
  <2> QED
    BY <1>3, <2>1, <2>2, <2>3 DEF HeldInv, Holds
<1>8. CASE Idles \/ Enters \/ Looks \/ Chooses \/ Leaves \/ Sleeps \/ Zeroes
  <2>1. state' \in Resting \cup Looking \cup Writing
    BY <1>8
       DEF Idles, Enters, Looks, Chooses, Leaves, Sleeps, Zeroes, Looking, Resting, Writing
  <2> QED
    BY <2>1
       DEF HeldInv, Busy, Resting, Looking, Writing, Counting, BeforeRecords, Scanning
<1> QED
  BY <1>4, <1>5, <1>6, <1>7, <1>8 DEF Flow

-----------------------------------------------------------------------------
(* The records of a packet.                                                *)
Settles ==
    /\ state \in BeforeCNames
    /\ \/ state' \in BeforeCNames
       \/ state' = "CHECK_CNAME" /\ intrablock' = CNameTop /\ data_count' = 0
       \/ state' = "CHECK_QHOST" /\ intrablock' = QHostBase
       \/ state = "APPEND_AAAA_W" /\ state' = "CHECK_QHOST" /\ intrablock' = intrablock
Stays ==
    /\ state \in CNaming /\ UNCHANGED <<intrablock, data_count, left>>
    /\ \/ state' = state
       \/ state = "CHECK_CNAME" /\ state' = "CHECK_CNAME_W"
       \/ state = "APPEND_CNAME" /\ state' = "APPEND_CNAME_W"
Hosts ==
    \/ /\ state \in Hosting /\ state' \in Hosting
       /\ \/ intrablock' = intrablock /\ (state = "WRITE_QHOST_W" => state' = state)
          \/ /\ ack /\ state = "CHECK_QHOST_W" /\ answer # 0
             /\ intrablock' = intrablock + 1
    \/ state \in Hosting \cup HostStat /\ state' \in HostStat

(* How the machine goes from one part of the cell to the next.             *)
LEMMA Parts ==
    ASSUME MachineStep, state' \notin Resting, state # "IDLE"
    PROVE  Settles \/ Stays \/ Hosts \/ (ack /\ CNameAnswers(answer))
<1> USE DEF BeforeCNames, CNaming, Hosting, HostStat, Resting, States, WaitStates,
        ReadWaits, WriteWaits, place, work, side
<1>1. CASE Rest \/ Take \/ Hash
  BY <1>1 DEF Rest, Take, Hash, IdleQuiet, Capture, HashDone, HashBusy, Settles
<1>2. CASE Requests
  BY <1>2
     DEF Requests, CheckCells, CheckName, ReadStats, CheckA, CheckAAAA, CheckCName,
         CheckQHost, ReadQHostStat, WriteQName, SetInUse, UpdateStats, AppendAAAA,
         AppendCName, WriteQHost, UpdateQHostStat, AppendA, Request, Settles, Stays, Hosts
<1>3. CASE ZeroWord \/ IdleOffload
  BY <1>3 DEF ZeroWord, IdleOffload
<1>4. CASE Unanswered
  <2>1. CASE Wait
    BY <2>1 DEF Wait, vars, Settles, Stays, Hosts
  <2>2. CASE Serve
    BY <2>2 DEF Serve, vars, OffloadByte, Goto
  <2> QED
    BY <1>4, <2>1, <2>2 DEF Unanswered
<1>5. CASE ack /\ \E rdy \in UartReady : AnswerOffloadWord(answer, rdy)
  BY <1>5 DEF AnswerOffloadWord, Goto
<1> USE DEF Goto, Overflow, StartAAAA, StartCName, StartQHost
<1>6. CASE ack /\ FindAnswers(answer)
  BY <1>6
     DEF FindAnswers, AnswerCheckCells, AnswerCheckName, AnswerWriteQName, AnswerSetInUse,
         Settles
<1>7. CASE ack /\ StatAnswers(answer)
  BY <1>7 DEF StatAnswers, AnswerReadStats, AnswerUpdateStats, AfterStats, Settles
<1>8. CASE ack /\ AAnswers(answer)
  BY <1>8 DEF AAnswers, AnswerCheckA, AnswerAppendA, AfterA, Settles
<1>9. CASE ack /\ AAAAAnswers(answer)
  BY <1>9 DEF AAAAAnswers, AnswerCheckAAAA, AnswerAppendAAAA, Settles
<1>10. CASE ack /\ HostAnswers(answer)
  BY <1>10
     DEF HostAnswers, AnswerCheckQHost, AnswerWriteQHost, AnswerReadQHostStat,
         AnswerUpdateQHostStat, Hosts
<1>11. CASE ack /\ (AnswerOffloadLast \/ AnswerZero)
  BY <1>11 DEF AnswerOffloadLast, AnswerZero
<1> QED
  BY <1>1, <1>2, <1>3, <1>4, <1>5, <1>6, <1>7, <1>8, <1>9, <1>10, <1>11
     DEF MachineStep, Ask, Answered, Answers

(* A position in the cell does not run over the end of the cell.           *)
LEMMA InCell ==
    ASSUME NEW x \in Int, 0 <= x, x < BlockWords
    PROVE  x % BlockWords = x
<1>1. BlockWords \in Nat \ {0}
  BY LayoutFacts
<1>2. \A q \in Nat \ {0} : \A r \in 0 .. q - 1 : r % q = r
  OBVIOUS
<1> QED
  BY <1>1, <1>2

(* The CNAMEs of a packet go to the slots behind those that the cell had,  *)
(* one behind the other.                                                   *)
LEMMA SlotsInTurn ==
    ASSUME MemInv, WorkInv, AccessInv, ack, CNameAnswers(answer),
           NEW first \in Nat, NEW last \in Nat, first + 2 <= last, Top(last) < BlockWords,
           state = "CHECK_CNAME_W" => Checks(intrablock, data_count, first + Done, last),
           state = "APPEND_CNAME_W" => Appends(intrablock, data_count, first + Done, last)
    PROVE  /\ state' = "CHECK_CNAME" =>
                 Checks(intrablock', data_count', first + (pkt.nCNAME - left'.cname), last)
           /\ state' = "APPEND_CNAME" =>
                 Appends(intrablock', data_count', first + (pkt.nCNAME - left'.cname), last)
           /\ state' = "CHECK_QHOST" =>
                 intrablock' > CNameCount /\ (intrablock' = QHostBase \/ intrablock' <= Top(last))
           /\ state' \in {"CHECK_CNAME", "APPEND_CNAME", "CHECK_QHOST"}
<1> USE DEF Goto, StartCName, StartQHost, Checks, Appends
<1>1. /\ RecordsRemain /\ CNameInv
      /\ left \in [a : 0 .. AMax + 1, aaaa : 0 .. AAAAMax, cname : 0 .. 3]
      /\ pkt.nCNAME \in 0 .. 3 /\ left.cname \in 0 .. 3 /\ NameWords \in Nat \ {0}
      /\ intrablock \in Int /\ data_count \in Int /\ QHostBase > CNameCount
      /\ CNameBase > CNameCount /\ CNameBase \in Int /\ CNameCount \in Nat
  BY LayoutFacts
     DEF MemInv, IInv, TypeOK, PlaceType, WorkType, Packet, DataCount, Offset, CNameCount
<1>2. /\ state \in {"CHECK_CNAME_W", "APPEND_CNAME_W"}
      /\ state' \in {"CHECK_CNAME", "APPEND_CNAME", "CHECK_QHOST"}
  BY DEF CNameAnswers, AnswerCheckCName, AnswerAppendCName
<1>3. data_count \in 0 .. NameWords - 1 /\ left.cname \in 1 .. 3
  BY <1>1, <1>2 DEF RecordsRemain, CNameInv
<1>4. [left EXCEPT !.cname = @ - 1].cname = left.cname - 1
  BY <1>1
<1>5. /\ Done \in Int /\ Done <= 2 /\ Done = pkt.nCNAME - left.cname /\ Done >= 0
      /\ first + Done \in Int /\ first + Done <= last
  BY <1>1, <1>2, <1>3 DEF Done, WorkInv, Busy, Resting
<1>6. /\ \A i \in 0 .. last : /\ Top(i) \in Int
                             /\ CNameBase + NameWords - 1 <= Top(i)
                             /\ Top(i) < BlockWords
      /\ Top(0) = CNameTop /\ CNameTop \in Int
  BY Tops, TopFacts
<1> DEFINE next == first + (pkt.nCNAME - left'.cname)
<1>7. CASE state = "APPEND_CNAME_W"
  <2>1. \A j \in 0 .. last : j > first + Done => Word0(interblock, Top(j)) = 0
    BY <1>7
  <2>2. PICK m \in 0 .. last : intrablock + data_count = Top(m) /\ m <= first + Done
    BY <1>7
  <2>3. AnswerAppendCName
    BY <1>7 DEF CNameAnswers, AnswerCheckCName
  <2>4. CASE data_count = 0
    <3>1. left' = [left EXCEPT !.cname = @ - 1]
      BY <2>3, <2>4 DEF AnswerAppendCName
    <3>2. left'.cname = left.cname - 1
      BY <1>4, <3>1
    <3>3. CASE state' = "CHECK_CNAME"
      <4>1. intrablock' = CNameTop /\ data_count' = 0
        BY <2>3, <2>4, <3>3 DEF AnswerAppendCName
      <4>2. intrablock' + data_count' = Top(0) /\ 0 <= next
        BY <1>1, <1>5, <1>6, <3>2, <4>1
      <4>3. \A j \in 0 .. last : j >= next => j > first + Done
        BY <1>1, <1>5, <3>2
      <4> QED
        BY <2>1, <3>3, <4>1, <4>2, <4>3
    <3>4. CASE state' = "CHECK_QHOST"
      BY <1>1, <2>3, <2>4, <3>4 DEF AnswerAppendCName
    <3> QED
      BY <1>2, <2>3, <2>4, <3>3, <3>4 DEF AnswerAppendCName
  <2>5. CASE data_count # 0
    <3>1. /\ state' = "APPEND_CNAME" /\ left' = left /\ data_count' = data_count - 1
          /\ intrablock' = (intrablock + 1) % BlockWords
      BY <2>3, <2>5 DEF AnswerAppendCName
    <3>2. 0 <= intrablock + 1 /\ intrablock + 1 < BlockWords
      BY <1>1, <1>3, <2>2, <1>6, <2>5, LayoutFacts
    <3>3. intrablock' = intrablock + 1
      BY <1>1, <3>1, <3>2, InCell
    <3>4. intrablock' + data_count' = Top(m)
      BY <1>1, <2>2, <3>1, <3>3
    <3> QED
      BY <1>5, <2>2, <2>1, <3>1, <3>4
  <2> QED
    BY <2>4, <2>5
<1>8. CASE state = "CHECK_CNAME_W"
  <2>1. /\ \A j \in 0 .. last : j >= first + Done => Word0(interblock, Top(j)) = 0
        /\ answer = Word0(interblock, intrablock)
    <3>1. answer = Word0(interblock, intrablock)
      BY <1>8, AckFacts DEF WorkInv, ReadWaits, Carried
    <3> QED
      BY <1>8, <3>1
  <2>2. PICK q \in 0 .. last : /\ intrablock + data_count = Top(q) /\ q <= first + Done
                               /\ data_count > 0 => q < first + Done
    BY <1>8
  <2>3. /\ Top(q) \in Int /\ CNameBase + NameWords - 1 <= Top(q) /\ Top(q) < BlockWords
        /\ q \in Int
    BY <1>6
  <2>4. data_count = 0 /\ answer # 0 => q < first + Done
    <3> SUFFICES ASSUME data_count = 0, answer # 0 PROVE ~(q >= first + Done)
      BY <1>5, <2>3
    <3>1. intrablock = Top(q)
      BY <1>1, <2>2, <2>3
    <3> QED
      BY <2>1, <3>1
  <2>5. PICK top \in CNameWords(NameWords - 1), w \in CNameWords(data_count) :
          /\ data_count = NameWords - 1 => w = top
          /\ \/ /\ CNameMatches(answer, top) /\ data_count = 0
                /\ Goto("APPEND_CNAME", (intrablock - (NameWords - 1)) % BlockWords,
                        NameWords - 1)
                /\ UNCHANGED left
             \/ /\ CNameMatches(answer, top) /\ data_count # 0 /\ left.cname = 1
                /\ StartQHost
                /\ UNCHANGED left
             \/ /\ CNameMatches(answer, top) /\ data_count # 0 /\ left.cname # 1
                /\ left' = [left EXCEPT !.cname = @ - 1]
                /\ StartCName
             \/ /\ ~CNameMatches(answer, top) /\ answer = w
                /\ Goto("CHECK_CNAME", (intrablock - 1) % BlockWords, data_count + 1)
                /\ UNCHANGED left
             \/ /\ ~CNameMatches(answer, top) /\ answer # w
                /\ IF data_count = NameWords - 1
                     THEN Goto("CHECK_QHOST", intrablock, data_count)
                     ELSE Goto("CHECK_CNAME",
                               (intrablock + NameWords + data_count) % BlockWords, 0)
                /\ UNCHANGED left
    BY <1>8 DEF CNameAnswers, AnswerCheckCName, AnswerAppendCName
  <2>6. CASE /\ CNameMatches(answer, top) /\ data_count = 0
             /\ Goto("APPEND_CNAME", (intrablock - (NameWords - 1)) % BlockWords,
                     NameWords - 1)
             /\ UNCHANGED left
    <3>1. 0 <= intrablock - (NameWords - 1) /\ intrablock - (NameWords - 1) < BlockWords
      BY <1>1, <1>6, <2>2, <2>3, <2>6, LayoutFacts
    <3>2. intrablock' = intrablock - (NameWords - 1) /\ data_count' = NameWords - 1
      BY <1>1, <2>6, <3>1, InCell
    <3>3. intrablock' + data_count' = Top(q)
      BY <1>1, <1>6, <2>2, <2>3, <2>6, <3>2
    <3>4. \A j \in 0 .. last : j > first + Done => Word0(interblock, Top(j)) = 0
      BY <1>5, <2>1
    <3> QED
      BY <1>5, <2>2, <2>3, <2>6, <3>3, <3>4
  <2>7. CASE CNameMatches(answer, top) /\ data_count # 0 /\ left.cname = 1 /\ StartQHost
    BY <1>1, <2>7
  <2>8. CASE /\ CNameMatches(answer, top) /\ data_count # 0 /\ left.cname # 1
             /\ left' = [left EXCEPT !.cname = @ - 1]
             /\ StartCName
    <3>1. left'.cname = left.cname - 1
      BY <1>4, <2>8
    <3>2. state' = "CHECK_CNAME" /\ intrablock' = CNameTop /\ data_count' = 0
      BY <2>8
    <3>3. intrablock' + data_count' = Top(0) /\ 0 <= next
      BY <1>1, <1>5, <1>6, <3>1, <3>2
    <3>4. \A j \in 0 .. last : j >= next => j >= first + Done
      BY <1>1, <1>5, <3>1
    <3> QED
      BY <2>1, <3>2, <3>3, <3>4
  <2>9. CASE /\ ~CNameMatches(answer, top) /\ answer = w
             /\ Goto("CHECK_CNAME", (intrablock - 1) % BlockWords, data_count + 1)
             /\ UNCHANGED left
    <3>1. answer # 0 /\ data_count # NameWords - 1
      BY <2>5, <2>9 DEF CNameMatches
    <3>2. q < first + Done
      BY <1>1, <1>3, <1>5, <2>2, <2>3, <2>4, <3>1
    <3>3. 0 <= intrablock - 1 /\ intrablock - 1 < BlockWords
      BY <1>1, <1>3, <1>6, <2>2, <2>3, <3>1, LayoutFacts
    <3>4. intrablock' = intrablock - 1
      BY <1>1, <2>9, <3>3, InCell
    <3>5. intrablock' + data_count' = Top(q)
      BY <1>1, <1>6, <2>2, <2>3, <2>9, <3>4
    <3> QED
      BY <1>5, <2>1, <2>9, <3>2, <3>5
  <2>10. CASE /\ ~CNameMatches(answer, top) /\ data_count = NameWords - 1
              /\ Goto("CHECK_QHOST", intrablock, data_count)
    <3>1. intrablock >= CNameBase /\ intrablock <= Top(q)
      BY <1>1, <1>3, <2>2, <2>3, <2>10
    <3>2. q \in Nat /\ (q = last \/ last > q)
      OBVIOUS
    <3>3. q = last \/ Top(last) >= Top(q) + NameWords
      BY <3>2, TopFacts
    <3>4. Top(last) \in Int
      BY TopFacts
    <3>5. Top(q) <= Top(last)
      BY <1>1, <2>3, <3>3, <3>4
    <3>6. intrablock' = intrablock /\ intrablock' > CNameCount
      BY <1>1, <2>10, <3>1
    <3>7. intrablock' <= Top(last)
      BY <1>1, <2>3, <3>1, <3>4, <3>5, <3>6
    <3> QED
      BY <2>10, <3>6, <3>7
  <2>11. CASE /\ ~CNameMatches(answer, top) /\ data_count # NameWords - 1
              /\ Goto("CHECK_CNAME", (intrablock + NameWords + data_count) % BlockWords, 0)
              /\ UNCHANGED left
    <3>1. q < first + Done
      BY <1>1, <1>3, <1>5, <2>2, <2>3, <2>4, <2>11 DEF CNameMatches
    <3>2. q + 1 \in 0 .. last /\ q \in Nat
      BY <1>5, <3>1
    <3>3. Top(q + 1) = Top(q) + NameWords
      BY <3>2, TopFacts
    <3>4. Top(q + 1) \in Int /\ Top(q + 1) >= 0 /\ Top(q + 1) < BlockWords
      BY <1>1, <1>6, <3>2, LayoutFacts
    <3>5. intrablock + NameWords + data_count = Top(q + 1)
      BY <1>1, <1>6, <2>2, <2>3, <3>3
    <3>6. intrablock' = Top(q + 1) /\ data_count' = 0
      BY <2>11, <3>4, <3>5, InCell
    <3>7. intrablock' + data_count' = Top(q + 1)
      BY <3>4, <3>6
    <3>8. q + 1 <= first + Done
      BY <1>5, <3>1
    <3> QED
      BY <1>5, <2>1, <2>11, <3>2, <3>6, <3>7, <3>8
  <2> QED
    BY <2>5, <2>6, <2>7, <2>8, <2>9, <2>10, <2>11
<1>9. state = "APPEND_CNAME_W" \/ state = "CHECK_CNAME_W"
  BY <1>2
<1> QED
  BY <1>7, <1>8, <1>9

(* An edge at which the memory is not written keeps them.                  *)
LEMMA SlotsEdge ==
    ASSUME MemInv, MemInv', WorkInv, WorkInv', AccessInv, MachineStep, mem' = mem, Same,
           state \notin Resting, state' \notin Resting,
           NEW first \in Nat, NEW last \in Nat, first + 2 <= last, Top(last) < BlockWords,
           SlotInv(first, last)
    PROVE  SlotInv(first, last)'
<1>1. /\ CNameCount \in Int /\ AAAAInv /\ QHostBase > CNameCount /\ AAAABase > CNameCount
      /\ left.cname \in Int /\ intrablock \in Int /\ data_count \in Int
  BY LayoutFacts
     DEF MemInv, IInv, TypeOK, PlaceType, WorkType, Offset, DataCount, CNameCount
<1>2. interblock' = interblock /\ pkt' = pkt
  BY DEF Same
<1>3. \A k : Top(k)' = Top(k) /\ Word0(interblock, Top(k))' = Word0(interblock, Top(k))
  BY <1>2 DEF Top, Word0
<1>4. Done' \in Int /\ Done' >= 0 /\ (first + Done)' = first + Done'
  <2>1. left'.cname <= pkt'.nCNAME
    BY DEF WorkInv, Busy, Resting
  <2>2. left'.cname \in Int /\ pkt'.nCNAME \in Int
    BY DEF MemInv, IInv, TypeOK, WorkType, Packet
  <2> QED
    BY <2>1, <2>2 DEF Done
<1>5. CASE Settles
  <2>1. \A j \in 0 .. last : j >= first => Word0(interblock, Top(j))' = 0
    BY <1>3, <1>5 DEF Settles, SlotInv
  <2>2. CASE state' \in BeforeCNames
    BY <1>3, <2>1, <2>2 DEF SlotInv, BeforeCNames, CNaming, Hosting
  <2>3. CASE state' = "CHECK_CNAME" /\ intrablock' = CNameTop /\ data_count' = 0
    <3>1. Top(0)' = CNameTop /\ CNameTop \in Int
      BY <1>3, TopFacts
    <3>2. 0 \in 0 .. last /\ ~(data_count' > 0)
      BY <2>3
    <3>3. intrablock' + data_count' = Top(0)'
      BY <2>3, <3>1
    <3>4. PICK done \in Nat : Done' = done
      BY <1>4
    <3>5. 0 <= first + done /\ \A j \in 0 .. last : j >= first + done => j >= first
      OBVIOUS
    <3>6. \A j \in 0 .. last : j >= first + Done' => Word0(interblock, Top(j))' = 0
      BY <2>1, <3>4, <3>5
    <3>7. Checks(intrablock, data_count, first + Done, last)'
      BY <1>3, <1>4, <3>2, <3>6, <3>3, <3>4, <3>5 DEF Checks
    <3> QED
      BY <2>3, <3>7 DEF SlotInv, BeforeCNames, CNaming, Hosting
  <2>4. CASE state' = "CHECK_QHOST" /\ intrablock' > CNameCount
    BY <2>4 DEF SlotInv, BeforeCNames, Hosting
  <2>5. ASSUME state = "APPEND_AAAA_W" PROVE intrablock > CNameCount
    BY <1>1, <2>5, LayoutFacts DEF AAAAInv
  <2> QED
    BY <1>1, <1>5, <2>2, <2>3, <2>4, <2>5 DEF Settles
<1>6. CASE Stays
  <2>1. Done' = Done /\ intrablock' = intrablock /\ data_count' = data_count
    BY <1>2, <1>6 DEF Stays, Done
  <2>2. /\ Checks(intrablock, data_count, first + Done, last) =>
               Checks(intrablock, data_count, first + Done, last)'
        /\ Appends(intrablock, data_count, first + Done, last) =>
               Appends(intrablock, data_count, first + Done, last)'
    BY <1>3, <2>1 DEF Checks, Appends
  <2> QED
    BY <1>6, <2>2 DEF Stays, SlotInv, CNaming, BeforeCNames, Hosting
<1>7. CASE Hosts
  <2>1. state' \in Hosting => intrablock' > CNameCount
    BY <1>1, <1>7 DEF Hosts, SlotInv, Hosting, HostStat
  <2>2. state' \in Hosting \cup HostStat
    BY <1>7 DEF Hosts
  <2> QED
    BY <2>1, <2>2 DEF SlotInv, BeforeCNames, CNaming, Hosting, HostStat
<1>8. CASE ack /\ CNameAnswers(answer)
  <2>1. /\ state' = "CHECK_CNAME" =>
              Checks(intrablock', data_count', first + (pkt.nCNAME - left'.cname), last)
        /\ state' = "APPEND_CNAME" =>
              Appends(intrablock', data_count', first + (pkt.nCNAME - left'.cname), last)
        /\ state' = "CHECK_QHOST" => intrablock' > CNameCount
        /\ state' \in {"CHECK_CNAME", "APPEND_CNAME", "CHECK_QHOST"}
    BY <1>8, SlotsInTurn DEF SlotInv
  <2>2. Done' = pkt.nCNAME - left'.cname
    BY <1>2 DEF Done
  <2>3. state' = "CHECK_CNAME" => Checks(intrablock, data_count, first + Done, last)'
    BY <1>3, <2>1, <2>2 DEF Checks
  <2>4. state' = "APPEND_CNAME" => Appends(intrablock, data_count, first + Done, last)'
    BY <1>3, <2>1, <2>2 DEF Appends
  <2> QED
    BY <2>1, <2>3, <2>4 DEF SlotInv, BeforeCNames, CNaming, Hosting
<1>9. state # "IDLE"
  BY DEF Resting
<1> QED
  BY <1>5, <1>6, <1>7, <1>8, <1>9, Parts

(* The first packet of a cell finds all of its slots free.                 *)
LEMMA FreshStep ==
    ASSUME MemInv, MemInv', TableInv, WorkInv', SlotsFit, MachineStep, Flow, mem' = mem
    PROVE  FreshInv'
<1> SUFFICES ASSUME Fresh', state' \notin Resting PROVE SlotInv(0, 2)'
  BY DEF FreshInv, SlotInv, BeforeCNames, Hosting, Resting
<1>1. CASE state \in {"IDLE"} \cup Looking
  <2>1. /\ parsed_pkts' = parsed_pkts
        /\ state' \in Looking \cup {"WRITE_QNAME", "READ_STATS"}
    <3>1. Enters \/ Looks \/ Chooses \/ Finds
      BY <1>1
         DEF Flow, Idles, Names, Counts, Works, Leaves, Sleeps, Zeroes, Resting, Looking,
             Writing, Marking, Counting, Later
    <3> QED
      BY <3>1 DEF Enters, Looks, Chooses, Finds, Same, Looking
  <2>2. parsed_pkts' = parsed_pkts /\ state' \in BeforeCNames
    BY <2>1
       DEF Looking, BeforeCNames, CNaming, Hosting, HostStat, Resting, States, WaitStates,
           ReadWaits, WriteWaits
  <2>3. parsed_pkts = 0 \/ (parsed_pkts = 1 /\ interblock' # 0)
    BY <2>2 DEF Fresh, WorkInv, Busy
  <2>4. interblock' \in Cell /\ CleanInv
    BY DEF MemInv, IInv, TypeOK, PlaceType, TableInv
  <2>5. \A j \in 0 .. 2 : Word0(interblock', Top(j)) = 0
    BY <1>1, <2>3, <2>4, CleanWords, Tops DEF SlotsFit
  <2>6. \A j \in 0 .. 2 : Word0(interblock, Top(j))' = 0
    BY <2>5 DEF Word0, Top
  <2> QED
    BY <2>2, <2>6 DEF SlotInv, BeforeCNames, CNaming, Hosting
<1>2. CASE state \notin {"IDLE"} \cup Looking
  <2>1. Names \/ Counts \/ Works
    BY <1>2
       DEF Flow, Idles, Enters, Looks, Chooses, Finds, Leaves, Sleeps, Zeroes, Resting,
           Looking
  <2>2. Same /\ state \notin Resting
    BY <2>1
       DEF Names, Counts, Works, Resting, Looking, Writing, Marking, Counting,
           Later
  <2>3. Fresh
    BY <2>2 DEF Same, Fresh
  <2> QED
    BY <2>2, <2>3, SlotsEdge DEF TableInv, FreshInv, SlotsFit
<1> QED
  BY <1>1, <1>2

-----------------------------------------------------------------------------
(* The memory is zero at power-up, and the machine idles.                  *)
LEMMA TableInitInv ==
    ASSUME MemInit
    PROVE  TableInv
<1>1. /\ state = "IDLE" /\ hash = 0 /\ parsed_pkts = 0 /\ ack = FALSE
      /\ mem = ZeroMem
  BY DEF MemInit, Init
<1>2. \A a \in Address : mem[a] = 0
  BY <1>1 DEF ZeroMem
<1>3. AccessInv /\ WorkInv /\ CleanInv /\ EntryInv /\ ZeroInv
  BY <1>1, <1>2 DEF AccessInv, WorkInv, CleanInv, EntryInv, ZeroInv, Busy, Resting
<1>4. SearchInv /\ WriteInv /\ HeldInv /\ FreshInv
  BY <1>1
     DEF SearchInv, WriteInv, HeldInv, FreshInv, SlotInv, Busy, Resting, Writing, Marking, Counting,
         BeforeCNames, Hosting
<1> QED
  BY <1>3, <1>4 DEF TableInv

(* An edge keeps the table.                                                *)
LEMMA TableStep ==
    ASSUME MemInv, TableInv, OffloadAfter <= 2, SlotsFit, [MemEdge]_memVars
    PROVE  TableInv'
<1>1. CASE MemEdge
  <2>1. MemInv' /\ AccessInv' /\ MachineStep /\ (Stores \/ mem' = mem)
    BY <1>1, MemInvStep DEF TableInv, MemEdge
  <2>2. CASE Stores
    <3>1. hash' = hash
      BY <2>2 DEF Stores, vars, place
    <3> QED
      BY <2>1, <2>2, <3>1, StoreKeeps DEF TableInv
  <2>3. CASE mem' = mem
    <3>1. Flow
      BY <2>1, MachineFlow
    <3>2. WorkInv'
      BY <2>1, <3>1, WorkStep
    <3>3. FreshInv'
      BY <2>1, <2>3, <3>1, <3>2, FreshStep
    <3>4. CleanInv' /\ EntryInv' /\ SearchInv' /\ WriteInv' /\ HeldInv' /\ ZeroInv'
      BY <2>3, <3>1, CleanStep, SearchStep, WriteStep, HeldStep, ZeroStep
    <3> QED
      BY <2>1, <3>2, <3>3, <3>4 DEF TableInv
  <2> QED
    BY <2>1, <2>2, <2>3
<1>2. CASE UNCHANGED memVars
  <2>1. UNCHANGED <<state, data_count, intrablock, interblock, hash, parsed_pkts, pkt, left, wb,
                    mem, ack, answer>>
    BY <1>2 DEF memVars, vars, place, work
  <2>2. AccessInv' /\ WorkInv' /\ CleanInv' /\ EntryInv' /\ SearchInv'
    BY <2>1
       DEF TableInv, AccessInv, WorkInv, CleanInv, EntryInv, SearchInv, Word0, Holds, Busy
  <2>3. WriteInv' /\ HeldInv' /\ ZeroInv'
    BY <2>1 DEF TableInv, WriteInv, HeldInv, ZeroInv, Word0, Holds, Busy
  <2>4. FreshInv'
    <3>1. SlotInv(0, 2) => SlotInv(0, 2)'
      BY <2>1 DEF SlotInv, Checks, Appends, Done, Top, Word0
    <3> QED
      BY <2>1, <3>1 DEF TableInv, FreshInv, Fresh
  <2> QED
    BY <2>2, <2>3, <2>4 DEF TableInv
<1> QED
  BY <1>1, <1>2

(* What the memory holds is a table of up to two packets: an entry in cell *)
(* 0 for the first one, the place that the second one is looked for or     *)
(* written at, and zeroes.                                                 *)
THEOREM TableInvariant ==
    ASSUME OffloadAfter <= 2, SlotsFit
    PROVE  MemSpec => [](MemInv /\ TableInv)
<1>1. MemInit => MemInv /\ TableInv
  BY MemInitInv, TableInitInv
<1>2. MemInv /\ TableInv /\ [MemEdge]_memVars => (MemInv /\ TableInv)'
  BY MemInvStep, TableStep DEF TableInv
<1> QED
  BY <1>1, <1>2, PTL DEF MemSpec

(* A new name goes to a cell that has no statistics, whatever the layout   *)
(* of a cell and the packets.                                              *)
THEOREM FreeCellTaken ==
    ASSUME OffloadAfter <= 2, SlotsFit
    PROVE  MemSpec => []CellTakenIsFree
<1>1. MemInv /\ TableInv => CellTakenIsFree
  <2> SUFFICES ASSUME TableInv, state = "WRITE_QNAME", NEW s \in StatSlots
               PROVE  At(hash, interblock, s) = 0
    BY DEF CellTakenIsFree
  <2> QED
    BY DEF TableInv, WriteInv, WorkInv, Writing, Word0, At
<1> QED
  BY <1>1, TableInvariant, PTL

(* The statistics that are written are those of the packet's own name, if  *)
(* no name of a packet is the tail of another one.                         *)
THEOREM OwnStatistics ==
    ASSUME OffloadAfter <= 2, SlotsFit, NoTails
    PROVE  MemSpec => []StatisticsOfTheName
<1>1. MemInv /\ TableInv => StatisticsOfTheName
  <2> SUFFICES ASSUME MemInv, TableInv, state \in {"UPDATE_STATS", "UPDATE_STATS_W"}
               PROVE  /\ At(hash, interblock, InUse) = 1
                      /\ StoredName(hash, interblock) = pkt.name
    BY DEF StatisticsOfTheName
  <2>1. Word0(interblock, InUse) = 1 /\ Holds(interblock, pkt.name) /\ hash = 0
    BY DEF TableInv, HeldInv, WorkInv, Counting
  <2>2. pkt.name \in [0 .. NameWords - 1 -> Word] /\ NameWords \in Nat
    BY LayoutFacts DEF MemInv, IInv, TypeOK, WorkType, Packet, Name
  <2>3. ASSUME NEW i \in 0 .. NameWords - 1
        PROVE  At(hash, interblock, NameWords - 1 - i) = pkt.name[i]
    <3>1. NameWords - 1 - i \in 0 .. NameWords - 1 /\ NameWords - 1 - (NameWords - 1 - i) = i
      BY <2>2
    <3> QED
      BY <2>1, <3>1 DEF Holds, Word0, At
  <2> QED
    BY <2>1, <2>2, <2>3 DEF StoredName, Word0, At
<1> QED
  BY <1>1, TableInvariant, PTL

-----------------------------------------------------------------------------
(* The last word that the querying host of a first packet can take, and    *)
(* the first CNAME slot behind it.                                         *)
HostLimit == IF Top(2) < QHostBase THEN QHostBase ELSE Top(2) + 1
Reach     == (HostLimit - CNameTop) \div NameWords + 1

(* The slots of a second packet with the same name lie inside the cell.    *)
BothFit == Top(Reach + 2) < BlockWords

-----------------------------------------------------------------------------
(* What a first packet leaves behind its CNAMEs: one querying host.        *)
Behind  == HostLimit + 1 .. BlockWords - 1
HostInv ==
    /\ Busy /\ parsed_pkts = 0 =>
          /\ \A w \in Behind : Word0(0, w) = 0
          /\ state \notin {"WRITE_QHOST_W"} \cup HostStat => Word0(0, HostLimit) = 0
          /\ state \in Hosting => intrablock <= HostLimit
    /\ state \in {"IDLE"} \cup Looking /\ parsed_pkts = 1 =>
          \A w \in Behind : Word0(0, w) = 0

(* So a second packet with that name finds the slots behind it free.       *)
AgainInv == Busy /\ ~Fresh => SlotInv(Reach, Reach + 2)

(* The cells in use.  A packet in cell 1 has not found its name in cell 0. *)
Differ(name) == \E w \in 0 .. NameWords - 1 : Word0(0, w) # name[NameWords - 1 - w]
CellInv ==
    /\ Busy => interblock = 0 \/ (interblock = 1 /\ parsed_pkts = 1 /\ Differ(pkt.name))
    /\ state \in Writing \cup Marking /\ interblock = 0 => parsed_pkts = 0

(* A cell that a name is written to is not in use.                         *)
EmptyInv ==
    /\ state \in Writing \cup {"SET_IN_USE"} => Word0(interblock, InUse) = 0
    /\ state \in Writing \cup Marking => \A s \in StatSlots : Word0(interblock, s) = 0

(* No other cell ever holds anything, and no two cells hold one name.      *)
Zeroing == state \in {"ZERO", "ZERO_WAIT"}
ElseInv ==
    ~Zeroing => \A a \in Address : a.row # 0 \/ a.cell \notin {0, 1} => mem[a] = 0
DistinctInv ==
    ~Zeroing /\ Word0(0, InUse) = 1 /\ Word0(1, InUse) = 1 =>
        \E w \in 0 .. NameWords - 1 : Word0(0, w) # Word0(1, w)

(* The registers hold what the cell held before this packet.               *)
StatInv ==
    /\ state \in {"READ_STATS", "READ_STATS_W"} =>
          \A s \in StatSlots : s < intrablock => blk[s] = Word0(interblock, s)
    /\ state \in {"UPDATE_STATS", "UPDATE_STATS_W"} =>
          \A s \in StatSlots : s > intrablock => blk[s] = Word0(interblock, s)
    /\ state = "UPDATE_STATS" => blk[intrablock] = Word0(interblock, intrablock)
    /\ state = "UPDATE_STATS_W" => Word0(interblock, intrablock) \in {blk[intrablock], wb.dat}

CountInv ==
    /\ HostInv /\ AgainInv /\ CellInv /\ EmptyInv /\ ElseInv /\ DistinctInv /\ StatInv

-----------------------------------------------------------------------------
(* Sizes.                                                                  *)

(* The limit of the querying host is behind the first three slots, and the *)
(* slots from the reach on are behind the limit.                           *)
LEMMA ReachFacts ==
    /\ HostLimit \in Nat /\ Reach \in Nat
    /\ QHostBase <= HostLimit /\ CNameBase < HostLimit /\ Top(2) < HostLimit
    /\ Top(2) \in Int /\ CNameCount < HostLimit
    /\ \A j \in Nat : j >= Reach => Top(j) > HostLimit
<1>1. /\ Top(0) = CNameTop /\ CNameTop = CNameBase + NameWords - 1 /\ Top(2) \in Int
      /\ CNameBase + NameWords - 1 <= Top(2)
      /\ \A k \in Nat : Top(k) = CNameTop + k * NameWords
  BY TopFacts DEF Top
<1>2. /\ NameWords \in Nat \ {0} /\ QHostBase \in Nat /\ CNameBase \in Nat /\ CNameTop \in Nat
      /\ CNameBase + NameWords <= QHostBase /\ CNameCount \in Nat /\ CNameCount < CNameBase
  BY <1>1, LayoutFacts DEF CNameCount
<1>3. /\ HostLimit \in Nat /\ QHostBase <= HostLimit /\ Top(2) < HostLimit
      /\ CNameTop < HostLimit
  BY <1>1, <1>2 DEF HostLimit
<1>4. PICK d \in Nat : HostLimit = CNameTop + d
  <2>1. HostLimit - CNameTop \in Nat /\ HostLimit = CNameTop + (HostLimit - CNameTop)
    BY <1>2, <1>3
  <2> QED
    BY <2>1
<1>5. PICK q \in Nat : q = d \div NameWords /\ d < (q + 1) * NameWords
  <2>1. /\ d = (d \div NameWords) * NameWords + (d % NameWords)
        /\ d % NameWords \in 0 .. NameWords - 1 /\ d \div NameWords \in Int
    BY <1>2, DivMod
  <2>2. d \div NameWords \in Nat
    BY <1>2
  <2>3. \A a \in Nat : (a + 1) * NameWords = a * NameWords + NameWords /\ a * NameWords \in Nat
    BY <1>2
  <2>4. d < (d \div NameWords + 1) * NameWords
    BY <1>2, <2>1, <2>2, <2>3
  <2> QED
    BY <2>2, <2>4
<1>6. Reach = q + 1
  <2>1. HostLimit - CNameTop = d
    BY <1>2, <1>4
  <2> QED
    BY <1>5, <2>1 DEF Reach
<1>7. ASSUME NEW j \in Nat, j >= Reach PROVE Top(j) > HostLimit
  <2>1. (q + 1) * NameWords <= j * NameWords
    <3>1. \A a, b \in Nat : a <= b => a * NameWords <= b * NameWords
      BY <1>2
    <3> QED
      BY <1>6, <1>7, <3>1
  <2>2. (q + 1) * NameWords \in Nat /\ j * NameWords \in Nat
    BY <1>2
  <2> QED
    BY <1>1, <1>2, <1>4, <1>5, <2>1, <2>2
<1> QED
  BY <1>1, <1>2, <1>3, <1>6, <1>7

(* The words that matter are words of the cell.                            *)
LEMMA WordPlaces ==
    /\ InUse \in Offset /\ StatSlots \subseteq Offset /\ 0 .. NameWords - 1 \subseteq Offset
    /\ Behind \subseteq Offset
    /\ HostLimit < BlockWords => HostLimit \in Offset
    /\ InUse \in Int /\ InUse = NameWords /\ NameWords \in Nat \ {0}
    /\ StatSlots \subseteq Int /\ \A s \in StatSlots : s > InUse /\ s <= CNameCount
    /\ QHosts \in StatSlots /\ CNameCount \in Int /\ CNameCount < ABase
BY LayoutFacts, ReachFacts
   DEF Offset, InUse, StatSlots, QueryCount, QHosts, CNameCount, Behind

-----------------------------------------------------------------------------
(* A write, once more: where it goes, and what it leaves alone.            *)

(* Where each state that writes puts its word.                             *)
LEMMA StorePlaces ==
    ASSUME MemInv, TableInv, CountInv, Stores, state \notin Resting
    PROVE  /\ state = "WRITE_QNAME_WAIT" => intrablock \in 0 .. NameWords - 1
           /\ state = "SET_IN_USE_W" => intrablock = InUse /\ wb.dat = 1
           /\ state = "UPDATE_STATS_W" => intrablock \in StatSlots \ {QHosts}
           /\ state \notin {"WRITE_QNAME_WAIT", "SET_IN_USE_W", "UPDATE_STATS_W"} =>
                 intrablock = QHosts \/ intrablock > CNameCount
<1>1. /\ state \in WriteWaits \cup {"CHECK_A_W"} /\ Busy /\ state # "ZERO_WAIT"
      /\ PositionInv /\ NameInv /\ WriteInv /\ FreshInv /\ AgainInv
      /\ data_count \in Int /\ NameWords \in Nat \ {0}
  BY LayoutFacts
     DEF Stores, Busy, MemInv, IInv, TypeOK, PlaceType, TableInv, CountInv, Resting,
         DataCount
<1>2. state = "WRITE_QNAME_WAIT" => intrablock \in 0 .. NameWords - 1
  BY <1>1 DEF NameInv
<1>3. state = "SET_IN_USE_W" => intrablock = InUse /\ wb.dat = 1
  BY <1>1 DEF PositionInv, WriteInv
<1>4. state = "UPDATE_STATS_W" => intrablock \in StatSlots \ {QHosts}
  BY <1>1 DEF PositionInv
<1>5. ASSUME state \notin {"WRITE_QNAME_WAIT", "SET_IN_USE_W", "UPDATE_STATS_W"}
      PROVE  intrablock = QHosts \/ intrablock > CNameCount
  <2>1. \E first, last \in Nat : SlotInv(first, last)
    <3>1. CASE Fresh
      BY <1>1, <3>1 DEF FreshInv
    <3>2. CASE ~Fresh
      <4>1. SlotInv(Reach, Reach + 2) /\ Reach \in Nat /\ Reach + 2 \in Nat
        BY <1>1, <3>2, ReachFacts DEF AgainInv
      <4> QED
        BY <4>1
    <3> QED
      BY <3>1, <3>2
  <2>2. state \notin Writing \cup Marking
    BY <1>1, <1>5 DEF WriteWaits, Writing, Marking
  <2> QED
    BY <1>1, <1>5, <2>1, <2>2, StoresBehindFlag
<1> QED
  BY <1>2, <1>3, <1>4, <1>5

(* The words of the two cells, and the one that is written.                *)
LEMMA StoredWords ==
    ASSUME MemInv, hash = 0, Stores, state \notin Resting
    PROVE  /\ \A c \in Cell, w \in Offset :
                 c # interblock \/ w # intrablock => Word0(c, w)' = Word0(c, w)
           /\ Word0(interblock, intrablock)' = wb.dat
<1>1. state # "ZERO_WAIT" /\ interblock' = interblock /\ intrablock' = intrablock
  BY DEF Resting, Stores, vars, place
<1>2. ASSUME NEW c \in Cell, NEW w \in Offset, c # interblock \/ w # intrablock
      PROVE  Word0(c, w)' = Word0(c, w)
  BY <1>1, <1>2, StoreWords DEF Word0
<1>3. wb.addr = Here /\ mem \in [Address -> Word] /\ wb.addr \in Address
  BY <1>1
     DEF MemInv, MemType, IInv, BusInv, Stores, WaitStates, ReadWaits, WriteWaits, TypeOK,
         BusType
<1>4. mem'[[row |-> 0, cell |-> interblock, word |-> intrablock]] = wb.dat
  BY <1>3 DEF Stores, Here
<1> QED
  BY <1>1, <1>2, <1>4 DEF Word0

-----------------------------------------------------------------------------
(* A write keeps what the memory holds for the counts.                     *)
LEMMA CountStored ==
    ASSUME MemInv, TableInv, CountInv, BothFit, Cells >= 2, Stores
    PROVE  CountInv'
<1>1. /\ state' = state /\ data_count' = data_count /\ intrablock' = intrablock
      /\ interblock' = interblock /\ hash' = hash /\ parsed_pkts' = parsed_pkts
      /\ pkt' = pkt /\ left' = left /\ blk' = blk /\ wb' = wb /\ hash = 0
      /\ state \in WriteWaits \cup {"CHECK_A_W"}
  BY DEF Stores, vars, place, work, TableInv, WorkInv
<1>2. CASE state \in Resting
  <2>1. state = "ZERO_WAIT" /\ state' = "ZERO_WAIT"
    BY <1>1, <1>2 DEF Resting, WriteWaits
  <2> QED
    BY <2>1
       DEF CountInv, HostInv, AgainInv, CellInv, EmptyInv, ElseInv, DistinctInv, StatInv,
           Busy, Resting, Looking, Writing, Marking, Zeroing
<1> SUFFICES ASSUME state \notin Resting PROVE CountInv'
  BY <1>2
<1>3. Busy /\ ~Zeroing /\ state # "IDLE" /\ state \notin Looking
  BY <1>1 DEF Busy, Zeroing, Resting, Looking, WriteWaits
<1>4. /\ HostInv /\ AgainInv /\ CellInv /\ EmptyInv /\ ElseInv /\ DistinctInv /\ StatInv
      /\ WorkInv /\ CleanInv /\ WriteInv /\ PositionInv /\ NameInv /\ AAAAInv /\ CNameInv
      /\ interblock \in Cell /\ intrablock \in Offset /\ intrablock \in Int
      /\ data_count \in Int /\ 0 \in Cell /\ 1 \in Cell
  BY LayoutFacts
     DEF MemInv, IInv, TypeOK, PlaceType, TableInv, CountInv, Offset, Cell, DataCount
<1>5. /\ \A c \in Cell, w \in Offset :
            c # interblock \/ w # intrablock => Word0(c, w)' = Word0(c, w)
      /\ Word0(interblock, intrablock)' = wb.dat
  BY <1>1, StoredWords
<1>6. interblock \in {0, 1}
  BY <1>3, <1>4 DEF CellInv
<1>7. HostInv'
  <2> SUFFICES ASSUME parsed_pkts = 0
               PROVE  /\ \A w \in Behind : Word0(0, w)' = 0
                      /\ state \notin {"WRITE_QHOST_W"} \cup HostStat =>
                            Word0(0, HostLimit)' = 0
                      /\ state \in Hosting => intrablock <= HostLimit
    BY <1>1, <1>3 DEF HostInv, Behind, Busy
  <2>1. /\ \A w \in Behind : Word0(0, w) = 0
        /\ state \notin {"WRITE_QHOST_W"} \cup HostStat => Word0(0, HostLimit) = 0
        /\ state \in Hosting => intrablock <= HostLimit
    BY <1>3, <1>4 DEF HostInv
  <2>2. interblock = 0 /\ Fresh
    BY <1>3, <1>4 DEF WorkInv, Fresh
  <2>3. /\ CNameBase \in Int /\ NameWords \in Int /\ AAAABase \in Int /\ QHosts < CNameBase
        /\ HostLimit \in Int /\ CNameBase < HostLimit /\ AAAABase < CNameBase
        /\ Top(2) < HostLimit /\ Top(2) \in Int /\ StatSlots \subseteq 0 .. CNameBase
        /\ InUse < CNameBase /\ NameWords < CNameBase /\ Quarters \in Int
    BY LayoutFacts, ReachFacts
       DEF InUse, QHosts, StatSlots, QueryCount, CNameCount
  <2>4. intrablock < HostLimit \/ (state = "WRITE_QHOST_W" /\ intrablock <= HostLimit)
    <3>1. CASE state \in {"WRITE_QNAME_WAIT", "SET_IN_USE_W", "UPDATE_STATS_W"}
      <4>1. intrablock \in 0 .. NameWords - 1 \/ intrablock = InUse \/ intrablock \in StatSlots
        BY <3>1, StorePlaces
      <4>2. intrablock <= CNameBase
        BY <1>4, <2>3, <4>1
      <4> QED
        BY <1>4, <2>3, <4>2
    <3>2. CASE state \in {"CHECK_A_W", "APPEND_A_W", "UPDATE_QHOST_STAT_W"}
      <4>1. intrablock \in ABase .. AAAABase - 1 \/ intrablock = QHosts
        BY <1>4, <3>2 DEF PositionInv
      <4> QED
        BY <1>4, <2>3, <4>1
    <3>3. CASE state = "APPEND_AAAA_W"
      BY <1>4, <2>3, <3>3 DEF AAAAInv
    <3>4. CASE state = "APPEND_CNAME_W"
      <4>1. SlotInv(0, 2)
        BY <2>2 DEF TableInv, FreshInv
      <4>2. PICK k \in 0 .. 2 : intrablock + data_count = Top(k)
        BY <3>4, <4>1 DEF SlotInv, Appends
      <4>3. Top(k) <= Top(2) /\ Top(k) \in Int
        <5>1. k = 2 \/ 2 > k
          OBVIOUS
        <5>2. k = 2 \/ Top(2) >= Top(k) + NameWords
          BY <5>1, TopFacts
        <5>3. Top(k) \in Int /\ NameWords \in Nat
          <6>1. k \in Nat
            OBVIOUS
          <6> QED
            BY <6>1, TopFacts, LayoutFacts
        <5> QED
          BY <2>3, <5>2, <5>3
      <4>4. data_count >= 0
        BY <1>4, <3>4 DEF CNameInv
      <4> QED
        BY <1>4, <2>3, <4>2, <4>3, <4>4
    <3>5. CASE state = "WRITE_QHOST_W"
      BY <2>1, <3>5 DEF Hosting
    <3> QED
      BY <1>1, <3>1, <3>2, <3>3, <3>4, <3>5 DEF WriteWaits, Resting
  <2>5. ASSUME NEW w \in Behind PROVE Word0(0, w)' = 0
    <3>1. w \in Offset /\ w > HostLimit /\ w \in Int
      BY <2>3, WordPlaces DEF Behind, Offset
    <3>2. w # intrablock
      BY <1>4, <2>3, <2>4, <3>1
    <3> QED
      BY <1>4, <1>5, <2>1, <3>1, <3>2
  <2>6. ASSUME state \notin {"WRITE_QHOST_W"} \cup HostStat PROVE Word0(0, HostLimit)' = 0
    <3>1. HostLimit # intrablock
      BY <1>4, <2>3, <2>4, <2>6
    <3>2. HostLimit \in Offset
      <4>1. Reach \in Nat /\ Top(Reach + 2) > HostLimit /\ Top(Reach + 2) \in Int
        <5>1. Reach \in Nat /\ Reach + 2 \in Nat /\ Reach + 2 >= Reach
          BY ReachFacts
        <5> QED
          BY <5>1, ReachFacts, TopFacts
      <4>2. HostLimit < BlockWords
        BY <2>3, <4>1, LayoutFacts DEF BothFit
      <4> QED
        BY <4>2, WordPlaces
    <3> QED
      BY <1>4, <1>5, <2>1, <2>6, <3>1, <3>2
  <2> QED
    BY <2>1, <2>5, <2>6
<1>8. AgainInv'
  <2>1. Reach' = Reach
    BY DEF Reach, HostLimit, Top
  <2>2. ASSUME ~Fresh PROVE SlotInv(Reach, Reach + 2)'
    <3>1. Reach \in Nat /\ Reach + 2 \in Nat /\ SlotInv(Reach, Reach + 2)
      BY <1>3, <1>4, <2>2, ReachFacts DEF AgainInv
    <3>2. PICK first \in Nat, last \in Nat : first = Reach /\ last = Reach + 2
      BY <3>1
    <3>3. SlotInv(first, last) /\ Top(last) < BlockWords
      BY <3>1, <3>2 DEF BothFit
    <3>4. SlotInv(first, last)'
      BY <1>1, <3>3, SlotsStored
    <3> QED
      BY <2>1, <3>2, <3>4
  <2> QED
    BY <1>1, <2>2 DEF AgainInv, Fresh
<1>9. CellInv'
  <2>1. ASSUME interblock = 1, Differ(pkt.name) PROVE Differ(pkt.name)'
    <3>1. \A w \in 0 .. NameWords - 1 : Word0(0, w)' = Word0(0, w)
      BY <1>4, <1>5, <2>1, WordPlaces
    <3> QED
      BY <1>1, <2>1, <3>1 DEF Differ
  <2> QED
    BY <1>1, <1>3, <1>4, <2>1 DEF CellInv, Busy
<1>10. \A s \in StatSlots : s \in Offset /\ s > InUse /\ s \in Int
  BY WordPlaces
<1>11. /\ state = "WRITE_QNAME_WAIT" => intrablock \in 0 .. NameWords - 1
       /\ state = "SET_IN_USE_W" => intrablock = InUse
       /\ InUse \in Offset /\ InUse = NameWords /\ NameWords \in Nat
  BY StorePlaces, WordPlaces
<1>12. ASSUME state \in {"WRITE_QNAME_WAIT", "SET_IN_USE_W"}, NEW s \in StatSlots
       PROVE  Word0(interblock, s)' = Word0(interblock, s)
  <2>1. s # intrablock
    BY <1>12, <1>10, <1>11
  <2> QED
    BY <1>1, <1>4, <1>5, <1>10, <2>1 DEF Word0
<1>13. EmptyInv'
  <2>1. ASSUME state = "WRITE_QNAME_WAIT"
        PROVE  Word0(interblock, InUse)' = Word0(interblock, InUse)
    <3>1. InUse # intrablock
      BY <1>11, <2>1
    <3> QED
      BY <1>1, <1>4, <1>5, <1>11, <3>1 DEF Word0
  <2> QED
    BY <1>1, <1>4, <1>12, <2>1 DEF EmptyInv, Writing, Marking, WriteWaits
<1>14. ElseInv'
  <2>1. ASSUME NEW a \in Address, a.row # 0 \/ a.cell \notin {0, 1} PROVE mem'[a] = 0
    <3>1. a.row # 0 \/ a.cell # interblock
      BY <1>6, <2>1
    <3>2. mem'[a] = mem[a]
      BY <1>1, <3>1, StoreFacts DEF Resting
    <3> QED
      BY <1>3, <1>4, <2>1, <3>2 DEF ElseInv
  <2> QED
    BY <2>1 DEF ElseInv
<1>15. DistinctInv'
  <2> SUFFICES ASSUME Word0(0, InUse)' = 1, Word0(1, InUse)' = 1
               PROVE  \E w \in 0 .. NameWords - 1 : Word0(0, w)' # Word0(1, w)'
    BY DEF DistinctInv
  <2>1. state # "WRITE_QNAME_WAIT"
    <3> SUFFICES ASSUME state = "WRITE_QNAME_WAIT" PROVE FALSE
      OBVIOUS
    <3>1. Word0(interblock, InUse) = 0
      BY <1>4 DEF EmptyInv, Writing
    <3>2. InUse # intrablock
      BY <1>11
    <3>3. Word0(interblock, InUse)' = 0
      BY <1>1, <1>4, <1>5, <1>11, <3>1, <3>2 DEF Word0
    <3> QED
      BY <1>1, <1>6, <3>3 DEF Word0
  <2>2. ASSUME NEW c \in Cell, NEW w \in 0 .. NameWords - 1 PROVE Word0(c, w)' = Word0(c, w)
    <3>1. intrablock = InUse \/ intrablock \in StatSlots \/ intrablock > CNameCount
      BY <2>1, StorePlaces, WordPlaces
    <3>2. w # intrablock /\ w \in Offset
      BY <1>4, <3>1, WordPlaces DEF CNameCount
    <3> QED
      BY <1>5, <3>2
  <2>3. CASE state = "SET_IN_USE_W"
    <3>1. intrablock = InUse /\ Holds(interblock, pkt.name)
      BY <1>4, <2>3, StorePlaces DEF WriteInv, Marking
    <3>2. CASE interblock = 0
      <4>1. parsed_pkts = 0
        BY <1>4, <2>3, <3>2 DEF CellInv, Marking
      <4>2. \A a \in Address : a.row # 0 \/ a.cell # 0 => mem[a] = 0
        BY <1>3, <1>4, <4>1 DEF CleanInv
      <4>3. [row |-> 0, cell |-> 1, word |-> InUse] \in Address
        BY <1>4, WordPlaces, LayoutFacts DEF Address, Row
      <4>4. Word0(1, InUse) = 0
        BY <4>2, <4>3 DEF Word0
      <4>5. Word0(1, InUse)' = Word0(1, InUse)
        BY <1>4, <1>5, <3>2, WordPlaces
      <4> QED
        BY <4>4, <4>5
    <3>3. CASE interblock = 1
      <4>1. Differ(pkt.name)
        BY <1>3, <1>4, <3>3 DEF CellInv
      <4>2. PICK w \in 0 .. NameWords - 1 : Word0(0, w) # pkt.name[NameWords - 1 - w]
        BY <4>1 DEF Differ
      <4>3. Word0(1, w) = pkt.name[NameWords - 1 - w]
        BY <3>1, <3>3 DEF Holds
      <4>4. Word0(0, w)' = Word0(0, w) /\ Word0(1, w)' = Word0(1, w)
        BY <1>4, <2>2
      <4> QED
        BY <4>2, <4>3, <4>4
    <3> QED
      BY <1>6, <3>2, <3>3
  <2>4. CASE state # "SET_IN_USE_W"
    <3>1. intrablock \in StatSlots \/ intrablock > CNameCount
      BY <2>1, <2>4, StorePlaces, WordPlaces
    <3>2. InUse # intrablock /\ InUse \in Offset
      BY <1>4, <3>1, WordPlaces DEF CNameCount
    <3>3. Word0(0, InUse)' = Word0(0, InUse) /\ Word0(1, InUse)' = Word0(1, InUse)
      BY <1>4, <1>5, <3>2
    <3>4. PICK w \in 0 .. NameWords - 1 : Word0(0, w) # Word0(1, w)
      BY <1>3, <1>4, <3>3 DEF DistinctInv
    <3>5. Word0(0, w)' = Word0(0, w) /\ Word0(1, w)' = Word0(1, w)
      BY <1>4, <2>2
    <3> QED
      BY <3>4, <3>5
  <2> QED
    BY <2>3, <2>4
<1>16. StatInv'
  <2>1. state \notin {"READ_STATS", "READ_STATS_W", "UPDATE_STATS"}
    BY <1>1 DEF WriteWaits
  <2>2. ASSUME NEW s \in StatSlots, s > intrablock
        PROVE  Word0(interblock, s)' = Word0(interblock, s)
    <3>1. s # intrablock /\ s \in Offset
      BY <1>4, <1>10, <2>2
    <3> QED
      BY <1>1, <1>4, <1>5, <3>1 DEF Word0
  <2>3. ASSUME state = "UPDATE_STATS_W"
        PROVE  /\ \A s \in StatSlots : s > intrablock => blk[s] = Word0(interblock, s)'
               /\ Word0(interblock, intrablock)' \in {blk[intrablock], wb.dat}
    BY <1>4, <1>5, <2>2, <2>3 DEF StatInv
  <2> QED
    BY <1>1, <2>1, <2>3 DEF StatInv
<1> QED
  BY <1>7, <1>8, <1>9, <1>13, <1>14, <1>15, <1>16 DEF CountInv

-----------------------------------------------------------------------------
(* The machine moves, and the memory is not written.                       *)

(* The edges at which the statistics are read and written.                 *)
ReadsStat ==
    /\ ack /\ state = "READ_STATS_W" /\ blk' = [blk EXCEPT ![intrablock] = answer]
    /\ \/ intrablock # CNameCount /\ state' = "READ_STATS" /\ intrablock' = intrablock + 1
       \/ intrablock = CNameCount /\ state' = "UPDATE_STATS" /\ intrablock' = QueryCount
MovesOn ==
    /\ ack /\ state = "UPDATE_STATS_W" /\ state' = "UPDATE_STATS" /\ intrablock # CNameCount
    /\ intrablock' = NextStat(intrablock) /\ blk' = blk
Holding ==
    /\ UNCHANGED <<intrablock, blk>> /\ wb'.dat = wb.dat
    /\ \/ state \in Counting /\ state' = state
       \/ state = "READ_STATS" /\ state' = "READ_STATS_W"
       \/ state = "UPDATE_STATS" /\ state' = "UPDATE_STATS_W"
StatFlow ==
    \/ state \notin Counting /\ state' = "READ_STATS" /\ intrablock' = QueryCount
    \/ ReadsStat \/ MovesOn \/ Holding

(* Every edge into a state that counts is a turn of the statistics' loop.  *)
LEMMA StatEdge == ASSUME MemInv, MachineStep, state' \in Counting PROVE StatFlow
<1> USE DEF Counting, WaitStates, ReadWaits, WriteWaits, place, work, side
<1>1. IInv /\ BusType
  BY DEF MemInv, IInv, TypeOK
<1>2. CASE Rest \/ Take \/ Hash
  BY <1>2 DEF Rest, Take, Hash, IdleQuiet, Capture, HashDone, HashBusy, Goto
<1>3. CASE Requests
  <2>1. CASE ReadStats
    BY <1>1, <2>1 DEF ReadStats, Request, StatFlow, Holding
  <2>2. CASE UpdateStats
    BY <1>1, <2>2 DEF UpdateStats, Request, StatFlow, Holding
  <2>3. CASE ~ReadStats /\ ~UpdateStats
    BY <1>3, <2>3
       DEF Requests, CheckCells, CheckName, CheckA, CheckAAAA, CheckCName,
           CheckQHost, ReadQHostStat, WriteQName, SetInUse, AppendAAAA, AppendCName,
           WriteQHost, UpdateQHostStat, AppendA, Request
  <2> QED
    BY <2>1, <2>2, <2>3
<1>4. CASE ZeroWord \/ IdleOffload
  BY <1>4 DEF ZeroWord, IdleOffload, Goto
<1>5. CASE Unanswered
  <2>1. CASE Wait
    BY <1>1, <2>1 DEF Wait, vars, StatFlow, Holding
  <2>2. CASE Serve
    BY <2>2 DEF Serve, vars, OffloadByte, Goto
  <2> QED
    BY <1>5, <2>1, <2>2 DEF Unanswered
<1>6. CASE ack /\ \E rdy \in UartReady : AnswerOffloadWord(answer, rdy)
  BY <1>6 DEF AnswerOffloadWord, Goto
<1> USE DEF Goto, Overflow, StartAAAA, StartCName, StartQHost
<1>7. CASE ack /\ FindAnswers(answer)
  BY <1>7
     DEF FindAnswers, AnswerCheckCells, AnswerCheckName, AnswerWriteQName, AnswerSetInUse,
         StatFlow
<1>8. CASE ack /\ StatAnswers(answer)
  <2>1. CASE AnswerReadStats(answer)
    BY <1>8, <2>1 DEF AnswerReadStats, StatFlow, ReadsStat
  <2>2. CASE AnswerUpdateStats
    BY <1>8, <2>2 DEF AnswerUpdateStats, AfterStats, StatFlow, MovesOn
  <2> QED
    BY <1>8, <2>1, <2>2 DEF StatAnswers
<1>9. CASE ack /\ AAnswers(answer)
  BY <1>9 DEF AAnswers, AnswerCheckA, AnswerAppendA, AfterA
<1>10. CASE ack /\ AAAAAnswers(answer)
  BY <1>10 DEF AAAAAnswers, AnswerCheckAAAA, AnswerAppendAAAA
<1>11. CASE ack /\ CNameAnswers(answer)
  BY <1>11 DEF CNameAnswers, AnswerCheckCName, AnswerAppendCName
<1>12. CASE ack /\ HostAnswers(answer)
  BY <1>12
     DEF HostAnswers, AnswerCheckQHost, AnswerWriteQHost, AnswerReadQHostStat,
         AnswerUpdateQHostStat
<1>13. CASE ack /\ (AnswerOffloadLast \/ AnswerZero)
  BY <1>13 DEF AnswerOffloadLast, AnswerZero
<1> QED
  BY <1>2, <1>3, <1>4, <1>5, <1>6, <1>7, <1>8, <1>9, <1>10, <1>11, <1>12, <1>13
     DEF MachineStep, Ask, Answered, Answers

(* The registers keep what the cell held before.                           *)
LEMMA StatKept ==
    ASSUME MemInv, TableInv, StatInv, MachineStep, Flow, mem' = mem
    PROVE  StatInv'
<1> SUFFICES ASSUME state' \in Counting PROVE StatInv'
  BY DEF StatInv, Counting
<1>1. /\ PositionInv /\ blk \in [StatSlots -> Word] /\ hash = 0 /\ AccessInv
      /\ StatSlots \subseteq Int /\ QueryCount \in Int /\ CNameCount \in Int
      /\ QueryCount = NameWords + 1 /\ NameWords \in Nat
      /\ \A s \in StatSlots : s >= QueryCount /\ s <= CNameCount
  BY LayoutFacts
     DEF MemInv, IInv, TypeOK, WorkType, TableInv, WorkInv, StatSlots, QueryCount, CNameCount
<1>2. /\ ack /\ state = "READ_STATS_W" => answer = Word0(interblock, intrablock)
      /\ ack /\ state = "UPDATE_STATS_W" => Word0(interblock, intrablock) = wb.dat
  BY <1>1, AckFacts DEF ReadWaits, WriteWaits, Carried
<1>3. interblock' = interblock \/ state \notin Counting
  BY
     DEF Flow, Idles, Enters, Looks, Chooses, Finds, Names, Counts, Works,
         Leaves, Sleeps,
         Zeroes, Same, Counting, Looking, Writing, Marking, Later
<1>4. ASSUME state \in Counting
      PROVE  \A s : Word0(interblock, s)' = Word0(interblock, s)
  BY <1>3, <1>4 DEF Word0
<1>5. CASE state \notin Counting /\ state' = "READ_STATS" /\ intrablock' = QueryCount
  <2>1. \A s \in StatSlots : ~(s < intrablock')
    BY <1>1, <1>5
  <2> QED
    BY <1>5, <2>1 DEF StatInv
<1>6. CASE ReadsStat
  <2>1. /\ intrablock \in StatSlots /\ state = "READ_STATS_W"
        /\ \A s \in StatSlots : s < intrablock => blk[s] = Word0(interblock, s)
        /\ answer = Word0(interblock, intrablock)
    BY <1>1, <1>2, <1>6 DEF ReadsStat, StatInv, PositionInv
  <2>2. \A s \in StatSlots : blk'[s] = IF s = intrablock THEN answer ELSE blk[s]
    BY <1>1, <1>6, <2>1 DEF ReadsStat
  <2>3. \A s \in StatSlots : s <= intrablock => blk'[s] = Word0(interblock, s)'
    <3> TAKE s \in StatSlots
    <3>1. s \in Int /\ intrablock \in Int
      BY <1>1, <2>1
    <3>2. Word0(interblock, s)' = Word0(interblock, s)
      BY <1>4, <2>1 DEF Counting
    <3> QED
      BY <2>1, <2>2, <3>1, <3>2
  <2>4. CASE intrablock # CNameCount /\ state' = "READ_STATS" /\ intrablock' = intrablock + 1
    <3>1. \A s \in StatSlots : s < intrablock' => s <= intrablock
      BY <1>1, <2>1, <2>4
    <3> QED
      BY <2>3, <2>4, <3>1 DEF StatInv
  <2>5. CASE intrablock = CNameCount /\ state' = "UPDATE_STATS" /\ intrablock' = QueryCount
    <3>1. \A s \in StatSlots : blk'[s] = Word0(interblock, s)'
      BY <1>1, <2>3, <2>5
    <3>2. QueryCount \in StatSlots
      BY <1>1 DEF StatSlots, QueryCount, CNameCount
    <3>3. blk'[intrablock'] = Word0(interblock, intrablock)'
      <4>1. Word0(interblock, intrablock)' = Word0(interblock, QueryCount)'
        BY <2>5 DEF Word0
      <4> QED
        BY <2>5, <3>1, <3>2, <4>1
    <3> QED
      BY <2>5, <3>1, <3>3 DEF StatInv
  <2> QED
    BY <1>6, <2>4, <2>5 DEF ReadsStat
<1>7. CASE MovesOn
  <2>1. /\ intrablock \in StatSlots \ {QHosts} /\ state = "UPDATE_STATS_W"
        /\ \A s \in StatSlots : s > intrablock => blk[s] = Word0(interblock, s)
    BY <1>1, <1>7 DEF MovesOn, StatInv, PositionInv
  <2>2. intrablock' \in StatSlots /\ intrablock' > intrablock
    BY <1>1, <1>7, <2>1
       DEF MovesOn, NextStat, StatSlots, QueryCount, QHosts, Resolved, ACount, CNameCount
  <2>3. \A s \in StatSlots : s >= intrablock' => s > intrablock
    BY <1>1, <2>1, <2>2
  <2>4. \A s \in StatSlots : s >= intrablock' => blk'[s] = Word0(interblock, s)'
    BY <1>4, <1>7, <2>1, <2>3 DEF MovesOn, Counting
  <2>5. blk'[intrablock'] = Word0(interblock, intrablock)'
    <3>1. PICK t \in StatSlots : t = intrablock' /\ t \in Int
      BY <1>1, <2>2
    <3>2. blk'[t] = Word0(interblock, t)'
      BY <2>4, <3>1
    <3> QED
      BY <3>1, <3>2 DEF Word0
  <2>6. \A s \in StatSlots : s > intrablock' => s >= intrablock'
    BY <1>1, <2>2
  <2> QED
    BY <1>7, <2>4, <2>5, <2>6 DEF StatInv, MovesOn
<1>8. CASE Holding
  <2>1. state \in Counting
    BY <1>8 DEF Holding, Counting
  <2>2. \A s : Word0(interblock, s)' = Word0(interblock, s)
    BY <1>4, <2>1
  <2>3. Word0(interblock, intrablock)' = Word0(interblock, intrablock)
    BY <1>3, <1>8, <2>1 DEF Holding, Word0
  <2> QED
    BY <1>8, <2>2, <2>3 DEF StatInv, Holding
<1>9. StatFlow
  BY StatEdge
<1> QED
  BY <1>5, <1>6, <1>7, <1>8, <1>9 DEF StatFlow

(* The cell that a name is written to is the one that the search has left. *)
LEMMA CellKept ==
    ASSUME MemInv, TableInv, CellInv, Flow, mem' = mem
    PROVE  CellInv'
<1>1. /\ CleanInv /\ EntryInv /\ SearchInv /\ WorkInv /\ PositionInv
      /\ interblock \in Cell /\ intrablock \in Int /\ NameWords \in Nat
  BY LayoutFacts DEF TableInv, MemInv, IInv, TypeOK, PlaceType, Offset
<1>2. /\ ack /\ state \in {"CHECK_CELLS_WAIT", "CHECK_NAME_WAIT"} =>
            answer = Word0(interblock, intrablock)
  BY AckFacts DEF TableInv, WorkInv, ReadWaits, Carried
<1>3. Differ(pkt.name) /\ pkt' = pkt => Differ(pkt.name)'
  BY DEF Differ, Word0
<1>4. CASE Enters
  BY <1>4 DEF Enters, CellInv, Writing, Marking
<1>5. CASE Looks
  <2>1. /\ pkt' = pkt /\ parsed_pkts' = parsed_pkts /\ state \in Looking /\ Busy
        /\ state' \in Looking
    BY <1>5 DEF Looks, Looking, Busy, Resting
  <2>2. CASE interblock' = interblock
    BY <1>3, <2>1, <2>2 DEF CellInv, Looking, Writing, Marking
  <2>3. CASE interblock' # interblock
    <3>1. /\ ack /\ state = "CHECK_NAME_WAIT" /\ interblock' = interblock + 1
          /\ answer # pkt.name[NameWords - 1 - intrablock]
      BY <1>5, <2>3 DEF Looks, place
    <3>2. parsed_pkts = 1 /\ interblock = 0 /\ intrablock \in 0 .. NameWords - 1
      BY <1>1, <3>1 DEF SearchInv, PositionInv
    <3>3. Word0(0, intrablock) # pkt.name[NameWords - 1 - intrablock]
      BY <1>2, <3>1, <3>2
    <3>4. Differ(pkt.name)
      BY <3>2, <3>3 DEF Differ
    <3> QED
      BY <1>3, <2>1, <3>1, <3>2, <3>4 DEF CellInv, Looking, Writing, Marking
  <2> QED
    BY <2>2, <2>3
<1>6. CASE Chooses
  <2>1. /\ ack /\ state = "CHECK_CELLS_WAIT" /\ state' = "WRITE_QNAME" /\ answer % 2 # 1
        /\ Same /\ Busy
    BY <1>6 DEF Chooses, Busy, Resting
  <2>2. interblock = 0 => parsed_pkts = 0
    <3> SUFFICES ASSUME interblock = 0, parsed_pkts # 0 PROVE FALSE
      OBVIOUS
    <3>1. parsed_pkts = 1 /\ intrablock = InUse
      BY <1>1, <2>1 DEF WorkInv, SearchInv
    <3>2. Word0(0, InUse) = 1
      BY <1>1, <2>1, <3>1 DEF EntryInv, Looking
    <3>3. 1 % 2 = 1
      OBVIOUS
    <3> QED
      BY <1>2, <2>1, <3>1, <3>2, <3>3
  <2> QED
    BY <1>3, <2>1, <2>2 DEF CellInv, Same
<1>7. CASE Finds \/ Names \/ Counts \/ Works
  <2>1. /\ Same /\ Busy
        /\ state' \in Writing \cup Marking => state \in Writing \cup Marking
    BY <1>7
       DEF Finds, Names, Counts, Works, Busy, Resting, Looking, Writing, Marking, Counting,
           Later
  <2> QED
    BY <1>3, <2>1 DEF CellInv, Same
<1>8. CASE Idles \/ Leaves \/ Sleeps \/ Zeroes
  BY <1>8
     DEF Idles, Leaves, Sleeps, Zeroes, CellInv, Busy, Resting, Writing, Marking
<1> QED
  BY <1>4, <1>5, <1>6, <1>7, <1>8 DEF Flow

(* The cell is not in use until its name is there.                         *)
LEMMA EmptyKept ==
    ASSUME MemInv, TableInv, EmptyInv, CellInv, CellInv', Flow, mem' = mem
    PROVE  EmptyInv'
<1> SUFFICES ASSUME state' \in Writing \cup Marking PROVE EmptyInv'
  BY DEF EmptyInv, Marking
<1>1. Chooses \/ Names
  BY
     DEF Flow, Idles, Enters, Looks, Finds, Counts, Works, Leaves, Sleeps,
         Zeroes, Looking,
         Writing, Marking, Counting, Later
<1>2. Same /\ \A w : Word0(interblock, w)' = Word0(interblock, w)
  BY <1>1 DEF Chooses, Names, Same, Word0
<1>3. CASE Chooses
  <2>1. /\ state \in Looking /\ Busy /\ state' = "WRITE_QNAME"
        /\ CleanInv /\ interblock \in Cell
    BY <1>3
       DEF Chooses, Looking, Busy, Resting, TableInv, MemInv, IInv, TypeOK, PlaceType
  <2>2. parsed_pkts = 0 \/ (parsed_pkts = 1 /\ interblock # 0)
    BY <1>2, <2>1 DEF CellInv, Same, Writing, Busy, Resting
  <2>3. \A w \in Offset : Word0(interblock, w) = 0
    BY <2>1, <2>2, CleanWords
  <2>4. Word0(interblock, InUse)' = 0 /\ \A s \in StatSlots : Word0(interblock, s)' = 0
    BY <1>2, <2>3, WordPlaces
  <2> QED
    BY <2>1, <2>4 DEF EmptyInv
<1>4. CASE Names
  <2>1. /\ state \in Writing \cup Marking
        /\ state' \in Writing \cup {"SET_IN_USE"} => state \in Writing \cup {"SET_IN_USE"}
    BY <1>4 DEF Names, Writing, Marking
  <2> QED
    BY <1>2, <2>1 DEF EmptyInv
<1> QED
  BY <1>1, <1>3, <1>4

(* The other cells are empty, and the two differ.                          *)
LEMMA CellsKept ==
    ASSUME MemInv, TableInv, ElseInv, DistinctInv, Flow, mem' = mem, Cells >= 2
    PROVE  ElseInv' /\ DistinctInv'
<1>1. CASE Zeroing
  <2>1. CASE state' = "IDLE"
    <3>1. Zeroes
      BY <1>1, <2>1
         DEF Zeroing, Flow, Idles, Enters, Looks, Chooses, Finds, Names, Counts, Works,
             Leaves, Sleeps, Looking, Writing, Marking, Counting, Later, Resting
    <3>2. \A a \in Address : mem[a] = 0
      BY <2>1, <3>1, ZeroStep DEF TableInv
    <3>3. [row |-> 0, cell |-> 0, word |-> InUse] \in Address
      BY WordPlaces, LayoutFacts DEF Address, Row, Cell
    <3>4. Word0(0, InUse)' = 0
      BY <3>2, <3>3 DEF Word0
    <3> QED
      BY <3>2, <3>4 DEF ElseInv, DistinctInv
  <2>2. CASE state' # "IDLE"
    <3>1. Zeroing'
      BY <1>1, <2>2
         DEF Zeroing, Flow, Idles, Enters, Looks, Chooses, Finds, Names, Counts, Works,
             Leaves, Sleeps, Zeroes, Looking, Writing, Marking, Counting, Later, Resting
    <3> QED
      BY <3>1 DEF ElseInv, DistinctInv
  <2> QED
    BY <2>1, <2>2
<1>2. CASE ~Zeroing
  <2>1. \A c, w : Word0(c, w)' = Word0(c, w)
    BY DEF Word0
  <2> QED
    BY <1>2, <2>1 DEF ElseInv, DistinctInv
<1> QED
  BY <1>1, <1>2

(* The slots of a second packet are behind what the first one has left.    *)
LEMMA AgainKept ==
    ASSUME MemInv, MemInv', TableInv, WorkInv', CellInv', HostInv, AgainInv, BothFit,
           MachineStep, Flow, mem' = mem
    PROVE  AgainInv'
<1> SUFFICES ASSUME Busy', ~Fresh' PROVE SlotInv(Reach, Reach + 2)'
  BY DEF AgainInv, Reach, HostLimit, Top
<1>1. PICK first \in Nat, last \in Nat :
         first = Reach /\ last = Reach + 2 /\ Top(last) < BlockWords /\ first + 2 <= last
  BY ReachFacts DEF BothFit
<1>2. interblock' = 0 /\ parsed_pkts' = 1
  BY DEF CellInv, Fresh, WorkInv
<1> SUFFICES SlotInv(first, last)'
  <2>1. Reach' = Reach
    BY DEF Reach, HostLimit, Top
  <2> QED
    BY <1>1, <2>1
<1>3. CASE state \in {"IDLE"} \cup Looking
  <2>1. /\ parsed_pkts' = parsed_pkts
        /\ state' \in Looking \cup {"WRITE_QNAME", "READ_STATS"}
    <3>1. Enters \/ Looks \/ Chooses \/ Finds
      BY <1>3
         DEF Flow, Idles, Names, Counts, Works, Leaves, Sleeps, Zeroes, Resting, Looking,
             Writing, Marking, Counting, Later, Busy
    <3> QED
      BY <3>1 DEF Enters, Looks, Chooses, Finds, Same, Looking
  <2>2. state' \in BeforeCNames
    BY <2>1
       DEF Looking, BeforeCNames, CNaming, Hosting, HostStat, Resting, States, WaitStates,
           ReadWaits, WriteWaits
  <2>3. \A w \in Behind : Word0(0, w) = 0
    BY <1>2, <1>3, <2>1 DEF HostInv
  <2>4. ASSUME NEW j \in 0 .. last, j >= first PROVE Word0(interblock, Top(j))' = 0
    <3>1. Top(j) > HostLimit /\ Top(j) \in Offset /\ j \in Nat
      BY <1>1, <2>4, ReachFacts, Tops
    <3>2. Top(j) \in Behind
      BY <3>1, LayoutFacts, ReachFacts DEF Behind, Offset
    <3> QED
      BY <1>2, <2>3, <3>2 DEF Word0, Top
  <2> QED
    BY <2>2, <2>4 DEF SlotInv, BeforeCNames, CNaming, Hosting
<1>4. CASE state \notin {"IDLE"} \cup Looking
  <2>1. Names \/ Counts \/ Works
    BY <1>4
       DEF Flow, Idles, Enters, Looks, Chooses, Finds, Leaves, Sleeps, Zeroes, Resting,
           Looking, Busy
  <2>2. Same /\ state \notin Resting
    BY <2>1
       DEF Names, Counts, Works, Resting, Looking, Writing, Marking, Counting,
           Later
  <2>3. ~Fresh /\ Busy
    BY <2>2 DEF Same, Fresh, Busy
  <2>4. SlotInv(first, last)
    BY <1>1, <2>3 DEF AgainInv
  <2> QED
    BY <1>1, <2>2, <2>4, SlotsEdge DEF TableInv, Busy
<1> QED
  BY <1>3, <1>4

(* A first packet leaves one querying host, right behind its CNAMEs.       *)
LEMMA HostKept ==
    ASSUME MemInv, MemInv', TableInv, WorkInv', HostInv, SlotsFit, BothFit, MachineStep, Flow,
           mem' = mem
    PROVE  HostInv'
<1>1. /\ CleanInv /\ WorkInv /\ FreshInv /\ AccessInv /\ AAAAInv /\ 0 \in Cell
      /\ intrablock \in Int /\ intrablock' \in Int /\ CNameBase \in Int /\ Quarters \in Int
      /\ HostLimit \in Int /\ HostLimit \in Offset
  <2>1. Reach \in Nat /\ Top(Reach + 2) > HostLimit /\ Top(Reach + 2) \in Int
    <3>1. Reach \in Nat /\ Reach + 2 \in Nat /\ Reach + 2 >= Reach
      BY ReachFacts
    <3> QED
      BY <3>1, ReachFacts, TopFacts
  <2>2. HostLimit \in Int /\ HostLimit \in Offset
    BY <2>1, LayoutFacts, WordPlaces, ReachFacts DEF BothFit
  <2> QED
    BY <2>2, LayoutFacts
       DEF TableInv, MemInv, IInv, TypeOK, PlaceType, Offset, Cell
<1>2. /\ HostLimit' = HostLimit /\ Behind' = Behind
      /\ \A w : Word0(0, w)' = Word0(0, w)
  BY DEF Behind, HostLimit, Top, Word0
<1>3. CASE state \in {"IDLE"} \cup Looking /\ state' \notin Resting
  <2>1. /\ parsed_pkts' = parsed_pkts
        /\ state' \in Looking \cup {"WRITE_QNAME", "READ_STATS"}
    <3>1. Enters \/ Looks \/ Chooses \/ Finds
      BY <1>3
         DEF Flow, Idles, Names, Counts, Works, Leaves, Sleeps, Zeroes, Resting, Looking,
             Writing, Marking, Counting, Later
    <3> QED
      BY <3>1 DEF Enters, Looks, Chooses, Finds, Same, Looking
  <2>2. state' \notin Hosting
    BY <2>1 DEF Looking, Hosting
  <2>3. parsed_pkts = 0 => \A w \in Offset : Word0(0, w) = 0
    BY <1>1, <1>3, CleanWords
  <2>4. parsed_pkts = 0 => Word0(0, HostLimit) = 0 /\ \A w \in Behind : Word0(0, w) = 0
    BY <1>1, <2>3, WordPlaces
  <2>5. parsed_pkts = 1 => \A w \in Behind : Word0(0, w) = 0
    BY <1>3 DEF HostInv
  <2> QED
    BY <1>2, <2>1, <2>2, <2>4, <2>5 DEF HostInv
<1>4. CASE state \in {"IDLE"} \cup Looking /\ state' \in Resting
  <2>1. state' = "IDLE" => state = "IDLE" /\ parsed_pkts' = parsed_pkts
    BY <1>4
       DEF Flow, Idles, Enters, Looks, Chooses, Finds, Names, Counts, Works, Leaves, Sleeps,
           Zeroes, Same, Resting, Looking, Writing, Marking, Counting, Later
  <2>2. ~Busy' /\ state' \notin Looking
    BY <1>4 DEF Busy, Resting, Looking
  <2> QED
    BY <1>2, <2>1, <2>2 DEF HostInv
<1>5. CASE state \notin {"IDLE"} \cup Looking /\ state' \in Resting
  <2>1. ~Busy' /\ state' \notin Looking
    BY <1>5 DEF Busy, Resting, Looking
  <2>2. CASE Leaves
    <3>1. Busy /\ parsed_pkts \in {0, 1} /\ parsed_pkts' = parsed_pkts + 1
      BY <1>1, <1>5, <2>2 DEF Leaves, Later, Busy, WorkInv
    <3> QED
      BY <1>2, <2>1, <3>1 DEF HostInv
  <2>3. CASE ~Leaves
    <3>1. state' = "IDLE" => parsed_pkts' = 0
      BY <1>5, <2>3
         DEF Flow, Idles, Enters, Looks, Chooses, Finds, Names, Counts, Works, Sleeps,
             Zeroes, Resting, Looking, Writing, Marking, Counting, Later, TableInv, ZeroInv
    <3> QED
      BY <2>1, <3>1 DEF HostInv
  <2> QED
    BY <2>2, <2>3
<1>6. CASE state \notin {"IDLE"} \cup Looking /\ state' \notin Resting
  <2>1. Names \/ Counts \/ Works
    BY <1>6
       DEF Flow, Idles, Enters, Looks, Chooses, Finds, Leaves, Sleeps, Zeroes, Resting,
           Looking
  <2>2. Same /\ Busy /\ state' \notin {"IDLE"} \cup Looking
    BY <2>1
       DEF Names, Counts, Works, Resting, Looking, Writing, Marking, Counting, Later, Busy
  <2> SUFFICES ASSUME parsed_pkts = 0
               PROVE  /\ state' \notin {"WRITE_QHOST_W"} \cup HostStat =>
                            Word0(0, HostLimit) = 0
                      /\ state' \in Hosting => intrablock' <= HostLimit
    BY <1>2, <2>2 DEF HostInv, Same
  <2>3. /\ state \notin {"WRITE_QHOST_W"} \cup HostStat => Word0(0, HostLimit) = 0
        /\ state \in Hosting => intrablock <= HostLimit
        /\ interblock = 0 /\ Fresh /\ SlotInv(0, 2)
    BY <1>1, <2>2 DEF HostInv, WorkInv, Fresh, FreshInv
  <2>4. CASE Settles
    <3>1. state \notin {"WRITE_QHOST_W"} \cup HostStat
      BY <2>4 DEF Settles, BeforeCNames, Hosting
    <3>2. CASE state' \in BeforeCNames \cup {"CHECK_CNAME"}
      BY <2>3, <3>1, <3>2 DEF BeforeCNames, Hosting
    <3>3. CASE state' = "CHECK_QHOST" /\ intrablock' = QHostBase
      BY <2>3, <3>1, <3>3, ReachFacts
    <3>4. CASE state = "APPEND_AAAA_W" /\ state' = "CHECK_QHOST" /\ intrablock' = intrablock
      <4>1. intrablock < CNameBase
        BY <1>1, <3>4 DEF AAAAInv
      <4>2. intrablock' <= HostLimit
        BY <1>1, <3>4, <4>1, ReachFacts
      <4> QED
        BY <2>3, <3>1, <4>2
    <3> QED
      BY <2>4, <3>2, <3>3, <3>4 DEF Settles
  <2>5. CASE Stays
    <3>1. state \in CNaming /\ state' \in CNaming
      BY <2>5 DEF Stays, CNaming
    <3> QED
      BY <2>3, <3>1 DEF CNaming, HostStat, Hosting
  <2>6. CASE Hosts
    <3>1. CASE state' \in HostStat
      BY <3>1 DEF HostStat, Hosting
    <3>2. CASE /\ state \in Hosting /\ state' \in Hosting
               /\ intrablock' = intrablock /\ (state = "WRITE_QHOST_W" => state' = state)
      BY <2>3, <3>2 DEF Hosting, HostStat
    <3>3. CASE /\ state \in Hosting /\ state' \in Hosting
               /\ ack /\ state = "CHECK_QHOST_W" /\ answer # 0
               /\ intrablock' = intrablock + 1
      <4>1. answer = Word0(0, intrablock)
        BY <1>1, <2>3, <3>3, AckFacts DEF WorkInv, ReadWaits, Carried
      <4>2. Word0(0, HostLimit) = 0 /\ intrablock <= HostLimit
        BY <2>3, <3>3 DEF HostStat
      <4>3. intrablock # HostLimit
        BY <3>3, <4>1, <4>2
      <4> QED
        BY <1>1, <3>3, <4>2, <4>3
    <3> QED
      BY <2>6, <3>1, <3>2, <3>3 DEF Hosts
  <2>7. CASE ack /\ CNameAnswers(answer)
    <3>1. state \in CNaming
      BY <2>7 DEF CNameAnswers, AnswerCheckCName, AnswerAppendCName, CNaming
    <3>2. /\ state' = "CHECK_QHOST" => intrablock' = QHostBase \/ intrablock' <= Top(2)
          /\ state' \in {"CHECK_CNAME", "APPEND_CNAME", "CHECK_QHOST"}
      <4>1. /\ state = "CHECK_CNAME_W" => Checks(intrablock, data_count, 0 + Done, 2)
            /\ state = "APPEND_CNAME_W" => Appends(intrablock, data_count, 0 + Done, 2)
        BY <2>3 DEF SlotInv
      <4> QED
        BY <1>1, <2>7, <4>1, SlotsInTurn DEF SlotsFit
    <3>3. state' = "CHECK_QHOST" => intrablock' <= HostLimit
      BY <1>1, <3>2, ReachFacts
    <3> QED
      BY <2>3, <3>1, <3>2, <3>3 DEF CNaming, HostStat, Hosting
  <2>8. state # "IDLE"
    BY <1>6
  <2> QED
    BY <1>6, <2>4, <2>5, <2>6, <2>7, <2>8, Parts
<1> QED
  BY <1>3, <1>4, <1>5, <1>6

(* An edge keeps what the memory holds for the counts.                     *)
LEMMA CountStep ==
    ASSUME MemInv, TableInv, CountInv, OffloadAfter <= 2, SlotsFit, BothFit, Cells >= 2,
           [MemEdge]_memVars
    PROVE  CountInv'
<1>1. CASE MemEdge
  <2>1. MemInv' /\ TableInv' /\ MachineStep /\ (Stores \/ mem' = mem)
    BY <1>1, MemInvStep, TableStep DEF TableInv, MemEdge
  <2>2. CASE Stores
    BY <2>2, CountStored
  <2>3. CASE mem' = mem
    <3>1. Flow /\ WorkInv'
      BY <2>1, MachineFlow DEF TableInv
    <3>2. CellInv' /\ StatInv'
      BY <2>1, <2>3, <3>1, CellKept, StatKept DEF CountInv
    <3>3. EmptyInv' /\ ElseInv' /\ DistinctInv'
      BY <2>3, <3>1, <3>2, EmptyKept, CellsKept DEF CountInv
    <3>4. AgainInv' /\ HostInv'
      BY <2>1, <2>3, <3>1, <3>2, AgainKept, HostKept DEF CountInv
    <3> QED
      BY <3>2, <3>3, <3>4 DEF CountInv
  <2> QED
    BY <2>1, <2>2, <2>3
<1>2. CASE UNCHANGED memVars
  <2>1. UNCHANGED <<state, data_count, intrablock, interblock, parsed_pkts, pkt, left, blk, wb,
                    mem>>
    BY <1>2 DEF memVars, vars, place, work
  <2>2. \A c, w : Word0(c, w)' = Word0(c, w)
    BY <2>1 DEF Word0
  <2>3. HostInv' /\ CellInv' /\ EmptyInv'
    BY <2>1
       DEF CountInv, HostInv, CellInv, EmptyInv, Word0, Differ, Busy, Behind, HostLimit, Top
  <2>4. ElseInv' /\ DistinctInv' /\ StatInv'
    BY <2>1 DEF CountInv, ElseInv, DistinctInv, StatInv, Word0, Zeroing
  <2>5. AgainInv'
    <3>1. Reach' = Reach
      BY DEF Reach, HostLimit, Top
    <3>2. PICK first, last : first = Reach /\ last = Reach + 2
      OBVIOUS
    <3>3. SlotInv(first, last) => SlotInv(first, last)'
      BY <2>1 DEF SlotInv, Checks, Appends, Done, Top, Word0
    <3> QED
      BY <2>1, <3>1, <3>2, <3>3 DEF CountInv, AgainInv, Fresh, Busy
  <2> QED
    BY <2>3, <2>4, <2>5 DEF CountInv
<1> QED
  BY <1>1, <1>2

(* At power-up nothing was counted.                                        *)
LEMMA CountInitInv ==
    ASSUME MemInit, Cells >= 2
    PROVE  CountInv
<1>1. state = "IDLE" /\ parsed_pkts = 0 /\ \A a \in Address : mem[a] = 0
  BY DEF MemInit, Init, ZeroMem
<1>2. Word0(0, InUse) = 0
  <2>1. [row |-> 0, cell |-> 0, word |-> InUse] \in Address
    BY WordPlaces, LayoutFacts DEF Address, Row, Cell
  <2> QED
    BY <1>1, <2>1 DEF Word0
<1>3. HostInv /\ AgainInv /\ CellInv /\ EmptyInv
  BY <1>1 DEF HostInv, AgainInv, CellInv, EmptyInv, Busy, Resting, Writing, Marking
<1>4. ElseInv /\ DistinctInv /\ StatInv
  BY <1>1, <1>2 DEF ElseInv, DistinctInv, StatInv
<1> QED
  BY <1>3, <1>4 DEF CountInv

(* What the memory holds for the counts: two cells at most, of two names,  *)
(* and statistics registers that agree with the cell.                      *)
THEOREM CountsInvariant ==
    ASSUME OffloadAfter <= 2, SlotsFit, BothFit, Cells >= 2
    PROVE  MemSpec => [](MemInv /\ TableInv /\ CountInv)
<1>1. MemInit => MemInv /\ TableInv /\ CountInv
  BY MemInitInv, TableInitInv, CountInitInv
<1>2. MemInv /\ TableInv /\ CountInv /\ [MemEdge]_memVars => (MemInv /\ TableInv /\ CountInv)'
  BY MemInvStep, TableStep, CountStep DEF TableInv
<1> QED
  BY <1>1, <1>2, PTL DEF MemSpec

-----------------------------------------------------------------------------
(* The table.  Of the cells only the first two can be in use.              *)
Has(k, name) == Word0(k, InUse) = 1 /\ Holds(k, name)
CountOf(name, s) ==
    IF Zeroing THEN 0
    ELSE IF Has(0, name) THEN Word0(0, s)
    ELSE IF Has(1, name) THEN Word0(1, s) ELSE 0
Reads ==
    /\ \A n \in NamesAsked : \A c \in DOMAIN SlotOf : Counted(n, c) = CountOf(n, SlotOf[c])
    /\ state \in Looking \cup Writing \cup Marking \cup {"READ_STATS", "READ_STATS_W"} =>
          Uncounted = DOMAIN SlotOf
    /\ state = "UPDATE_STATS" => Uncounted = {c \in DOMAIN SlotOf : SlotOf[c] >= intrablock}
    /\ state = "UPDATE_STATS_W" =>
          Uncounted = {c \in DOMAIN SlotOf :
                          \/ SlotOf[c] > intrablock
                          \/ /\ SlotOf[c] = intrablock
                             /\ Word0(interblock, intrablock) # wb.dat}
    /\ state \in Resting \cup Later => Uncounted = {}

(* What the table and the packet of DomainTable stand for.                 *)
TableNow   == [n \in NamesAsked |-> [c \in DOMAIN SlotOf |-> Counted(n, c)]]
CurrentNow == IF state \in Resting THEN [name |-> "none"] ELSE Share(pkt)
tableVars  == <<TableNow, CurrentNow, Uncounted>>

(* Each counter has a slot of its own, and each slot but QHosts a counter. *)
LEMMA SlotFacts ==
    /\ DOMAIN SlotOf = {"queries", "resolved", "a", "aaaa", "cname"}
    /\ SlotOf["queries"] = QueryCount /\ SlotOf["resolved"] = Resolved
    /\ SlotOf["a"] = ACount /\ SlotOf["aaaa"] = AAAACount /\ SlotOf["cname"] = CNameCount
    /\ \A c \in DOMAIN SlotOf : SlotOf[c] \in StatSlots \ {QHosts} /\ SlotOf[c] \in Offset
    /\ \A c, d \in DOMAIN SlotOf : SlotOf[c] = SlotOf[d] => c = d
    /\ \A s \in StatSlots \ {QHosts} : \E c \in DOMAIN SlotOf : SlotOf[c] = s
<1>1. /\ DOMAIN SlotOf = {"queries", "resolved", "a", "aaaa", "cname"}
      /\ SlotOf["queries"] = QueryCount /\ SlotOf["resolved"] = Resolved
      /\ SlotOf["a"] = ACount /\ SlotOf["aaaa"] = AAAACount /\ SlotOf["cname"] = CNameCount
  BY DEF SlotOf
<1>2. NameWords \in Nat
  BY LayoutFacts
<1>3. /\ QueryCount \in StatSlots \ {QHosts} /\ Resolved \in StatSlots \ {QHosts}
      /\ ACount \in StatSlots \ {QHosts} /\ AAAACount \in StatSlots \ {QHosts}
      /\ CNameCount \in StatSlots \ {QHosts}
  BY <1>2 DEF StatSlots, QueryCount, Resolved, QHosts, ACount, AAAACount, CNameCount
<1>4. \A c \in DOMAIN SlotOf : SlotOf[c] \in StatSlots \ {QHosts} /\ SlotOf[c] \in Offset
  BY <1>1, <1>3, WordPlaces
<1>5. \A c, d \in DOMAIN SlotOf : SlotOf[c] = SlotOf[d] => c = d
  BY <1>1, <1>2 DEF QueryCount, Resolved, ACount, AAAACount, CNameCount
<1>6. ASSUME NEW s \in StatSlots \ {QHosts}
      PROVE  \E c \in DOMAIN SlotOf : SlotOf[c] = s
  <2>1. s \in {QueryCount, Resolved, ACount, AAAACount, CNameCount}
    BY <1>2 DEF StatSlots, QueryCount, Resolved, QHosts, ACount, AAAACount, CNameCount
  <2> QED
    BY <1>1, <2>1
<1> QED
  BY <1>1, <1>4, <1>5, <1>6

(* The name in a cell, as the table reads it.                              *)
LEMMA NameInCell ==
    ASSUME NEW c, NEW name \in Name
    PROVE  StoredName(0, c) = name <=> Holds(c, name)
<1>1. NameWords \in Nat
  BY LayoutFacts
<1>2. ASSUME StoredName(0, c) = name PROVE Holds(c, name)
  <2>1. ASSUME NEW w \in 0 .. NameWords - 1 PROVE Word0(c, w) = name[NameWords - 1 - w]
    <3>1. NameWords - 1 - w \in 0 .. NameWords - 1 /\ NameWords - 1 - (NameWords - 1 - w) = w
      BY <1>1
    <3>2. StoredName(0, c)[NameWords - 1 - w] = At(0, c, NameWords - 1 - (NameWords - 1 - w))
      BY <3>1 DEF StoredName
    <3> QED
      BY <1>2, <3>1, <3>2 DEF At, Word0
  <2> QED
    BY <2>1 DEF Holds
<1>3. ASSUME Holds(c, name) PROVE StoredName(0, c) = name
  <2>1. ASSUME NEW i \in 0 .. NameWords - 1 PROVE At(0, c, NameWords - 1 - i) = name[i]
    <3>1. NameWords - 1 - i \in 0 .. NameWords - 1 /\ NameWords - 1 - (NameWords - 1 - i) = i
      BY <1>1
    <3>2. Word0(c, NameWords - 1 - i) = name[NameWords - 1 - (NameWords - 1 - i)]
      BY <1>3, <3>1 DEF Holds
    <3> QED
      BY <3>1, <3>2 DEF At, Word0
  <2>2. name = [i \in 0 .. NameWords - 1 |-> name[i]]
    BY DEF Name
  <2> QED
    BY <2>1, <2>2 DEF StoredName
<1> QED
  BY <1>2, <1>3

(* What the table reads is what one of the two cells holds.                *)
LEMMA CellReads ==
    ASSUME MemInv, hash = 0, ElseInv, DistinctInv, Cells >= 2
    PROVE  Reads
<1>1. state \in Looking \cup Writing \cup Marking \cup {"READ_STATS", "READ_STATS_W"} =>
         Uncounted = DOMAIN SlotOf
  BY DEF Uncounted, Looking, Writing, Marking
<1>2. state = "UPDATE_STATS" => Uncounted = {c \in DOMAIN SlotOf : SlotOf[c] >= intrablock}
  BY DEF Uncounted
<1>3. state = "UPDATE_STATS_W" =>
         Uncounted = {c \in DOMAIN SlotOf :
                         \/ SlotOf[c] > intrablock
                         \/ /\ SlotOf[c] = intrablock
                            /\ Word0(interblock, intrablock) # wb.dat}
  BY DEF Uncounted, At, Word0
<1>4. state \in Resting \cup Later => Uncounted = {}
  BY DEF Uncounted, Resting, Later, Looking, Writing, Marking, Counting
<1> SUFFICES ASSUME NEW n \in NamesAsked, NEW c \in DOMAIN SlotOf
             PROVE  Counted(n, c) = CountOf(n, SlotOf[c])
  BY <1>1, <1>2, <1>3, <1>4 DEF Reads
<1>5. CASE Zeroing
  BY <1>5 DEF Zeroing, Counted, CountOf
<1>6. CASE ~Zeroing
  <2>1. n \in Name /\ 0 \in Row /\ 0 \in Cell /\ 1 \in Cell
    <3>1. \A p \in Packets : p.name \in Name
      BY PacketAssumption DEF Packet
    <3>2. n \in Name
      BY <3>1 DEF NamesAsked
    <3>3. 0 \in Row /\ 0 \in Cell /\ 1 \in Cell
      BY LayoutFacts DEF Row, Cell
    <3> QED
      BY <3>2, <3>3
  <2>2. ASSUME NEW r \in Row, NEW k \in Cell
        PROVE  <<r, k>> \in CellsOf(n) <=> r = 0 /\ k \in {0, 1} /\ Has(k, n)
    <3>1. CASE r # 0 \/ k \notin {0, 1}
      <4> DEFINE a == [row |-> r, cell |-> k, word |-> InUse]
      <4>1. a \in Address /\ a.row = r /\ a.cell = k
        BY WordPlaces DEF Address
      <4>2. mem[a] = 0
        BY <1>6, <3>1, <4>1 DEF ElseInv
      <4>3. At(r, k, InUse) = 0
        BY <4>2 DEF At
      <4> QED
        BY <3>1, <4>3 DEF CellsOf
    <3>2. CASE r = 0 /\ k \in {0, 1}
      <4>1. At(r, k, InUse) = Word0(k, InUse)
        BY <3>2 DEF At, Word0
      <4>2. StoredName(r, k) = n <=> Holds(k, n)
        BY <2>1, <3>2, NameInCell
      <4> QED
        BY <3>2, <4>1, <4>2 DEF CellsOf, Has
    <3> QED
      BY <3>1, <3>2
  <2>3. CellsOf(n) \subseteq Row \X Cell
    BY DEF CellsOf
  <2>4. ASSUME Has(0, n), Has(1, n) PROVE FALSE
    <3>1. PICK w \in 0 .. NameWords - 1 : Word0(0, w) # Word0(1, w)
      BY <1>6, <2>4 DEF DistinctInv, Has
    <3> QED
      BY <2>4, <3>1 DEF Has, Holds
  <2>5. ASSUME NEW k \in {0, 1}, Has(k, n)
        PROVE  Counted(n, c) = Word0(k, SlotOf[c])
    <3>1. CellsOf(n) = {<<0, k>>}
      <4>1. <<0, k>> \in CellsOf(n)
        BY <2>1, <2>2, <2>5
      <4>2. ASSUME NEW x \in CellsOf(n) PROVE x = <<0, k>>
        <5>1. PICK r \in Row, j \in Cell : x = <<r, j>>
          BY <2>3
        <5>2. r = 0 /\ j \in {0, 1} /\ Has(j, n)
          BY <2>2, <5>1
        <5> QED
          BY <2>4, <2>5, <5>1, <5>2
      <4> QED
        BY <4>1, <4>2
    <3>2. Cardinality(CellsOf(n)) = 1
      BY <3>1, FS_Singleton
    <3>3. (CHOOSE x \in CellsOf(n) : TRUE) = <<0, k>>
      BY <3>1
    <3>4. CellsOf(n) # {} /\ ~(Cardinality(CellsOf(n)) > 1)
      BY <3>1, <3>2
    <3>5. Counted(n, c) = At(<<0, k>>[1], <<0, k>>[2], SlotOf[c])
      BY <1>6, <3>3, <3>4 DEF Zeroing, Counted
    <3> QED
      BY <3>5 DEF At, Word0
  <2>6. CASE Has(0, n)
    BY <1>6, <2>5, <2>6 DEF CountOf
  <2>7. CASE ~Has(0, n) /\ Has(1, n)
    BY <1>6, <2>5, <2>7 DEF CountOf
  <2>8. CASE ~Has(0, n) /\ ~Has(1, n)
    <3>1. CellsOf(n) = {}
      BY <2>2, <2>3, <2>8
    <3> QED
      BY <1>6, <2>8, <3>1 DEF Counted, CountOf
  <2> QED
    BY <2>6, <2>7, <2>8
<1> QED
  BY <1>5, <1>6

-----------------------------------------------------------------------------
(* The steps of the domain table.                                          *)

(* No counter changes.                                                     *)
LEMMA SameTable ==
    ASSUME Reads, Reads',
           \A n \in NamesAsked : \A c \in DOMAIN SlotOf :
              CountOf(n, SlotOf[c])' = CountOf(n, SlotOf[c])
    PROVE  TableNow' = TableNow
<1>1. ASSUME NEW n \in NamesAsked, NEW c \in DOMAIN SlotOf
      PROVE  Counted(n, c)' = Counted(n, c)
  BY DEF Reads
<1> QED
  BY <1>1 DEF TableNow

(* A packet is taken, is done, and the memory is zeroed.                   *)
LEMMA ShareIsNoRest == \A p : Share(p) # [name |-> "none"]
<1> SUFFICES ASSUME NEW p, Share(p) = [name |-> "none"] PROVE FALSE
  OBVIOUS
<1>1. "queries" \in DOMAIN Share(p) /\ "queries" \notin DOMAIN [name |-> "none"]
  BY DEF Share
<1> QED
  BY <1>1

(* A packet that is taken begins in the table of domains too.              *)
LEMMA Begins ==
    ASSUME state \in Resting, state' \notin Resting, pkt' \in Packets,
           Uncounted' = DOMAIN SlotOf, TableNow' = TableNow
    PROVE  Table!TableNext
<1>1. CurrentNow = [name |-> "none"] /\ CurrentNow' = Share(pkt')
  BY DEF CurrentNow, Share
<1>2. Table!Begin(Share(pkt'))
  BY <1>1, SlotFacts
     DEF Table!Begin, Table!NoPacket, Table!Counters, TableNow, CurrentNow, Resting
<1> QED
  BY <1>2 DEF Table!TableNext

(* A packet whose counters are all done with is finished there.            *)
LEMMA Finishes ==
    ASSUME state \notin Resting, state' \in Resting, Uncounted = {}, Uncounted' = {},
           TableNow' = TableNow
    PROVE  Table!TableNext
<1>1. CurrentNow # [name |-> "none"] /\ CurrentNow' = [name |-> "none"]
  BY ShareIsNoRest DEF CurrentNow
<1>2. Table!Finish
  BY <1>1
     DEF Table!Finish, Table!NoPacket, TableNow, CurrentNow, Resting
<1> QED
  BY <1>2 DEF Table!TableNext

(* An offload that zeroes the memory clears every counter there at once.   *)
LEMMA Clears ==
    ASSUME state \in Resting, state' \in Resting, Uncounted = {}, Uncounted' = {}, Reads',
           \A n \in NamesAsked : \A c \in DOMAIN SlotOf : CountOf(n, SlotOf[c])' = 0
    PROVE  Table!TableNext
<1>1. CurrentNow = [name |-> "none"] /\ CurrentNow' = [name |-> "none"]
  BY DEF CurrentNow
<1>2. \A n \in NamesAsked : \A c \in DOMAIN SlotOf : Counted(n, c)' = 0
  BY DEF Reads
<1>3. TableNow' = [n \in NamesAsked |-> [c \in DOMAIN SlotOf |-> 0]]
  BY <1>2 DEF TableNow
<1>4. Table!Clear
  BY <1>1, <1>3, SlotFacts
     DEF Table!Clear, Table!NoPacket, Table!EmptyTable, Table!Counters, TableNow,
         CurrentNow, Resting
<1> QED
  BY <1>4 DEF Table!TableNext

(* A counter of the packet is written.                                     *)
LEMMA Adds ==
    ASSUME state \notin Resting, state' \notin Resting, pkt' = pkt, pkt \in Packets,
           NEW c \in DOMAIN SlotOf, c \in Uncounted, Uncounted' = Uncounted \ {c},
           Reads, Reads',
           CountOf(pkt.name, SlotOf[c])' =
              (CountOf(pkt.name, SlotOf[c]) + Share(pkt)[c]) % (Half * Half),
           \A n \in NamesAsked : \A d \in DOMAIN SlotOf :
              n # pkt.name \/ d # c => CountOf(n, SlotOf[d])' = CountOf(n, SlotOf[d])
    PROVE  Table!TableNext
<1>1. CurrentNow = Share(pkt) /\ CurrentNow' = CurrentNow /\ Share(pkt).name = pkt.name
  BY DEF CurrentNow, Share
<1>2. PICK m \in NamesAsked : m = pkt.name /\ m = pkt'.name
  BY DEF NamesAsked
<1>3. Counted(m, c)' = (Counted(m, c) + Share(pkt)[c]) % (Half * Half)
  BY <1>2 DEF Reads
<1>4. ASSUME NEW n \in NamesAsked, NEW d \in DOMAIN SlotOf, n # m \/ d # c
      PROVE  Counted(n, d)' = Counted(n, d)
  BY <1>2, <1>4 DEF Reads
<1>5. TableNow' = [TableNow EXCEPT ![m][c] = (@ + Share(pkt)[c]) % (Half * Half)]
  BY <1>3, <1>4 DEF TableNow
<1>6. Table!Add(c)
  BY <1>1, <1>2, <1>5 DEF Table!Add, TableNow, CurrentNow, Resting
<1> QED
  BY <1>6, SlotFacts DEF Table!TableNext, Table!Counters

(* What UPDATE_STATS computes is the old count and the packet's share.     *)
LEMMA NewShare ==
    ASSUME IInv, state \in BeforeRecords, NEW c \in DOMAIN SlotOf
    PROVE  NewStat(SlotOf[c]) = (blk[SlotOf[c]] + Share(pkt)[c]) % (Half * Half)
<1>1. /\ left.a = pkt.nA /\ left.aaaa = pkt.nAAAA /\ left.cname = pkt.nCNAME
      /\ left.a \in Nat /\ left.aaaa \in Nat /\ left.cname \in Nat
  BY LayoutFacts DEF IInv, CountsInv, TypeOK, WorkType
<1>2. PICK b \in Nat : b = blk[SlotOf[c]]
  <2>1. SlotOf[c] \in StatSlots /\ blk \in [StatSlots -> Word]
    BY SlotFacts DEF IInv, TypeOK, WorkType
  <2> QED
    BY <2>1, WordFacts
<1>3. NameWords \in Nat
  BY LayoutFacts
<1>4. CASE c = "resolved"
  <2>1. NewStat(SlotOf[c]) = (b + left.a + left.aaaa + left.cname) % (Half * Half)
    BY <1>2, <1>3, <1>4, SlotFacts DEF NewStat, QueryCount, Resolved
  <2>2. Share(pkt)[c] = left.a + left.aaaa + left.cname
    BY <1>1, <1>4 DEF Share
  <2>3. b + left.a + left.aaaa + left.cname = b + (left.a + left.aaaa + left.cname)
    BY <1>1
  <2> QED
    BY <1>2, <2>1, <2>2, <2>3
<1>5. CASE c # "resolved"
  BY <1>1, <1>3, <1>5, SlotFacts
     DEF NewStat, Share, QueryCount, Resolved, ACount, AAAACount, CNameCount
<1> QED
  BY <1>4, <1>5

-----------------------------------------------------------------------------
(* A write counts one counter of the packet, or none.                      *)
LEMMA StoreCounts ==
    ASSUME MemInv, TableInv, CountInv, NoTails, Cells >= 2, Stores, Reads, Reads'
    PROVE  Table!TableNext \/ UNCHANGED tableVars
<1>1. /\ state' = state /\ intrablock' = intrablock /\ interblock' = interblock /\ pkt' = pkt
      /\ blk' = blk /\ wb' = wb /\ hash = 0 /\ state \in WriteWaits \cup {"CHECK_A_W"}
      /\ CurrentNow' = CurrentNow
  BY DEF Stores, vars, place, work, TableInv, WorkInv, CurrentNow, Share
<1>2. CASE state \in Resting
  <2>1. Zeroing /\ Zeroing'
    BY <1>1, <1>2 DEF Resting, WriteWaits, Zeroing
  <2>2. TableNow' = TableNow
    BY <2>1, SameTable DEF CountOf
  <2>3. Uncounted' = Uncounted
    BY <1>1, <1>2 DEF Reads
  <2> QED
    BY <1>1, <2>2, <2>3 DEF tableVars
<1> SUFFICES ASSUME state \notin Resting PROVE Table!TableNext \/ UNCHANGED tableVars
  BY <1>2
<1>3. Busy /\ ~Zeroing /\ ~Zeroing'
  BY <1>1 DEF Busy, Zeroing, Resting
<1>4. /\ CellInv /\ EmptyInv /\ DistinctInv /\ StatInv /\ HeldInv /\ WorkInv /\ CleanInv
      /\ IInv /\ intrablock \in Offset /\ interblock \in Cell /\ interblock \in {0, 1}
      /\ pkt \in Packets /\ intrablock \in Int
  BY <1>3, LayoutFacts
     DEF MemInv, IInv, TypeOK, PlaceType, TableInv, CountInv, WorkInv, CellInv, Offset
<1>5. /\ \A c \in {0, 1}, w \in Offset :
            c # interblock \/ w # intrablock => Word0(c, w)' = Word0(c, w)
      /\ Word0(interblock, intrablock)' = wb.dat
  <2>1. 0 \in Cell /\ 1 \in Cell
    BY LayoutFacts DEF Cell
  <2> QED
    BY <1>1, <2>1, StoredWords
<1>6. ASSUME NEW n \in NamesAsked, NEW j \in {0, 1}, j # interblock
      PROVE  Has(j, n)' = Has(j, n) /\ \A s \in StatSlots : Word0(j, s)' = Word0(j, s)
  BY <1>5, <1>6, WordPlaces DEF Has, Holds
<1>7. CASE state = "WRITE_QNAME_WAIT"
  <2>1. intrablock \in 0 .. NameWords - 1
    BY <1>3, <1>7, StorePlaces DEF Busy
  <2>2. Word0(interblock, InUse) = 0 /\ Word0(interblock, InUse)' = 0
    <3>1. Word0(interblock, InUse) = 0
      BY <1>4, <1>7 DEF EmptyInv, Writing
    <3>2. InUse # intrablock
      BY <2>1, WordPlaces
    <3>3. PICK k \in {0, 1} : k = interblock
      BY <1>4
    <3>4. Word0(k, InUse)' = Word0(k, InUse)
      BY <1>5, <3>2, <3>3, WordPlaces
    <3> QED
      BY <1>1, <3>1, <3>3, <3>4 DEF Word0
  <2>3. ASSUME NEW n \in NamesAsked, NEW c \in DOMAIN SlotOf
        PROVE  CountOf(n, SlotOf[c])' = CountOf(n, SlotOf[c])
    <3>1. ~Has(interblock, n) /\ ~Has(interblock, n)'
      BY <2>2 DEF Has
    <3>2. CASE interblock = 0
      <4>1. ~Has(0, n) /\ ~Has(0, n)'
        BY <1>1, <3>1, <3>2 DEF Has, Holds, Word0
      <4>2. Has(1, n)' = Has(1, n) /\ Word0(1, SlotOf[c])' = Word0(1, SlotOf[c])
        BY <1>6, <3>2, SlotFacts
      <4> QED
        BY <1>3, <4>1, <4>2 DEF CountOf
    <3>3. CASE interblock = 1
      <4>1. ~Has(1, n) /\ ~Has(1, n)'
        BY <1>1, <3>1, <3>3 DEF Has, Holds, Word0
      <4>2. Has(0, n)' = Has(0, n) /\ Word0(0, SlotOf[c])' = Word0(0, SlotOf[c])
        BY <1>6, <3>3, SlotFacts
      <4> QED
        BY <1>3, <4>1, <4>2 DEF CountOf
    <3> QED
      BY <1>4, <3>2, <3>3
  <2>4. Uncounted' = Uncounted
    BY <1>1, <1>7 DEF Reads, Writing
  <2> QED
    BY <1>1, <2>3, <2>4, SameTable DEF tableVars
<1>8. CASE state = "SET_IN_USE_W"
  <2>1. intrablock = InUse
    BY <1>3, <1>8, StorePlaces DEF Busy
  <2>2. PICK k \in {0, 1} : k = interblock
    BY <1>4
  <2>3. \A s \in StatSlots : Word0(k, s) = 0 /\ Word0(k, s)' = 0
    <3>1. \A s \in StatSlots : Word0(k, s) = 0
      BY <1>4, <1>8, <2>2 DEF EmptyInv, Marking
    <3>2. \A s \in StatSlots : s \in Offset /\ s # intrablock
      BY <2>1, WordPlaces
    <3> QED
      BY <1>5, <2>2, <3>1, <3>2
  <2>4. k = 0 => Word0(1, InUse) = 0 /\ Word0(1, InUse)' = 0
    <3> SUFFICES ASSUME k = 0 PROVE Word0(1, InUse) = 0 /\ Word0(1, InUse)' = 0
      OBVIOUS
    <3>1. parsed_pkts = 0
      BY <1>4, <1>8, <2>2 DEF CellInv, Marking
    <3>2. [row |-> 0, cell |-> 1, word |-> InUse] \in Address
      BY WordPlaces, LayoutFacts DEF Address, Row, Cell
    <3>3. Word0(1, InUse) = 0
      BY <1>3, <1>4, <3>1, <3>2 DEF CleanInv, Word0
    <3> QED
      BY <1>5, <2>2, <3>3, WordPlaces
  <2>5. ASSUME NEW n \in NamesAsked, NEW c \in DOMAIN SlotOf
        PROVE  CountOf(n, SlotOf[c])' = CountOf(n, SlotOf[c])
    <3>1. CASE k = 0
      <4>1. ~Has(1, n) /\ ~Has(1, n)'
        BY <2>4, <3>1 DEF Has
      <4>2. Word0(0, SlotOf[c]) = 0 /\ Word0(0, SlotOf[c])' = 0
        BY <2>3, <3>1, SlotFacts
      <4> QED
        BY <1>3, <4>1, <4>2 DEF CountOf
    <3>2. CASE k = 1
      <4>1. Has(0, n)' = Has(0, n) /\ Word0(0, SlotOf[c])' = Word0(0, SlotOf[c])
        BY <1>6, <2>2, <3>2, SlotFacts
      <4>2. Word0(1, SlotOf[c]) = 0 /\ Word0(1, SlotOf[c])' = 0
        BY <2>3, <3>2, SlotFacts
      <4> QED
        BY <1>3, <4>1, <4>2 DEF CountOf
    <3> QED
      BY <3>1, <3>2
  <2>6. Uncounted' = Uncounted
    BY <1>1, <1>8 DEF Reads, Marking
  <2> QED
    BY <1>1, <2>5, <2>6, SameTable DEF tableVars
<1>9. ASSUME intrablock \notin {InUse} \cup 0 .. NameWords - 1, NEW n \in NamesAsked
      PROVE  Has(0, n)' = Has(0, n) /\ Has(1, n)' = Has(1, n)
  <2>1. ASSUME NEW j \in {0, 1}, NEW v \in {InUse} \cup 0 .. NameWords - 1
        PROVE  Word0(j, v)' = Word0(j, v)
    BY <1>5, <1>9, WordPlaces
  <2> QED
    BY <2>1 DEF Has, Holds
<1>10. CASE state = "UPDATE_STATS_W"
  <2>1. intrablock \in StatSlots \ {QHosts}
    BY <1>3, <1>10, StorePlaces DEF Busy
  <2>2. PICK c \in DOMAIN SlotOf : SlotOf[c] = intrablock
    BY <2>1, SlotFacts
  <2>3. PICK k \in {0, 1} : k = interblock
    BY <1>4
  <2>4. intrablock \notin {InUse} \cup 0 .. NameWords - 1
    BY <1>4, <2>1, WordPlaces
  <2>5. ASSUME NEW j \in {0, 1}, NEW d \in DOMAIN SlotOf, j # k \/ d # c
        PROVE  Word0(j, SlotOf[d])' = Word0(j, SlotOf[d])
    BY <1>5, <2>2, <2>3, <2>5, SlotFacts
  <2>6. Word0(k, SlotOf[c])' = wb.dat
    BY <1>1, <1>5, <2>2, <2>3 DEF Word0
  <2>7. CASE Word0(k, SlotOf[c]) = wb.dat
    <3>1. \A j \in {0, 1} : \A d \in DOMAIN SlotOf :
             Word0(j, SlotOf[d])' = Word0(j, SlotOf[d])
      BY <2>5, <2>6, <2>7
    <3>2. \A n \in NamesAsked : \A d \in DOMAIN SlotOf :
             CountOf(n, SlotOf[d])' = CountOf(n, SlotOf[d])
      BY <1>3, <1>9, <2>4, <3>1 DEF CountOf
    <3>3. Uncounted' = Uncounted
      BY <1>1, <1>5, <1>10, <2>2, <2>3, <2>7 DEF Reads
    <3> QED
      BY <1>1, <3>2, <3>3, SameTable DEF tableVars
  <2>8. CASE Word0(k, SlotOf[c]) # wb.dat
    <3>1. Holds(k, pkt.name) /\ Has(k, pkt.name)
      BY <1>4, <1>10, <2>3 DEF HeldInv, Has, Counting
    <3>2. pkt.name \in NamesAsked
      BY <1>4 DEF NamesAsked
    <3>3. k = 1 => ~Has(0, pkt.name)
      <4>1. Word0(0, InUse) = 1 /\ Word0(1, InUse) = 1 =>
               \E w \in 0 .. NameWords - 1 : Word0(0, w) # Word0(1, w)
        BY <1>3, <1>4 DEF DistinctInv
      <4> QED
        BY <3>1, <4>1 DEF Has, Holds
    <3>4. \A n \in NamesAsked : n # pkt.name => ~Has(k, n)
      <4> SUFFICES ASSUME NEW n \in NamesAsked, Has(k, n) PROVE n = pkt.name
        OBVIOUS
      <4>1. n \in Name /\ pkt.name \in Name
        <5>1. \A p \in Packets : p.name \in Name
          BY PacketAssumption DEF Packet
        <5> QED
          BY <1>4, <5>1 DEF NamesAsked
      <4> QED
        BY <3>1, <4>1, NameInCell DEF Has
    <3>5. CountOf(pkt.name, SlotOf[c]) = Word0(k, SlotOf[c])
      BY <1>3, <3>1, <3>3 DEF CountOf
    <3>6. CountOf(pkt.name, SlotOf[c])' = wb.dat
      <4>1. PICK m \in NamesAsked : m = pkt.name /\ m = pkt'.name
        BY <1>1, <3>2
      <4>2. Has(k, m)' /\ (k = 1 => ~Has(0, m)')
        BY <1>9, <2>4, <3>1, <3>3, <4>1
      <4>3. CountOf(m, SlotOf[c])' = wb.dat
        BY <1>3, <2>6, <4>2 DEF CountOf
      <4> QED
        BY <4>1, <4>3 DEF CountOf, Has, Holds
    <3>7. wb.dat = (Word0(k, SlotOf[c]) + Share(pkt)[c]) % (Half * Half)
      <4>1. wb.dat = NewStat(SlotOf[c])
        BY <1>4, <1>10, <2>2 DEF IInv, DataInv
      <4>2. Word0(k, SlotOf[c]) = blk[SlotOf[c]]
        BY <1>4, <1>10, <2>2, <2>3, <2>8 DEF StatInv
      <4>3. state \in BeforeRecords
        BY <1>10 DEF BeforeRecords
      <4> QED
        BY <1>4, <4>1, <4>2, <4>3, NewShare
    <3>8. ASSUME NEW n \in NamesAsked, NEW d \in DOMAIN SlotOf, n # pkt.name \/ d # c
          PROVE  CountOf(n, SlotOf[d])' = CountOf(n, SlotOf[d])
      <4>1. Has(0, n)' = Has(0, n) /\ Has(1, n)' = Has(1, n)
        BY <1>9, <2>4
      <4>2. CASE d # c
        <5>1. /\ Word0(0, SlotOf[d])' = Word0(0, SlotOf[d])
              /\ Word0(1, SlotOf[d])' = Word0(1, SlotOf[d])
          BY <2>5, <4>2
        <5> QED
          BY <1>3, <4>1, <5>1 DEF CountOf
      <4>3. CASE n # pkt.name
        <5>1. ~Has(k, n)
          BY <3>4, <4>3
        <5>2. k = 0 => Word0(1, SlotOf[d])' = Word0(1, SlotOf[d])
          BY <2>5
        <5>3. k = 1 => Word0(0, SlotOf[d])' = Word0(0, SlotOf[d])
          BY <2>5
        <5> QED
          BY <1>3, <4>1, <5>1, <5>2, <5>3 DEF CountOf
      <4> QED
        BY <3>8, <4>2, <4>3
    <3>9. c \in Uncounted /\ Uncounted' = Uncounted \ {c}
      <4>1. Uncounted = {d \in DOMAIN SlotOf :
                            \/ SlotOf[d] > intrablock
                            \/ /\ SlotOf[d] = intrablock
                               /\ Word0(interblock, intrablock) # wb.dat}
        BY <1>10 DEF Reads
      <4>2. Uncounted' = {d \in DOMAIN SlotOf :
                             \/ SlotOf[d] > intrablock
                             \/ /\ SlotOf[d] = intrablock
                                /\ wb.dat # wb.dat}
        BY <1>1, <1>5, <1>10 DEF Reads
      <4>3. Word0(interblock, intrablock) # wb.dat
        BY <2>2, <2>3, <2>8
      <4>4. \A d \in DOMAIN SlotOf : SlotOf[d] \in Int /\ (SlotOf[d] = intrablock <=> d = c)
        BY <2>2, SlotFacts, WordPlaces
      <4> QED
        BY <1>4, <4>1, <4>2, <4>3, <4>4
    <3> QED
      BY <1>1, <1>4, <3>5, <3>6, <3>7, <3>8, <3>9, Adds
  <2> QED
    BY <2>7, <2>8
<1>11. CASE state \notin {"WRITE_QNAME_WAIT", "SET_IN_USE_W", "UPDATE_STATS_W"}
  <2>1. intrablock = QHosts \/ intrablock > CNameCount
    BY <1>3, <1>11, StorePlaces DEF Busy
  <2>2. \A c \in DOMAIN SlotOf : SlotOf[c] \in Offset /\ SlotOf[c] # intrablock
    <3>1. \A c \in DOMAIN SlotOf :
             SlotOf[c] \in Int /\ SlotOf[c] <= CNameCount /\ SlotOf[c] # QHosts
      BY SlotFacts, WordPlaces
    <3> QED
      BY <1>4, <2>1, <3>1, SlotFacts, WordPlaces
  <2>3. intrablock \notin {InUse} \cup 0 .. NameWords - 1
    <3>1. QHosts > InUse /\ CNameCount > InUse /\ InUse = NameWords /\ InUse \in Int
          /\ QHosts \in Int /\ CNameCount \in Int
      BY LayoutFacts DEF QHosts, CNameCount, InUse
    <3> QED
      BY <1>4, <2>1, <3>1
  <2>4. \A n \in NamesAsked : \A c \in DOMAIN SlotOf :
           CountOf(n, SlotOf[c])' = CountOf(n, SlotOf[c])
    <3>1. \A j \in {0, 1} : \A c \in DOMAIN SlotOf : Word0(j, SlotOf[c])' = Word0(j, SlotOf[c])
      BY <1>5, <2>2
    <3> QED
      BY <1>3, <1>9, <2>3, <3>1 DEF CountOf
  <2>5. Uncounted' = Uncounted
    <3>1. state \in Later
      BY <1>1, <1>11
         DEF Later, States, WaitStates, ReadWaits, WriteWaits, Resting, Looking, Writing,
             Marking, Counting
    <3> QED
      BY <1>1, <3>1 DEF Reads
  <2> QED
    BY <1>1, <2>4, <2>5, SameTable DEF tableVars
<1> QED
  BY <1>7, <1>8, <1>10, <1>11

-----------------------------------------------------------------------------
(* The machine moves.                                                      *)

(* The statistics end with the last one, a search ends with the last cell, *)
(* and the memory is zeroed after an offload.                              *)
LEMMA EndEdge ==
    ASSUME MemInv, MachineStep
    PROVE  /\ state \in Counting /\ state' \notin Counting =>
                 state = "UPDATE_STATS_W" /\ ack /\ intrablock = CNameCount
           /\ state \in Looking \cup Writing \cup Marking /\ state' \in Resting =>
                 state = "CHECK_NAME_WAIT" /\ interblock = Cells - 1
           /\ state' = "ZERO" => state \in Resting
<1> USE DEF Counting, Looking, Writing, Marking, Resting, WaitStates, ReadWaits, WriteWaits
<1>1. CASE Rest \/ Take \/ Hash
  BY <1>1 DEF Rest, Take, Hash, IdleQuiet, Capture, HashDone, HashBusy, Goto
<1>2. CASE Requests
  BY <1>2
     DEF Requests, CheckCells, CheckName, ReadStats, CheckA, CheckAAAA, CheckCName, CheckQHost,
         ReadQHostStat, WriteQName, SetInUse, UpdateStats, AppendAAAA, AppendCName,
         WriteQHost, UpdateQHostStat, AppendA, Request
<1>3. CASE ZeroWord \/ IdleOffload
  BY <1>3 DEF ZeroWord, IdleOffload, Goto
<1>4. CASE Unanswered
  BY <1>4 DEF Unanswered, Wait, Serve, OffloadByte, Goto, vars
<1>5. CASE ack /\ Answers(answer)
  <2>1. CASE FindAnswers(answer)
    BY <2>1
       DEF FindAnswers, AnswerCheckCells, AnswerCheckName, AnswerWriteQName, AnswerSetInUse,
           Goto, Overflow
  <2>2. CASE StatAnswers(answer)
    BY <1>5, <2>2
       DEF StatAnswers, AnswerReadStats, AnswerUpdateStats, AfterStats, Goto, Overflow,
           StartAAAA, StartCName, StartQHost
  <2>3. CASE AAnswers(answer)
    BY <2>3
       DEF AAnswers, AnswerCheckA, AnswerAppendA, AfterA, Goto, Overflow, StartAAAA,
           StartCName, StartQHost
  <2>4. CASE AAAAAnswers(answer)
    BY <2>4
       DEF AAAAAnswers, AnswerCheckAAAA, AnswerAppendAAAA, Goto, Overflow, StartAAAA,
           StartCName, StartQHost
  <2>5. CASE CNameAnswers(answer)
    BY <2>5
       DEF CNameAnswers, AnswerCheckCName, AnswerAppendCName, Goto, Overflow, StartCName,
           StartQHost
  <2>6. CASE HostAnswers(answer)
    BY <2>6
       DEF HostAnswers, AnswerCheckQHost, AnswerWriteQHost, AnswerReadQHostStat,
           AnswerUpdateQHostStat, Goto, Overflow
  <2>7. CASE AnswerOffloadLast \/ AnswerZero
    BY <2>7 DEF AnswerOffloadLast, AnswerZero, Goto
  <2> QED
    BY <1>5, <2>1, <2>2, <2>3, <2>4, <2>5, <2>6, <2>7 DEF Answers
<1>6. CASE ack /\ \E rdy \in UartReady : AnswerOffloadWord(answer, rdy)
  BY <1>6 DEF AnswerOffloadWord, Goto
<1> QED
  BY <1>1, <1>2, <1>3, <1>4, <1>5, <1>6 DEF MachineStep, Ask, Answered

(* A move of the machine begins or ends the count of a packet, clears the  *)
(* table, or finds a counter that the write will not change.               *)
LEMMA MoveCounts ==
    ASSUME MemInv, TableInv, CountInv, NoTails, Cells >= 2, MachineStep, Flow, mem' = mem,
           Reads, Reads'
    PROVE  Table!TableNext \/ UNCHANGED tableVars
<1>1. /\ IInv /\ WorkInv /\ AccessInv /\ hash = 0 /\ StatInv /\ HeldInv /\ DistinctInv
      /\ CellInv /\ SearchInv /\ intrablock \in Int
  BY DEF MemInv, TableInv, WorkInv, CountInv, IInv, TypeOK, PlaceType, Offset
<1>2. /\ \A k, w : Word0(k, w)' = Word0(k, w)
      /\ \A k, n : Has(k, n)' = Has(k, n)
  BY DEF Word0, Has, Holds
<1>3. (Zeroing' <=> Zeroing) => TableNow' = TableNow
  <2> SUFFICES ASSUME Zeroing' <=> Zeroing, NEW n \in NamesAsked, NEW c \in DOMAIN SlotOf
               PROVE  CountOf(n, SlotOf[c])' = CountOf(n, SlotOf[c])
    BY SameTable
  <2> QED
    BY <1>2 DEF CountOf
<1>4. /\ state \notin Resting /\ state' \notin Resting /\ pkt' = pkt =>
            TableNow' = TableNow /\ CurrentNow' = CurrentNow
      /\ state \in Resting /\ state' \in Resting => CurrentNow' = CurrentNow
  BY <1>3 DEF CurrentNow, Share, Zeroing, Resting
<1>5. CASE Idles
  BY <1>3, <1>4, <1>5 DEF Idles, Resting, Zeroing, Reads, tableVars
<1>6. CASE Enters
  <2>1. state \in Resting /\ state' \notin Resting /\ pkt' \in Packets
    BY <1>6 DEF Enters, Resting
  <2>2. Uncounted' = DOMAIN SlotOf
    BY <1>6 DEF Enters, Looking, Reads
  <2>3. TableNow' = TableNow
    BY <1>3, <1>6 DEF Enters, Zeroing
  <2> QED
    BY <2>1, <2>2, <2>3, Begins
<1>7. CASE Looks \/ Chooses \/ Finds \/ Names
  <2>1. /\ state \in Looking \cup Writing \cup Marking
        /\ state' \in Looking \cup Writing \cup Marking \cup {"READ_STATS", "READ_STATS_W"}
        /\ pkt' = pkt
    BY <1>7 DEF Looks, Chooses, Finds, Names, Same, Looking, Writing, Marking
  <2>2. state \notin Resting /\ state' \notin Resting
    BY <2>1 DEF Looking, Writing, Marking, Resting
  <2>3. Uncounted' = Uncounted
    BY <2>1 DEF Reads
  <2> QED
    BY <1>4, <2>1, <2>2, <2>3 DEF tableVars
<1>8. CASE Counts
  <2>1. /\ state \in Counting /\ state' \in Counting /\ pkt' = pkt /\ interblock' = interblock
        /\ state \notin Resting /\ state' \notin Resting
    BY <1>8 DEF Counts, Same, Counting, Resting
  <2>2. TableNow' = TableNow /\ CurrentNow' = CurrentNow
    BY <1>4, <2>1
  <2>3. \A d \in DOMAIN SlotOf : /\ SlotOf[d] \in Int /\ SlotOf[d] # QHosts
                                 /\ SlotOf[d] >= QueryCount
    BY SlotFacts, WordPlaces DEF StatSlots
  <2>4. CASE ReadsStat
    <3>1. Uncounted = DOMAIN SlotOf
      BY <2>4 DEF ReadsStat, Reads
    <3>2. Uncounted' = DOMAIN SlotOf
      <4>1. CASE state' = "READ_STATS"
        BY <4>1 DEF Reads
      <4>2. CASE state' = "UPDATE_STATS" /\ intrablock' = QueryCount
        <5>1. Uncounted' = {c \in DOMAIN SlotOf : SlotOf[c] >= QueryCount}
          BY <4>2 DEF Reads
        <5> QED
          BY <2>3, <5>1
      <4> QED
        BY <2>4, <4>1, <4>2 DEF ReadsStat
    <3> QED
      BY <2>2, <3>1, <3>2 DEF tableVars
  <2>5. CASE MovesOn
    <3>1. PICK i \in StatSlots \ {QHosts} : i = intrablock
      BY <1>1, <2>5 DEF MovesOn, IInv, PositionInv
    <3>2. Word0(interblock, intrablock) = wb.dat
      BY <1>1, <2>5, AckFacts DEF MovesOn, WriteWaits, Carried
    <3>3. Uncounted = {c \in DOMAIN SlotOf : SlotOf[c] > i}
      BY <2>5, <3>1, <3>2 DEF MovesOn, Reads
    <3>4. Uncounted' = {c \in DOMAIN SlotOf : SlotOf[c] >= NextStat(i)}
      BY <2>5, <3>1 DEF MovesOn, Reads
    <3>5. i \in Int /\ NameWords \in Nat
      BY <3>1, WordPlaces
    <3>6. \A d \in DOMAIN SlotOf : SlotOf[d] > i <=> SlotOf[d] >= NextStat(i)
      BY <2>3, <3>5 DEF NextStat, Resolved, QHosts, ACount
    <3> QED
      BY <2>2, <3>3, <3>4, <3>6 DEF tableVars
  <2>6. CASE Holding /\ state' = state
    <3>1. Uncounted' = Uncounted
      <4>1. Word0(interblock, intrablock)' = Word0(interblock, intrablock)
        BY <2>1, <2>6 DEF Holding, Word0
      <4> QED
        BY <2>1, <2>6, <4>1 DEF Holding, Reads, Counting
    <3> QED
      BY <2>2, <3>1 DEF tableVars
  <2>7. CASE Holding /\ state = "READ_STATS" /\ state' = "READ_STATS_W"
    BY <2>2, <2>7 DEF Reads, tableVars
  <2>8. CASE Holding /\ state = "UPDATE_STATS" /\ state' = "UPDATE_STATS_W"
    <3>1. /\ intrablock' = intrablock /\ wb'.dat = wb.dat
          /\ Word0(interblock, intrablock)' = Word0(interblock, intrablock)
      BY <2>1, <2>8 DEF Holding, Word0
    <3>2. PICK c \in DOMAIN SlotOf : SlotOf[c] = intrablock
      BY <1>1, <2>8, SlotFacts DEF IInv, PositionInv
    <3>3. Uncounted = {d \in DOMAIN SlotOf : SlotOf[d] >= intrablock}
      BY <2>8 DEF Reads
    <3>4. Uncounted' = {d \in DOMAIN SlotOf :
                           \/ SlotOf[d] > intrablock
                           \/ /\ SlotOf[d] = intrablock
                              /\ Word0(interblock, intrablock) # wb.dat}
      BY <2>8, <3>1 DEF Reads
    <3>5. \A d \in DOMAIN SlotOf : SlotOf[d] = intrablock <=> d = c
      BY <3>2, SlotFacts
    <3>6. CASE Word0(interblock, intrablock) # wb.dat
      <4>1. Uncounted' = Uncounted
        BY <1>1, <2>3, <3>3, <3>4, <3>6
      <4> QED
        BY <2>2, <4>1 DEF tableVars
    <3>7. CASE Word0(interblock, intrablock) = wb.dat
      <4>1. c \in Uncounted /\ Uncounted' = Uncounted \ {c}
        BY <1>1, <2>3, <3>2, <3>3, <3>4, <3>5, <3>7
      <4>2. PICK k \in {0, 1} : k = interblock
        BY <1>1, <2>1 DEF CellInv, Busy
      <4>3. Has(k, pkt.name)
        BY <1>1, <2>1, <4>2 DEF HeldInv, Has
      <4>4. k = 1 => ~Has(0, pkt.name)
        <5>1. Word0(0, InUse) = 1 /\ Word0(1, InUse) = 1 =>
                 \E w \in 0 .. NameWords - 1 : Word0(0, w) # Word0(1, w)
          BY <1>1, <2>8 DEF DistinctInv, Zeroing
        <5> QED
          BY <4>3, <5>1 DEF Has, Holds
      <4>5. CountOf(pkt.name, SlotOf[c]) = wb.dat
        BY <2>8, <3>2, <3>7, <4>2, <4>3, <4>4 DEF CountOf, Zeroing
      <4>6. wb.dat = (wb.dat + Share(pkt)[c]) % (Half * Half)
        <5>1. wb.dat = NewStat(SlotOf[c])
          BY <1>1, <2>8, <3>2 DEF IInv, DataInv
        <5>2. blk[SlotOf[c]] = wb.dat
          BY <1>1, <2>8, <3>2, <3>7 DEF StatInv
        <5>3. state \in BeforeRecords
          BY <2>8 DEF BeforeRecords
        <5> QED
          BY <1>1, <5>1, <5>2, <5>3, NewShare
      <4>7. \A n \in NamesAsked : \A d \in DOMAIN SlotOf :
               CountOf(n, SlotOf[d])' = CountOf(n, SlotOf[d])
        BY <1>2, <2>8 DEF CountOf, Zeroing
      <4>8. pkt \in Packets /\ pkt.name \in NamesAsked
        BY <1>1, <2>1 DEF WorkInv, Busy, NamesAsked
      <4>9. CountOf(pkt.name, SlotOf[c])' = CountOf(pkt.name, SlotOf[c])
        <5>1. PICK m \in NamesAsked : m = pkt.name /\ m = pkt'.name
          BY <2>1, <4>8
        <5>2. CountOf(m, SlotOf[c])' = CountOf(m, SlotOf[c])
          BY <4>7
        <5> QED
          BY <5>1, <5>2 DEF CountOf, Has, Holds
      <4> QED
        BY <2>1, <4>1, <4>5, <4>6, <4>7, <4>8, <4>9, Adds
    <3> QED
      BY <3>6, <3>7
  <2> QED
    BY <2>1, <2>4, <2>5, <2>6, <2>7, <2>8, StatEdge DEF StatFlow, Holding
<1>9. state \in Counting /\ state' \notin Counting => Uncounted = {}
  <2> SUFFICES ASSUME state \in Counting, state' \notin Counting PROVE Uncounted = {}
    OBVIOUS
  <2>1. state = "UPDATE_STATS_W" /\ ack /\ intrablock = CNameCount
    BY EndEdge
  <2>2. Word0(interblock, intrablock) = wb.dat
    BY <1>1, <2>1, AckFacts DEF WriteWaits, Carried
  <2>3. Uncounted = {c \in DOMAIN SlotOf : SlotOf[c] > CNameCount}
    BY <2>1, <2>2 DEF Reads
  <2>4. \A c \in DOMAIN SlotOf : SlotOf[c] <= CNameCount /\ SlotOf[c] \in Int
    BY SlotFacts, WordPlaces
  <2> QED
    BY <2>3, <2>4, WordPlaces
<1>10. CASE Works
  <2>1. /\ state \in Counting \cup Later /\ state' \in Later /\ pkt' = pkt
        /\ state \notin Resting /\ state' \notin Resting /\ state' \notin Counting
    BY <1>10 DEF Works, Same, Later, Counting, Resting
  <2>2. Uncounted = {} /\ Uncounted' = {}
    BY <1>9, <2>1 DEF Reads
  <2> QED
    BY <1>4, <2>1, <2>2 DEF tableVars
<1>11. CASE Leaves
  <2>1. state \in Later /\ state' = "IDLE" /\ state \notin Resting /\ state' \in Resting
    BY <1>11 DEF Leaves, Later, Resting
  <2>2. Uncounted = {} /\ Uncounted' = {}
    BY <2>1 DEF Reads
  <2>3. TableNow' = TableNow
    BY <1>3, <2>1 DEF Zeroing, Resting
  <2> QED
    BY <2>1, <2>2, <2>3, Finishes
<1>12. CASE Sleeps
  <2>1. /\ state' \in {"OFFLOAD", "ZERO"} /\ state' \in Resting /\ ~Zeroing
        /\ state' \notin Counting
    BY <1>12 DEF Sleeps, Resting, Zeroing, Counting
  <2>2. Uncounted' = {}
    BY <2>1 DEF Reads
  <2>3. CASE state \in Resting
    <3>1. Uncounted = {}
      BY <2>3 DEF Reads
    <3>2. CASE state' = "OFFLOAD"
      <4>1. TableNow' = TableNow
        BY <1>3, <2>1, <3>2 DEF Zeroing
      <4> QED
        BY <1>4, <2>1, <2>2, <2>3, <3>1, <4>1 DEF tableVars
    <3>3. CASE state' = "ZERO"
      <4>1. \A n \in NamesAsked : \A c \in DOMAIN SlotOf : CountOf(n, SlotOf[c])' = 0
        BY <3>3 DEF CountOf, Zeroing
      <4> QED
        BY <2>1, <2>2, <2>3, <3>1, <4>1, Clears
    <3> QED
      BY <2>1, <3>2, <3>3
  <2>4. CASE state \notin Resting
    <3>1. state' = "OFFLOAD"
      BY <2>1, <2>4, EndEdge
    <3>2. state \in Counting \cup Later
      <4>1. state \in Looking \cup Writing \cup Marking \cup Counting \cup Later
        BY <1>1, <2>4 DEF Later, IInv, TypeOK, PlaceType
      <4>2. state \notin Looking \cup Writing \cup Marking
        <5> SUFFICES ASSUME state \in Looking \cup Writing \cup Marking PROVE FALSE
          OBVIOUS
        <5>1. state = "CHECK_NAME_WAIT" /\ interblock = Cells - 1
          BY <2>1, EndEdge
        <5> QED
          BY <1>1, <5>1, LayoutFacts DEF SearchInv
      <4> QED
        BY <4>1, <4>2
    <3>3. Uncounted = {}
      BY <1>9, <2>1, <3>2 DEF Reads
    <3>4. TableNow' = TableNow
      BY <1>3, <2>1, <3>1 DEF Zeroing
    <3> QED
      BY <2>1, <2>2, <2>4, <3>3, <3>4, Finishes
  <2> QED
    BY <2>3, <2>4
<1>13. CASE Zeroes
  <2>1. /\ Zeroing /\ state \in Resting /\ state' \in Resting
        /\ state' \in {"ZERO", "ZERO_WAIT", "IDLE"}
    BY <1>13 DEF Zeroes, Zeroing, Resting
  <2>2. Uncounted = {} /\ Uncounted' = {}
    BY <2>1 DEF Reads
  <2>3. TableNow' = TableNow
    <3>1. CASE state' = "IDLE"
      <4>1. \A a \in Address : mem[a] = 0
        BY <1>13, <3>1, ZeroStep
      <4>2. Word0(0, InUse) = 0 /\ Word0(1, InUse) = 0
        <5>1. /\ [row |-> 0, cell |-> 0, word |-> InUse] \in Address
              /\ [row |-> 0, cell |-> 1, word |-> InUse] \in Address
          BY WordPlaces, LayoutFacts DEF Address, Row, Cell
        <5> QED
          BY <4>1, <5>1 DEF Word0
      <4>3. \A n : ~Has(0, n)' /\ ~Has(1, n)'
        BY <1>2, <4>2 DEF Has
      <4>4. \A n \in NamesAsked : \A c \in DOMAIN SlotOf :
               CountOf(n, SlotOf[c])' = CountOf(n, SlotOf[c])
        BY <2>1, <4>3 DEF CountOf
      <4> QED
        BY <4>4, SameTable
    <3>2. CASE state' # "IDLE"
      BY <1>3, <2>1, <3>2 DEF Zeroing
    <3> QED
      BY <3>1, <3>2
  <2> QED
    BY <1>4, <2>1, <2>2, <2>3 DEF tableVars
<1> QED
  BY <1>5, <1>6, <1>7, <1>8, <1>10, <1>11, <1>12, <1>13 DEF Flow

(* The storage machine and its memory count like a table: each packet is   *)
(* added once to each counter of its own name and to no other, in a memory *)
(* that holds two names between two zeroings, whatever it is written.      *)
THEOREM CountsAsTable ==
    ASSUME OffloadAfter <= 2, SlotsFit, BothFit, NoTails, Cells >= 2
    PROVE  MemSpec => CountsLikeATable
<1> DEFINE Inv == MemInv /\ TableInv /\ CountInv
<1>1. MemSpec => []Inv
  BY CountsInvariant
<1>2. Inv => Reads
  BY CellReads DEF TableInv, WorkInv, CountInv
<1>3. MemInit /\ Reads => Table!TableInit
  <2> SUFFICES ASSUME MemInit, Reads PROVE Table!TableInit
    OBVIOUS
  <2>1. state = "IDLE" /\ \A a \in Address : mem[a] = 0
    BY DEF MemInit, Init, ZeroMem
  <2>2. Word0(0, InUse) = 0 /\ Word0(1, InUse) = 0
    <3>1. /\ [row |-> 0, cell |-> 0, word |-> InUse] \in Address
          /\ [row |-> 0, cell |-> 1, word |-> InUse] \in Address
      BY WordPlaces, LayoutFacts DEF Address, Row, Cell
    <3> QED
      BY <2>1, <3>1 DEF Word0
  <2>3. \A n \in NamesAsked : \A c \in DOMAIN SlotOf : Counted(n, c) = 0
    BY <2>2 DEF Reads, CountOf, Has
  <2>4. Uncounted = {}
    BY <2>1 DEF Reads, Resting
  <2> QED
    BY <2>1, <2>3, <2>4, SlotFacts
       DEF Table!TableInit, Table!EmptyTable, Table!NoPacket, Table!Counters
<1>4. Inv /\ Reads /\ Reads' /\ [MemEdge]_memVars =>
         [Table!TableNext]_<<[n \in NamesAsked |-> [c \in DOMAIN SlotOf |-> Counted(n, c)]],
                             IF state \in {"IDLE", "OFFLOAD", "ZERO", "ZERO_WAIT"}
                               THEN [name |-> "none"] ELSE Share(pkt),
                             Uncounted>>
  <2> SUFFICES ASSUME Inv, Reads, Reads', [MemEdge]_memVars
               PROVE  Table!TableNext \/ UNCHANGED tableVars
    BY DEF tableVars, TableNow, CurrentNow, Resting
  <2>1. CASE MemEdge
    <3>1. MachineStep /\ (Stores \/ mem' = mem)
      BY <2>1 DEF MemEdge
    <3>2. CASE Stores
      BY <3>2, StoreCounts
    <3>3. CASE mem' = mem
      BY <3>1, <3>3, MachineFlow, MoveCounts
    <3> QED
      BY <3>1, <3>2, <3>3
  <2>2. CASE UNCHANGED memVars
    BY <2>2
       DEF memVars, vars, place, work, tableVars, TableNow, CurrentNow, Uncounted,
           Counted, CellsOf, StoredName, At, Share
  <2> QED
    BY <2>1, <2>2
<1> QED
  BY <1>1, <1>2, <1>3, <1>4, PTL DEF MemSpec, CountsLikeATable, Table!TableSpec

-----------------------------------------------------------------------------
(* The slots of the AAAA records, and their words.                         *)
Spot          == 0 .. AAAASlots - 1
Base(j)       == AAAABase + j * Quarters
Quad(c, j, q) == Word0(c, Base(j) + q)

(* Every slot from n on is empty; every slot before n begins with a word.  *)
Clear(c, n)     == \A j \in Spot : j >= n => \A q \in 0 .. Quarters - 1 : Quad(c, j, q) = 0
Begun(c, n)     == \A j \in Spot : j < n => Quad(c, j, 0) # 0
Stored(c, r, j) == \A q \in 0 .. Quarters - 1 : Quad(c, j, q) = r[q]

(* Two packets fit between them, with a querying host behind the first,    *)
(* and an address does not begin with a zero word.                         *)
RecordsFit     == 2 * AAAAMax + 1 <= AAAASlots
AddressesBegin == \A p \in Packets : \A i \in 1 .. p.nAAAA : p.aaaa[i][0] # 0

-----------------------------------------------------------------------------
(* Before the AAAA records, at them, and the packet's part in them.        *)
Early     == Writing \cup Marking \cup Counting \cup
             {"CHECK_A", "CHECK_A_W", "APPEND_A", "APPEND_A_W"}
Checking  == {"CHECK_AAAA", "CHECK_AAAA_W"}
Appending == {"APPEND_AAAA", "APPEND_AAAA_W"}

(* The slots that are taken before the packet, before the record that is   *)
(* worked on, and after the packet, if none of its records is there yet.   *)
Start   == IF Fresh THEN 0 ELSE AAAAMax + 1
OwnRoom == Start + (pkt.nAAAA - left.aaaa)
AllRoom == Start + pkt.nAAAA

(* A first packet leaves most slots empty.                                 *)
SpareInv ==
    /\ state \in {"IDLE"} \cup Looking /\ parsed_pkts = 1 => Clear(0, AAAAMax + 1)
    /\ state \in Early => left.aaaa = pkt.nAAAA /\ Clear(interblock, Start)

(* The quarters of the record that slot k has so far.                      *)
PartOf(k) ==
    /\ left.aaaa <= pkt.nAAAA
    /\ intrablock = Base(k) + data_count /\ k <= OwnRoom
    /\ Begun(interblock, k)
    /\ \A q \in 0 .. data_count - 1 : Quad(interblock, k, q) = pkt.aaaa[left.aaaa][q]

(* The search for a record has passed slots in use only, and a record is   *)
(* written behind all records that the packet has there.                   *)
ChecksAt(k) ==
    /\ PartOf(k) /\ Clear(interblock, OwnRoom)
    /\ \A i \in left.aaaa + 1 .. pkt.nAAAA :
          \E j \in Spot : Stored(interblock, pkt.aaaa[i], j) /\ Begun(interblock, j + 1)
AppendsAt(k) ==
    /\ PartOf(k) /\ Clear(interblock, OwnRoom + 1)
    /\ \A i \in left.aaaa + 1 .. pkt.nAAAA :
          \E j \in Spot : j < k /\ Stored(interblock, pkt.aaaa[i], j)
QuadInv ==
    /\ state \in Checking => \E k \in Spot : ChecksAt(k)
    /\ state \in Appending => \E k \in Spot : AppendsAt(k)

(* The querying host goes behind the last record, or to the end of it.     *)
Saved(i) ==
    \E j \in Spot :
       /\ Stored(interblock, pkt.aaaa[i], j)
       /\ state \in Hosting =>
             \/ Base(j) + Quarters - 1 < intrablock
             \/ Base(j) + Quarters - 1 = intrablock /\ state \in {"CHECK_QHOST", "CHECK_QHOST_W"}
SavedInv ==
    /\ state \in CNaming =>
          Clear(interblock, AllRoom) /\ \A i \in 1 .. pkt.nAAAA : Saved(i)
    /\ state \in Hosting \cup HostStat =>
          /\ Clear(interblock, AllRoom + 1)
          /\ \A i \in 1 .. pkt.nAAAA : pkt.aaaa[i][Quarters - 1] # 0 => Saved(i)
    /\ state \in {"CHECK_QHOST", "CHECK_QHOST_W"} => Clear(interblock, AllRoom)
    /\ state \in Hosting => intrablock >= CNameBase \/ intrablock <= Base(AllRoom)

KeptInv == SpareInv /\ QuadInv /\ SavedInv

-----------------------------------------------------------------------------
(* Sizes.                                                                  *)

(* The slots follow one another up to the CNAMEs.                          *)
LEMMA SpotFacts ==
    /\ AAAASlots \in Nat /\ Base(0) = AAAABase /\ Base(AAAASlots) = CNameBase
    /\ Quarters \in Nat \ {0} /\ CNameBase \in Nat /\ AAAABase \in Nat
    /\ \A k \in Nat : Base(k) \in Int /\ Base(k + 1) = Base(k) + Quarters /\ AAAABase <= Base(k)
    /\ \A j, k \in Nat : j < k => Base(j) + Quarters <= Base(k)
<1>1. /\ Quarters \in Nat \ {0} /\ AAAABase \in Nat /\ CNameBase \in Nat /\ AAAABase < CNameBase
      /\ (CNameBase - AAAABase) % Quarters = 0
  BY LayoutFacts, LayoutAssumption
<1>2. CNameBase - AAAABase \in Nat
  BY <1>1
<1>3. /\ CNameBase - AAAABase = AAAASlots * Quarters + ((CNameBase - AAAABase) % Quarters)
      /\ AAAASlots \in Int
  BY <1>1, <1>2, DivMod DEF AAAASlots
<1>4. AAAASlots \in Nat
  BY <1>1, <1>2 DEF AAAASlots
<1>5. AAAASlots * Quarters = CNameBase - AAAABase
  BY <1>1, <1>2, <1>3, <1>4
<1>6. \A a \in Nat : a * Quarters \in Nat /\ (a + 1) * Quarters = a * Quarters + Quarters
  BY <1>1
<1>7. ASSUME NEW a \in Nat, NEW b \in Nat, a <= b PROVE a * Quarters <= b * Quarters
  BY <1>1, <1>7
<1>8. \A k \in Nat : Base(k) \in Int /\ Base(k + 1) = Base(k) + Quarters /\ AAAABase <= Base(k)
  BY <1>1, <1>6 DEF Base
<1>9. ASSUME NEW j \in Nat, NEW k \in Nat, j < k PROVE Base(j) + Quarters <= Base(k)
  <2>1. (j + 1) * Quarters <= k * Quarters
    BY <1>7, <1>9
  <2> QED
    BY <1>1, <1>6, <2>1 DEF Base
<1>10. Base(0) = AAAABase /\ Base(AAAASlots) = CNameBase
  BY <1>1, <1>4, <1>5 DEF Base
<1> QED
  BY <1>1, <1>4, <1>8, <1>9, <1>10

(* Each word of the AAAA records is one quarter of one slot.               *)
LEMMA QuadPlaces ==
    /\ \A j \in Spot, q \in 0 .. Quarters - 1 :
          /\ Base(j) \in Int /\ Base(j) + q \in Offset
          /\ AAAABase <= Base(j) + q /\ Base(j) + q < CNameBase
    /\ \A j, k \in Spot : \A p, q \in 0 .. Quarters - 1 :
          Base(j) + p = Base(k) + q => j = k /\ p = q
    /\ \A j, k \in Spot : j < k => Base(j) + Quarters <= Base(k)
<1>1. /\ Quarters \in Nat \ {0} /\ CNameBase \in Nat /\ AAAABase \in Nat /\ BlockWords \in Nat
      /\ CNameBase < BlockWords /\ AAAASlots \in Nat
  BY SpotFacts, LayoutFacts
<1>2. ASSUME NEW j \in Spot, NEW q \in 0 .. Quarters - 1
      PROVE  /\ Base(j) \in Int /\ Base(j) + q \in Offset
             /\ AAAABase <= Base(j) + q /\ Base(j) + q < CNameBase
  <2>1. j \in Nat /\ j < AAAASlots
    BY <1>1 DEF Spot
  <2>2. Base(j) \in Int /\ AAAABase <= Base(j) /\ Base(j) + Quarters <= CNameBase
    BY <1>1, <2>1, SpotFacts
  <2> QED
    BY <1>1, <2>2 DEF Offset
<1>3. ASSUME NEW j \in Spot, NEW k \in Spot, j < k PROVE Base(j) + Quarters <= Base(k)
  BY <1>3, SpotFacts DEF Spot
<1>4. ASSUME NEW j \in Spot, NEW k \in Spot,
             NEW p \in 0 .. Quarters - 1, NEW q \in 0 .. Quarters - 1, Base(j) + p = Base(k) + q
      PROVE  j = k /\ p = q
  <2>1. j \in Int /\ k \in Int /\ Base(j) \in Int /\ Base(k) \in Int
    BY <1>1, <1>2 DEF Spot
  <2>2. ~(j < k) /\ ~(k < j)
    BY <1>1, <1>3, <1>4, <2>1
  <2>3. j = k
    BY <2>1, <2>2
  <2> QED
    BY <1>1, <1>4, <2>1, <2>3
<1> QED
  BY <1>2, <1>3, <1>4

(* The counts and the records of the packet that is worked on.             *)
LEMMA RecordFacts ==
    ASSUME MemInv, WorkInv, CellInv, RecordsFit, AddressesBegin, Busy
    PROVE  /\ pkt \in Packets /\ pkt.nAAAA \in 0 .. AAAAMax /\ left.aaaa \in 0 .. AAAAMax
           /\ left \in [a : 0 .. AMax + 1, aaaa : 0 .. AAAAMax, cname : 0 .. 3]
           /\ \A i \in 1 .. AAAAMax : pkt.aaaa[i] \in [0 .. Quarters - 1 -> Word]
           /\ \A i \in 1 .. pkt.nAAAA : pkt.aaaa[i][0] # 0
           /\ Start \in Nat /\ AAAAMax \in Nat /\ Start + AAAAMax <= AAAASlots
           /\ interblock \in Cell /\ intrablock \in Int /\ data_count \in Int
<1>1. /\ pkt \in Packets /\ pkt \in Packet
      /\ left \in [a : 0 .. AMax + 1, aaaa : 0 .. AAAAMax, cname : 0 .. 3]
      /\ interblock \in Cell /\ intrablock \in Int /\ data_count \in Int
  BY LayoutFacts
     DEF MemInv, IInv, TypeOK, PlaceType, WorkType, WorkInv, DataCount, Offset
<1>2. AAAAMax \in Nat /\ AAAASlots \in Nat
  BY LayoutFacts, SpotFacts
<1>3. /\ pkt.nAAAA \in 0 .. AAAAMax /\ left.aaaa \in 0 .. AAAAMax
      /\ \A i \in 1 .. AAAAMax : pkt.aaaa[i] \in [0 .. Quarters - 1 -> Word]
  BY <1>1 DEF Packet
<1>4. \A i \in 1 .. pkt.nAAAA : pkt.aaaa[i][0] # 0
  BY <1>1 DEF AddressesBegin
<1>5. Start \in Nat /\ Start + AAAAMax <= AAAASlots
  BY <1>2 DEF Start, RecordsFit
<1> QED
  BY <1>1, <1>2, <1>3, <1>4, <1>5

-----------------------------------------------------------------------------
(* The memory writes a word.                                               *)

(* The CNAMEs of the packet are behind the AAAA records.                   *)
LEMMA CNamesBehind ==
    ASSUME MemInv, FreshInv, AgainInv, state \in CNaming
    PROVE  intrablock >= CNameBase
<1>1. PICK first, last \in Nat : SlotInv(first, last)
  <2>1. Busy
    BY DEF CNaming, Busy, Resting
  <2>2. CASE Fresh
    BY <2>2 DEF FreshInv
  <2>3. CASE ~Fresh
    <3>1. Reach \in Nat /\ Reach + 2 \in Nat
      BY ReachFacts
    <3> QED
      BY <2>1, <2>3, <3>1 DEF AgainInv
  <2> QED
    BY <2>2, <2>3
<1>2. /\ data_count \in 0 .. NameWords - 1 /\ intrablock \in Int
      /\ NameWords \in Nat /\ CNameBase \in Nat
  BY LayoutFacts DEF MemInv, IInv, TypeOK, PlaceType, CNameInv, CNaming, Offset
<1>3. PICK k \in 0 .. last : intrablock + data_count = Top(k)
  BY <1>1 DEF SlotInv, Checks, Appends, CNaming
<1>4. CNameBase + NameWords - 1 <= Top(k) /\ Top(k) \in Int
  BY TopFacts
<1> QED
  BY <1>2, <1>3, <1>4

(* What is said of the slots of a cell depends on their quarters.          *)
LEMMA QuadsSame ==
    ASSUME NEW c, \A j \in Spot, q \in 0 .. Quarters - 1 : Quad(c, j, q)' = Quad(c, j, q)
    PROVE  /\ \A n : /\ Clear(c, n)' = Clear(c, n)
                     /\ Begun(c, n)' = Begun(c, n)
           /\ \A r, j : j \in Spot => Stored(c, r, j)' = Stored(c, r, j)
<1>1. 0 \in 0 .. Quarters - 1
  BY LayoutFacts
<1>2. Spot' = Spot
  BY DEF Spot
<1>3. ASSUME NEW n PROVE Clear(c, n)' = Clear(c, n)
  BY <1>2 DEF Clear
<1>4. ASSUME NEW n PROVE Begun(c, n)' = Begun(c, n)
  BY <1>1, <1>2 DEF Begun
<1>5. ASSUME NEW r, NEW j \in Spot PROVE Stored(c, r, j)' = Stored(c, r, j)
  BY DEF Stored
<1> QED
  BY <1>3, <1>4, <1>5

(* Only the quarter at the position can change.                            *)
LEMMA QuadStored ==
    ASSUME MemInv, hash = 0, Stores, state \notin Resting
    PROVE  \A j \in Spot, q \in 0 .. Quarters - 1 :
              Base(j) + q # intrablock => Quad(interblock, j, q)' = Quad(interblock, j, q)
<1> TAKE j \in Spot, q \in 0 .. Quarters - 1
<1>1. Base(j) + q \in Offset /\ Base(j)' = Base(j) /\ interblock \in Cell
  BY QuadPlaces DEF Base, MemInv, IInv, TypeOK, PlaceType
<1>2. interblock' = interblock
  BY DEF Stores, vars, place
<1> HAVE Base(j) + q # intrablock
<1>3. PICK w \in Offset, c \in Cell : w = Base(j) + q /\ c = interblock
  BY <1>1
<1>4. Word0(c, w)' = Word0(c, w)
  BY <1>3, StoredWords
<1> QED
  BY <1>1, <1>2, <1>3, <1>4 DEF Quad

(* A write keeps the records: it goes to the slot that is next, or to a    *)
(* place that is none, or to the querying host behind them.                *)
LEMMA KeptStored ==
    ASSUME MemInv, TableInv, CountInv, KeptInv, RecordsFit, AddressesBegin, Stores
    PROVE  KeptInv'
<1>1. /\ state' = state /\ data_count' = data_count /\ intrablock' = intrablock
      /\ interblock' = interblock /\ parsed_pkts' = parsed_pkts
      /\ pkt' = pkt /\ left' = left /\ hash = 0
      /\ state \in WriteWaits \cup {"CHECK_A_W"}
  BY DEF Stores, vars, place, work, TableInv, WorkInv
<1> USE DEF KeptInv, SpareInv, QuadInv, SavedInv
<1>2. CASE state \in Resting
  <2>1. state = "ZERO_WAIT" /\ state' = "ZERO_WAIT"
    BY <1>1, <1>2 DEF Resting, WriteWaits
  <2> QED
    BY <2>1
       DEF Looking, Early, Writing, Marking, Counting, Checking, Appending, CNaming, Hosting,
           HostStat
<1> SUFFICES ASSUME state \notin Resting PROVE KeptInv'
  BY <1>2
<1>3. Busy /\ state \notin {"IDLE"} \cup Looking
  BY <1>1 DEF Busy, Resting, Looking, WriteWaits
<1>4. /\ WorkInv /\ CellInv /\ FreshInv /\ AgainInv
      /\ PositionInv /\ NameInv /\ AAAAInv /\ CNameInv /\ RecordsRemain
  BY DEF TableInv, CountInv, MemInv, IInv
<1>5. /\ left.aaaa \in 0 .. AAAAMax /\ pkt.nAAAA \in 0 .. AAAAMax /\ AAAAMax \in Nat
      /\ Start \in Nat /\ intrablock \in Int /\ data_count \in Int
      /\ NameWords \in Nat /\ ABase \in Nat /\ AAAABase \in Nat /\ CNameBase \in Nat
      /\ NameWords + 6 < ABase /\ ABase < AAAABase /\ Quarters \in Nat \ {0}
  BY <1>3, <1>4, RecordFacts, LayoutFacts
<1>6. /\ Start' = Start /\ OwnRoom' = OwnRoom /\ AllRoom' = AllRoom
      /\ \A j : Base(j)' = Base(j)
  BY <1>1 DEF Start, OwnRoom, AllRoom, Fresh, Base
<1>7. CASE intrablock < AAAABase \/ intrablock >= CNameBase
  <2>1. \A j \in Spot, q \in 0 .. Quarters - 1 : Quad(interblock, j, q)' = Quad(interblock, j, q)
    BY <1>1, <1>5, <1>7, QuadPlaces, QuadStored
  <2>2. /\ \A n : /\ Clear(interblock, n)' = Clear(interblock, n)
                  /\ Begun(interblock, n)' = Begun(interblock, n)
        /\ \A r, j : j \in Spot => Stored(interblock, r, j)' = Stored(interblock, r, j)
    BY <1>1, <2>1, QuadsSame
  <2>3. SpareInv'
    BY <1>1, <1>3, <1>6, <2>2
  <2>4. QuadInv'
    BY <1>1, <1>7, <1>4, <1>5 DEF Checking, Appending, AAAAInv, WriteWaits
  <2>5. \A i : Saved(i) => Saved(i)'
    BY <1>1, <1>6, <2>2 DEF Saved, Spot
  <2>6. SavedInv'
    BY <1>1, <1>6, <2>2, <2>5
  <2> QED
    BY <2>3, <2>4, <2>6
<1>8. CASE state = "APPEND_AAAA_W"
  <2>1. PICK k \in Spot : AppendsAt(k)
    BY <1>8 DEF Appending
  <2>2. data_count \in 0 .. Quarters - 1 /\ intrablock = Base(k) + data_count
    BY <1>4, <1>8, <2>1 DEF AAAAInv, AppendsAt, PartOf
  <2>3. ASSUME NEW j \in Spot, NEW q \in 0 .. Quarters - 1, j # k \/ q # data_count
        PROVE  Quad(interblock, j, q)' = Quad(interblock, j, q)
    BY <1>1, <2>2, <2>3, QuadPlaces, QuadStored
  <2>4. Begun(interblock, k)'
    BY <1>1, <1>5, <2>1, <2>3 DEF AppendsAt, PartOf, Begun, Spot
  <2>5. Clear(interblock, OwnRoom + 1)'
    <3>1. k <= OwnRoom /\ OwnRoom \in Int /\ Clear(interblock, OwnRoom + 1)
      BY <1>5, <2>1 DEF AppendsAt, PartOf, OwnRoom
    <3>2. \A j \in Spot : j >= OwnRoom + 1 => j # k
      BY <3>1 DEF Spot
    <3> QED
      BY <1>1, <1>6, <2>3, <3>1, <3>2 DEF Clear, Spot
  <2>6. \A r, j : j \in Spot /\ j < k /\ Stored(interblock, r, j) => Stored(interblock, r, j)'
    BY <1>1, <2>3 DEF Stored, Spot
  <2>7. \A q \in 0 .. data_count - 1 : Quad(interblock, k, q)' = Quad(interblock, k, q)
    BY <1>5, <2>2, <2>3
  <2>8. PartOf(k)'
    BY <1>1, <1>6, <2>1, <2>4, <2>7 DEF AppendsAt, PartOf
  <2>9. AppendsAt(k)'
    BY <1>1, <2>1, <2>5, <2>6, <2>8 DEF AppendsAt, Spot
  <2> QED
    BY <1>1, <1>8, <2>9
       DEF Looking, Early, Writing, Marking, Counting, Checking, Appending, CNaming, Hosting,
           HostStat, Spot
<1>9. CASE state = "WRITE_QHOST_W" /\ AAAABase <= intrablock /\ intrablock < CNameBase
  <2>1. intrablock <= Base(AllRoom) /\ Clear(interblock, AllRoom + 1)
    BY <1>5, <1>9 DEF Hosting
  <2>2. ASSUME NEW j \in Spot, NEW q \in 0 .. Quarters - 1, Base(j) + q # intrablock
        PROVE  Quad(interblock, j, q)' = Quad(interblock, j, q)
    BY <1>1, <2>2, QuadStored
  <2>3. Clear(interblock, AllRoom + 1)'
    <3>1. AllRoom \in Nat
      BY <1>5 DEF AllRoom
    <3>2. ASSUME NEW j \in Spot, j >= AllRoom + 1, NEW q \in 0 .. Quarters - 1
          PROVE  Base(j) + q # intrablock
      <4>1. j \in Nat /\ AllRoom < j
        BY <3>1, <3>2, SpotFacts DEF Spot
      <4>2. Base(AllRoom) + Quarters <= Base(j) /\ Base(j) \in Int /\ Base(AllRoom) \in Int
        BY <3>1, <4>1, SpotFacts
      <4> QED
        BY <1>5, <2>1, <4>2
    <3> QED
      BY <1>1, <1>6, <2>1, <2>2, <3>2 DEF Clear, Spot
  <2>4. ASSUME NEW i, Saved(i) PROVE Saved(i)'
    <3>1. PICK j \in Spot : /\ Stored(interblock, pkt.aaaa[i], j)
                            /\ Base(j) + Quarters - 1 < intrablock
      BY <1>9, <2>4 DEF Saved, Hosting
    <3>2. \A q \in 0 .. Quarters - 1 : Base(j) + q # intrablock
      BY <1>5, <3>1, QuadPlaces
    <3>3. Stored(interblock, pkt.aaaa[i], j)'
      BY <1>1, <2>2, <3>1, <3>2 DEF Stored
    <3> QED
      BY <1>1, <1>6, <3>1, <3>3 DEF Saved, Spot
  <2> QED
    BY <1>1, <1>6, <1>9, <2>3, <2>4
       DEF Looking, Early, Writing, Marking, Counting, Checking, Appending, CNaming, Hosting,
           HostStat
<1>10. \/ intrablock < AAAABase \/ intrablock >= CNameBase
       \/ state = "APPEND_AAAA_W"
       \/ state = "WRITE_QHOST_W" /\ AAAABase <= intrablock /\ intrablock < CNameBase
  <2>1. state = "WRITE_QNAME_WAIT" => intrablock < AAAABase
    BY <1>4, <1>5 DEF NameInv
  <2>2. state \in {"SET_IN_USE_W", "UPDATE_STATS_W", "UPDATE_QHOST_STAT_W"} => intrablock < AAAABase
    BY <1>4, <1>5 DEF PositionInv, StatSlots, QueryCount, CNameCount, InUse, QHosts
  <2>3. state \in {"CHECK_A_W", "APPEND_A_W"} => intrablock < AAAABase
    BY <1>4, <1>5 DEF PositionInv
  <2>4. state = "APPEND_CNAME_W" => intrablock >= CNameBase
    BY <1>4, CNamesBehind DEF CNaming
  <2> QED
    BY <1>1, <1>5, <2>1, <2>2, <2>3, <2>4 DEF WriteWaits, Resting
<1> QED
  BY <1>7, <1>8, <1>9, <1>10

-----------------------------------------------------------------------------
(* How the machine comes to the AAAA records of a packet, goes through     *)
(* them, and leaves them for the CNAMEs and the querying host.             *)
Comes ==
    /\ state \in Early /\ left'.aaaa = left.aaaa
    /\ \/ state' \in Early
       \/ state' = "CHECK_AAAA" /\ intrablock' = AAAABase /\ data_count' = 0
       \/ left.aaaa = 0 /\ state' = "CHECK_CNAME"
       \/ left.aaaa = 0 /\ state' = "CHECK_QHOST" /\ intrablock' = QHostBase
Keeps ==
    /\ UNCHANGED <<intrablock, data_count, left>>
    /\ \/ state \in Checking /\ state' \in Checking
       \/ state \in Appending /\ state' \in Appending
Passes ==
    /\ state \in CNaming
    /\ \/ state' \in CNaming
       \/ state' = "CHECK_QHOST" /\ intrablock' \in {intrablock, QHostBase}
Ends ==
    \/ /\ state \in {"CHECK_QHOST", "CHECK_QHOST_W"} /\ state' \in {"CHECK_QHOST", "CHECK_QHOST_W"}
       /\ \/ intrablock' = intrablock
          \/ ack /\ state = "CHECK_QHOST_W" /\ answer # 0 /\ intrablock' = intrablock + 1
    \/ /\ ack /\ state = "CHECK_QHOST_W" /\ state' = "WRITE_QHOST"
       /\ answer = 0 /\ intrablock' = intrablock
    \/ /\ state \in {"WRITE_QHOST", "WRITE_QHOST_W"} /\ state' \in {"WRITE_QHOST", "WRITE_QHOST_W"}
       /\ intrablock' = intrablock
    \/ state \in {"WRITE_QHOST_W"} \cup HostStat /\ state' \in HostStat

(* Every edge of the machine within a packet is one of these, or works on  *)
(* an AAAA record.                                                         *)
LEMMA RecordParts ==
    ASSUME MemInv, MachineStep, state \notin Resting \cup Looking, state' \notin Resting
    PROVE  Comes \/ Keeps \/ Passes \/ Ends \/ (ack /\ AAAAAnswers(answer))
<1> USE DEF Early, Checking, Appending, Writing, Marking, Counting, CNaming, HostStat,
        Looking, Resting, States, WaitStates, ReadWaits, WriteWaits, place, work, side
<1>1. /\ left \in [a : 0 .. AMax + 1, aaaa : 0 .. AAAAMax, cname : 0 .. 3]
      /\ left.aaaa \in Nat
  BY LayoutFacts DEF MemInv, IInv, TypeOK, WorkType
<1>2. CASE Rest \/ Take \/ Hash
  BY <1>2 DEF Rest, Take, Hash, IdleQuiet, Capture, HashDone, HashBusy
<1>3. CASE Requests
  BY <1>3
     DEF Requests, CheckCells, CheckName, ReadStats, CheckA, CheckAAAA, CheckCName,
         CheckQHost, ReadQHostStat, WriteQName, SetInUse, UpdateStats, AppendAAAA,
         AppendCName, WriteQHost, UpdateQHostStat, AppendA, Request, Comes, Keeps, Passes, Ends
<1>4. CASE ZeroWord \/ IdleOffload
  BY <1>4 DEF ZeroWord, IdleOffload
<1>5. CASE Unanswered
  <2>1. CASE Wait
    BY <2>1 DEF Wait, vars, Comes, Keeps, Passes, Ends
  <2>2. CASE Serve
    BY <2>2 DEF Serve, vars, OffloadByte, Goto
  <2> QED
    BY <1>5, <2>1, <2>2 DEF Unanswered
<1>6. CASE ack /\ \E rdy \in UartReady : AnswerOffloadWord(answer, rdy)
  BY <1>6 DEF AnswerOffloadWord, Goto
<1> USE DEF Goto, Overflow, StartAAAA, StartCName, StartQHost
<1>7. CASE ack /\ FindAnswers(answer)
  BY <1>7
     DEF FindAnswers, AnswerCheckCells, AnswerCheckName, AnswerWriteQName, AnswerSetInUse,
         Comes
<1>8. CASE ack /\ StatAnswers(answer)
  BY <1>1, <1>8 DEF StatAnswers, AnswerReadStats, AnswerUpdateStats, AfterStats, Comes
<1>9. CASE ack /\ AAnswers(answer)
  <2>1. [left EXCEPT !.a = @ - 1].aaaa = left.aaaa
    BY <1>1
  <2>2. left' = left \/ left' = [left EXCEPT !.a = @ - 1]
    BY <1>9 DEF AAnswers, AnswerCheckA, AnswerAppendA
  <2>3. left'.aaaa = left.aaaa
    BY <2>1, <2>2
  <2> QED
    BY <1>1, <1>9, <2>3 DEF AAnswers, AnswerCheckA, AnswerAppendA, AfterA, Comes
<1>10. CASE ack /\ CNameAnswers(answer)
  BY <1>10 DEF CNameAnswers, AnswerCheckCName, AnswerAppendCName, Passes
<1>11. CASE ack /\ HostAnswers(answer)
  BY <1>11
     DEF HostAnswers, AnswerCheckQHost, AnswerWriteQHost, AnswerReadQHostStat,
         AnswerUpdateQHostStat, Ends
<1>12. CASE ack /\ (AnswerOffloadLast \/ AnswerZero)
  BY <1>12 DEF AnswerOffloadLast, AnswerZero
<1> QED
  BY <1>2, <1>3, <1>4, <1>5, <1>6, <1>7, <1>8, <1>9, <1>10, <1>11, <1>12
     DEF MachineStep, Ask, Answered, Answers

(* A packet is counted when its querying host is there.                    *)
LEMMA PacketCounted ==
    ASSUME MemInv, MachineStep, parsed_pkts' = parsed_pkts + 1
    PROVE  state \in {"CHECK_QHOST_W", "UPDATE_QHOST_STAT_W"}
<1> USE DEF place, work, side
<1>1. parsed_pkts \in Nat
  BY LayoutFacts DEF MemInv, IInv, TypeOK, WorkType
<1>2. CASE Rest \/ Take \/ Hash
  BY <1>1, <1>2 DEF Rest, Take, Hash, IdleQuiet, Capture, HashDone, HashBusy
<1>3. CASE Requests
  BY <1>1, <1>3
     DEF Requests, CheckCells, CheckName, ReadStats, CheckA, CheckAAAA, CheckCName,
         CheckQHost, ReadQHostStat, WriteQName, SetInUse, UpdateStats, AppendAAAA,
         AppendCName, WriteQHost, UpdateQHostStat, AppendA, Request
<1>4. CASE ZeroWord \/ IdleOffload
  BY <1>1, <1>4 DEF ZeroWord, IdleOffload
<1>5. CASE Unanswered
  BY <1>1, <1>5 DEF Unanswered, Wait, Serve, vars, OffloadByte
<1>6. CASE ack /\ \E rdy \in UartReady : AnswerOffloadWord(answer, rdy)
  BY <1>1, <1>6 DEF AnswerOffloadWord
<1>7. CASE FindAnswers(answer) \/ StatAnswers(answer)
  BY <1>1, <1>7
     DEF FindAnswers, AnswerCheckCells, AnswerCheckName, AnswerWriteQName, AnswerSetInUse,
         StatAnswers, AnswerReadStats, AnswerUpdateStats
<1>8. CASE AAnswers(answer) \/ AAAAAnswers(answer) \/ CNameAnswers(answer)
  BY <1>1, <1>8
     DEF AAnswers, AnswerCheckA, AnswerAppendA, AAAAAnswers, AnswerCheckAAAA,
         AnswerAppendAAAA, CNameAnswers, AnswerCheckCName, AnswerAppendCName
<1>9. CASE HostAnswers(answer)
  BY <1>1, <1>9
     DEF HostAnswers, AnswerCheckQHost, AnswerWriteQHost, AnswerReadQHostStat,
         AnswerUpdateQHostStat
<1>10. CASE AnswerOffloadLast \/ AnswerZero
  BY <1>1, <1>10 DEF AnswerOffloadLast, AnswerZero
<1> QED
  BY <1>2, <1>3, <1>4, <1>5, <1>6, <1>7, <1>8, <1>9, <1>10
     DEF MachineStep, Ask, Answered, Answers

-----------------------------------------------------------------------------
(* An AAAA record is searched and written, quarter by quarter.             *)

(* What holds from a slot on holds from a later one on.                    *)
LEMMA ClearFrom ==
    ASSUME NEW c, NEW m \in Int, NEW n \in Int, m <= n, Clear(c, m)
    PROVE  Clear(c, n)
<1>1. \A j \in Spot : j \in Int
  BY DEF Spot
<1> QED
  BY <1>1 DEF Clear

(* The search ends at the record or at the first empty slot.               *)
LEMMA RecordsInTurn ==
    ASSUME MemInv, TableInv, CountInv, KeptInv, RecordsFit, AddressesBegin, MemInv',
           ack, AAAAAnswers(answer), mem' = mem, state' \notin Resting
    PROVE  QuadInv' /\ SavedInv'
<1> USE DEF Goto, StartAAAA, StartCName, StartQHost, Overflow
<1>1. /\ pkt' = pkt /\ interblock' = interblock /\ parsed_pkts' = parsed_pkts /\ hash = 0
      /\ state \in {"CHECK_AAAA_W", "APPEND_AAAA_W"} /\ Busy
  BY
     DEF AAAAAnswers, AnswerCheckAAAA, AnswerAppendAAAA, Busy, Resting,
         TableInv, WorkInv
<1>2. /\ \A i \in 1 .. AAAAMax : pkt.aaaa[i] \in [0 .. Quarters - 1 -> Word]
      /\ \A i \in 1 .. pkt.nAAAA : pkt.aaaa[i][0] # 0
      /\ pkt.nAAAA \in 0 .. AAAAMax /\ AAAAMax \in Nat /\ left.aaaa \in 0 .. AAAAMax
      /\ left \in [a : 0 .. AMax + 1, aaaa : 0 .. AAAAMax, cname : 0 .. 3]
      /\ Start \in Nat /\ Start + AAAAMax <= AAAASlots
      /\ intrablock \in Int /\ data_count \in Int
  BY <1>1, RecordFacts DEF TableInv, CountInv
<1>3. /\ AAAAInv /\ RecordsRemain /\ AAAASlots \in Nat /\ Quarters \in Nat \ {0}
      /\ CNameBase \in Nat /\ QHostBase \in Nat /\ CNameBase <= QHostBase
  BY SpotFacts, LayoutFacts DEF MemInv, IInv
<1>4. left.aaaa \in 1 .. AAAAMax /\ data_count \in 0 .. Quarters - 1
  BY <1>1, <1>2, <1>3 DEF RecordsRemain, AAAAInv
<1>5. /\ \A c, n : Clear(c, n)' = Clear(c, n) /\ Begun(c, n)' = Begun(c, n)
      /\ \A c, r, j : j \in Spot => Stored(c, r, j)' = Stored(c, r, j)
      /\ \A c, j, q : Quad(c, j, q)' = Quad(c, j, q)
  <2>1. \A c, j, q : Quad(c, j, q)' = Quad(c, j, q)
    BY DEF Quad, Word0, Base
  <2> QED
    BY <2>1, QuadsSame
<1>6. Start' = Start /\ AllRoom' = AllRoom /\ \A j : Base(j)' = Base(j)
  BY <1>1 DEF Start, AllRoom, Fresh, Base
<1>7. PICK k \in Spot : /\ PartOf(k)
                        /\ state = "CHECK_AAAA_W" => ChecksAt(k)
                        /\ state = "APPEND_AAAA_W" => AppendsAt(k)
  BY <1>1 DEF KeptInv, QuadInv, Checking, Appending, ChecksAt, AppendsAt
<1>8. /\ left.aaaa <= pkt.nAAAA /\ intrablock = Base(k) + data_count /\ k <= OwnRoom
      /\ OwnRoom = Start + (pkt.nAAAA - left.aaaa) /\ OwnRoom \in Nat /\ OwnRoom < AAAASlots
      /\ Begun(interblock, k) /\ k \in Nat
      /\ \A q \in 0 .. data_count - 1 : Quad(interblock, k, q) = pkt.aaaa[left.aaaa][q]
  BY <1>2, <1>3, <1>4, <1>7 DEF PartOf, OwnRoom, Spot
<1>9. /\ state = "CHECK_AAAA_W" => answer = Quad(interblock, k, data_count)
      /\ state = "APPEND_AAAA_W" => Quad(interblock, k, data_count) = AAAAWord
      /\ AAAAWord = pkt.aaaa[left.aaaa][data_count]
  <2>1. /\ state = "CHECK_AAAA_W" => answer = Word0(interblock, intrablock)
        /\ state = "APPEND_AAAA_W" => Word0(interblock, intrablock) = wb.dat
    BY <1>1, AckFacts DEF TableInv, ReadWaits, WriteWaits, Carried
  <2>2. state = "APPEND_AAAA_W" => wb.dat = AAAAWord
    BY DEF MemInv, IInv, DataInv
  <2> QED
    BY <1>8, <2>1, <2>2 DEF Quad, AAAAWord
<1> DEFINE Found(i) ==
       \E j \in Spot : Stored(interblock, pkt.aaaa[i], j) /\ Begun(interblock, j + 1)
<1>10. ASSUME Quad(interblock, k, 0) # 0 PROVE Begun(interblock, k + 1)
  BY <1>8, <1>10 DEF Begun, Spot
<1>11. ASSUME data_count > 0 \/ Quad(interblock, k, data_count) = AAAAWord
       PROVE  Quad(interblock, k, 0) # 0
  BY <1>2, <1>4, <1>8, <1>9, <1>11
<1>12. ASSUME LastQuarter, Quad(interblock, k, data_count) = AAAAWord
       PROVE  Stored(interblock, pkt.aaaa[left.aaaa], k) /\ Found(left.aaaa)
  <2>1. Stored(interblock, pkt.aaaa[left.aaaa], k)
    BY <1>3, <1>4, <1>8, <1>9, <1>12 DEF Stored, LastQuarter
  <2> QED
    BY <1>10, <1>11, <1>12, <2>1
<1>13. ASSUME Clear(interblock, OwnRoom + 1), \A i \in left.aaaa .. pkt.nAAAA : Found(i),
              \/ /\ left.aaaa # 1 /\ left' = [left EXCEPT !.aaaa = @ - 1] /\ StartAAAA
              \/ left.aaaa = 1 /\ (StartCName \/ StartQHost)
       PROVE  QuadInv' /\ SavedInv'
  <2>1. CASE left.aaaa # 1 /\ left' = [left EXCEPT !.aaaa = @ - 1] /\ StartAAAA
    <3>1. left'.aaaa = left.aaaa - 1 /\ OwnRoom' = OwnRoom + 1
      <4>1. [left EXCEPT !.aaaa = @ - 1].aaaa = left.aaaa - 1
        BY <1>2
      <4>2. left'.aaaa = left.aaaa - 1
        BY <2>1, <4>1
      <4> QED
        BY <1>1, <1>2, <1>4, <1>6, <1>8, <4>2 DEF OwnRoom
    <3>2. 0 \in Spot /\ Base(0) = AAAABase /\ AAAABase \in Int
      BY <1>3, <1>8, SpotFacts DEF Spot
    <3>3. PartOf(0)'
      <4>1. left'.aaaa <= pkt'.nAAAA
        BY <1>1, <1>2, <1>4, <1>8, <3>1
      <4>2. intrablock' = Base(0)' + data_count'
        BY <1>6, <2>1, <3>2
      <4>3. Begun(interblock, 0)'
        BY <1>3 DEF Begun, Spot
      <4>4. \A q \in 0 .. data_count' - 1 : FALSE
        BY <2>1
      <4>5. 0 <= OwnRoom'
        BY <1>8, <3>1
      <4> QED
        BY <4>1, <4>2, <4>3, <4>4, <4>5 DEF PartOf
    <3>4. Clear(interblock, OwnRoom)'
      BY <1>1, <1>5, <1>13, <3>1
    <3>5. \A i \in left'.aaaa + 1 .. pkt'.nAAAA :
             \E j \in Spot : Stored(interblock, pkt.aaaa[i], j)' /\ Begun(interblock, j + 1)'
      <4>1. left'.aaaa + 1 = left.aaaa
        BY <1>2, <3>1
      <4> QED
        BY <1>1, <1>5, <1>13, <4>1
    <3>6. ChecksAt(0)'
      BY <1>1, <3>3, <3>4, <3>5 DEF ChecksAt, Spot
    <3> QED
      BY <2>1, <3>2, <3>6
         DEF QuadInv, SavedInv, Spot, Checking, Appending, CNaming, Hosting, HostStat
  <2>2. CASE left.aaaa = 1 /\ (StartCName \/ StartQHost)
    <3>1. OwnRoom + 1 = AllRoom /\ AllRoom \in Nat
      BY <1>2, <1>8, <2>2 DEF AllRoom
    <3>2. Clear(interblock, AllRoom)' /\ Clear(interblock, AllRoom + 1)'
      BY <1>1, <1>5, <1>6, <1>13, <3>1, ClearFrom
    <3>3. ASSUME NEW i \in 1 .. pkt.nAAAA PROVE Saved(i)'
      <4>1. PICK j \in Spot : Stored(interblock, pkt.aaaa[i], j)
        BY <1>13, <2>2
      <4>2. state' \in Hosting => intrablock' = QHostBase
        BY <2>2 DEF Hosting
      <4>3. Base(j) + (Quarters - 1) < CNameBase /\ Base(j) \in Int
        BY <1>3, QuadPlaces
      <4> QED
        BY <1>1, <1>3, <1>5, <1>6, <4>1, <4>2, <4>3 DEF Saved, Spot
    <3>4. state' \in Hosting => intrablock' >= CNameBase
      BY <1>3, <2>2 DEF Hosting
    <3> QED
      BY <1>1, <2>2, <3>2, <3>3, <3>4
         DEF QuadInv, SavedInv, Checking, Appending, CNaming, Hosting, HostStat
  <2> QED
    BY <1>13, <2>1, <2>2
<1> HIDE DEF Found
<1>14. CASE state = "CHECK_AAAA_W"
  <2>1. /\ ChecksAt(k) /\ Clear(interblock, OwnRoom) /\ Clear(interblock, OwnRoom + 1)
        /\ answer = Quad(interblock, k, data_count)
        /\ \A i \in left.aaaa + 1 .. pkt.nAAAA : Found(i)
    BY <1>7, <1>8, <1>9, <1>14, ClearFrom DEF ChecksAt, Found
  <2>2. CASE answer = AAAAWord /\ LastQuarter
    <3>1. \A i \in left.aaaa .. pkt.nAAAA : Found(i)
      BY <1>2, <1>4, <1>12, <2>1, <2>2
    <3>2. \/ /\ left.aaaa # 1 /\ left' = [left EXCEPT !.aaaa = @ - 1] /\ StartAAAA
          \/ left.aaaa = 1 /\ (StartCName \/ StartQHost)
      BY <1>14, <2>2 DEF AAAAAnswers, AnswerCheckAAAA, AnswerAppendAAAA
    <3> QED
      BY <1>13, <2>1, <3>1, <3>2
  <2>3. CASE answer = AAAAWord /\ ~LastQuarter
    <3>1. Goto("CHECK_AAAA", intrablock + 1, data_count + 1) /\ left' = left
      BY <1>14, <2>3 DEF AAAAAnswers, AnswerCheckAAAA, AnswerAppendAAAA
    <3>2. OwnRoom' = OwnRoom
      BY <1>1, <1>6, <3>1 DEF OwnRoom
    <3>3. \A q \in 0 .. data_count : Quad(interblock, k, q) = pkt.aaaa[left.aaaa][q]
      <4>1. Quad(interblock, k, data_count) = pkt.aaaa[left.aaaa][data_count]
        BY <1>9, <2>1, <2>3
      <4> QED
        BY <1>4, <1>8, <4>1
    <3>4. PartOf(k)'
      <4>1. intrablock' = Base(k)' + data_count'
        <5>1. Base(k) \in Int
          BY <1>8, SpotFacts
        <5> QED
          BY <1>4, <1>6, <1>8, <3>1, <5>1
      <4>2. \A q \in 0 .. data_count' - 1 : Quad(interblock, k, q)' = pkt'.aaaa[left'.aaaa][q]
        BY <1>1, <1>4, <1>5, <3>1, <3>3
      <4> QED
        BY <1>1, <1>5, <1>8, <3>1, <3>2, <4>1, <4>2 DEF PartOf
    <3>5. ChecksAt(k)'
      BY <1>1, <1>5, <2>1, <3>1, <3>2, <3>4 DEF ChecksAt, Spot
    <3> QED
      BY <3>1, <3>5
         DEF QuadInv, SavedInv, Spot, Checking, Appending, CNaming, Hosting, HostStat
  <2>4. CASE answer # AAAAWord /\ answer = 0 /\ data_count = 0
    <3>1. Goto("APPEND_AAAA", intrablock, data_count) /\ left' = left
      BY <1>14, <2>4 DEF AAAAAnswers, AnswerCheckAAAA, AnswerAppendAAAA, Resting
    <3>2. OwnRoom' = OwnRoom
      BY <1>1, <1>6, <3>1 DEF OwnRoom
    <3>3. PartOf(k)'
      BY <1>1, <1>5, <1>6, <1>8, <3>1, <3>2 DEF PartOf
    <3>4. ASSUME NEW i \in left.aaaa + 1 .. pkt.nAAAA
          PROVE  \E j \in Spot : j < k /\ Stored(interblock, pkt.aaaa[i], j)
      <4>1. PICK j \in Spot : Stored(interblock, pkt.aaaa[i], j) /\ Begun(interblock, j + 1)
        BY <2>1 DEF Found
      <4>2. Quad(interblock, k, 0) = 0
        BY <2>1, <2>4
      <4>3. j < k
        BY <1>8, <4>1, <4>2 DEF Begun, Spot
      <4> QED
        BY <4>1, <4>3
    <3>5. AppendsAt(k)'
      BY <1>1, <1>5, <2>1, <3>1, <3>2, <3>3, <3>4 DEF AppendsAt, Spot
    <3> QED
      BY <3>1, <3>5
         DEF QuadInv, SavedInv, Spot, Checking, Appending, CNaming, Hosting, HostStat
  <2>5. CASE answer # AAAAWord /\ ~(answer = 0 /\ data_count = 0)
    <3>1. Goto("CHECK_AAAA", intrablock + Quarters - data_count, 0) /\ left' = left
      BY <1>14, <2>5 DEF AAAAAnswers, AnswerCheckAAAA, AnswerAppendAAAA, Resting
    <3>2. OwnRoom' = OwnRoom
      BY <1>1, <1>6, <3>1 DEF OwnRoom
    <3>3. Quad(interblock, k, 0) # 0
      BY <1>4, <1>11, <2>1, <2>5
    <3>4. k < OwnRoom
      <4>1. 0 \in 0 .. Quarters - 1
        BY <1>3
      <4>2. ~(k >= OwnRoom)
        BY <1>7, <2>1, <3>3, <4>1 DEF Clear
      <4> QED
        BY <1>8, <4>2
    <3>5. k + 1 \in Spot
      BY <1>3, <1>8, <3>4 DEF Spot
    <3>6. PartOf(k + 1)'
      <4>1. intrablock' = Base(k + 1)' + data_count'
        <5>1. Base(k) \in Int /\ Base(k + 1) = Base(k) + Quarters
          BY <1>8, SpotFacts
        <5> QED
          BY <1>3, <1>4, <1>6, <1>8, <3>1, <5>1
      <4>2. \A q \in 0 .. data_count' - 1 : FALSE
        BY <3>1
      <4>3. Begun(interblock, k + 1)'
        BY <1>1, <1>5, <1>10, <3>3
      <4>4. k + 1 <= OwnRoom'
        BY <1>8, <3>2, <3>4
      <4> QED
        BY <1>1, <1>8, <3>1, <4>1, <4>2, <4>3, <4>4 DEF PartOf
    <3>7. ChecksAt(k + 1)'
      BY <1>1, <1>5, <2>1, <3>1, <3>2, <3>6 DEF ChecksAt, Spot, Found
    <3> QED
      BY <3>1, <3>5, <3>7
         DEF QuadInv, SavedInv, Spot, Checking, Appending, CNaming, Hosting, HostStat
  <2> QED
    BY <2>2, <2>3, <2>4, <2>5
<1>15. CASE state = "APPEND_AAAA_W"
  <2>1. /\ AppendsAt(k) /\ Clear(interblock, OwnRoom + 1)
        /\ Quad(interblock, k, data_count) = AAAAWord
        /\ \A i \in left.aaaa + 1 .. pkt.nAAAA :
              \E j \in Spot : j < k /\ Stored(interblock, pkt.aaaa[i], j)
    BY <1>7, <1>9, <1>15 DEF AppendsAt
  <2>2. CASE LastQuarter /\ ~(state' = "CHECK_QHOST")
    <3>1. ASSUME NEW i \in left.aaaa .. pkt.nAAAA PROVE Found(i)
      <4>1. CASE i = left.aaaa
        BY <1>12, <2>1, <2>2, <4>1
      <4>2. CASE i # left.aaaa
        <5>1. i \in left.aaaa + 1 .. pkt.nAAAA
          BY <1>2, <4>2
        <5>2. PICK j \in Spot : j < k /\ Stored(interblock, pkt.aaaa[i], j)
          BY <2>1, <5>1
        <5>3. Begun(interblock, j + 1)
          BY <1>8, <5>2 DEF Begun, Spot
        <5> QED
          BY <5>2, <5>3 DEF Found
      <4> QED
        BY <4>1, <4>2
    <3>2. \/ /\ left.aaaa # 1 /\ left' = [left EXCEPT !.aaaa = @ - 1] /\ StartAAAA
          \/ left.aaaa = 1 /\ (StartCName \/ StartQHost)
      BY <1>4, <1>15, <2>2 DEF AAAAAnswers, AnswerCheckAAAA, AnswerAppendAAAA
    <3> QED
      BY <1>13, <2>1, <3>1, <3>2
  <2>3. CASE LastQuarter /\ state' = "CHECK_QHOST"
    <3>1. left.aaaa = 1 /\ intrablock' = intrablock
      BY <1>4, <1>15, <2>3 DEF AAAAAnswers, AnswerCheckAAAA, AnswerAppendAAAA
    <3>2. OwnRoom + 1 = AllRoom /\ AllRoom \in Nat
      BY <1>2, <1>8, <3>1 DEF AllRoom
    <3>3. Clear(interblock, AllRoom)' /\ Clear(interblock, AllRoom + 1)'
      BY <1>1, <1>5, <1>6, <2>1, <3>2, ClearFrom
    <3>4. intrablock = Base(k) + Quarters - 1 /\ Base(k) \in Int
      BY <1>3, <1>8, <2>3, QuadPlaces, SpotFacts DEF LastQuarter
    <3>5. ASSUME NEW i \in 1 .. pkt.nAAAA PROVE Saved(i)'
      <4>1. PICK j \in Spot : (j < k \/ j = k) /\ Stored(interblock, pkt.aaaa[i], j)
        <5>1. CASE i = 1
          BY <1>7, <1>12, <2>1, <2>3, <3>1, <5>1
        <5>2. CASE i # 1
          BY <2>1, <3>1, <5>2
        <5> QED
          BY <5>1, <5>2
      <4>2. j < k => Base(j) + Quarters <= Base(k)
        BY QuadPlaces
      <4>3. Base(j) \in Int
        BY SpotFacts DEF Spot
      <4> QED
        BY <1>1, <1>3, <1>5, <1>6, <2>3, <3>1, <3>4, <4>1, <4>2, <4>3 DEF Saved, Spot
    <3>6. intrablock <= Base(AllRoom)
      <4>1. k < AllRoom
        BY <1>8, <3>2
      <4>2. Base(k) + Quarters <= Base(AllRoom) /\ Base(AllRoom) \in Int
        BY <1>8, <3>2, <4>1, SpotFacts
      <4> QED
        BY <1>3, <3>4, <4>2
    <3> QED
      BY <1>1, <1>6, <2>3, <3>1, <3>3, <3>5, <3>6
         DEF QuadInv, SavedInv, Checking, Appending, CNaming, Hosting, HostStat
  <2>4. CASE ~LastQuarter
    <3>1. Goto("APPEND_AAAA", intrablock + 1, data_count + 1) /\ left' = left
      BY <1>15, <2>4 DEF AAAAAnswers, AnswerCheckAAAA, AnswerAppendAAAA
    <3>2. OwnRoom' = OwnRoom
      BY <1>1, <1>6, <3>1 DEF OwnRoom
    <3>3. \A q \in 0 .. data_count : Quad(interblock, k, q) = pkt.aaaa[left.aaaa][q]
      BY <1>4, <1>8, <1>9, <2>1
    <3>4. PartOf(k)'
      <4>1. intrablock' = Base(k)' + data_count'
        <5>1. Base(k) \in Int
          BY <1>8, SpotFacts
        <5> QED
          BY <1>4, <1>6, <1>8, <3>1, <5>1
      <4>2. \A q \in 0 .. data_count' - 1 : Quad(interblock, k, q)' = pkt'.aaaa[left'.aaaa][q]
        BY <1>1, <1>4, <1>5, <3>1, <3>3
      <4> QED
        BY <1>1, <1>5, <1>8, <3>1, <3>2, <4>1, <4>2 DEF PartOf
    <3>5. AppendsAt(k)'
      BY <1>1, <1>5, <2>1, <3>1, <3>2, <3>4 DEF AppendsAt, Spot
    <3> QED
      BY <3>1, <3>5
         DEF QuadInv, SavedInv, Spot, Checking, Appending, CNaming, Hosting, HostStat
  <2> QED
    BY <2>2, <2>3, <2>4
<1> QED
  BY <1>1, <1>14, <1>15

-----------------------------------------------------------------------------
(* The machine steps, and the memory keeps its contents.                   *)

(* What the records of a packet find: an empty cell, or the cell of the    *)
(* packet before.                                                          *)
LEMMA SpareKept ==
    ASSUME MemInv, MemInv', TableInv, WorkInv', CountInv, CellInv', KeptInv, RecordsFit,
           AddressesBegin, MachineStep, Flow, mem' = mem, Cells >= 2,
           state \in {"IDLE"} \cup Looking \/ state' \in Resting
    PROVE  KeptInv'
<1> USE DEF KeptInv
<1>1. /\ \A c, n : Clear(c, n)' = Clear(c, n)
      /\ AAAAMax \in Nat /\ parsed_pkts \in Nat
  <2>1. \A c, j, q : Quad(c, j, q)' = Quad(c, j, q)
    BY DEF Quad, Word0, Base
  <2> QED
    BY <2>1, QuadsSame, LayoutFacts DEF MemInv, IInv, TypeOK, WorkType
<1>2. CASE state' \in Resting
  <2>1. state' \notin Looking \cup Early \cup Checking \cup Appending \cup CNaming \cup Hosting
                       \cup HostStat
    BY <1>2
       DEF Resting, Looking, Early, Writing, Marking, Counting, Checking, Appending, CNaming,
           Hosting, HostStat
  <2>2. QuadInv' /\ SavedInv'
    BY <2>1 DEF QuadInv, SavedInv, Hosting
  <2>3. ASSUME state' = "IDLE", parsed_pkts' = 1 PROVE Clear(0, AAAAMax + 1)
    <3>1. CASE Idles
      BY <2>3, <3>1 DEF Idles, Same, SpareInv
    <3>2. CASE Leaves
      <4>1. parsed_pkts = 0 /\ state \in {"CHECK_QHOST_W", "UPDATE_QHOST_STAT_W"} /\ Busy
        BY <1>1, <2>3, <3>2, PacketCounted DEF Leaves, Busy, Resting
      <4>2. interblock = 0 /\ Start = 0
        BY <4>1 DEF TableInv, WorkInv, Start, Fresh
      <4>3. pkt.nAAAA \in 0 .. AAAAMax
        BY <4>1, RecordFacts DEF TableInv, CountInv
      <4>4. Clear(0, pkt.nAAAA + 1)
        BY <4>1, <4>2, <4>3 DEF SavedInv, Hosting, HostStat, AllRoom
      <4> QED
        BY <1>1, <4>3, <4>4, ClearFrom
    <3>3. CASE ~Idles /\ ~Leaves
      <4>1. Zeroes /\ state = "ZERO_WAIT" /\ parsed_pkts' = parsed_pkts
        BY <2>3, <3>3
           DEF Flow, Enters, Looks, Chooses, Finds, Names, Counts, Works, Sleeps,
               Zeroes, Looking, Writing, Marking, Counting, Later, Resting
      <4> QED
        BY <2>3, <4>1 DEF TableInv, ZeroInv
    <3> QED
      BY <3>1, <3>2, <3>3
  <2>4. SpareInv'
    BY <1>1, <2>1, <2>3 DEF SpareInv
  <2> QED
    BY <2>2, <2>4
<1>3. CASE state \in {"IDLE"} \cup Looking /\ state' \notin Resting
  <2>1. /\ parsed_pkts' = parsed_pkts
        /\ state' \in Looking \cup {"WRITE_QNAME", "READ_STATS"}
    <3>1. Enters \/ Looks \/ Chooses \/ Finds
      BY <1>3
         DEF Flow, Idles, Names, Counts, Works, Leaves, Sleeps, Zeroes, Resting, Looking,
             Writing, Marking, Counting, Later
    <3> QED
      BY <3>1 DEF Enters, Looks, Chooses, Finds, Same, Looking
  <2>2. /\ state' \notin Checking \cup Appending \cup CNaming \cup Hosting \cup HostStat
        /\ state' # "IDLE"
    BY <2>1 DEF Looking, Checking, Appending, CNaming, Hosting, HostStat
  <2>3. QuadInv' /\ SavedInv'
    BY <2>2 DEF QuadInv, SavedInv, Hosting
  <2>4. parsed_pkts = 1 => Clear(0, AAAAMax + 1)
    BY <1>3 DEF SpareInv
  <2>5. Busy' /\ parsed_pkts \in {0, 1} /\ interblock' \in {0, 1} /\ interblock' \in Cell
    BY <1>3, <2>1
       DEF Busy, WorkInv, CellInv, MemInv, IInv, TypeOK, PlaceType
  <2>6. ASSUME state' \in Early PROVE left'.aaaa = pkt'.nAAAA
    <3>1. state' \in BeforeRecords
      BY <2>1, <2>6 DEF Looking, BeforeRecords, Scanning
    <3>2. left' = [a |-> pkt'.nA, aaaa |-> pkt'.nAAAA, cname |-> pkt'.nCNAME]
      BY <3>1 DEF MemInv, IInv, CountsInv
    <3> QED
      BY <3>2
  <2>7. Clear(interblock', Start')
    <3>1. CASE Fresh'
      <4>1. parsed_pkts = 0 \/ interblock' # 0
        BY <2>1, <3>1 DEF Fresh
      <4>2. \A w \in Offset : Word0(interblock', w) = 0
        <5>1. CleanInv /\ parsed_pkts \in {0, 1}
          BY <2>5 DEF TableInv
        <5> QED
          BY <1>3, <2>5, <4>1, <5>1, CleanWords
      <4> QED
        BY <4>2, QuadPlaces DEF Clear, Quad
    <3>2. CASE ~Fresh'
      <4>1. parsed_pkts = 1 /\ interblock' = 0 /\ Start' = AAAAMax + 1
        BY <2>1, <2>5, <3>2 DEF Fresh, Start
      <4> QED
        BY <2>4, <4>1
    <3> QED
      BY <3>1, <3>2
  <2>8. SpareInv'
    BY <1>1, <2>1, <2>2, <2>4, <2>6, <2>7 DEF SpareInv
  <2> QED
    BY <2>3, <2>8
<1> QED
  BY <1>2, <1>3

(* Within a packet, an edge at which the memory is not written keeps the   *)
(* records where they are.                                                 *)
LEMMA RecordsKeptStep ==
    ASSUME MemInv, MemInv', TableInv, CountInv, KeptInv, RecordsFit, AddressesBegin,
           FreshInv', AgainInv', MachineStep, Flow, mem' = mem,
           state \notin {"IDLE"} \cup Looking, state' \notin Resting
    PROVE  KeptInv'
<1> USE DEF KeptInv
<1>1. Names \/ Counts \/ Works
  BY
     DEF Flow, Idles, Enters, Looks, Chooses, Finds, Leaves, Sleeps, Zeroes,
         Resting, Looking
<1>2. /\ pkt' = pkt /\ interblock' = interblock /\ parsed_pkts' = parsed_pkts /\ hash = 0
      /\ Busy /\ state \notin Resting /\ state' \notin {"IDLE"} \cup Looking
  BY <1>1
     DEF Names, Counts, Works, Same, Resting, Looking, Writing, Marking, Counting, Later, Busy,
         TableInv, WorkInv
<1>3. /\ pkt.nAAAA \in 0 .. AAAAMax /\ AAAAMax \in Nat /\ left.aaaa \in 0 .. AAAAMax
      /\ Start \in Nat /\ Start + AAAAMax <= AAAASlots
      /\ intrablock \in Int /\ data_count \in Int
      /\ AAAASlots \in Nat /\ Quarters \in Nat \ {0} /\ CNameBase \in Nat /\ QHostBase \in Nat
      /\ CNameBase <= QHostBase
  BY <1>2, RecordFacts, SpotFacts, LayoutFacts DEF TableInv, CountInv
<1>4. /\ \A c, n : Clear(c, n)' = Clear(c, n) /\ Begun(c, n)' = Begun(c, n)
      /\ \A c, r, j : j \in Spot => Stored(c, r, j)' = Stored(c, r, j)
      /\ \A c, j, q : Quad(c, j, q)' = Quad(c, j, q)
  <2>1. \A c, j, q : Quad(c, j, q)' = Quad(c, j, q)
    BY DEF Quad, Word0, Base
  <2> QED
    BY <2>1, QuadsSame
<1>5. Start' = Start /\ AllRoom' = AllRoom /\ \A j : Base(j)' = Base(j)
  BY <1>2 DEF Start, AllRoom, Fresh, Base
<1>6. AllRoom \in Nat /\ AllRoom <= AAAASlots
  BY <1>3 DEF AllRoom
<1>7. CASE Comes
  <2>1. left.aaaa = pkt.nAAAA /\ Clear(interblock, Start) /\ left'.aaaa = left.aaaa
    BY <1>7 DEF Comes, SpareInv
  <2>2. CASE state' \in Early
    BY <1>2, <1>4, <1>5, <2>1, <2>2
       DEF SpareInv, QuadInv, SavedInv, Early, Writing, Marking, Counting, Checking,
           Appending, CNaming, Hosting, HostStat
  <2>3. CASE state' = "CHECK_AAAA" /\ intrablock' = AAAABase /\ data_count' = 0
    <3>1. left'.aaaa > 0
      BY <2>3 DEF MemInv, IInv, RecordsRemain
    <3>2. 0 \in Spot /\ Base(0) = AAAABase /\ AAAABase \in Int
      <4>1. AAAASlots >= 1
        BY <1>3, <2>1, <3>1
      <4> QED
        BY <1>3, <4>1, SpotFacts DEF Spot
    <3>3. OwnRoom' = Start
      BY <1>2, <1>3, <1>5, <2>1 DEF OwnRoom
    <3>4. PartOf(0)'
      <4>1. left'.aaaa <= pkt'.nAAAA
        BY <1>2, <1>3, <2>1
      <4>2. intrablock' = Base(0)' + data_count'
        BY <1>5, <2>3, <3>2
      <4>3. Begun(interblock, 0)'
        BY <1>3 DEF Begun, Spot
      <4>4. \A q \in 0 .. data_count' - 1 : FALSE
        BY <2>3
      <4>5. 0 <= OwnRoom'
        BY <1>3, <3>3
      <4> QED
        BY <4>1, <4>2, <4>3, <4>4, <4>5 DEF PartOf
    <3>5. Clear(interblock, OwnRoom)'
      BY <1>2, <1>4, <2>1, <3>3
    <3>6. \A i \in left'.aaaa + 1 .. pkt'.nAAAA : FALSE
      BY <1>2, <1>3, <2>1
    <3>7. ChecksAt(0)'
      BY <3>4, <3>5, <3>6 DEF ChecksAt
    <3> QED
      BY <2>3, <3>2, <3>7
         DEF SpareInv, QuadInv, SavedInv, Spot, Early, Writing, Marking, Counting, Checking,
             Appending, CNaming, Hosting, HostStat, Looking
  <2>4. CASE /\ left.aaaa = 0
             /\ \/ state' = "CHECK_CNAME"
                \/ state' = "CHECK_QHOST" /\ intrablock' = QHostBase
    <3>1. AllRoom = Start /\ Start + 1 >= Start /\ Start + 1 \in Int
      BY <1>3, <2>1, <2>4 DEF AllRoom
    <3>2. Clear(interblock, AllRoom)' /\ Clear(interblock, AllRoom + 1)'
      BY <1>2, <1>3, <1>4, <1>5, <2>1, <3>1, ClearFrom
    <3>3. \A i \in 1 .. pkt'.nAAAA : FALSE
      BY <1>2, <2>1, <2>4
    <3>4. state' \in Hosting => intrablock' >= CNameBase
      BY <1>3, <2>4 DEF Hosting
    <3> QED
      BY <2>4, <3>2, <3>3, <3>4
         DEF SpareInv, QuadInv, SavedInv, Early, Writing, Marking, Counting, Checking,
             Appending, CNaming, Hosting, HostStat, Looking
  <2> QED
    BY <1>7, <2>2, <2>3, <2>4 DEF Comes
<1>8. CASE Keeps
  <2>1. /\ intrablock' = intrablock /\ data_count' = data_count /\ left' = left
        /\ OwnRoom' = OwnRoom
    BY <1>2, <1>5, <1>8 DEF Keeps, OwnRoom
  <2>2. \A k \in Spot : PartOf(k) => PartOf(k)'
    BY <1>2, <1>4, <1>5, <2>1 DEF PartOf
  <2>3. \A k \in Spot : ChecksAt(k) => ChecksAt(k)'
    BY <1>2, <1>4, <2>1, <2>2 DEF ChecksAt, Spot
  <2>4. \A k \in Spot : AppendsAt(k) => AppendsAt(k)'
    BY <1>2, <1>4, <2>1, <2>2 DEF AppendsAt, Spot
  <2>5. QuadInv'
    BY <1>8, <2>3, <2>4 DEF Keeps, QuadInv, Spot, Checking, Appending
  <2>6. state' \in Checking \cup Appending
    BY <1>8 DEF Keeps
  <2> QED
    BY <2>5, <2>6
       DEF SpareInv, SavedInv, Early, Writing, Marking, Counting, Checking, Appending, CNaming,
           Hosting, HostStat, Looking
<1>9. CASE Passes
  <2>1. Clear(interblock, AllRoom) /\ \A i \in 1 .. pkt.nAAAA : Saved(i)
    BY <1>9 DEF Passes, SavedInv
  <2>2. intrablock >= CNameBase
    BY <1>9, CNamesBehind DEF Passes, TableInv, CountInv
  <2>3. Clear(interblock, AllRoom)' /\ Clear(interblock, AllRoom + 1)'
    BY <1>2, <1>4, <1>5, <1>6, <2>1, ClearFrom
  <2>4. state' \in Hosting => intrablock' >= CNameBase /\ intrablock' \in Int
    BY <1>3, <1>9, <2>2 DEF Passes, CNaming, Hosting
  <2>5. ASSUME NEW i \in 1 .. pkt.nAAAA PROVE Saved(i)'
    <3>1. PICK j \in Spot : Stored(interblock, pkt.aaaa[i], j)
      BY <2>1, <2>5 DEF Saved
    <3>2. Base(j) + (Quarters - 1) < CNameBase /\ Base(j) \in Int
      BY <1>3, QuadPlaces
    <3>3. state' \in Hosting => Base(j) + Quarters - 1 < intrablock'
      BY <1>3, <2>4, <3>2
    <3>4. Stored(interblock, pkt.aaaa[i], j)'
      BY <1>2, <1>4, <3>1
    <3> QED
      BY <1>5, <3>3, <3>4 DEF Saved, Spot
  <2>6. state' \in CNaming \cup {"CHECK_QHOST"}
    BY <1>9 DEF Passes
  <2> QED
    BY <1>2, <2>3, <2>4, <2>5, <2>6
       DEF SpareInv, QuadInv, SavedInv, Early, Writing, Marking, Counting, Checking, Appending,
           CNaming, Hosting, HostStat, Looking
<1>10. CASE Ends
  <2>1. /\ Clear(interblock, AllRoom + 1)
        /\ \A i \in 1 .. pkt.nAAAA : pkt.aaaa[i][Quarters - 1] # 0 => Saved(i)
        /\ state' \in Hosting \cup HostStat
    BY <1>10 DEF Ends, SavedInv, Hosting, HostStat
  <2>2. Clear(interblock, AllRoom + 1)'
    BY <1>2, <1>4, <1>5, <2>1
  <2>3. state \in {"CHECK_QHOST", "CHECK_QHOST_W"} => Clear(interblock, AllRoom)
    BY DEF SavedInv
  <2>4. state' \in {"CHECK_QHOST", "CHECK_QHOST_W"} => Clear(interblock, AllRoom)'
    BY <1>2, <1>4, <1>5, <1>10, <2>3 DEF Ends, HostStat
  <2>5. ack /\ state = "CHECK_QHOST_W" => answer = Word0(interblock, intrablock)
    BY <1>2, AckFacts DEF TableInv, ReadWaits, Carried
  <2>6. ASSUME NEW i \in 1 .. pkt.nAAAA, pkt.aaaa[i][Quarters - 1] # 0 PROVE Saved(i)'
    <3>1. PICK j \in Spot :
             /\ Stored(interblock, pkt.aaaa[i], j)
             /\ state \in Hosting =>
                   \/ Base(j) + Quarters - 1 < intrablock
                   \/ /\ Base(j) + Quarters - 1 = intrablock
                      /\ state \in {"CHECK_QHOST", "CHECK_QHOST_W"}
      BY <2>1, <2>6 DEF Saved
    <3>2. Base(j) \in Int /\ Stored(interblock, pkt.aaaa[i], j)'
      BY <1>2, <1>4, <3>1, SpotFacts DEF Spot
    <3>3. Base(j) + Quarters - 1 = intrablock => Word0(interblock, intrablock) # 0
      <4>1. Quarters - 1 \in 0 .. Quarters - 1 /\ Base(j) + Quarters - 1 = Base(j) + (Quarters - 1)
        BY <1>3, <3>2
      <4>2. Quad(interblock, j, Quarters - 1) # 0
        BY <2>6, <3>1, <4>1 DEF Stored
      <4> QED
        BY <4>1, <4>2 DEF Quad
    <3>4. state' \in Hosting =>
             \/ Base(j) + Quarters - 1 < intrablock'
             \/ /\ Base(j) + Quarters - 1 = intrablock'
                /\ state' \in {"CHECK_QHOST", "CHECK_QHOST_W"}
      BY <1>3, <1>10, <2>5, <3>1, <3>2, <3>3 DEF Ends, Hosting, HostStat
    <3> QED
      BY <1>2, <1>5, <3>2, <3>4 DEF Saved, Spot
  <2>7. state' \in Hosting => intrablock' >= CNameBase \/ intrablock' <= Base(AllRoom)
    <3>1. state \in Hosting => intrablock >= CNameBase \/ intrablock <= Base(AllRoom)
      BY DEF SavedInv
    <3>2. ASSUME ack, state = "CHECK_QHOST_W", answer # 0, intrablock' = intrablock + 1
          PROVE  intrablock' >= CNameBase \/ intrablock' <= Base(AllRoom)
      <4>1. Base(AllRoom) \in Int
        BY <1>6, SpotFacts
      <4>2. CASE intrablock = Base(AllRoom) /\ AllRoom \in Spot
        <5>1. 0 \in 0 .. Quarters - 1 /\ Base(AllRoom) + 0 = intrablock /\ AllRoom >= AllRoom
          BY <1>3, <1>6, <4>1, <4>2
        <5>2. Quad(interblock, AllRoom, 0) = 0
          BY <2>3, <3>2, <4>2, <5>1 DEF Clear
        <5> QED
          BY <2>5, <3>2, <5>1, <5>2 DEF Quad
      <4>3. CASE intrablock = Base(AllRoom) /\ AllRoom \notin Spot
        <5>1. AllRoom = AAAASlots
          BY <1>3, <1>6, <4>3 DEF Spot
        <5> QED
          BY <1>3, <3>2, <4>3, <5>1, SpotFacts
      <4>4. CASE intrablock # Base(AllRoom)
        BY <1>3, <3>1, <3>2, <4>1, <4>4 DEF Hosting
      <4> QED
        BY <4>2, <4>3, <4>4
    <3> QED
      BY <1>10, <3>1, <3>2 DEF Ends, Hosting, HostStat
  <2> QED
    BY <1>2, <1>5, <2>1, <2>2, <2>4, <2>6, <2>7
       DEF SpareInv, QuadInv, SavedInv, Early, Writing, Marking, Counting, Checking, Appending,
           CNaming, Hosting, HostStat, Looking
<1>11. CASE ack /\ AAAAAnswers(answer)
  <2>1. QuadInv' /\ SavedInv'
    BY <1>11, RecordsInTurn
  <2>2. state' \in {"CHECK_AAAA", "APPEND_AAAA", "CHECK_CNAME", "CHECK_QHOST", "OFFLOAD"}
    BY <1>11
       DEF AAAAAnswers, AnswerCheckAAAA, AnswerAppendAAAA, Goto, StartAAAA, StartCName,
           StartQHost, Overflow
  <2> QED
    BY <2>1, <2>2 DEF SpareInv, Early, Writing, Marking, Counting, Looking
<1> QED
  BY <1>2, <1>7, <1>8, <1>9, <1>10, <1>11, RecordParts

(* An edge keeps the records.                                              *)
LEMMA KeptStep ==
    ASSUME MemInv, TableInv, CountInv, KeptInv, OffloadAfter <= 2, SlotsFit, BothFit,
           Cells >= 2, RecordsFit, AddressesBegin, [MemEdge]_memVars
    PROVE  KeptInv'
<1>1. CASE MemEdge
  <2>1. MemInv' /\ TableInv' /\ CountInv' /\ MachineStep /\ (Stores \/ mem' = mem)
    BY <1>1, MemInvStep, TableStep, CountStep DEF TableInv, MemEdge
  <2>2. CASE Stores
    BY <2>2, KeptStored
  <2>3. CASE mem' = mem
    <3>1. Flow /\ WorkInv' /\ FreshInv' /\ CellInv' /\ AgainInv'
      BY <2>1, MachineFlow DEF TableInv, CountInv
    <3>2. CASE state \in {"IDLE"} \cup Looking \/ state' \in Resting
      BY <2>1, <2>3, <3>1, <3>2, SpareKept
    <3>3. CASE state \notin {"IDLE"} \cup Looking /\ state' \notin Resting
      BY <2>1, <2>3, <3>1, <3>3, RecordsKeptStep
    <3> QED
      BY <3>2, <3>3
  <2> QED
    BY <2>1, <2>2, <2>3
<1>2. CASE UNCHANGED memVars
  <2>1. UNCHANGED <<state, data_count, intrablock, interblock, parsed_pkts, pkt, left, mem>>
    BY <1>2 DEF memVars, vars, place, work
  <2>2. /\ \A c, n : Clear(c, n)' = Clear(c, n) /\ Begun(c, n)' = Begun(c, n)
        /\ \A c, r, j : j \in Spot => Stored(c, r, j)' = Stored(c, r, j)
        /\ \A c, j, q : Quad(c, j, q)' = Quad(c, j, q)
    <3>1. \A c, j, q : Quad(c, j, q)' = Quad(c, j, q)
      BY <2>1 DEF Quad, Word0, Base
    <3> QED
      BY <3>1, QuadsSame
  <2>3. /\ Start' = Start /\ OwnRoom' = OwnRoom /\ AllRoom' = AllRoom
        /\ \A j : Base(j)' = Base(j)
    BY <2>1 DEF Start, OwnRoom, AllRoom, Fresh, Base
  <2>4. SpareInv'
    BY <2>1, <2>2, <2>3 DEF KeptInv, SpareInv
  <2>5. QuadInv'
    <3>1. \A k \in Spot : PartOf(k) => PartOf(k)'
      BY <2>1, <2>2, <2>3 DEF PartOf
    <3>2. \A k \in Spot : ChecksAt(k) => ChecksAt(k)'
      BY <2>1, <2>2, <2>3, <3>1 DEF ChecksAt, Spot
    <3>3. \A k \in Spot : AppendsAt(k) => AppendsAt(k)'
      BY <2>1, <2>2, <2>3, <3>1 DEF AppendsAt, Spot
    <3> QED
      BY <2>1, <3>2, <3>3 DEF KeptInv, QuadInv, Spot
  <2>6. SavedInv'
    <3>1. \A i : Saved(i) => Saved(i)'
      BY <2>1, <2>2, <2>3 DEF Saved, Spot
    <3> QED
      BY <2>1, <2>2, <2>3, <3>1 DEF KeptInv, SavedInv
  <2> QED
    BY <2>4, <2>5, <2>6 DEF KeptInv
<1> QED
  BY <1>1, <1>2

(* When a packet is done, each of its AAAA records is in a slot of its     *)
(* cell, unless it ends with a zero word: no later step of the packet, and *)
(* neither the records, the CNAMEs nor the querying host of the packet     *)
(* before, damages it.                                                     *)
THEOREM AddressesKept ==
    ASSUME OffloadAfter <= 2, SlotsFit, BothFit, Cells >= 2, RecordsFit, AddressesBegin
    PROVE  MemSpec => AAAARecordsKept
<1> DEFINE Inv == MemInv /\ TableInv /\ CountInv /\ KeptInv
<1>1. MemInit => Inv
  <2> SUFFICES ASSUME MemInit PROVE Inv
    OBVIOUS
  <2>1. MemInv /\ TableInv /\ CountInv
    BY MemInitInv, TableInitInv, CountInitInv
  <2>2. state = "IDLE" /\ parsed_pkts = 0
    BY DEF MemInit, Init
  <2>3. KeptInv
    BY <2>2
       DEF KeptInv, SpareInv, QuadInv, SavedInv, Early, Writing, Marking, Counting, Checking,
           Appending, CNaming, Hosting, HostStat
  <2> QED
    BY <2>1, <2>3
<1>2. Inv /\ [MemEdge]_memVars => Inv'
  BY MemInvStep, TableStep, CountStep, KeptStep DEF TableInv
<1>3. Inv /\ [MemEdge]_memVars =>
         [parsed_pkts' = parsed_pkts + 1 =>
            \A i \in 1 .. pkt.nAAAA :
               pkt.aaaa[i][Quarters - 1] # 0 =>
                  \E k \in 0 .. AAAASlots - 1 : AAAASlot(k) = pkt.aaaa[i]]_busVars
  <2> SUFFICES ASSUME Inv, [MemEdge]_memVars, parsed_pkts' = parsed_pkts + 1,
                      NEW i \in 1 .. pkt.nAAAA, pkt.aaaa[i][Quarters - 1] # 0
               PROVE  \E k \in 0 .. AAAASlots - 1 : AAAASlot(k) = pkt.aaaa[i]
    OBVIOUS
  <2>1. MachineStep
    <3>1. parsed_pkts \in Nat
      BY LayoutFacts DEF MemInv, IInv, TypeOK, WorkType
    <3>2. parsed_pkts' # parsed_pkts
      BY <3>1
    <3> QED
      BY <3>2 DEF MemEdge, memVars, vars, work
  <2>2. state \in {"CHECK_QHOST_W", "UPDATE_QHOST_STAT_W"}
    BY <2>1, PacketCounted
  <2>3. Busy /\ hash = 0
    BY <2>2 DEF Busy, Resting, TableInv, WorkInv
  <2>4. pkt.aaaa[i] \in [0 .. Quarters - 1 -> Word]
    <3>1. /\ pkt.nAAAA \in 0 .. AAAAMax /\ AAAAMax \in Nat
          /\ \A j \in 1 .. AAAAMax : pkt.aaaa[j] \in [0 .. Quarters - 1 -> Word]
      BY <2>3, RecordFacts DEF TableInv, CountInv
    <3> QED
      BY <3>1
  <2>5. PICK k \in Spot : Stored(interblock, pkt.aaaa[i], k)
    BY <2>2 DEF KeptInv, SavedInv, Hosting, HostStat, Saved
  <2>6. \A q \in 0 .. Quarters - 1 :
           At(hash, interblock, AAAABase + k * Quarters + q) = pkt.aaaa[i][q]
    BY <2>3, <2>5 DEF Stored, Quad, Base, Word0, At
  <2>7. AAAASlot(k) = pkt.aaaa[i]
    BY <2>4, <2>6 DEF AAAASlot
  <2> QED
    BY <2>5, <2>7 DEF Spot
<1> QED
  BY <1>1, <1>2, <1>3, PTL DEF MemSpec, AAAARecordsKept

=============================================================================
