------------------------- MODULE StorageBench_proofs -------------------------
(***************************************************************************)
(* What the storage machine works with on its bench, at one side the       *)
(* memory and at the other the serial port.                                *)
(*                                                                         *)
(* On the memory of the test bench it is a behaviour of the open machine   *)
(* of Storage, so that all that is proved of that one holds here; the      *)
(* memory keeps its word, so that what StorageTable_proofs says holds as   *)
(* well; and the offload gets what it relies on.  All of this is for every *)
(* latency of the memory and every layout of a cell.                       *)
(*                                                                         *)
(* The bytes of a cell on their way to the host stay in order, and as long *)
(* as none was left out the k-th one that comes is byte k of the cell.     *)
(* This is for every memory, every size of a cell and of the FIFO and      *)
(* every time that the line takes for a bit.                               *)
(***************************************************************************)
EXTENDS StorageRam, SerialDump, StorageTable_proofs, SequenceTheorems

-----------------------------------------------------------------------------
(* The memory: what it promises, and when its bus is busy.                 *)

(* The states in which the strobe may be up.  After the last compare of an *)
(* A record and after APPEND_A_W it is up for one edge more.               *)
Strobed == Expecting \cup {"CHECK_A", "APPEND_A"}

RamType ==
    /\ ram \in [st : {"IDLE", "READ", "WRITE"}, count : 0 .. Latency]
    /\ MemType

(* The memory is busy, or acknowledges, only while a state waits for it.   *)
Handshake ==
    /\ wb.stb => state \in Strobed
    /\ ram.st # "IDLE" => wb.stb /\ state \in Expecting
    /\ ack => wb.stb /\ state \in Expecting /\ ram.st = "IDLE"

(* An offload that reads has the address of the word before the position   *)
(* on the bus, and the acknowledge is that of this address.                *)
OffloadInv ==
    state = "OFFLOAD" /\ wb.stb =>
        /\ ~wb.we /\ ram.st # "WRITE"
        /\ intrablock >= 1
        /\ wb.addr = [Here EXCEPT !.word = intrablock - 1]
        /\ ack => answer = mem[wb.addr]

RamInv == IInv /\ RamType /\ Handshake /\ OffloadInv

(* While the memory works on the next word a byte is offered at every      *)
(* edge.                                                                   *)
OfferedBy(n) == IF n < Bytes THEN n ELSE Bytes
PaceInv ==
    state = "OFFLOAD" /\ wb.stb /\ intrablock > 1 =>
        /\ data_count <= Bytes
        /\ data_count >= OfferedBy(1)
        /\ ram.st # "IDLE" => data_count >= OfferedBy(2 + ram.count)
        /\ ack => data_count >= OfferedBy(3 + Latency)

-----------------------------------------------------------------------------
(* The steps of the memory, and of the machine, by what they may use of    *)
(* one another.                                                            *)

(* The memory starts an access only when it sees the strobe, and ends one  *)
(* with an acknowledge of one edge.                                        *)
LEMMA RamStepFacts ==
    ASSUME RamType, wb \in [addr : Address, dat : Word, we : BOOLEAN, stb : BOOLEAN], RamStep
    PROVE  /\ RamType'
           /\ ram.st = "IDLE" => ~ack'
           /\ ram.st = "IDLE" /\ (ack \/ ~wb.stb) => ram'.st = "IDLE"
           /\ ram.st = "IDLE" /\ ~wb.we => ram'.st # "WRITE"
           /\ ram.st = "IDLE" /\ ram'.st # "IDLE" => ram'.count = 0
           /\ ram.st # "IDLE" /\ ~ack => \/ /\ ram'.st = ram.st /\ ~ack'
                                            /\ ram'.count = ram.count + 1
                                         \/ /\ ram'.st = "IDLE" /\ ack'
                                            /\ ram.count = Latency
           /\ ram.st # "WRITE" => mem' = mem /\ (ack' /\ ~ack => answer' = mem[wb.addr])
<1> USE RamAssumption, WordFacts DEF RamType, MemType
<1>1. CASE RamIdle
  <2>1. ram.st = "IDLE" /\ ~ack' /\ answer' = 0 /\ mem' = mem /\ ack' \in BOOLEAN
    BY <1>1 DEF RamIdle
  <2>2. CASE wb.stb /\ ~ack
    <3>1. ram' = [st |-> IF wb.we THEN "WRITE" ELSE "READ", count |-> 0]
      BY <1>1, <2>2 DEF RamIdle
    <3>2. ram'.st = (IF wb.we THEN "WRITE" ELSE "READ") /\ ram'.count = 0
      BY <3>1
    <3>3. ram' \in [st : {"IDLE", "READ", "WRITE"}, count : 0 .. Latency]
      BY <3>1
    <3> QED
      BY <2>1, <2>2, <3>2, <3>3
  <2>3. CASE ~(wb.stb /\ ~ack)
    <3>1. ram' = ram
      BY <1>1, <2>3 DEF RamIdle
    <3> QED
      BY <2>1, <3>1
  <2> QED
    BY <2>2, <2>3
<1>2. CASE RamCount
  BY <1>2 DEF RamCount
<1>3. CASE RamRead
  BY <1>3 DEF RamRead
<1>4. CASE RamWrite
  BY <1>4 DEF RamWrite
<1> QED
  BY <1>1, <1>2, <1>3, <1>4 DEF RamStep

-----------------------------------------------------------------------------
(* Every edge keeps the handshake, and the order of the offload.           *)

(* What the machine does before an edge, as far as the bus shows it.       *)
LEMMA MachineFacts ==
    ASSUME IInv, Handshake, MachineStep
    PROVE  \/ /\ state \notin Expecting /\ ~wb.stb /\ ~wb'.stb
              /\ state' \in States \ Expecting
           \/ Requests \/ ZeroWord \/ IdleOffload
           \/ ack /\ Answers(answer)
           \/ ack /\ \E rdy \in UartReady : AnswerOffloadWord(answer, rdy)
           \/ ~ack /\ state \in Expecting /\ UNCHANGED <<state, wb, place>>
<1> USE DEF Expecting, Strobed, States, WaitStates, ReadWaits, WriteWaits
<1>1. CASE Rest \/ Take \/ Hash
  <2>1. /\ state \in {"IDLE", "HASHING"} /\ wb' = wb
        /\ state' \in {"IDLE", "HASHING", "CHECK_CELLS"}
    BY <1>1 DEF Rest, Take, Hash, IdleQuiet, Capture, HashDone, HashBusy, Goto
  <2> QED
    BY <2>1 DEF Handshake
<1>2. CASE Unanswered
  <2>1. CASE Wait
    BY <1>2, <2>1 DEF Unanswered, Wait, vars
  <2>2. CASE Serve
    BY <1>2, <2>2 DEF Unanswered, Serve, OffloadByte, Goto, vars, place
  <2> QED
    BY <1>2, <2>1, <2>2 DEF Unanswered
<1> QED
  BY <1>1, <1>2 DEF MachineStep, Ask, Answered

(* An edge keeps the handshake and, in an offload, the order of the reads. *)
LEMMA HandshakeStep ==
    ASSUME IInv, RamType, Handshake, OffloadInv, MachineStep, RamStep
    PROVE  Handshake' /\ OffloadInv'
<1> USE DEF RamType, MemType, Handshake, Strobed, Expecting
<1>1. /\ BusType /\ PlaceType
      /\ state = "OFFLOAD" => ~wb.we \/ ~wb.stb
  BY DEF IInv, TypeOK, BusInv, WriteWaits
<1>2. /\ ram.st = "IDLE" => ~ack'
      /\ ram.st = "IDLE" /\ (ack \/ ~wb.stb) => ram'.st = "IDLE"
      /\ ram.st = "IDLE" /\ ~wb.we => ram'.st # "WRITE"
      /\ ram.st # "IDLE" /\ ~ack => \/ ram'.st = ram.st /\ ~ack'
                                    \/ ram'.st = "IDLE" /\ ack'
      /\ ram.st # "WRITE" => mem' = mem /\ (ack' /\ ~ack => answer' = mem[wb.addr])
  BY <1>1, RamStepFacts DEF BusType
<1>3. CASE /\ state \notin Expecting /\ ~wb.stb /\ ~wb'.stb
           /\ state' \in States \ Expecting
  BY <1>2, <1>3 DEF OffloadInv
<1>4. CASE Requests
  BY <1>2, <1>4, RequestFacts DEF OffloadInv, WaitStates, ReadWaits, WriteWaits
<1>5. CASE ZeroWord
  <2>1. state = "ZERO" /\ state' = "ZERO_WAIT" /\ wb'.stb
    BY <1>1, <1>5 DEF ZeroWord, BusType
  <2> QED
    BY <1>2, <2>1 DEF OffloadInv, WaitStates, ReadWaits, WriteWaits
<1>6. CASE IdleOffload
  <2>1. /\ state = "IDLE" /\ state' = "OFFLOAD" /\ intrablock' = 1
        /\ interblock' = interblock /\ hash' = hash
    BY <1>6 DEF IdleOffload, Goto
  <2>2. /\ wb'.addr = [Here EXCEPT !.word = 0] /\ wb'.stb /\ ~wb'.we
    BY <1>1, <1>6 DEF IdleOffload, BusType
  <2>3. [Here EXCEPT !.word = 0] = [Here EXCEPT !.word = intrablock - 1]'
    BY <2>1 DEF Here
  <2>4. ram'.st = "IDLE" /\ ~ack'
    BY <1>2, <2>1 DEF WaitStates, ReadWaits, WriteWaits
  <2> QED
    BY <2>1, <2>2, <2>3, <2>4 DEF OffloadInv
<1>7. CASE ack /\ Answers(answer)
  <2>1. /\ state \in Expecting
        /\ state' \in (States \ Expecting) \cup {"OFFLOAD"}
        /\ wb'.stb => state' \in {"CHECK_A", "APPEND_A"}
    BY <1>1, <1>7, AnswerFacts
  <2>2. ram'.st = "IDLE" /\ ~ack'
    BY <1>2, <1>7
  <2> QED
    BY <2>1, <2>2 DEF OffloadInv
<1>8. CASE ack /\ \E rdy \in UartReady : AnswerOffloadWord(answer, rdy)
  <2>1. /\ state = "OFFLOAD" /\ state' = "OFFLOAD" /\ intrablock' = intrablock + 1
        /\ wb' = [wb EXCEPT !.addr = Here]
        /\ interblock' = interblock /\ hash' = hash
    BY <1>8 DEF AnswerOffloadWord, Goto
  <2>2. wb'.addr = Here /\ wb'.stb = wb.stb /\ wb'.we = wb.we
    BY <1>1, <2>1 DEF BusType
  <2>3. intrablock \in Nat
    BY <1>1, LayoutFacts DEF PlaceType, Offset
  <2>4. Here = [Here EXCEPT !.word = intrablock - 1]'
    BY <2>1, <2>3 DEF Here
  <2>5. ram'.st = "IDLE" /\ ~ack'
    BY <1>2, <1>8
  <2> QED
    BY <1>8, <2>1, <2>2, <2>3, <2>4, <2>5 DEF OffloadInv
<1>9. CASE ~ack /\ state \in Expecting /\ UNCHANGED <<state, wb, place>>
  <2>1. Handshake'
    BY <1>2, <1>9
  <2>2. Here' = Here /\ intrablock' = intrablock
    BY <1>9 DEF Here, place
  <2> QED
    BY <1>2, <1>9, <2>1, <2>2 DEF OffloadInv
<1> QED
  BY <1>3, <1>4, <1>5, <1>6, <1>7, <1>8, <1>9, MachineFacts

-----------------------------------------------------------------------------
(* The composition is a behaviour of the open machine.                     *)

(* What the proof of the invariant consists of.                            *)
LEMMA RamInitInv == RamInitAll => RamInv
<1> SUFFICES ASSUME RamInitAll PROVE RamInv
  OBVIOUS
<1>1. IInv
  BY InitInv DEF RamInitAll
<1>2. RamType
  <2>1. ram = [st |-> "IDLE", count |-> 0] /\ ~ack /\ answer = 0 /\ mem \in PowerUpMems
    BY DEF RamInitAll, RamInit
  <2>2. ack \in BOOLEAN
    BY DEF RamInitAll, RamInit
  <2>3. ram \in [st : {"IDLE", "READ", "WRITE"}, count : 0 .. Latency]
    BY <2>1, RamAssumption
  <2>4. mem \in [Address -> Word]
    BY <2>1, RamAssumption
  <2> QED
    BY <2>1, <2>2, <2>3, <2>4, WordFacts DEF RamType, MemType
<1>3. ~wb.stb /\ state = "IDLE"
  BY DEF RamInitAll, Init
<1>4. ram.st = "IDLE" /\ ~ack
  BY DEF RamInitAll, RamInit
<1> QED
  BY <1>1, <1>2, <1>3, <1>4 DEF RamInv, Handshake, OffloadInv

(* An edge of the composition keeps it.                                    *)
LEMMA RamInvStep == ASSUME RamInv, [Clock]_allVars PROVE RamInv'
<1>1. CASE Clock
  <2>1. IInv'
    BY <1>1, MachineStepIsNext, NextInv DEF Clock, RamInv, RamType
  <2>2. RamType'
    BY <1>1, RamStepFacts DEF Clock, RamInv, IInv, TypeOK, BusType
  <2>3. Handshake' /\ OffloadInv'
    BY <1>1, HandshakeStep DEF Clock, RamInv
  <2> QED
    BY <2>1, <2>2, <2>3 DEF RamInv
<1>2. CASE UNCHANGED allVars
  <2>1. UNCHANGED <<vars, ram, mem, ack, answer>>
    BY <1>2 DEF allVars, busVars
  <2>2. IInv'
    BY <2>1, NextInv DEF RamInv
  <2>3. UNCHANGED <<state, wb, intrablock, Here>>
    BY <2>1 DEF vars, place, Here
  <2>4. RamType' /\ Handshake' /\ OffloadInv'
    BY <2>1, <2>3 DEF RamInv, RamType, MemType, Handshake, OffloadInv
  <2> QED
    BY <2>2, <2>4 DEF RamInv
<1> QED
  BY <1>1, <1>2

(* The machine, the hash unit and the memory together keep the inductive   *)
(* invariant.                                                              *)
THEOREM RamInvariant == RamSpec => []RamInv
BY RamInitInv, RamInvStep, PTL DEF RamSpec

(* The storage machine on its memory implements the open machine: what     *)
(* holds whatever a memory answers holds with this one.                    *)
THEOREM RamImplementsStorage == RamSpec => Spec
<1>1. RamInitAll => Init
  BY DEF RamInitAll
<1>2. ASSUME RamInv, [Clock]_allVars PROVE [Next]_vars
  BY <1>2, MachineStepIsNext DEF RamInv, RamType, Clock, allVars, busVars
<1> QED
  BY <1>1, <1>2, RamInvariant, PTL DEF RamSpec, Spec

(* The acknowledge that an offload takes carries the word before the       *)
(* position, whatever the latency of the memory.                           *)
THEOREM OffloadInOrder == RamSpec => []OffloadReadsInOrder
<1>1. RamInv => OffloadReadsInOrder
  BY DEF RamInv, Handshake, OffloadInv, OffloadReadsInOrder
<1> QED
  BY <1>1, RamInvariant, PTL

-----------------------------------------------------------------------------
(* The memory keeps its word.  The direction of an access is the one of    *)
(* the state that waits for it, except for those that are carried over.    *)
RamAccess ==
    /\ ram.st = "WRITE" => state \in WriteWaits \cup {"CHECK_A_W"}
    /\ ram.st = "READ" => state \in ReadWaits \cup {"OFFLOAD", "APPEND_A_W"}
    /\ AccessInv

(* An edge is one at which the memory writes, or one at which it does not. *)
LEMMA StoresOrNot ==
    ASSUME RamInv, RamAccess, Clock
    PROVE  MachineStep /\ (Stores \/ mem' = mem)
<1>1. MachineStep /\ RamStep
  BY DEF Clock
<1>2. CASE RamWrite
  <2>1. ram.st = "WRITE" /\ mem' = [mem EXCEPT ![wb.addr] = wb.dat]
    BY <1>2 DEF RamWrite
  <2>2. state \in WriteWaits \cup {"CHECK_A_W"} /\ ~ack
    BY <2>1 DEF RamAccess, RamInv, Handshake
  <2>3. state \in WaitStates /\ state # "OFFLOAD"
    BY <2>2 DEF WaitStates, ReadWaits, WriteWaits
  <2>4. UNCHANGED vars
    BY <1>1, <2>2, <2>3
       DEF MachineStep, Rest, Take, Hash, Ask, Answered, Unanswered, Wait, Serve, IdleQuiet,
           Capture, HashDone, HashBusy, ZeroWord, IdleOffload, Requests, CheckCells,
           CheckName, ReadStats, CheckA, CheckAAAA, CheckCName, CheckQHost, ReadQHostStat,
           WriteQName, SetInUse, UpdateStats, AppendAAAA, AppendCName, WriteQHost,
           UpdateQHostStat, AppendA, Request, OffloadByte, WaitStates, ReadWaits, WriteWaits
  <2> QED
    BY <1>1, <2>1, <2>2, <2>4 DEF Stores
<1>3. CASE RamIdle \/ RamCount \/ RamRead
  BY <1>1, <1>3 DEF RamIdle, RamCount, RamRead
<1> QED
  BY <1>1, <1>2, <1>3 DEF RamStep

(* An edge keeps what an acknowledge means.                                *)
LEMMA RamAccessStep ==
    ASSUME RamInv, RamAccess, Clock
    PROVE  RamAccess'
<1> USE DEF Carried, AccessInv
<1>1. /\ RamType /\ Handshake /\ BusType /\ IInv
      /\ wb.addr \in Address /\ wb.dat \in Word /\ mem \in [Address -> Word]
  BY DEF RamInv, IInv, TypeOK, BusType, RamType, MemType
<1>2. MachineStep /\ RamStep
  BY DEF Clock
<1>3. ASSUME state' = state, wb' = wb, ~ack, state \in Expecting PROVE RamAccess'
  <2>1. CASE RamIdle
    <3>1. ram.st = "IDLE" /\ ~ack' /\ (ram'.st = "READ" => ~wb.we) /\ (ram'.st = "WRITE" => wb.we)
          /\ (ram'.st # "IDLE" => wb.stb)
      BY <1>1, <2>1 DEF RamIdle, BusType
    <3>2. wb.stb /\ wb.we => state \in WriteWaits
      BY <1>1, <1>3 DEF IInv, BusInv, Expecting, WaitStates, ReadWaits, WriteWaits
    <3>3. wb.stb /\ ~wb.we => state \in ReadWaits \cup {"OFFLOAD"}
      BY <1>1, <1>3 DEF IInv, BusInv, Expecting, WaitStates, ReadWaits, WriteWaits
    <3> QED
      BY <1>3, <3>1, <3>2, <3>3 DEF RamAccess
  <2>2. CASE RamCount
    <3>1. ram'.st = ram.st /\ ~ack'
      BY <1>1, <1>3, <2>2 DEF RamCount, RamType
    <3> QED
      BY <1>3, <3>1 DEF RamAccess
  <2>3. CASE RamRead
    <3>1. ram.st = "READ" /\ ram'.st = "IDLE" /\ answer' = mem[wb.addr] /\ mem' = mem
      BY <1>1, <2>3 DEF RamRead, RamType
    <3> QED
      BY <1>3, <3>1 DEF RamAccess, ReadWaits, WriteWaits
  <2>4. CASE RamWrite
    <3>1. ram.st = "WRITE" /\ ram'.st = "IDLE" /\ mem'[wb.addr] = wb.dat
      BY <1>1, <2>4 DEF RamWrite, RamType
    <3> QED
      BY <1>3, <3>1 DEF RamAccess, ReadWaits, WriteWaits
  <2> QED
    BY <1>2, <2>1, <2>2, <2>3, <2>4 DEF RamStep
<1>4. ASSUME ram.st = "IDLE", ack \/ ~wb.stb PROVE RamAccess'
  <2>1. ram'.st = "IDLE" /\ ~ack'
    BY <1>1, <1>2, <1>4, RamStepFacts DEF BusType
  <2> QED
    BY <2>1 DEF RamAccess
<1>5. ASSUME ram.st = "IDLE", state \in {"CHECK_A", "APPEND_A"}, ~ack,
             state = "CHECK_A" => state' = "CHECK_A_W",
             state = "APPEND_A" => state' = "APPEND_A_W"
      PROVE  RamAccess'
  <2>1. wb.stb /\ wb.we => state = "CHECK_A"
    BY <1>1, <1>5 DEF IInv, BusInv, WriteWaits
  <2>2. ~ack' /\ (ram'.st = "WRITE" => wb.we) /\ (ram'.st # "IDLE" => wb.stb)
    BY <1>1, <1>2, <1>5 DEF RamStep, RamIdle, RamCount, RamRead, RamWrite
  <2> QED
    BY <1>5, <2>1, <2>2 DEF RamAccess, ReadWaits, WriteWaits
<1>6. state \notin Expecting => ram.st = "IDLE" /\ ~ack
  BY <1>1 DEF Handshake, RamType
<1>7. wb.stb => state \in Strobed
  BY <1>1 DEF Handshake
<1>8. CASE Requests
  <2>1. state \notin Expecting /\ (state \in {"CHECK_A", "APPEND_A"} \/ ~wb.stb)
    BY <1>7, <1>8, RequestFacts DEF Strobed
  <2>2. /\ state = "CHECK_A" => state' = "CHECK_A_W"
        /\ state = "APPEND_A" => state' = "APPEND_A_W"
    BY <1>8
       DEF Requests, CheckCells, CheckName, ReadStats, CheckA, CheckAAAA,
           CheckCName,
       CheckQHost, ReadQHostStat, WriteQName, SetInUse, UpdateStats, AppendAAAA,
       AppendCName, WriteQHost, UpdateQHostStat, AppendA, Request
  <2> QED
    BY <1>4, <1>5, <1>6, <1>8, <2>1, <2>2, RequestFacts
<1>9. CASE ZeroWord \/ IdleOffload
  <2>1. state \notin Expecting /\ ~wb.stb
    BY <1>7, <1>9 DEF ZeroWord, IdleOffload, Strobed, Expecting, WaitStates, ReadWaits,
       WriteWaits
  <2> QED
    BY <1>4, <1>6, <2>1
<1>10. CASE ack
  BY <1>1, <1>4, <1>10 DEF Handshake
<1> QED
  BY <1>1, <1>2, <1>3, <1>4, <1>6, <1>8, <1>9, <1>10, MachineFacts

(* Started with zeroes, the memory of the test bench is one that keeps its *)
(* word: each step of the two is a step of StorageTable_proofs.            *)
THEOREM RamKeepsItsWord ==
    ASSUME PowerUpMems = {ZeroMem}
    PROVE  RamSpec => MemSpec
<1>1. RamInitAll => MemInit /\ RamAccess
  <2> SUFFICES ASSUME RamInitAll PROVE MemInit /\ RamAccess
    OBVIOUS
  <2>1. Init /\ mem = ZeroMem /\ ack = FALSE /\ answer = 0 /\ ram.st = "IDLE"
    BY DEF RamInitAll, RamInit
  <2> QED
    BY <2>1, WordFacts DEF MemInit, RamAccess, AccessInv
<1>2. ASSUME RamInv, RamAccess, [Clock]_allVars
      PROVE  RamAccess' /\ [MemEdge]_memVars
  <2>1. CASE Clock
    <3>1. RamAccess' /\ MachineStep /\ (Stores \/ mem' = mem)
      BY <1>2, <2>1, StoresOrNot, RamAccessStep
    <3>2. MemType' /\ AccessInv'
      BY <1>2, <3>1, RamInvStep DEF RamInv, RamType, RamAccess
    <3> QED
      BY <3>1, <3>2 DEF MemEdge
  <2>2. CASE UNCHANGED allVars
    <3>1. UNCHANGED <<vars, ram, mem, ack, answer>>
      BY <2>2 DEF allVars, busVars
    <3>2. UNCHANGED <<state, wb>>
      BY <3>1 DEF vars
    <3> QED
      BY <1>2, <3>1, <3>2 DEF RamAccess, AccessInv, memVars
  <2> QED
    BY <1>2, <2>1, <2>2
<1> QED
  BY <1>1, <1>2, RamInvariant, PTL DEF RamSpec, MemSpec

(* A new name goes to a cell that has no statistics, whatever the latency  *)
(* of the memory, the layout of a cell and the packets.                    *)
THEOREM RamFreeCellTaken ==
    ASSUME OffloadAfter <= 2, PowerUpMems = {ZeroMem}, SlotsFit
    PROVE  RamSpec => []CellTakenIsFree
BY RamKeepsItsWord, FreeCellTaken, PTL

(* The statistics that are written are those of the packet's own name, if  *)
(* no name of a packet is the tail of another one.                         *)
THEOREM RamOwnStatistics ==
    ASSUME OffloadAfter <= 2, PowerUpMems = {ZeroMem}, SlotsFit, NoTails
    PROVE  RamSpec => []StatisticsOfTheName
BY RamKeepsItsWord, OwnStatistics, PTL

(* The storage machine and the memory of the test bench count like a       *)
(* table: each packet is added once to each counter of its own name and to *)
(* no other.                                                               *)
THEOREM RamCountsAsTable ==
    ASSUME OffloadAfter <= 2, PowerUpMems = {ZeroMem}, SlotsFit, BothFit, NoTails, Cells >= 2
    PROVE  RamSpec => CountsLikeATable
BY RamKeepsItsWord, CountsAsTable, PTL

(* The AAAA records of a finished packet are in the slots of its cell, if  *)
(* those of two packets fit there and none begins with a zero word.        *)
THEOREM RamAddressesKept ==
    ASSUME OffloadAfter <= 2, PowerUpMems = {ZeroMem}, SlotsFit, BothFit, Cells >= 2,
           RecordsFit, AddressesBegin
    PROVE  RamSpec => AAAARecordsKept
BY RamKeepsItsWord, AddressesKept, PTL

-----------------------------------------------------------------------------
(* The pace of an offload: the memory takes Latency + 3 edges from one     *)
(* acknowledge to the next, and a byte goes out at each.                   *)

(* Without an acknowledge an offload offers a byte at every edge, if the   *)
(* UART is always ready.                                                   *)
LEMMA ServeFacts ==
    ASSUME RamInv, UartReady = {TRUE}, state = "OFFLOAD", ~ack, MachineStep
    PROVE  /\ data_count' = IF data_count < Bytes THEN data_count + 1 ELSE data_count
           /\ UNCHANGED <<state, wb, place>>
<1>1. CASE Rest \/ Take \/ Hash
  BY <1>1 DEF Rest, Take, Hash, IdleQuiet, Capture, HashDone, HashBusy
<1>2. CASE Ask
  BY <1>2, RequestFacts DEF Ask, ZeroWord, IdleOffload, Expecting
<1>3. CASE Unanswered
  <2>1. OffloadByte
    BY <1>3 DEF Unanswered, Wait, Serve, WaitStates, ReadWaits, WriteWaits
  <2> QED
    BY <2>1 DEF OffloadByte, Goto, place
<1> QED
  BY <1>1, <1>2, <1>3 DEF MachineStep, Answered

(* The next byte that is offered.                                          *)
LEMMA OfferedNext ==
    ASSUME NEW n \in Nat, NEW c \in Nat, c <= Bytes, c >= OfferedBy(n)
    PROVE  /\ (IF c < Bytes THEN c + 1 ELSE c) <= Bytes
           /\ (IF c < Bytes THEN c + 1 ELSE c) >= OfferedBy(n + 1)
BY LayoutFacts DEF OfferedBy

(* An edge keeps the offload ahead of the memory.                          *)
LEMMA PaceStep ==
    ASSUME RamInv, PaceInv, UartReady = {TRUE}, MachineStep, RamStep
    PROVE  PaceInv'
<1>1. /\ BusType /\ PlaceType /\ RamType /\ Handshake /\ IInv
      /\ data_count \in Nat /\ Bytes \in Nat \ {0} /\ Latency \in Nat /\ intrablock \in Nat
  BY LayoutFacts, RamAssumption DEF RamInv, IInv, TypeOK, PlaceType, DataCount, Offset
<1> SUFFICES ASSUME state' = "OFFLOAD", wb'.stb, intrablock' > 1
             PROVE  /\ data_count' <= Bytes
                    /\ data_count' >= OfferedBy(1)
                    /\ ram'.st # "IDLE" => data_count' >= OfferedBy(2 + ram'.count)
                    /\ ack' => data_count' >= OfferedBy(3 + Latency)
  BY DEF PaceInv, OfferedBy
<1>2. /\ ram.st = "IDLE" => ~ack'
      /\ ram.st = "IDLE" /\ ack => ram'.st = "IDLE"
      /\ ram.st = "IDLE" /\ ram'.st # "IDLE" => ram'.count = 0
      /\ ram.st # "IDLE" /\ ~ack => \/ /\ ram'.st = ram.st /\ ~ack'
                                       /\ ram'.count = ram.count + 1
                                    \/ /\ ram'.st = "IDLE" /\ ack'
                                       /\ ram.count = Latency
      /\ ram.count \in Nat
  BY <1>1, RamStepFacts DEF BusType, RamType
<1>3. CASE ack /\ \E rdy \in UartReady : AnswerOffloadWord(answer, rdy)
  <2>1. data_count' = 1
    BY <1>3 DEF AnswerOffloadWord, Goto
  <2>2. ram'.st = "IDLE" /\ ~ack'
    BY <1>1, <1>2, <1>3 DEF Handshake
  <2> QED
    BY <1>1, <2>1, <2>2 DEF OfferedBy
<1>4. CASE ~ack /\ state \in Expecting /\ UNCHANGED <<state, wb, place>>
  <2>1. state = "OFFLOAD" /\ wb.stb /\ intrablock > 1
    BY <1>4 DEF place
  <2>2. data_count' = IF data_count < Bytes THEN data_count + 1 ELSE data_count
    BY <1>4, <2>1, ServeFacts
  <2>3. /\ data_count <= Bytes
        /\ data_count >= OfferedBy(1)
        /\ ram.st # "IDLE" => data_count >= OfferedBy(2 + ram.count)
    BY <2>1 DEF PaceInv
  <2>4. data_count' <= Bytes /\ data_count' >= OfferedBy(2)
    BY <1>1, <2>2, <2>3, OfferedNext
  <2>5. data_count' >= OfferedBy(1)
    BY <1>1, <2>2, <2>3 DEF OfferedBy
  <2>6. CASE ram.st = "IDLE"
    BY <1>2, <2>4, <2>5, <2>6
  <2>7. CASE ram.st # "IDLE"
    <3>1. 2 + ram.count \in Nat /\ (2 + ram.count) + 1 = 3 + ram.count
      BY <1>2
    <3>2. data_count' >= OfferedBy(3 + ram.count)
      BY <1>1, <2>2, <2>3, <2>7, <3>1, OfferedNext
    <3>3. CASE ram'.st = ram.st /\ ~ack' /\ ram'.count = ram.count + 1
      <4>1. 2 + ram'.count = 3 + ram.count
        BY <1>2, <3>3
      <4> QED
        BY <2>4, <2>5, <3>2, <3>3, <4>1
    <3>4. CASE ram'.st = "IDLE" /\ ack' /\ ram.count = Latency
      BY <2>4, <2>5, <3>2, <3>4
    <3> QED
      BY <1>2, <1>4, <2>7, <3>3, <3>4
  <2> QED
    BY <2>6, <2>7
<1>5. CASE Requests \/ ZeroWord
  BY <1>5, RequestFacts DEF ZeroWord, WaitStates, ReadWaits, WriteWaits
<1>6. CASE IdleOffload
  BY <1>6 DEF IdleOffload, Goto
<1>7. CASE ack /\ Answers(answer)
  BY <1>1, <1>7, AnswerFacts
<1> QED
  BY <1>1, <1>3, <1>4, <1>5, <1>6, <1>7, MachineFacts DEF Expecting

(* When the next word replaces one that is being sent, all bytes of that   *)
(* one have been offered, provided that the memory is slow enough: a word  *)
(* has at most as many bytes as there are edges between two acknowledges.  *)
(* In the code they are 4 and 6.                                           *)
THEOREM OffloadKeepsPace ==
    ASSUME Bytes <= Latency + 3, UartReady = {TRUE}
    PROVE  RamSpec => OffloadDropsNoByte
<1>1. RamInitAll => PaceInv
  BY DEF RamInitAll, Init, PaceInv
<1>2. ASSUME RamInv, PaceInv, [Clock]_allVars PROVE PaceInv'
  <2>1. CASE Clock
    BY <1>2, <2>1, PaceStep DEF Clock
  <2>2. CASE UNCHANGED allVars
    <3>1. UNCHANGED <<state, wb, intrablock, data_count, ram, ack>>
      BY <2>2 DEF allVars, busVars, vars, place
    <3> QED
      BY <1>2, <3>1 DEF PaceInv, OfferedBy
  <2> QED
    BY <1>2, <2>1, <2>2
<1>3. ASSUME RamInv, PaceInv, [Clock]_allVars
      PROVE  [state = "OFFLOAD" /\ intrablock > 1 /\ intrablock' = intrablock + 1 =>
                data_count = Bytes]_busVars
  <2> SUFFICES ASSUME Clock, state = "OFFLOAD", intrablock > 1,
                      intrablock' = intrablock + 1
               PROVE  data_count = Bytes
    BY <1>3 DEF allVars
  <2>1. /\ IInv /\ Handshake /\ MachineStep
        /\ data_count \in Nat /\ Bytes \in Nat /\ Latency \in Nat /\ intrablock \in Nat
    BY <1>3, LayoutFacts, RamAssumption
       DEF RamInv, IInv, TypeOK, PlaceType, DataCount, Offset, Clock
  <2>2. ack
    <3>1. SUFFICES ASSUME ~ack PROVE intrablock' = intrablock
      BY <2>1
    <3> QED
      BY <1>3, <2>1, <3>1, ServeFacts DEF place
  <2>3. wb.stb
    BY <2>1, <2>2 DEF Handshake
  <2>4. data_count <= Bytes /\ data_count >= OfferedBy(3 + Latency)
    BY <1>3, <2>2, <2>3 DEF PaceInv
  <2> QED
    BY <2>1, <2>4 DEF OfferedBy
<1> QED
  BY <1>1, <1>2, <1>3, RamInvariant, PTL DEF RamSpec, OffloadDropsNoByte

-----------------------------------------------------------------------------
(* The serial port: what is on the way to the host.                        *)

Byte == [word : 0 .. BlockWords, byte : -1 .. Bytes - 1]

(* The byte that was offered last, or would have been.                     *)
Newest == [word |-> latched, byte |-> data_count - 1]

MachineType ==
    /\ data_count \in 0 .. Bytes /\ latched \in 0 .. BlockWords
    /\ intrablock \in Offset /\ interblock \in Cell /\ hash \in Row
    /\ uart \in [valid : BOOLEAN, word : 0 .. BlockWords, byte : 0 .. Bytes - 1]
    /\ wb \in [addr : Address, dat : Word, we : BOOLEAN, stb : BOOLEAN]
    /\ clean \in BOOLEAN
LineType ==
    /\ fifo \in Seq(Byte) /\ last \in Byte
    /\ tx \in [st : {"IDLE", "FRAME", "END"}, ready : BOOLEAN, byte : Byte]

(* Where the offload is: the word on the bus is one behind the position,   *)
(* the word that goes out is one behind that.                              *)
OffloadPlace ==
    /\ state \in {"IDLE", "OFFLOAD", "ZERO"}
    /\ state = "IDLE" => intrablock = 0 /\ ~uart.valid
    /\ state = "OFFLOAD" => intrablock >= 1 /\ wb.addr.word = intrablock - 1
    /\ state # "ZERO" => latched = IF intrablock <= 1 THEN Stray ELSE intrablock - 2
    /\ state = "ZERO" => latched = BlockWords - 3
    /\ latched = Stray \/ latched <= BlockWords - 3
    /\ uart.valid => Offered = Newest

(* The order on the way, part by part: one that is there before another    *)
(* one comes before it in the cell.                                        *)
Below(b, c) == Pos(b) < Pos(c) \/ (state = "ZERO" /\ Pos(b) = Pos(c))
Gone == IF tx.st = "FRAME" THEN {last, tx.byte} ELSE {last}
InFifo == {fifo[i] : i \in 1 .. Len(fifo)}

GoneInv  == tx.st = "FRAME" => ~tx.ready /\ Below(last, tx.byte)
QueueInv ==
    /\ \A b \in Gone, i \in 1 .. Len(fifo) : Below(b, fifo[i])
    /\ \A i, j \in 1 .. Len(fifo) : i < j => Below(fifo[i], fifo[j])
NewestInv ==
    \A b \in Gone \cup InFifo :
       /\ Pos(b) <= Pos(Newest)
       /\ uart.valid => Below(b, Offered)

OrderInv == MachineType /\ LineType /\ OffloadPlace /\ GoneInv /\ QueueInv /\ NewestInv

(* The place that a byte is counted at by the tester.  After the offload   *)
(* the last byte may come again.                                           *)
CountedAt(b, n) ==
    /\ b.byte >= 0
    /\ Pos(b) = n \/ (state = "ZERO" /\ b = Newest /\ Pos(Newest) < n)
OnLine == IF tx.st = "FRAME" THEN 1 ELSE 0
Missing == IF uart.valid THEN 0 ELSE 1
PlaceInv ==
    host.script = "tester" /\ host.block = "first" /\ clean =>
        /\ host.nread = 0 \/ CountedAt(last, host.nread - 1)
        /\ tx.st = "FRAME" => CountedAt(tx.byte, host.nread)
        /\ \A i \in 1 .. Len(fifo) : CountedAt(fifo[i], host.nread + OnLine + i - 1)
        /\ uart.valid => CountedAt(Offered, host.nread + OnLine + Len(fifo))
        /\ state # "ZERO" =>
              Pos(Newest) = (host.nread + OnLine + Len(fifo)) - Missing
        /\ latched = Stray => Pos(Newest) = -1
ScriptType ==
    host \in [script : {"tester", "update"}, nread : Nat,
             block : {"first", "later", "done"}]

-----------------------------------------------------------------------------
(* Positions.                                                              *)

(* The position of a byte, and that of the first byte of a word, which is  *)
(* one more than that of the last byte of the word before.                 *)
LEMMA PosFacts ==
    /\ Bytes \in Nat \ {0} /\ BlockWords \in Nat /\ Stray = BlockWords
    /\ \A b \in Byte : Pos(b) \in Int
    /\ \A n \in Int : BlockWords + 0 # n => Pos([word |-> n, byte |-> -1]) = n * Bytes - 1
    /\ \A m \in -1 .. Bytes - 1 : Pos([word |-> Stray, byte |-> m]) = m - Bytes
    /\ \A n \in Int, m \in Int : n # Stray => Pos([word |-> n, byte |-> m]) = n * Bytes + m
    /\ \A n \in Int : n * Bytes \in Int /\ n * Bytes + Bytes = (n + 1) * Bytes
<1>1. Bytes \in Nat \ {0} /\ BlockWords \in Nat /\ Stray = BlockWords
  BY LayoutFacts DEF Stray
<1>2. \A n \in Int : n * Bytes \in Int /\ n * Bytes + Bytes = (n + 1) * Bytes
  BY <1>1
<1>3. \A b \in Byte : Pos(b) \in Int
  <2> SUFFICES ASSUME NEW b \in Byte PROVE Pos(b) \in Int
    OBVIOUS
  <2>1. b.word \in Int /\ b.byte \in Int
    BY <1>1 DEF Byte
  <2>2. b.word * Bytes \in Int
    BY <1>2, <2>1
  <2> QED
    BY <1>1, <2>1, <2>2 DEF Pos
<1>4. \A n \in Int, m \in Int : n # Stray => Pos([word |-> n, byte |-> m]) = n * Bytes + m
  BY <1>1, <1>2 DEF Pos
<1>5. \A m \in -1 .. Bytes - 1 : Pos([word |-> Stray, byte |-> m]) = m - Bytes
  BY <1>1 DEF Pos
<1>6. \A n \in Int : BlockWords + 0 # n => Pos([word |-> n, byte |-> -1]) = n * Bytes - 1
  <2> SUFFICES ASSUME NEW n \in Int, BlockWords + 0 # n
               PROVE  Pos([word |-> n, byte |-> -1]) = n * Bytes - 1
    OBVIOUS
  <2>1. n # Stray /\ n * Bytes \in Int
    BY <1>1, <1>2
  <2>2. Pos([word |-> n, byte |-> -1]) = n * Bytes + (-1)
    BY <1>4, <2>1
  <2> QED
    BY <2>1, <2>2
<1> QED
  BY <1>1, <1>2, <1>3, <1>4, <1>5, <1>6

-----------------------------------------------------------------------------
(* What the machine does to the byte that it offers.                       *)

(* The edges of the machine, as far as the UART sees them: the offload     *)
(* begins, or ends; a word comes; the next byte is offered, or none; the   *)
(* machine stands still.                                                   *)
OffloadBegins ==
    /\ state = "IDLE" /\ state' = "OFFLOAD"
    /\ intrablock' = 1 /\ wb'.addr.word = 0
    /\ UNCHANGED <<data_count, latched, uart, clean>>
OffloadEnds ==
    /\ state = "OFFLOAD" /\ state' = "ZERO" /\ intrablock = BlockWords - 1
    /\ UNCHANGED <<intrablock, data_count, latched, uart, clean>>
WordComes ==
    /\ state = "OFFLOAD" /\ state' = "OFFLOAD"
    /\ intrablock # BlockWords - 1 /\ intrablock' = intrablock + 1
    /\ wb'.addr.word = intrablock /\ latched' = intrablock - 1
    /\ clean' = (clean /\ Room /\ data_count = Bytes)
    /\ IF Room
         THEN /\ data_count' = 1
              /\ uart' = [valid |-> TRUE, word |-> intrablock - 1, byte |-> 0]
         ELSE data_count' = 0 /\ uart' = [uart EXCEPT !.valid = FALSE]
Serves ==
    /\ state = "OFFLOAD" /\ state' = "OFFLOAD" /\ Room
    /\ UNCHANGED <<intrablock, latched, clean, wb>>
    /\ IF data_count < Bytes
         THEN /\ data_count' = data_count + 1
              /\ uart' = [valid |-> TRUE, word |-> latched, byte |-> data_count]
         ELSE data_count' = data_count /\ uart' = [uart EXCEPT !.valid = FALSE]
Stands ==
    /\ state' = state /\ ((state = "OFFLOAD" /\ ~Room) \/ state = "ZERO")
    /\ UNCHANGED <<intrablock, data_count, latched, uart, clean, wb>>

(* Every edge of the machine is one of these.                              *)
LEMMA OffloadFacts ==
    ASSUME MachineType, OffloadPlace, NEW acked \in BOOLEAN, OffloadStep(acked)
    PROVE  /\ hash' = hash /\ interblock' = interblock
           /\ wb' \in [addr : Address, dat : Word, we : BOOLEAN, stb : BOOLEAN]
           /\ OffloadBegins \/ OffloadEnds \/ WordComes \/ Serves \/ Stands
<1> USE DEF MachineType, Offset
<1>1. Here \in Address /\ Zero \in Address /\ 0 \in Offset
  BY LayoutFacts DEF Here, Address, Zero, Row, Cell
<1>2. [Here EXCEPT !.word = 0] = [row |-> hash, cell |-> interblock, word |-> 0]
  BY DEF Here
<1>3. [Here EXCEPT !.word = 0] \in Address /\ [Here EXCEPT !.word = 0].word = 0
  BY <1>1, <1>2 DEF Address
<1>4. CASE IdleOffload /\ UNCHANGED clean
  <2>1. wb' = [wb EXCEPT !.addr = [Here EXCEPT !.word = 0], !.stb = TRUE, !.we = FALSE]
    BY <1>4 DEF IdleOffload
  <2>2. /\ wb' \in [addr : Address, dat : Word, we : BOOLEAN, stb : BOOLEAN]
        /\ wb'.addr.word = 0
    BY <1>3, <2>1
  <2> QED
    BY <1>4, <2>2 DEF IdleOffload, Goto, OffloadBegins
<1>5. CASE AnswerOffloadLast /\ UNCHANGED clean
  <2>1. wb' = [wb EXCEPT !.stb = FALSE, !.we = FALSE, !.addr = Zero]
    BY <1>5 DEF AnswerOffloadLast
  <2>2. wb' \in [addr : Address, dat : Word, we : BOOLEAN, stb : BOOLEAN]
    BY <1>1, <2>1
  <2> QED
    BY <1>5, <2>2 DEF AnswerOffloadLast, Goto, side, OffloadEnds
<1>6. CASE /\ AnswerOffloadWord(wb.addr.word, Room)
           /\ clean' = (clean /\ Room /\ data_count = Bytes)
  <2>1. /\ state = "OFFLOAD" /\ state' = "OFFLOAD" /\ wb' = [wb EXCEPT !.addr = Here]
        /\ wb.addr.word = intrablock - 1
    BY <1>6 DEF AnswerOffloadWord, Goto, OffloadPlace
  <2>2. /\ wb' \in [addr : Address, dat : Word, we : BOOLEAN, stb : BOOLEAN]
        /\ wb'.addr.word = intrablock
    BY <1>1, <2>1 DEF Here
  <2> QED
    BY <1>6, <2>1, <2>2 DEF AnswerOffloadWord, Goto, WordComes
<1>7. CASE Room /\ OffloadByte /\ UNCHANGED clean
  BY <1>7 DEF OffloadByte, Goto, Serves
<1>8. CASE state = "OFFLOAD" /\ ~Room /\ UNCHANGED <<vars, clean>>
  BY <1>8 DEF vars, place, side, Stands
<1>9. CASE state = "ZERO" /\ UNCHANGED <<vars, clean>>
  BY <1>9 DEF vars, place, side, Stands
<1> QED
  BY <1>4, <1>5, <1>6, <1>7, <1>8, <1>9 DEF OffloadStep

(* It keeps its place.                                                     *)
LEMMA OffloadPlaceStep ==
    ASSUME MachineType, OffloadPlace, OffloadBegins \/ OffloadEnds \/ WordComes \/ Serves \/ Stands
    PROVE  /\ data_count' \in 0 .. Bytes /\ latched' \in 0 .. BlockWords
           /\ intrablock' \in Offset /\ clean' \in BOOLEAN
           /\ uart' \in [valid : BOOLEAN, word : 0 .. BlockWords, byte : 0 .. Bytes - 1]
           /\ state' \in {"OFFLOAD", "ZERO"}
           /\ state' = "OFFLOAD" => intrablock' >= 1 /\ wb'.addr.word = intrablock' - 1
           /\ state' # "ZERO" =>
                 latched' = IF intrablock' <= 1 THEN Stray ELSE intrablock' - 2
           /\ state' = "ZERO" => latched' = BlockWords - 3
           /\ latched' = Stray \/ latched' <= BlockWords - 3
           /\ uart'.valid => Offered' = Newest'
<1> USE DEF MachineType, OffloadPlace, Offset, Stray, Newest, Offered
<1>1. Bytes \in Nat \ {0} /\ BlockWords \in Nat /\ BlockWords >= 3
  BY LayoutFacts
<1>2. CASE OffloadBegins
  BY <1>1, <1>2 DEF OffloadBegins
<1>3. CASE OffloadEnds
  BY <1>1, <1>3 DEF OffloadEnds
<1>4. CASE WordComes
  <2>1. /\ intrablock \in 1 .. BlockWords - 2 /\ state' = "OFFLOAD"
        /\ intrablock' = intrablock + 1 /\ wb'.addr.word = intrablock
        /\ latched' = intrablock - 1
    BY <1>1, <1>4 DEF WordComes
  <2>2. clean' \in BOOLEAN
    BY <1>4 DEF WordComes
  <2>3. CASE Room
    <3>1. uart' = [valid |-> TRUE, word |-> latched', byte |-> 0] /\ data_count' = 1
      BY <1>4, <2>1, <2>3 DEF WordComes
    <3> QED
      BY <1>1, <2>1, <2>2, <3>1
  <2>4. CASE ~Room
    <3>1. uart' = [uart EXCEPT !.valid = FALSE] /\ data_count' = 0
      BY <1>4, <2>4 DEF WordComes
    <3>2. /\ uart' \in [valid : BOOLEAN, word : 0 .. BlockWords, byte : 0 .. Bytes - 1]
          /\ ~uart'.valid
      BY <3>1
    <3>3. latched' \in 0 .. BlockWords /\ latched' <= BlockWords - 3
      BY <1>1, <2>1
    <3>4. latched' = IF intrablock' <= 1 THEN Stray ELSE intrablock' - 2
      BY <1>1, <2>1
    <3> QED
      BY <1>1, <2>1, <2>2, <3>1, <3>2, <3>3, <3>4
  <2> QED
    BY <2>3, <2>4
<1>5. CASE Serves
  <2>1. CASE data_count < Bytes
    <3>1. /\ uart' = [valid |-> TRUE, word |-> latched, byte |-> data_count]
          /\ data_count' = data_count + 1
      BY <1>5, <2>1 DEF Serves
    <3> QED
      BY <1>1, <1>5, <3>1, <2>1 DEF Serves
  <2>2. CASE ~(data_count < Bytes)
    BY <1>1, <1>5, <2>2 DEF Serves
  <2> QED
    BY <2>1, <2>2
<1>6. CASE Stands
  BY <1>1, <1>6 DEF Stands
<1> QED
  BY <1>2, <1>3, <1>4, <1>5, <1>6

(* What that means for the byte that was offered last: it stays, or no     *)
(* byte is offered, or a later one is, the next one if nothing is left     *)
(* out.                                                                    *)
OfferStays ==
    /\ uart' = uart /\ Newest' = Newest /\ clean' = clean
    /\ state' = "ZERO" \/ ~Room \/ ~uart.valid
OfferEnds ==
    /\ ~uart'.valid /\ Pos(Newest)' >= Pos(Newest)
    /\ clean' => clean /\ Newest' = Newest /\ Room
OfferMoves ==
    /\ uart'.valid /\ Room /\ Pos(Newest)' > Pos(Newest) /\ state' # "ZERO"
    /\ clean' => clean /\ Pos(Newest)' = Pos(Newest) + 1

(* Every edge of the machine does one of the three.                        *)
LEMMA OfferStep ==
    ASSUME MachineType, OffloadPlace, OffloadBegins \/ OffloadEnds \/ WordComes \/ Serves \/ Stands
    PROVE  OfferStays \/ OfferEnds \/ OfferMoves
<1>1. /\ Bytes \in Nat \ {0} /\ BlockWords \in Nat
      /\ data_count \in 0 .. Bytes /\ latched \in 0 .. BlockWords
  BY LayoutFacts DEF MachineType
<1>2. CASE OffloadBegins \/ OffloadEnds \/ Stands
  BY <1>2 DEF OffloadBegins, OffloadEnds, Stands, OfferStays, OffloadPlace, Newest
<1> DEFINE k == intrablock - 1
           top == IF latched = Stray THEN 0 ELSE latched * Bytes + Bytes
<1>3. Pos(Newest) = top + (data_count - 1 - Bytes) /\ top \in Int
  <2>1. CASE latched = Stray
    BY <1>1, <2>1, PosFacts DEF Newest
  <2>2. CASE latched # Stray
    <3>1. Pos(Newest) = latched * Bytes + (data_count - 1) /\ latched * Bytes \in Int
      BY <1>1, <2>2, PosFacts DEF Newest
    <3> QED
      BY <1>1, <2>2, <3>1
  <2> QED
    BY <2>1, <2>2
<1>4. CASE Serves
  <2>1. latched' = latched /\ data_count' \in 0 .. Bytes
    BY <1>1, <1>4 DEF Serves
  <2>2. Pos(Newest)' = top + (data_count' - 1 - Bytes)
    <3>1. CASE latched = Stray
      BY <1>1, <2>1, <3>1, PosFacts DEF Newest
    <3>2. CASE latched # Stray
      <4>1. /\ Pos(Newest)' = latched * Bytes + (data_count' - 1)
            /\ latched * Bytes \in Int
        BY <1>1, <2>1, <3>2, PosFacts DEF Newest
      <4> QED
        BY <1>1, <2>1, <3>2, <4>1
    <3> QED
      BY <3>1, <3>2
  <2> HIDE DEF top
  <2>3. CASE data_count < Bytes
    <3>1. uart'.valid /\ data_count' = data_count + 1 /\ state' # "ZERO"
      BY <1>4, <2>3 DEF Serves
    <3>2. Pos(Newest)' = Pos(Newest) + 1 /\ Pos(Newest)' > Pos(Newest)
      BY <1>1, <1>3, <2>2, <3>1
    <3> QED
      BY <1>4, <3>1, <3>2 DEF Serves, OfferMoves
  <2>4. CASE ~(data_count < Bytes)
    <3>1. uart' = [uart EXCEPT !.valid = FALSE] /\ data_count' = data_count
      BY <1>4, <2>4 DEF Serves
    <3>2. ~uart'.valid
      BY <3>1 DEF MachineType
    <3>3. Newest' = Newest
      BY <2>1, <3>1 DEF Newest
    <3>4. Pos(Newest)' >= Pos(Newest)
      BY <1>1, <1>3, <2>2, <3>1
    <3> QED
      BY <1>4, <3>2, <3>3, <3>4 DEF Serves, OfferEnds
  <2> QED
    BY <2>3, <2>4
<1>5. CASE WordComes
  <2>1. /\ k \in Nat /\ k # Stray /\ latched' = k /\ data_count' \in {0, 1}
        /\ state' # "ZERO"
    BY <1>1, <1>5 DEF WordComes, MachineType, OffloadPlace, Offset, Stray
  <2>2. top = k * Bytes
    <3>1. CASE k = 0
      BY <1>1, <1>5, <3>1 DEF WordComes, OffloadPlace
    <3>2. CASE k # 0
      <4>1. latched = k - 1 /\ latched # Stray
        BY <1>1, <1>5, <2>1, <3>2
           DEF WordComes, MachineType, OffloadPlace, Offset, Stray
      <4> QED
        BY <2>1, <4>1, PosFacts
    <3> QED
      BY <3>1, <3>2
  <2>3. Pos(Newest)' = k * Bytes + (data_count' - 1)
    BY <2>1, PosFacts DEF Newest
  <2> HIDE DEF top
  <2>4. Pos(Newest)' = top + (data_count' - 1)
    BY <2>2, <2>3
  <2>5. CASE Room
    <3>1. clean' => clean /\ data_count = Bytes
      BY <1>5 DEF WordComes
    <3>2. uart'.valid /\ data_count' = 1
      BY <1>5, <2>5 DEF WordComes
    <3>3. /\ Pos(Newest)' > Pos(Newest)
          /\ data_count = Bytes => Pos(Newest)' = Pos(Newest) + 1
      BY <1>1, <1>3, <2>4, <3>2
    <3> QED
      BY <2>1, <2>5, <3>1, <3>2, <3>3 DEF OfferMoves
  <2>6. CASE ~Room
    <3>1. /\ uart' = [uart EXCEPT !.valid = FALSE] /\ data_count' = 0 /\ ~clean'
      BY <1>5, <2>6 DEF WordComes
    <3>2. ~uart'.valid
      BY <3>1 DEF MachineType
    <3>3. Pos(Newest)' >= Pos(Newest)
      BY <1>1, <1>3, <2>4, <3>1
    <3> QED
      BY <3>1, <3>2, <3>3 DEF OfferEnds
  <2> QED
    BY <2>5, <2>6
<1> QED
  BY <1>2, <1>4, <1>5

-----------------------------------------------------------------------------
(* What the UART and the script do to the bytes on the way.                *)

(* The FIFO with the byte that comes in at an edge.                        *)
Queue == IF Written THEN Append(fifo, Offered) ELSE fifo

(* The queue is the FIFO and, when a byte is written, that byte behind it. *)
LEMMA QueueFacts ==
    ASSUME MachineType, LineType
    PROVE  /\ Offered \in Byte /\ Queue \in Seq(Byte) /\ Len(fifo) \in Nat
           /\ Len(Queue) = Len(fifo) + (IF Written THEN 1 ELSE 0)
           /\ \A i \in 1 .. Len(fifo) : Queue[i] = fifo[i] /\ fifo[i] \in Byte
           /\ \A i \in 1 .. Len(Queue) : Queue[i] \in Byte
           /\ Written => Queue[Len(fifo) + 1] = Offered
<1>1. Offered \in Byte
  BY LayoutFacts DEF MachineType, Offered, Byte
<1>2. fifo \in Seq(Byte) /\ Len(fifo) \in Nat
  BY LenProperties DEF LineType
<1>3. \A i \in 1 .. Len(fifo) : fifo[i] \in Byte
  BY <1>2, ElementOfSeq
<1>4. CASE Written
  BY <1>1, <1>2, <1>3, <1>4, AppendProperties DEF Queue
<1>5. CASE ~Written
  BY <1>1, <1>2, <1>3, <1>5 DEF Queue
<1> QED
  BY <1>4, <1>5

(* The edges of the line: it takes a byte from the queue; the byte on it   *)
(* has come; nothing of both.                                              *)
Takes ==
    /\ tx.st # "FRAME" /\ tx'.st = "FRAME" /\ ~tx'.ready
    /\ Len(Queue) >= 1 /\ tx'.byte = Queue[1]
    /\ Len(fifo') = Len(Queue) - 1
    /\ \A i \in 1 .. Len(fifo') : fifo'[i] = Queue[i + 1]
    /\ UNCHANGED <<last, host>>
Delivers ==
    /\ tx.st = "FRAME" /\ tx'.st # "FRAME" /\ last' = tx.byte
    /\ fifo' = Queue
    /\ host' = IF host.block # "first" THEN host
               ELSE IF host.nread + 1 = BlockBytes
                 THEN [host EXCEPT !.nread = 0, !.block = NextBlock]
               ELSE [host EXCEPT !.nread = @ + 1]
Rests ==
    /\ tx'.st = "FRAME" <=> tx.st = "FRAME"
    /\ tx'.st = "FRAME" => tx'.byte = tx.byte /\ ~tx'.ready
    /\ fifo' = Queue
    /\ UNCHANGED <<last, host>>

(* Every edge of the UART and of the script is one of these three.         *)
LEMMA LineFacts ==
    ASSUME MachineType, LineType, GoneInv, FifoStep,
           NEW sent \in BOOLEAN, TxStep(sent), HostReads(sent)
    PROVE  LineType' /\ (Takes \/ Delivers \/ Rests)
<1> DEFINE TxType == [st : {"IDLE", "FRAME", "END"}, ready : BOOLEAN, byte : Byte]
<1>1. tx \in TxType /\ last \in Byte /\ fifo \in Seq(Byte) /\ Queue \in Seq(Byte)
  BY QueueFacts DEF LineType
<1> HIDE DEF TxType
<1>2. CASE Pop
  <2>1. tx.st # "FRAME" /\ tx.ready /\ fifo # <<>>
    BY <1>2 DEF Pop, GoneInv
  <2>2. tx' = Taken /\ UNCHANGED <<last, host>>
    BY <1>2, <2>1 DEF TxStep, TxIdle, TxEnd, TxFrame, HostReads
  <2>3. Head(fifo) = fifo[1] /\ Tail(fifo) \in Seq(Byte) /\ Len(fifo) >= 1
        /\ Len(Tail(fifo)) = Len(fifo) - 1
        /\ \A i \in 1 .. Len(fifo) - 1 : Tail(fifo)[i] = fifo[i + 1]
    BY <1>1, <2>1, EmptySeq, HeadTailProperties, LenProperties
  <2>4. fifo[1] \in Byte /\ Len(fifo) \in Nat /\ Offered \in Byte
    BY <2>3, QueueFacts
  <2>5. /\ tx'.st = "FRAME" /\ ~tx'.ready /\ tx'.byte = fifo[1] /\ tx' \in TxType
    BY <2>2, <2>3, <2>4 DEF Taken, TxType
  <2>6. CASE Written
    <3>1. fifo' = Append(Tail(fifo), Offered)
      BY <1>2, <2>6 DEF FifoStep, Unread
    <3>2. /\ fifo' \in Seq(Byte) /\ Len(fifo') = Len(fifo)
          /\ \A i \in 1 .. Len(fifo) - 1 : fifo'[i] = fifo[i + 1]
          /\ fifo'[Len(fifo)] = Offered
      BY <2>3, <2>4, <3>1, AppendProperties
    <3>3. /\ Len(Queue) = Len(fifo) + 1 /\ Queue[1] = fifo[1]
          /\ \A i \in 1 .. Len(fifo) - 1 : Queue[i + 1] = fifo[i + 1]
          /\ Queue[Len(fifo) + 1] = Offered
      BY <2>3, <2>4, <2>6, QueueFacts
    <3>4. \A i \in 1 .. Len(fifo') : fifo'[i] = Queue[i + 1]
      BY <2>3, <2>4, <3>2, <3>3
    <3>5. Takes
      BY <2>1, <2>2, <2>3, <2>4, <2>5, <3>2, <3>3, <3>4 DEF Takes
    <3> QED
      BY <1>1, <2>2, <2>5, <3>2, <3>5 DEF LineType, TxType
  <2>7. CASE ~Written
    <3>1. fifo' = Tail(fifo) /\ Queue = fifo
      BY <1>2, <2>7 DEF FifoStep, Unread, Queue
    <3>2. Takes
      BY <2>1, <2>2, <2>3, <2>4, <2>5, <3>1 DEF Takes
    <3> QED
      BY <1>1, <2>2, <2>3, <2>5, <3>1, <3>2 DEF LineType, TxType
  <2> QED
    BY <2>6, <2>7
<1>3. CASE ~Pop
  <2>1. fifo' = Queue
    BY <1>3 DEF FifoStep, Unread, Queue
  <2>2. CASE tx.st = "FRAME" /\ sent
    <3>1. /\ tx' = [tx EXCEPT !.st = "END"] /\ last' = tx.byte
          /\ host' = IF host.block # "first" THEN host
                     ELSE IF host.nread + 1 = BlockBytes
                       THEN [host EXCEPT !.nread = 0, !.block = NextBlock]
                     ELSE [host EXCEPT !.nread = @ + 1]
      BY <2>2 DEF TxStep, TxIdle, TxFrame, TxEnd, HostReads
    <3>2. tx' \in TxType /\ tx'.st # "FRAME" /\ tx.byte \in Byte
      BY <1>1, <3>1 DEF TxType
    <3> QED
      BY <1>1, <2>1, <2>2, <3>1, <3>2 DEF LineType, Delivers, TxType
  <2>3. CASE ~(tx.st = "FRAME" /\ sent)
    <3>1. UNCHANGED <<last, host>>
      BY <2>3 DEF HostReads
    <3>2. \/ tx.st = "FRAME" /\ tx' = tx
          \/ tx.st # "FRAME" /\ tx' = [tx EXCEPT !.ready = TRUE]
          \/ tx.st # "FRAME" /\ tx' = [tx EXCEPT !.st = "IDLE", !.ready = FALSE]
      BY <1>3, <2>3 DEF TxStep, TxIdle, TxFrame, TxEnd
    <3>3. tx' \in TxType /\ (tx.st = "FRAME" => tx' = tx)
          /\ (tx.st # "FRAME" => tx'.st # "FRAME")
      BY <1>1, <3>2 DEF TxType
    <3> QED
      BY <1>1, <2>1, <3>1, <3>3 DEF LineType, Rests, GoneInv, TxType
  <2> QED
    BY <2>2, <2>3
<1> QED
  BY <1>2, <1>3

-----------------------------------------------------------------------------
(* The order is kept.                                                      *)

(* The order with the byte that comes in.                                  *)
LEMMA QueueOrder ==
    ASSUME OrderInv
    PROVE  /\ \A b \in Gone, i \in 1 .. Len(Queue) : Below(b, Queue[i])
           /\ \A i, j \in 1 .. Len(Queue) : i < j => Below(Queue[i], Queue[j])
<1> USE DEF OrderInv
<1>1. \A b \in Gone, i \in 1 .. Len(fifo) : Below(b, Queue[i])
  BY QueueFacts DEF QueueInv
<1>2. \A i, j \in 1 .. Len(fifo) : i < j => Below(Queue[i], Queue[j])
  BY QueueFacts DEF QueueInv
<1>3. CASE ~Written
  <2>1. Len(Queue) = Len(fifo)
    BY <1>3, QueueFacts
  <2> QED
    BY <1>1, <1>2, <2>1
<1>4. CASE Written
  <2>1. /\ Len(Queue) = Len(fifo) + 1 /\ Len(fifo) \in Nat
        /\ Queue[Len(fifo) + 1] = Offered
    BY <1>4, QueueFacts
  <2>2. /\ \A b \in Gone : Below(b, Offered)
        /\ \A i \in 1 .. Len(fifo) : Below(Queue[i], Offered)
    BY <1>4, QueueFacts DEF Written, NewestInv, InFifo
  <2>3. ASSUME NEW b \in Gone, NEW i \in 1 .. Len(Queue) PROVE Below(b, Queue[i])
    <3>1. i \in 1 .. Len(fifo) \/ i = Len(fifo) + 1
      BY <2>1
    <3> QED
      BY <1>1, <2>1, <2>2, <3>1
  <2>4. ASSUME NEW i \in 1 .. Len(Queue), NEW j \in 1 .. Len(Queue), i < j
        PROVE  Below(Queue[i], Queue[j])
    <3>1. i \in 1 .. Len(fifo) /\ (j \in 1 .. Len(fifo) \/ j = Len(fifo) + 1)
      BY <2>1, <2>4
    <3> QED
      BY <1>2, <2>1, <2>2, <2>4, <3>1
  <2> QED
    BY <2>3, <2>4
<1> QED
  BY <1>3, <1>4

(* What is below another byte stays below it, because the machine does not *)
(* leave ZERO.                                                             *)
LEMMA QueueStep ==
    ASSUME OrderInv, LineType', Takes \/ Delivers \/ Rests,
           state = "ZERO" => state' = "ZERO"
    PROVE  GoneInv' /\ QueueInv'
<1>1. /\ \A b \in Gone, i \in 1 .. Len(Queue) : Below(b, Queue[i])
      /\ \A i, j \in 1 .. Len(Queue) : i < j => Below(Queue[i], Queue[j])
      /\ Len(Queue) \in Nat
      /\ tx.st = "FRAME" => ~tx.ready /\ Below(last, tx.byte)
  BY QueueOrder, QueueFacts, LenProperties DEF OrderInv, GoneInv
<1>2. CASE Takes
  <2>1. Gone' = {last, Queue[1]} /\ last \in Gone
    BY <1>2 DEF Takes, Gone
  <2>2. GoneInv'
    BY <1>1, <1>2, <2>1 DEF Takes, GoneInv, Below
  <2>3. ASSUME NEW b \in Gone', NEW i \in 1 .. Len(fifo') PROVE Below(b, fifo[i])'
    <3>1. /\ i + 1 \in 1 .. Len(Queue) /\ 1 \in 1 .. Len(Queue) /\ 1 < i + 1
          /\ fifo'[i] = Queue[i + 1]
      BY <1>1, <1>2, <2>3 DEF Takes
    <3>2. Below(b, Queue[i + 1])
      BY <1>1, <2>1, <2>3, <3>1
    <3> QED
      BY <3>1, <3>2 DEF Below
  <2>4. ASSUME NEW i \in 1 .. Len(fifo'), NEW j \in 1 .. Len(fifo'), i < j
        PROVE  Below(fifo[i], fifo[j])'
    <3>1. /\ i + 1 \in 1 .. Len(Queue) /\ j + 1 \in 1 .. Len(Queue) /\ i + 1 < j + 1
          /\ fifo'[i] = Queue[i + 1] /\ fifo'[j] = Queue[j + 1]
      BY <1>1, <1>2, <2>4 DEF Takes
    <3>2. Below(Queue[i + 1], Queue[j + 1])
      BY <1>1, <3>1
    <3> QED
      BY <3>1, <3>2 DEF Below
  <2> QED
    BY <2>2, <2>3, <2>4 DEF QueueInv
<1>3. CASE Delivers \/ Rests
  <2>1. Gone' \subseteq Gone /\ fifo' = Queue
    BY <1>3 DEF Delivers, Rests, Gone
  <2>2. GoneInv'
    BY <1>1, <1>3 DEF Delivers, Rests, GoneInv, Below
  <2>3. ASSUME NEW b \in Gone', NEW i \in 1 .. Len(fifo') PROVE Below(b, fifo[i])'
    BY <1>1, <2>1, <2>3 DEF Below
  <2>4. ASSUME NEW i \in 1 .. Len(fifo'), NEW j \in 1 .. Len(fifo'), i < j
        PROVE  Below(fifo[i], fifo[j])'
    BY <1>1, <2>1, <2>4 DEF Below
  <2> QED
    BY <2>2, <2>3, <2>4 DEF QueueInv
<1> QED
  BY <1>2, <1>3

(* A byte that is offered next comes after all that are on the way.        *)
LEMMA NewestStep ==
    ASSUME OrderInv, MachineType', OffloadPlace', Takes \/ Delivers \/ Rests,
           OfferStays \/ OfferEnds \/ OfferMoves, state = "ZERO" => state' = "ZERO"
    PROVE  NewestInv'
<1>1. Newest \in Byte /\ Newest' \in Byte
  <2>1. /\ data_count \in 0 .. Bytes /\ latched \in 0 .. BlockWords
        /\ data_count' \in 0 .. Bytes /\ latched' \in 0 .. BlockWords
        /\ Bytes \in Nat \ {0}
    BY PosFacts DEF OrderInv, MachineType
  <2>2. \A n \in 0 .. Bytes : n - 1 \in -1 .. Bytes - 1
    BY <2>1
  <2> QED
    BY <2>1, <2>2 DEF Newest, Byte
<1>2. Pos(Newest) \in Int /\ Pos(Newest)' \in Int /\ Pos(Newest') = Pos(Newest)'
  BY <1>1, PosFacts DEF Pos
<1> SUFFICES ASSUME NEW b \in (Gone \cup InFifo)'
             PROVE  /\ Pos(b) <= Pos(Newest)'
                    /\ uart'.valid => \/ Pos(b) < Pos(Offered)'
                                      \/ state' = "ZERO" /\ Pos(b) = Pos(Offered)'
  BY DEF NewestInv, Below, Pos
<1>3. b \in Gone \cup InFifo \/ (Written /\ b = Offered)
  <2>1. b \in Gone \/ \E i \in 1 .. Len(Queue) : b = Queue[i]
    <3>1. Len(Queue) \in Nat
      BY QueueFacts, LenProperties DEF OrderInv
    <3>2. CASE Takes
      <4>1. Gone' = {last, Queue[1]} /\ last \in Gone /\ 1 \in 1 .. Len(Queue)
        BY <3>1, <3>2 DEF Takes, Gone
      <4>2. \A i \in 1 .. Len(fifo') : i + 1 \in 1 .. Len(Queue) /\ fifo'[i] = Queue[i + 1]
        BY <3>1, <3>2 DEF Takes
      <4> QED
        BY <4>1, <4>2 DEF InFifo
    <3>3. CASE Delivers \/ Rests
      BY <3>3 DEF Delivers, Rests, Gone, InFifo
    <3> QED
      BY <3>2, <3>3
  <2>2. ASSUME NEW i \in 1 .. Len(Queue)
        PROVE  Queue[i] \in InFifo \/ (Written /\ Queue[i] = Offered)
    <3>1. /\ Len(fifo) \in Nat
          /\ Len(Queue) = Len(fifo) + (IF Written THEN 1 ELSE 0)
          /\ \A k \in 1 .. Len(fifo) : Queue[k] = fifo[k]
          /\ Written => Queue[Len(fifo) + 1] = Offered
      BY QueueFacts DEF OrderInv
    <3>2. i \in 1 .. Len(fifo) \/ (i = Len(fifo) + 1 /\ i \notin 1 .. Len(fifo))
      <4>1. CASE Written
        BY <3>1, <4>1
      <4>2. CASE ~Written
        BY <3>1, <4>2
      <4> QED
        BY <4>1, <4>2
    <3>3. i = Len(fifo) + 1 => Written
      BY <3>1
    <3> QED
      BY <3>1, <3>2, <3>3 DEF InFifo
  <2>3. CASE b \in Gone
    BY <2>3
  <2>4. ASSUME NEW i \in 1 .. Len(Queue), b = Queue[i]
        PROVE  b \in InFifo \/ (Written /\ b = Offered)
    BY <2>2, <2>4
  <2> QED
    BY <2>1, <2>3, <2>4
<1>4. /\ uart.valid => Offered = Newest
      /\ uart'.valid => Offered' = Newest'
      /\ Pos(b) \in Int /\ Pos(b) <= Pos(Newest)
  <2>1. b \in Byte
    BY <1>3, QueueFacts DEF OrderInv, LineType, Gone, InFifo
  <2>2. Pos(b) \in Int /\ (uart.valid => Offered = Newest)
    BY <2>1, PosFacts DEF OrderInv, OffloadPlace
  <2>3. Pos(b) <= Pos(Newest)
    BY <1>2, <1>3, <2>2 DEF OrderInv, NewestInv, Written
  <2> QED
    BY <2>2, <2>3 DEF OffloadPlace
<1>5. CASE OfferMoves
  BY <1>2, <1>4, <1>5 DEF OfferMoves
<1>6. CASE OfferEnds
  BY <1>2, <1>4, <1>6 DEF OfferEnds
<1>7. CASE OfferStays
  <2>1. Newest' = Newest /\ uart' = uart
    BY <1>7 DEF OfferStays
  <2>2. CASE b \in Gone \cup InFifo
    <3>1. uart.valid => Below(b, Offered)
      BY <2>2 DEF OrderInv, NewestInv
    <3> QED
      BY <1>2, <1>4, <2>1, <3>1 DEF Below
  <2>3. CASE Written /\ b = Offered
    <3>1. state' = "ZERO" /\ uart.valid
      BY <1>7, <2>3 DEF OfferStays, Written
    <3> QED
      BY <1>2, <1>4, <2>1, <2>3, <3>1
  <2> QED
    BY <1>3, <2>2, <2>3
<1> QED
  BY <1>5, <1>6, <1>7

(* Every step keeps the order.                                             *)
LEMMA OrderStep ==
    ASSUME OrderInv, [DumpNext]_dumpVars
    PROVE  OrderInv'
<1>1. ASSUME NEW acked \in BOOLEAN, NEW sent \in BOOLEAN, Edge(acked, sent)
      PROVE  OrderInv'
  <2>1. OffloadBegins \/ OffloadEnds \/ WordComes \/ Serves \/ Stands
    BY <1>1, OffloadFacts DEF Edge, OrderInv
  <2>2. MachineType'
    <3>1. /\ hash' = hash /\ interblock' = interblock
          /\ wb' \in [addr : Address, dat : Word, we : BOOLEAN, stb : BOOLEAN]
      BY <1>1, OffloadFacts DEF Edge, OrderInv
    <3> QED
      BY <2>1, <3>1, OffloadPlaceStep DEF OrderInv, MachineType
  <2>3. OffloadPlace'
    BY <2>1, OffloadPlaceStep DEF OrderInv, OffloadPlace
  <2>4. LineType' /\ (Takes \/ Delivers \/ Rests)
    BY <1>1, LineFacts DEF Edge, OrderInv
  <2>5. state = "ZERO" => state' = "ZERO"
    BY <2>1 DEF OffloadBegins, OffloadEnds, WordComes, Serves, Stands
  <2>6. OfferStays \/ OfferEnds \/ OfferMoves
    BY <2>1, OfferStep DEF OrderInv
  <2>7. GoneInv' /\ QueueInv'
    BY <2>4, <2>5, QueueStep
  <2>8. NewestInv'
    BY <2>2, <2>3, <2>4, <2>5, <2>6, NewestStep
  <2> QED
    BY <2>2, <2>3, <2>4, <2>7, <2>8 DEF OrderInv
<1>2. CASE UNCHANGED <<vars, fifo, tx, last, clean>>
  <2>1. UNCHANGED <<state, data_count, intrablock, interblock, hash, latched, uart, wb>>
    BY <1>2 DEF vars, place, side
  <2>2. MachineType' /\ LineType' /\ OffloadPlace'
    BY <1>2, <2>1 DEF OrderInv, MachineType, LineType, OffloadPlace, Offered, Newest
  <2>3. GoneInv' /\ QueueInv' /\ NewestInv'
    BY <1>2, <2>1
       DEF OrderInv, GoneInv, QueueInv, NewestInv, Below, Gone, InFifo, Offered,
           Newest
  <2> QED
    BY <2>2, <2>3 DEF OrderInv
<1> QED
  BY <1>1, <1>2 DEF DumpNext, Timeout, dumpVars

(* The bytes on the way, as one sequence, are in order.                    *)
Ordered(s) == \A i, j \in 1 .. Len(s) : i < j => Below(s[i], s[j])

(* Of two sequences in order, the first one below the second, comes one.   *)
LEMMA OrderedConcat ==
    ASSUME NEW s \in Seq(Byte), NEW t \in Seq(Byte), Ordered(s), Ordered(t),
           \A i \in 1 .. Len(s), j \in 1 .. Len(t) : Below(s[i], t[j])
    PROVE  s \o t \in Seq(Byte) /\ Ordered(s \o t)
<1>1. /\ Len(s) \in Nat /\ Len(t) \in Nat /\ s \o t \in Seq(Byte)
      /\ Len(s \o t) = Len(s) + Len(t)
      /\ \A i \in 1 .. Len(s) : (s \o t)[i] = s[i]
      /\ \A i \in Len(s) + 1 .. Len(s) + Len(t) : (s \o t)[i] = t[i - Len(s)]
  BY ConcatProperties, LenProperties
<1> SUFFICES ASSUME NEW i \in 1 .. Len(s \o t), NEW j \in 1 .. Len(s \o t), i < j
             PROVE  Below((s \o t)[i], (s \o t)[j])
  BY <1>1 DEF Ordered
<1>2. CASE j <= Len(s)
  BY <1>1, <1>2 DEF Ordered
<1>3. CASE i > Len(s)
  <2>1. /\ i - Len(s) \in 1 .. Len(t) /\ j - Len(s) \in 1 .. Len(t)
        /\ i - Len(s) < j - Len(s)
    BY <1>1, <1>3
  <2>2. Below(t[i - Len(s)], t[j - Len(s)])
    BY <2>1 DEF Ordered
  <2> QED
    BY <1>1, <1>3, <2>2
<1>4. CASE i <= Len(s) /\ j > Len(s)
  <2>1. i \in 1 .. Len(s) /\ j - Len(s) \in 1 .. Len(t)
    BY <1>1, <1>4
  <2> QED
    BY <1>1, <1>4, <2>1
<1> QED
  BY <1>1, <1>2, <1>3, <1>4

(* The parts of the way put together are the way of BytesInOrder.          *)
LEMMA OrderOnTheWay == OrderInv => BytesInOrder
<1> SUFFICES ASSUME OrderInv PROVE BytesInOrder
  OBVIOUS
<1> DEFINE line == IF tx.st = "FRAME" THEN <<tx.byte>> ELSE <<>>
           head == <<last>> \o line
           now  == IF uart.valid THEN <<Offered>> ELSE <<>>
<1>1. /\ fifo \in Seq(Byte) /\ last \in Byte /\ tx.byte \in Byte /\ Offered \in Byte
      /\ Len(fifo) \in Nat
  BY QueueFacts DEF OrderInv, LineType
<1>2. /\ head \in Seq(Byte) /\ Ordered(head)
      /\ \A i \in 1 .. Len(head) : head[i] \in Gone
  <2>1. <<last>> \in Seq(Byte) /\ Len(<<last>>) = 1 /\ <<last>>[1] = last
    BY <1>1
  <2>2. CASE tx.st = "FRAME"
    <3>1. line \in Seq(Byte) /\ Len(line) = 1 /\ line[1] = tx.byte
      BY <1>1, <2>2
    <3> HIDE DEF line
    <3>2. Len(head) = 2 /\ head[1] = last /\ head[2] = tx.byte /\ head \in Seq(Byte)
      BY <2>1, <3>1, ConcatProperties
    <3>3. Below(last, tx.byte) /\ Gone = {last, tx.byte}
      BY <2>2 DEF OrderInv, GoneInv, Gone
    <3> HIDE DEF head
    <3>4. \A i \in 1 .. Len(head) : i = 1 \/ i = 2
      BY <3>2
    <3> QED
      BY <3>2, <3>3, <3>4 DEF Ordered
  <2>3. CASE tx.st # "FRAME"
    <3>1. line \in Seq(Byte) /\ Len(line) = 0
      BY <2>3
    <3> HIDE DEF line
    <3>2. Len(head) = 1 /\ head[1] = last /\ head \in Seq(Byte)
      BY <2>1, <3>1, ConcatProperties
    <3> HIDE DEF head
    <3>3. \A i \in 1 .. Len(head) : i = 1
      BY <3>2
    <3> QED
      BY <2>3, <3>2, <3>3 DEF Ordered, Gone
  <2> QED
    BY <2>2, <2>3
<1> HIDE DEF head
<1>3. fifo \in Seq(Byte) /\ Ordered(fifo)
  BY <1>1 DEF OrderInv, QueueInv, Ordered
<1>4. head \o fifo \in Seq(Byte) /\ Ordered(head \o fifo)
  BY <1>2, <1>3, OrderedConcat DEF OrderInv, QueueInv
<1>5. ASSUME NEW i \in 1 .. Len(head \o fifo) PROVE (head \o fifo)[i] \in Gone \cup InFifo
  <2>1. /\ Len(head) \in Nat /\ Len(head \o fifo) = Len(head) + Len(fifo)
        /\ \A k \in 1 .. Len(head) : (head \o fifo)[k] = head[k]
        /\ \A k \in Len(head) + 1 .. Len(head) + Len(fifo) :
              (head \o fifo)[k] = fifo[k - Len(head)]
    BY <1>1, <1>2, ConcatProperties, LenProperties
  <2>2. CASE i \in 1 .. Len(head)
    BY <1>2, <2>1, <2>2
  <2>3. CASE i \notin 1 .. Len(head)
    <3>1. i \in Len(head) + 1 .. Len(head) + Len(fifo) /\ i - Len(head) \in 1 .. Len(fifo)
      BY <1>1, <2>1, <2>3
    <3> QED
      BY <2>1, <3>1 DEF InFifo
  <2> QED
    BY <2>2, <2>3
<1>6. now \in Seq(Byte) /\ Ordered(now)
      /\ \A j \in 1 .. Len(now) : uart.valid /\ now[j] = Offered
  <2>1. CASE uart.valid
    <3>1. now = <<Offered>>
      BY <2>1
    <3>2. Len(now) = 1 /\ now[1] = Offered /\ now \in Seq(Byte)
      BY <1>1, <3>1
    <3> HIDE DEF now
    <3>3. \A i \in 1 .. Len(now) : i = 1
      BY <3>2
    <3> QED
      BY <2>1, <3>2, <3>3 DEF Ordered
  <2>2. CASE ~uart.valid
    <3>1. now = <<>>
      BY <2>2
    <3>2. Len(now) = 0 /\ now \in Seq(Byte)
      BY <3>1
    <3> HIDE DEF now
    <3> QED
      BY <3>2 DEF Ordered
  <2> QED
    BY <2>1, <2>2
<1> HIDE DEF now
<1>7. \A i \in 1 .. Len(head \o fifo), j \in 1 .. Len(now) :
         Below((head \o fifo)[i], now[j])
  BY <1>5, <1>6 DEF OrderInv, NewestInv
<1>8. (head \o fifo) \o now \in Seq(Byte) /\ Ordered((head \o fifo) \o now)
  BY <1>4, <1>6, <1>7, OrderedConcat
<1>9. Way = (head \o fifo) \o now
  BY DEF Way, head, now
<1>10. DOMAIN Way = 1 .. Len(Way)
  BY <1>8, <1>9, LenProperties
<1> QED
  BY <1>8, <1>9, <1>10 DEF Ordered, BytesInOrder, Below

(* At the start nothing is on the way.                                     *)
LEMMA OrderInit == DumpInit => OrderInv
<1> SUFFICES ASSUME DumpInit PROVE OrderInv
  OBVIOUS
<1> USE DEF DumpInit
<1>1. /\ Bytes \in Nat \ {0} /\ BlockWords \in Nat /\ BlockWords >= 3
      /\ data_count \in 0 .. Bytes
  BY LayoutFacts
<1>2. wb \in [addr : Address, dat : Word, we : BOOLEAN, stb : BOOLEAN]
  BY LayoutFacts, WordFacts DEF Zero, Address, Row, Cell, Offset
<1>3. uart \in [valid : BOOLEAN, word : 0 .. BlockWords, byte : 0 .. Bytes - 1]
  BY <1>1
<1>4. clean \in BOOLEAN
  OBVIOUS
<1>5. MachineType
  BY <1>1, <1>2, <1>3, <1>4, LayoutFacts DEF MachineType, Offset, Cell, Row, Stray
<1>6. NoByte \in Byte
  BY <1>1 DEF NoByte, Byte, Stray
<1>7. tx \in [st : {"IDLE", "FRAME", "END"}, ready : BOOLEAN, byte : Byte]
  BY <1>6
<1>8. LineType
  BY <1>6, <1>7 DEF LineType
<1>9. OffloadPlace
  BY <1>1 DEF OffloadPlace
<1>10. tx.st # "FRAME" /\ fifo = <<>> /\ Len(fifo) = 0 /\ last = NoByte /\ ~uart.valid
  OBVIOUS
<1>11. Gone \cup InFifo = {NoByte}
  BY <1>10 DEF Gone, InFifo
<1>12. Pos(NoByte) <= Pos(Newest)
  <2>1. Pos(NoByte) = -1 - Bytes
    BY <1>1, PosFacts DEF NoByte
  <2>2. Pos(Newest) = data_count - 1 - Bytes
    BY <1>1, PosFacts DEF Newest
  <2> QED
    BY <1>1, <2>1, <2>2
<1>13. GoneInv /\ QueueInv
  BY <1>10 DEF GoneInv, QueueInv
<1>14. NewestInv
  BY <1>10, <1>11, <1>12 DEF NewestInv
<1> QED
  BY <1>5, <1>8, <1>9, <1>13, <1>14 DEF OrderInv

(* The invariant of the way from the storage machine to the script.        *)
THEOREM DumpInvariant == DumpSpec => []OrderInv
BY OrderInit, OrderStep, PTL DEF DumpSpec

(* Whatever the UART is too slow for is left out; what is sent is in the   *)
(* order of the cell, and no byte twice as long as the offload lasts       *)
(* (storage.v:1395-1447 with uart_fifo.v and uart_tx.v).                   *)
THEOREM DumpInOrder == DumpSpec => []BytesInOrder
BY DumpInvariant, OrderOnTheWay, PTL

-----------------------------------------------------------------------------
(* The k-th byte that comes is byte k of the cell.                         *)

(* What is in the queue is counted in its order.                           *)
LEMMA QueueCount ==
    ASSUME OrderInv, NEW n \in Nat,
           \A i \in 1 .. Len(fifo) : CountedAt(fifo[i], n + i - 1),
           uart.valid => CountedAt(Offered, n + Len(fifo))
    PROVE  \A i \in 1 .. Len(Queue) : CountedAt(Queue[i], n + i - 1)
<1> SUFFICES ASSUME NEW i \in 1 .. Len(Queue) PROVE CountedAt(Queue[i], n + i - 1)
  OBVIOUS
<1>1. /\ Len(fifo) \in Nat
      /\ Len(Queue) = Len(fifo) + (IF Written THEN 1 ELSE 0)
      /\ \A k \in 1 .. Len(fifo) : Queue[k] = fifo[k]
      /\ Written => Queue[Len(fifo) + 1] = Offered
  BY QueueFacts DEF OrderInv
<1>2. CASE i \in 1 .. Len(fifo)
  BY <1>1, <1>2
<1>3. CASE i \notin 1 .. Len(fifo)
  <2>1. Written
    BY <1>1, <1>3
  <2>2. i = Len(fifo) + 1 /\ n + i - 1 = n + Len(fifo)
    BY <1>1, <1>3, <2>1
  <2> QED
    BY <1>1, <2>1, <2>2 DEF Written
<1> QED
  BY <1>2, <1>3

(* The byte that is offered next is counted next.                          *)
LEMMA OfferCount ==
    ASSUME OrderInv, OrderInv', NEW e \in Nat, clean',
           OfferStays \/ OfferEnds \/ OfferMoves, state = "ZERO" => state' = "ZERO",
           uart.valid => CountedAt(Offered, e),
           state # "ZERO" => Pos(Newest) = e - Missing,
           NEW f \in Nat, f = e + (IF Written THEN 1 ELSE 0)
    PROVE  /\ uart'.valid => CountedAt(Offered, f)'
           /\ state' # "ZERO" => Pos(Newest)' = f - Missing'
<1>1. /\ uart.valid => Offered = Newest
      /\ uart'.valid => Offered' = Newest'
      /\ uart'.valid => Offered'.byte >= 0
  BY LayoutFacts DEF OrderInv, OffloadPlace, MachineType, Offered
<1>2. Pos(Newest) \in Int /\ Pos(Newest') = Pos(Newest)'
  <2>1. Newest \in Byte
    <3>1. data_count \in 0 .. Bytes /\ latched \in 0 .. BlockWords /\ Bytes \in Nat \ {0}
      BY PosFacts DEF OrderInv, MachineType
    <3>2. \A n \in 0 .. Bytes : n - 1 \in -1 .. Bytes - 1
      BY <3>1
    <3> QED
      BY <3>1, <3>2 DEF Newest, Byte
  <2> QED
    BY <2>1, PosFacts DEF Pos
<1>3. CASE OfferMoves
  <2>1. Pos(Newest)' = Pos(Newest) + 1 /\ state # "ZERO" /\ uart'.valid
        /\ (Written <=> uart.valid)
    BY <1>3 DEF OfferMoves, Written
  <2>2. Pos(Newest)' = f
    BY <1>2, <2>1 DEF Missing
  <2> QED
    BY <1>1, <1>2, <2>1, <2>2 DEF CountedAt, Missing
<1>4. CASE OfferEnds
  <2>1. Newest' = Newest /\ ~uart'.valid /\ (Written <=> uart.valid)
    BY <1>4 DEF OfferEnds, Written
  <2> QED
    BY <1>2, <2>1 DEF Missing
<1>5. CASE OfferStays
  <2>1. Newest' = Newest /\ uart' = uart /\ Offered' = Offered
    BY <1>5 DEF OfferStays, Offered
  <2>2. CASE state' # "ZERO"
    <3>1. ~Written
      BY <1>5, <2>2 DEF OfferStays, Written
    <3>2. Pos(Newest)' = f - Missing'
      BY <1>2, <2>1, <2>2, <3>1 DEF Missing
    <3>3. uart'.valid => Pos(Newest)' = f
      BY <1>2, <3>2 DEF Missing
    <3> QED
      BY <1>1, <1>2, <2>1, <3>2, <3>3 DEF CountedAt
  <2>3. CASE state' = "ZERO"
    <3> SUFFICES ASSUME uart'.valid PROVE CountedAt(Offered, f)'
      BY <2>3
    <3>1. Pos(Newest) <= e /\ (Pos(Newest) = e \/ Pos(Newest) < e)
      BY <1>1, <1>2, <2>1 DEF CountedAt
    <3>2. Pos(Newest) = f \/ Pos(Newest) < f
      BY <1>2, <3>1
    <3> QED
      BY <1>1, <1>2, <2>1, <2>3, <3>2 DEF CountedAt
  <2> QED
    BY <2>2, <2>3
<1> QED
  BY <1>3, <1>4, <1>5

(* What is counted stays counted.                                          *)
LEMMA CountedStays ==
    ASSUME clean', OfferStays \/ OfferEnds \/ OfferMoves, state = "ZERO" => state' = "ZERO"
    PROVE  \A b, n : CountedAt(b, n) =>
              /\ b.byte >= 0
              /\ Pos(b) = n \/ (state' = "ZERO" /\ b = Newest' /\ Pos(Newest') < n)
BY DEF CountedAt, OfferStays, OfferEnds, OfferMoves

(* An edge of the machine and one of the line keep the count.              *)
LEMMA PlaceStep ==
    ASSUME OrderInv, OrderInv', ScriptType, PlaceInv,
           Takes \/ Delivers \/ Rests,
           OfferStays \/ OfferEnds \/ OfferMoves, state = "ZERO" => state' = "ZERO"
    PROVE  ScriptType' /\ PlaceInv'
<1>1. ScriptType'
  <2>1. /\ host \in [script : {"tester", "update"}, nread : Nat,
                     block : {"first", "later", "done"}]
        /\ host.nread + 1 \in Nat /\ NextBlock \in {"first", "later", "done"}
    BY DEF ScriptType, NextBlock
  <2>2. CASE Takes \/ Rests
    BY <2>1, <2>2 DEF ScriptType, Takes, Rests
  <2>3. CASE Delivers
    <3>1. host' = IF host.block # "first" THEN host
                  ELSE IF host.nread + 1 = BlockBytes
                    THEN [host EXCEPT !.nread = 0, !.block = NextBlock]
                  ELSE [host EXCEPT !.nread = @ + 1]
      BY <2>3 DEF Delivers
    <3> HIDE DEF BlockBytes, NextBlock
    <3>2. CASE host.block # "first"
      BY <2>1, <3>1, <3>2 DEF ScriptType
    <3>3. CASE host.block = "first" /\ host.nread + 1 = BlockBytes
      <4>1. host' = [host EXCEPT !.nread = 0, !.block = NextBlock]
        BY <3>1, <3>3
      <4> QED
        BY <2>1, <4>1 DEF ScriptType
    <3>4. CASE host.block = "first" /\ host.nread + 1 # BlockBytes
      <4>1. host' = [host EXCEPT !.nread = @ + 1]
        BY <3>1, <3>4
      <4> QED
        BY <2>1, <4>1 DEF ScriptType
    <3> QED
      BY <3>2, <3>3, <3>4
  <2> QED
    BY <2>2, <2>3
<1> SUFFICES ASSUME host'.script = "tester", host'.block = "first", clean'
             PROVE  PlaceInv'
  BY <1>1 DEF PlaceInv
<1> DEFINE n == host.nread
           e == n + OnLine + Len(fifo)
           f == n + OnLine + Len(Queue)
<1>2. /\ host.script = "tester" /\ host.block = "first" /\ n \in Nat
      /\ host' = IF Delivers THEN [host EXCEPT !.nread = @ + 1] ELSE host
  <2>1. CASE Delivers
    <3>1. host' = IF host.block # "first" THEN host
                  ELSE IF host.nread + 1 = BlockBytes
                    THEN [host EXCEPT !.nread = 0, !.block = NextBlock]
                  ELSE [host EXCEPT !.nread = @ + 1]
      BY <2>1 DEF Delivers
    <3>2. NextBlock # "first"
      BY DEF NextBlock
    <3>3. host.block = "first"
      BY <3>1
    <3>4. host.nread + 1 # BlockBytes
      BY <3>1, <3>2, <3>3 DEF ScriptType
    <3> QED
      BY <2>1, <3>1, <3>3, <3>4 DEF ScriptType
  <2>2. CASE ~Delivers
    BY <2>2 DEF Takes, Rests, ScriptType
  <2> QED
    BY <2>1, <2>2
<1>3. clean
  BY DEF OfferStays, OfferEnds, OfferMoves
<1>4. /\ n = 0 \/ CountedAt(last, n - 1)
      /\ tx.st = "FRAME" => CountedAt(tx.byte, n)
      /\ \A i \in 1 .. Len(fifo) : CountedAt(fifo[i], n + OnLine + i - 1)
      /\ uart.valid => CountedAt(Offered, e)
      /\ state # "ZERO" => Pos(Newest) = e - Missing
      /\ latched = Stray => Pos(Newest) = -1
  <2> HIDE DEF n, e, f
  <2> QED
    BY <1>2, <1>3 DEF PlaceInv, n, e
<1>5. /\ OnLine \in {0, 1} /\ Len(fifo) \in Nat /\ Len(Queue) \in Nat
      /\ Len(Queue) = Len(fifo) + (IF Written THEN 1 ELSE 0)
      /\ n + OnLine \in Nat /\ e \in Nat /\ f \in Nat
      /\ f = e + (IF Written THEN 1 ELSE 0)
  <2>1. /\ OnLine \in {0, 1} /\ Len(fifo) \in Nat /\ Len(Queue) \in Nat
        /\ Len(Queue) = Len(fifo) + (IF Written THEN 1 ELSE 0)
    BY QueueFacts, LenProperties DEF OrderInv, OnLine
  <2> QED
    BY <1>2, <2>1
<1>6. \A i \in 1 .. Len(Queue) : CountedAt(Queue[i], n + OnLine + i - 1)
  BY <1>4, <1>5, QueueCount
<1> PICK p \in Nat, q \in Nat : p = e /\ q = f
  BY <1>5
<1>7. /\ uart'.valid => CountedAt(Offered, q)'
      /\ state' # "ZERO" => Pos(Newest)' = q - Missing'
  <2>1. /\ uart.valid => CountedAt(Offered, p)
        /\ state # "ZERO" => Pos(Newest) = p - Missing
        /\ q = p + (IF Written THEN 1 ELSE 0)
    BY <1>4, <1>5
  <2> HIDE DEF n, e, f
  <2> QED
    BY <2>1, OfferCount
<1>8. /\ host'.nread \in Nat /\ Len(fifo') \in Nat
      /\ host'.nread + OnLine' + Len(fifo') = f
      /\ host'.nread = 0 \/ CountedAt(last, host.nread - 1)'
      /\ tx'.st = "FRAME" => CountedAt(tx.byte, host.nread)'
      /\ \A i \in 1 .. Len(fifo') : CountedAt(fifo[i], host.nread + OnLine + i - 1)'
  <2>1. CASE Takes
    <3>1. /\ OnLine = 0 /\ OnLine' = 1 /\ host' = host /\ last' = last
          /\ Len(fifo') = Len(Queue) - 1 /\ Len(Queue) >= 1 /\ tx'.byte = Queue[1]
          /\ \A i \in 1 .. Len(fifo') : fifo'[i] = Queue[i + 1]
      BY <2>1 DEF Takes, OnLine
    <3>2. CountedAt(Queue[1], n)
      <4>1. 1 \in 1 .. Len(Queue) /\ n + OnLine + 1 - 1 = n
        BY <1>2, <1>5, <3>1
      <4> QED
        BY <1>6, <4>1
    <3>3. \A i \in 1 .. Len(fifo') :
             CountedAt(Queue[i + 1], host'.nread + OnLine' + i - 1)
      <4> SUFFICES ASSUME NEW i \in 1 .. Len(fifo')
                   PROVE  CountedAt(Queue[i + 1], host'.nread + OnLine' + i - 1)
        OBVIOUS
      <4>1. /\ i + 1 \in 1 .. Len(Queue)
            /\ n + OnLine + (i + 1) - 1 = host'.nread + OnLine' + i - 1
        <5>1. i \in Nat /\ i + 1 \in 1 .. Len(Queue)
          BY <1>5, <3>1
        <5>2. n + OnLine + (i + 1) - 1 = n + OnLine' + i - 1
          <6>1. n + 0 + (i + 1) - 1 = n + 1 + i - 1
            BY <1>2, <5>1
          <6> QED
            BY <3>1, <6>1
        <5> QED
          BY <3>1, <5>1, <5>2
      <4> QED
        BY <1>6, <4>1
    <3>4. host'.nread + OnLine' + Len(fifo') = f /\ Len(fifo') \in Nat
      <4>1. host'.nread = n /\ Len(fifo') \in Nat
        BY <1>5, <3>1
      <4>2. n + 1 + (Len(Queue) - 1) = n + 0 + Len(Queue)
        <5>1. n \in Nat /\ Len(Queue) \in Nat
          BY <1>2, <1>5
        <5> HIDE DEF n
        <5> QED
          BY <5>1
      <4> QED
        BY <3>1, <4>1, <4>2
    <3>5. host'.nread = 0 \/ CountedAt(last, host.nread - 1)'
      BY <1>4, <3>1, CountedStays DEF CountedAt
    <3>6. CountedAt(tx.byte, host.nread)'
      BY <3>1, <3>2, CountedStays DEF CountedAt
    <3>7. \A i \in 1 .. Len(fifo') : CountedAt(fifo[i], host.nread + OnLine + i - 1)'
      BY <3>1, <3>3, CountedStays DEF CountedAt
    <3> QED
      BY <1>2, <3>1, <3>4, <3>5, <3>6, <3>7
  <2>2. CASE Delivers
    <3>1. /\ OnLine = 1 /\ OnLine' = 0 /\ host'.nread = n + 1 /\ last' = tx.byte
          /\ fifo' = Queue /\ tx.st = "FRAME" /\ tx'.st # "FRAME"
      BY <1>2, <2>2 DEF Delivers, OnLine, ScriptType
    <3>2. /\ host'.nread + OnLine' + Len(fifo') = f /\ host'.nread - 1 = n
          /\ host'.nread + OnLine' = n + OnLine
      BY <1>2, <1>5, <3>1
    <3>3. CountedAt(last, host.nread - 1)'
      BY <1>4, <3>1, <3>2, CountedStays DEF CountedAt
    <3>4. \A i \in 1 .. Len(fifo') : CountedAt(fifo[i], host.nread + OnLine + i - 1)'
      BY <1>6, <3>1, <3>2, CountedStays DEF CountedAt
    <3> QED
      BY <1>1, <1>5, <3>1, <3>2, <3>3, <3>4 DEF ScriptType
  <2>3. CASE Rests /\ ~Delivers
    <3>1. /\ OnLine' = OnLine /\ host' = host /\ last' = last /\ fifo' = Queue
          /\ tx'.st = "FRAME" => tx.st = "FRAME" /\ tx'.byte = tx.byte
      BY <2>3 DEF Rests, OnLine
    <3>2. host'.nread = 0 \/ CountedAt(last, host.nread - 1)'
      BY <1>4, <3>1, CountedStays DEF CountedAt
    <3>3. tx'.st = "FRAME" => CountedAt(tx.byte, host.nread)'
      BY <1>4, <3>1, CountedStays DEF CountedAt
    <3>4. \A i \in 1 .. Len(fifo') : CountedAt(fifo[i], host.nread + OnLine + i - 1)'
      BY <1>6, <3>1, CountedStays DEF CountedAt
    <3> QED
      BY <1>2, <1>5, <3>1, <3>2, <3>3, <3>4
  <2> QED
    BY <2>1, <2>2, <2>3
<1>9. latched' = Stray => Pos(Newest)' = -1
  <2> SUFFICES ASSUME latched' = Stray PROVE Pos(Newest)' = -1
    OBVIOUS
  <2>1. CASE Newest' = Newest
    BY <1>4, <2>1 DEF Newest, Pos
  <2>2. CASE Newest' # Newest
    <3>1. Pos(Newest)' = Pos(Newest) + 1
      BY <2>2 DEF OfferStays, OfferEnds, OfferMoves
    <3>2. /\ data_count \in 0 .. Bytes /\ latched \in 0 .. BlockWords
          /\ data_count' \in 0 .. Bytes /\ Bytes \in Nat \ {0} /\ BlockWords \in Nat
      BY PosFacts DEF OrderInv, MachineType
    <3>3. Pos(Newest)' = data_count' - 1 - Bytes
      BY <3>2, PosFacts DEF Newest
    <3>4. Pos(Newest) >= -1
      <4>1. CASE latched = Stray
        BY <1>4, <4>1
      <4>2. CASE latched # Stray
        <5>1. Pos(Newest) = latched * Bytes + (data_count - 1)
          BY <3>2, <4>2, PosFacts DEF Newest
        <5>2. latched * Bytes \in Nat
          BY <3>2
        <5> QED
          BY <3>2, <5>1, <5>2
      <4> QED
        BY <4>1, <4>2
    <3>5. Pos(Newest) \in Int
      <4>1. CASE latched = Stray
        BY <1>4, <4>1
      <4>2. CASE latched # Stray
        BY <3>2, <4>2, PosFacts DEF Newest
      <4> QED
        BY <4>1, <4>2
    <3> QED
      BY <3>1, <3>2, <3>3, <3>4, <3>5
  <2> QED
    BY <2>1, <2>2
<1>10. uart'.valid => CountedAt(Offered, host.nread + OnLine + Len(fifo))'
  <2>1. host'.nread + OnLine' + Len(fifo') = q
    BY <1>8
  <2> QED
    BY <1>7, <2>1 DEF CountedAt
<1>11. state' # "ZERO" =>
         Pos(Newest)' = ((host.nread + OnLine + Len(fifo)) - Missing)'
  <2>1. host'.nread + OnLine' + Len(fifo') = q
    BY <1>8
  <2> QED
    BY <1>7, <2>1
<1> QED
  BY <1>8, <1>9, <1>10, <1>11 DEF PlaceInv

(* At the start nothing is on the way.  If the last packet left data_count *)
(* at the end of a word, the next byte is the first of the cell.           *)
LEMMA PlaceStarts == DumpInit => ScriptType /\ PlaceInv
<1> SUFFICES ASSUME DumpInit PROVE ScriptType /\ PlaceInv
  OBVIOUS
<1>1. /\ tx.st # "FRAME" /\ fifo = <<>> /\ Len(fifo) = 0 /\ ~uart.valid /\ OnLine = 0
      /\ latched = Stray /\ clean = (data_count = Bytes) /\ host.nread = 0
  BY DEF DumpInit, OnLine
<1>2. ScriptType
  BY DEF DumpInit, ScriptType
<1>3. clean => Pos(Newest) = -1
  <2> SUFFICES ASSUME clean PROVE Pos(Newest) = -1
    OBVIOUS
  <2>1. data_count = Bytes
    BY <1>1
  <2>2. data_count = Bytes /\ Bytes \in Nat \ {0} /\ Bytes - 1 \in -1 .. Bytes - 1
    BY <2>1, LayoutFacts
  <2>3. Pos(Newest) = (Bytes - 1) - Bytes
    BY <1>1, <2>2, PosFacts DEF Newest
  <2> QED
    BY <2>2, <2>3
<1> QED
  BY <1>1, <1>2, <1>3 DEF PlaceInv, Missing

(* Every step keeps the count.                                             *)
LEMMA CountKept ==
    ASSUME OrderInv, OrderInv', ScriptType, PlaceInv, [DumpNext]_dumpVars
    PROVE  ScriptType' /\ PlaceInv'
<1>1. ASSUME NEW acked \in BOOLEAN, NEW sent \in BOOLEAN, Edge(acked, sent)
      PROVE  ScriptType' /\ PlaceInv'
  <2>1. OffloadBegins \/ OffloadEnds \/ WordComes \/ Serves \/ Stands
    BY <1>1, OffloadFacts DEF Edge, OrderInv
  <2>2. Takes \/ Delivers \/ Rests
    BY <1>1, LineFacts DEF Edge, OrderInv
  <2>3. state = "ZERO" => state' = "ZERO"
    BY <2>1 DEF OffloadBegins, OffloadEnds, WordComes, Serves, Stands
  <2>4. OfferStays \/ OfferEnds \/ OfferMoves
    BY <2>1, OfferStep DEF OrderInv
  <2> QED
    BY <2>2, <2>3, <2>4, PlaceStep
<1>2. CASE Timeout
  <2>1. host' = [host EXCEPT !.nread = 0, !.block = "later"]
    BY <1>2 DEF Timeout
  <2>2. ScriptType' /\ host'.block # "first"
    BY <2>1 DEF ScriptType
  <2> QED
    BY <2>2 DEF PlaceInv
<1>3. CASE UNCHANGED dumpVars
  <2>1. /\ UNCHANGED <<state, data_count, latched, uart>>
        /\ UNCHANGED <<fifo, tx, host, last, clean>>
    BY <1>3 DEF dumpVars, vars, side
  <2> QED
    BY <2>1 DEF ScriptType, PlaceInv, CountedAt, OnLine, Missing, Offered, Newest
<1> QED
  BY <1>1, <1>2, <1>3 DEF DumpNext

(* The invariant of the count.                                             *)
THEOREM PlaceInvariant == DumpSpec => [](OrderInv /\ ScriptType /\ PlaceInv)
BY OrderInit, OrderStep, PlaceStarts, CountKept, PTL DEF DumpSpec

(* The word that a position lies in.                                       *)
LEMMA WordOf ==
    ASSUME NEW w \in Int, NEW j \in 0 .. Bytes - 1, NEW a \in Int
    PROVE  /\ a * Bytes <= w * Bytes + j => a <= w
           /\ w * Bytes + j < a * Bytes => w < a
<1>1. Bytes \in Nat \ {0}
  BY PosFacts
<1>2. ASSUME NEW k \in Int, NEW l \in Int, k <= l PROVE k * Bytes <= l * Bytes
  <2>1. (l - k) \in Nat /\ l = k + (l - k)
    BY <1>2
  <2>2. (l - k) * Bytes \in Nat
    BY <1>1, <2>1
  <2>3. l * Bytes = k * Bytes + (l - k) * Bytes
    BY <1>1, <2>1
  <2>4. k * Bytes \in Int
    BY <1>1
  <2> QED
    BY <2>2, <2>3, <2>4
<1>3. w * Bytes \in Int /\ a * Bytes \in Int /\ (w + 1) * Bytes = w * Bytes + Bytes
  BY <1>1
<1>4. a * Bytes <= w * Bytes + j => a <= w
  <2> SUFFICES ASSUME a > w PROVE a * Bytes > w * Bytes + j
    BY <1>1, <1>3
  <2>1. (w + 1) * Bytes <= a * Bytes
    BY <1>2
  <2> QED
    BY <1>1, <1>3, <2>1
<1>5. w * Bytes + j < a * Bytes => w < a
  <2> SUFFICES ASSUME w >= a PROVE w * Bytes + j >= a * Bytes
    BY <1>1, <1>3
  <2>1. a * Bytes <= w * Bytes
    BY <1>2
  <2> QED
    BY <1>1, <1>3, <2>1
<1> QED
  BY <1>4, <1>5

(* A byte is where it is: one position, one byte.                          *)
LEMMA PlaceOf ==
    ASSUME NEW b \in Byte, b.byte >= 0, Pos(b) >= 0
    PROVE  /\ b.word # Stray /\ b.word \in 0 .. BlockWords /\ b.byte \in 0 .. Bytes - 1
           /\ Pos(b) = b.word * Bytes + b.byte
           /\ \A c \in Byte : c.byte >= 0 /\ Pos(c) = Pos(b) => c = b
<1>1. /\ Bytes \in Nat \ {0} /\ BlockWords \in Nat /\ Stray = BlockWords
      /\ \A n \in Int : n * Bytes \in Int
  BY PosFacts
<1>2. ASSUME NEW c \in Byte, c.byte >= 0, Pos(c) >= 0
      PROVE  /\ c.word # Stray /\ c.word \in 0 .. BlockWords
             /\ c.byte \in 0 .. Bytes - 1 /\ Pos(c) = c.word * Bytes + c.byte
  <2>1. c.word \in 0 .. BlockWords /\ c.byte \in 0 .. Bytes - 1
    BY <1>1, <1>2 DEF Byte
  <2>2. c.word # Stray
    BY <1>1, <1>2, <2>1 DEF Pos
  <2> QED
    BY <2>1, <2>2 DEF Pos
<1>3. ASSUME NEW x \in Int, NEW y \in Int, NEW i \in 0 .. Bytes - 1,
             NEW j \in 0 .. Bytes - 1, x + i = y + j
      PROVE  x <= y + j /\ y <= x + i /\ (x = y => i = j)
  BY <1>1, <1>3
<1>4. ASSUME NEW c \in Byte, c.byte >= 0, Pos(c) = Pos(b) PROVE c = b
  <2>1. /\ c.word \in Int /\ b.word \in Int /\ c.word * Bytes \in Int
        /\ b.word * Bytes \in Int /\ c.byte \in 0 .. Bytes - 1 /\ b.byte \in 0 .. Bytes - 1
        /\ Pos(c) = c.word * Bytes + c.byte /\ Pos(b) = b.word * Bytes + b.byte
    BY <1>1, <1>2, <1>4
  <2>2. c.word <= b.word /\ b.word <= c.word
    <3>1. c.word * Bytes + c.byte = b.word * Bytes + b.byte
      BY <1>4, <2>1
    <3>2. /\ c.word * Bytes <= b.word * Bytes + b.byte
          /\ b.word * Bytes <= c.word * Bytes + c.byte
      BY <1>3, <2>1, <3>1
    <3> QED
      BY <2>1, <3>1, <3>2, WordOf
  <2>3. c.word = b.word
    BY <2>1, <2>2
  <2>4. c.byte = b.byte
    <3>1. c.word * Bytes + c.byte = b.word * Bytes + b.byte
      BY <1>4, <2>1
    <3> QED
      BY <1>3, <2>1, <2>3, <3>1
  <2> QED
    BY <1>4, <2>3, <2>4 DEF Byte
<1> QED
  BY <1>2, <1>4

(* A byte of the cell is printed under the name of what is stored there.   *)
LEMMA FieldOf ==
    ASSUME NEW w \in 0 .. BlockWords - 1, NEW j \in 0 .. Bytes - 1,
           NEW n \in Int, n = w * Bytes + j,
           NEW f \in TesterFields(Bytes), n \in f.from .. f.to - 1
    PROVE  f.name = StoredField(w)
<1>1. /\ Bytes \in Nat \ {0} /\ BlockWords \in Nat /\ NameWords \in Nat \ {0}
      /\ ABase \in Nat /\ AAAABase \in Nat /\ CNameBase \in Nat /\ QHostBase \in Nat
      /\ NameWords + 6 < ABase /\ ABase < AAAABase /\ AAAABase < CNameBase
      /\ CNameBase + NameWords <= QHostBase /\ QHostBase + 1 < BlockWords
  BY LayoutFacts
<1>2. w \in Int /\ j \in 0 .. Bytes - 1
  BY <1>1
<1>3. ASSUME NEW a \in Int, NEW c \in Int, f.from = a * Bytes, f.to <= c * Bytes,
             f.to \in Int
      PROVE  a <= w /\ w < c
  <2>1. a * Bytes \in Int /\ c * Bytes \in Int
    BY <1>1, <1>3
  <2>2. a * Bytes <= w * Bytes + j /\ w * Bytes + j < c * Bytes
    BY <1>3, <2>1
  <2> QED
    BY <1>2, <2>2, WordOf
<1>4. ASSUME NEW name, NEW s \in Int, f = StatField(name, s, Bytes) PROVE w = s
  <2>1. /\ f.from = s * Bytes /\ f.to = (s + 1) * Bytes - 1
        /\ (s + 1) * Bytes \in Int
    BY <1>1, <1>4 DEF StatField, Field
  <2>2. f.to <= (s + 1) * Bytes /\ f.to \in Int /\ s + 1 \in Int
    BY <2>1
  <2>3. s <= w /\ w < s + 1
    BY <1>3, <2>1, <2>2
  <2> QED
    BY <1>2, <2>3
<1>5. ASSUME NEW name, NEW a \in Int, NEW c \in Int, f = Field(name, a * Bytes, (c - 1) * Bytes)
      PROVE  a <= w /\ w < c - 1
  <2>1. f.from = a * Bytes /\ f.to = (c - 1) * Bytes /\ (c - 1) * Bytes \in Int /\ c - 1 \in Int
    BY <1>1, <1>5 DEF Field
  <2>2. f.to <= (c - 1) * Bytes /\ f.to \in Int
    BY <2>1
  <2> QED
    BY <1>3, <2>1, <2>2
<1> USE DEF StoredField, InUse, QueryCount, Resolved, QHosts, ACount, AAAACount, CNameCount
<1>6. CASE f = Field("qname", 0, (NameWords - 1) * Bytes)
  <2>1. f.from = 0 * Bytes /\ f.to = (NameWords - 1) * Bytes /\ f.name = "qname"
    BY <1>1, <1>6 DEF Field
  <2>2. f.to <= (NameWords - 1) * Bytes /\ f.to \in Int /\ NameWords - 1 \in Int
    BY <1>1, <2>1
  <2>3. w < NameWords - 1
    BY <1>3, <2>1, <2>2
  <2> QED
    BY <1>1, <2>1, <2>3
<1>7. CASE f = StatField("flags", InUse, Bytes)
  <2>1. w = InUse /\ f.name = "flags"
    BY <1>1, <1>4, <1>7 DEF StatField, Field
  <2> QED
    BY <1>1, <2>1
<1>8. CASE f = StatField("query_num", QueryCount, Bytes)
  <2>1. w = QueryCount /\ f.name = "query_num"
    BY <1>1, <1>4, <1>8 DEF StatField, Field
  <2> QED
    BY <1>1, <2>1
<1>9. CASE f = StatField("res_num", Resolved, Bytes)
  <2>1. w = Resolved /\ f.name = "res_num"
    BY <1>1, <1>4, <1>9 DEF StatField, Field
  <2> QED
    BY <1>1, <2>1
<1>10. CASE f = StatField("qhosts", QHosts, Bytes)
  <2>1. w = QHosts /\ f.name = "qhosts"
    BY <1>1, <1>4, <1>10 DEF StatField, Field
  <2> QED
    BY <1>1, <2>1
<1>11. CASE f = StatField("rhosts_a", ACount, Bytes)
  <2>1. w = ACount /\ f.name = "rhosts_a"
    BY <1>1, <1>4, <1>11 DEF StatField, Field
  <2> QED
    BY <1>1, <2>1
<1>12. CASE f = StatField("rhosts_aaaa", AAAACount, Bytes)
  <2>1. w = AAAACount /\ f.name = "rhosts_aaaa"
    BY <1>1, <1>4, <1>12 DEF StatField, Field
  <2> QED
    BY <1>1, <2>1
<1>13. CASE f = Field("rhosts_cname", CNameCount * Bytes, CNameCount * Bytes + Bytes - 1)
  <2>1. /\ f.from = CNameCount * Bytes /\ f.to = CNameCount * Bytes + Bytes - 1
        /\ f.name = "rhosts_cname" /\ CNameCount \in Int
        /\ CNameCount * Bytes \in Int
        /\ (CNameCount + 1) * Bytes = CNameCount * Bytes + Bytes
    BY <1>1, <1>13 DEF Field
  <2>2. f.to <= (CNameCount + 1) * Bytes /\ f.to \in Int /\ CNameCount + 1 \in Int
    BY <1>1, <2>1
  <2>3. CNameCount <= w /\ w < CNameCount + 1
    BY <1>3, <2>1, <2>2
  <2> QED
    BY <1>1, <2>1, <2>3
<1>14. CASE f = Field("resolved_hosts_a", ABase * Bytes, (AAAABase - 1) * Bytes)
  <2>1. ABase <= w /\ w < AAAABase - 1 /\ f.name = "resolved_hosts_a"
    BY <1>1, <1>5, <1>14 DEF Field
  <2> QED
    BY <1>1, <2>1
<1>15. CASE f = Field("resolved_hosts_aaaa", AAAABase * Bytes, (CNameBase - 1) * Bytes)
  <2>1. AAAABase <= w /\ w < CNameBase - 1 /\ f.name = "resolved_hosts_aaaa"
    BY <1>1, <1>5, <1>15 DEF Field
  <2> QED
    BY <1>1, <2>1
<1>16. CASE f = Field("resolved_hosts_cname", CNameBase * Bytes, (QHostBase - 1) * Bytes)
  <2>1. CNameBase <= w /\ w < QHostBase - 1 /\ f.name = "resolved_hosts_cname"
    BY <1>1, <1>5, <1>16 DEF Field
  <2> QED
    BY <1>1, <2>1
<1>17. CASE f = Field("querying_host", QHostBase * Bytes, (BlockWords - 1) * Bytes)
  <2>1. QHostBase <= w /\ f.name = "querying_host"
    BY <1>1, <1>5, <1>17 DEF Field
  <2> QED
    BY <1>1, <2>1
<1> QED
  BY <1>6, <1>7, <1>8, <1>9, <1>10, <1>11, <1>12, <1>13, <1>14, <1>15, <1>16, <1>17
     DEF TesterFields

(* A byte that differs from the one before it is byte n of the cell, where *)
(* n is the number of bytes that came before.                              *)
LEMMA NewByteInPlace ==
    ASSUME OrderInv, ScriptType, PlaceInv, host.script = "tester", host.block = "first",
           clean, tx.st = "FRAME", tx.byte # last
    PROVE  tx.byte.byte >= 0 /\ Pos(tx.byte) = host.nread
<1>1. /\ host.nread \in Nat /\ last \in Byte /\ tx.byte \in Byte
      /\ CountedAt(tx.byte, host.nread)
      /\ host.nread = 0 \/ CountedAt(last, host.nread - 1)
  BY DEF OrderInv, LineType, ScriptType, PlaceInv
<1> SUFFICES ASSUME tx.byte = Newest, Pos(Newest) < host.nread, state = "ZERO"
             PROVE  FALSE
  BY <1>1 DEF CountedAt
<1>2. /\ BlockWords \in Nat /\ Bytes \in Nat \ {0} /\ BlockWords >= 3
      /\ latched = BlockWords - 3 /\ latched \in Nat /\ latched # Stray
      /\ data_count - 1 >= 0 /\ data_count \in 0 .. Bytes
  <2>1. Newest.byte >= 0 /\ Newest.byte = data_count - 1
    BY <1>1 DEF CountedAt, Newest
  <2> QED
    BY <2>1, LayoutFacts DEF OrderInv, OffloadPlace, MachineType, Stray
<1>3. Pos(Newest) \in Nat
  <2>1. Pos(Newest) = latched * Bytes + (data_count - 1)
    BY <1>2, PosFacts DEF Newest
  <2>2. latched * Bytes \in Nat
    BY <1>2
  <2> QED
    BY <1>2, <2>1, <2>2
<1>4. CountedAt(last, host.nread - 1) /\ host.nread - 1 \in Nat
      /\ Pos(Newest) <= host.nread - 1
  BY <1>1, <1>3
<1>5. Pos(last) <= Pos(Newest)
  BY DEF OrderInv, NewestInv, Gone
<1>6. CASE last = Newest
  BY <1>6
<1>7. CASE last # Newest
  <2>1. Pos(last) = host.nread - 1 /\ last.byte >= 0
    BY <1>4, <1>7 DEF CountedAt
  <2>2. Pos(last) = Pos(Newest) /\ Pos(Newest) >= 0
    BY <1>1, <1>3, <1>4, <1>5, <2>1
  <2>3. tx.byte.byte >= 0
    BY <1>1 DEF CountedAt
  <2>4. last = tx.byte
    BY <1>1, <2>1, <2>2, <2>3, PlaceOf
  <2> QED
    BY <2>4
<1> QED
  BY <1>6, <1>7

(* serial_tester.py prints the bytes of its first block as what the        *)
(* storage machine put there (lines 36 to 47 against the addresses of      *)
(* storage.v), as long as the dump is clean: as long as the FIFO took      *)
(* every byte, the k-th that comes is the k-th of the cell.                *)
THEOREM TesterReads == DumpSpec => TesterReadsTheCell
<1> DEFINE Printed == host.script = "tester" /\ host.block = "first" /\ clean /\ last' # last =>
             \A f \in TesterFields(Bytes) :
                host.nread \in f.from .. f.to - 1 => f.name = StoredField(last'.word)
<1>1. OrderInv /\ ScriptType /\ PlaceInv /\ [DumpNext]_dumpVars => [Printed]_dumpVars
  <2> SUFFICES ASSUME OrderInv, ScriptType, PlaceInv, [DumpNext]_dumpVars,
                      host.script = "tester", host.block = "first", clean, last' # last,
                      NEW f \in TesterFields(Bytes), host.nread \in f.from .. f.to - 1
               PROVE  f.name = StoredField(last'.word)
    OBVIOUS
  <2>1. tx.st = "FRAME" /\ last' = tx.byte /\ tx.byte # last
    BY DEF DumpNext, dumpVars, Timeout, Edge, HostReads
  <2>2. tx.byte.byte >= 0 /\ Pos(tx.byte) = host.nread
    BY <2>1, NewByteInPlace
  <2>3. host.nread \in Nat /\ tx.byte \in Byte
    BY DEF OrderInv, LineType, ScriptType
  <2>4. /\ tx.byte.word # Stray /\ tx.byte.word \in 0 .. BlockWords
        /\ tx.byte.byte \in 0 .. Bytes - 1
        /\ host.nread = tx.byte.word * Bytes + tx.byte.byte
    BY <2>2, <2>3, PlaceOf
  <2>5. tx.byte.word \in 0 .. BlockWords - 1
    <3>1. BlockWords \in Nat /\ Stray = BlockWords
      BY PosFacts
    <3> QED
      BY <2>4, <3>1
  <2> QED
    BY <2>1, <2>3, <2>4, <2>5, FieldOf
<1> QED
  BY <1>1, PlaceInvariant, PTL DEF DumpSpec, TesterReadsTheCell
=============================================================================
