-------------------------- MODULE StorageInvariants --------------------------
(***************************************************************************)
(* What storage.v guarantees whatever the memory, the analyzer, the hash   *)
(* unit and the UART do: the type invariant, the safety invariants that    *)
(* hold for every environment, and the inductive invariant behind them.    *)
(***************************************************************************)
EXTENDS Storage

DataCount == 0 .. (NameWords + Quarters + Bytes)

(* Every register has a value of its type.  The overflow of intrablock_addr *)
(* is the part that is not obvious: the code adds to it in eight states.   *)
PlaceType ==
    /\ state \in States
    /\ data_count \in DataCount
    /\ intrablock \in Offset /\ interblock \in Cell /\ hash \in Row
WorkType ==
    /\ parsed_pkts \in 0 .. OffloadAfter
    /\ pkt \in Packet
    /\ left \in [a : 0 .. AMax + 1, aaaa : 0 .. AAAAMax, cname : 0 .. 3]
    /\ blk \in [StatSlots -> Word]
SideType ==
    /\ parser_ready \in BOOLEAN
    /\ latched \in Word
    /\ uart \in [valid : BOOLEAN, word : Word, byte : 0 .. Bytes - 1]
BusType == wb \in [addr : Address, dat : Word, we : BOOLEAN, stb : BOOLEAN]
TypeOK  == PlaceType /\ WorkType /\ SideType /\ BusType

-----------------------------------------------------------------------------
(* The part of a cell that each writing state may touch.  CNAMEs and       *)
(* querying hosts are not here: the code does not keep them in theirs.     *)
Region(s) ==
    CASE s = "WRITE_QNAME_WAIT"              -> 0 .. NameWords - 1
      [] s = "SET_IN_USE_W"                  -> {InUse}
      [] s = "UPDATE_STATS_W"                -> StatSlots \ {QHosts}
      [] s = "UPDATE_QHOST_STAT_W"           -> {QHosts}
      [] s \in {"APPEND_A_W", "CHECK_A"}     -> ABase .. AAAABase - 1
      [] s = "APPEND_AAAA_W"                 -> AAAABase .. CNameBase - 1
      [] s \in {"APPEND_CNAME_W", "WRITE_QHOST_W"} -> Offset
      [] s = "ZERO_WAIT"                     -> Offset
      [] OTHER                               -> {}

(* A write strobe on the bus touches only the part of a cell that belongs  *)
(* to the state that raised it, and only the cell being worked on: what is *)
(* written as name, flag, statistic, A or AAAA record never runs into what *)
(* the others are written to, whatever the memory answers.  CNAMEs and     *)
(* querying hosts are only held to the cell (see Region).                  *)
WritesInRegion ==
    wb.stb /\ wb.we =>
        /\ wb.addr.word \in Region(state)
        /\ state # "ZERO_WAIT" => wb.addr.row = hash /\ wb.addr.cell = interblock

(* While a state waits, the bus asks for exactly what the state waits for: *)
(* the strobe is up, the direction is right and the address is the current *)
(* position.  A wait state whose strobe is down never ends.                *)
WaitsForItsRequest ==
    state \in WaitStates =>
        /\ wb.stb
        /\ wb.we = (state \in WriteWaits)
        /\ state # "ZERO_WAIT" => wb.addr = Here

(* The two counters that walk a name, one up and one down, stay in step:   *)
(* word k of the cell receives the k-th word of the name.                  *)
NameWordsInOrder ==
    state = "WRITE_QNAME_WAIT" =>
        wb.dat = pkt.name[NameWords - 1 - wb.addr.word]

(* The statistics are written one slot behind the one they were computed   *)
(* for: each slot still receives its own sum, with the packet's whole      *)
(* record counts, and QHosts is skipped.                                   *)
StatisticsInTheirSlots ==
    state = "UPDATE_STATS_W" =>
        wb.dat =
           (CASE wb.addr.word = QueryCount -> blk[QueryCount] + 1
              [] wb.addr.word = Resolved   ->
                    blk[Resolved] + pkt.nA + pkt.nAAAA + pkt.nCNAME
              [] wb.addr.word = ACount     -> blk[ACount] + pkt.nA
              [] wb.addr.word = AAAACount  -> blk[AAAACount] + pkt.nAAAA
              [] wb.addr.word = CNameCount -> blk[CNameCount] + pkt.nCNAME)
           % (Half * Half)

(* A record that is compared or appended exists: the counts that index the *)
(* packet registers have not run below one.                                *)
RecordsRemain ==
    /\ state \in {"CHECK_AAAA", "CHECK_AAAA_W", "APPEND_AAAA", "APPEND_AAAA_W"} =>
          left.aaaa > 0
    /\ state \in {"CHECK_CNAME", "CHECK_CNAME_W", "APPEND_CNAME", "APPEND_CNAME_W"} =>
          left.cname > 0

(* An AAAA record is written whole and aligned: the quarter that goes to a *)
(* word of the AAAA part is the quarter with the index of that word.       *)
AAAAQuartersAligned ==
    state = "APPEND_AAAA_W" =>
        wb.dat = pkt.aaaa[left.aaaa][(wb.addr.word - AAAABase) % Quarters]

(* A CNAME fills one slot: while a slot is read or written, the position   *)
(* is data_count words away from the end of a slot, also after the scan    *)
(* has left the CNAME part, so two names never overlap.                    *)
CNameSlotsAligned ==
    state \in {"CHECK_CNAME", "CHECK_CNAME_W", "APPEND_CNAME", "APPEND_CNAME_W"} =>
        (intrablock + data_count - CNameTop) % NameWords = 0

-----------------------------------------------------------------------------
(* The inductive invariant: where the position and the counters are in     *)
(* each state.                                                             *)

Scanning == {"CHECK_CELLS", "CHECK_CELLS_WAIT", "CHECK_NAME", "CHECK_NAME_WAIT",
             "WRITE_QNAME", "WRITE_QNAME_WAIT"}
BeforeRecords == Scanning \cup
    {"HASHING", "SET_IN_USE", "SET_IN_USE_W", "READ_STATS", "READ_STATS_W",
     "UPDATE_STATS", "UPDATE_STATS_W"}

Resting == {"IDLE", "OFFLOAD", "ZERO", "ZERO_WAIT"}

(* A packet is only worked on while another one may be counted.            *)
PacketsInv == state \notin Resting => parsed_pkts < OffloadAfter

(* Where the state machine may point inside the cell.                      *)
PositionInv ==
    /\ state = "HASHING" => intrablock = InUse
    /\ state \in {"CHECK_CELLS", "CHECK_CELLS_WAIT"} => intrablock \in 0 .. InUse
    /\ state \in {"CHECK_NAME", "CHECK_NAME_WAIT"} => intrablock \in 0 .. NameWords - 1
    /\ state \in {"SET_IN_USE", "SET_IN_USE_W"} => intrablock = InUse
    /\ state \in {"READ_STATS", "READ_STATS_W"} => intrablock \in StatSlots
    /\ state \in {"UPDATE_STATS", "UPDATE_STATS_W"} =>
          intrablock \in StatSlots \ {QHosts}
    /\ state \in {"CHECK_A", "CHECK_A_W", "APPEND_A", "APPEND_A_W"} =>
          intrablock \in ABase .. AAAABase - 1
    /\ state \in {"READ_QHOST_STAT", "READ_QHOST_STAT_W",
                  "UPDATE_QHOST_STAT", "UPDATE_QHOST_STAT_W"} => intrablock = QHosts

(* The name is written from word data_count of the register.  Until then   *)
(* data_count keeps the value that Capture gave it.                        *)
NameInv ==
    /\ state \in {"HASHING", "CHECK_CELLS", "CHECK_CELLS_WAIT", "CHECK_NAME",
                  "CHECK_NAME_WAIT"} => data_count = NameWords - 1
    /\ state \in {"WRITE_QNAME", "WRITE_QNAME_WAIT"} =>
          /\ data_count \in 0 .. NameWords - 1
          /\ intrablock = NameWords - 1 - data_count

(* An AAAA slot is walked in step with data_count.                         *)
AAAAInv ==
    /\ state \in {"CHECK_AAAA", "CHECK_AAAA_W"} =>
          /\ data_count \in 0 .. Quarters - 1
          /\ intrablock - data_count \in AAAABase .. CNameBase
          /\ (intrablock - data_count - AAAABase) % Quarters = 0
    /\ state \in {"APPEND_AAAA", "APPEND_AAAA_W"} =>
          /\ data_count \in 0 .. Quarters - 1
          /\ intrablock - data_count \in AAAABase .. CNameBase - Quarters
          /\ (intrablock - data_count - AAAABase) % Quarters = 0

CNameInv ==
    state \in {"CHECK_CNAME", "CHECK_CNAME_W", "APPEND_CNAME", "APPEND_CNAME_W"} =>
        data_count \in 0 .. NameWords - 1

(* The record counts are those of the packet until the statistics are      *)
(* written.                                                                *)
CountsInv ==
    state \in BeforeRecords => left = [a |-> pkt.nA, aaaa |-> pkt.nAAAA, cname |-> pkt.nCNAME]

(* What is on the bus.  After APPEND_A_W the write strobe of the finished  *)
(* access is still up for one clock edge.                                  *)
BusInv ==
    /\ state \in WaitStates => wb.stb /\ (wb.we <=> state \in WriteWaits)
    /\ state \in WaitStates \ {"ZERO_WAIT"} => wb.addr = Here
    /\ wb.stb /\ wb.we => state \in WriteWaits \cup {"CHECK_A"}
    /\ state = "CHECK_A" /\ wb.stb =>
          /\ wb.addr.word \in ABase .. AAAABase - 1
          /\ wb.addr.row = hash /\ wb.addr.cell = interblock

(* The data of the write in progress.                                      *)
DataInv ==
    /\ state = "WRITE_QNAME_WAIT" => wb.dat = pkt.name[data_count]
    /\ state \in {"UPDATE_STATS", "UPDATE_STATS_W"} => wb.dat = NewStat(intrablock)
    /\ state = "APPEND_AAAA_W" => wb.dat = AAAAWord

IInv ==
    /\ TypeOK
    /\ PacketsInv
    /\ PositionInv
    /\ NameInv
    /\ AAAAInv
    /\ CNameInv
    /\ CNameSlotsAligned
    /\ CountsInv
    /\ RecordsRemain
    /\ BusInv
    /\ DataInv

=============================================================================
