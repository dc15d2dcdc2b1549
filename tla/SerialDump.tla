----------------------------- MODULE SerialDump -----------------------------
(***************************************************************************)
(* How a cell gets to the host: a bench of the offload of the storage      *)
(* machine, the FIFO and the transmitter of the UART (uart_fifo.v,         *)
(* uart_tx.v), and the script that reads the serial port                   *)
(* (serial_tester.py or serial_tester_update.py).  In fpga_core.v the      *)
(* machine's bytes leave by the ports ext_uart_* (1065-1067) and axis_uart *)
(* is on wires that nothing drives (868-870); here they are joined.        *)
(*                                                                         *)
(* The machine begins with an offload (OffloadAfter is 0) and word k of    *)
(* the cell is the number k.  The memory may take any time for a word and  *)
(* the line any time for a bit.                                            *)
(***************************************************************************)
EXTENDS Storage, Sequences

CONSTANTS
    FifoDepth,     \* bytes of the FIFO                        [1024]
    UpdateWord     \* WORD_SIZE of serial_tester_update.py     [2]

ASSUME DumpAssumption == OffloadAfter = 0 /\ {FifoDepth, UpdateWord} \subseteq Nat \ {0}

VARIABLES
    fifo,          \* its bytes, the oldest first
    tx,            \* state, m_ready and tx_data
    host,          \* the script, the bytes of the block it reads, which block
    last,          \* the byte that came last
    clean          \* so far every byte of the cell was taken, and no other

dumpVars == <<vars, fifo, tx, host, last, clean>>

(* The position of a byte in the cell.  What wb_data_i_reg held before the *)
(* offload comes before it.                                                *)
Stray   == BlockWords
Pos(b)  == IF b.word = Stray THEN b.byte - Bytes ELSE b.word * Bytes + b.byte
Offered == [word |-> uart.word, byte |-> uart.byte]
NoByte  == [word |-> Stray, byte |-> -1]

(* data_count is what the last packet left in it.                          *)
DumpInit ==
    /\ state = "IDLE" /\ data_count \in 0 .. Bytes /\ latched = Stray
    /\ intrablock = 0 /\ interblock = 0 /\ hash = 0
    /\ parser_ready = FALSE /\ parsed_pkts = 0 /\ pkt = ZeroPacket
    /\ left = [a |-> 0, aaaa |-> 0, cname |-> 0] /\ blk = [s \in StatSlots |-> 0]
    /\ wb = [addr |-> Zero, dat |-> 0, we |-> FALSE, stb |-> FALSE]
    /\ uart = [valid |-> FALSE, word |-> 0, byte |-> 0]
    /\ fifo = <<>>
    /\ tx = [st |-> "IDLE", ready |-> FALSE, byte |-> NoByte]
    /\ host \in [script : {"tester", "update"}, nread : {0}, block : {"first"}]
    /\ last = NoByte
    /\ clean = (data_count = Bytes)

-----------------------------------------------------------------------------
(* The machine.  After the last word it zeroes the memory, and does not    *)
(* touch the UART again before the next offload.                           *)

Room == Len(fifo) < FifoDepth    \* uart_ready

OffloadStep(ack) ==
    \/ IdleOffload /\ UNCHANGED clean
    \/ ack /\ wb.stb /\ AnswerOffloadLast /\ UNCHANGED clean
    \/ /\ ack /\ wb.stb /\ AnswerOffloadWord(wb.addr.word, Room)
       /\ clean' = (clean /\ Room /\ data_count = Bytes)
    \/ ~ack /\ Room /\ OffloadByte /\ UNCHANGED clean
    \/ state = "OFFLOAD" /\ ~ack /\ ~Room /\ UNCHANGED <<vars, clean>>
    \/ state = "ZERO" /\ UNCHANGED <<vars, clean>>

-----------------------------------------------------------------------------
(* The UART.                                                               *)

Written == uart.valid /\ Room
Pop     == fifo # <<>> /\ tx.ready
Unread  == IF Pop THEN Tail(fifo) ELSE fifo

(* Mutant: of a byte that comes and one that goes in the same cycle, the   *)
(* one that comes is lost.                                                 *)
MutFifoStep == fifo' = IF Written /\ ~Pop THEN Append(fifo, Offered) ELSE Unread

FifoStep == fifo' = IF Written THEN Append(Unread, Offered) ELSE Unread

Taken == [st |-> "FRAME", ready |-> FALSE, byte |-> Head(fifo)]

(* Mutant: m_ready is not raised.                                          *)
MutTxIdle ==
    /\ tx.st = "IDLE"
    /\ tx' = IF Pop THEN Taken ELSE tx

TxIdle ==
    /\ tx.st = "IDLE"
    /\ tx' = IF Pop THEN Taken ELSE [tx EXCEPT !.ready = TRUE]

(* The start bit, the data bits and the stop bit, which take any time.     *)
TxFrame(sent) ==
    /\ tx.st = "FRAME"
    /\ tx' = IF sent THEN [tx EXCEPT !.st = "END"] ELSE tx

(* Mutant: the byte is taken at once, and stays in the FIFO.               *)
MutTxEnd ==
    /\ tx.st = "END"
    /\ tx' = IF fifo # <<>> THEN Taken ELSE [tx EXCEPT !.st = "IDLE", !.ready = FALSE]

TxEnd ==
    /\ tx.st = "END"
    /\ tx' = IF ~tx.ready THEN [tx EXCEPT !.ready = TRUE]
             ELSE IF Pop THEN Taken ELSE [tx EXCEPT !.st = "IDLE", !.ready = FALSE]

TxStep(sent) == TxIdle \/ TxFrame(sent) \/ TxEnd

-----------------------------------------------------------------------------
(* The host.  ser.read() returns a block when it has all bytes; in         *)
(* serial_tester.py also when its timeout is over.  That script reads the  *)
(* next block then, the other one ends.                                    *)

WordSize == IF host.script = "tester" THEN Bytes ELSE UpdateWord

(* The bytes of a block that a script prints as a field, and the words of  *)
(* a cell that the field is for.                                           *)
Field(name, from, to) == [name |-> name, from |-> from, to |-> to]
StatField(name, word, W) == Field(name, word * W, (word + 1) * W - 1)

TesterFields(W) ==
    { Field("qname", 0, (NameWords - 1) * W),
      StatField("flags", InUse, W), StatField("query_num", QueryCount, W),
      StatField("res_num", Resolved, W), StatField("qhosts", QHosts, W),
      StatField("rhosts_a", ACount, W), StatField("rhosts_aaaa", AAAACount, W),
      Field("rhosts_cname", CNameCount * W, CNameCount * W + Bytes - 1),
      Field("resolved_hosts_a", ABase * W, (AAAABase - 1) * W),
      Field("resolved_hosts_aaaa", AAAABase * W, (CNameBase - 1) * W),
      Field("resolved_hosts_cname", CNameBase * W, (QHostBase - 1) * W),
      Field("querying_host", QHostBase * W, (BlockWords - 1) * W) }

StoredField(word) ==
    CASE word \in 0 .. NameWords - 1          -> "qname"
      [] word = InUse                         -> "flags"
      [] word = QueryCount                    -> "query_num"
      [] word = Resolved                      -> "res_num"
      [] word = QHosts                        -> "qhosts"
      [] word = ACount                        -> "rhosts_a"
      [] word = AAAACount                     -> "rhosts_aaaa"
      [] word = CNameCount                    -> "rhosts_cname"
      [] word \in CNameCount + 1 .. ABase - 1 -> "none"
      [] word \in ABase .. AAAABase - 1       -> "resolved_hosts_a"
      [] word \in AAAABase .. CNameBase - 1   -> "resolved_hosts_aaaa"
      [] word \in CNameBase .. QHostBase - 1  -> "resolved_hosts_cname"
      [] OTHER                                -> "querying_host"

BlockBytes == (BlockWords - 1) * WordSize
NextBlock  == IF host.script = "tester" THEN "later" ELSE "done"

(* Blocks after the first are not followed.                                *)
HostReads(sent) ==
    IF tx.st = "FRAME" /\ sent
      THEN /\ last' = tx.byte
           /\ host' = IF host.block # "first" THEN host
                      ELSE IF host.nread + 1 = BlockBytes
                        THEN [host EXCEPT !.nread = 0, !.block = NextBlock]
                      ELSE [host EXCEPT !.nread = @ + 1]
      ELSE UNCHANGED <<last, host>>

Timeout ==
    /\ host.script = "tester" /\ host.nread > 0
    /\ host' = [host EXCEPT !.nread = 0, !.block = "later"]
    /\ UNCHANGED <<vars, fifo, tx, last, clean>>

-----------------------------------------------------------------------------
Edge(ack, sent) == OffloadStep(ack) /\ FifoStep /\ TxStep(sent) /\ HostReads(sent)

DumpNext == Timeout \/ \E ack, sent \in BOOLEAN : Edge(ack, sent)

(* The clock never stops, and neither the memory nor the line rests for    *)
(* ever.                                                                   *)
DumpSpec ==
    /\ DumpInit /\ [][DumpNext]_dumpVars
    /\ WF_dumpVars(\E ack, sent \in BOOLEAN : Edge(ack, sent))
    /\ SF_dumpVars(\E sent \in BOOLEAN : state = "OFFLOAD" /\ Edge(TRUE, sent))
    /\ SF_dumpVars(\E ack \in BOOLEAN : tx.st = "FRAME" /\ Edge(ack, TRUE))

-----------------------------------------------------------------------------
(* The bytes on their way, the one that came last first.                   *)
Way ==
    <<last>> \o (IF tx.st = "FRAME" THEN <<tx.byte>> ELSE <<>>)
             \o fifo \o (IF uart.valid THEN <<Offered>> ELSE <<>>)

(* Whatever the UART is too slow for is left out; what is sent is in the   *)
(* order of the cell, and no byte twice as long as the offload lasts       *)
(* (storage.v:1395-1447 with uart_fifo.v and uart_tx.v).  After it the     *)
(* last byte may be: storage.v:1399 leaves uart_valid high when the last   *)
(* word comes while a byte waits.                                          *)
BytesInOrder ==
    \A i, j \in DOMAIN Way :
       i < j => \/ Pos(Way[i]) < Pos(Way[j])
                \/ state = "ZERO" /\ Pos(Way[i]) = Pos(Way[j])

(* The first and the last byte of the cell come to the host, or one behind *)
(* them does, when the FIFO took them.  With BytesInOrder, and as the FIFO *)
(* gives away nothing but its head, what it took in between came before.   *)
EveryByteArrives ==
    \A p \in {0, (BlockWords - 2) * Bytes - 1} :
       (\E i \in DOMAIN fifo : Pos(fifo[i]) = p) ~> Pos(last) >= p

(* serial_tester.py prints the bytes of its first block as what the        *)
(* storage machine put there (lines 36 to 47 against the addresses of      *)
(* storage.v), as long as the dump is clean.                               *)
TesterReadsTheCell ==
    [][ host.script = "tester" /\ host.block = "first" /\ clean /\ last' # last =>
          \A f \in TesterFields(Bytes) :
             host.nread \in f.from .. f.to - 1 => f.name = StoredField(last'.word) ]_dumpVars

=============================================================================
