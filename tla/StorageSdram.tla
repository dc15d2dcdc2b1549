---------------------------- MODULE StorageSdram ----------------------------
(***************************************************************************)
(* A bench: the storage machine of storage.v on the SDRAM controller of    *)
(* sdram_controller.vhdl, both on clk_dram_c.  fpga_core.v:973 says that   *)
(* the outputs of storage are the Wishbone to the controller, and the      *)
(* ports of the two are made for each other; but no file of the repository *)
(* joins them.  In fpga_core.v the bus of storage leaves by the ports      *)
(* ext_sdram_wb_* (1057-1063), and the controller is on wires that nothing *)
(* drives (1091-1097, 335-341).  What is said here is what the two would   *)
(* do if they were joined, signal by signal.                               *)
(*                                                                         *)
(* The 25 address bits of the machine are {hash, interblock, intrablock};  *)
(* the controller takes the upper two for the bank, the lower ten for the  *)
(* column and the others for the row.  A cell is two rows long.  The       *)
(* buckets here share one bank.                                            *)
(***************************************************************************)
EXTENDS Storage, Sbdm2048

CONSTANTS
    UartReady, ShowIn, ByteValues, RowBits, Domains,
    TRC_CNTR_C, TRP_CNTR_C, TRCD_CNTR_C, RFSH_CNTR_C, WAIT_200_CNTR_C, InitRefreshes,
    NoRow

VARIABLES
    current_state, command, cntr, init_pre_cntr, rfsh_int_cntr, do_refresh,
    ack_o, dat_o, open_row, sense, cells,
    parser_valid

ASSUME ColumnAssumption == BlockWords % 2 = 0

RowWords == BlockWords \div 2      \* [1024]
ChipAddr(a) == [ bank |-> 0, row |-> <<a.row, a.cell, a.word \div RowWords>>,
                 col |-> a.word % RowWords ]

Sdram == INSTANCE SdramController
    WITH Banks <- {0}, BankRows <- Row \X Cell \X {0, 1}, Columns <- 0 .. RowWords - 1,
         Data <- Word

Table == INSTANCE StorageTable
    WITH mem <- [a \in Address |-> cells[ChipAddr(a)]], ack <- ack_o, answer <- dat_o

ASSUME BoardAssumption ==
    /\ UartReady \subseteq BOOLEAN /\ UartReady # {}
    /\ ShowIn \subseteq States
    /\ ByteValues^Bytes = Half * Half
    /\ NameWords * Bytes <= QnameBytes
    /\ NoRow \notin Sdram!ChipRow
    /\ {TRC_CNTR_C, TRP_CNTR_C, TRCD_CNTR_C, RFSH_CNTR_C, WAIT_200_CNTR_C} \subseteq Nat
    /\ InitRefreshes \in Nat \ {0}

(* The hash of a name takes longer than a repeated access with a refresh   *)
(* before it (with the constants of the code, 256 edges against 21), and   *)
(* the precharge takes an edge.                                            *)
ASSUME WaitAssumption ==
    /\ TRP_CNTR_C # 0
    /\ QnameBytes >= TRC_CNTR_C + TRCD_CNTR_C + TRP_CNTR_C + 12

sdVars == <<vars, hashVars, Sdram!sdramVars, parser_valid>>

(* The chip starts with zeroes here: the code does not clear it.           *)
SdInit ==
    /\ Init
    /\ Sdram!SdramInit([c \in Sdram!ChipAddress |-> 0])
    /\ command = [addr |-> ChipAddr(Zero), dat |-> 0, we |-> FALSE, stb |-> FALSE]
    /\ dat_o = 0 /\ sense = 0
    /\ Table!FrontInit

Clock ==
    /\ Table!MachineStep
    /\ Sdram!SdramStep([wb EXCEPT !.addr = ChipAddr(@)])
    /\ Table!Front

SdSpec == SdInit /\ [][Clock]_sdVars

-----------------------------------------------------------------------------
(* The promises of StorageTable, on this memory.                           *)

(* Every packet is counted once under its name in each counter, although   *)
(* the controller may perform an access of the machine twice.              *)
CountsLikeATable == Table!CountsLikeATable

(* The AAAA records of a finished packet are in the slots of its cell.     *)
AAAARecordsKept == Table!AAAARecordsKept

(* The acknowledge that a wait state takes is for its own request.         *)
AnswerIsItsOwn ==
    state \in ReadWaits /\ ack_o => dat_o = cells[ChipAddr(wb.addr)]

=============================================================================
