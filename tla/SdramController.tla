--------------------------- MODULE SdramController ---------------------------
(***************************************************************************)
(* sdram_controller.vhdl: the Wishbone slave that drives the SDRAM chip.   *)
(*                                                                         *)
(* One step is one rising edge of clk, with rst low.  The bus is a         *)
(* parameter of the step: what the master drives before the edge.          *)
(*                                                                         *)
(* The controller registers the command of the master, initialises the     *)
(* chip, refreshes it at intervals and performs one access at a time:      *)
(* activate, wait tRCD, read or write one column, precharge, wait tRP.     *)
(*                                                                         *)
(* The counters trc, trp, trcd and wait200 run freely, but each is loaded  *)
(* in the state before the wait state that looks at it and is looked at    *)
(* nowhere else: one variable that only counts in wait states stands for   *)
(* the four.                                                               *)
(*                                                                         *)
(* The chip is not part of the repository.  It is modelled as the          *)
(* controller uses it: one open row, the column access acts on the open    *)
(* row, and a word read with CAS latency 2 is on the bus in state R2.  All *)
(* command, address and data pins are registered alike, so that the chip   *)
(* sees them in their order, one edge later.                               *)
(***************************************************************************)
EXTENDS Integers

CONSTANTS
    Banks,              \* banks of the chip                [2 bits]
    BankRows,           \* rows of a bank                   [13 bits]
    Columns,            \* columns of a row                 [10 bits]
    Data,               \* words
    TRC_CNTR_C,         \* wait after a refresh             [7]
    TRP_CNTR_C,         \* wait after a precharge           [1]
    TRCD_CNTR_C,        \* wait after an activate           [1]
    RFSH_CNTR_C,        \* edges between two refreshes      [1000]
    WAIT_200_CNTR_C,    \* wait before the initialisation   [27000]
    InitRefreshes,      \* refreshes of the initialisation  [8]
    NoRow               \* no row is open

ChipRow     == [bank : Banks, row : BankRows]
ChipAddress == [bank : Banks, row : BankRows, col : Columns]
Command     == [addr : ChipAddress, dat : Data, we : BOOLEAN, stb : BOOLEAN]

ASSUME ChipAssumption ==
    /\ NoRow \notin ChipRow
    /\ Banks # {} /\ BankRows # {} /\ Columns # {} /\ Data # {}
    /\ {TRC_CNTR_C, TRP_CNTR_C, TRCD_CNTR_C, RFSH_CNTR_C, WAIT_200_CNTR_C} \subseteq Nat
    /\ InitRefreshes \in Nat \ {0}

VARIABLES
    current_state,
    command,       \* addr_r, dat_i_r, we_i_r, stb_i_r
    cntr,          \* trc_cntr, trp_cntr, trcd_cntr and wait200_cntr
    init_pre_cntr,
    rfsh_int_cntr,
    do_refresh,
    ack_o, dat_o,
    open_row,      \* chip: the open row
    sense,         \* chip: the word on its way out
    cells          \* chip: its contents

ctlVars  == <<current_state, cntr, init_pre_cntr>>
timeVars == <<rfsh_int_cntr, do_refresh>>
chipVars == <<open_row, sense, cells>>
sdramVars == <<ctlVars, timeVars, chipVars, command, ack_o, dat_o>>

InitStates   == {"Init", "Wait200", "InitPre", "WaitInitPre", "InitRef", "WaitInitRef",
                 "ModeReg", "WaitModeReg", "Done"}
AccessStates == {"Act", "WaitAct", "W0", "WPre", "R0", "R1", "R2", "R3", "RPre",
                 "Pre", "WaitPre"}
WaitCounts   == {"Wait200", "WaitInitPre", "WaitInitRef", "WaitModeReg", "WaitRefresh",
                 "WaitAct", "WaitPre"}
CtlStates    == InitStates \cup AccessStates \cup {"Idle", "Refresh", "WaitRefresh"}

(* The contents of the chip when the power comes on are any.               *)
SdramInit(contents) ==
    /\ current_state = "Init" /\ cntr = 0 /\ init_pre_cntr = 0
    /\ rfsh_int_cntr = 0 /\ do_refresh = FALSE
    /\ command \in [addr : ChipAddress, dat : Data, we : BOOLEAN, stb : {FALSE}]
    /\ ack_o = FALSE /\ dat_o \in Data
    /\ open_row = NoRow /\ sense \in Data /\ cells = contents

-----------------------------------------------------------------------------
(* The processes beside the state machine.                                 *)

(* Mutant: the pending command is not cleared in Act.                      *)
MutRegisterCommand(bus) ==
    command' = IF bus.stb THEN bus ELSE command

(* The command of the master is taken over at every edge, also during an   *)
(* access; only in Act the pending command is cleared.                     *)
RegisterCommand(bus) ==
    command' = IF command.stb /\ current_state = "Act"
                 THEN [command EXCEPT !.stb = FALSE]
               ELSE IF bus.stb THEN bus ELSE command

RefreshTimer ==
    \/ /\ current_state = "WaitRefresh"
       /\ do_refresh' = FALSE /\ rfsh_int_cntr' = RFSH_CNTR_C
    \/ /\ current_state # "WaitRefresh" /\ rfsh_int_cntr = 0
       /\ do_refresh' = TRUE /\ UNCHANGED rfsh_int_cntr
    \/ /\ current_state # "WaitRefresh" /\ rfsh_int_cntr # 0
       /\ rfsh_int_cntr' = rfsh_int_cntr - 1 /\ UNCHANGED do_refresh

-----------------------------------------------------------------------------
(* The state machine.                                                      *)

RowOf(addr) == [bank |-> addr.bank, row |-> addr.row]

Advance(from, to) == current_state = from /\ current_state' = to
NoAccess == UNCHANGED <<ack_o, dat_o, chipVars>>

(* A state that loads the counter of the wait state after it.              *)
Load(from, to, count) ==
    /\ Advance(from, to)
    /\ cntr' = count
Waiting ==
    /\ current_state \in WaitCounts /\ cntr > 0
    /\ cntr' = cntr - 1
    /\ UNCHANGED current_state
WaitOver(from, to) ==
    /\ cntr = 0
    /\ Advance(from, to)
    /\ UNCHANGED cntr

CountRefresh == init_pre_cntr' = init_pre_cntr + 1

PowerUp ==
    /\ \/ Load("Init", "Wait200", WAIT_200_CNTR_C)
       \/ current_state = "Wait200" /\ Waiting
       \/ WaitOver("Wait200", "InitPre")
    /\ UNCHANGED init_pre_cntr /\ NoAccess

InitPrecharge ==
    /\ \/ Load("InitPre", "WaitInitPre", TRP_CNTR_C)
       \/ current_state = "WaitInitPre" /\ Waiting
       \/ WaitOver("WaitInitPre", "InitRef")
    /\ UNCHANGED init_pre_cntr /\ NoAccess

InitRefresh ==
    /\ \/ Load("InitRef", "WaitInitRef", TRC_CNTR_C) /\ CountRefresh
       \/ /\ \/ current_state = "WaitInitRef" /\ Waiting
             \/ init_pre_cntr = InitRefreshes /\ WaitOver("WaitInitRef", "ModeReg")
             \/ init_pre_cntr # InitRefreshes /\ WaitOver("WaitInitRef", "InitRef")
          /\ UNCHANGED init_pre_cntr
    /\ NoAccess

SetMode ==
    /\ \/ Load("ModeReg", "WaitModeReg", TRCD_CNTR_C)
       \/ current_state = "WaitModeReg" /\ Waiting
       \/ WaitOver("WaitModeReg", "Done")
       \/ Advance("Done", "Idle") /\ UNCHANGED cntr
    /\ UNCHANGED init_pre_cntr /\ NoAccess

(* Mutants: a command goes before a refresh; the refreshes go on counting. *)
MutDispatch ==
    /\ \/ command.stb /\ Advance("Idle", "Act")
       \/ ~command.stb /\ do_refresh /\ Advance("Idle", "Refresh")
       \/ ~command.stb /\ ~do_refresh /\ Advance("Idle", "Idle")
    /\ init_pre_cntr' = 0
    /\ UNCHANGED cntr /\ NoAccess
MutDispatchCounting ==
    /\ \/ do_refresh /\ Advance("Idle", "Refresh")
       \/ ~do_refresh /\ command.stb /\ Advance("Idle", "Act")
       \/ ~do_refresh /\ ~command.stb /\ Advance("Idle", "Idle")
    /\ UNCHANGED init_pre_cntr
    /\ UNCHANGED cntr /\ NoAccess

Dispatch ==
    /\ \/ do_refresh /\ Advance("Idle", "Refresh")
       \/ ~do_refresh /\ command.stb /\ Advance("Idle", "Act")
       \/ ~do_refresh /\ ~command.stb /\ Advance("Idle", "Idle")
    /\ init_pre_cntr' = 0
    /\ UNCHANGED cntr /\ NoAccess

RefreshChip ==
    /\ \/ Load("Refresh", "WaitRefresh", TRC_CNTR_C) /\ CountRefresh
       \/ /\ \/ current_state = "WaitRefresh" /\ Waiting
             \/ WaitOver("WaitRefresh", "Idle")
          /\ UNCHANGED init_pre_cntr
    /\ NoAccess

Activate ==
    /\ Load("Act", "WaitAct", TRCD_CNTR_C)
    /\ open_row' = RowOf(command.addr)
    /\ UNCHANGED <<init_pre_cntr, ack_o, dat_o, sense, cells>>

ChooseAccess ==
    /\ \/ current_state = "WaitAct" /\ Waiting
       \/ command.we /\ WaitOver("WaitAct", "W0")
       \/ ~command.we /\ WaitOver("WaitAct", "R0")
    /\ UNCHANGED init_pre_cntr /\ NoAccess

(* The column of the command, in the row that is open.  A bank without an  *)
(* open row ignores a write and answers a read with anything.              *)
BankIsOpen == open_row.bank = command.addr.bank
Selected   == [bank |-> open_row.bank, row |-> open_row.row, col |-> command.addr.col]

WriteColumn ==
    /\ Advance("W0", "WPre")
    /\ cells' = IF BankIsOpen THEN [cells EXCEPT ![Selected] = command.dat] ELSE cells
    /\ UNCHANGED <<cntr, init_pre_cntr, ack_o, dat_o, open_row, sense>>

ReadColumn ==
    /\ Advance("R0", "R1")
    /\ IF BankIsOpen THEN sense' = cells[Selected] ELSE sense' \in Data
    /\ UNCHANGED <<cntr, init_pre_cntr, ack_o, dat_o, open_row, cells>>

(* Mutant: the acknowledge comes before the data.                          *)
MutAwaitData ==
    /\ \/ Advance("R1", "R2") /\ ack_o' = TRUE
       \/ Advance("R3", "RPre") /\ UNCHANGED ack_o
    /\ UNCHANGED <<cntr, init_pre_cntr, dat_o, chipVars>>

AwaitData ==
    /\ Advance("R1", "R2") \/ Advance("R3", "RPre")
    /\ UNCHANGED <<cntr, init_pre_cntr>> /\ NoAccess

SampleData ==
    /\ Advance("R2", "R3")
    /\ dat_o' = sense
    /\ UNCHANGED <<cntr, init_pre_cntr, ack_o, chipVars>>

(* Mutant: a write is not acknowledged.                                    *)
MutAcknowledge ==
    /\ \/ Advance("WPre", "Pre") /\ UNCHANGED ack_o
       \/ Advance("RPre", "Pre") /\ ack_o' = TRUE
    /\ UNCHANGED <<cntr, init_pre_cntr, dat_o, chipVars>>

Acknowledge ==
    /\ Advance("WPre", "Pre") \/ Advance("RPre", "Pre")
    /\ ack_o' = TRUE
    /\ UNCHANGED <<cntr, init_pre_cntr, dat_o, chipVars>>

Precharge ==
    /\ Load("Pre", "WaitPre", TRP_CNTR_C)
    /\ open_row' = NoRow
    /\ UNCHANGED <<init_pre_cntr, ack_o, dat_o, sense, cells>>

(* Mutant: the acknowledge lasts until the end of the precharge.           *)
MutEndAccess ==
    /\ \/ current_state = "WaitPre" /\ Waiting /\ UNCHANGED ack_o
       \/ WaitOver("WaitPre", "Idle") /\ ack_o' = FALSE
    /\ UNCHANGED <<init_pre_cntr, dat_o, chipVars>>

EndAccess ==
    /\ \/ current_state = "WaitPre" /\ Waiting
       \/ WaitOver("WaitPre", "Idle")
    /\ ack_o' = FALSE
    /\ UNCHANGED <<init_pre_cntr, dat_o, chipVars>>

Initialise == PowerUp \/ InitPrecharge \/ InitRefresh \/ SetMode
Access ==
    \/ Activate \/ ChooseAccess \/ WriteColumn \/ ReadColumn \/ AwaitData
    \/ SampleData \/ Acknowledge \/ Precharge \/ EndAccess

SdramStep(bus) ==
    /\ Initialise \/ Dispatch \/ RefreshChip \/ Access
    /\ RegisterCommand(bus)
    /\ RefreshTimer

=============================================================================
