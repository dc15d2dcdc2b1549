---------------------------- MODULE Sdram_proofs ----------------------------
(***************************************************************************)
(* The SDRAM controller with its master: what is proved for every geometry *)
(* of the chip, all wait counts and every behaviour of the master.  The    *)
(* lemmas on the controller ask of the master only that it leaves an       *)
(* access that is served undisturbed; StorageSdram_proofs takes them for   *)
(* the storage machine.                                                    *)
(***************************************************************************)
EXTENDS SdramBus, TLAPS

Serving == {"WaitAct", "W0", "WPre", "R0", "R1", "R2", "R3", "RPre", "Pre"}

Same(c, d) == c.addr = d.addr /\ c.dat = d.dat /\ c.we = d.we

(* The controller by itself.  Act is entered with a pending command only;  *)
(* the acknowledge is there in Pre and at the first edge of WaitPre; the   *)
(* refreshes of the initialisation never count too far.                    *)
ControlInv ==
    /\ cntr \in Nat
    /\ current_state = "WaitPre" => cntr <= TRP_CNTR_C
    /\ current_state = "WaitRefresh" => cntr <= TRC_CNTR_C
    /\ current_state = "WaitAct" => cntr <= TRCD_CNTR_C
    /\ current_state = "Act" => command.stb
    /\ current_state = "Pre" => ack_o
    /\ ack_o => current_state = "Pre" \/ (current_state = "WaitPre" /\ cntr = TRP_CNTR_C)
    /\ current_state \in {"W0", "WPre"} => command.we
    /\ current_state \in {"R0", "R1", "R2", "R3", "RPre"} => ~command.we
    /\ current_state \in {"Init", "Wait200", "InitPre", "WaitInitPre", "Refresh"}
          => init_pre_cntr = 0
    /\ current_state = "InitRef" => init_pre_cntr < InitRefreshes

(* The edges a master has rested at most while its last request is still   *)
(* to be repeated, or is repeated.                                         *)
RepeatBound ==
    CASE current_state = "WaitPre"     -> TRP_CNTR_C - cntr
      [] current_state = "Idle"        -> TRP_CNTR_C + 1
                                          + (IF do_refresh THEN 0 ELSE TRC_CNTR_C + 3)
      [] current_state = "Refresh"     -> TRP_CNTR_C + 2
      [] current_state = "WaitRefresh" -> TRP_CNTR_C + 3 + (TRC_CNTR_C - cntr)
      [] current_state = "Act"         -> TRP_CNTR_C + TRC_CNTR_C + 5
      [] current_state = "WaitAct"     -> TRP_CNTR_C + TRC_CNTR_C + 6 + (TRCD_CNTR_C - cntr)
      [] current_state \in {"W0", "R0"}   -> TRP_CNTR_C + TRC_CNTR_C + TRCD_CNTR_C + 7
      [] current_state \in {"WPre", "R1"} -> TRP_CNTR_C + TRC_CNTR_C + TRCD_CNTR_C + 8
      [] current_state = "R2"          -> TRP_CNTR_C + TRC_CNTR_C + TRCD_CNTR_C + 9
      [] current_state = "R3"          -> TRP_CNTR_C + TRC_CNTR_C + TRCD_CNTR_C + 10
      [] current_state = "RPre"        -> TRP_CNTR_C + TRC_CNTR_C + TRCD_CNTR_C + 11
      [] current_state = "Pre"         -> TRP_CNTR_C + TRC_CNTR_C + TRCD_CNTR_C + 12
      [] OTHER                         -> 0

(* The last request is still to be repeated, or is repeated.               *)
Pending == command.stb \/ current_state \in Serving
Repeats == phase = "rest" /\ Pending

(* Who the access under way is for: the request of the bus, or the one     *)
(* that has been answered before the master came to rest.                  *)
AskInv ==
    phase = "ask" =>
        /\ ~bus.stb
        /\ current_state \notin Serving \cup {"Act"}
        /\ command.stb => current_state = "WaitPre"
WaitInv ==
    phase = "wait" =>
        /\ bus.stb
        /\ current_state = "Act" => command = bus
        /\ current_state \in Serving => Same(command, bus)
        /\ ack_o => current_state = "Pre"
RestInv ==
    phase = "rest" =>
        /\ ~bus.stb
        /\ current_state \in Serving => ~command.stb
        /\ rest = 0 => \/ current_state = "Init" /\ ~command.stb
                       \/ current_state = "WaitPre" /\ cntr = TRP_CNTR_C
        /\ Repeats => rest <= RepeatBound
        /\ command.stb => current_state \notin InitStates

(* The row that is open is the one of the command.                         *)
RowInv ==
    current_state \in {"WaitAct", "W0", "R0"} => open_row = RowOf(command.addr)

(* The word that is read is the one of the command, from the chip to the   *)
(* output register, and the word that is written is in its cell.           *)
DataFlow ==
    /\ current_state \in {"R1", "R2"} => sense = cells[command.addr]
    /\ current_state \in {"R3", "RPre"} => dat_o = cells[command.addr]
    /\ current_state = "Pre" /\ ~command.we => dat_o = cells[command.addr]
    /\ current_state \in {"WPre", "Pre"} /\ command.we => cells[command.addr] = command.dat

(* A write that is repeated writes what its cell holds already.            *)
HarmlessRepeat ==
    Repeats /\ command.we => cells[command.addr] = command.dat

(* The edges since a refresh fell due, by how far the access is that it    *)
(* waits for.                                                              *)
DueBound ==
    CASE current_state = "Act"         -> 0
      [] current_state = "WaitAct"     -> 1 + (TRCD_CNTR_C - cntr)
      [] current_state \in {"W0", "R0"}   -> TRCD_CNTR_C + 2
      [] current_state \in {"WPre", "R1"} -> TRCD_CNTR_C + 3
      [] current_state = "R2"          -> TRCD_CNTR_C + 4
      [] current_state = "R3"          -> TRCD_CNTR_C + 5
      [] current_state = "RPre"        -> TRCD_CNTR_C + 6
      [] current_state = "Pre"         -> TRCD_CNTR_C + 7
      [] current_state = "WaitPre"     -> TRCD_CNTR_C + 8 + (TRP_CNTR_C - cntr)
      [] current_state = "Idle"        -> TRCD_CNTR_C + TRP_CNTR_C + 9
      [] current_state = "Refresh"     -> TRCD_CNTR_C + TRP_CNTR_C + 10
      [] OTHER                         -> TRCD_CNTR_C + TRP_CNTR_C + 11
DueInv ==
    /\ since \in Nat
    /\ Operating =>
          \/ ~do_refresh /\ since + rfsh_int_cntr <= RFSH_CNTR_C
          \/ do_refresh /\ since <= RFSH_CNTR_C + 1 + DueBound
    /\ current_state = "Refresh" => do_refresh
    /\ current_state \in InitStates => since = 0

BusInv ==
    /\ BusTypeOK /\ ControlInv
    /\ AskInv /\ WaitInv /\ RestInv
    /\ RowInv /\ DataFlow /\ HarmlessRepeat
    /\ DueInv

-----------------------------------------------------------------------------
(* The registers of the controller and its chip.                           *)
CtlType ==
    /\ current_state \in CtlStates
    /\ command \in Command /\ bus \in Command
    /\ init_pre_cntr \in 0 .. InitRefreshes
    /\ rfsh_int_cntr \in 0 .. RFSH_CNTR_C /\ do_refresh \in BOOLEAN
    /\ ack_o \in BOOLEAN /\ dat_o \in Data
    /\ open_row \in ChipRow \cup {NoRow} /\ sense \in Data
    /\ cells \in [ChipAddress -> Data]

(* What is asked while an access is served is what is served.              *)
Undisturbed == bus.stb /\ current_state \in Serving => Same(command, bus)

(* What the lemmas on the controller's step rest on.                       *)
CtlHyp == CtlType /\ ControlInv /\ Undisturbed /\ SdramStep(bus)

(* What the command register takes over.                                   *)
LEMMA CommandStep ==
    ASSUME command \in Command, bus \in Command, RegisterCommand(bus)
    PROVE  /\ command' \in Command
           /\ command.stb /\ current_state = "Act" => Same(command', command) /\ ~command'.stb
           /\ ~(command.stb /\ current_state = "Act") =>
                 command' = IF bus.stb THEN bus ELSE command
<1>1. CASE command.stb /\ current_state = "Act"
  <2>1. command' = [command EXCEPT !.stb = FALSE]
    BY <1>1 DEF RegisterCommand
  <2> QED
    BY <1>1, <2>1 DEF Command, Same
<1>2. CASE ~(command.stb /\ current_state = "Act")
  BY <1>2 DEF RegisterCommand
<1> QED
  BY <1>1, <1>2

(* While an access is served the command stays what it is: the strobe of   *)
(* the master, if it is up, can only have it taken over once more.         *)
LEMMA CommandKept ==
    ASSUME CtlType, ControlInv, Undisturbed, RegisterCommand(bus),
           current_state \in Serving \cup {"Act"}
    PROVE  /\ command'.addr = command.addr
           /\ command'.dat = command.dat
           /\ command'.we = command.we
           /\ ~bus.stb /\ (current_state \in Serving => ~command.stb) => ~command'.stb
<1> USE DEF Same
<1>1. command \in Command /\ bus \in Command
  BY DEF CtlType
<1>2. CASE current_state = "Act"
  BY <1>1, <1>2, CommandStep DEF ControlInv
<1>3. CASE current_state # "Act"
  <2>1. command' = IF bus.stb THEN bus ELSE command
    BY <1>1, <1>3, CommandStep
  <2> QED
    BY <2>1, <1>3 DEF Undisturbed
<1> QED
  BY <1>2, <1>3

(* A clock edge, by what the controller does.                              *)
LEMMA ControlStep ==
    ASSUME CtlHyp
    PROVE  ControlInv'
<1> USE ChipAssumption, RestAssumption
        DEF ControlInv, CtlStates, InitStates, AccessStates, WaitCounts, Serving
<1>1. /\ current_state \in CtlStates
      /\ init_pre_cntr \in 0 .. InitRefreshes
      /\ current_state # "Act" => command' = IF bus.stb THEN bus ELSE command
      /\ current_state \in Serving \cup {"Act"} => command'.we = command.we
      /\ ControlInv
  BY CommandStep, CommandKept DEF CtlHyp, SdramStep, CtlType
<1>2. CASE PowerUp
  BY <1>1, <1>2 DEF PowerUp, Load, WaitOver, Waiting, Advance, NoAccess
<1>3. CASE InitPrecharge
  BY <1>1, <1>3 DEF InitPrecharge, Load, WaitOver, Waiting, Advance, NoAccess
<1>4. CASE InitRefresh
  BY <1>1, <1>4
     DEF InitRefresh, Load, WaitOver, Waiting, Advance, NoAccess, CountRefresh
<1>5. CASE SetMode
  BY <1>1, <1>5 DEF SetMode, Load, WaitOver, Waiting, Advance, NoAccess
<1>6. CASE Dispatch
  BY <1>1, <1>6 DEF Dispatch, Advance, NoAccess
<1>7. CASE RefreshChip
  BY <1>1, <1>7
     DEF RefreshChip, Load, WaitOver, Waiting, Advance, NoAccess, CountRefresh
<1>8. CASE Activate
  BY <1>1, <1>8 DEF Activate, Load, Advance
<1>9. CASE ChooseAccess
  BY <1>1, <1>9 DEF ChooseAccess, WaitOver, Waiting, Advance, NoAccess
<1>10. CASE WriteColumn
  BY <1>1, <1>10 DEF WriteColumn, Advance
<1>11. CASE ReadColumn
  BY <1>1, <1>11 DEF ReadColumn, Advance
<1>12. CASE AwaitData
  BY <1>1, <1>12 DEF AwaitData, Advance, NoAccess
<1>13. CASE SampleData
  BY <1>1, <1>13 DEF SampleData, Advance
<1>14. CASE Acknowledge
  BY <1>1, <1>14 DEF Acknowledge, Advance
<1>15. CASE Precharge
  BY <1>1, <1>15 DEF Precharge, Load, Advance
<1>16. CASE EndAccess
  BY <1>1, <1>16 DEF EndAccess, WaitOver, Waiting, Advance
<1> QED
  BY <1>2, <1>3, <1>4, <1>5, <1>6, <1>7, <1>8, <1>9, <1>10, <1>11, <1>12, <1>13,
     <1>14, <1>15, <1>16
     DEF CtlHyp, SdramStep, Initialise, Access

(* Where the controller goes: an access is begun from Idle only and runs   *)
(* to its end, the acknowledge is there in Pre and one edge longer.        *)
LEMMA ControlFlow ==
    ASSUME CtlType, ControlInv, SdramStep(bus)
    PROVE  /\ current_state' = "Act" => current_state = "Idle" /\ command.stb
           /\ current_state' \in Serving => current_state \in (Serving \ {"Pre"}) \cup {"Act"}
           /\ current_state' \in InitStates => current_state \in InitStates
           /\ ack_o' => current_state' = "Pre" \/ current_state = "Pre"
           /\ current_state = "Pre" => current_state' = "WaitPre" /\ cntr' = TRP_CNTR_C
           /\ current_state = "Init" => current_state' = "Wait200"
           /\ current_state = "WaitPre" /\ cntr # 0 => current_state' = "WaitPre"
<1> USE ChipAssumption
        DEF ControlInv, CtlStates, InitStates, AccessStates, WaitCounts, Serving
<1>1. /\ current_state \in CtlStates
      /\ Initialise \/ Dispatch \/ RefreshChip \/ Access
  BY DEF SdramStep, CtlType
<1>2. CASE PowerUp
  BY <1>1, <1>2 DEF PowerUp, Load, WaitOver, Waiting, Advance, NoAccess
<1>3. CASE InitPrecharge
  BY <1>1, <1>3 DEF InitPrecharge, Load, WaitOver, Waiting, Advance, NoAccess
<1>4. CASE InitRefresh
  BY <1>1, <1>4
     DEF InitRefresh, Load, WaitOver, Waiting, Advance, NoAccess, CountRefresh
<1>5. CASE SetMode
  BY <1>1, <1>5 DEF SetMode, Load, WaitOver, Waiting, Advance, NoAccess
<1>6. CASE Dispatch
  BY <1>1, <1>6 DEF Dispatch, Advance, NoAccess
<1>7. CASE RefreshChip
  BY <1>1, <1>7
     DEF RefreshChip, Load, WaitOver, Waiting, Advance, NoAccess, CountRefresh
<1>8. CASE Activate
  BY <1>1, <1>8 DEF Activate, Load, Advance
<1>9. CASE ChooseAccess
  BY <1>1, <1>9 DEF ChooseAccess, WaitOver, Waiting, Advance, NoAccess
<1>10. CASE WriteColumn
  BY <1>1, <1>10 DEF WriteColumn, Advance
<1>11. CASE ReadColumn
  BY <1>1, <1>11 DEF ReadColumn, Advance
<1>12. CASE AwaitData
  BY <1>1, <1>12 DEF AwaitData, Advance, NoAccess
<1>13. CASE SampleData
  BY <1>1, <1>13 DEF SampleData, Advance
<1>14. CASE Acknowledge
  BY <1>1, <1>14 DEF Acknowledge, Advance
<1>15. CASE Precharge
  BY <1>1, <1>15 DEF Precharge, Load, Advance
<1>16. CASE EndAccess
  BY <1>1, <1>16 DEF EndAccess, WaitOver, Waiting, Advance
<1> QED
  BY <1>1, <1>2, <1>3, <1>4, <1>5, <1>6, <1>7, <1>8, <1>9, <1>10, <1>11, <1>12,
     <1>13, <1>14, <1>15, <1>16
     DEF Initialise, Access

(* The column is accessed at the address of the command, when its row is   *)
(* open.                                                                   *)
LEMMA SelectedIsAddressed ==
    ASSUME command \in Command, open_row = RowOf(command.addr)
    PROVE  BankIsOpen /\ Selected = command.addr
BY DEF Command, ChipAddress, RowOf, BankIsOpen, Selected

(* Every register stays in its range.                                      *)
LEMMA ControllerTypeStep ==
    ASSUME CtlType, ControlInv, RowInv, SdramStep(bus)
    PROVE  /\ current_state' \in CtlStates
           /\ init_pre_cntr' \in 0 .. InitRefreshes
           /\ ack_o' \in BOOLEAN /\ dat_o' \in Data
           /\ open_row' \in ChipRow \cup {NoRow} /\ sense' \in Data
           /\ cells' \in [ChipAddress -> Data]
<1> USE ChipAssumption
        DEF CtlStates, InitStates, AccessStates, WaitCounts
<1>1. /\ current_state \in CtlStates
      /\ command.addr \in ChipAddress /\ command.dat \in Data
      /\ RowOf(command.addr) \in ChipRow
      /\ init_pre_cntr \in 0 .. InitRefreshes
      /\ current_state = "InitRef" => init_pre_cntr < InitRefreshes
      /\ current_state = "Refresh" => init_pre_cntr = 0
      /\ current_state \in {"W0", "R0"} => BankIsOpen /\ Selected = command.addr
      /\ ack_o \in BOOLEAN /\ dat_o \in Data
      /\ open_row \in ChipRow \cup {NoRow} /\ sense \in Data
      /\ cells \in [ChipAddress -> Data]
      /\ Initialise \/ Dispatch \/ RefreshChip \/ Access
  BY SelectedIsAddressed
     DEF SdramStep, CtlType, Command, ChipAddress, ChipRow, RowOf, ControlInv, RowInv
<1>2. CASE PowerUp
  BY <1>1, <1>2 DEF PowerUp, Load, WaitOver, Waiting, Advance, NoAccess, chipVars
<1>3. CASE InitPrecharge
  BY <1>1, <1>3 DEF InitPrecharge, Load, WaitOver, Waiting, Advance, NoAccess, chipVars
<1>4. CASE InitRefresh
  BY <1>1, <1>4
     DEF InitRefresh, Load, WaitOver, Waiting, Advance, NoAccess, chipVars,
         CountRefresh
<1>5. CASE SetMode
  BY <1>1, <1>5 DEF SetMode, Load, WaitOver, Waiting, Advance, NoAccess, chipVars
<1>6. CASE Dispatch
  BY <1>1, <1>6 DEF Dispatch, Advance, NoAccess, chipVars
<1>7. CASE RefreshChip
  BY <1>1, <1>7
     DEF RefreshChip, Load, WaitOver, Waiting, Advance, NoAccess, chipVars,
         CountRefresh
<1>8. CASE Activate
  BY <1>1, <1>8 DEF Activate, Load, Advance
<1>9. CASE ChooseAccess
  BY <1>1, <1>9 DEF ChooseAccess, WaitOver, Waiting, Advance, NoAccess, chipVars
<1>10. CASE WriteColumn
  BY <1>1, <1>10 DEF WriteColumn, Advance
<1>11. CASE ReadColumn
  BY <1>1, <1>11 DEF ReadColumn, Advance
<1>12. CASE AwaitData
  BY <1>1, <1>12 DEF AwaitData, Advance, NoAccess, chipVars
<1>13. CASE SampleData
  BY <1>1, <1>13 DEF SampleData, Advance, chipVars
<1>14. CASE Acknowledge
  BY <1>1, <1>14 DEF Acknowledge, Advance, chipVars
<1>15. CASE Precharge
  BY <1>1, <1>15 DEF Precharge, Load, Advance
<1>16. CASE EndAccess
  BY <1>1, <1>16 DEF EndAccess, WaitOver, Waiting, Advance, chipVars
<1> QED
  BY <1>1, <1>2, <1>3, <1>4, <1>5, <1>6, <1>7, <1>8, <1>9, <1>10, <1>11, <1>12,
     <1>13, <1>14, <1>15, <1>16
     DEF Initialise, Access

(* The refresh timer runs down, and a refresh is due until the chip waits  *)
(* for one to be over.                                                     *)
LEMMA TimerStep ==
    ASSUME CtlType, RefreshTimer
    PROVE  /\ rfsh_int_cntr' \in 0 .. RFSH_CNTR_C
           /\ do_refresh' \in BOOLEAN
<1>1. RefreshTimer /\ RFSH_CNTR_C \in Nat
  BY ChipAssumption
<1>2. rfsh_int_cntr \in 0 .. RFSH_CNTR_C /\ do_refresh \in BOOLEAN
  BY DEF CtlType
<1>3. CASE current_state = "WaitRefresh"
  <2>1. do_refresh' = FALSE /\ rfsh_int_cntr' = RFSH_CNTR_C
    BY <1>1, <1>3 DEF RefreshTimer
  <2>2. do_refresh' \in BOOLEAN
    BY <2>1
  <2>3. rfsh_int_cntr' \in 0 .. RFSH_CNTR_C
    BY <1>1, <2>1
  <2> QED
    BY <2>2, <2>3
<1>4. CASE current_state # "WaitRefresh" /\ rfsh_int_cntr = 0
  BY <1>1, <1>2, <1>4 DEF RefreshTimer
<1>5. CASE current_state # "WaitRefresh" /\ rfsh_int_cntr # 0
  BY <1>1, <1>2, <1>5 DEF RefreshTimer
<1> QED
  BY <1>3, <1>4, <1>5

(* The step of the master keeps the registers of both in range.            *)
LEMMA CtlOfBus == BusTypeOK => CtlType
BY DEF BusTypeOK, CtlType

(* The same of all that is not the controller's.                           *)
LEMMA TypeStep ==
    ASSUME BusTypeOK, ControlInv, RowInv, Edge
    PROVE  BusTypeOK'
<1>1. command' \in Command
  BY CommandStep DEF BusTypeOK, Edge, SdramStep
<1>2. rfsh_int_cntr' \in 0 .. RFSH_CNTR_C /\ do_refresh' \in BOOLEAN
  BY CtlOfBus, TimerStep DEF Edge, SdramStep
<1>3. /\ bus' \in Command /\ latched' \in Data
      /\ phase' \in {"ask", "wait", "rest"} /\ rest' \in 0 .. MinRest
  <2> USE RestAssumption DEF BusTypeOK
  <2>1. CASE Ask
    BY <2>1 DEF Ask, Command
  <2>2. CASE Await
    BY <2>2 DEF Await, masterVars
  <2>3. CASE Answered
    <3>1. bus' = [bus EXCEPT !.stb = FALSE] /\ bus \in Command
      BY <2>3 DEF Answered
    <3>2. bus' \in Command
      BY <3>1 DEF Command
    <3> QED
      BY <2>3, <3>2 DEF Answered
  <2>4. CASE Rest
    BY <2>4 DEF Rest
  <2> QED
    BY <2>1, <2>2, <2>3, <2>4 DEF Edge, MasterStep
<1> QED
  BY <1>1, <1>2, <1>3, CtlOfBus, ControllerTypeStep DEF BusTypeOK, Edge

(* What every action of the master may use of the controller's step.       *)
InvHyp == BusTypeOK /\ ControlInv /\ AskInv /\ WaitInv /\ RestInv /\ Edge

(* The master leaves the access that is served undisturbed.                *)
LEMMA MasterHyp ==
    ASSUME InvHyp
    PROVE  CtlHyp
<1>1. CtlType /\ ControlInv /\ SdramStep(bus) /\ phase \in {"ask", "wait", "rest"}
  BY CtlOfBus DEF InvHyp, Edge, BusTypeOK
<1>2. Undisturbed
  BY <1>1 DEF InvHyp, AskInv, WaitInv, RestInv, Undisturbed
<1> QED
  BY <1>1, <1>2 DEF CtlHyp

(* A request is raised while no access is under way or about to begin.     *)
LEMMA AskStep ==
    ASSUME InvHyp, Ask
    PROVE  AskInv' /\ WaitInv' /\ RestInv'
<1>1. /\ phase = "ask" /\ phase' = "wait" /\ bus'.stb
  BY DEF Ask
<1>2. /\ ~bus.stb /\ current_state \notin Serving \cup {"Act"}
      /\ command.stb => current_state = "WaitPre"
  BY <1>1 DEF InvHyp, AskInv
<1>3. /\ current_state' \notin Serving \cup {"Act"}
      /\ ack_o' => current_state' = "Pre"
  BY <1>2, ControlFlow, MasterHyp DEF CtlHyp, InvHyp, Serving
<1> QED
  BY <1>1, <1>3 DEF AskInv, WaitInv, RestInv, Serving

(* The access that is begun is the one that is asked for.                  *)
LEMMA AwaitStep ==
    ASSUME InvHyp, Await
    PROVE  AskInv' /\ WaitInv' /\ RestInv'
<1>1. /\ phase = "wait" /\ phase' = "wait" /\ bus' = bus /\ ~ack_o
  BY DEF Await, masterVars
<1>2. /\ bus.stb
      /\ current_state = "Act" => command = bus
      /\ current_state \in Serving => Same(command, bus)
  BY <1>1 DEF InvHyp, WaitInv
<1>3. current_state # "Pre"
  BY <1>1 DEF InvHyp, ControlInv
<1>4. ack_o' => current_state' = "Pre"
  BY <1>3, ControlFlow, MasterHyp DEF CtlHyp, InvHyp
<1>5. current_state' = "Act" => command' = bus'
  BY <1>1, <1>2, ControlFlow, CommandStep, MasterHyp
     DEF CtlHyp, InvHyp, BusTypeOK, Edge, SdramStep
<1>6. current_state' \in Serving => Same(command', bus')
  <2>1. SUFFICES ASSUME current_state' \in Serving
                 PROVE  Same(command', bus')
    OBVIOUS
  <2>2. current_state \in Serving \cup {"Act"}
    BY <2>1, ControlFlow, MasterHyp DEF CtlHyp, InvHyp, Serving
  <2>3. command'.addr = command.addr /\ command'.dat = command.dat /\ command'.we = command.we
    BY <2>2, CommandKept, MasterHyp DEF CtlHyp, SdramStep
  <2> QED
    BY <1>1, <1>2, <2>2, <2>3 DEF Same
<1> QED
  BY <1>1, <1>2, <1>4, <1>5, <1>6 DEF AskInv, WaitInv, RestInv

(* The acknowledge comes in Pre: the command is pending once more then,    *)
(* and the controller is about to precharge.                               *)
LEMMA AnsweredStep ==
    ASSUME InvHyp, Answered
    PROVE  AskInv' /\ WaitInv' /\ RestInv'
<1> USE RestAssumption, ChipAssumption
<1>1. /\ phase = "wait" /\ ack_o /\ phase' \in {"ask", "rest"} /\ rest' = 0
      /\ bus' = [bus EXCEPT !.stb = FALSE] /\ bus \in Command
  BY DEF Answered, InvHyp, BusTypeOK
<1>2. ~bus'.stb
  BY <1>1 DEF Command
<1>3. current_state = "Pre"
  BY <1>1 DEF InvHyp, WaitInv
<1>4. current_state' = "WaitPre" /\ cntr' = TRP_CNTR_C
  BY <1>3, ControlFlow, MasterHyp DEF CtlHyp, InvHyp
<1>5. RepeatBound' = 0
  BY <1>4 DEF RepeatBound
<1> QED
  BY <1>1, <1>2, <1>4, <1>5 DEF AskInv, WaitInv, RestInv, Serving, InitStates

(* While a request is pending that the master does not ask for any more,   *)
(* the bound grows with every edge.                                        *)
LEMMA RepeatBoundStep ==
    ASSUME CtlHyp, ~bus.stb, current_state \in Serving => ~command.stb,
           command.stb => current_state \notin InitStates, Pending, Pending'
    PROVE  RepeatBound + 1 <= RepeatBound'
<1> USE ChipAssumption, RestAssumption
        DEF CtlStates, InitStates, AccessStates, WaitCounts, Serving, RepeatBound
<1>1. /\ current_state \in CtlStates
      /\ cntr \in Nat
      /\ current_state = "WaitPre" => cntr <= TRP_CNTR_C
      /\ current_state = "WaitRefresh" => cntr <= TRC_CNTR_C
      /\ current_state = "WaitAct" => cntr <= TRCD_CNTR_C
      /\ command.stb \/ current_state \in Serving
      /\ command'.stb \/ current_state' \in Serving
      /\ command.stb => current_state \notin InitStates
      /\ current_state \in Serving \cup {"Act"} => ~command'.stb
      /\ current_state = "WaitRefresh" => do_refresh' = FALSE
      /\ current_state # "WaitRefresh" => do_refresh' = TRUE \/ do_refresh' = do_refresh
      /\ Initialise \/ Dispatch \/ RefreshChip \/ Access
  BY CommandKept
     DEF CtlHyp, CtlType, ControlInv, Pending, SdramStep, RefreshTimer
<1>2. CASE PowerUp
  BY <1>1, <1>2 DEF PowerUp, Load, WaitOver, Waiting, Advance, NoAccess
<1>3. CASE InitPrecharge
  BY <1>1, <1>3 DEF InitPrecharge, Load, WaitOver, Waiting, Advance, NoAccess
<1>4. CASE InitRefresh
  BY <1>1, <1>4
     DEF InitRefresh, Load, WaitOver, Waiting, Advance, NoAccess, CountRefresh
<1>5. CASE SetMode
  BY <1>1, <1>5 DEF SetMode, Load, WaitOver, Waiting, Advance, NoAccess
<1>6. CASE Dispatch
  BY <1>1, <1>6 DEF Dispatch, Advance, NoAccess
<1>7. CASE RefreshChip
  BY <1>1, <1>7
     DEF RefreshChip, Load, WaitOver, Waiting, Advance, NoAccess, CountRefresh
<1>8. CASE Activate
  BY <1>1, <1>8 DEF Activate, Load, Advance
<1>9. CASE ChooseAccess
  BY <1>1, <1>9 DEF ChooseAccess, WaitOver, Waiting, Advance, NoAccess
<1>10. CASE WriteColumn
  BY <1>1, <1>10 DEF WriteColumn, Advance
<1>11. CASE ReadColumn
  BY <1>1, <1>11 DEF ReadColumn, Advance
<1>12. CASE AwaitData
  BY <1>1, <1>12 DEF AwaitData, Advance, NoAccess
<1>13. CASE SampleData
  BY <1>1, <1>13 DEF SampleData, Advance
<1>14. CASE Acknowledge
  BY <1>1, <1>14 DEF Acknowledge, Advance
<1>15. CASE Precharge
  BY <1>1, <1>15 DEF Precharge, Load, Advance
<1>16. CASE EndAccess
  BY <1>1, <1>16 DEF EndAccess, WaitOver, Waiting, Advance
<1> QED
  BY <1>1, <1>2, <1>3, <1>4, <1>5, <1>6, <1>7, <1>8, <1>9, <1>10, <1>11, <1>12,
     <1>13, <1>14, <1>15, <1>16
     DEF Initialise, Access

(* A master that has rested MinRest edges finds the repetition over, or in *)
(* Pre.                                                                    *)
LEMMA RepeatBoundAtMost ==
    ASSUME ControlInv, current_state # "Pre"
    PROVE  RepeatBound \in Int /\ RepeatBound < MinRest
<1>1. /\ TRC_CNTR_C \in Nat /\ TRP_CNTR_C \in Nat /\ TRCD_CNTR_C \in Nat /\ MinRest \in Nat
      /\ MinRest >= TRC_CNTR_C + TRCD_CNTR_C + TRP_CNTR_C + 12
  BY ChipAssumption, RestAssumption
<1>2. /\ current_state # "Pre" /\ cntr \in Nat
      /\ current_state = "WaitPre" => cntr <= TRP_CNTR_C
      /\ current_state = "WaitRefresh" => cntr <= TRC_CNTR_C
      /\ current_state = "WaitAct" => cntr <= TRCD_CNTR_C
  BY DEF ControlInv
<1>3. RepeatBound \in Int
  BY <1>1, <1>2 DEF RepeatBound
<1>4. RepeatBound < MinRest
  BY <1>1, <1>2 DEF RepeatBound
<1> QED
  BY <1>3, <1>4

(* The master rests for one edge, in which nothing is begun yet, or until  *)
(* the last request has been repeated.                                     *)
LEMMA RestStep ==
    ASSUME InvHyp, Rest
    PROVE  AskInv' /\ WaitInv' /\ RestInv'
<1> USE RestAssumption, ChipAssumption
<1>1. /\ phase = "rest" /\ phase' \in {"ask", "rest"} /\ bus' = bus
      /\ phase' = "ask" => rest = 0 \/ rest >= MinRest
      /\ rest' = (IF rest < MinRest THEN rest + 1 ELSE rest)
      /\ rest \in 0 .. MinRest
      /\ MinRest \in Nat /\ MinRest >= 12
  BY DEF Rest, InvHyp, BusTypeOK
<1>2. /\ ~bus.stb
      /\ current_state \in Serving => ~command.stb
      /\ rest = 0 => \/ current_state = "Init" /\ ~command.stb
                     \/ current_state = "WaitPre" /\ cntr = TRP_CNTR_C
      /\ Repeats => rest <= RepeatBound
      /\ command.stb => current_state \notin InitStates
  BY <1>1 DEF InvHyp, RestInv
<1>3. /\ command'.stb => command.stb
      /\ current_state \in Serving \cup {"Act"} => ~command'.stb
  BY <1>1, <1>2, CommandStep, CommandKept, MasterHyp
     DEF CtlHyp, InvHyp, BusTypeOK, Edge, SdramStep
<1>4. current_state = "Act" => command.stb
  BY DEF InvHyp, ControlInv
<1>5. CASE phase' = "ask"
  <2>1. /\ current_state' \notin Serving \cup {"Act"}
        /\ command'.stb => current_state' = "WaitPre"
    <3>1. CASE rest = 0
      BY <1>2, <1>3, <3>1, ControlFlow, MasterHyp DEF CtlHyp, InvHyp, Serving
    <3>2. CASE current_state = "Pre"
      BY <1>3, <3>2, ControlFlow, MasterHyp DEF CtlHyp, InvHyp, Serving
    <3>3. CASE rest >= MinRest /\ current_state # "Pre"
      <4>1. ~command.stb /\ current_state \notin Serving
        BY <1>1, <1>2, <3>3, RepeatBoundAtMost DEF InvHyp, Repeats, Pending
      <4> QED
        BY <1>3, <1>4, <4>1, ControlFlow, MasterHyp DEF CtlHyp, InvHyp, Serving
    <3> QED
      BY <1>1, <1>5, <3>1, <3>2, <3>3
  <2> QED
    BY <1>1, <1>2, <1>5, <2>1 DEF AskInv, WaitInv, RestInv
<1>6. CASE phase' = "rest"
  <2>1. current_state' \in Serving => ~command'.stb
    BY <1>3, ControlFlow, MasterHyp DEF CtlHyp, InvHyp, Serving
  <2>2. rest' # 0
    BY <1>1
  <2>3. Repeats' => rest' <= RepeatBound'
    <3>1. SUFFICES ASSUME Repeats'
                   PROVE  rest' <= RepeatBound'
      OBVIOUS
    <3>2. command'.stb \/ current_state' \in Serving
      BY <3>1 DEF Repeats, Pending
    <3>3. current_state # "Pre"
      BY <1>3, <3>2, ControlFlow, MasterHyp DEF CtlHyp, InvHyp, Serving
    <3>4. Repeats
      BY <1>1, <1>3, <1>4, <3>2, ControlFlow, MasterHyp
         DEF CtlHyp, InvHyp, Repeats, Pending, Serving
    <3>5. RepeatBound + 1 <= RepeatBound'
      BY <1>2, <3>1, <3>4, RepeatBoundStep, MasterHyp DEF Repeats
    <3>6. RepeatBound \in Int
      BY <3>3, RepeatBoundAtMost DEF InvHyp
    <3>7. RepeatBound' \in Int
      BY ControlStep, MasterHyp, ChipAssumption DEF RepeatBound, ControlInv
    <3> QED
      BY <1>1, <1>2, <3>4, <3>5, <3>6, <3>7
  <2>4. command'.stb => current_state' \notin InitStates
    BY <1>2, <1>3, ControlFlow, MasterHyp DEF CtlHyp, InvHyp
  <2> QED
    BY <1>1, <1>2, <1>6, <2>1, <2>2, <2>3, <2>4 DEF AskInv, WaitInv, RestInv
<1> QED
  BY <1>1, <1>5, <1>6

(* Whatever the master does.                                               *)
LEMMA MasterStepKeeps ==
    ASSUME InvHyp
    PROVE  AskInv' /\ WaitInv' /\ RestInv'
BY AskStep, AwaitStep, AnsweredStep, RestStep DEF InvHyp, Edge, MasterStep

-----------------------------------------------------------------------------
(* The row that is opened is the one of the command that is kept.          *)
LEMMA RowStep ==
    ASSUME CtlHyp, RowInv
    PROVE  RowInv'
<1> USE DEF CtlStates, InitStates, AccessStates, WaitCounts, Serving, RowInv
<1>1. /\ current_state \in CtlStates
      /\ current_state \in Serving \cup {"Act"} => command'.addr = command.addr
      /\ Initialise \/ Dispatch \/ RefreshChip \/ Access
  BY CommandKept DEF CtlHyp, CtlType, SdramStep
<1>2. CASE PowerUp
  BY <1>1, <1>2 DEF PowerUp, Load, WaitOver, Waiting, Advance, NoAccess, chipVars
<1>3. CASE InitPrecharge
  BY <1>1, <1>3 DEF InitPrecharge, Load, WaitOver, Waiting, Advance, NoAccess, chipVars
<1>4. CASE InitRefresh
  BY <1>1, <1>4
     DEF InitRefresh, Load, WaitOver, Waiting, Advance, NoAccess, CountRefresh,
         chipVars
<1>5. CASE SetMode
  BY <1>1, <1>5 DEF SetMode, Load, WaitOver, Waiting, Advance, NoAccess, chipVars
<1>6. CASE Dispatch
  BY <1>1, <1>6 DEF Dispatch, Advance, NoAccess, chipVars
<1>7. CASE RefreshChip
  BY <1>1, <1>7
     DEF RefreshChip, Load, WaitOver, Waiting, Advance, NoAccess, CountRefresh,
         chipVars
<1>8. CASE Activate
  BY <1>1, <1>8 DEF Activate, Load, Advance
<1>9. CASE ChooseAccess
  BY <1>1, <1>9 DEF ChooseAccess, WaitOver, Waiting, Advance, NoAccess, chipVars
<1>10. CASE WriteColumn
  BY <1>1, <1>10 DEF WriteColumn, Advance
<1>11. CASE ReadColumn
  BY <1>1, <1>11 DEF ReadColumn, Advance
<1>12. CASE AwaitData
  BY <1>1, <1>12 DEF AwaitData, Advance, NoAccess, chipVars
<1>13. CASE SampleData
  BY <1>1, <1>13 DEF SampleData, Advance, chipVars
<1>14. CASE Acknowledge
  BY <1>1, <1>14 DEF Acknowledge, Advance, chipVars
<1>15. CASE Precharge
  BY <1>1, <1>15 DEF Precharge, Load, Advance
<1>16. CASE EndAccess
  BY <1>1, <1>16 DEF EndAccess, WaitOver, Waiting, Advance, chipVars
<1> QED
  BY <1>1, <1>2, <1>3, <1>4, <1>5, <1>6, <1>7, <1>8, <1>9, <1>10, <1>11, <1>12,
     <1>13, <1>14, <1>15, <1>16
     DEF Initialise, Access

(* The words on the way stay those of the command.                         *)
LEMMA DataFlowStep ==
    ASSUME CtlHyp, RowInv, DataFlow
    PROVE  DataFlow'
<1> USE DEF CtlStates, InitStates, AccessStates, WaitCounts, Serving, DataFlow
<1>1. /\ current_state \in CtlStates
      /\ command.addr \in ChipAddress
      /\ cells \in [ChipAddress -> Data]
      /\ current_state \in {"W0", "WPre"} => command.we
      /\ current_state \in {"R0", "R1", "R2", "R3", "RPre"} => ~command.we
      /\ current_state \in {"W0", "R0"} => BankIsOpen /\ Selected = command.addr
      /\ current_state \in Serving \cup {"Act"} =>
            /\ command'.addr = command.addr
            /\ command'.dat = command.dat
            /\ command'.we = command.we
      /\ Initialise \/ Dispatch \/ RefreshChip \/ Access
  BY CommandKept, SelectedIsAddressed
     DEF CtlHyp, CtlType, Command, ControlInv, RowInv, SdramStep
<1>2. CASE PowerUp
  BY <1>1, <1>2 DEF PowerUp, Load, WaitOver, Waiting, Advance, NoAccess, chipVars
<1>3. CASE InitPrecharge
  BY <1>1, <1>3 DEF InitPrecharge, Load, WaitOver, Waiting, Advance, NoAccess, chipVars
<1>4. CASE InitRefresh
  BY <1>1, <1>4
     DEF InitRefresh, Load, WaitOver, Waiting, Advance, NoAccess, CountRefresh,
         chipVars
<1>5. CASE SetMode
  BY <1>1, <1>5 DEF SetMode, Load, WaitOver, Waiting, Advance, NoAccess, chipVars
<1>6. CASE Dispatch
  BY <1>1, <1>6 DEF Dispatch, Advance, NoAccess, chipVars
<1>7. CASE RefreshChip
  BY <1>1, <1>7
     DEF RefreshChip, Load, WaitOver, Waiting, Advance, NoAccess, CountRefresh,
         chipVars
<1>8. CASE Activate
  BY <1>1, <1>8 DEF Activate, Load, Advance
<1>9. CASE ChooseAccess
  BY <1>1, <1>9 DEF ChooseAccess, WaitOver, Waiting, Advance, NoAccess, chipVars
<1>10. CASE WriteColumn
  BY <1>1, <1>10 DEF WriteColumn, Advance
<1>11. CASE ReadColumn
  BY <1>1, <1>11 DEF ReadColumn, Advance
<1>12. CASE AwaitData
  BY <1>1, <1>12 DEF AwaitData, Advance, NoAccess, chipVars
<1>13. CASE SampleData
  BY <1>1, <1>13 DEF SampleData, Advance, chipVars
<1>14. CASE Acknowledge
  BY <1>1, <1>14 DEF Acknowledge, Advance, chipVars
<1>15. CASE Precharge
  BY <1>1, <1>15 DEF Precharge, Load, Advance
<1>16. CASE EndAccess
  BY <1>1, <1>16 DEF EndAccess, WaitOver, Waiting, Advance, chipVars
<1> QED
  BY <1>1, <1>2, <1>3, <1>4, <1>5, <1>6, <1>7, <1>8, <1>9, <1>10, <1>11, <1>12,
     <1>13, <1>14, <1>15, <1>16
     DEF Initialise, Access

(* Only W0 changes the memory: one cell, that of the command.              *)
LEMMA CellsStep ==
    ASSUME CtlType, ControlInv, RowInv, SdramStep(bus)
    PROVE  /\ current_state = "W0" =>
                 cells' = [cells EXCEPT ![command.addr] = command.dat]
           /\ current_state # "W0" => cells' = cells
<1> USE DEF CtlStates, InitStates, AccessStates, WaitCounts
<1>1. /\ current_state \in CtlStates
      /\ current_state = "W0" => BankIsOpen /\ Selected = command.addr
      /\ Initialise \/ Dispatch \/ RefreshChip \/ Access
  BY SelectedIsAddressed DEF CtlType, RowInv, SdramStep
<1>2. CASE PowerUp
  BY <1>1, <1>2 DEF PowerUp, Load, WaitOver, Waiting, Advance, NoAccess, chipVars
<1>3. CASE InitPrecharge
  BY <1>1, <1>3 DEF InitPrecharge, Load, WaitOver, Waiting, Advance, NoAccess, chipVars
<1>4. CASE InitRefresh
  BY <1>1, <1>4
     DEF InitRefresh, Load, WaitOver, Waiting, Advance, NoAccess, CountRefresh,
         chipVars
<1>5. CASE SetMode
  BY <1>1, <1>5 DEF SetMode, Load, WaitOver, Waiting, Advance, NoAccess, chipVars
<1>6. CASE Dispatch
  BY <1>1, <1>6 DEF Dispatch, Advance, NoAccess, chipVars
<1>7. CASE RefreshChip
  BY <1>1, <1>7
     DEF RefreshChip, Load, WaitOver, Waiting, Advance, NoAccess, CountRefresh,
         chipVars
<1>8. CASE Activate
  BY <1>1, <1>8 DEF Activate, Load, Advance
<1>9. CASE ChooseAccess
  BY <1>1, <1>9 DEF ChooseAccess, WaitOver, Waiting, Advance, NoAccess, chipVars
<1>10. CASE WriteColumn
  BY <1>1, <1>10 DEF WriteColumn, Advance
<1>11. CASE ReadColumn
  BY <1>1, <1>11 DEF ReadColumn, Advance
<1>12. CASE AwaitData
  BY <1>1, <1>12 DEF AwaitData, Advance, NoAccess, chipVars
<1>13. CASE SampleData
  BY <1>1, <1>13 DEF SampleData, Advance, chipVars
<1>14. CASE Acknowledge
  BY <1>1, <1>14 DEF Acknowledge, Advance, chipVars
<1>15. CASE Precharge
  BY <1>1, <1>15 DEF Precharge, Load, Advance
<1>16. CASE EndAccess
  BY <1>1, <1>16 DEF EndAccess, WaitOver, Waiting, Advance, chipVars
<1> QED
  BY <1>1, <1>2, <1>3, <1>4, <1>5, <1>6, <1>7, <1>8, <1>9, <1>10, <1>11, <1>12,
     <1>13, <1>14, <1>15, <1>16
     DEF Initialise, Access

(* A pending write that the master does not ask for any more writes what   *)
(* its cell holds already.                                                 *)
LEMMA PendingHarmless ==
    ASSUME CtlHyp, RowInv, ~bus.stb, Pending', command'.we,
           Pending /\ command.we => cells[command.addr] = command.dat
    PROVE  cells'[command'.addr] = command'.dat /\ cells' = cells
<1>1. /\ command \in Command /\ bus \in Command
      /\ cells \in [ChipAddress -> Data]
      /\ command.addr \in ChipAddress
      /\ RegisterCommand(bus)
  BY DEF CtlHyp, CtlType, Command, SdramStep
<1>2. /\ command'.addr = command.addr /\ command'.dat = command.dat /\ command'.we = command.we
      /\ command'.stb => command.stb
  BY <1>1, CommandStep DEF Same
<1>3. Pending
  BY <1>2, ControlFlow DEF CtlHyp, ControlInv, Pending, Serving
<1>4. cells[command.addr] = command.dat
  BY <1>2, <1>3
<1>5. cells' = [cells EXCEPT ![command.addr] = command.dat] \/ cells' = cells
  BY CellsStep DEF CtlHyp
<1> QED
  BY <1>1, <1>2, <1>4, <1>5

(* A write that has been acknowledged is in its cell, and stays there      *)
(* until the master asks again.                                            *)
LEMMA HarmlessStep ==
    ASSUME InvHyp, RowInv, DataFlow, HarmlessRepeat
    PROVE  HarmlessRepeat'
<1>1. SUFFICES ASSUME phase' = "rest", Pending', command'.we
               PROVE  cells'[command'.addr] = command'.dat
  BY DEF HarmlessRepeat, Repeats
<1>2. CtlHyp
  BY MasterHyp
<1>3. CASE Answered
  <2>1. current_state = "Pre"
    BY <1>3 DEF Answered, InvHyp, WaitInv
  <2>2. command'.addr = command.addr /\ command'.dat = command.dat /\ command'.we = command.we
    BY <1>2, <2>1, CommandKept DEF CtlHyp, SdramStep, Serving
  <2>3. cells' = cells
    BY <1>2, <2>1, CellsStep DEF CtlHyp
  <2> QED
    BY <1>1, <2>1, <2>2, <2>3 DEF DataFlow
<1>4. CASE Rest
  <2>1. phase = "rest" /\ ~bus.stb
    BY <1>4 DEF Rest, InvHyp, RestInv
  <2> QED
    BY <1>1, <1>2, <2>1, PendingHarmless DEF HarmlessRepeat, Repeats
<1> QED
  BY <1>1, <1>3, <1>4 DEF InvHyp, Edge, MasterStep, Ask, Await, masterVars

-----------------------------------------------------------------------------
(* A refresh is begun when it is due.                                      *)
LEMMA RefreshFlow ==
    ASSUME BusTypeOK, Edge, current_state' = "Refresh"
    PROVE  do_refresh /\ current_state # "WaitRefresh"
<1> USE DEF CtlStates, InitStates, AccessStates, WaitCounts
<1>1. /\ current_state \in CtlStates
      /\ current_state' = "Refresh"
      /\ Initialise \/ Dispatch \/ RefreshChip \/ Access
  BY DEF BusTypeOK, Edge, SdramStep
<1>2. CASE PowerUp
  BY <1>1, <1>2 DEF PowerUp, Load, WaitOver, Waiting, Advance, NoAccess
<1>3. CASE InitPrecharge
  BY <1>1, <1>3 DEF InitPrecharge, Load, WaitOver, Waiting, Advance, NoAccess
<1>4. CASE InitRefresh
  BY <1>1, <1>4
     DEF InitRefresh, Load, WaitOver, Waiting, Advance, NoAccess, CountRefresh
<1>5. CASE SetMode
  BY <1>1, <1>5 DEF SetMode, Load, WaitOver, Waiting, Advance, NoAccess
<1>6. CASE Dispatch
  BY <1>1, <1>6 DEF Dispatch, Advance, NoAccess
<1>7. CASE RefreshChip
  BY <1>1, <1>7
     DEF RefreshChip, Load, WaitOver, Waiting, Advance, NoAccess, CountRefresh
<1>8. CASE Activate
  BY <1>1, <1>8 DEF Activate, Load, Advance
<1>9. CASE ChooseAccess
  BY <1>1, <1>9 DEF ChooseAccess, WaitOver, Waiting, Advance, NoAccess
<1>10. CASE WriteColumn
  BY <1>1, <1>10 DEF WriteColumn, Advance
<1>11. CASE ReadColumn
  BY <1>1, <1>11 DEF ReadColumn, Advance
<1>12. CASE AwaitData
  BY <1>1, <1>12 DEF AwaitData, Advance, NoAccess
<1>13. CASE SampleData
  BY <1>1, <1>13 DEF SampleData, Advance
<1>14. CASE Acknowledge
  BY <1>1, <1>14 DEF Acknowledge, Advance
<1>15. CASE Precharge
  BY <1>1, <1>15 DEF Precharge, Load, Advance
<1>16. CASE EndAccess
  BY <1>1, <1>16 DEF EndAccess, WaitOver, Waiting, Advance
<1> QED
  BY <1>1, <1>2, <1>3, <1>4, <1>5, <1>6, <1>7, <1>8, <1>9, <1>10, <1>11, <1>12,
     <1>13, <1>14, <1>15, <1>16
     DEF Initialise, Access

(* While a refresh is due, every edge brings the access nearer its end.    *)
LEMMA DueBoundStep ==
    ASSUME BusTypeOK, ControlInv, Edge, do_refresh,
           current_state \notin InitStates \cup {"WaitRefresh"}
    PROVE  DueBound + 1 <= DueBound'
<1> USE ChipAssumption
        DEF CtlStates, InitStates, AccessStates, WaitCounts, DueBound
<1>1. /\ current_state \in CtlStates
      /\ current_state \notin InitStates \cup {"WaitRefresh"}
      /\ do_refresh
      /\ cntr \in Nat
      /\ current_state = "WaitPre" => cntr <= TRP_CNTR_C
      /\ current_state = "WaitAct" => cntr <= TRCD_CNTR_C
      /\ Initialise \/ Dispatch \/ RefreshChip \/ Access
  BY DEF BusTypeOK, ControlInv, Edge, SdramStep
<1>2. CASE PowerUp
  BY <1>1, <1>2 DEF PowerUp, Load, WaitOver, Waiting, Advance, NoAccess
<1>3. CASE InitPrecharge
  BY <1>1, <1>3 DEF InitPrecharge, Load, WaitOver, Waiting, Advance, NoAccess
<1>4. CASE InitRefresh
  BY <1>1, <1>4
     DEF InitRefresh, Load, WaitOver, Waiting, Advance, NoAccess, CountRefresh
<1>5. CASE SetMode
  BY <1>1, <1>5 DEF SetMode, Load, WaitOver, Waiting, Advance, NoAccess
<1>6. CASE Dispatch
  BY <1>1, <1>6 DEF Dispatch, Advance, NoAccess
<1>7. CASE RefreshChip
  BY <1>1, <1>7
     DEF RefreshChip, Load, WaitOver, Waiting, Advance, NoAccess, CountRefresh
<1>8. CASE Activate
  BY <1>1, <1>8 DEF Activate, Load, Advance
<1>9. CASE ChooseAccess
  BY <1>1, <1>9 DEF ChooseAccess, WaitOver, Waiting, Advance, NoAccess
<1>10. CASE WriteColumn
  BY <1>1, <1>10 DEF WriteColumn, Advance
<1>11. CASE ReadColumn
  BY <1>1, <1>11 DEF ReadColumn, Advance
<1>12. CASE AwaitData
  BY <1>1, <1>12 DEF AwaitData, Advance, NoAccess
<1>13. CASE SampleData
  BY <1>1, <1>13 DEF SampleData, Advance
<1>14. CASE Acknowledge
  BY <1>1, <1>14 DEF Acknowledge, Advance
<1>15. CASE Precharge
  BY <1>1, <1>15 DEF Precharge, Load, Advance
<1>16. CASE EndAccess
  BY <1>1, <1>16 DEF EndAccess, WaitOver, Waiting, Advance
<1> QED
  BY <1>1, <1>2, <1>3, <1>4, <1>5, <1>6, <1>7, <1>8, <1>9, <1>10, <1>11, <1>12,
     <1>13, <1>14, <1>15, <1>16
     DEF Initialise, Access

(* The bound is a number, and bounded itself.                              *)
LEMMA DueBoundType ==
    ASSUME ControlInv
    PROVE  DueBound \in Nat /\ DueBound <= TRCD_CNTR_C + TRP_CNTR_C + 11
<1>1. /\ TRP_CNTR_C \in Nat /\ TRCD_CNTR_C \in Nat
      /\ cntr \in Nat
      /\ current_state = "WaitPre" => cntr <= TRP_CNTR_C
      /\ current_state = "WaitAct" => cntr <= TRCD_CNTR_C
  BY ChipAssumption DEF ControlInv
<1>2. DueBound \in Int
  BY <1>1 DEF DueBound
<1>3. DueBound >= 0
  BY <1>1 DEF DueBound
<1>4. DueBound <= TRCD_CNTR_C + TRP_CNTR_C + 11
  BY <1>1 DEF DueBound
<1> QED
  BY <1>2, <1>3, <1>4

(* A refresh does not fall further behind.                                 *)
LEMMA DueStep ==
    ASSUME BusTypeOK, ControlInv, ControlInv', DueInv, Edge
    PROVE  DueInv'
<1>1. /\ since \in Nat
      /\ RFSH_CNTR_C \in Nat /\ rfsh_int_cntr \in 0 .. RFSH_CNTR_C
      /\ rfsh_int_cntr' \in 0 .. RFSH_CNTR_C
      /\ do_refresh \in BOOLEAN
      /\ DueBound \in Nat
  <2>1. rfsh_int_cntr' \in 0 .. RFSH_CNTR_C
    BY CtlOfBus, TimerStep DEF Edge, SdramStep
  <2> QED
    BY <2>1, DueBoundType, ChipAssumption DEF DueInv, BusTypeOK
<1>2. PICK next \in Nat : next = DueBound'
  <2>1. TRP_CNTR_C \in Nat /\ TRCD_CNTR_C \in Nat
    BY ChipAssumption
  <2>2. /\ cntr' \in Nat
        /\ current_state' = "WaitPre" => cntr' <= TRP_CNTR_C
        /\ current_state' = "WaitAct" => cntr' <= TRCD_CNTR_C
    BY DEF ControlInv
  <2>3. DueBound' \in Int
    BY <2>1, <2>2 DEF DueBound
  <2>4. DueBound' >= 0
    BY <2>1, <2>2 DEF DueBound
  <2> QED
    BY <2>3, <2>4
<1>3. RefreshTimer
  BY DEF Edge, SdramStep
<1>4. current_state' \in InitStates => since' = 0
  BY ControlFlow, CtlOfBus DEF Edge
<1>5. since' \in Nat
  BY <1>1 DEF Edge
<1>6. current_state \in InitStates \cup {"WaitRefresh"} => since' = 0
  BY DEF Edge
<1>7. current_state \notin InitStates \cup {"WaitRefresh"} => since' = since + 1
  BY DEF Edge
<1>8. /\ do_refresh => do_refresh' \/ current_state = "WaitRefresh"
      /\ ~do_refresh' => ~do_refresh \/ current_state = "WaitRefresh"
  BY <1>3 DEF RefreshTimer
<1>9. current_state' = "Refresh" => do_refresh'
  BY <1>8, RefreshFlow
<1>10. Operating' => \/ ~do_refresh' /\ since' + rfsh_int_cntr' <= RFSH_CNTR_C
                     \/ do_refresh' /\ since' <= RFSH_CNTR_C + 1 + next
  <2>1. CASE current_state \in InitStates \cup {"WaitRefresh"}
    BY <1>1, <1>6, <2>1
  <2>2. CASE current_state \notin InitStates \cup {"WaitRefresh"} /\ do_refresh
    <3>1. DueBound + 1 <= next
      BY <1>2, <2>2, DueBoundStep
    <3>2. since <= RFSH_CNTR_C + 1 + DueBound
      BY <2>2 DEF DueInv, Operating
    <3>3. since' = since + 1 /\ do_refresh'
      BY <1>7, <1>8, <2>2
    <3> QED
      BY <1>1, <3>1, <3>2, <3>3
  <2>3. CASE current_state \notin InitStates \cup {"WaitRefresh"} /\ ~do_refresh
    <3>1. since + rfsh_int_cntr <= RFSH_CNTR_C /\ since' = since + 1
      BY <1>7, <2>3 DEF DueInv, Operating
    <3>2. CASE rfsh_int_cntr = 0
      <4>1. do_refresh'
        BY <1>3, <2>3, <3>2 DEF RefreshTimer
      <4> QED
        BY <1>1, <3>1, <3>2, <4>1
    <3>3. CASE rfsh_int_cntr # 0
      <4>1. rfsh_int_cntr' = rfsh_int_cntr - 1 /\ ~do_refresh'
        BY <1>3, <2>3, <3>3 DEF RefreshTimer
      <4> QED
        BY <1>1, <3>1, <4>1
    <3> QED
      BY <3>2, <3>3
  <2> QED
    BY <2>1, <2>2, <2>3
<1> QED
  BY <1>2, <1>4, <1>5, <1>9, <1>10 DEF DueInv

-----------------------------------------------------------------------------
(* The invariant holds at first, and every clock edge keeps it.            *)
LEMMA BusInvInit ==
    ASSUME BusInit
    PROVE  BusInv
<1> USE ChipAssumption, RestAssumption DEF BusInit, SdramInit
<1>1. PICK contents \in PowerUpCells : SdramInit(contents)
  OBVIOUS
<1>2. cells \in [ChipAddress -> Data]
  BY <1>1
<1>3. /\ command \in Command /\ ~command.stb
      /\ current_state = "Init" /\ cntr = 0 /\ init_pre_cntr = 0
      /\ rfsh_int_cntr = 0 /\ do_refresh = FALSE
      /\ ack_o = FALSE /\ dat_o \in Data
      /\ open_row = NoRow /\ sense \in Data
      /\ phase = "rest" /\ rest = 0 /\ bus = command /\ latched = dat_o /\ since = 0
  BY <1>1 DEF Command
<1>4. BusTypeOK
  <2>1. init_pre_cntr \in 0 .. InitRefreshes /\ rfsh_int_cntr \in 0 .. RFSH_CNTR_C
        /\ rest \in 0 .. MinRest
    BY <1>3
  <2>2. do_refresh \in BOOLEAN /\ ack_o \in BOOLEAN
    BY <1>3
  <2>3. current_state \in CtlStates /\ phase \in {"ask", "wait", "rest"}
    BY <1>3 DEF CtlStates, InitStates
  <2>4. bus \in Command /\ latched \in Data
    BY <1>3
  <2> QED
    BY <1>2, <1>3, <2>1, <2>2, <2>3, <2>4 DEF BusTypeOK
<1>5. ControlInv
  BY <1>3 DEF ControlInv
<1>6. AskInv /\ WaitInv /\ RestInv
  BY <1>3 DEF AskInv, WaitInv, RestInv, Repeats, Pending, Serving
<1>7. RowInv /\ DataFlow /\ HarmlessRepeat
  BY <1>3 DEF RowInv, DataFlow, HarmlessRepeat, Repeats, Pending, Serving
<1>8. DueInv
  BY <1>3 DEF DueInv, Operating, InitStates
<1> QED
  BY <1>4, <1>5, <1>6, <1>7, <1>8 DEF BusInv

(* An edge of the clock, or none.                                          *)
LEMMA BusInvStep ==
    ASSUME BusInv, [Edge]_busVars
    PROVE  BusInv'
<1>1. CASE Edge
  <2>1. InvHyp
    BY <1>1 DEF BusInv, InvHyp
  <2>2. BusTypeOK' /\ ControlInv'
    BY <1>1, <2>1, TypeStep, ControlStep, MasterHyp DEF BusInv
  <2>3. AskInv' /\ WaitInv' /\ RestInv'
    BY <2>1, MasterStepKeeps
  <2>4. RowInv' /\ DataFlow' /\ HarmlessRepeat'
    BY <2>1, MasterHyp, RowStep, DataFlowStep, HarmlessStep DEF BusInv
  <2>5. DueInv'
    BY <1>1, <2>2, DueStep DEF BusInv
  <2> QED
    BY <2>2, <2>3, <2>4, <2>5 DEF BusInv
<1>2. CASE UNCHANGED busVars
  BY <1>2
     DEF busVars, sdramVars, ctlVars, timeVars, chipVars, masterVars,
         BusInv, BusTypeOK, ControlInv, AskInv, WaitInv, RestInv, RowInv, DataFlow,
         HarmlessRepeat, DueInv, Repeats, Pending, RepeatBound, DueBound, Operating, Same
<1> QED
  BY <1>1, <1>2

(* The inductive invariant holds at every clock edge.                      *)
THEOREM BusInvariant == BusSpec => []BusInv
<1>1. BusInit => BusInv
  BY BusInvInit
<1>2. BusInv /\ [Edge]_busVars => BusInv'
  BY BusInvStep
<1> QED
  BY <1>1, <1>2, PTL DEF BusSpec

(* Every register stays in its range; init_pre_cntr, which the refreshes   *)
(* in operation count up as well, too.                                     *)
THEOREM BusTypeCorrect == BusSpec => []BusTypeOK
<1>1. BusInv => BusTypeOK
  BY DEF BusInv
<1> QED
  BY <1>1, BusInvariant, PTL

(* The column is accessed in the row of its own address, though the        *)
(* command register takes the bus over at every edge.                      *)
THEOREM ColumnsCorrect == BusSpec => []ColumnInItsRow
<1>1. BusInv => ColumnInItsRow
  BY DEF BusInv, RowInv, ColumnInItsRow
<1> QED
  BY <1>1, BusInvariant, PTL

(* No two refreshes are further apart than the interval and one access,    *)
(* whatever the master asks for.                                           *)
THEOREM RefreshesInTime == BusSpec => []RefreshInTime
<1>1. BusInv => RefreshInTime
  <2> SUFFICES ASSUME BusInv, Operating
               PROVE  since <= 3 + RFSH_CNTR_C + LongestAccess
    BY DEF RefreshInTime
  <2>1. /\ TRP_CNTR_C \in Nat /\ TRCD_CNTR_C \in Nat /\ RFSH_CNTR_C \in Nat
        /\ since \in Nat /\ rfsh_int_cntr \in Nat
    BY ChipAssumption DEF BusInv, BusTypeOK, DueInv
  <2>2. DueBound \in Nat /\ DueBound <= TRCD_CNTR_C + TRP_CNTR_C + 11
    BY DueBoundType DEF BusInv
  <2>3. since + rfsh_int_cntr <= RFSH_CNTR_C \/ since <= RFSH_CNTR_C + 1 + DueBound
    BY DEF BusInv, DueInv
  <2> QED
    BY <2>1, <2>2, <2>3 DEF LongestAccess
<1> QED
  BY <1>1, BusInvariant, PTL

-----------------------------------------------------------------------------
(* Every edge is a step of the memory that the controller stands for, or   *)
(* none: a write acts in W0, a request is answered in Pre, and a repeated  *)
(* access changes nothing.                                                 *)
memoryVars == <<cells, bus, latched>>

(* A step of the bus is a step of the word memory, or leaves it as it is.  *)
LEMMA MemoryStep ==
    ASSUME BusInv, Edge
    PROVE  [Memory!MemoryNext]_memoryVars
<1> USE DEF memoryVars
<1>1. /\ command \in Command /\ bus \in Command
      /\ cells \in [ChipAddress -> Data]
      /\ command.addr \in ChipAddress
      /\ current_state = "W0" => cells' = [cells EXCEPT ![command.addr] = command.dat]
      /\ current_state # "W0" => cells' = cells
  BY CtlOfBus, CellsStep DEF BusInv, BusTypeOK, Command, Edge
<1>2. CASE Ask
  <2>1. ~bus.stb /\ current_state # "W0"
    BY <1>2 DEF Ask, BusInv, AskInv, Serving
  <2> QED
    BY <1>1, <1>2, <2>1 DEF Ask, Memory!MemoryNext, Memory!Request
<1>3. CASE Await
  <2>1. /\ bus.stb /\ UNCHANGED <<bus, latched>>
        /\ current_state = "W0" => Same(command, bus) /\ command.we
    BY <1>3 DEF Await, masterVars, BusInv, WaitInv, ControlInv, Serving
  <2> QED
    BY <1>1, <2>1 DEF Memory!MemoryNext, Memory!Write, Same
<1>4. CASE Answered
  <2>1. /\ bus.stb /\ current_state = "Pre" /\ Same(command, bus)
        /\ bus' = [bus EXCEPT !.stb = FALSE]
        /\ latched' = IF bus.we THEN latched ELSE dat_o
    BY <1>4 DEF Answered, BusInv, WaitInv, Serving
  <2>2. /\ bus.we => cells[bus.addr] = bus.dat
        /\ ~bus.we => dat_o = cells[bus.addr]
    BY <2>1 DEF BusInv, DataFlow, Same
  <2> QED
    BY <1>1, <2>1, <2>2 DEF Memory!MemoryNext, Memory!Answer
<1>5. CASE Rest
  <2>1. UNCHANGED <<bus, latched>>
    BY <1>5 DEF Rest
  <2>2. current_state = "W0" => cells[command.addr] = command.dat
    BY <1>5 DEF Rest, BusInv, ControlInv, HarmlessRepeat, Repeats, Pending, Serving
  <2> QED
    BY <1>1, <2>1, <2>2
<1> QED
  BY <1>2, <1>3, <1>4, <1>5 DEF Edge, MasterStep

(* The controller and its chip implement the memory that the master        *)
(* expects, for every geometry and all wait counts.                        *)
THEOREM ImplementsMemory == BusSpec => ActsAsMemory
<1>1. BusInit /\ BusInv => Memory!MemoryInit
  BY DEF BusInit, BusInv, BusTypeOK, RestInv, Memory!MemoryInit
<1>2. BusInv /\ [Edge]_busVars => [Memory!MemoryNext]_memoryVars
  <2> SUFFICES ASSUME BusInv, [Edge]_busVars
               PROVE  [Memory!MemoryNext]_memoryVars
    OBVIOUS
  <2>1. CASE Edge
    BY <2>1, MemoryStep
  <2>2. CASE UNCHANGED busVars
    BY <2>2 DEF busVars, sdramVars, chipVars, masterVars, memoryVars
  <2> QED
    BY <2>1, <2>2
<1> QED
  BY <1>1, <1>2, BusInvariant, PTL
     DEF BusSpec, ActsAsMemory, Memory!MemorySpec, memoryVars
=============================================================================
