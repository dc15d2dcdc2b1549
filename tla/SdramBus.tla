------------------------------- MODULE SdramBus -------------------------------
(***************************************************************************)
(* The SDRAM controller with a Wishbone master that behaves as the states  *)
(* of storage.v do: a request state raises the strobe, a wait state holds  *)
(* the request until it is acknowledged and drops it at that edge.  Then   *)
(* the next request follows at once, or the master rests.                  *)
(*                                                                         *)
(* The controller has taken the request over a second time by then and     *)
(* repeats it when no other one replaces it in time.  A request that comes *)
(* into this repetition is lost or answered for it, so the master here     *)
(* rests for one edge at most or for MinRest edges at least.  Whether      *)
(* storage.v does so depends on its hash unit, see StorageSdram.           *)
(***************************************************************************)
EXTENDS SdramController

CONSTANTS
    MinRest,
    PowerUpCells   \* contents the chip may start with

ASSUME RestAssumption ==
    /\ MinRest \in Nat
    /\ MinRest >= TRC_CNTR_C + TRCD_CNTR_C + TRP_CNTR_C + 12
    /\ TRP_CNTR_C # 0
    /\ PowerUpCells \subseteq [ChipAddress -> Data]

VARIABLES
    phase,         \* of the master: "ask", "wait" or "rest"
    rest,          \* edges it has rested
    bus,           \* what it drives
    latched,       \* the word it has read last
    since          \* edges since the last refresh, or the initialisation
masterVars == <<phase, rest, bus, latched>>
busVars    == <<sdramVars, masterVars, since>>

BusInit ==
    /\ \E contents \in PowerUpCells : SdramInit(contents)
    /\ phase = "rest" /\ rest = 0
    /\ bus = command /\ latched = dat_o
    /\ since = 0

Ask ==
    /\ phase = "ask"
    /\ \E a \in ChipAddress, d \in Data, w \in BOOLEAN :
          bus' = [addr |-> a, dat |-> d, we |-> w, stb |-> TRUE]
    /\ phase' = "wait"
    /\ UNCHANGED <<rest, latched>>

Await == phase = "wait" /\ ~ack_o /\ UNCHANGED masterVars

Answered ==
    /\ phase = "wait" /\ ack_o
    /\ bus' = [bus EXCEPT !.stb = FALSE]
    /\ latched' = IF bus.we THEN latched ELSE dat_o
    /\ phase' \in {"ask", "rest"}
    /\ rest' = 0

Rest ==
    /\ phase = "rest"
    /\ rest' = IF rest < MinRest THEN rest + 1 ELSE rest
    /\ phase' \in IF rest = 0 \/ rest >= MinRest THEN {"ask", "rest"} ELSE {"rest"}
    /\ UNCHANGED <<bus, latched>>

MasterStep == Ask \/ Await \/ Answered \/ Rest

(* One clock edge.                                                         *)
Edge ==
    /\ SdramStep(bus)
    /\ MasterStep
    /\ since' = IF current_state \in InitStates \cup {"WaitRefresh"} THEN 0 ELSE since + 1

BusSpec == BusInit /\ [][Edge]_busVars /\ WF_busVars(Edge)

-----------------------------------------------------------------------------
Operating == current_state \notin InitStates

(* Every register stays in its range: the refreshes of the initialisation  *)
(* are counted in init_pre_cntr, which later refreshes count up as well    *)
(* and which only Idle clears.                                             *)
BusTypeOK ==
    /\ current_state \in CtlStates
    /\ command \in Command /\ bus \in Command
    /\ init_pre_cntr \in 0 .. InitRefreshes
    /\ rfsh_int_cntr \in 0 .. RFSH_CNTR_C /\ do_refresh \in BOOLEAN
    /\ ack_o \in BOOLEAN /\ dat_o \in Data /\ latched \in Data
    /\ open_row \in ChipRow \cup {NoRow} /\ sense \in Data
    /\ cells \in [ChipAddress -> Data]
    /\ phase \in {"ask", "wait", "rest"} /\ rest \in 0 .. MinRest

(* The controller takes commands over while it works: still, the column is *)
(* accessed in the row of its own address, and never in a closed one.      *)
ColumnInItsRow ==
    current_state \in {"W0", "R0"} => open_row = RowOf(command.addr)

(* The controller and its chip are a memory: an access that is repeated    *)
(* does no harm, and no acknowledge is taken for another request's.        *)
Memory == INSTANCE WordMemory
    WITH Addresses <- ChipAddress, Words <- Data,
         memory <- cells, request <- bus, reply <- latched
ActsAsMemory == Memory!MemorySpec

(* A refresh waits for one access at most, however busy the master is.     *)
LongestAccess == 9 + TRCD_CNTR_C + TRP_CNTR_C
RefreshInTime ==
    Operating => since <= 3 + RFSH_CNTR_C + LongestAccess

(* A request is answered, whatever refreshes come between.                 *)
RequestAnswered == (phase = "wait") ~> (phase # "wait")

=============================================================================
