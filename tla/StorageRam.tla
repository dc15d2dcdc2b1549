----------------------------- MODULE StorageRam -----------------------------
(***************************************************************************)
(* The storage machine of storage.v with its hash unit and the Wishbone    *)
(* memory of fpga_core_tb.v: all take one step at every clock edge, on the *)
(* values their outputs had before it.                                     *)
(*                                                                         *)
(* The memory accepts a request when it is idle and its acknowledge is     *)
(* low, counts Latency edges, then performs the access with the address,   *)
(* the data and the contents of that moment, and raises ack_o for one      *)
(* cycle.  The direction is the one of the moment of acceptance.           *)
(***************************************************************************)
EXTENDS StorageTable

CONSTANTS
    Latency,       \* clock edges an access takes after acceptance  [3]
    PowerUpMems    \* the contents the memory may start with

VARIABLE ram       \* the state and the counter of the memory
allVars == <<busVars, ram>>

ASSUME RamAssumption ==
    /\ Latency \in Nat
    /\ PowerUpMems \subseteq [Address -> Word]

RamInit ==
    /\ ram = [st |-> "IDLE", count |-> 0]
    /\ ack = FALSE /\ answer = 0
    /\ mem \in PowerUpMems

RamIdle ==
    /\ ram.st = "IDLE"
    /\ ram' = IF wb.stb /\ ~ack
                THEN [st |-> IF wb.we THEN "WRITE" ELSE "READ", count |-> 0] ELSE ram
    /\ ack' = FALSE /\ answer' = 0
    /\ UNCHANGED mem

RamCount ==
    /\ ram.st # "IDLE" /\ ram.count < Latency
    /\ ram' = [ram EXCEPT !.count = @ + 1]
    /\ answer' = 0
    /\ UNCHANGED <<mem, ack>>

RamRead ==
    /\ ram.st = "READ" /\ ram.count = Latency
    /\ ram' = [ram EXCEPT !.st = "IDLE"]
    /\ ack' = TRUE /\ answer' = mem[wb.addr]
    /\ UNCHANGED mem

RamWrite ==
    /\ ram.st = "WRITE" /\ ram.count = Latency
    /\ ram' = [ram EXCEPT !.st = "IDLE"]
    /\ ack' = TRUE /\ answer' = 0
    /\ mem' = [mem EXCEPT ![wb.addr] = wb.dat]

RamStep == RamIdle \/ RamCount \/ RamRead \/ RamWrite

Clock == MachineStep /\ RamStep /\ Front

RamInitAll == Init /\ RamInit /\ FrontInit

(* The clock never stops.                                                  *)
RamSpec == RamInitAll /\ [][Clock]_allVars /\ WF_allVars(Clock)

=============================================================================
