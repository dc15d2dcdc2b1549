------------------------------- MODULE DnsIpRx -------------------------------
(***************************************************************************)
(* lib/dns_ip_rx.v: collects the payload of one UDP datagram in a register *)
(* and shows it to the analyzer when it went to or came from port 53.      *)
(*                                                                         *)
(* One step is one rising edge of clk, with rst low.  What udp_ip_rx and   *)
(* the analyzer drive before the edge are parameters of the step:          *)
(*    udp = [hdr_valid, hdr, tvalid, tdata, tlast]  and  ready, where      *)
(*    hdr = [length, ip, dns]: the payload's length, the addresses, and    *)
(* whether one of the ports is 53.                                         *)
(*                                                                         *)
(* A token stands for the bytes that one state of the analyzer reads (a    *)
(* header, a byte of a name, a type ...), and payloads are counted in      *)
(* tokens where the code counts bits.                                      *)
(***************************************************************************)
EXTENDS Integers

CONSTANTS
    Token,         \* what a payload is made of
    Nul,           \* the token of zeroes
    MaxTokens      \* what the register holds   [511 bytes]

ASSUME TokenAssumption == Nul \in Token /\ MaxTokens \in Nat \ {0}

VARIABLES
    rx_state,
    header,        \* m_length_reg, m_*_ip_reg, m_*_port_reg
    hdr_ready, tready,
    dns_valid,
    end_length,
    data_count,
    dns_data
rxVars == <<rx_state, header, hdr_ready, tready, dns_valid, end_length, data_count, dns_data>>

Register == [1 .. MaxTokens -> Token]
Cleared  == [i \in 1 .. MaxTokens |-> Nul]

RxInit ==
    /\ rx_state = "IDLE" /\ header = [length |-> 0, ip |-> "none", dns |-> FALSE]
    /\ hdr_ready = FALSE /\ tready = FALSE /\ dns_valid = FALSE
    /\ end_length = -1 /\ data_count = 0
    /\ dns_data = Cleared

-----------------------------------------------------------------------------
(* The datagram that is shown and not yet taken.                           *)
Waiting(ready) == dns_valid /\ ~ready

Clear == dns_data' = Cleared

(* The byte on the bus is stored at every edge of the reading states; one  *)
(* that is not valid is overwritten, the count has not moved.              *)
Store(udp) ==
    dns_data' = IF data_count \in 1 .. MaxTokens
                  THEN [dns_data EXCEPT ![data_count] = udp.tdata] ELSE dns_data

RxAccept(udp, ready) ==
    /\ rx_state = "IDLE" /\ hdr_ready /\ udp.hdr_valid
    /\ rx_state' = "READ_PKT"
    /\ header' = udp.hdr
    /\ hdr_ready' = FALSE /\ tready' = TRUE
    /\ dns_valid' = Waiting(ready)
    /\ data_count' = 1
    /\ Clear

RxIdle(udp, ready) ==
    /\ rx_state = "IDLE" /\ ~(hdr_ready /\ udp.hdr_valid)
    /\ hdr_ready' = ~Waiting(ready) /\ tready' = FALSE
    /\ dns_valid' = Waiting(ready)
    /\ data_count' = 1
    /\ Clear
    /\ UNCHANGED <<rx_state, header>>

(* The length is compared before the last byte, so that READ_LAST sees it. *)
(* Mutant: it is compared one byte too early.                              *)
MutAtEnd == data_count = end_length - 1
AtEnd    == data_count = end_length

RxRead(udp, ready) ==
    /\ rx_state = "READ_PKT"
    /\ hdr_ready' = FALSE /\ tready' = TRUE
    /\ Store(udp)
    /\ \/ /\ ~(tready /\ udp.tvalid)
          /\ dns_valid' = Waiting(ready)
          /\ UNCHANGED <<rx_state, data_count>>
       \/ /\ tready /\ udp.tvalid /\ udp.tlast          \* early termination
          /\ rx_state' = "IDLE" /\ dns_valid' = FALSE
          /\ data_count' = data_count + 1
       \/ /\ tready /\ udp.tvalid /\ ~udp.tlast
          /\ rx_state' = IF AtEnd THEN "READ_LAST" ELSE "READ_PKT"
          /\ dns_valid' = Waiting(ready)
          /\ data_count' = data_count + 1
    /\ UNCHANGED header

(* A last byte that is not there at once is not waited for.                *)
RxLast(udp, ready) ==
    LET taken    == tready /\ udp.tvalid
        complete == taken /\ udp.tlast
    IN  /\ rx_state = "READ_LAST"
        /\ rx_state' = IF taken /\ ~udp.tlast THEN "READ_LAST" ELSE "IDLE"
        /\ dns_valid' = IF complete THEN header.dns ELSE Waiting(ready)
        /\ hdr_ready' = (complete /\ ~Waiting(ready))
        /\ tready' = FALSE
        /\ Store(udp)
        /\ UNCHANGED <<header, data_count>>

(* end_length_reg follows the length of the header by one edge.            *)
RxStep(udp, ready) ==
    /\ RxAccept(udp, ready) \/ RxIdle(udp, ready) \/ RxRead(udp, ready) \/ RxLast(udp, ready)
    /\ end_length' = header.length - 1

=============================================================================
