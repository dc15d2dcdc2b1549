------------------------------- MODULE Ingress -------------------------------
(***************************************************************************)
(* dns_ip_rx.v and analyzer.v between udp_ip_rx.v and storage.v, all on    *)
(* clk_dram_c.  One step is one clock edge of the four.                    *)
(*                                                                         *)
(* udp_ip_rx is modelled as a source: it shows a header and then the       *)
(* payload, with pauses; the next header comes when the payload is taken.  *)
(* The storage machine is modelled by its handshake alone: the states that *)
(* differ in parser_ready; and by its hash unit, which ends HASHING.       *)
(***************************************************************************)
EXTENDS DnsIpRx, Sbdm2048, SequencesExt

CONSTANTS
    HeadersQ, HeadersA, ASlots, AAAASlots, CNAMESlots,
    ACounter, AAAACounter, CNAMECounter,
    Frames,        \* the datagrams that may come
    NoFrame,
    NextAfter,     \* the next datagram comes when "storage" is idle, when the
                   \* "pipeline" before it is empty, or "anytime"
    LastLate,      \* a pause may precede the last byte of a payload
    OffloadAfter   \* packets counted before an offload  [2]

ASSUME ParserAssumption ==
    /\ Nul \in Token \ (HeadersQ \cup HeadersA)
    /\ {"ptr", "A", "AAAA", "CNAME"} \subseteq Token
    /\ {ASlots, AAAASlots, CNAMESlots, ACounter, AAAACounter, CNAMECounter} \subseteq Nat \ {0}
    /\ ASlots < ACounter /\ AAAASlots <= AAAACounter /\ CNAMESlots < CNAMECounter

ASSUME IngressAssumption ==
    NextAfter \in {"storage", "pipeline", "anytime"} /\ LastLate \in BOOLEAN /\ OffloadAfter \in Nat \ {0}

VARIABLES
    an_state, pkt, pkt_ready, parser_valid, out,
    frame,         \* the datagram that is on its way
    left,          \* tokens of its payload that are not taken
    offered,       \* its header is shown
    st_state,      \* the storage machine: IDLE, HASHING, BUSY or OFFLOAD
    parser_ready,
    parsed_pkts,
    got            \* what it took last, and how many packets modulo 2

An == INSTANCE Analyzer

sourceVars  == <<frame, left, offered>>
storageVars == <<st_state, parser_ready, parsed_pkts, got>>
ingressVars == <<rxVars, An!anVars, sourceVars, storageVars, hashVars>>

-----------------------------------------------------------------------------
(* Datagrams: [hdr, name, type, class, records, ip, dns, excess], where a  *)
(* record is [kind, value] and excess is what the UDP length claims beyond *)
(* the payload.                                                            *)

EncodeRecord(r) ==
    CASE r.kind \in {"A", "AAAA"} -> <<"ptr", r.kind, r.value>>
      [] r.kind = "CNAME"         -> <<"ptr", r.kind, "fixed">> \o r.value \o <<Nul>>
      [] r.kind = "OPT"           -> <<"opt", r.value, r.value>>
      [] OTHER                    -> <<"ptr", r.kind, r.value>>

Encode(f) ==
    <<f.hdr>>
      \o (IF f.hdr \in HeadersQ THEN f.name \o <<Nul, f.type, f.class>> ELSE <<>>)
      \o FlattenSeq([i \in 1 .. Len(f.records) |-> EncodeRecord(f.records[i])])

(* Payloads are made of tokens, and none is longer than the register.      *)
ASSUME FramesAssumption ==
    \A f \in Frames : /\ Encode(f) \in Seq(Token) /\ Len(Encode(f)) \in 1 .. MaxTokens
                      /\ f.dns \in BOOLEAN

HeaderOf(f) == [length |-> Len(Encode(f)) + f.excess, ip |-> f.ip, dns |-> f.dns]

(* What is in a datagram, told without parsing it.                         *)
Values(f, kind) ==
    LET ofKind(r) == r.kind = kind
        s == SelectSeq(f.records, ofKind)
    IN  [i \in 1 .. Len(s) |-> s[i].value]
Slots(n, s, empty) == [i \in 0 .. n - 1 |-> IF i < Len(s) THEN s[i + 1] ELSE empty]

Asks(f) == f.hdr \in HeadersQ
Meaning(f) ==
    [ hdr    |-> f.hdr,
      ip     |-> f.ip,
      qname  |-> IF Asks(f) THEN f.name \o <<Nul>> ELSE <<Nul>>,
      qtype  |-> IF Asks(f) THEN f.type ELSE Nul,
      qclass |-> IF Asks(f) THEN f.class ELSE Nul,
      a      |-> Slots(ASlots, Values(f, "A"), Nul),
      a_record |-> Len(Values(f, "A")),
      aaaa   |-> Slots(AAAASlots, Values(f, "AAAA"), Nul),
      a4_record |-> Len(Values(f, "AAAA")),
      cname  |-> LET names == Values(f, "CNAME")
                 IN  Slots(CNAMESlots,
                           [i \in 1 .. Len(names) |-> names[i] \o <<Nul>>], <<Nul>>),
      cname_record |-> Len(Values(f, "CNAME")) ]

(* To or from port 53, complete, and without records of other types.       *)
Wanted(f) ==
    /\ f.dns /\ f.excess = 0
    /\ \A i \in DOMAIN f.records : f.records[i].kind \in {"A", "AAAA", "CNAME", "OPT"}

-----------------------------------------------------------------------------
IngressInit ==
    /\ RxInit /\ An!AnInit
    /\ frame = NoFrame /\ left = <<>> /\ offered = FALSE
    /\ st_state = "IDLE" /\ parser_ready = FALSE /\ parsed_pkts = 0 /\ HashInit
    /\ got = [msg |-> An!Blank, n |-> 0]

(* Nothing is on its way to the storage machine.                           *)
Empty == rx_state = "IDLE" /\ ~dns_valid /\ pkt_ready

(* The next datagram may come.                                             *)
Room ==
    /\ NextAfter # "anytime" => Empty
    /\ NextAfter = "storage" => st_state = "IDLE" /\ parsed_pkts < OffloadAfter

Udp(shown) ==
    [ hdr_valid |-> offered,
      hdr    |-> IF offered THEN HeaderOf(frame) ELSE header,
      tvalid |-> shown,
      tdata  |-> IF shown THEN Head(left) ELSE Nul,
      tlast  |-> shown /\ Len(left) = 1 ]

SourceOffers ==
    /\ left = <<>> /\ ~offered
    /\ Room
    /\ frame' \in Frames
    /\ left' = Encode(frame')
    /\ offered' = TRUE

SourceSends(shown) ==
    /\ offered' = (offered /\ ~(rx_state = "IDLE" /\ hdr_ready))
    /\ left' = IF tready /\ shown THEN Tail(left) ELSE left
    /\ UNCHANGED frame

Source(shown) ==
    /\ shown => left # <<>>
    /\ ~shown /\ Len(left) = 1 => LastLate \/ ~tready
    /\ SourceOffers \/ SourceSends(shown)

(* The handshake of the storage machine.  What is hashed does not matter   *)
(* here, only how long it takes.                                           *)
StorageIdle ==
    /\ st_state = "IDLE"
    /\ parser_ready' = TRUE
    /\ \/ /\ parsed_pkts >= OffloadAfter
          /\ st_state' = "OFFLOAD" /\ UNCHANGED got
       \/ /\ parsed_pkts < OffloadAfter /\ parser_valid
          /\ st_state' = "HASHING"
          /\ got' = [msg |-> out, n |-> 1 - got.n]
       \/ /\ parsed_pkts < OffloadAfter /\ ~parser_valid
          /\ UNCHANGED <<st_state, got>>
    /\ UNCHANGED parsed_pkts

StorageHashing ==
    /\ st_state = "HASHING"
    /\ parser_ready' = FALSE
    /\ st_state' = IF qname_ready THEN "BUSY" ELSE "HASHING"
    /\ UNCHANGED <<parsed_pkts, got>>

StorageBusy ==
    /\ st_state = "BUSY"
    /\ \/ UNCHANGED <<st_state, parsed_pkts>>
       \/ st_state' = "IDLE" /\ parsed_pkts' = parsed_pkts + 1
    /\ UNCHANGED <<parser_ready, got>>

(* parser_ready stays high: a packet that comes now is not taken.          *)
StorageOffload ==
    /\ st_state = "OFFLOAD"
    /\ \/ UNCHANGED <<st_state, parsed_pkts>>
       \/ st_state' = "IDLE" /\ parsed_pkts' = 0
    /\ UNCHANGED <<parser_ready, got>>

StorageStep == StorageIdle \/ StorageHashing \/ StorageBusy \/ StorageOffload

Edge ==
    \E shown \in BOOLEAN :
       /\ Source(shown)
       /\ RxStep(Udp(shown), pkt_ready)
       /\ An!AnStep(dns_data, dns_valid, header.ip, parser_ready)
       /\ StorageStep
       /\ HashStep([i \in 0 .. QnameBytes - 1 |-> 0], parser_valid, TRUE)

(* The clock runs, a pause in the payload ends, and the storage machine    *)
(* gets back to IDLE.                                                      *)
Taking   == Edge /\ left' # left
Finished == Edge /\ st_state # "IDLE" /\ st_state' # st_state
IngressFairness ==
    WF_ingressVars(Edge) /\ SF_ingressVars(Taking) /\ WF_ingressVars(Finished)

IngressSpec == IngressInit /\ [][Edge]_ingressVars /\ IngressFairness

-----------------------------------------------------------------------------
(* The registers stay in their ranges; the parser only reaches states that *)
(* are implemented (the file names two more).                              *)
IngressTypeOK ==
    /\ rx_state \in {"IDLE", "READ_PKT", "READ_LAST"}
    /\ dns_data \in Register /\ data_count \in 0 .. MaxTokens + 1
    /\ an_state \in {"IDLE", "RD_HDR", "RD_QUESTION_NAME", "RD_QUESTION_NAME_SHIFT",
                     "RD_QUESTION_TYPE", "RD_QUESTION_CLASS", "RD_ANSWER", "RD_ANSWER_TYPE",
                     "RD_ANSWER_A", "RD_ANSWER_AAAA", "RD_ANSWER_CNAME",
                     "RD_ANSWER_CNAME_NAME", "RD_ANSWER_CNAME_SHIFT"}
    /\ pkt \in Register
    /\ {hdr_ready, tready, dns_valid, pkt_ready, parser_valid, parser_ready} \subseteq BOOLEAN
    /\ out.a_record \in 0 .. ACounter - 1 /\ out.a4_record \in 0 .. AAAACounter - 1
    /\ out.cname_record \in 0 .. CNAMECounter - 1

(* The datagram is on its way until it is taken or dropped.                *)
OnItsWay ==
    \/ offered \/ left # <<>> \/ rx_state # "IDLE" \/ dns_valid
    \/ an_state # "IDLE" \/ parser_valid

Pipe == INSTANCE PacketPipe
    WITH Packets <- Frames, Nobody <- NoFrame,
         inflight <- IF OnItsWay THEN frame ELSE NoFrame

(* Every complete DNS packet of the supported record types is taken by the *)
(* storage machine once, and what it takes is what was in that packet.     *)
DeliversAsSent == Pipe!PipeSpec

(* The storage machine may look at the registers for as long as            *)
(* parser_valid is high.                                                   *)
ResultHeld == [][parser_valid /\ parser_valid' => out' = out]_ingressVars

(* Whatever came is worked off: delivered, or dropped.                     *)
PacketLeaves == OnItsWay ~> ~OnItsWay

=============================================================================
