--------------------------- MODULE Ingress_proofs ---------------------------
(***************************************************************************)
(* The receive path between udp_ip_rx.v and storage.v: for every set of    *)
(* datagrams that fit the register, every pause in them, and every number  *)
(* of slots and range of the counters.                                     *)
(***************************************************************************)
EXTENDS Ingress, SequenceTheorems, TLAPS

-----------------------------------------------------------------------------
(* The receiver.                                                           *)

(* A payload in the register, with zeroes behind it.                       *)
Padded(s) == [i \in 1 .. MaxTokens |-> IF i <= Len(s) THEN s[i] ELSE Nul]

(* A register holds the first n tokens of a payload and nothing else.      *)
Holds(data, n, s) ==
    /\ n \in 0 .. Len(s)
    /\ \A i \in 1 .. MaxTokens : data[i] = IF i <= n THEN s[i] ELSE Nul

(* The tokens still to come are those behind the first n of a payload.     *)
Behind(rest, n, s) ==
    /\ Len(rest) = Len(s) - n
    /\ \A i \in 1 .. Len(rest) : rest[i] = s[n + i]

(* The source and the receiver hold one datagram between them.             *)
SourceInv ==
    /\ left \in Seq(Token)
    /\ offered => /\ frame \in Frames /\ left = Encode(frame)
                  /\ rx_state = "IDLE" /\ ~tready
    /\ rx_state = "IDLE" /\ tready => ~hdr_ready

ReceiveInv ==
    /\ rx_state # "IDLE" =>
          /\ frame \in Frames /\ header = HeaderOf(frame)
          /\ left # <<>>
    /\ rx_state = "READ_PKT" => tready
    /\ rx_state # "IDLE" /\ tready =>
          /\ data_count \in 1 .. Len(Encode(frame))
          /\ Holds(dns_data, data_count - 1, Encode(frame))
          /\ Behind(left, data_count - 1, Encode(frame))

-----------------------------------------------------------------------------
(* The step of the source and the receiver.                                *)

(* What the next token on the bus is, and what is behind it.               *)
LEMMA NextToken ==
    ASSUME left \in Seq(Token), left # <<>>
    PROVE  /\ Len(left) \in Nat \ {0}
           /\ Head(left) = left[1] /\ Head(left) \in Token
           /\ Tail(left) \in Seq(Token) /\ Len(Tail(left)) = Len(left) - 1
           /\ \A i \in 1 .. Len(left) - 1 : Tail(left)[i] = left[i + 1]
           /\ Len(left) # 1 => Tail(left) # <<>>
<1>1. Len(left) \in Nat \ {0}
  BY EmptySeq, LenProperties
<1>2. Tail(left) \in Seq(Token) /\ Len(Tail(left)) = Len(left) - 1
  BY HeadTailProperties
<1>3. Head(left) = left[1] /\ Head(left) \in Token
  BY HeadTailProperties
<1>4. \A i \in 1 .. Len(left) - 1 : Tail(left)[i] = left[i + 1]
  BY <1>2, HeadTailProperties
<1>5. Len(left) # 1 => Tail(left) # <<>>
  BY <1>1, <1>2, EmptySeq
<1> QED
  BY <1>1, <1>2, <1>3, <1>4, <1>5

(* The payload of a datagram is a sequence that fits the register.         *)
LEMMA PayloadFits ==
    ASSUME NEW f \in Frames
    PROVE  /\ Encode(f) \in Seq(Token) /\ Encode(f) # <<>>
           /\ Len(Encode(f)) \in 1 .. MaxTokens
           /\ HeaderOf(f).dns = f.dns /\ f.dns \in BOOLEAN
BY FramesAssumption, EmptySeq DEF HeaderOf

(* The registers of the receiver are in their ranges.                      *)
RxTypeOK ==
    /\ rx_state \in {"IDLE", "READ_PKT", "READ_LAST"}
    /\ dns_data \in Register /\ data_count \in 0 .. MaxTokens + 1
    /\ hdr_ready \in BOOLEAN /\ tready \in BOOLEAN /\ dns_valid \in BOOLEAN
RxInv == RxTypeOK /\ SourceInv /\ ReceiveInv /\ pkt_ready \in BOOLEAN

(* A header is taken: the reading of its payload begins.                   *)
LEMMA AcceptKeeps ==
    ASSUME RxInv, NEW shown \in BOOLEAN, Source(shown), RxAccept(Udp(shown), pkt_ready)
    PROVE  RxTypeOK' /\ SourceInv' /\ ReceiveInv' /\ (dns_valid' => dns_valid)
<1> USE DEF RxInv
<1>1. /\ offered /\ rx_state = "IDLE" /\ hdr_ready
      /\ rx_state' = "READ_PKT" /\ header' = HeaderOf(frame)
      /\ hdr_ready' = FALSE /\ tready' = TRUE /\ data_count' = 1 /\ dns_data' = Cleared
      /\ dns_valid' = Waiting(pkt_ready)
  BY DEF RxAccept, Udp, Clear
<1>2. /\ frame \in Frames /\ left = Encode(frame) /\ ~tready
  BY <1>1 DEF SourceInv
<1>3. frame' = frame /\ left' = left /\ ~offered'
  BY <1>1, <1>2 DEF Source, SourceOffers, SourceSends
<1>4. /\ Encode(frame) \in Seq(Token) /\ Encode(frame) # <<>>
      /\ Len(Encode(frame)) \in 1 .. MaxTokens
  BY <1>2, PayloadFits
<1>5. RxTypeOK'
  <2>1. dns_data' \in Register
    BY <1>1, TokenAssumption DEF Cleared, Register
  <2>2. dns_valid' \in BOOLEAN
    BY <1>1 DEF Waiting
  <2>3. hdr_ready' \in BOOLEAN /\ tready' \in BOOLEAN
    BY <1>1
  <2>4. data_count' \in 0 .. MaxTokens + 1
    BY <1>1, TokenAssumption
  <2> QED
    BY <1>1, <2>1, <2>2, <2>3, <2>4 DEF RxTypeOK
<1>6. SourceInv'
  BY <1>1, <1>2, <1>3, <1>4 DEF SourceInv
<1>7. ReceiveInv'
  <2>1. Holds(dns_data', 0, Encode(frame'))
    BY <1>1, <1>3, <1>4 DEF Holds, Cleared
  <2>2. Behind(left', 0, Encode(frame'))
    BY <1>2, <1>3, <1>4 DEF Behind
  <2> QED
    BY <1>1, <1>2, <1>3, <1>4, <2>1, <2>2 DEF ReceiveInv
<1> QED
  BY <1>1, <1>5, <1>6, <1>7 DEF Waiting

(* Between two payloads.                                                   *)
LEMMA IdleKeeps ==
    ASSUME RxInv, NEW shown \in BOOLEAN, Source(shown), RxIdle(Udp(shown), pkt_ready)
    PROVE  RxTypeOK' /\ SourceInv' /\ ReceiveInv' /\ (dns_valid' => dns_valid)
<1> USE DEF RxInv
<1>1. /\ rx_state = "IDLE" /\ ~(hdr_ready /\ offered)
      /\ rx_state' = "IDLE" /\ hdr_ready' = ~Waiting(pkt_ready) /\ tready' = FALSE
      /\ data_count' = 1 /\ dns_data' = Cleared /\ dns_valid' = Waiting(pkt_ready)
  BY DEF RxIdle, Udp, Clear
<1>2. RxTypeOK'
  <2>1. dns_data' \in Register
    BY <1>1, TokenAssumption DEF Cleared, Register
  <2>2. dns_valid' \in BOOLEAN
    BY <1>1 DEF Waiting
  <2>3. hdr_ready' \in BOOLEAN /\ tready' \in BOOLEAN
    BY <1>1
  <2>4. data_count' \in 0 .. MaxTokens + 1
    BY <1>1, TokenAssumption
  <2> QED
    BY <1>1, <2>1, <2>2, <2>3, <2>4 DEF RxTypeOK
<1>3. SourceInv'
  <2>1. CASE SourceOffers
    BY <1>1, <2>1, PayloadFits DEF SourceOffers, SourceInv
  <2>2. CASE SourceSends(shown)
    <3>1. CASE tready /\ shown
      <4>1. left' = Tail(left) /\ left # <<>> /\ ~offered'
        BY <2>2, <3>1 DEF Source, SourceSends, SourceInv
      <4> QED
        BY <1>1, <4>1, NextToken DEF SourceInv
    <3>2. CASE ~(tready /\ shown)
      BY <1>1, <2>2, <3>2 DEF SourceSends, SourceInv
    <3> QED
      BY <3>1, <3>2
  <2> QED
    BY <2>1, <2>2 DEF Source
<1>4. ReceiveInv'
  BY <1>1 DEF ReceiveInv
<1> QED
  BY <1>1, <1>2, <1>3, <1>4 DEF Waiting

(* While a payload comes in, the source goes on with it.                   *)
LEMMA SourceGoesOn ==
    ASSUME RxInv, rx_state # "IDLE", NEW shown \in BOOLEAN, Source(shown)
    PROVE  /\ frame' = frame /\ ~offered /\ ~offered'
           /\ frame \in Frames /\ header = HeaderOf(frame) /\ left # <<>>
           /\ left' = IF tready /\ shown THEN Tail(left) ELSE left
BY DEF RxInv, SourceInv, ReceiveInv, Source, SourceOffers, SourceSends

(* The byte that is stored: the next of the payload if it is valid.        *)
LEMMA StoreNext ==
    ASSUME RxInv, rx_state # "IDLE", tready, NEW shown \in BOOLEAN, Source(shown),
           Store(Udp(shown))
    PROVE  /\ dns_data' \in Register
           /\ ~shown => /\ left' = left
                        /\ Holds(dns_data', data_count - 1, Encode(frame))
           /\ shown  => /\ left' = Tail(left)
                        /\ Holds(dns_data', data_count, Encode(frame))
                        /\ Behind(left', data_count, Encode(frame))
<1> USE DEF RxInv
<1> DEFINE e == Encode(frame)
           k == data_count
           b == IF shown THEN Head(left) ELSE Nul
<1>1. /\ frame' = frame /\ left # <<>> /\ frame \in Frames
      /\ left' = IF shown THEN Tail(left) ELSE left
  BY SourceGoesOn
<1>2. /\ left \in Seq(Token)
      /\ e \in Seq(Token) /\ Len(e) \in 1 .. MaxTokens /\ MaxTokens \in Nat
  BY <1>1, PayloadFits, TokenAssumption DEF SourceInv
<1>3. k \in 1 .. Len(e) /\ Holds(dns_data, k - 1, e) /\ Behind(left, k - 1, e)
  BY DEF ReceiveInv
<1>4. dns_data \in Register
  BY DEF RxTypeOK
<1>5. dns_data' = [dns_data EXCEPT ![k] = b]
  BY <1>2, <1>3 DEF Store, Udp
<1>6. /\ Len(left) \in Nat \ {0} /\ Head(left) = left[1] /\ Head(left) \in Token
      /\ Len(Tail(left)) = Len(left) - 1
      /\ \A i \in 1 .. Len(left) - 1 : Tail(left)[i] = left[i + 1]
  BY <1>1, <1>2, NextToken
<1>7. \A i \in 1 .. MaxTokens : dns_data'[i] = IF i = k THEN b ELSE dns_data[i]
  BY <1>4, <1>5 DEF Register
<1>8. dns_data' \in Register
  BY <1>4, <1>5, <1>6, TokenAssumption DEF Register
<1>9. ASSUME ~shown PROVE Holds(dns_data', k - 1, e)
  BY <1>2, <1>3, <1>7, <1>9 DEF Holds
<1>10. ASSUME shown PROVE Holds(dns_data', k, e) /\ Behind(left', k, e)
  <2>1. b = e[k]
    BY <1>2, <1>3, <1>6, <1>10 DEF Behind
  <2>2. Holds(dns_data', k, e)
    BY <1>2, <1>3, <1>7, <2>1 DEF Holds
  <2>3. Behind(left', k, e)
    BY <1>1, <1>2, <1>3, <1>6, <1>10 DEF Behind
  <2> QED
    BY <2>2, <2>3
<1> QED
  BY <1>1, <1>8, <1>9, <1>10

(* A byte of a payload, or a pause.                                        *)
LEMMA ReadKeeps ==
    ASSUME RxInv, NEW shown \in BOOLEAN, Source(shown), RxRead(Udp(shown), pkt_ready)
    PROVE  RxTypeOK' /\ SourceInv' /\ ReceiveInv' /\ (dns_valid' => dns_valid)
<1> USE DEF RxInv
<1> DEFINE e == Encode(frame)
           k == data_count
<1>1. /\ rx_state = "READ_PKT" /\ hdr_ready' = FALSE /\ tready' = TRUE /\ header' = header
      /\ Store(Udp(shown)) /\ tready
  BY DEF RxRead, ReceiveInv
<1>2. /\ frame' = frame /\ ~offered' /\ frame \in Frames
      /\ header = HeaderOf(frame) /\ left # <<>>
  BY <1>1, SourceGoesOn
<1>3. /\ left \in Seq(Token)
      /\ Len(left) \in Nat \ {0} /\ Tail(left) \in Seq(Token)
      /\ Len(Tail(left)) = Len(left) - 1
      /\ Len(left) # 1 => Tail(left) # <<>>
  BY <1>2, NextToken DEF SourceInv
<1>4. /\ k \in 1 .. Len(e) /\ Len(e) \in 1 .. MaxTokens /\ MaxTokens \in Nat
      /\ Holds(dns_data, k - 1, e) /\ Behind(left, k - 1, e)
  BY <1>1, <1>2, PayloadFits, TokenAssumption DEF ReceiveInv
<1>5. /\ dns_data' \in Register
      /\ ~shown => left' = left /\ Holds(dns_data', k - 1, e)
      /\ shown  => /\ left' = Tail(left)
                   /\ Holds(dns_data', k, e) /\ Behind(left', k, e)
  BY <1>1, StoreNext
<1>6. CASE ~shown
  <2>1. rx_state' = rx_state /\ data_count' = k /\ dns_valid' = Waiting(pkt_ready)
    BY <1>1, <1>6 DEF RxRead, Udp
  <2>2. RxTypeOK'
    <3>1. dns_valid' \in BOOLEAN
      BY <2>1 DEF Waiting
    <3>2. hdr_ready' \in BOOLEAN /\ tready' \in BOOLEAN
      BY <1>1
    <3>3. data_count' \in 0 .. MaxTokens + 1
      BY <1>4, <2>1
    <3> QED
      BY <1>1, <1>5, <2>1, <3>1, <3>2, <3>3 DEF RxTypeOK
  <2>3. SourceInv'
    BY <1>1, <1>2, <1>3, <1>5, <1>6, <2>1 DEF SourceInv
  <2>4. ReceiveInv'
    BY <1>1, <1>2, <1>3, <1>4, <1>5, <1>6, <2>1 DEF ReceiveInv
  <2> QED
    BY <2>1, <2>2, <2>3, <2>4 DEF Waiting
<1>7. CASE shown /\ Len(left) = 1
  <2>1. rx_state' = "IDLE" /\ dns_valid' = FALSE /\ data_count' = k + 1
    BY <1>1, <1>7 DEF RxRead, Udp
  <2>2. RxTypeOK'
    <3>1. dns_valid' \in BOOLEAN
      BY <2>1
    <3>2. hdr_ready' \in BOOLEAN /\ tready' \in BOOLEAN
      BY <1>1
    <3>3. data_count' \in 0 .. MaxTokens + 1
      BY <1>4, <2>1
    <3> QED
      BY <1>1, <1>5, <2>1, <3>1, <3>2, <3>3 DEF RxTypeOK
  <2>3. SourceInv'
    BY <1>1, <1>2, <1>3, <1>5, <1>7, <2>1 DEF SourceInv
  <2>4. ReceiveInv'
    BY <2>1 DEF ReceiveInv
  <2> QED
    BY <2>1, <2>2, <2>3, <2>4
<1>8. CASE shown /\ Len(left) # 1
  <2>1. /\ rx_state' \in {"READ_PKT", "READ_LAST"} /\ data_count' = k + 1
        /\ dns_valid' = Waiting(pkt_ready)
    BY <1>1, <1>8 DEF RxRead, Udp
  <2>2. k + 1 \in 1 .. Len(e)
    BY <1>3, <1>4, <1>8 DEF Behind
  <2>3. RxTypeOK'
    <3>1. dns_valid' \in BOOLEAN
      BY <2>1 DEF Waiting
    <3>2. hdr_ready' \in BOOLEAN /\ tready' \in BOOLEAN
      BY <1>1
    <3>3. data_count' \in 0 .. MaxTokens + 1
      BY <1>4, <2>1
    <3> QED
      BY <1>1, <1>5, <2>1, <3>1, <3>2, <3>3 DEF RxTypeOK
  <2>4. SourceInv'
    BY <1>1, <1>2, <1>3, <1>5, <1>8, <2>1 DEF SourceInv
  <2>5. ReceiveInv'
    <3>1. left' # <<>>
      BY <1>3, <1>5, <1>8
    <3>2. data_count' - 1 = k
      BY <1>4, <2>1
    <3> QED
      BY <1>1, <1>2, <1>5, <1>8, <2>1, <2>2, <3>1, <3>2 DEF ReceiveInv
  <2> QED
    BY <2>1, <2>3, <2>4, <2>5 DEF Waiting
<1> QED
  BY <1>6, <1>7, <1>8

(* The last byte: if it is there, the datagram is shown.                   *)
LEMMA LastKeeps ==
    ASSUME RxInv, NEW shown \in BOOLEAN, Source(shown), RxLast(Udp(shown), pkt_ready)
    PROVE  /\ RxTypeOK' /\ SourceInv' /\ ReceiveInv'
           /\ dns_valid' /\ ~dns_valid => /\ dns_data' = Padded(Encode(frame)) /\ frame.dns
                                          /\ frame' = frame
           /\ dns_valid' => dns_valid \/ rx_state' = "IDLE"
           /\ ~offered'
<1> USE DEF RxInv
<1> DEFINE e == Encode(frame)
           k == data_count
           complete == tready /\ shown /\ Len(left) = 1
<1>1. /\ rx_state = "READ_LAST" /\ Store(Udp(shown)) /\ tready' = FALSE
      /\ header' = header /\ data_count' = k
      /\ hdr_ready' = (complete /\ ~Waiting(pkt_ready))
      /\ dns_valid' = IF complete THEN header.dns ELSE Waiting(pkt_ready)
      /\ rx_state' = IF tready /\ shown /\ Len(left) # 1 THEN "READ_LAST" ELSE "IDLE"
  BY DEF RxLast, Udp
<1>2. /\ frame' = frame /\ ~offered' /\ frame \in Frames
      /\ header = HeaderOf(frame) /\ left # <<>>
      /\ left' = IF tready /\ shown THEN Tail(left) ELSE left
  BY <1>1, SourceGoesOn
<1>3. /\ left \in Seq(Token)
      /\ Len(left) \in Nat \ {0} /\ Tail(left) \in Seq(Token)
      /\ Len(left) # 1 => Tail(left) # <<>>
  BY <1>2, NextToken DEF SourceInv
<1>4. header.dns = frame.dns
  BY <1>2 DEF HeaderOf
<1>5. dns_data' \in Register
  <2>1. CASE tready
    BY <1>1, <2>1, StoreNext
  <2>2. CASE ~tready
    <3>1. Udp(shown).tdata \in Token
      BY <1>2, <1>3, NextToken, TokenAssumption DEF Udp, Source
    <3> QED
      BY <1>1, <3>1 DEF Store, RxTypeOK, Register
  <2> QED
    BY <2>1, <2>2
<1>6. SourceInv'
  BY <1>1, <1>2, <1>3 DEF SourceInv
<1>7. ReceiveInv'
  BY <1>1, <1>2, <1>3 DEF ReceiveInv
<1>8. ASSUME complete PROVE dns_data' = Padded(e)
  <2>1. /\ k \in 1 .. Len(e) /\ Len(e) \in 1 .. MaxTokens /\ MaxTokens \in Nat
        /\ Len(left) = Len(e) - (k - 1)
    BY <1>1, <1>2, <1>8, PayloadFits, TokenAssumption DEF ReceiveInv, Behind
  <2>2. k = Len(e)
    <3>1. 1 = Len(e) - (k - 1)
      BY <1>8, <2>1
    <3>2. k \in Int /\ Len(e) \in Int
      BY <2>1
    <3>3. \A m, n \in Int : 1 = m - (n - 1) => n = m
      OBVIOUS
    <3> HIDE DEF e, k
    <3> QED
      BY <3>1, <3>2, <3>3
  <2>3. Holds(dns_data', k, e)
    BY <1>1, <1>8, StoreNext
  <2> QED
    BY <1>5, <2>1, <2>2, <2>3 DEF Holds, Padded, Register
<1>9. complete \in BOOLEAN /\ header.dns \in BOOLEAN
  BY <1>2, PayloadFits DEF RxTypeOK
<1>10. dns_valid' \in BOOLEAN /\ hdr_ready' \in BOOLEAN /\ tready' \in BOOLEAN
  BY <1>1, <1>9 DEF Waiting
<1>11. RxTypeOK'
  BY <1>1, <1>5, <1>10 DEF RxTypeOK
<1>12. dns_valid' /\ ~dns_valid =>
          /\ dns_data' = Padded(Encode(frame)) /\ frame.dns /\ frame' = frame
  <2> SUFFICES ASSUME dns_valid', ~dns_valid PROVE complete /\ frame.dns
    BY <1>2, <1>8
  <2>1. CASE complete
    BY <1>1, <1>4, <2>1
  <2>2. CASE ~complete
    BY <1>1, <2>2 DEF Waiting
  <2> QED
    BY <2>1, <2>2
<1>13. dns_valid' => dns_valid \/ rx_state' = "IDLE"
  <2>1. CASE complete
    BY <1>1, <2>1
  <2>2. CASE ~complete
    BY <1>1, <2>2 DEF Waiting
  <2> QED
    BY <2>1, <2>2
<1> QED
  BY <1>2, <1>6, <1>7, <1>11, <1>12, <1>13

(* An edge of the source and the receiver.                                 *)
LEMMA ReceiverKeeps ==
    ASSUME RxInv, NEW shown \in BOOLEAN, Source(shown), RxStep(Udp(shown), pkt_ready)
    PROVE  /\ RxTypeOK' /\ SourceInv' /\ ReceiveInv'
           /\ dns_valid' /\ ~dns_valid =>
                 /\ dns_data' = Padded(Encode(frame)) /\ frame.dns
                 /\ rx_state' = "IDLE" /\ ~offered' /\ frame' = frame
<1>1. CASE RxAccept(Udp(shown), pkt_ready)
  BY <1>1, AcceptKeeps
<1>2. CASE RxIdle(Udp(shown), pkt_ready)
  BY <1>2, IdleKeeps
<1>3. CASE RxRead(Udp(shown), pkt_ready)
  BY <1>3, ReadKeeps
<1>4. CASE RxLast(Udp(shown), pkt_ready)
  BY <1>4, LastKeeps
<1> QED
  BY <1>1, <1>2, <1>3, <1>4 DEF RxStep

-----------------------------------------------------------------------------
(* The analyzer.                                                           *)

(* The registers of the analyzer are in their ranges.                      *)
AnTypeOK ==
    /\ an_state \in {"IDLE", "RD_HDR", "RD_QUESTION_NAME", "RD_QUESTION_NAME_SHIFT",
                     "RD_QUESTION_TYPE", "RD_QUESTION_CLASS", "RD_ANSWER", "RD_ANSWER_TYPE",
                     "RD_ANSWER_A", "RD_ANSWER_AAAA", "RD_ANSWER_CNAME",
                     "RD_ANSWER_CNAME_NAME", "RD_ANSWER_CNAME_SHIFT"}
    /\ pkt \in Register
    /\ pkt_ready \in BOOLEAN /\ parser_valid \in BOOLEAN
CountersOK ==
    /\ out.a_record \in 0 .. ACounter - 1 /\ out.a4_record \in 0 .. AAAACounter - 1
    /\ out.cname_record \in 0 .. CNAMECounter - 1
    /\ {"a_record", "a4_record", "cname_record"} \subseteq DOMAIN out

(* A shift leaves tokens, and zeroes, in the register.                     *)
LEMMA ShiftKeeps ==
    ASSUME pkt \in Register, NEW n \in Nat, An!Shift(n)
    PROVE  pkt' \in Register
<1>1. \A i \in 1 .. MaxTokens : i + n <= MaxTokens => i + n \in 1 .. MaxTokens
  BY TokenAssumption
<1> QED
  BY <1>1, TokenAssumption DEF An!Shift, Register

(* A counter wraps within its range.                                       *)
LEMMA CounterWraps ==
    ASSUME NEW m \in Nat \ {0}, NEW c \in 0 .. m - 1
    PROVE  (c + 1) % m \in 0 .. m - 1
OBVIOUS

(* An edge of the analyzer.  A result comes up when an answer ends, and    *)
(* the registers of the result are only changed for a packet.              *)
LEMMA AnalyzerKeeps ==
    ASSUME AnTypeOK, CountersOK, parser_ready \in BOOLEAN, dns_data \in Register,
           NEW ip, An!AnStep(dns_data, dns_valid, ip, parser_ready)
    PROVE  /\ AnTypeOK' /\ CountersOK'
           /\ an_state = "IDLE" => /\ parser_valid' => parser_valid
                                   /\ ~dns_valid => /\ an_state' = "IDLE" /\ out' = out
                                                    /\ pkt_ready' = ~An!Untaken(parser_ready)
                                                    /\ parser_valid' = An!Untaken(parser_ready)
                                   /\ dns_valid => an_state' = "RD_HDR" /\ pkt' = dns_data
           /\ an_state # "IDLE" \/ dns_valid => ~pkt_ready'
           /\ parser_valid' => parser_valid \/ an_state' = "IDLE"
<1> DEFINE V == dns_valid
           R == parser_ready
           Result == /\ AnTypeOK' /\ CountersOK'
                     /\ ~pkt_ready' /\ an_state # "IDLE"
                     /\ parser_valid' => parser_valid \/ an_state' = "IDLE"
<1>c. {ACounter, AAAACounter, CNAMECounter} \subseteq Nat \ {0}
  BY ParserAssumption
<1>1. CASE An!Capture(dns_data, V, R)
  <2>1. /\ an_state = "IDLE" /\ V /\ an_state' = "RD_HDR" /\ pkt' = dns_data
        /\ pkt_ready' = FALSE /\ parser_valid' = An!Untaken(R)
    BY <1>1 DEF An!Capture
  <2>2. parser_valid' \in BOOLEAN /\ (parser_valid' => parser_valid)
    BY <2>1 DEF An!Untaken, AnTypeOK
  <2>3. AnTypeOK'
    BY <2>1, <2>2 DEF AnTypeOK
  <2>4. CountersOK'
    BY <1>1, <1>c DEF An!Capture, An!Blank, CountersOK
  <2> QED
    BY <2>1, <2>2, <2>3, <2>4
<1>2. CASE An!Idle(V, R)
  <2>1. /\ an_state = "IDLE" /\ ~V /\ an_state' = an_state /\ pkt' = pkt /\ out' = out
        /\ pkt_ready' = ~An!Untaken(R) /\ parser_valid' = An!Untaken(R)
    BY <1>2 DEF An!Idle
  <2>2. /\ pkt_ready' \in BOOLEAN /\ parser_valid' \in BOOLEAN
        /\ parser_valid' => parser_valid
    BY <2>1 DEF An!Untaken, AnTypeOK
  <2>3. AnTypeOK'
    BY <2>1, <2>2 DEF AnTypeOK
  <2>4. CountersOK'
    BY <2>1 DEF CountersOK
  <2> QED
    BY <2>1, <2>2, <2>3, <2>4
<1>3. ASSUME An!RdHdr(ip, R) \/ An!RdQuestionName(R) \/ An!RdQuestionNameShift(R)
             \/ An!RdQuestionType(R) \/ An!RdQuestionClass(R)
      PROVE  Result
  <2>1. /\ an_state # "IDLE" /\ pkt' \in Register /\ pkt_ready' = FALSE
        /\ parser_valid' \in BOOLEAN /\ (parser_valid' => parser_valid)
    <3>1. CASE An!RdHdr(ip, R)
      <4>1. pkt' \in Register
        BY <3>1, ShiftKeeps DEF An!RdHdr, An!Parse, AnTypeOK
      <4> QED
        BY <3>1, <4>1 DEF An!RdHdr, An!Parse, An!Untaken, AnTypeOK
    <3>2. CASE An!RdQuestionName(R)
      <4>1. pkt' \in Register
        BY <3>2, ShiftKeeps DEF An!RdQuestionName, An!Parse, AnTypeOK
      <4> QED
        BY <3>2, <4>1 DEF An!RdQuestionName, An!Parse, An!Untaken, AnTypeOK
    <3>3. CASE An!RdQuestionNameShift(R)
      <4>1. pkt' \in Register
        BY <3>3, ShiftKeeps DEF An!RdQuestionNameShift, An!Parse, AnTypeOK
      <4> QED
        BY <3>3, <4>1 DEF An!RdQuestionNameShift, An!Parse, An!Untaken, AnTypeOK
    <3>4. CASE An!RdQuestionType(R)
      <4>1. pkt' \in Register
        BY <3>4, ShiftKeeps DEF An!RdQuestionType, An!Parse, AnTypeOK
      <4> QED
        BY <3>4, <4>1 DEF An!RdQuestionType, An!Parse, An!Untaken, AnTypeOK
    <3>5. CASE An!RdQuestionClass(R)
      <4>1. pkt' \in Register
        BY <3>5, ShiftKeeps DEF An!RdQuestionClass, An!Parse, AnTypeOK
      <4> QED
        BY <3>5, <4>1 DEF An!RdQuestionClass, An!Parse, An!Untaken, AnTypeOK
    <3> QED
      BY <1>3, <3>1, <3>2, <3>3, <3>4, <3>5
  <2>2. an_state' \in {"RD_HDR", "RD_QUESTION_NAME", "RD_QUESTION_NAME_SHIFT",
                       "RD_QUESTION_TYPE", "RD_QUESTION_CLASS", "RD_ANSWER"}
    BY <1>3 DEF An!RdHdr, An!RdQuestionName, An!RdQuestionNameShift,
       An!RdQuestionType, An!RdQuestionClass, An!Parse
  <2>3. CountersOK'
    BY <1>3 DEF CountersOK, An!RdHdr, An!RdQuestionName, An!RdQuestionNameShift,
       An!RdQuestionType, An!RdQuestionClass
  <2> QED
    BY <2>1, <2>2, <2>3 DEF AnTypeOK
<1>4. ASSUME An!RdAnswer(R) PROVE Result
  <2>1. CountersOK'
    BY <1>4 DEF An!RdAnswer, CountersOK
  <2>2. CASE An!Top = "ptr"
    <3>1. An!Parse("RD_ANSWER", 1, "RD_ANSWER_TYPE", R)
      BY <1>4, <2>2 DEF An!RdAnswer
    <3>2. pkt' \in Register
      BY <3>1, ShiftKeeps DEF An!Parse, AnTypeOK
    <3>3. /\ an_state # "IDLE" /\ an_state' = "RD_ANSWER_TYPE" /\ pkt_ready' = FALSE
          /\ parser_valid' \in BOOLEAN /\ (parser_valid' => parser_valid)
      BY <3>1 DEF An!Parse, An!Untaken, AnTypeOK
    <3> QED
      BY <2>1, <3>2, <3>3 DEF AnTypeOK
  <2>3. CASE An!Top # "ptr"
    <3>1. /\ an_state = "RD_ANSWER" /\ an_state' = "IDLE" /\ parser_valid' = TRUE
          /\ pkt_ready' = FALSE /\ An!Shift(1)
      BY <1>4, <2>3 DEF An!RdAnswer
    <3>2. pkt' \in Register
      BY <3>1, ShiftKeeps DEF AnTypeOK
    <3> QED
      BY <2>1, <3>1, <3>2 DEF AnTypeOK
  <2> QED
    BY <2>2, <2>3
<1>5. ASSUME An!RdAnswerType(R) \/ An!RdAnswerCName(R) PROVE Result
  <2>1. /\ an_state # "IDLE" /\ pkt' \in Register /\ pkt_ready' = FALSE
        /\ parser_valid' \in BOOLEAN /\ (parser_valid' => parser_valid)
    <3>1. CASE An!RdAnswerType(R)
      <4>1. pkt' \in Register
        BY <3>1, ShiftKeeps DEF An!RdAnswerType, An!Parse, AnTypeOK
      <4> QED
        BY <3>1, <4>1 DEF An!RdAnswerType, An!Parse, An!Untaken, AnTypeOK
    <3>2. CASE An!RdAnswerCName(R)
      <4>1. pkt' \in Register
        BY <3>2, ShiftKeeps DEF An!RdAnswerCName, An!Parse, AnTypeOK
      <4> QED
        BY <3>2, <4>1 DEF An!RdAnswerCName, An!Parse, An!Untaken, AnTypeOK
    <3> QED
      BY <1>5, <3>1, <3>2
  <2>2. an_state' \in {"IDLE", "RD_ANSWER_A", "RD_ANSWER_AAAA", "RD_ANSWER_CNAME",
                       "RD_ANSWER_CNAME_NAME"}
    BY <1>5 DEF An!RdAnswerType, An!RdAnswerCName, An!Parse
  <2>3. CountersOK'
    BY <1>5 DEF CountersOK, An!RdAnswerType, An!RdAnswerCName
  <2> QED
    BY <2>1, <2>2, <2>3 DEF AnTypeOK
<1>6. ASSUME An!RdAnswerA(R) \/ An!RdAnswerAAAA(R) \/ An!RdAnswerCNameName(R)
             \/ An!RdAnswerCNameShift(R)
      PROVE  Result
  <2>1. /\ an_state # "IDLE" /\ pkt' \in Register /\ pkt_ready' = FALSE
        /\ parser_valid' \in BOOLEAN /\ (parser_valid' => parser_valid)
    <3>1. CASE An!RdAnswerA(R)
      <4>1. pkt' \in Register
        BY <3>1, ShiftKeeps DEF An!RdAnswerA, An!Parse, AnTypeOK
      <4> QED
        BY <3>1, <4>1 DEF An!RdAnswerA, An!Parse, An!Untaken, AnTypeOK
    <3>2. CASE An!RdAnswerAAAA(R)
      <4>1. pkt' \in Register
        BY <3>2, ShiftKeeps DEF An!RdAnswerAAAA, An!Parse, AnTypeOK
      <4> QED
        BY <3>2, <4>1 DEF An!RdAnswerAAAA, An!Parse, An!Untaken, AnTypeOK
    <3>3. CASE An!RdAnswerCNameName(R)
      <4>1. pkt' \in Register
        BY <3>3, ShiftKeeps DEF An!RdAnswerCNameName, An!Parse, AnTypeOK
      <4> QED
        BY <3>3, <4>1 DEF An!RdAnswerCNameName, An!Parse, An!Untaken, AnTypeOK
    <3>4. CASE An!RdAnswerCNameShift(R)
      <4>1. pkt' \in Register
        BY <3>4, ShiftKeeps DEF An!RdAnswerCNameShift, An!Parse, AnTypeOK
      <4> QED
        BY <3>4, <4>1 DEF An!RdAnswerCNameShift, An!Parse, An!Untaken, AnTypeOK
    <3> QED
      BY <1>6, <3>1, <3>2, <3>3, <3>4
  <2>2. an_state' \in {"RD_ANSWER", "RD_ANSWER_CNAME_NAME", "RD_ANSWER_CNAME_SHIFT"}
    BY <1>6 DEF An!RdAnswerA, An!RdAnswerAAAA, An!RdAnswerCNameName,
       An!RdAnswerCNameShift, An!Parse
  <2>3. /\ (out.a_record + 1) % ACounter \in 0 .. ACounter - 1
        /\ (out.a4_record + 1) % AAAACounter \in 0 .. AAAACounter - 1
        /\ (out.cname_record + 1) % CNAMECounter \in 0 .. CNAMECounter - 1
    BY <1>c, CounterWraps DEF CountersOK
  <2>4. CountersOK'
    <3>1. CASE An!RdAnswerA(R)
      BY <2>3, <3>1 DEF An!RdAnswerA, CountersOK
    <3>2. CASE An!RdAnswerAAAA(R)
      BY <2>3, <3>2 DEF An!RdAnswerAAAA, CountersOK
    <3>3. CASE An!RdAnswerCNameName(R)
      BY <2>3, <3>3 DEF An!RdAnswerCNameName, CountersOK
    <3>4. CASE An!RdAnswerCNameShift(R)
      BY <2>3, <3>4 DEF An!RdAnswerCNameShift, CountersOK
    <3> QED
      BY <1>6, <3>1, <3>2, <3>3, <3>4
  <2> QED
    BY <2>1, <2>2, <2>4 DEF AnTypeOK
<1>7. CASE ~An!Capture(dns_data, V, R) /\ ~An!Idle(V, R)
  <2>1. Result
    BY <1>3, <1>4, <1>5, <1>6, <1>7 DEF An!AnStep
  <2> QED
    BY <2>1
<1> QED
  BY <1>1, <1>2, <1>7

-----------------------------------------------------------------------------
(* The path as a whole, whatever the source waits for.                     *)

PathInv ==
    /\ RxTypeOK /\ AnTypeOK /\ CountersOK /\ parser_ready \in BOOLEAN
    /\ SourceInv /\ ReceiveInv

(* The registers start in their ranges, with nothing on its way.           *)
LEMMA PathInit == ASSUME IngressInit PROVE PathInv
<1> USE DEF IngressInit
<1>1. RxTypeOK
  <2>1. dns_data \in Register
    BY TokenAssumption DEF RxInit, Cleared, Register
  <2>2. data_count \in 0 .. MaxTokens + 1
    BY TokenAssumption DEF RxInit
  <2>3. hdr_ready \in BOOLEAN /\ tready \in BOOLEAN /\ dns_valid \in BOOLEAN
    BY DEF RxInit
  <2> QED
    BY <2>1, <2>2, <2>3 DEF RxInit, RxTypeOK
<1>2. AnTypeOK
  BY TokenAssumption DEF An!AnInit, AnTypeOK, Register
<1>3. CountersOK
  BY ParserAssumption DEF An!AnInit, An!Blank, CountersOK
<1>4. SourceInv /\ ReceiveInv
  BY DEF RxInit, SourceInv, ReceiveInv
<1> QED
  BY <1>1, <1>2, <1>3, <1>4 DEF PathInv

(* What the receiver and the analyzer do at an edge.                       *)
LEMMA EdgeParts ==
    ASSUME PathInv, Edge
    PROVE  /\ PathInv'
           /\ dns_valid' /\ ~dns_valid =>
                 /\ dns_data' = Padded(Encode(frame)) /\ frame.dns
                 /\ rx_state' = "IDLE" /\ ~offered' /\ frame' = frame
           /\ an_state = "IDLE" => /\ parser_valid' => parser_valid
                                   /\ ~dns_valid => /\ an_state' = "IDLE" /\ out' = out
                                                    /\ pkt_ready' = ~An!Untaken(parser_ready)
                                                    /\ parser_valid' = An!Untaken(parser_ready)
                                   /\ dns_valid => an_state' = "RD_HDR" /\ pkt' = dns_data
           /\ an_state # "IDLE" \/ dns_valid => ~pkt_ready'
           /\ parser_valid' => parser_valid \/ an_state' = "IDLE"
<1>1. PICK shown \in BOOLEAN : /\ Source(shown)
                               /\ RxStep(Udp(shown), pkt_ready)
                               /\ An!AnStep(dns_data, dns_valid, header.ip, parser_ready)
                               /\ StorageStep
  BY DEF Edge
<1>2. RxInv
  BY DEF PathInv, RxInv, AnTypeOK
<1>3. AnTypeOK /\ CountersOK /\ parser_ready \in BOOLEAN /\ dns_data \in Register
  BY DEF PathInv, RxTypeOK
<1>4. parser_ready' \in BOOLEAN
  BY <1>1, <1>3
     DEF StorageStep, StorageIdle, StorageHashing, StorageBusy, StorageOffload
<1>5. /\ RxTypeOK' /\ SourceInv' /\ ReceiveInv'
      /\ dns_valid' /\ ~dns_valid =>
            /\ dns_data' = Padded(Encode(frame)) /\ frame.dns
            /\ rx_state' = "IDLE" /\ ~offered' /\ frame' = frame
  BY <1>1, <1>2, ReceiverKeeps
<1>6. /\ AnTypeOK' /\ CountersOK'
      /\ an_state = "IDLE" => /\ parser_valid' => parser_valid
                              /\ ~dns_valid => /\ an_state' = "IDLE" /\ out' = out
                                               /\ pkt_ready' = ~An!Untaken(parser_ready)
                                               /\ parser_valid' = An!Untaken(parser_ready)
                              /\ dns_valid => an_state' = "RD_HDR" /\ pkt' = dns_data
      /\ an_state # "IDLE" \/ dns_valid => ~pkt_ready'
      /\ parser_valid' => parser_valid \/ an_state' = "IDLE"
  BY <1>1, <1>3, AnalyzerKeeps
<1> QED
  BY <1>4, <1>5, <1>6 DEF PathInv

(* The invariant of the path is kept by every step.                        *)
LEMMA PathStep == ASSUME PathInv, [Edge]_ingressVars PROVE PathInv'
<1>1. CASE UNCHANGED ingressVars
  BY <1>1
     DEF ingressVars, rxVars, An!anVars, sourceVars, storageVars, PathInv,
         RxTypeOK,
     AnTypeOK, CountersOK, SourceInv, ReceiveInv, Holds, Behind
<1> QED
  BY <1>1, EdgeParts

(* The invariant of the path holds in every reachable state.               *)
THEOREM PathInvariant == IngressSpec => []PathInv
BY PathInit, PathStep, PTL DEF IngressSpec

(* The registers of dns_ip_rx.v and analyzer.v stay in their ranges, the   *)
(* parser only reaches states that are implemented, and the counters wrap  *)
(* within theirs.                                                          *)
THEOREM IngressTypeCorrect == IngressSpec => []IngressTypeOK
<1>1. PathInv => IngressTypeOK
  <2> SUFFICES ASSUME PathInv PROVE IngressTypeOK
    OBVIOUS
  <2>1. {hdr_ready, tready, dns_valid, pkt_ready, parser_valid, parser_ready} \subseteq BOOLEAN
    BY DEF PathInv, RxTypeOK, AnTypeOK
  <2> QED
    BY <2>1 DEF PathInv, RxTypeOK, AnTypeOK, CountersOK, IngressTypeOK
<1> QED
  BY <1>1, PathInvariant, PTL

(* When the receiver shows a datagram it is whole, and it is one of DNS.   *)
ReceivedWhole ==
    [][~dns_valid /\ dns_valid' => /\ dns_data' = Padded(Encode(frame))
                                   /\ frame.dns]_ingressVars

(* The receiver (dns_ip_rx.v) puts together the payload that was sent,     *)
(* byte by byte and with any pauses, and drops what is not of DNS; also    *)
(* when datagrams come without waiting for the pipeline.                   *)
THEOREM ReceivesWhole == IngressSpec => ReceivedWhole
<1>1. PathInv /\ [Edge]_ingressVars =>
         [~dns_valid /\ dns_valid' => dns_data' = Padded(Encode(frame)) /\ frame.dns]_ingressVars
  BY EdgeParts
<1> QED
  BY <1>1, PathInvariant, PTL DEF IngressSpec, ReceivedWhole

-----------------------------------------------------------------------------
(* One datagram at a time.                                                 *)

(* One datagram or result at a time, where the next datagram waits for the *)
(* pipeline to be empty.                                                   *)
OneInv ==
    /\ dns_valid => /\ rx_state = "IDLE" /\ ~offered
                    /\ dns_data = Padded(Encode(frame))
    /\ an_state # "IDLE" \/ parser_valid \/ ~pkt_ready =>
          rx_state = "IDLE" /\ ~offered /\ ~dns_valid
    /\ parser_valid => an_state = "IDLE"
    /\ pkt_ready => an_state = "IDLE" /\ ~parser_valid

(* There is nothing on its way at the start.                               *)
LEMMA OneInit == ASSUME IngressInit PROVE OneInv
BY DEF IngressInit, RxInit, An!AnInit, OneInv

(* A datagram is let in when nothing is on its way, and passes from the    *)
(* source to the receiver to the analyzer to the result.                   *)
LEMMA OneStep ==
    ASSUME NextAfter # "anytime", PathInv, OneInv, Edge
    PROVE  OneInv'
<1>1. PICK shown \in BOOLEAN : /\ Source(shown)
                               /\ RxStep(Udp(shown), pkt_ready)
  BY DEF Edge
<1>2. ASSUME ~Empty, ~offered PROVE ~offered'
  BY <1>1, <1>2 DEF Source, SourceOffers, SourceSends, Room
<1>3. ASSUME rx_state = "IDLE" PROVE dns_valid' = Waiting(pkt_ready)
  BY <1>1, <1>3 DEF RxStep, RxAccept, RxIdle, RxRead, RxLast
<1>4. ASSUME rx_state = "IDLE", ~offered PROVE rx_state' = "IDLE"
  BY <1>1, <1>4 DEF RxStep, RxAccept, RxIdle, RxRead, RxLast, Udp
<1>5. dns_valid => pkt_ready /\ an_state = "IDLE" /\ rx_state = "IDLE" /\ ~offered
  BY DEF OneInv
<1>6. an_state # "IDLE" \/ parser_valid =>
         ~pkt_ready /\ rx_state = "IDLE" /\ ~offered /\ ~dns_valid
  BY DEF OneInv
<1>7. ASSUME an_state # "IDLE" \/ parser_valid \/ dns_valid
      PROVE  rx_state' = "IDLE" /\ ~offered' /\ ~dns_valid'
  <2>1. rx_state = "IDLE" /\ ~offered /\ ~Empty /\ ~Waiting(pkt_ready)
    BY <1>5, <1>6, <1>7 DEF Empty, Waiting
  <2> QED
    BY <1>2, <1>3, <1>4, <2>1
<1>8. dns_valid' => /\ rx_state' = "IDLE" /\ ~offered'
                    /\ dns_data' = Padded(Encode(frame'))
  BY <1>7, EdgeParts
<1>9. an_state' # "IDLE" \/ parser_valid' \/ ~pkt_ready' =>
         rx_state' = "IDLE" /\ ~offered' /\ ~dns_valid'
  <2>1. CASE an_state # "IDLE" \/ parser_valid \/ dns_valid
    BY <1>7, <2>1
  <2>2. CASE an_state = "IDLE" /\ ~parser_valid /\ ~dns_valid
    BY <2>2, EdgeParts DEF An!Untaken
  <2> QED
    BY <2>1, <2>2
<1>10. parser_valid' => an_state' = "IDLE"
  BY <1>6, EdgeParts DEF OneInv
<1>11. pkt_ready' => an_state' = "IDLE" /\ ~parser_valid'
  BY EdgeParts
<1> QED
  BY <1>8, <1>9, <1>10, <1>11 DEF OneInv

(* With a source that waits, there is one datagram or result at a time.    *)
THEOREM OneAtATime == ASSUME NextAfter # "anytime" PROVE IngressSpec => []OneInv
<1>1. PathInv /\ OneInv /\ [Edge]_ingressVars => OneInv'
  <2> SUFFICES ASSUME PathInv, OneInv, [Edge]_ingressVars PROVE OneInv'
    OBVIOUS
  <2>1. CASE UNCHANGED ingressVars
    BY <2>1 DEF ingressVars, rxVars, An!anVars, sourceVars, storageVars, OneInv
  <2> QED
    BY <2>1, OneStep
<1> QED
  BY <1>1, OneInit, PathInvariant, PTL DEF IngressSpec

(* The registers of a result do not change while parser_valid is high      *)
(* (the storage machine reads the analyzer's own registers, there is no    *)
(* copy), if the next datagram waits for the pipeline.                     *)
THEOREM ResultsHeld == ASSUME NextAfter # "anytime" PROVE IngressSpec => ResultHeld
<1>1. PathInv /\ OneInv /\ [Edge]_ingressVars =>
         [parser_valid /\ parser_valid' => out' = out]_ingressVars
  BY EdgeParts DEF OneInv
<1> QED
  BY <1>1, PathInvariant, OneAtATime, PTL DEF IngressSpec, ResultHeld

(* What the analyzer takes is the datagram that was sent.                  *)
CapturedWhole ==
    [][an_state = "IDLE" /\ an_state' # "IDLE" => pkt' = Padded(Encode(frame))]_ingressVars

(* The analyzer takes each datagram whole: the receiver clears its         *)
(* register at every edge of IDLE (dns_ip_rx.v), but the analyzer is ready *)
(* by then.                                                                *)
THEOREM CapturesWhole == ASSUME NextAfter # "anytime" PROVE IngressSpec => CapturedWhole
<1>1. PathInv /\ OneInv /\ [Edge]_ingressVars =>
         [an_state = "IDLE" /\ an_state' # "IDLE" => pkt' = Padded(Encode(frame))]_ingressVars
  BY EdgeParts DEF OneInv
<1> QED
  BY <1>1, PathInvariant, OneAtATime, PTL DEF IngressSpec, CapturedWhole

=============================================================================
