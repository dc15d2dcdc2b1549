--------------------------- MODULE Fabric_proofs ---------------------------
(***************************************************************************)
(* The bench of the AXI stream library is a switch of frames: for every    *)
(* number of ports, every width of tid and tdest, and all streams of whole *)
(* frames, each step of its registers is one of FrameSwitch, or none.      *)
(*                                                                         *)
(* The words on the way through the chain are a row that is put together   *)
(* from registers.  An edge turns each pair of registers into another one  *)
(* that holds the same words with one more behind them (Queue), so that    *)
(* the row gives its first word away or not and gets the word of the mux.  *)
(***************************************************************************)
EXTENDS Fabric, WellFoundedInduction, SequenceTheorems, TLAPS

-----------------------------------------------------------------------------
(* The ports: every slice is behind the port with its number, for every    *)
(* number of them.                                                         *)
LEMMA Ports ==
    /\ S_COUNT \in Nat \ {0, 1} /\ M_COUNT \in Nat \ {0, 1} /\ SPorts \subseteq Nat
    /\ MPorts \subseteq Nat /\ Monitor \notin MPorts /\ NoGrant \notin SPorts
    /\ CPorts = SPorts /\ OPorts = MPorts /\ ToMonitor \in BPorts /\ ToDemux \in BPorts
    /\ \A i \in SPorts :
          /\ MuxPort[i] = i /\ MuxSlice[i] = i /\ ChoicePort[i] = i
          /\ InPort[i] = i /\ InSlice[i] = i
    /\ \A n \in MPorts :
          DemuxPort[n] = n /\ DemuxSlice[n] = n /\ OutPort[n] = n /\ OutSlice[n] = n
    /\ \A i \in BPorts : CastPort[i] = i /\ CastSlice[i] = i
<1>1. /\ S_COUNT \in Nat \ {0, 1} /\ M_COUNT \in Nat \ {0, 1} /\ B_COUNT \in Nat /\ B_COUNT > 1
      /\ C_COUNT = S_COUNT /\ O_COUNT = M_COUNT
  BY ArbiterAssumption, DemuxAssumption, BroadcastAssumption, FabricAssumption
<1>2. /\ SPorts \subseteq Nat /\ MPorts \subseteq Nat /\ Monitor \notin MPorts
      /\ NoGrant \notin SPorts /\ CPorts = SPorts /\ OPorts = MPorts
      /\ ToMonitor \in BPorts /\ ToDemux \in BPorts
  BY <1>1
     DEF SPorts, MPorts, CPorts, OPorts, BPorts, Monitor, NoGrant, ToMonitor, ToDemux
<1>3. ASSUME NEW i \in SPorts
      PROVE  MuxPort[i] = i /\ ChoicePort[i] = i /\ InPort[i] = i
  BY <1>1 DEF MuxPort, ChoicePort, InPort, SPorts, CPorts
<1>4. ASSUME NEW n \in MPorts
      PROVE  DemuxPort[n] = n /\ OutPort[n] = n
  BY <1>1 DEF DemuxPort, OutPort, MPorts, OPorts
<1>5. ASSUME NEW i \in BPorts
      PROVE  CastPort[i] = i
  BY <1>1 DEF CastPort, BPorts
<1>6. ASSUME NEW i \in SPorts
      PROVE  MuxSlice[i] = i /\ InSlice[i] = i
  BY <1>3 DEF MuxSlice, InSlice
<1>7. ASSUME NEW n \in MPorts
      PROVE  DemuxSlice[n] = n /\ OutSlice[n] = n
  BY <1>2, <1>4 DEF DemuxSlice, OutSlice
<1>8. ASSUME NEW i \in BPorts
      PROVE  CastSlice[i] = i
  BY <1>5 DEF CastSlice
<1> QED
  BY <1>1, <1>2, <1>3, <1>4, <1>5, <1>6, <1>7, <1>8

-----------------------------------------------------------------------------
(* Least and greatest numbers.                                             *)
Less == {ss \in Nat \X Nat : ss[1] < ss[2]}

(* There is no endless descent in the numbers.                             *)
LEMMA LessWellFounded == IsWellFoundedOn(Less, Nat)
<1>1. OpToRel(<, Nat) = Less
  BY DEF OpToRel, Less
<1> QED
  BY <1>1, NatLessThanWellFounded

(* A set of numbers has a least one.                                       *)
LEMMA LeastExists ==
    ASSUME NEW S \in SUBSET Nat, S # {}
    PROVE  \E x \in S : \A y \in S : x <= y
<1>1. PICK x \in S : \A y \in S : ~(<<y, x>> \in Less)
  BY LessWellFounded, WFMin
<1>2. \A y \in S : <<y, x>> \in Less <=> y < x
  BY DEF Less
<1>3. ASSUME NEW y \in S
      PROVE  x <= y
  <2>1. x \in Nat /\ y \in Nat
    OBVIOUS
  <2>2. ~(y < x)
    BY <1>1, <1>2
  <2> QED
    BY <2>1, <2>2
<1> QED
  BY <1>3

(* A priority encoder chooses one of the requests.                         *)
LEMMA FirstIsOne ==
    ASSUME NEW R \in SUBSET SPorts, R # {}
    PROVE  First(R) \in R
<1>1. S_COUNT \in Nat /\ R \subseteq Nat
  BY ArbiterAssumption DEF SPorts
<1>2. Min(R) \in R
  BY <1>1, LeastExists DEF Min
<1>3. Max(R) \in R
  <2> DEFINE S == {S_COUNT - x : x \in R}
  <2>1. S \in SUBSET Nat /\ S # {}
    <3>1. ASSUME NEW x \in R
          PROVE  S_COUNT - x \in Nat
      BY <1>1 DEF SPorts
    <3> QED
      BY <3>1
  <2>2. PICK z \in S : \A y \in S : z <= y
    BY <2>1, LeastExists
  <2>3. \A x \in R : S_COUNT - x \in S
    OBVIOUS
  <2>4. PICK m \in R : z = S_COUNT - m
    BY <2>2
  <2>5. \A x \in R : x <= m
    BY <1>1, <2>2, <2>3, <2>4
  <2>6. \E w \in R : \A y \in R : w >= y
    BY <1>1, <2>5
  <2> QED
    BY <2>6 DEF Max
<1> QED
  BY <1>2, <1>3 DEF First

(* The states of an arbiter.                                               *)
Arbiters == [grant : SPorts \cup {NoGrant}, mask : SUBSET SPorts]

(* An arbiter keeps a grant until it is acknowledged, and grants requests  *)
(* only.                                                                   *)
LEMMA Granting ==
    ASSUME NEW arbiter \in Arbiters, NEW request \in SUBSET SPorts, NEW done \in BOOLEAN
    PROVE  LET a == Arbitrate(arbiter, request, done)
           IN  /\ a \in Arbiters
               /\ arbiter.grant # NoGrant /\ ~done => a = arbiter
               /\ \/ a.grant = arbiter.grant /\ arbiter.grant # NoGrant /\ ~done
                  \/ a.grant \in request \cup {NoGrant}
<1> DEFINE masked == request \cap arbiter.mask
           picked == IF ARB_TYPE_ROUND_ROBIN /\ masked # {} THEN First(masked)
                     ELSE First(request)
           a == Arbitrate(arbiter, request, done)
<1>1. CASE arbiter.grant # NoGrant /\ ~done
  BY <1>1 DEF Arbitrate
<1>2. CASE ~(arbiter.grant # NoGrant /\ ~done) /\ request = {}
  <2>1. a = [arbiter EXCEPT !.grant = NoGrant]
    BY <1>2 DEF Arbitrate
  <2> QED
    BY <1>2, <2>1 DEF Arbiters
<1>3. CASE ~(arbiter.grant # NoGrant /\ ~done) /\ request # {}
  <2>1. picked \in request
    BY <1>3, FirstIsOne DEF Arbiters
  <2>2. Behind(picked) \subseteq SPorts
    BY DEF Behind
  <2>3. a = [ grant |-> picked,
              mask  |-> IF ARB_TYPE_ROUND_ROBIN THEN Behind(picked) ELSE arbiter.mask ]
    BY <1>3 DEF Arbitrate
  <2> HIDE DEF picked, a
  <2>4. a \in Arbiters /\ a.grant = picked
    BY <2>1, <2>2, <2>3 DEF Arbiters
  <2> QED
    BY <1>3, <2>1, <2>4 DEF a
<1> QED
  BY <1>1, <1>2, <1>3

-----------------------------------------------------------------------------
(* Widths.  The provers know nothing of a power with a variable exponent:  *)
(* what is needed of them is a hypothesis.                                 *)
Pow(n) == 2^n
PowersOfTwo == \A n \in Nat : Pow(n) \in Nat /\ n < Pow(n)

(* The wrapper and the module agree on the bits of a port number.          *)
LEMMA WidthsAgree ==
    ASSUME PowersOfTwo, NEW n \in Nat \ {0}
    PROVE  BitLength(n - 1) = CLog2(n) /\ CLog2(n) \in Nat
<1> DEFINE IsLength(b) == n - 1 < Pow(b) /\ \A c \in 0 .. b - 1 : Pow(c) <= n - 1
           IsLog(b)    == n <= Pow(b) /\ \A c \in 0 .. b - 1 : Pow(c) < n
           Enough      == {b \in Nat : n <= Pow(b)}
<1>1. /\ BitLength(n - 1) = CHOOSE b \in 0 .. n - 1 : IsLength(b)
      /\ CLog2(n) = CHOOSE b \in 0 .. n : IsLog(b)
  BY Zenon DEF BitLength, CLog2, Pow
<1>2. \A b \in Nat : IsLength(b) <=> IsLog(b)
  <2> TAKE b \in Nat
  <2>1. Pow(b) \in Nat /\ \A c \in 0 .. b - 1 : Pow(c) \in Nat
    BY DEF PowersOfTwo
  <2> QED
    BY <2>1
<1>3. PICK e \in 0 .. n - 1 : IsLog(e)
  <2>1. n - 1 \in Enough
    BY DEF PowersOfTwo
  <2>2. PICK e \in Enough : \A b \in Enough : e <= b
    BY <2>1, LeastExists
  <2>3. e \in 0 .. n - 1
    BY <2>1, <2>2
  <2>4. ASSUME NEW c \in 0 .. e - 1
        PROVE  Pow(c) < n
    <3>1. c \in Nat /\ Pow(c) \in Nat /\ c \notin Enough
      BY <2>2, <2>3 DEF PowersOfTwo
    <3> QED
      BY <3>1
  <2> QED
    BY <2>2, <2>3, <2>4
<1>4. \A b \in Nat : IsLog(b) => b = e
  <2> TAKE b \in Nat
  <2>1. e \in Nat /\ Pow(b) \in Nat /\ Pow(e) \in Nat
    BY DEF PowersOfTwo
  <2>2. b < e \/ e < b \/ e = b
    BY <2>1
  <2> QED
    BY <1>3, <2>1, <2>2
<1> HIDE DEF IsLength, IsLog, Enough
<1>5. (CHOOSE b \in 0 .. n : IsLog(b)) = e
  BY <1>3, <1>4
<1>6. (CHOOSE b \in 0 .. n - 1 : IsLength(b)) = e
  BY <1>2, <1>3, <1>4
<1>7. e \in Nat
  OBVIOUS
<1>8. BitLength(n - 1) = e /\ CLog2(n) = e
  BY <1>1, <1>5, <1>6, Zenon
<1> QED
  BY <1>7, <1>8

(* So the upper bits begin where the wrapper says.                         *)
LEMMA Widths ==
    ASSUME PowersOfTwo
    PROVE  /\ 2^(M_ID_WIDTH - CLog2(S_COUNT)) = Pow(S_ID_WIDTH)
           /\ 2^(O_ID_WIDTH - CLog2(S_COUNT)) = Pow(S_ID_WIDTH)
           /\ 2^(S_DEST_WIDTH - CLog2(M_COUNT)) = Pow(M_DEST_WIDTH)
           /\ Pow(S_ID_WIDTH) \in Nat \ {0} /\ Pow(M_DEST_WIDTH) \in Nat \ {0}
           /\ \A d \in Nat : d % 2^O_DEST_WIDTH \in Nat /\ d % 2^M_DEST_WIDTH \in Nat
<1>1. /\ S_ID_WIDTH \in Nat /\ M_DEST_WIDTH \in Nat /\ I_ID_WIDTH = S_ID_WIDTH
      /\ O_DEST_WIDTH \in Nat
  BY ArbMuxAssumption, DemuxAssumption, FabricAssumption, SwitchAssumption
<1>2. /\ BitLength(S_COUNT - 1) = CLog2(S_COUNT) /\ CLog2(S_COUNT) \in Nat
      /\ BitLength(M_COUNT - 1) = CLog2(M_COUNT) /\ CLog2(M_COUNT) \in Nat
  BY Ports, WidthsAgree
<1>3. /\ M_ID_WIDTH - CLog2(S_COUNT) = S_ID_WIDTH
      /\ O_ID_WIDTH - CLog2(S_COUNT) = S_ID_WIDTH
      /\ S_DEST_WIDTH - CLog2(M_COUNT) = M_DEST_WIDTH
  BY <1>1, <1>2 DEF M_ID_WIDTH, O_ID_WIDTH, S_DEST_WIDTH, MuxCn, SwitchCm, DemuxCn
<1>4. /\ Pow(S_ID_WIDTH) \in Nat \ {0} /\ Pow(M_DEST_WIDTH) \in Nat \ {0}
      /\ Pow(O_DEST_WIDTH) \in Nat \ {0}
  BY <1>1 DEF PowersOfTwo
<1>5. \A d \in Nat : d % Pow(O_DEST_WIDTH) \in Nat /\ d % Pow(M_DEST_WIDTH) \in Nat
  BY <1>4
<1>6. /\ Pow(O_DEST_WIDTH) = 2^O_DEST_WIDTH /\ Pow(M_DEST_WIDTH) = 2^M_DEST_WIDTH
      /\ Pow(S_ID_WIDTH) = 2^S_ID_WIDTH
  BY Zenon DEF Pow
<1> QED
  BY <1>3, <1>4, <1>5, <1>6, Zenon

-----------------------------------------------------------------------------
(* Words.  What a receiver sees of one is the frame it belongs to; its     *)
(* tdest counts until the demux.                                           *)
Of(w)        == Streams[w.port][w.k]
NextK(p, k)  == (k % Len(Streams[p])) + 1
Numbers(p)   == DOMAIN Streams[p]
Words        == [port : SPorts, k : Nat, last : BOOLEAN, tid : Nat, tdest : Nat]
TDest(p, k)  == IF Streams[p][k].start
                  THEN Streams[p][k].dest * (IF bench = "switch" THEN 1 ELSE Pow(M_DEST_WIDTH))
                  ELSE 0
Genuine   == {w \in Words : w.k \in Numbers(w.port) /\ w.last = Of(w).last}
AtInput   == {w \in Genuine : w = Word(w.port, w.k)}
AtOutput  == {w \in Genuine : w.tid \div Pow(S_ID_WIDTH) = w.port}
InChain   == {w \in AtOutput : w.tdest = TDest(w.port, w.k)}
Slots(S)  == {<<>>} \cup {<<w>> : w \in S}

(* What a stream is: its words are numbered in a circle, and frames are    *)
(* whole.                                                                  *)
LEMMA Circle ==
    ASSUME NEW p \in SPorts, NEW k \in Numbers(p)
    PROVE  /\ NextK(p, k) \in Numbers(p) /\ k \in Nat /\ 1 \in Numbers(p)
           /\ Streams[p][k] \in [start : BOOLEAN, last : BOOLEAN, dest : Nat]
           /\ Streams[p][NextK(p, k)].start = Streams[p][k].last
           /\ ~Streams[p][k].last => Streams[p][NextK(p, k)].dest = Streams[p][k].dest
           /\ Streams[p][1].start
<1>1. /\ Streams[p] \in Seq([start : BOOLEAN, last : BOOLEAN, dest : Nat])
      /\ Streams[p] # <<>> /\ Streams[p][1].start
      /\ Streams[p][NextK(p, k)].start = Streams[p][k].last
      /\ Streams[p][k].last \/ Streams[p][NextK(p, k)].dest = Streams[p][k].dest
  BY StreamAssumption DEF NextK, Numbers
<1>2. /\ Len(Streams[p]) \in Nat \ {0} /\ Numbers(p) = 1 .. Len(Streams[p])
      /\ Streams[p][k] \in [start : BOOLEAN, last : BOOLEAN, dest : Nat]
  <2> DEFINE T == [start : BOOLEAN, last : BOOLEAN, dest : Nat]
  <2>1. Streams[p] \in Seq(T) /\ Streams[p] # <<>>
    BY <1>1
  <2> HIDE DEF T
  <2>2. Len(Streams[p]) \in Nat \ {0} /\ Numbers(p) = 1 .. Len(Streams[p])
    BY <2>1, EmptySeq, LenProperties DEF Numbers
  <2>3. Streams[p][k] \in T
    BY <2>1, <2>2, ElementOfSeq
  <2> QED
    BY <2>2, <2>3 DEF T
<1>3. NextK(p, k) \in 1 .. Len(Streams[p]) /\ k \in Nat /\ 1 \in 1 .. Len(Streams[p])
  BY <1>2 DEF NextK
<1> QED
  BY <1>1, <1>2, <1>3

(* The quotient and the remainder of a number put together of two.         *)
LEMMA TwoParts ==
    ASSUME NEW d \in Nat \ {0}, NEW q \in Nat, NEW r \in 0 .. d - 1
    PROVE  (r + q * d) \div d = q /\ r + q * d \in Nat
<1>1. q * d \in Nat /\ r + q * d \in Nat
  OBVIOUS
<1> DEFINE n == r + q * d
           z == n \div d
<1>2. z \in Int /\ d * z <= n /\ n < d * (z + 1)
  BY <1>1
<1>3. CASE z < q
  <2>1. d * (z + 1) <= d * q
    BY <1>2, <1>3
  <2> QED
    BY <1>1, <1>2, <2>1
<1>4. CASE z > q
  <2>1. d * (q + 1) <= d * z
    BY <1>2, <1>4
  <2>2. d * (q + 1) = q * d + d
    OBVIOUS
  <2> QED
    BY <1>1, <1>2, <2>1, <2>2
<1> QED
  BY <1>1, <1>2, <1>3, <1>4

(* The words that a source offers.                                         *)
LEMMA Offers ==
    ASSUME PowersOfTwo, NEW p \in SPorts, NEW k \in Numbers(p)
    PROVE  /\ Word(p, k) \in AtInput /\ Word(p, k).port = p /\ Word(p, k).k = k
           /\ Word(p, k).last = Streams[p][k].last
           /\ Word(p, k).tdest = TDest(p, k)
           /\ bench # "select" => Word(p, k).tid = Pow(S_ID_WIDTH) - 1
           /\ bench = "select" => Word(p, k) \in InChain
<1> DEFINE L == Pow(S_ID_WIDTH)
           M == Pow(M_DEST_WIDTH)
           w == Streams[p][k]
<1>1. Word(p, k) =
        [ port |-> p, k |-> k, last |-> w.last,
          tid |-> L - 1 + (IF bench = "select" THEN p * L ELSE 0),
          tdest |-> IF ~w.start THEN 0 ELSE w.dest * (IF bench = "switch" THEN 1 ELSE M) ]
  BY Zenon DEF Word, Pow
<1>2. L \in Nat \ {0} /\ M \in Nat \ {0} /\ p \in Nat
  BY Widths, Ports
<1>3. /\ w \in [start : BOOLEAN, last : BOOLEAN, dest : Nat] /\ k \in Nat
  BY Circle
<1>4. L - 1 \in 0 .. L - 1
  BY <1>2
<1>5. (L - 1 + p * L) \div L = p /\ L - 1 + p * L \in Nat
  BY <1>2, <1>4, TwoParts
<1>6. w.dest * M \in Nat
  BY <1>2, <1>3
<1> HIDE DEF L, M, w
<1>7. /\ Word(p, k) \in Words /\ Word(p, k).port = p /\ Word(p, k).k = k
      /\ Word(p, k).last = w.last
      /\ Word(p, k).tid = IF bench = "select" THEN L - 1 + p * L ELSE L - 1
      /\ Word(p, k).tdest = IF ~w.start THEN 0 ELSE w.dest * (IF bench = "switch" THEN 1 ELSE M)
  BY <1>1, <1>2, <1>3, <1>5, <1>6 DEF Words
<1>8. Word(p, k).tdest = TDest(p, k)
  BY <1>3, <1>7 DEF TDest, w, M
<1>9. Word(p, k) \in AtInput
  BY <1>7 DEF AtInput, Genuine, Of, w
<1>10. bench = "select" => Word(p, k) \in InChain
  BY <1>5, <1>7, <1>8 DEF InChain, AtOutput, Genuine, Of, w, L
<1> QED
  BY <1>7, <1>8, <1>9, <1>10 DEF w, L

-----------------------------------------------------------------------------
(* The two registers behind an output.                                     *)
Path(Q, S) ==
    {s \in [ready : BOOLEAN, out : [Q -> Slots(S)], temp : [Q -> Slots(S)]] :
        s.ready => \A q \in Q : s.temp[q] = <<>>}

(* At most one output has a word.                                          *)
Lone(Q, slot) == \A q, r \in Q : slot[q] # <<>> /\ slot[r] # <<>> => q = r

(* What the output register keeps.                                         *)
Kept(s, q, taken) == IF q \in taken THEN <<>> ELSE s.out[q]

(* Where the words are after an edge.                                      *)
Moves(s, d, q, in, taken) ==
    \/ s.ready /\ d.out[q] = in[q] /\ d.temp[q] = <<>> /\ Kept(s, q, taken) = <<>>
    \/ s.ready /\ d.out[q] = Kept(s, q, taken) /\ d.temp[q] = in[q]
    \/ ~s.ready /\ d.out[q] = s.temp[q] /\ d.temp[q] = <<>> /\ Kept(s, q, taken) = <<>>
    \/ ~s.ready /\ d.out[q] = Kept(s, q, taken) /\ d.temp[q] = s.temp[q]

(* The registers are a queue, if the output register only moves when all   *)
(* of it is taken.                                                         *)
LEMMA Registers ==
    ASSUME NEW Q, NEW S, NEW s \in Path(Q, S), NEW in \in [Q -> Slots(S)], NEW taken,
           NEW moved \in BOOLEAN,
           moved => \A q \in Q : s.out[q] # <<>> => q \in taken
    PROVE  LET d == Datapath(s, in, taken, moved)
           IN  /\ d \in Path(Q, S)
               /\ \A q \in Q : Moves(s, d, q, in, taken)
               /\ s.ready /\ (\A q \in Q : in[q] = <<>>) => d.ready
               /\ Lone(Q, in) /\ Lone(Q, s.out) /\ Lone(Q, s.temp) =>
                     Lone(Q, d.out) /\ Lone(Q, d.temp)
<1> DEFINE d == Datapath(s, in, taken, moved)
           free == moved \/ ~Valid(s.out)
           left == [q \in Q |-> Kept(s, q, taken)]
<1>1. /\ s.ready \in BOOLEAN /\ s.out \in [Q -> Slots(S)] /\ s.temp \in [Q -> Slots(S)]
      /\ DOMAIN s.out = Q /\ DOMAIN s.temp = Q /\ DOMAIN in = Q
      /\ s.ready => \A q \in Q : s.temp[q] = <<>>
  BY DEF Path
<1>2. /\ Valid(s.out) <=> \E q \in Q : s.out[q] # <<>>
      /\ Valid(s.temp) <=> \E q \in Q : s.temp[q] # <<>>
      /\ Valid(in) <=> \E q \in Q : in[q] # <<>>
  BY <1>1 DEF Valid
<1>3. /\ Idle(Q) \in [Q -> Slots(S)] /\ \A q \in Q : Idle(Q)[q] = <<>>
      /\ left \in [Q -> Slots(S)] /\ \A q \in Q : left[q] = Kept(s, q, taken)
  BY <1>1 DEF Idle, Slots, Kept
<1>4. [q \in DOMAIN s.out |-> IF q \in taken THEN <<>> ELSE s.out[q]] = left
  BY <1>1 DEF Kept
<1>5. d = [ ready |-> moved \/ (~Valid(s.temp) /\ (~Valid(s.out) \/ ~Valid(in))),
            out   |-> IF s.ready THEN IF free THEN in ELSE left
                      ELSE IF moved THEN s.temp ELSE left,
            temp  |-> IF s.ready THEN IF free THEN s.temp ELSE in
                      ELSE IF moved THEN Idle(Q) ELSE s.temp ]
  BY <1>1, <1>4, Zenon DEF Datapath
<1>6. free => \A q \in Q : left[q] = <<>>
  BY <1>2, <1>3 DEF Kept
<1> HIDE DEF d, left, free
<1>7. /\ d.ready <=> moved \/ (~Valid(s.temp) /\ (~Valid(s.out) \/ ~Valid(in)))
      /\ d.ready \in BOOLEAN
      /\ d.out = IF s.ready THEN IF free THEN in ELSE left ELSE IF moved THEN s.temp ELSE left
      /\ d.temp = IF s.ready THEN IF free THEN s.temp ELSE in
                  ELSE IF moved THEN Idle(Q) ELSE s.temp
  BY <1>5 DEF Valid
<1>8. d \in [ready : BOOLEAN, out : [Q -> Slots(S)], temp : [Q -> Slots(S)]]
  <2>1. d.out \in [Q -> Slots(S)] /\ d.temp \in [Q -> Slots(S)]
    BY <1>1, <1>3, <1>7
  <2>2. DOMAIN d = {"ready", "out", "temp"} /\ d = [x \in {"ready", "out", "temp"} |-> d[x]]
    BY <1>5
  <2> QED
    BY <1>5, <1>7, <2>1, <2>2
<1>9. d.ready => \A q \in Q : d.temp[q] = <<>>
  BY <1>1, <1>2, <1>3, <1>7 DEF free
<1>10. ASSUME NEW q \in Q
       PROVE  Moves(s, d, q, in, taken)
  BY <1>1, <1>3, <1>6, <1>7 DEF Moves, free
<1>11. s.ready /\ (\A q \in Q : in[q] = <<>>) => d.ready
  BY <1>1, <1>2, <1>7
<1>12. ASSUME Lone(Q, in), Lone(Q, s.out), Lone(Q, s.temp)
       PROVE  Lone(Q, d.out) /\ Lone(Q, d.temp)
  <2>1. Lone(Q, left) /\ Lone(Q, Idle(Q))
    BY <1>3, <1>12 DEF Lone, Kept
  <2> QED
    BY <1>7, <1>12, <2>1
<1> QED
  BY <1>8, <1>9, <1>10, <1>11, <1>12 DEF Path, d

-----------------------------------------------------------------------------
(* The invariant.                                                          *)

(* The word that a port passes next begins no frame.                       *)
Midst(p) == ~Streams[p][Passing(p)].start

SourceInv ==
    /\ bench \in {"arbitrated", "select", "switch"}
    /\ at \in [SPorts -> Nat] /\ \A p \in SPorts : at[p] \in Numbers(p)
    /\ offered \in SUBSET SPorts

(* Who has a frame under way has the grant, and so there is only one.      *)
ArbMuxInv ==
    /\ s_axis_reg \in [SPorts -> Slots(AtInput)] /\ arb \in Arbiters
    /\ mux \in Path({0}, InChain)
    /\ \A p \in SPorts :
          /\ s_axis_reg[p] # <<>> =>
                s_axis_reg[p][1].port = p /\ at[p] = NextK(p, s_axis_reg[p][1].k)
          /\ Midst(p) => arb.grant = p

MuxInv ==
    /\ select_reg \in SPorts /\ frame_reg \in BOOLEAN /\ chosen \in Path({0}, InChain)
    /\ s_axis_tready_reg \subseteq {select_reg}
    /\ s_axis_tready_reg # {} => frame_reg /\ chosen.ready
    /\ \A p \in SPorts : Midst(p) => frame_reg /\ select_reg = p

(* The words that a frame under way needs next: none, if none is.          *)
After(w)      == IF w.last THEN {} ELSE {<<w.port, NextK(w.port, w.k)>>}
Follows(e, w) == IF e = {} THEN Of(w).start ELSE e = {<<w.port, w.k>>}
Begun         == {<<p, Passing(p)>> : p \in {q \in SPorts : Midst(q)}}

(* The words c bring a frame under way on from e to f.                     *)
Thread(e, c, f) ==
    /\ c = <<>> => f = e
    /\ c # <<>> => Follows(e, c[1]) /\ f = After(c[Len(c)])
    /\ \A i \in 1 .. Len(c) - 1 : Follows(After(c[i]), c[i + 1])

(* The demux is where e is the word that it needs next.                    *)
DemuxIs(e, inFrame, drops, goesTo) ==
    /\ inFrame <=> e # {}
    /\ e = {} => ~drops
    /\ e # {} => \E p \in SPorts, k \in Nat :
          /\ k \in Numbers(p) /\ e = {<<p, k>>} /\ ~Streams[p][k].start
          /\ drops <=> Streams[p][k].dest \notin MPorts
          /\ drops \/ goesTo = Streams[p][k].dest
DemuxAt(e) == DemuxIs(e, frame, drop, select)

(* It only has no room for a word that it does not take.                   *)
ChainInv ==
    /\ cast \in Path(BPorts, InChain) /\ demux \in Path(MPorts, AtOutput)
    /\ Lone(MPorts, demux.out) /\ Lone(MPorts, demux.temp)
    /\ select \in Nat /\ drop \in BOOLEAN /\ frame \in BOOLEAN /\ s_axis_tready \in BOOLEAN
    /\ s_axis_tready \/ drop => demux.ready
    /\ \E e : DemuxAt(e) /\ Thread(e, InCast(ToDemux), Begun)

(* An output is granted to an input that has a frame for it, and to the    *)
(* one that has a frame under way.                                         *)
SwitchInv ==
    /\ decoded \in [SPorts -> [select : MPorts, drop : BOOLEAN, select_valid : BOOLEAN]]
    /\ arbs \in [MPorts -> Arbiters] /\ crossed \in [MPorts -> Path({0}, AtOutput)]
    /\ InCast(ToMonitor) = <<>>
    /\ \A p \in SPorts :
          LET d == decoded[p]
          IN  /\ d.select_valid => ~d.drop /\ Streams[p][at[p]].dest = d.select
              /\ d.drop => Streams[p][at[p]].dest \notin MPorts
              /\ Midst(p) => d.drop \/ (d.select_valid /\ arbs[d.select].grant = p)
              /\ \A n \in MPorts : arbs[n].grant = p => d.select_valid /\ d.select = n

FabricInv ==
    /\ SourceInv
    /\ bench = "arbitrated" => ArbMuxInv
    /\ bench = "select" => MuxInv
    /\ bench # "switch" => ChainInv
    /\ bench = "switch" => SwitchInv

-----------------------------------------------------------------------------
(* The sources.                                                            *)
In       == [p \in SPorts |-> IF p \in offered THEN <<Word(p, at[p])>> ELSE <<>>]
Accepted == {p \in offered : Accepts(p)}

(* The sources at an edge.                                                 *)
SourceStep ==
    /\ at' = [p \in SPorts |-> IF p \in Accepted THEN NextK(p, at[p]) ELSE at[p]]
    /\ offered' \in SUBSET SPorts /\ bench' = bench
    /\ offered \ Accepted \subseteq offered'

(* An edge, by its parts.                                                  *)
LEMMA EdgeParts ==
    ASSUME FabricInv, NEW ready, Edge(ready)
    PROVE  SourceStep /\ BenchStep(In, ready)
<1>1. offered \in SUBSET SPorts
  BY DEF FabricInv, SourceInv
<1>2. BenchStep(In, ready) /\ bench' = bench
  BY DEF Edge, In
<1>3. at' = [p \in SPorts |-> IF p \in Accepted THEN NextK(p, at[p]) ELSE at[p]]
  BY DEF Edge, Accepted, NextK
<1>4. offered' \in SUBSET SPorts /\ offered \ Accepted \subseteq offered'
  BY <1>1 DEF Edge, Accepted
<1> QED
  BY <1>2, <1>3, <1>4 DEF SourceStep

(* What is on the ports, and the sources after the edge.                   *)
LEMMA Sources ==
    ASSUME PowersOfTwo, FabricInv, SourceStep
    PROVE  /\ SourceInv'
           /\ In \in [SPorts -> Slots(AtInput)]
           /\ \A p \in SPorts :
                 /\ In[p] # <<>> <=> p \in offered
                 /\ p \in offered => In[p] = <<Word(p, at[p])>>
           /\ Accepted \subseteq offered
           /\ \A p \in SPorts : at'[p] = IF p \in Accepted THEN NextK(p, at[p]) ELSE at[p]
<1>1. /\ at \in [SPorts -> Nat] /\ \A p \in SPorts : at[p] \in Numbers(p)
      /\ offered \in SUBSET SPorts
  BY DEF FabricInv, SourceInv
<1>2. \A p \in SPorts : Word(p, at[p]) \in AtInput
  BY <1>1, Offers
<1>3. \A p \in SPorts : at'[p] = IF p \in Accepted THEN NextK(p, at[p]) ELSE at[p]
  BY DEF SourceStep
<1>4. \A p \in SPorts : at'[p] \in Numbers(p) /\ at'[p] \in Nat
  <2> TAKE p \in SPorts
  <2>1. NextK(p, at[p]) \in Numbers(p)
    BY <1>1, Circle
  <2>2. at'[p] \in Numbers(p)
    BY <1>1, <1>3, <2>1
  <2> QED
    BY <2>2, Circle
<1>5. at' \in [SPorts -> Nat]
  BY <1>3, <1>4 DEF SourceStep
<1>6. SourceInv'
  BY <1>4, <1>5 DEF SourceInv, SourceStep, FabricInv, Numbers
<1>7. In \in [SPorts -> Slots(AtInput)]
  BY <1>2 DEF In, Slots
<1>8. Accepted \subseteq offered
  BY DEF Accepted
<1> QED
  BY <1>3, <1>6, <1>7, <1>8 DEF In

(* The sets of words do not change with the clock.                         *)
LEMMA SameWords ==
    ASSUME bench' = bench
    PROVE  /\ AtInput' = AtInput /\ InChain' = InChain
           /\ \A p, k : Word(p, k)' = Word(p, k)
           /\ \A p, k : TDest(p, k)' = TDest(p, k)
<1>1. \A p, k : Word(p, k)' = Word(p, k)
  BY Zenon DEF Word
<1>2. \A p, k : TDest(p, k)' = TDest(p, k)
  BY Zenon DEF TDest
<1> QED
  BY <1>1, <1>2 DEF AtInput, InChain

(* A mux takes fed, and its frames are in turn.                            *)
Feeds(fed) ==
    /\ fed \in Slots(InChain) /\ (fed # <<>> => Muxed.ready)
    /\ Muxed \in Path({0}, InChain) /\ Muxed' \in Path({0}, InChain)
    /\ Moves(Muxed, Muxed', 0, [q \in {0} |-> fed], IF cast.ready THEN {0} ELSE {})
    /\ \A p \in SPorts :
          Passing(p)' = IF fed # <<>> /\ fed[1].port = p THEN NextK(p, Passing(p))
                        ELSE Passing(p)
    /\ fed # <<>> => /\ fed[1].k = Passing(fed[1].port)
                     /\ \A p \in SPorts \ {fed[1].port} : ~Midst(p)

(* The word that goes on from the arbitrated mux.                          *)
LEMMA RoutedWord ==
    ASSUME PowersOfTwo, bench = "arbitrated", arb.grant \in SPorts,
           NEW w \in AtInput, w.port = arb.grant
    PROVE  /\ Routed(w) \in InChain /\ Routed(w).port = w.port /\ Routed(w).k = w.k
           /\ Routed(w).last = w.last
<1> DEFINE L == Pow(S_ID_WIDTH)
<1>1. Routed(w) = [w EXCEPT !.tid = (@ % L) + arb.grant * L]
  <2>1. 2^(M_ID_WIDTH - CLog2(S_COUNT)) = L
    BY Widths
  <2>2. Routed(w) = LET low == L IN [w EXCEPT !.tid = (@ % low) + arb.grant * low]
    BY <2>1, Zenon DEF Routed
  <2> QED
    BY <2>2, Zenon
<1>2. L \in Nat \ {0} /\ arb.grant \in Nat
  BY Widths, Ports
<1>3. /\ w \in Words /\ w.k \in Numbers(w.port) /\ w = Word(w.port, w.k)
      /\ w.last = Of(w).last
  BY DEF AtInput, Genuine
<1>4. w.tdest = TDest(w.port, w.k) /\ w.tid \in Nat /\ w.port \in SPorts
  BY <1>3, Offers DEF Words
<1>5. w.tid % L \in 0 .. L - 1
  BY <1>2, <1>4
<1>6. /\ ((w.tid % L) + arb.grant * L) \div L = arb.grant
      /\ (w.tid % L) + arb.grant * L \in Nat
  BY <1>2, <1>5, TwoParts
<1> HIDE DEF L
<1>7. /\ Routed(w) \in Words /\ Routed(w).port = w.port /\ Routed(w).k = w.k
      /\ Routed(w).last = w.last /\ Routed(w).tdest = w.tdest
      /\ Routed(w).tid = (w.tid % L) + arb.grant * L
  BY <1>1, <1>3, <1>6 DEF Words
<1> QED
  BY <1>3, <1>4, <1>6, <1>7 DEF InChain, AtOutput, Genuine, Of, L

(* The arbitrated mux keeps its invariant and feeds the chain.             *)
LEMMA ArbMuxFeeds ==
    ASSUME PowersOfTwo, FabricInv, bench = "arbitrated", SourceStep,
           ArbMuxStep(In, cast.ready), cast.ready \in BOOLEAN
    PROVE  ArbMuxInv' /\ \E fed : Feeds(fed)
<1> DEFINE g   == arb.grant
           fed == IF Granted THEN <<Routed(s_axis_reg[g][1])>> ELSE <<>>
           inp == [q \in {0} |-> fed]
           taken == IF cast.ready THEN {0} ELSE {}
<1>1. /\ s_axis_reg \in [SPorts -> Slots(AtInput)] /\ arb \in Arbiters
      /\ mux \in Path({0}, InChain)
      /\ \A p \in SPorts :
            /\ s_axis_reg[p] # <<>> =>
                  s_axis_reg[p][1].port = p /\ at[p] = NextK(p, s_axis_reg[p][1].k)
            /\ Midst(p) => g = p
  BY DEF FabricInv, ArbMuxInv
<1>2. bench' = bench /\ Muxed = mux /\ Muxed' = mux'
  BY DEF SourceStep, Muxed
<1>3. \A p \in SPorts :
         /\ Passing(p) = IF s_axis_reg[p] = <<>> THEN at[p] ELSE s_axis_reg[p][1].k
         /\ Passing(p)' = IF s_axis_reg'[p] = <<>> THEN at'[p] ELSE s_axis_reg'[p][1].k
  BY <1>2, Ports DEF Passing
<1>4. \A p \in SPorts : MuxReady(p) <=> s_axis_reg[p] = <<>> \/ (mux.ready /\ g = p)
  BY Ports DEF MuxReady
<1>5. /\ Granted <=> g \in SPorts /\ s_axis_reg[g] # <<>> /\ mux.ready
      /\ mux.ready \in BOOLEAN
  BY <1>1, Ports DEF Granted, Arbiters, Path
<1>6. \A p \in SPorts : p \in Accepted <=> p \in offered /\ MuxReady(p)
  BY DEF Accepted, Accepts
<1>7. /\ \A p \in SPorts : s_axis_reg'[p] = IF MuxReady(p) THEN In[p] ELSE s_axis_reg[p]
      /\ DOMAIN s_axis_reg' = SPorts
      /\ s_axis_reg' = [p \in SPorts |-> s_axis_reg'[p]]
  BY Ports DEF ArbMuxStep
<1>8. ASSUME NEW p \in SPorts
      PROVE  /\ s_axis_reg'[p] \in Slots(AtInput)
             /\ s_axis_reg'[p] # <<>> =>
                   s_axis_reg'[p][1].port = p /\ at'[p] = NextK(p, s_axis_reg'[p][1].k)
  <2>1. CASE ~MuxReady(p)
    BY <1>1, <1>6, <1>7, <2>1, Sources
  <2>2. CASE MuxReady(p)
    <3>1. s_axis_reg'[p] = In[p]
      BY <1>7, <2>2
    <3>2. at[p] \in Numbers(p) /\ Word(p, at[p]).port = p /\ Word(p, at[p]).k = at[p]
      BY Offers DEF FabricInv, SourceInv
    <3> QED
      BY <1>6, <2>2, <3>1, <3>2, Sources
  <2> QED
    BY <2>1, <2>2
<1>9. ASSUME NEW p \in SPorts
      PROVE  /\ Granted /\ g = p => /\ Passing(p) = s_axis_reg[p][1].k
                                    /\ Passing(p)' = NextK(p, Passing(p))
             /\ ~(Granted /\ g = p) => Passing(p)' = Passing(p)
  <2>1. at[p] \in Numbers(p) /\ Word(p, at[p]).k = at[p]
    BY Offers DEF FabricInv, SourceInv
  <2>2. In[p] # <<>> => In[p][1].k = at[p]
    BY <2>1, Sources
  <2>3. MuxReady(p) => Passing(p)' = at[p]
    <3> SUFFICES ASSUME MuxReady(p) PROVE Passing(p)' = at[p]
      OBVIOUS
    <3>1. s_axis_reg'[p] = In[p]
      BY <1>7
    <3>2. In[p] = <<>> => at'[p] = at[p]
      BY Sources
    <3> QED
      BY <1>3, <2>2, <3>1, <3>2
  <2>4. CASE Granted /\ g = p
    BY <1>1, <1>3, <1>4, <1>5, <2>3, <2>4
  <2>5. CASE s_axis_reg[p] = <<>>
    BY <1>3, <1>4, <1>5, <2>3, <2>5
  <2>6. CASE s_axis_reg[p] # <<>> /\ ~(Granted /\ g = p)
    <3>1. ~MuxReady(p)
      BY <1>4, <1>5, <2>6
    <3> QED
      BY <1>3, <1>6, <1>7, <2>6, <3>1, Sources
  <2> QED
    BY <2>4, <2>5, <2>6
<1>10. Granted => /\ s_axis_reg[g][1] \in AtInput /\ s_axis_reg[g][1].port = g
                  /\ s_axis_reg[g][1].k \in Numbers(g)
                  /\ s_axis_reg[g][1].last = Streams[g][s_axis_reg[g][1].k].last
  BY <1>1, <1>5 DEF Slots, AtInput, Genuine, Of
<1>11. /\ fed \in Slots(InChain)
       /\ fed # <<>> => /\ Granted /\ fed[1].port = g /\ fed[1].k = s_axis_reg[g][1].k
       /\ Granted => fed # <<>>
  BY <1>5, <1>10, RoutedWord DEF Slots
<1>12. Acknowledge \in BOOLEAN /\ (Acknowledge <=> Granted /\ s_axis_reg[g][1].last)
  <2>1. Granted => s_axis_reg[g][1].last \in BOOLEAN
    BY <1>10 DEF AtInput, Genuine, Words
  <2> QED
    BY <1>5, <2>1 DEF Acknowledge
<1>13. /\ arb' \in Arbiters
       /\ arb.grant # NoGrant /\ ~Acknowledge => arb' = arb
  <2>1. Requests(In) \in SUBSET SPorts
    BY DEF Requests
  <2> QED
    BY <1>1, <1>12, <2>1, Granting DEF ArbMuxStep
<1>14. ASSUME NEW p \in SPorts
       PROVE  Midst(p)' => arb'.grant = p
  <2> SUFFICES ASSUME Midst(p)' PROVE arb'.grant = p
    OBVIOUS
  <2>1. ~Streams[p][Passing(p)'].start
    BY DEF Midst
  <2>2. g = p /\ ~Acknowledge
    <3>1. CASE Granted /\ g = p
      <4>1. ~Streams[p][Passing(p)].last
        BY <1>9, <1>10, <2>1, <3>1, Circle
      <4> QED
        BY <1>9, <1>10, <1>12, <3>1, <4>1
    <3>2. CASE ~(Granted /\ g = p)
      <4>1. Midst(p)
        BY <1>9, <2>1, <3>2 DEF Midst
      <4> QED
        BY <1>1, <1>12, <3>2, <4>1
    <3> QED
      BY <3>1, <3>2
  <2> QED
    BY <1>13, <2>2, Ports
<1>15. /\ mux' \in Path({0}, InChain) /\ Moves(mux, mux', 0, inp, taken)
  <2>1. inp \in [{0} -> Slots(InChain)]
    BY <1>11
  <2>2. mux' = Datapath(mux, inp, taken, cast.ready)
    BY DEF ArbMuxStep
  <2> HIDE DEF inp
  <2>3. cast.ready => \A q \in {0} : mux.out[q] # <<>> => q \in taken
    OBVIOUS
  <2> HIDE DEF taken
  <2> QED
    BY <1>1, <2>1, <2>2, <2>3, Registers
<1>16. ArbMuxInv'
  <2>1. s_axis_reg' \in [SPorts -> Slots(AtInput)]
    BY <1>7, <1>8
  <2>2. AtInput' = AtInput /\ InChain' = InChain
    BY <1>2, SameWords
  <2> HIDE DEF g
  <2>3. s_axis_reg' \in [SPorts -> Slots(AtInput')] /\ mux' \in Path({0}, InChain')
    BY <1>15, <2>1, <2>2
  <2> QED
    BY <1>8, <1>13, <1>14, <2>3 DEF ArbMuxInv, Slots, Path, NextK
<1>17. Feeds(fed)
  <2>1. ASSUME NEW p \in SPorts
        PROVE  Passing(p)' = IF fed # <<>> /\ fed[1].port = p THEN NextK(p, Passing(p))
                             ELSE Passing(p)
    BY <1>9, <1>11
  <2>2. fed # <<>> => /\ fed[1].k = Passing(fed[1].port)
                      /\ \A p \in SPorts \ {fed[1].port} : ~Midst(p)
    BY <1>1, <1>5, <1>9, <1>11
  <2>3. InChain' = InChain
    BY <1>2, SameWords
  <2>4. fed # <<>> => Muxed.ready
    BY <1>2, <1>5, <1>11
  <2> HIDE DEF fed
  <2> QED
    BY <1>1, <1>2, <1>11, <1>15, <2>1, <2>2, <2>3, <2>4 DEF Feeds
<1> QED
  BY <1>16, <1>17

(* The mux with a select input does so too, whatever is selected.          *)
LEMMA MuxFeeds ==
    ASSUME PowersOfTwo, FabricInv, bench = "select", SourceStep, cast.ready \in BOOLEAN,
           NEW enable \in BOOLEAN, NEW choice \in SPorts,
           MuxStep(In, enable, choice, cast.ready)
    PROVE  MuxInv' /\ \E fed : Feeds(fed)
<1> DEFINE g     == select_reg
           goes  == In[g] # <<>> /\ g \in s_axis_tready_reg
           fed   == IF goes THEN In[g] ELSE <<>>
           inp   == [q \in {0} |-> fed]
           taken == IF cast.ready THEN {0} ELSE {}
           begins == ~frame_reg /\ enable /\ In[choice] # <<>>
           ends   == goes /\ In[g][1].last
<1>1. /\ g \in SPorts /\ frame_reg \in BOOLEAN /\ chosen \in Path({0}, InChain)
      /\ s_axis_tready_reg \subseteq {g}
      /\ s_axis_tready_reg # {} => frame_reg /\ chosen.ready
      /\ \A p \in SPorts : Midst(p) => frame_reg /\ g = p
  BY DEF FabricInv, MuxInv
<1>2. bench' = bench /\ Muxed = chosen /\ Muxed' = chosen'
  BY DEF SourceStep, Muxed
<1>3. \A p \in SPorts : Passing(p) = at[p] /\ Passing(p)' = at'[p] /\ at[p] \in Numbers(p)
  BY <1>2 DEF Passing, FabricInv, SourceInv
<1>4. ChoicePort[g] = g /\ ChoicePort[choice] = choice
  BY <1>1, Ports
<1>5. \A p \in SPorts : p \in Accepted <=> goes /\ p = g
  <2>1. \A p \in SPorts : ChoiceReady(p) <=> p \in s_axis_tready_reg
    BY <1>1, Ports DEF ChoiceReady
  <2>2. \A p \in SPorts : p \in Accepted <=> p \in offered /\ p \in s_axis_tready_reg
    BY <2>1 DEF Accepted, Accepts
  <2> QED
    BY <1>1, <2>2, Sources
<1>6. /\ select_reg' = IF begins THEN choice ELSE g
      /\ frame_reg' = (begins \/ (frame_reg /\ ~ends))
      /\ chosen' = Datapath(chosen, inp, taken, cast.ready)
      /\ s_axis_tready_reg' = IF chosen'.ready /\ frame_reg' THEN {select_reg'} ELSE {}
  <2>1. goes /\ frame_reg <=> goes
    BY <1>1
  <2>2. [q \in {0} |-> IF goes /\ frame_reg THEN In[g] ELSE <<>>] = inp
    BY <2>1
  <2> QED
    BY <1>4, <2>2 DEF MuxStep
<1>7. goes => /\ In[g] = <<Word(g, at[g])>> /\ Word(g, at[g]) \in InChain
              /\ In[g][1].port = g /\ In[g][1].k = at[g]
              /\ In[g][1].last = Streams[g][at[g]].last
  <2> SUFFICES ASSUME goes
               PROVE  /\ In[g] = <<Word(g, at[g])>> /\ Word(g, at[g]) \in InChain
                      /\ In[g][1].port = g /\ In[g][1].k = at[g]
                      /\ In[g][1].last = Streams[g][at[g]].last
    OBVIOUS
  <2>1. In[g] = <<Word(g, at[g])>>
    BY <1>1, Sources
  <2> QED
    BY <1>1, <1>3, <2>1, Offers
<1>8. /\ fed \in Slots(InChain)
      /\ fed # <<>> <=> goes
      /\ fed # <<>> => fed[1].port = g /\ fed[1].k = at[g]
  BY <1>7 DEF Slots
<1>9. ASSUME NEW p \in SPorts
      PROVE  at'[p] = IF goes /\ p = g THEN NextK(p, at[p]) ELSE at[p]
  BY <1>5, Sources
<1>10. /\ chosen' \in Path({0}, InChain) /\ Moves(chosen, chosen', 0, inp, taken)
  <2>1. inp \in [{0} -> Slots(InChain)]
    BY <1>8
  <2> HIDE DEF inp
  <2>2. cast.ready => \A q \in {0} : chosen.out[q] # <<>> => q \in taken
    OBVIOUS
  <2> HIDE DEF taken
  <2> QED
    BY <1>1, <1>6, <2>1, <2>2, Registers
<1>11. ASSUME NEW p \in SPorts, Midst(p)'
       PROVE  frame_reg' /\ select_reg' = p
  <2>1. ~Streams[p][at'[p]].start
    BY <1>3, <1>11 DEF Midst
  <2>2. frame_reg /\ g = p /\ ~ends
    <3>1. CASE goes /\ p = g
      <4>1. ~Streams[p][at[p]].last
        BY <1>3, <1>9, <2>1, <3>1, Circle
      <4> QED
        BY <1>1, <1>7, <3>1, <4>1
    <3>2. CASE ~(goes /\ p = g)
      <4>1. Midst(p)
        BY <1>3, <1>9, <2>1, <3>2 DEF Midst
      <4> QED
        BY <1>1, <3>2, <4>1
    <3> QED
      BY <3>1, <3>2
  <2> QED
    BY <1>6, <2>2
<1>12. MuxInv'
  <2>1. InChain' = InChain
    BY <1>2, SameWords
  <2>2. chosen' \in Path({0}, InChain')
    BY <1>10, <2>1
  <2>3. select_reg' \in SPorts /\ frame_reg' \in BOOLEAN
    BY <1>1, <1>6
  <2>4. /\ s_axis_tready_reg' \subseteq {select_reg'}
        /\ s_axis_tready_reg' # {} => frame_reg' /\ chosen'.ready
    BY <1>6
  <2> QED
    BY <1>11, <2>2, <2>3, <2>4 DEF MuxInv, Path, Slots
<1>13. Feeds(fed)
  <2>1. ASSUME NEW p \in SPorts
        PROVE  Passing(p)' = IF fed # <<>> /\ fed[1].port = p THEN NextK(p, Passing(p))
                             ELSE Passing(p)
    BY <1>3, <1>8, <1>9
  <2>2. fed # <<>> => /\ fed[1].k = Passing(fed[1].port)
                      /\ \A p \in SPorts \ {fed[1].port} : ~Midst(p)
    BY <1>1, <1>3, <1>8
  <2>3. fed # <<>> => Muxed.ready
    BY <1>1, <1>2, <1>8
  <2> HIDE DEF fed
  <2> QED
    BY <1>1, <1>2, <1>8, <1>10, <2>1, <2>2, <2>3 DEF Feeds
<1> QED
  BY <1>12, <1>13

-----------------------------------------------------------------------------
(* Rows of words, put together from registers.                             *)

(* Registers are short rows.                                               *)
LEMMA SlotFacts ==
    ASSUME NEW S, NEW x \in Slots(S)
    PROVE  /\ x \in Seq(S) /\ Len(x) \in {0, 1} /\ (x = <<>> <=> Len(x) = 0)
           /\ x # <<>> => x = <<x[1]>> /\ x[1] \in S /\ Len(x) = 1 /\ Tail(x) = <<>>
           /\ \A p : Only(p, x) \in Slots(S)
           /\ \A p : x = <<>> => Only(p, x) = <<>>
<1>1. CASE x = <<>>
  BY <1>1 DEF Slots, Only
<1>2. CASE x # <<>>
  <2>1. PICK w \in S : x = <<w>>
    BY <1>2 DEF Slots
  <2>2. /\ x \in Seq(S) /\ Len(x) = 1 /\ x[1] = w
    BY <2>1
  <2>3. Tail(x) = <<>>
    <3>1. Tail(x) \in Seq(S) /\ Len(Tail(x)) = 0
      BY <1>2, <2>2, HeadTailProperties
    <3> QED
      BY <3>1, EmptySeq
  <2>4. \A p : Only(p, x) \in Slots(S)
    BY <2>1 DEF Slots, Only
  <2> QED
    BY <1>2, <2>1, <2>2, <2>3, <2>4
<1> QED
  BY <1>1, <1>2

(* Concatenation of rows.                                                  *)
LEMMA Rows3 ==
    ASSUME NEW S, NEW a \in Seq(S), NEW b \in Seq(S), NEW c \in Seq(S)
    PROVE  /\ (a \o b) \o c = a \o (b \o c) /\ a \o b \in Seq(S)
           /\ a \o <<>> = a /\ <<>> \o a = a /\ <<>> \in Seq(S)
BY ConcatAssociative, ConcatProperties, ConcatEmptySeq, EmptySeq

(* What a receiver sees of a row of words.                                 *)
View(w) == [port |-> w.port, id |-> w.port, k |-> w.k]
Views   == [port : SPorts, id : SPorts, k : Nat]

(* Of every word its port is seen twice, once from tid, and its number.    *)
LEMMA SeenFacts ==
    ASSUME NEW a \in Seq(AtOutput)
    PROVE  /\ Seen(a) \in Seq(Views) /\ Len(Seen(a)) = Len(a)
           /\ \A i \in 1 .. Len(a) : Seen(a)[i] = View(a[i])
<1>1. \A i \in 1 .. Len(a) : a[i] \in AtOutput
  BY ElementOfSeq
<1>2. Len(a) \in Nat /\ DOMAIN a = 1 .. Len(a)
  BY LenProperties
<1>3. Seen(a) = [i \in 1 .. Len(a) |->
                   [port |-> a[i].port, k |-> a[i].k, id |-> a[i].tid \div Pow(S_ID_WIDTH)]]
  <2>1. Seen(a) = [i \in DOMAIN a |->
                   [port |-> a[i].port, k |-> a[i].k, id |-> a[i].tid \div Pow(S_ID_WIDTH)]]
    BY Zenon DEF Seen, Pow
  <2> QED
    BY <1>2, <2>1
<1>4. \A i \in 1 .. Len(a) :
         /\ [port |-> a[i].port, k |-> a[i].k, id |-> a[i].tid \div Pow(S_ID_WIDTH)] = View(a[i])
         /\ View(a[i]) \in Views
  BY <1>1 DEF AtOutput, Genuine, Words, View, Views
<1>5. /\ Seen(a) \in [1 .. Len(a) -> Views]
      /\ \A i \in 1 .. Len(a) : Seen(a)[i] = View(a[i])
  BY <1>3, <1>4
<1>6. Seen(a) \in Seq(Views) /\ Len(Seen(a)) = Len(a)
  BY <1>2, <1>5
<1> QED
  BY <1>5, <1>6

(* It is seen word by word.                                                *)
LEMMA SeenTogether ==
    ASSUME NEW a \in Seq(AtOutput), NEW b \in Seq(AtOutput)
    PROVE  Seen(a \o b) = Seen(a) \o Seen(b)
<1>1. a \o b \in Seq(AtOutput) /\ Len(a \o b) = Len(a) + Len(b)
  BY ConcatProperties
<1>2. Len(a) \in Nat /\ Len(b) \in Nat
  BY LenProperties
<1>3. /\ Seen(a) \in Seq(Views) /\ Len(Seen(a)) = Len(a)
      /\ Seen(b) \in Seq(Views) /\ Len(Seen(b)) = Len(b)
      /\ Seen(a \o b) \in Seq(Views) /\ Len(Seen(a \o b)) = Len(a) + Len(b)
  BY <1>1, SeenFacts
<1>4. /\ Seen(a) \o Seen(b) \in Seq(Views)
      /\ Len(Seen(a) \o Seen(b)) = Len(a) + Len(b)
  BY <1>3, ConcatProperties
<1>5. ASSUME NEW i \in 1 .. Len(a) + Len(b)
      PROVE  Seen(a \o b)[i] = (Seen(a) \o Seen(b))[i]
  <2>1. Seen(a \o b)[i] = View((a \o b)[i])
    BY <1>1, SeenFacts
  <2>2. (a \o b)[i] = IF i <= Len(a) THEN a[i] ELSE b[i - Len(a)]
    BY ConcatProperties
  <2>3. (Seen(a) \o Seen(b))[i] = IF i <= Len(a) THEN Seen(a)[i] ELSE Seen(b)[i - Len(a)]
    BY <1>3, ConcatProperties
  <2>4. CASE i <= Len(a)
    BY <1>2, <2>1, <2>2, <2>3, <2>4, SeenFacts
  <2>5. CASE ~(i <= Len(a))
    <3>1. i - Len(a) \in 1 .. Len(b)
      BY <1>2, <2>5
    <3>2. Seen(b)[i - Len(a)] = View(b[i - Len(a)])
      BY <3>1, SeenFacts
    <3> QED
      BY <2>1, <2>2, <2>3, <2>5, <3>2
  <2> QED
    BY <2>4, <2>5
<1> QED
  BY <1>3, <1>4, <1>5, SeqEqual

(* And a register is seen as one word or none.                             *)
LEMMA SeenSlot ==
    ASSUME NEW x \in Slots(AtOutput)
    PROVE  Seen(x) = IF x = <<>> THEN <<>> ELSE <<View(x[1])>>
<1>1. x \in Seq(AtOutput) /\ (x # <<>> => Len(x) = 1) /\ (x = <<>> => Len(x) = 0)
  BY SlotFacts
<1>2. /\ Seen(x) \in Seq(Views) /\ Len(Seen(x)) = Len(x)
      /\ \A i \in 1 .. Len(x) : Seen(x)[i] = View(x[i])
  BY <1>1, SeenFacts
<1>3. CASE x = <<>>
  BY <1>1, <1>2, <1>3, EmptySeq
<1>4. CASE x # <<>>
  <2>1. Seen(x)[1] = View(x[1]) /\ Len(Seen(x)) = 1
    BY <1>1, <1>2, <1>4
  <2>2. View(x[1]) \in Views
    <3>1. 1 \in 1 .. Len(Seen(x))
      BY <2>1
    <3> QED
      BY <1>2, <2>1, <3>1, ElementOfSeq
  <2>3. <<View(x[1])>> \in Seq(Views) /\ Len(<<View(x[1])>>) = 1 /\ <<View(x[1])>>[1] = View(x[1])
    BY <2>2
  <2>4. \A i \in 1 .. Len(Seen(x)) : Seen(x)[i] = <<View(x[1])>>[i]
    BY <2>1, <2>3
  <2> QED
    BY <1>2, <1>4, <2>1, <2>3, <2>4, SeqEqual
<1> QED
  BY <1>3, <1>4

(* Concatenation by another name: the provers then take it for an          *)
(* operation of which they know what IsRows and HasEmpty say.              *)
Cat(x, y) == x \o y
IsRows(T) ==
    /\ \A x, y, z \in T : Cat(Cat(x, y), z) = Cat(x, Cat(y, z))
    /\ \A x, y \in T : Cat(x, y) \in T
HasEmpty(T) == <<>> \in T /\ \A x \in T : Cat(x, <<>>) = x /\ Cat(<<>>, x) = x

(* Rows of anything are rows in this sense.                                *)
LEMMA RowAlgebra == \A S : IsRows(Seq(S)) /\ HasEmpty(Seq(S))
BY Rows3 DEF Cat, IsRows, HasEmpty

(* A row that has given its first word away, or not.                       *)
Shift(x) == {x} \cup (IF x = <<>> THEN {} ELSE {Tail(x)})
Heads(V, d, k, r, g) == d \in Slots(V) /\ (k = d \/ k = <<>>) /\ r \in Seq(V) /\ g \in Seq(V)

(* An output register gives its word away, or not; others come behind.     *)
LEMMA Advance ==
    ASSUME NEW V, NEW d, NEW k, NEW r, NEW g, Heads(V, d, k, r, g)
    PROVE  \E t \in Shift(Cat(d, r)) : Cat(Cat(k, r), g) = Cat(t, g)
<1>1. d \in Slots(V) /\ (k = d \/ k = <<>>) /\ r \in Seq(V) /\ g \in Seq(V)
  BY DEF Heads
<1> SUFFICES \E t \in {d \o r} \cup (IF d \o r = <<>> THEN {} ELSE {Tail(d \o r)}) :
                (k \o r) \o g = t \o g
  BY Zenon DEF Shift, Cat
<1>2. d \in Seq(V) /\ <<>> \o r = r
  BY <1>1, SlotFacts, ConcatEmptySeq
<1>3. CASE k = d
  BY <1>3
<1>4. CASE k = <<>> /\ d = <<>>
  BY <1>4
<1>5. CASE k = <<>> /\ d # <<>>
  <2>1. d = <<d[1]>> /\ d[1] \in V /\ Len(d) = 1 /\ Len(r) \in Nat
    BY <1>1, <1>5, SlotFacts, LenProperties
  <2>2. /\ d \o r \in Seq(V) /\ Len(d \o r) = 1 + Len(r)
        /\ \A i \in 1 .. 1 + Len(r) : (d \o r)[i] = IF i <= 1 THEN d[i] ELSE r[i - 1]
    BY <1>1, <1>2, <2>1, ConcatProperties
  <2>3. d \o r # <<>>
    BY <2>1, <2>2, EmptySeq
  <2>4. /\ Tail(d \o r) \in Seq(V) /\ Len(Tail(d \o r)) = Len(r)
        /\ \A i \in 1 .. Len(r) : Tail(d \o r)[i] = (d \o r)[i + 1]
    BY <2>1, <2>2, <2>3, HeadTailProperties
  <2>5. \A i \in 1 .. Len(r) : Tail(d \o r)[i] = r[i]
    BY <2>1, <2>2, <2>4
  <2>6. Tail(d \o r) = r
    BY <1>1, <2>4, <2>5, SeqEqual
  <2> QED
    BY <1>2, <1>5, <2>3, <2>6
<1> QED
  BY <1>1, <1>3, <1>4, <1>5

(* Longer rows, however they are put together.                             *)
LEMMA Groups ==
    ASSUME NEW T, IsRows(T), NEW a \in T, NEW b \in T, NEW c \in T, NEW d \in T
    PROVE  /\ Cat(Cat(Cat(a, b), c), d) = Cat(Cat(a, b), Cat(c, d))
           /\ Cat(Cat(Cat(a, b), c), d) = Cat(a, Cat(b, Cat(c, d)))
           /\ Cat(Cat(a, b), Cat(c, d)) = Cat(a, Cat(b, Cat(c, d)))
           /\ Cat(Cat(a, Cat(b, c)), d) = Cat(Cat(Cat(a, b), c), d)
           /\ Cat(Cat(a, b), c) = Cat(a, Cat(b, c))
           /\ Cat(a, b) \in T /\ Cat(Cat(a, b), c) \in T
<1>1. Cat(a, b) \in T /\ Cat(b, c) \in T /\ Cat(c, d) \in T /\ Cat(Cat(a, b), c) \in T
  BY DEF IsRows
<1> QED
  BY <1>1 DEF IsRows

Row4(a, b, c, d)    == Cat(Cat(Cat(a, b), c), d)
Row5(a, b, c, d, e) == Cat(Cat(Cat(Cat(a, b), c), d), e)

(* What was in two registers and came behind is in them.                   *)
Carried(a, b, k, t, f) == Cat(a, b) = Cat(Cat(k, t), f)

(* The two registers are a queue: what is kept, and what comes behind it.  *)
LEMMA Queue ==
    ASSUME NEW Q, NEW S, NEW s \in Path(Q, S), NEW d, NEW q \in Q, NEW in, NEW taken,
           in[q] \in Slots(S), Moves(s, d, q, in, taken), NEW came,
           came = IF s.ready THEN in[q] ELSE <<>>
    PROVE  /\ Carried(d.out[q], d.temp[q], Kept(s, q, taken), s.temp[q], came)
           /\ \A p : Carried(Only(p, d.out[q]), Only(p, d.temp[q]),
                            Only(p, Kept(s, q, taken)), Only(p, s.temp[q]), Only(p, came))
<1> DEFINE k == Kept(s, q, taken)
           t == s.temp[q]
           i == in[q]
<1>1. s.out[q] \in Slots(S) /\ t \in Slots(S) /\ (s.ready => t = <<>>) /\ <<>> \in Slots(S)
  BY DEF Path, Slots
<1>2. k \in Slots(S) /\ i \in Slots(S)
  BY <1>1 DEF Kept
<1>3. \A x \in Slots(S) : x \o <<>> = x /\ <<>> \o x = x
  BY SlotFacts, ConcatEmptySeq
<1>4. \A p : Only(p, <<>>) = <<>>
  BY DEF Only
<1>5. \A p, x : x \in Slots(S) => Only(p, x) \in Slots(S)
  BY SlotFacts
<1> HIDE DEF k, t, i
<1>6. \/ s.ready /\ d.out[q] = i /\ d.temp[q] = <<>> /\ k = <<>>
      \/ s.ready /\ d.out[q] = k /\ d.temp[q] = i
      \/ ~s.ready /\ d.out[q] = t /\ d.temp[q] = <<>> /\ k = <<>>
      \/ ~s.ready /\ d.out[q] = k /\ d.temp[q] = t
  BY DEF Moves, k, t, i
<1>7. ASSUME NEW g \in Slots(S), NEW h \in Slots(S)
      PROVE  /\ (g \o <<>>) \o h = g \o h
             /\ (<<>> \o g) \o <<>> = g \o <<>>
             /\ (<<>> \o <<>>) \o g = g \o <<>>
             /\ (g \o h) \o <<>> = g \o h
  <2>1. g \in Seq(S) /\ h \in Seq(S) /\ <<>> \in Seq(S)
    BY SlotFacts, EmptySeq
  <2>2. g \o h \in Seq(S)
    BY <2>1, ConcatProperties
  <2> QED
    BY <2>1, <2>2, ConcatEmptySeq
<1>8. d.out[q] \o d.temp[q] = k \o t \o (IF s.ready THEN i ELSE <<>>)
  <2>1. CASE s.ready
    <3>1. t = <<>>
      BY <1>1, <2>1
    <3>2. CASE d.out[q] = i /\ d.temp[q] = <<>> /\ k = <<>>
      BY <1>2, <1>3, <1>7, <2>1, <3>1, <3>2
    <3>3. CASE d.out[q] = k /\ d.temp[q] = i
      BY <1>2, <1>7, <2>1, <3>1, <3>3
    <3> QED
      BY <1>6, <2>1, <3>2, <3>3
  <2>2. CASE ~s.ready
    <3>1. CASE d.out[q] = t /\ d.temp[q] = <<>> /\ k = <<>>
      BY <1>1, <1>3, <1>7, <2>2, <3>1
    <3>2. CASE d.out[q] = k /\ d.temp[q] = t
      BY <1>1, <1>2, <1>7, <2>2, <3>2
    <3> QED
      BY <1>6, <2>2, <3>1, <3>2
  <2> QED
    BY <2>1, <2>2
<1>9. ASSUME NEW p
      PROVE  Only(p, d.out[q]) \o Only(p, d.temp[q]) =
                Only(p, k) \o Only(p, t) \o Only(p, IF s.ready THEN i ELSE <<>>)
  <2>1. Only(p, k) \in Slots(S) /\ Only(p, t) \in Slots(S) /\ Only(p, i) \in Slots(S)
    BY <1>1, <1>2, <1>5
  <2> QED
    BY <1>1, <1>4, <1>6, <1>7, <2>1
<1> QED
  BY <1>8, <1>9, Zenon DEF k, t, i, Carried, Cat

(* The rows a, b and c, d of two queues, once k, t and m, n, have room for *)
(* what came, f, and for what the first took from the second.              *)
TwoQueues(T, a, b, c, d, k, t, m, n, f) ==
    /\ IsRows(T) /\ HasEmpty(T)
    /\ a \in T /\ b \in T /\ c \in T /\ d \in T
    /\ k \in T /\ t \in T /\ m \in T /\ n \in T /\ f \in T
    /\ \/ Carried(a, b, k, t, m) /\ Carried(c, d, <<>>, n, f)
       \/ Carried(a, b, k, t, <<>>) /\ Carried(c, d, m, n, f)

(* Two queues, of which the first takes from the second or does not, are   *)
(* one.                                                                    *)
LEMMA Join ==
    ASSUME NEW T, NEW a, NEW b, NEW c, NEW d, NEW k, NEW t, NEW m, NEW n, NEW f,
           TwoQueues(T, a, b, c, d, k, t, m, n, f)
    PROVE  Row4(a, b, c, d) = Row5(k, t, m, n, f)
<1>1. /\ IsRows(T) /\ HasEmpty(T)
      /\ a \in T /\ b \in T /\ c \in T /\ d \in T
      /\ k \in T /\ t \in T /\ m \in T /\ n \in T /\ f \in T
  BY DEF TwoQueues
<1>2. Cat(Cat(Cat(a, b), c), d) = Cat(Cat(a, b), Cat(c, d))
  BY <1>1, Groups
<1>3. /\ Cat(k, t) \in T
      /\ Cat(Cat(Cat(Cat(k, t), m), n), f) = Cat(Cat(Cat(k, t), m), Cat(n, f))
      /\ Cat(Cat(Cat(Cat(k, t), m), n), f) = Cat(Cat(k, t), Cat(Cat(m, n), f))
  <2> DEFINE kt == Cat(k, t)
  <2>1. kt \in T /\ Cat(Cat(m, n), f) = Cat(m, Cat(n, f))
    BY <1>1, Groups
  <2> HIDE DEF kt
  <2>2. Cat(Cat(Cat(kt, m), n), f) = Cat(Cat(kt, m), Cat(n, f))
    BY <1>1, <2>1, Groups
  <2>3. Cat(Cat(Cat(kt, m), n), f) = Cat(kt, Cat(m, Cat(n, f)))
    BY <1>1, <2>1, Groups
  <2> QED
    BY <2>1, <2>2, <2>3 DEF kt
<1>4. \A x \in T : Cat(x, <<>>) = x /\ Cat(<<>>, x) = x
  BY <1>1 DEF HasEmpty
<1>5. CASE Carried(a, b, k, t, m) /\ Carried(c, d, <<>>, n, f)
  <2>1. Cat(a, b) = Cat(Cat(k, t), m)
    BY <1>5 DEF Carried
  <2>2. Cat(c, d) = Cat(n, f)
    BY <1>1, <1>4, <1>5 DEF Carried
  <2> QED
    BY <1>2, <1>3, <2>1, <2>2 DEF Row4, Row5
<1>6. CASE Carried(a, b, k, t, <<>>) /\ Carried(c, d, m, n, f)
  <2>1. Cat(a, b) = Cat(k, t)
    BY <1>3, <1>4, <1>6 DEF Carried
  <2>2. Cat(c, d) = Cat(Cat(m, n), f)
    BY <1>6 DEF Carried
  <2> QED
    BY <1>2, <1>3, <2>1, <2>2 DEF Row4, Row5
<1> QED
  BY <1>5, <1>6 DEF TwoQueues

(* Rows to put together.                                                   *)
Five(T, z, c, d, e, f) ==
    IsRows(T) /\ z \in T /\ c \in T /\ d \in T /\ e \in T /\ f \in T

(* A row behind another, however they are put together.                    *)
LEMMA Long ==
    ASSUME NEW T, NEW z, NEW c, NEW d, NEW e, NEW f, Five(T, z, c, d, e, f)
    PROVE  /\ Cat(Cat(Cat(Cat(z, c), d), e), f) = Cat(z, Cat(Cat(Cat(c, d), e), f))
           /\ Cat(Cat(Cat(z, c), d), e) = Cat(z, Cat(Cat(c, d), e))
           /\ Cat(Cat(Cat(c, d), e), f) \in T /\ Cat(Cat(Cat(Cat(z, c), d), e), f) \in T
<1>1. IsRows(T) /\ z \in T /\ c \in T /\ d \in T /\ e \in T /\ f \in T
  BY DEF Five
<1>2. Cat(z, c) \in T /\ Cat(c, d) \in T /\ Cat(Cat(c, d), e) \in T
  BY <1>1, Groups
<1>3. Cat(Cat(Cat(z, c), d), e) = Cat(z, Cat(Cat(c, d), e))
  <2>1. Cat(Cat(z, c), d) = Cat(z, Cat(c, d))
    BY <1>1, Groups
  <2> QED
    BY <1>1, <1>2, <2>1, Groups
<1>4. Cat(Cat(z, Cat(Cat(c, d), e)), f) = Cat(z, Cat(Cat(Cat(c, d), e), f))
  BY <1>1, <1>2, Groups
<1>5. Cat(Cat(Cat(Cat(z, c), d), e), f) \in T /\ Cat(Cat(Cat(c, d), e), f) \in T
  BY <1>1, <1>2, Groups
<1> QED
  BY <1>3, <1>4, <1>5

(* The row a2, b2 is k, b and x; the one behind it had y in front.         *)
Row6(a, b, c, d, e, f) == Cat(Row5(a, b, c, d, e), f)
HandedOver(T, a2, b2, o2, c2, d2, e2, k, b, x, y, o, c, d, e, f) ==
    /\ IsRows(T) /\ a2 \in T /\ b2 \in T /\ o2 \in T /\ c2 \in T /\ d2 \in T /\ e2 \in T
    /\ k \in T /\ b \in T /\ x \in T /\ y \in T /\ o \in T /\ c \in T /\ d \in T
    /\ e \in T /\ f \in T
    /\ Carried(a2, b2, k, b, x) /\ Row4(o2, c2, d2, e2) = Row5(y, c, d, e, f)
    /\ Cat(x, y) = o

(* A word that goes from the second of two queues to the first one leaves  *)
(* the row of both as it was.                                              *)
LEMMA Handover ==
    ASSUME NEW T, NEW a2, NEW b2, NEW o2, NEW c2, NEW d2, NEW e2, NEW k, NEW b, NEW x, NEW y,
           NEW o, NEW c, NEW d, NEW e, NEW f,
           HandedOver(T, a2, b2, o2, c2, d2, e2, k, b, x, y, o, c, d, e, f)
    PROVE  Row6(a2, b2, o2, c2, d2, e2) = Cat(Row6(k, b, o, c, d, e), f)
<1>1. /\ IsRows(T) /\ a2 \in T /\ b2 \in T /\ o2 \in T /\ c2 \in T /\ d2 \in T /\ e2 \in T
      /\ k \in T /\ b \in T /\ x \in T /\ y \in T /\ o \in T /\ c \in T /\ d \in T
      /\ e \in T /\ f \in T
  BY DEF HandedOver
<1>2. /\ Cat(a2, b2) = Cat(Cat(k, b), x)
      /\ Cat(Cat(Cat(o2, c2), d2), e2) = Cat(Cat(Cat(Cat(y, c), d), e), f)
      /\ Cat(x, y) = o
  BY DEF HandedOver, Carried, Row4, Row5
<1> DEFINE u == Cat(Cat(Cat(c, d), e), f)
           v == Cat(k, b)
           z == Cat(v, o)
           w == Cat(a2, b2)
<1>3. u \in T /\ v \in T /\ z \in T /\ w \in T
  BY <1>1, Groups
<1> HIDE DEF z, w
<1>4. Five(T, y, c, d, e, f) /\ Five(T, z, c, d, e, f) /\ Five(T, w, o2, c2, d2, e2)
  BY <1>1, <1>3 DEF Five
<1>5. Cat(Cat(Cat(Cat(y, c), d), e), f) = Cat(y, u)
  BY <1>4, Long
<1>6. Cat(Cat(Cat(Cat(z, c), d), e), f) = Cat(z, u)
  BY <1>4, Long
<1>7. Cat(Cat(Cat(Cat(w, o2), c2), d2), e2) = Cat(w, Cat(Cat(Cat(o2, c2), d2), e2))
  BY <1>4, Long
<1>8. Row6(a2, b2, o2, c2, d2, e2) = Cat(w, Cat(y, u))
  BY <1>2, <1>5, <1>7 DEF Row6, Row5, w
<1>9. Cat(Row6(k, b, o, c, d, e), f) = Cat(z, u)
  BY <1>6 DEF Row6, Row5, z
<1> HIDE DEF u, v
<1>10. Cat(Cat(v, x), Cat(y, u)) = Cat(Cat(v, Cat(x, y)), u)
  BY <1>1, <1>3, Groups
<1>11. w = Cat(v, x) /\ z = Cat(v, Cat(x, y))
  BY <1>2 DEF v, w, z
<1> QED
  BY <1>8, <1>9, <1>10, <1>11

-----------------------------------------------------------------------------
(* The thread of frames.                                                   *)

(* A word that is due is spun on.                                          *)
LEMMA ThreadOn ==
    ASSUME NEW S, NEW c \in Seq(S), NEW e, NEW f, NEW w \in S,
           Thread(e, c, f), Follows(f, w)
    PROVE  Thread(e, c \o <<w>>, After(w))
<1> DEFINE n == Len(c)
           d == c \o <<w>>
<1>1. <<w>> \in Seq(S) /\ Len(<<w>>) = 1 /\ <<w>>[1] = w
  OBVIOUS
<1>2. n \in Nat /\ (c = <<>> <=> n = 0)
  BY LenProperties, EmptySeq
<1>3. /\ d \in Seq(S) /\ Len(d) = n + 1
      /\ \A i \in 1 .. n + 1 : d[i] = IF i <= n THEN c[i] ELSE <<w>>[i - n]
  BY <1>1, ConcatProperties
<1> HIDE DEF n, d
<1>4. d[n + 1] = w /\ \A i \in 1 .. n : d[i] = c[i]
  BY <1>1, <1>2, <1>3
<1>5. d # <<>>
  BY <1>2, <1>3, EmptySeq
<1>6. Follows(e, d[1])
  BY <1>2, <1>4 DEF Thread
<1>7. ASSUME NEW i \in 1 .. n
      PROVE  Follows(After(d[i]), d[i + 1])
  <2>1. CASE i < n
    BY <1>2, <1>4, <2>1 DEF Thread, n
  <2>2. CASE i = n
    <3>1. c # <<>> /\ f = After(c[n])
      BY <1>2, <2>2 DEF Thread, n
    <3> QED
      BY <1>4, <2>2, <3>1
  <2> QED
    BY <1>2, <2>1, <2>2
<1>8. Len(d) - 1 = n
  BY <1>2, <1>3
<1>9. Thread(e, d, After(w))
  BY <1>3, <1>4, <1>5, <1>6, <1>7, <1>8 DEF Thread
<1> QED
  BY <1>9 DEF d

(* The first word is one that is due.                                      *)
LEMMA ThreadOff ==
    ASSUME NEW S, NEW c \in Seq(S), NEW e, NEW f, NEW w \in S, Thread(e, <<w>> \o c, f)
    PROVE  Follows(e, w) /\ Thread(After(w), c, f)
<1> DEFINE n == Len(c)
           d == <<w>> \o c
<1>1. <<w>> \in Seq(S) /\ Len(<<w>>) = 1 /\ <<w>>[1] = w
  OBVIOUS
<1>2. n \in Nat /\ (c = <<>> <=> n = 0)
  BY LenProperties, EmptySeq
<1>3. /\ d \in Seq(S) /\ Len(d) = 1 + n
      /\ \A i \in 1 .. 1 + n : d[i] = IF i <= 1 THEN <<w>>[i] ELSE c[i - 1]
  BY <1>1, ConcatProperties
<1>4. Thread(e, d, f)
  OBVIOUS
<1> HIDE DEF n, d
<1>5. d[1] = w /\ \A i \in 1 .. n : d[i + 1] = c[i]
  BY <1>1, <1>2, <1>3
<1>6. d # <<>> /\ Len(d) - 1 = n
  BY <1>2, <1>3, EmptySeq
<1>7. Follows(e, w) /\ f = After(d[n + 1])
  BY <1>2, <1>3, <1>4, <1>5, <1>6 DEF Thread
<1>8. CASE c = <<>>
  <2>1. n = 0 /\ f = After(w) /\ Len(c) = 0
    BY <1>2, <1>5, <1>7, <1>8 DEF n
  <2> QED
    BY <1>7, <1>8, <2>1 DEF Thread
<1>9. CASE c # <<>>
  <2>1. n >= 1 /\ f = After(c[n])
    BY <1>2, <1>5, <1>7, <1>9
  <2>2. Follows(After(w), c[1])
    <3>1. Follows(After(d[1]), d[2])
      BY <1>4, <1>6, <2>1, <1>2 DEF Thread
    <3> QED
      BY <1>2, <1>5, <2>1, <3>1
  <2>3. ASSUME NEW i \in 1 .. n - 1
        PROVE  Follows(After(c[i]), c[i + 1])
    <3>1. Follows(After(d[i + 1]), d[i + 2])
      BY <1>2, <1>4, <1>6 DEF Thread
    <3> QED
      BY <1>2, <1>5, <3>1
  <2> QED
    BY <1>7, <1>9, <2>1, <2>2, <2>3 DEF Thread, n
<1> QED
  BY <1>8, <1>9

-----------------------------------------------------------------------------
(* The switch of frames.                                                   *)
Shown(s) == IF s = Monitor THEN Seen(InCast(ToMonitor)) ELSE Seen(Coming(s))
Goal(p)  == ({Streams[p][Passing(p)].dest} \cap MPorts)
            \cup (IF bench # "switch" THEN {Monitor} ELSE {})
Sign(p)  == [port |-> p, id |-> p, k |-> Passing(p)]

(* What a sink is shown more when the ports in passing have a word go on.  *)
Adds(s, passing, g) ==
    \/ \E p \in passing : s \in Goal(p) /\ g = <<Sign(p)>>
    \/ (\A p \in passing : s \notin Goal(p)) /\ g = <<>>

(* What a step of the bench is to the switch of frames.                    *)
LEMMA FrameStep ==
    ASSUME bench' = bench, NEW passing \in SUBSET SPorts,
           \A p \in SPorts :
              Passing(p)' = IF p \in passing THEN NextK(p, Passing(p)) ELSE Passing(p),
           \A p \in passing : \A q \in SPorts \ {p} :
              Goal(p) \cap Goal(q) # {} => q \notin passing /\ ~Midst(q),
           \A s \in MPorts \cup {Monitor} :
              \E t, g : Shown(s)' = t \o g /\ t \in Shift(Shown(s)) /\ Adds(s, passing, g)
    PROVE  Frames!FsNext
<1> DEFINE nxt == [p \in SPorts |-> Passing(p)]
           sn  == [s \in MPorts \cup {Monitor} |-> Shown(s)]
<1>1. \A p \in SPorts : nxt[p] = Passing(p)
  OBVIOUS
<1>2. \A s \in MPorts \cup {Monitor} : sn[s] = Shown(s)
  OBVIOUS
<1>3. \A s \in MPorts \cup {Monitor} : sn'[s] = Shown(s)'
  OBVIOUS
<1>4. nxt' = [p \in SPorts |-> IF p \in passing THEN (nxt[p] % Len(Streams[p])) + 1 ELSE nxt[p]]
  BY <1>1 DEF NextK
<1>5. \A p \in SPorts : Frames!To(p) = Goal(p)
  BY <1>1 DEF Frames!To, Goal
<1>6. \A p \in SPorts : Frames!Sent(p) = Sign(p)
  BY <1>1 DEF Frames!Sent, Sign
<1>7. Frames!Pass(passing)
  <2>1. ASSUME NEW p \in passing, NEW q \in SPorts \ {p}, Frames!To(p) \cap Frames!To(q) # {}
        PROVE  q \notin passing /\ Streams[q][nxt[q]].start
    BY <1>1, <1>5, <2>1 DEF Midst
  <2> QED
    BY <1>4, <2>1 DEF Frames!Pass
<1>8. ASSUME NEW s \in MPorts \cup {Monitor}, NEW g, Adds(s, passing, g)
      PROVE  Frames!Gained(s, passing) = g
  <2>1. CASE \E p \in passing : s \in Goal(p)
    <3>1. PICK p \in passing : s \in Goal(p) /\ g = <<Sign(p)>>
      BY <1>8, <2>1 DEF Adds
    <3>2. \A q \in passing : s \in Goal(q) => q = p
      <4> SUFFICES ASSUME NEW q \in passing, s \in Goal(q), q # p
                   PROVE  FALSE
        OBVIOUS
      <4>1. Goal(p) \cap Goal(q) # {} /\ q \in SPorts \ {p}
        BY <3>1
      <4> QED
        BY <4>1
    <3>3. (CHOOSE q \in passing : s \in Frames!To(q)) = p
      BY <1>5, <3>1, <3>2
    <3>4. (\E q \in passing : s \in Frames!To(q)) /\ Frames!Sent(p) = Sign(p)
      BY <1>5, <1>6, <3>1
    <3> QED
      BY <3>1, <3>3, <3>4 DEF Frames!Gained
  <2>2. CASE \A p \in passing : s \notin Goal(p)
    <3>1. g = <<>> /\ ~(\E q \in passing : s \in Frames!To(q))
      BY <1>5, <1>8, <2>2 DEF Adds
    <3> QED
      BY <3>1 DEF Frames!Gained
  <2> QED
    BY <2>1, <2>2
<1>9. ASSUME NEW s \in MPorts \cup {Monitor}
      PROVE  sn'[s] \in Frames!Moved(s, passing)
  <2>1. PICK t, g : Shown(s)' = t \o g /\ t \in Shift(Shown(s)) /\ Adds(s, passing, g)
    OBVIOUS
  <2>2. Frames!Gained(s, passing) = g
    BY <1>8, <2>1
  <2>3. Shift(Shown(s)) = {sn[s]} \cup (IF sn[s] = <<>> THEN {} ELSE {Tail(sn[s])})
    BY <1>2 DEF Shift
  <2>4. Frames!Moved(s, passing) = {v \o g : v \in Shift(Shown(s))}
    BY <2>2, <2>3 DEF Frames!Moved, Shown
  <2>5. sn'[s] = t \o g
    BY <1>3, <2>1
  <2> QED
    BY <2>1, <2>4, <2>5
<1>10. DOMAIN sn' = MPorts \cup {Monitor}
  OBVIOUS
<1> QED
  BY <1>7, <1>9, <1>10 DEF Frames!FsNext, Frames!Sinks, Shown

-----------------------------------------------------------------------------
(* The chain behind a mux.                                                 *)

(* The rows that go through the broadcast.                                 *)
LEMMA CastRow ==
    ASSUME FabricInv, bench # "switch", bench' = bench, NEW fed, Feeds(fed), NEW R,
           BroadcastStep(Muxed.out[0], R), NEW q \in BPorts
    PROVE  LET k == IF q \in R THEN <<>> ELSE cast.out[q]
           IN  /\ cast' \in Path(BPorts, InChain)
               /\ InCast(q) = Row4(cast.out[q], cast.temp[q], Muxed.out[0], Muxed.temp[0])
               /\ InCast(q)' = Row5(k, cast.temp[q], Muxed.out[0], Muxed.temp[0], fed)
               /\ \A p : Row4(Only(p, cast'.out[q]), Only(p, cast'.temp[q]),
                              Only(p, Muxed'.out[0]), Only(p, Muxed'.temp[0]))
                         = Row5(Only(p, k), Only(p, cast.temp[q]), Only(p, Muxed.out[0]),
                                Only(p, Muxed.temp[0]), Only(p, fed))
<1> DEFINE k  == IF q \in R THEN <<>> ELSE cast.out[q]
           in == [i \in BPorts |-> Muxed.out[0]]
           taken == {i \in BPorts : CastPort[i] \in R}
           moved == \A i \in BPorts : cast.out[i] # <<>> => i \in taken
           inp == [i \in {0} |-> fed]
           tkn == IF cast.ready THEN {0} ELSE {}
           c == cast
           d == cast'
           m == Muxed
           n == Muxed'
<1>1. /\ c \in Path(BPorts, InChain) /\ m \in Path({0}, InChain) /\ n \in Path({0}, InChain)
      /\ fed \in Slots(InChain) /\ (fed # <<>> => m.ready) /\ Moves(m, n, 0, inp, tkn)
  BY DEF FabricInv, ChainInv, Feeds
<1>2. c.ready \in BOOLEAN /\ m.out[0] \in Slots(InChain) /\ m.temp[0] \in Slots(InChain)
      /\ n.out[0] \in Slots(InChain) /\ n.temp[0] \in Slots(InChain)
      /\ c.out[q] \in Slots(InChain) /\ c.temp[q] \in Slots(InChain) /\ m.ready \in BOOLEAN
  BY <1>1 DEF Path
<1>3. in \in [BPorts -> Slots(InChain)] /\ in[q] = m.out[0] /\ inp[0] = fed
  BY <1>2
<1>4. d = Datapath(c, in, taken, moved) /\ moved \in BOOLEAN
  BY DEF BroadcastStep
<1>5. q \in taken <=> q \in R
  BY Ports
<1> HIDE DEF in, taken, inp, tkn, moved
<1>6. moved => \A i \in BPorts : c.out[i] # <<>> => i \in taken
  BY DEF moved
<1>7. d \in Path(BPorts, InChain) /\ Moves(c, d, q, in, taken)
  BY <1>1, <1>3, <1>4, <1>6, Registers
<1> DEFINE u == IF c.ready THEN m.out[0] ELSE <<>>
           v == IF c.ready THEN <<>> ELSE m.out[0]
<1>8. k \in Slots(InChain) /\ Kept(c, q, taken) = k /\ <<>> \in Slots(InChain)
  BY <1>2, <1>5 DEF Kept, Slots
<1>9. Kept(m, 0, tkn) = v
  BY DEF Kept, tkn
<1>10. fed = (IF m.ready THEN inp[0] ELSE <<>>) /\ inp[0] \in Slots(InChain)
       /\ u = (IF c.ready THEN in[q] ELSE <<>>) /\ in[q] \in Slots(InChain)
  BY <1>1, <1>2, <1>3
<1>11. d.out[q] \in Slots(InChain) /\ d.temp[q] \in Slots(InChain)
  BY <1>7 DEF Path
<1> HIDE DEF k, c, d, m, n
<1>12. (u = m.out[0] /\ v = <<>>) \/ (u = <<>> /\ v = m.out[0])
  OBVIOUS
<1> HIDE DEF u, v
<1>13. /\ Carried(d.out[q], d.temp[q], k, c.temp[q], u)
       /\ \A p : Carried(Only(p, d.out[q]), Only(p, d.temp[q]), Only(p, k),
                        Only(p, c.temp[q]), Only(p, u))
  BY <1>1, <1>7, <1>8, <1>10, Queue
<1>14. /\ Carried(n.out[0], n.temp[0], v, m.temp[0], fed)
       /\ \A p : Carried(Only(p, n.out[0]), Only(p, n.temp[0]), Only(p, v),
                        Only(p, m.temp[0]), Only(p, fed))
  <2>1. 0 \in {0}
    OBVIOUS
  <2> QED
    BY <1>1, <1>9, <1>10, <2>1, Queue
<1> DEFINE T == Seq(InChain)
<1>15. IsRows(T) /\ HasEmpty(T)
  BY RowAlgebra
<1>16. \A x \in Slots(InChain) : x \in T /\ \A p : Only(p, x) \in T
  BY SlotFacts
<1> HIDE DEF T
<1>17. Row4(d.out[q], d.temp[q], n.out[0], n.temp[0])
          = Row5(k, c.temp[q], m.out[0], m.temp[0], fed)
  <2>1. /\ d.out[q] \in T /\ d.temp[q] \in T /\ n.out[0] \in T /\ n.temp[0] \in T
        /\ k \in T /\ c.temp[q] \in T /\ m.out[0] \in T /\ m.temp[0] \in T
        /\ fed \in T
    BY <1>1, <1>2, <1>8, <1>11, <1>16
  <2>2. \/ /\ Carried(d.out[q], d.temp[q], k, c.temp[q], m.out[0])
           /\ Carried(n.out[0], n.temp[0], <<>>, m.temp[0], fed)
        \/ /\ Carried(d.out[q], d.temp[q], k, c.temp[q], <<>>)
           /\ Carried(n.out[0], n.temp[0], m.out[0], m.temp[0], fed)
    BY <1>13, <1>14, <1>12
  <2>3. TwoQueues(T, d.out[q], d.temp[q], n.out[0], n.temp[0], k, c.temp[q], m.out[0],
                  m.temp[0], fed)
    BY <1>15, <2>1, <2>2 DEF TwoQueues
  <2> QED
    BY <2>3, Join
<1>18. ASSUME NEW p
       PROVE  Row4(Only(p, d.out[q]), Only(p, d.temp[q]), Only(p, n.out[0]), Only(p, n.temp[0]))
              = Row5(Only(p, k), Only(p, c.temp[q]), Only(p, m.out[0]), Only(p, m.temp[0]),
                     Only(p, fed))
  <2>1. Only(p, <<>>) = <<>>
    BY DEF Only
  <2>2. \/ Only(p, u) = Only(p, m.out[0]) /\ Only(p, v) = <<>>
        \/ Only(p, u) = <<>> /\ Only(p, v) = Only(p, m.out[0])
    BY <1>12, <2>1
  <2>3. /\ Only(p, d.out[q]) \in T /\ Only(p, d.temp[q]) \in T /\ Only(p, n.out[0]) \in T
        /\ Only(p, n.temp[0]) \in T /\ Only(p, k) \in T /\ Only(p, c.temp[q]) \in T
        /\ Only(p, m.out[0]) \in T /\ Only(p, m.temp[0]) \in T
        /\ Only(p, fed) \in T
    BY <1>1, <1>2, <1>8, <1>11, <1>16
  <2>4. \/ /\ Carried(Only(p, d.out[q]), Only(p, d.temp[q]), Only(p, k), Only(p, c.temp[q]),
                      Only(p, m.out[0]))
           /\ Carried(Only(p, n.out[0]), Only(p, n.temp[0]), <<>>, Only(p, m.temp[0]),
                      Only(p, fed))
        \/ /\ Carried(Only(p, d.out[q]), Only(p, d.temp[q]), Only(p, k), Only(p, c.temp[q]),
                      <<>>)
           /\ Carried(Only(p, n.out[0]), Only(p, n.temp[0]), Only(p, m.out[0]),
                      Only(p, m.temp[0]), Only(p, fed))
    BY <1>13, <1>14, <2>2
  <2>5. TwoQueues(T, Only(p, d.out[q]), Only(p, d.temp[q]), Only(p, n.out[0]),
                  Only(p, n.temp[0]), Only(p, k), Only(p, c.temp[q]), Only(p, m.out[0]),
                  Only(p, m.temp[0]), Only(p, fed))
    BY <1>15, <2>3, <2>4 DEF TwoQueues
  <2> QED
    BY <2>5, Join
<1>19. InCast(q) = Row4(c.out[q], c.temp[q], m.out[0], m.temp[0])
  BY Ports, Zenon DEF InCast, CastOut, Row4, Cat, c, m
<1>20. InCast(q)' = Row4(d.out[q], d.temp[q], n.out[0], n.temp[0])
  BY Ports, Zenon DEF InCast, CastOut, Row4, Cat, d, n
<1> QED
  BY <1>7, <1>17, <1>18, <1>19, <1>20 DEF k, c, d, m, n

(* Rows that an output register d, with k left of it, is at the head of.   *)
Pushes(d, k, t, m, n, f) ==
    /\ d \in Slots(Views) /\ (k = d \/ k = <<>>)
    /\ t \in Seq(Views) /\ m \in Seq(Views) /\ n \in Seq(Views) /\ f \in Seq(Views)

(* It gives its word away or not, and f comes behind.                      *)
LEMMA Pushed ==
    ASSUME NEW d, NEW k, NEW t, NEW m, NEW n, NEW f, Pushes(d, k, t, m, n, f)
    PROVE  \E x \in Shift(Row4(d, t, m, n)) : Row5(k, t, m, n, f) = x \o f
<1> DEFINE T == Seq(Views)
           r == Cat(Cat(t, m), n)
<1>1. /\ d \in Slots(Views) /\ (k = d \/ k = <<>>) /\ t \in T /\ m \in T /\ n \in T
      /\ f \in T
  BY DEF Pushes
<1>2. IsRows(T) /\ d \in T /\ <<>> \in T
  BY <1>1, RowAlgebra, SlotFacts DEF HasEmpty
<1>3. k \in T
  BY <1>1, <1>2
<1>4. r \in T
  BY <1>1, <1>2, Groups
<1>5. ASSUME NEW h \in T
      PROVE  Cat(Cat(Cat(h, t), m), n) = Cat(h, r)
  <2>1. Five(T, h, t, m, n, f)
    BY <1>1, <1>2 DEF Five
  <2> QED
    BY <2>1, Long
<1>6. Row4(d, t, m, n) = Cat(d, r) /\ Row5(k, t, m, n, f) = Cat(Cat(k, r), f)
  BY <1>2, <1>3, <1>5 DEF Row4, Row5
<1> HIDE DEF r
<1>7. \E x \in Shift(Cat(d, r)) : Cat(Cat(k, r), f) = Cat(x, f)
  <2>1. Heads(Views, d, k, r, f)
    BY <1>1, <1>4 DEF Heads
  <2> QED
    BY <2>1, Advance
<1> QED
  BY <1>6, <1>7, Zenon DEF Cat

(* A longer row.                                                           *)
PushesFar(a, k, b, c, d, e, g, f) ==
    /\ a \in Slots(Views) /\ (k = a \/ k = <<>>)
    /\ b \in Seq(Views) /\ c \in Seq(Views) /\ d \in Seq(Views)
    /\ e \in Seq(Views) /\ g \in Seq(Views) /\ f \in Seq(Views)

(* The same of it.                                                         *)
LEMMA PushedFar ==
    ASSUME NEW a, NEW k, NEW b, NEW c, NEW d, NEW e, NEW g, NEW f,
           PushesFar(a, k, b, c, d, e, g, f)
    PROVE  \E x \in Shift(Row6(a, b, c, d, e, g)) : Cat(Row6(k, b, c, d, e, g), f) = x \o f
<1> DEFINE T == Seq(Views)
           r == Cat(Cat(Cat(Cat(b, c), d), e), g)
<1>1. /\ a \in Slots(Views) /\ (k = a \/ k = <<>>) /\ b \in T /\ c \in T /\ d \in T
      /\ e \in T /\ g \in T /\ f \in T
  BY DEF PushesFar
<1>2. IsRows(T) /\ a \in T /\ <<>> \in T
  BY <1>1, RowAlgebra, SlotFacts DEF HasEmpty
<1>3. k \in T
  BY <1>1, <1>2
<1>4. r \in T
  <2>1. Five(T, b, c, d, e, g)
    BY <1>1, <1>2 DEF Five
  <2> QED
    BY <2>1, Long
<1>5. ASSUME NEW h \in T
      PROVE  Row6(h, b, c, d, e, g) = Cat(h, r)
  <2> DEFINE v == Cat(h, b)
             u == Cat(Cat(Cat(c, d), e), g)
  <2>1. v \in T /\ u \in T
    BY <1>1, <1>2, Groups
  <2> HIDE DEF v
  <2>2. Five(T, v, c, d, e, g) /\ Five(T, b, c, d, e, g)
    BY <1>1, <1>2, <2>1 DEF Five
  <2>3. Cat(Cat(Cat(Cat(v, c), d), e), g) = Cat(v, u)
    BY <2>2, Long
  <2>4. r = Cat(b, u)
    BY <2>2, Long
  <2> HIDE DEF u
  <2>5. Cat(v, u) = Cat(h, Cat(b, u))
    BY <1>1, <1>2, <2>1, Groups DEF v
  <2> QED
    BY <2>3, <2>4, <2>5 DEF Row6, Row5, v
<1> HIDE DEF r
<1>6. Row6(a, b, c, d, e, g) = Cat(a, r) /\ Row6(k, b, c, d, e, g) = Cat(k, r)
  BY <1>2, <1>3, <1>5
<1>7. \E x \in Shift(Cat(a, r)) : Cat(Cat(k, r), f) = Cat(x, f)
  <2>1. Heads(Views, a, k, r, f)
    BY <1>1, <1>4 DEF Heads
  <2> QED
    BY <2>1, Advance
<1> QED
  BY <1>6, <1>7, Zenon DEF Cat

(* What is seen of rows.                                                   *)
SixSeen(a, b, c, d, e, f) ==
    /\ Seen(a) \in Slots(Views) /\ Seen(a) \in Seq(Views) /\ (a = <<>> => Seen(a) = <<>>)
    /\ Seen(Cat(a, b)) = Cat(Seen(a), Seen(b))
    /\ Seen(Cat(Cat(a, b), c)) = Cat(Cat(Seen(a), Seen(b)), Seen(c))
    /\ Seen(Row4(a, b, c, d)) = Row4(Seen(a), Seen(b), Seen(c), Seen(d))
    /\ Seen(Row5(a, b, c, d, e)) = Row5(Seen(a), Seen(b), Seen(c), Seen(d), Seen(e))
    /\ Seen(Row6(a, b, c, d, e, f))
          = Row6(Seen(a), Seen(b), Seen(c), Seen(d), Seen(e), Seen(f))

(* A row of registers is seen register by register.                        *)
LEMMA SeenSix ==
    ASSUME NEW a \in Slots(AtOutput), NEW b \in Slots(AtOutput), NEW c \in Slots(AtOutput),
           NEW d \in Slots(AtOutput), NEW e \in Slots(AtOutput), NEW f \in Slots(AtOutput)
    PROVE  SixSeen(a, b, c, d, e, f)
<1> DEFINE T == Seq(AtOutput)
           ab == Cat(a, b)
           abc == Cat(ab, c)
           abcd == Cat(abc, d)
           abcde == Cat(abcd, e)
<1>1. IsRows(T) /\ a \in T /\ b \in T /\ c \in T /\ d \in T /\ e \in T /\ f \in T
  BY RowAlgebra, SlotFacts
<1>2. \A x, y \in T : Seen(Cat(x, y)) = Cat(Seen(x), Seen(y))
  BY SeenTogether DEF Cat
<1>3. Seen(a) \in Slots(Views)
  <2>1. a # <<>> => View(a[1]) \in Views
    <3>1. a # <<>> => a[1] \in AtOutput
      BY SlotFacts
    <3> QED
      BY <3>1 DEF AtOutput, Genuine, Words, View, Views
  <2> QED
    BY <2>1, SeenSlot DEF Slots
<1>4. Seen(a) \in Seq(Views)
  BY <1>3, SlotFacts
<1>5. a = <<>> => Seen(a) = <<>>
  BY SeenSlot
<1>6. ab \in T /\ abc \in T /\ abcd \in T /\ abcde \in T
  <2>1. ab \in T
    BY <1>1, Groups
  <2> HIDE DEF ab
  <2>2. abc \in T
    BY <1>1, <2>1, Groups
  <2> HIDE DEF abc
  <2>3. abcd \in T
    BY <1>1, <2>2, Groups
  <2> HIDE DEF abcd
  <2>4. abcde \in T
    BY <1>1, <2>3, Groups
  <2> QED
    BY <2>1, <2>2, <2>3, <2>4
<1>7. Row4(a, b, c, d) = abcd /\ Row5(a, b, c, d, e) = abcde
      /\ Row6(a, b, c, d, e, f) = Cat(abcde, f)
  BY DEF Row4, Row5, Row6
<1> HIDE DEF T
<1>8. Seen(ab) = Cat(Seen(a), Seen(b))
  BY <1>1, <1>2
<1> HIDE DEF ab
<1>9. Seen(abc) = Cat(Seen(ab), Seen(c))
  BY <1>1, <1>2, <1>6
<1> HIDE DEF abc
<1>10. Seen(abcd) = Cat(Seen(abc), Seen(d))
  BY <1>1, <1>2, <1>6
<1> HIDE DEF abcd
<1>11. Seen(abcde) = Cat(Seen(abcd), Seen(e))
  BY <1>1, <1>2, <1>6
<1> HIDE DEF abcde
<1>12. Seen(Cat(abcde, f)) = Cat(Seen(abcde), Seen(f))
  BY <1>1, <1>2, <1>6
<1> QED
  BY <1>3, <1>4, <1>5, <1>7, <1>8, <1>9, <1>10, <1>11, <1>12
     DEF ab, abc, Row4, Row5, Row6, SixSeen

(* The same for one register,                                              *)
LEMMA SeenOne ==
    ASSUME NEW a \in Slots(AtOutput)
    PROVE  Seen(a) \in Slots(Views) /\ Seen(a) \in Seq(Views) /\ (a = <<>> => Seen(a) = <<>>)
<1>1. SixSeen(a, a, a, a, a, a)
  BY SeenSix
<1> QED
  BY <1>1 DEF SixSeen

(* for two,                                                                *)
LEMMA SeenTwo ==
    ASSUME NEW a \in Slots(AtOutput), NEW b \in Slots(AtOutput)
    PROVE  Seen(Cat(a, b)) = Cat(Seen(a), Seen(b))
<1>1. SixSeen(a, b, a, a, a, a)
  BY SeenSix
<1> QED
  BY <1>1 DEF SixSeen

(* three,                                                                  *)
LEMMA SeenThree ==
    ASSUME NEW a \in Slots(AtOutput), NEW b \in Slots(AtOutput), NEW c \in Slots(AtOutput)
    PROVE  Seen(Cat(Cat(a, b), c)) = Cat(Cat(Seen(a), Seen(b)), Seen(c))
<1>1. SixSeen(a, b, c, a, a, a)
  BY SeenSix
<1> QED
  BY <1>1 DEF SixSeen

(* four,                                                                   *)
LEMMA SeenFour ==
    ASSUME NEW a \in Slots(AtOutput), NEW b \in Slots(AtOutput), NEW c \in Slots(AtOutput),
           NEW d \in Slots(AtOutput)
    PROVE  Seen(Row4(a, b, c, d)) = Row4(Seen(a), Seen(b), Seen(c), Seen(d))
<1>1. SixSeen(a, b, c, d, a, a)
  BY SeenSix
<1> QED
  BY <1>1 DEF SixSeen

(* five,                                                                   *)
LEMMA SeenFive ==
    ASSUME NEW a \in Slots(AtOutput), NEW b \in Slots(AtOutput), NEW c \in Slots(AtOutput),
           NEW d \in Slots(AtOutput), NEW e \in Slots(AtOutput)
    PROVE  Seen(Row5(a, b, c, d, e)) = Row5(Seen(a), Seen(b), Seen(c), Seen(d), Seen(e))
<1>1. SixSeen(a, b, c, d, e, a)
  BY SeenSix
<1> QED
  BY <1>1 DEF SixSeen

(* and six.                                                                *)
LEMMA SeenAll ==
    ASSUME NEW a \in Slots(AtOutput), NEW b \in Slots(AtOutput), NEW c \in Slots(AtOutput),
           NEW d \in Slots(AtOutput), NEW e \in Slots(AtOutput), NEW f \in Slots(AtOutput)
    PROVE  Seen(Row6(a, b, c, d, e, f)) =
              Row6(Seen(a), Seen(b), Seen(c), Seen(d), Seen(e), Seen(f))
<1>1. SixSeen(a, b, c, d, e, f)
  BY SeenSix
<1> QED
  BY <1>1 DEF SixSeen

(* The demux knows the way of a word that is due.                          *)
LEMMA Routes ==
    ASSUME PowersOfTwo, FabricInv, bench # "switch", NEW e, DemuxAt(e),
           NEW w \in InChain, Follows(e, w)
    PROVE  /\ Of(w).dest \in Nat
           /\ ~frame => Route(w) = Of(w).dest
           /\ frame => (drop <=> Of(w).dest \notin MPorts) /\ (drop \/ select = Of(w).dest)
           /\ Of(w).dest \in MPorts <=> ~(Of(w).dest >= M_COUNT)
<1> DEFINE M == Pow(M_DEST_WIDTH)
<1>1. /\ w.port \in SPorts /\ w.k \in Numbers(w.port) /\ w.k \in Nat
      /\ w.tdest = TDest(w.port, w.k)
  BY DEF InChain, AtOutput, Genuine, Words
<1>2. Of(w) \in [start : BOOLEAN, last : BOOLEAN, dest : Nat]
  BY <1>1, Circle DEF Of
<1>3. CASE e = {}
  <2>1. Of(w).start /\ ~frame
    BY <1>3 DEF Follows, DemuxAt, DemuxIs
  <2>2. w.tdest = Of(w).dest * M
    BY <1>1, <2>1 DEF TDest, Of
  <2>3. M \in Nat \ {0} /\ 2^(S_DEST_WIDTH - CLog2(M_COUNT)) = M
    BY Widths
  <2>4. Route(w) = w.tdest \div M
    BY <2>3, Zenon DEF Route
  <2> HIDE DEF M
  <2>5. 0 \in 0 .. M - 1 /\ Of(w).dest \in Nat
    BY <1>2, <2>3
  <2>6. (0 + Of(w).dest * M) \div M = Of(w).dest
    BY <2>3, <2>5, TwoParts
  <2>7. 0 + Of(w).dest * M = Of(w).dest * M
    BY <2>3, <2>5
  <2>8. Route(w) = Of(w).dest
    BY <2>2, <2>4, <2>6, <2>7
  <2> QED
    BY <1>2, <2>1, <2>8, Ports DEF MPorts
<1>4. CASE e # {}
  <2>1. frame /\ e = {<<w.port, w.k>>}
    BY <1>4 DEF Follows, DemuxAt, DemuxIs
  <2>2. PICK p \in SPorts, k \in Nat :
           /\ e = {<<p, k>>} /\ (drop <=> Streams[p][k].dest \notin MPorts)
           /\ drop \/ select = Streams[p][k].dest
    BY <1>4 DEF DemuxAt, DemuxIs
  <2>3. p = w.port /\ k = w.k
    <3>1. {<<p, k>>} = {<<w.port, w.k>>}
      BY <2>1, <2>2
    <3>2. <<p, k>> = <<w.port, w.k>>
      BY <3>1, Zenon
    <3> QED
      BY <3>2
  <2> QED
    BY <1>2, <2>1, <2>2, <2>3, Ports DEF MPorts, Of
<1> QED
  BY <1>3, <1>4

(* A clock edge of the demux with a word that is due.                      *)
LEMMA DemuxMoves ==
    ASSUME PowersOfTwo, FabricInv, bench # "switch", NEW ready, NEW in \in Slots(InChain),
           DemuxStep(in, ready), NEW e, DemuxAt(e), in # <<>> => Follows(e, in[1])
    PROVE  /\ demux' \in Path(MPorts, AtOutput)
           /\ Lone(MPorts, demux'.out) /\ Lone(MPorts, demux'.temp)
           /\ select' \in Nat /\ drop' \in BOOLEAN /\ frame' \in BOOLEAN
           /\ s_axis_tready' \in BOOLEAN /\ (s_axis_tready' \/ drop' => demux'.ready)
           /\ DemuxIs(IF in # <<>> /\ s_axis_tready THEN After(in[1]) ELSE e,
                      frame', drop', select')
           /\ \A p \in MPorts :
                 \E k, x \in Slots(AtOutput) :
                    /\ k = demux.out[p] \/ k = <<>>
                    /\ Carried(demux'.out[p], demux'.temp[p], k, demux.temp[p], x)
                    /\ Cat(Seen(x), Seen(Only(p, IF s_axis_tready THEN <<>> ELSE in)))
                          = Seen(Only(p, in))
<1> DEFINE accepted == in # <<>> /\ s_axis_tready
           first == accepted /\ ~frame
           last  == accepted /\ in[1].last
           select_ctl == IF first THEN Route(in[1]) ELSE select
           drop_ctl   == IF first THEN Route(in[1]) >= M_COUNT ELSE drop
           taken == {i \in MPorts : demux.out[i] # <<>> /\ DemuxPort[i] \in ready}
           moved == taken # {}
           out   == [in[1] EXCEPT !.tdest = @ % 2^M_DEST_WIDTH]
           inp   == [i \in MPorts |-> IF accepted /\ ~drop_ctl /\ i = select_ctl THEN <<out>>
                                      ELSE <<>>]
           f     == IF accepted THEN After(in[1]) ELSE e
           D     == Of(in[1]).dest
<1>1. /\ demux \in Path(MPorts, AtOutput)
      /\ Lone(MPorts, demux.out) /\ Lone(MPorts, demux.temp)
      /\ select \in Nat /\ drop \in BOOLEAN /\ frame \in BOOLEAN /\ s_axis_tready \in BOOLEAN
      /\ s_axis_tready \/ drop => demux.ready
  BY DEF FabricInv, ChainInv
<1>2. /\ select' = IF first /\ ~last THEN select_ctl ELSE select
      /\ drop' = (drop_ctl /\ ~last)
      /\ frame' = (IF accepted THEN ~last ELSE frame)
      /\ demux' = Datapath(demux, inp, taken, moved)
      /\ s_axis_tready' = (demux'.ready \/ drop_ctl)
  BY Zenon DEF DemuxStep
<1>3. in # <<>> =>
         /\ in[1] \in InChain /\ in = <<in[1]>> /\ in[1].last \in BOOLEAN
         /\ in[1].port \in SPorts /\ in[1].k \in Numbers(in[1].port) /\ in[1].k \in Nat
         /\ in[1].last = Of(in[1]).last
  BY SlotFacts DEF InChain, AtOutput, Genuine, Words
<1>4. in # <<>> =>
         /\ D \in Nat /\ (~frame => Route(in[1]) = D)
         /\ frame => (drop <=> D \notin MPorts) /\ (drop \/ select = D)
         /\ D \in MPorts <=> ~(D >= M_COUNT)
  BY <1>3, Routes
<1>5. in # <<>> => out \in AtOutput /\ View(out) = View(in[1])
  <2> SUFFICES ASSUME in # <<>>
               PROVE  out \in AtOutput /\ View(out) = View(in[1])
    OBVIOUS
  <2>1. in[1] \in Words /\ in[1].tdest \in Nat
    BY <1>3 DEF InChain, AtOutput, Genuine, Words
  <2>2. in[1].tdest % 2^M_DEST_WIDTH \in Nat
    BY <2>1, Widths
  <2> DEFINE t == in[1].tdest % 2^M_DEST_WIDTH
  <2>3. out = [in[1] EXCEPT !.tdest = t]
    BY Zenon
  <2> HIDE DEF t, out
  <2>4. out \in Words /\ out.port = in[1].port /\ out.k = in[1].k /\ out.last = in[1].last
        /\ out.tid = in[1].tid
    BY <2>1, <2>2, <2>3 DEF Words, t
  <2> QED
    BY <1>3, <2>4 DEF InChain, AtOutput, Genuine, Of, View
<1> HIDE DEF out
<1>6. accepted => /\ drop_ctl <=> D \notin MPorts
                  /\ drop_ctl \/ select_ctl = D
                  /\ D \in Nat
  BY <1>1, <1>4
<1>7. drop_ctl \in BOOLEAN /\ (drop_ctl => ~accepted \/ D \notin MPorts) /\ last \in BOOLEAN
      /\ accepted \in BOOLEAN
  <2>1. first => Route(in[1]) = D /\ D \in Nat
    BY <1>4
  <2>2. first => (Route(in[1]) >= M_COUNT) \in BOOLEAN
    BY <2>1, Ports
  <2> QED
    BY <1>1, <1>3, <1>6, <2>2
<1>8. inp \in [MPorts -> Slots(AtOutput)]
  BY <1>5 DEF Slots
<1>9. Lone(MPorts, inp)
  BY DEF Lone
<1>10. moved => \A q \in MPorts : demux.out[q] # <<>> => q \in taken
  BY <1>1 DEF Lone
<1>11. moved \in BOOLEAN
  OBVIOUS
<1>12. drop_ctl => demux.ready /\ \A q \in MPorts : inp[q] = <<>>
  BY <1>1
<1>13. accepted => demux.ready
  BY <1>1
<1>14. \A q \in MPorts : inp[q] # <<>> => demux.ready
  BY <1>13
<1>15. accepted => \A q \in MPorts : inp[q] = IF D = q THEN <<out>> ELSE <<>>
  BY <1>6
<1>16. ~accepted => \A q \in MPorts : inp[q] = <<>>
  OBVIOUS
<1> HIDE DEF inp, taken, moved
<1>17. /\ demux' \in Path(MPorts, AtOutput)
       /\ \A q \in MPorts : Moves(demux, demux', q, inp, taken)
       /\ demux.ready /\ (\A q \in MPorts : inp[q] = <<>>) => demux'.ready
       /\ Lone(MPorts, demux'.out) /\ Lone(MPorts, demux'.temp)
  BY <1>1, <1>2, <1>8, <1>9, <1>10, <1>11, Registers
<1>18. demux'.ready \in BOOLEAN
  BY <1>17 DEF Path
<1>19. /\ s_axis_tready' \in BOOLEAN /\ (s_axis_tready' \/ drop' => demux'.ready)
       /\ drop' \in BOOLEAN /\ frame' \in BOOLEAN
  BY <1>1, <1>2, <1>7, <1>12, <1>17, <1>18
<1>20. select' \in Nat
  BY <1>1, <1>2, <1>4
<1>21. DemuxIs(f, frame', drop', select')
  <2>1. CASE ~accepted
    <3>1. frame' = frame /\ drop' = drop /\ select' = select /\ f = e
      BY <1>1, <1>2, <2>1
    <3> QED
      BY <3>1 DEF DemuxAt
  <2>2. CASE accepted /\ last
    <3>1. f = {} /\ ~frame' /\ ~drop'
      BY <1>2, <2>2 DEF After
    <3> QED
      BY <3>1 DEF DemuxIs
  <2>3. CASE accepted /\ ~last
    <3> DEFINE p == in[1].port
               n == NextK(p, in[1].k)
    <3>1. f = {<<p, n>>} /\ frame' /\ drop' = drop_ctl
      BY <1>2, <1>7, <2>3 DEF After
    <3>2. p \in SPorts /\ n \in Numbers(p) /\ n \in Nat /\ ~Streams[p][n].start
          /\ Streams[p][n].dest = D
      <4>1. p \in SPorts /\ in[1].k \in Numbers(p) /\ ~Streams[p][in[1].k].last
        BY <1>3, <2>3 DEF Of
      <4>2. /\ n \in Numbers(p) /\ Streams[p][n].start = Streams[p][in[1].k].last
            /\ Streams[p][n].dest = Streams[p][in[1].k].dest
        BY <4>1, Circle
      <4>3. n \in Nat
        BY <4>1, <4>2, Circle
      <4> QED
        BY <4>1, <4>2, <4>3 DEF Of
    <3>3. ~drop_ctl => select' = D
      BY <1>2, <1>6, <1>4, <2>3
    <3>4. f # {}
      BY <3>1
    <3> HIDE DEF f, drop_ctl, D, n, p
    <3> QED
      BY <1>6, <2>3, <3>1, <3>2, <3>3, <3>4 DEF DemuxIs
  <2> QED
    BY <2>1, <2>2, <2>3
<1>22. ASSUME NEW p \in MPorts
       PROVE  \E k, x \in Slots(AtOutput) :
                 /\ k = demux.out[p] \/ k = <<>>
                 /\ Carried(demux'.out[p], demux'.temp[p], k, demux.temp[p], x)
                 /\ Cat(Seen(x), Seen(Only(p, IF s_axis_tready THEN <<>> ELSE in)))
                       = Seen(Only(p, in))
  <2> DEFINE k == Kept(demux, p, taken)
             x == inp[p]
  <2>1. /\ k = demux.out[p] \/ k = <<>>
        /\ k \in Slots(AtOutput) /\ x \in Slots(AtOutput)
        /\ x = IF demux.ready THEN inp[p] ELSE <<>>
    BY <1>1, <1>8, <1>14 DEF Kept, Path, Slots
  <2>2. Carried(demux'.out[p], demux'.temp[p], k, demux.temp[p], x)
    BY <1>1, <1>17, <2>1, Queue
  <2>3. HasEmpty(Seq(Views)) /\ Only(p, <<>>) = <<>>
    BY RowAlgebra DEF Only
  <2>4. \A y \in Slots(AtOutput) : Seen(y) \in Seq(Views) /\ (y = <<>> => Seen(y) = <<>>)
    BY SeenOne
  <2>5. /\ in \in Slots(AtOutput) /\ Only(p, in) \in Slots(AtOutput)
        /\ <<>> \in Slots(AtOutput)
    <3>1. in \in Slots(AtOutput)
      BY DEF Slots, InChain
    <3> QED
      BY <3>1, SlotFacts DEF Slots
  <2>6. CASE ~s_axis_tready
    <3>1. x = <<>>
      BY <1>16, <2>6
    <3> QED
      BY <2>1, <2>2, <2>3, <2>4, <2>5, <2>6, <3>1 DEF HasEmpty
  <2>7. CASE s_axis_tready
    <3>1. Seen(x) = Seen(Only(p, in))
      <4>1. CASE in = <<>>
        BY <1>16, <2>3, <4>1
      <4>2. CASE in # <<>> /\ D = p
        <5>1. x = <<out>> /\ Only(p, in) = in
          BY <1>15, <2>7, <4>2 DEF Only, Of
        <5>2. Seen(x) = <<View(out)>> /\ Seen(in) = <<View(in[1])>>
          BY <2>1, <2>5, <4>2, <5>1, SeenSlot
        <5> QED
          BY <1>5, <4>2, <5>1, <5>2
      <4>3. CASE in # <<>> /\ D # p
        BY <1>15, <2>7, <4>3 DEF Only, Of
      <4> QED
        BY <4>1, <4>2, <4>3
    <3>2. Seen(Only(p, <<>>)) = <<>>
      BY <2>3, <2>4, <2>5
    <3>3. Cat(Seen(x), <<>>) = Seen(x)
      BY <2>1, <2>3, <2>4 DEF HasEmpty
    <3> QED
      BY <2>1, <2>2, <2>7, <3>1, <3>2, <3>3
  <2> QED
    BY <2>6, <2>7
<1> QED
  BY <1>17, <1>19, <1>20, <1>21, <1>22

(* The frame under way at the mux.                                         *)
LEMMA BegunMoves ==
    ASSUME NEW fed, Feeds(fed)
    PROVE  /\ fed = <<>> => Begun' = Begun
           /\ fed # <<>> => Follows(Begun, fed[1]) /\ Begun' = After(fed[1])
<1>1. \A p \in SPorts :
         Passing(p)' = IF fed # <<>> /\ fed[1].port = p THEN NextK(p, Passing(p)) ELSE Passing(p)
  BY DEF Feeds
<1>2. \A p \in SPorts : Midst(p)' <=> ~Streams[p][Passing(p)'].start
  BY DEF Midst
<1>3. /\ Begun  = {<<p, Passing(p)>> : p \in {q \in SPorts : Midst(q)}}
      /\ Begun' = {<<p, Passing(p)'>> : p \in {q \in SPorts : Midst(q)'}}
  BY DEF Begun
<1>4. CASE fed = <<>>
  <2>1. \A p \in SPorts : Passing(p)' = Passing(p) /\ (Midst(p)' <=> Midst(p))
    BY <1>1, <1>2, <1>4 DEF Midst
  <2> QED
    BY <1>3, <1>4, <2>1
<1>5. CASE fed # <<>>
  <2> DEFINE w == fed[1]
             g == w.port
             n == NextK(g, w.k)
  <2>1. /\ w \in InChain /\ w.k = Passing(g)
        /\ \A p \in SPorts \ {g} : ~Midst(p)
    BY <1>5, SlotFacts DEF Feeds
  <2>2. /\ g \in SPorts /\ w.k \in Numbers(g) /\ w.last = Of(w).last
    BY <2>1 DEF InChain, AtOutput, Genuine, Words
  <2>3. Streams[g][n].start = Streams[g][w.k].last
    BY <2>2, Circle
  <2>4. Passing(g)' = n /\ \A p \in SPorts \ {g} : ~Midst(p)'
    BY <1>1, <1>2, <1>5, <2>1, <2>2 DEF Midst
  <2>5. Midst(g)' <=> ~w.last
    BY <1>2, <2>2, <2>3, <2>4 DEF Of
  <2>6. Follows(Begun, w)
    <3>1. CASE Midst(g)
      <4>1. Begun = {<<g, w.k>>}
        BY <1>3, <2>1, <2>2, <3>1
      <4> QED
        BY <4>1 DEF Follows
    <3>2. CASE ~Midst(g)
      <4>1. Begun = {} /\ Of(w).start
        BY <1>3, <2>1, <2>2, <3>2 DEF Midst, Of
      <4> QED
        BY <4>1 DEF Follows
    <3> QED
      BY <3>1, <3>2
  <2>7. Begun' = After(w)
    <3>1. CASE w.last
      BY <1>3, <2>4, <2>5, <3>1 DEF After
    <3>2. CASE ~w.last
      <4>1. \A p \in SPorts : Midst(p)' <=> p = g
        BY <2>4, <2>5, <3>2
      <4>2. Begun' = {<<g, n>>}
        BY <1>3, <2>2, <2>4, <4>1
      <4> QED
        BY <3>2, <4>2 DEF After
    <3> QED
      BY <3>1, <3>2
  <2> QED
    BY <1>5, <2>6, <2>7
<1> QED
  BY <1>4, <1>5

(* The ports that a mux lets a word pass.                                  *)
Fed(fed) == IF fed = <<>> THEN {} ELSE {fed[1].port}

(* What is on the way to the monitor moves on by its own.                  *)
LEMMA MonitorMoves ==
    ASSUME FabricInv, bench # "switch", bench' = bench, NEW fed, Feeds(fed), NEW R,
           BroadcastStep(Muxed.out[0], R)
    PROVE  \E t, g : /\ Shown(Monitor)' = t \o g /\ t \in Shift(Shown(Monitor))
                     /\ Adds(Monitor, Fed(fed), g)
<1> DEFINE q == ToMonitor
           d == cast.out[q]
           k == IF q \in R THEN <<>> ELSE d
           t == cast.temp[q]
           m == Muxed.out[0]
           n == Muxed.temp[0]
<1>1. q \in BPorts
  BY Ports
<1>2. /\ InCast(q) = Row4(d, t, m, n)
      /\ InCast(q)' = Row5(k, t, m, n, fed)
  BY <1>1, CastRow
<1>3. /\ cast \in Path(BPorts, InChain) /\ Muxed \in Path({0}, InChain)
      /\ fed \in Slots(InChain)
  BY DEF FabricInv, ChainInv, Feeds
<1>4. /\ d \in Slots(InChain) /\ t \in Slots(InChain) /\ m \in Slots(InChain)
      /\ n \in Slots(InChain)
  BY <1>1, <1>3 DEF Path
<1> HIDE DEF q, d, t, m, n
<1>5. k \in Slots(InChain) /\ (k = d \/ k = <<>>)
  BY <1>4 DEF Slots
<1> HIDE DEF k
<1>6. \A x \in Slots(InChain) : x \in Slots(AtOutput)
  BY DEF Slots, InChain
<1>7. /\ Seen(InCast(q)) = Row4(Seen(d), Seen(t), Seen(m), Seen(n))
      /\ Seen(InCast(q)') = Row5(Seen(k), Seen(t), Seen(m), Seen(n), Seen(fed))
  <2>1. /\ d \in Slots(AtOutput) /\ k \in Slots(AtOutput) /\ t \in Slots(AtOutput)
        /\ m \in Slots(AtOutput) /\ n \in Slots(AtOutput) /\ fed \in Slots(AtOutput)
    BY <1>3, <1>4, <1>5, <1>6
  <2>2. Seen(Row4(d, t, m, n)) = Row4(Seen(d), Seen(t), Seen(m), Seen(n))
    BY <2>1, SeenFour
  <2>3. Seen(Row5(k, t, m, n, fed)) = Row5(Seen(k), Seen(t), Seen(m), Seen(n), Seen(fed))
    BY <2>1, SeenFive
  <2> QED
    BY <1>2, <2>2, <2>3
<1>8. /\ Seen(d) \in Slots(Views) /\ Seen(t) \in Seq(Views) /\ Seen(m) \in Seq(Views)
      /\ Seen(n) \in Seq(Views) /\ Seen(fed) \in Seq(Views)
      /\ Seen(k) = Seen(d) \/ Seen(k) = <<>>
  BY <1>3, <1>4, <1>5, <1>6, SeenOne
<1>9. PICK x \in Shift(Seen(InCast(q))) : Seen(InCast(q)') = x \o Seen(fed)
  <2>1. Pushes(Seen(d), Seen(k), Seen(t), Seen(m), Seen(n), Seen(fed))
    BY <1>8 DEF Pushes
  <2> QED
    BY <1>7, <2>1, Pushed
<1>10. Shown(Monitor) = Seen(InCast(q)) /\ Shown(Monitor)' = Seen(InCast(q)')
  BY Zenon DEF Shown, Seen, q
<1>11. Adds(Monitor, Fed(fed), Seen(fed))
  <2>1. CASE fed = <<>>
    <3>1. Seen(fed) = <<>>
      BY <1>3, <1>6, <2>1, SeenOne
    <3> QED
      BY <2>1, <3>1 DEF Adds, Fed
  <2>2. CASE fed # <<>>
    <3>1. fed[1].k = Passing(fed[1].port)
      BY <2>2 DEF Feeds
    <3>2. Seen(fed) = <<View(fed[1])>>
      BY <1>3, <1>6, <2>2, SeenSlot
    <3>3. View(fed[1]) = Sign(fed[1].port)
      BY <3>1 DEF View, Sign
    <3>4. Monitor \in Goal(fed[1].port)
      BY DEF Goal
    <3> QED
      BY <2>2, <3>2, <3>3, <3>4 DEF Adds, Fed
  <2> QED
    BY <2>1, <2>2
<1> QED
  BY <1>9, <1>10, <1>11

(* A step of the chain, by its parts.                                      *)
LEMMA ChainParts ==
    ASSUME NEW ready, ChainStep(ready)
    PROVE  /\ \E R : BroadcastStep(Muxed.out[0], R) /\ (ToDemux \in R <=> s_axis_tready)
           /\ DemuxStep(CastOut(ToDemux), ready)
<1> DEFINE R == (IF Monitor \in ready THEN {ToMonitor} ELSE {})
                \cup (IF s_axis_tready THEN {ToDemux} ELSE {})
<1>1. ToDemux \in R <=> s_axis_tready
  BY DEF ToDemux, ToMonitor
<1>2. BroadcastStep(Muxed.out[0], R) /\ DemuxStep(CastOut(ToDemux), ready)
  BY DEF ChainStep
<1> QED
  BY <1>1, <1>2

(* What is on the way to an output behind the demux moves on by its own.   *)
LEMMA OutputMoves ==
    ASSUME PowersOfTwo, FabricInv, bench # "switch", bench' = bench, NEW fed, Feeds(fed),
           NEW ready, NEW R, BroadcastStep(Muxed.out[0], R), ToDemux \in R <=> s_axis_tready,
           DemuxStep(CastOut(ToDemux), ready), NEW e, DemuxAt(e),
           CastOut(ToDemux) # <<>> => Follows(e, CastOut(ToDemux)[1]), NEW p \in MPorts
    PROVE  \E t, g : /\ Shown(p)' = t \o g /\ t \in Shift(Shown(p))
                     /\ Adds(p, Fed(fed), g)
<1> DEFINE q  == ToDemux
           a  == demux.out[p]
           b  == demux.temp[p]
           o  == Only(p, CastOut(q))
           y  == Only(p, IF s_axis_tready THEN <<>> ELSE CastOut(q))
           c  == Only(p, cast.temp[q])
           d  == Only(p, Muxed.out[0])
           h  == Only(p, Muxed.temp[0])
           f  == Only(p, fed)
           a2 == demux'.out[p]
           b2 == demux'.temp[p]
           o2 == Only(p, cast'.out[q])
           c2 == Only(p, cast'.temp[q])
           d2 == Only(p, Muxed'.out[0])
           h2 == Only(p, Muxed'.temp[0])
<1>1. q \in BPorts /\ CastOut(q) = cast.out[q]
  BY Ports DEF CastOut
<1>2. /\ cast \in Path(BPorts, InChain) /\ Muxed \in Path({0}, InChain)
      /\ Muxed' \in Path({0}, InChain) /\ fed \in Slots(InChain)
      /\ demux \in Path(MPorts, AtOutput)
  BY DEF FabricInv, ChainInv, Feeds
<1>3. \A x \in Slots(InChain) : x \in Slots(AtOutput) /\ Only(p, x) \in Slots(AtOutput)
  <2>1. \A x \in Slots(InChain) : x \in Slots(AtOutput)
    BY DEF Slots, InChain
  <2> QED
    BY <2>1, SlotFacts
<1>4. /\ cast' \in Path(BPorts, InChain)
      /\ Row4(o2, c2, d2, h2) = Row5(y, c, d, h, f)
  <2>1. (IF q \in R THEN <<>> ELSE cast.out[q]) = IF s_axis_tready THEN <<>> ELSE CastOut(q)
    BY <1>1
  <2> QED
    BY <1>1, <2>1, CastRow
<1>5. /\ demux' \in Path(MPorts, AtOutput)
      /\ \E k, x \in Slots(AtOutput) :
            /\ k = a \/ k = <<>>
            /\ Carried(a2, b2, k, b, x)
            /\ Cat(Seen(x), Seen(y)) = Seen(o)
  <2>1. CastOut(q) \in Slots(InChain)
    BY <1>1, <1>2 DEF Path
  <2> QED
    BY <2>1, DemuxMoves
<1>6. /\ a \in Slots(AtOutput) /\ b \in Slots(AtOutput) /\ o \in Slots(AtOutput)
      /\ y \in Slots(AtOutput) /\ c \in Slots(AtOutput) /\ d \in Slots(AtOutput)
      /\ h \in Slots(AtOutput) /\ f \in Slots(AtOutput)
  <2>1. /\ CastOut(q) \in Slots(InChain) /\ cast.temp[q] \in Slots(InChain)
        /\ Muxed.out[0] \in Slots(InChain) /\ Muxed.temp[0] \in Slots(InChain)
        /\ <<>> \in Slots(InChain)
    BY <1>1, <1>2 DEF Path, Slots
  <2>2. a \in Slots(AtOutput) /\ b \in Slots(AtOutput)
    BY <1>2 DEF Path
  <2> QED
    BY <1>2, <1>3, <2>1, <2>2
<1>7. /\ a2 \in Slots(AtOutput) /\ b2 \in Slots(AtOutput) /\ o2 \in Slots(AtOutput)
      /\ c2 \in Slots(AtOutput) /\ d2 \in Slots(AtOutput) /\ h2 \in Slots(AtOutput)
  <2>1. /\ cast'.out[q] \in Slots(InChain) /\ cast'.temp[q] \in Slots(InChain)
        /\ Muxed'.out[0] \in Slots(InChain) /\ Muxed'.temp[0] \in Slots(InChain)
    BY <1>1, <1>2, <1>4 DEF Path
  <2>2. a2 \in Slots(AtOutput) /\ b2 \in Slots(AtOutput)
    BY <1>5 DEF Path
  <2> QED
    BY <1>3, <2>1, <2>2
<1>8. /\ Coming(p) = Row6(a, b, o, c, d, h)
      /\ Coming(p)' = Row6(a2, b2, o2, c2, d2, h2)
  <2>1. /\ DemuxSlice[p] = p /\ CastSlice[q] = q /\ bench' # "switch"
    BY Ports
  <2>2. Coming(p) = Row6(a, b, o, c, d, h)
    BY <2>1, Zenon DEF Coming, DemuxOut, CastOut, Row6, Row5, Cat
  <2>3. Coming(p)' = Row6(a2, b2, o2, c2, d2, h2)
    <3>1. /\ DemuxOut(p)' = a2 /\ CastOut(q)' = cast'.out[q]
      BY <2>1 DEF DemuxOut, CastOut
    <3>2. Coming(p)' = DemuxOut(p)' \o demux'.temp[p] \o Only(p, CastOut(q)') \o c2 \o d2 \o h2
      BY <2>1, Zenon DEF Coming, Only
    <3> QED
      BY <3>1, <3>2, Zenon DEF Row6, Row5, Cat
  <2> QED
    BY <2>2, <2>3
<1> HIDE DEF q, a, b, o, y, c, d, h, f, a2, b2, o2, c2, d2, h2
<1>9. PICK k, x \in Slots(AtOutput) :
         /\ k = a \/ k = <<>>
         /\ Carried(a2, b2, k, b, x)
         /\ Cat(Seen(x), Seen(y)) = Seen(o)
  BY <1>5
<1>10. \A z \in Slots(AtOutput) :
          /\ Seen(z) \in Slots(Views) /\ Seen(z) \in Seq(Views)
          /\ z = <<>> => Seen(z) = <<>>
  BY SeenOne
<1>11. Carried(Seen(a2), Seen(b2), Seen(k), Seen(b), Seen(x))
  <2>1. Seen(Cat(a2, b2)) = Cat(Seen(a2), Seen(b2))
    BY <1>7, SeenTwo
  <2>2. Seen(Cat(Cat(k, b), x)) = Cat(Cat(Seen(k), Seen(b)), Seen(x))
    BY <1>6, SeenThree
  <2> QED
    BY <1>9, <2>1, <2>2 DEF Carried
<1>12. Row4(Seen(o2), Seen(c2), Seen(d2), Seen(h2))
         = Row5(Seen(y), Seen(c), Seen(d), Seen(h), Seen(f))
  <2>1. Seen(Row4(o2, c2, d2, h2)) = Row4(Seen(o2), Seen(c2), Seen(d2), Seen(h2))
    BY <1>7, SeenFour
  <2>2. Seen(Row5(y, c, d, h, f)) = Row5(Seen(y), Seen(c), Seen(d), Seen(h), Seen(f))
    BY <1>6, SeenFive
  <2> QED
    BY <1>4, <2>1, <2>2
<1>13. /\ Seen(Coming(p)) = Row6(Seen(a), Seen(b), Seen(o), Seen(c), Seen(d), Seen(h))
       /\ Seen(Coming(p)') = Row6(Seen(a2), Seen(b2), Seen(o2), Seen(c2), Seen(d2), Seen(h2))
  <2>1. Seen(Row6(a, b, o, c, d, h)) = Row6(Seen(a), Seen(b), Seen(o), Seen(c), Seen(d), Seen(h))
    <3>1. /\ a \in Slots(AtOutput) /\ b \in Slots(AtOutput) /\ o \in Slots(AtOutput)
          /\ c \in Slots(AtOutput) /\ d \in Slots(AtOutput) /\ h \in Slots(AtOutput)
      BY <1>6
    <3> QED
      BY <3>1, SeenAll
  <2>2. Seen(Row6(a2, b2, o2, c2, d2, h2))
          = Row6(Seen(a2), Seen(b2), Seen(o2), Seen(c2), Seen(d2), Seen(h2))
    BY <1>7, SeenAll
  <2> QED
    BY <1>8, <2>1, <2>2
<1>14. Seen(Coming(p)')
         = Cat(Row6(Seen(k), Seen(b), Seen(o), Seen(c), Seen(d), Seen(h)), Seen(f))
  <2>1. IsRows(Seq(Views))
    BY RowAlgebra
  <2>2. HandedOver(Seq(Views), Seen(a2), Seen(b2), Seen(o2), Seen(c2), Seen(d2), Seen(h2),
                   Seen(k), Seen(b), Seen(x), Seen(y), Seen(o), Seen(c), Seen(d), Seen(h), Seen(f))
    BY <1>6, <1>7, <1>9, <1>10, <1>11, <1>12, <2>1 DEF HandedOver
  <2> QED
    BY <1>13, <2>2, Handover
<1>15. PICK t \in Shift(Seen(Coming(p))) : Seen(Coming(p)') = t \o Seen(f)
  <2>1. PushesFar(Seen(a), Seen(k), Seen(b), Seen(o), Seen(c), Seen(d), Seen(h), Seen(f))
    BY <1>6, <1>9, <1>10 DEF PushesFar
  <2> QED
    BY <1>13, <1>14, <2>1, PushedFar
<1>16. Shown(p) = Seen(Coming(p)) /\ Shown(p)' = Seen(Coming(p)')
  <2>1. p # Monitor
    BY Ports
  <2> QED
    BY <2>1, Zenon DEF Shown, Seen
<1>17. Adds(p, Fed(fed), Seen(f))
  <2>1. CASE fed = <<>>
    <3>1. f = <<>>
      BY <2>1 DEF Only, f
    <3>2. Seen(f) = <<>>
      BY <1>6, <1>10, <3>1
    <3> QED
      BY <2>1, <3>2 DEF Adds, Fed
  <2>2. CASE fed # <<>>
    <3> DEFINE g == fed[1].port
    <3>1. fed[1].k = Passing(g)
      BY <2>2 DEF Feeds
    <3>2. p \in Goal(g) <=> Streams[g][fed[1].k].dest = p
      BY <3>1, Ports DEF Goal
    <3>3. CASE Streams[g][fed[1].k].dest = p
      <4>1. f = fed
        BY <2>2, <3>3 DEF Only, f
      <4>2. Seen(f) = <<View(fed[1])>>
        BY <1>6, <2>2, <4>1, SeenSlot
      <4>3. View(fed[1]) = Sign(g)
        BY <3>1 DEF View, Sign
      <4> QED
        BY <2>2, <3>2, <3>3, <4>2, <4>3 DEF Adds, Fed
    <3>4. CASE Streams[g][fed[1].k].dest # p
      <4>1. f = <<>>
        BY <2>2, <3>4 DEF Only, f
      <4>2. Seen(f) = <<>>
        BY <1>6, <1>10, <4>1
      <4> QED
        BY <2>2, <3>2, <3>4, <4>2 DEF Adds, Fed
    <3> QED
      BY <3>3, <3>4
  <2> QED
    BY <2>1, <2>2
<1> QED
  BY <1>15, <1>16, <1>17

(* A step of the chain keeps its invariant and is one of a frame switch.   *)
LEMMA ChainMoves ==
    ASSUME PowersOfTwo, FabricInv, bench # "switch", bench' = bench, NEW fed, Feeds(fed),
           NEW ready, ChainStep(ready)
    PROVE  ChainInv' /\ Frames!FsNext
<1> DEFINE q == ToDemux
           in == CastOut(q)
           k == IF s_axis_tready THEN <<>> ELSE in
           t == cast.temp[q]
           m == Muxed.out[0]
           n == Muxed.temp[0]
           rest == Cat(Cat(t, m), n)
           T == Seq(InChain)
<1>1. PICK R : BroadcastStep(Muxed.out[0], R) /\ (ToDemux \in R <=> s_axis_tready)
  BY ChainParts
<1>2. DemuxStep(CastOut(ToDemux), ready)
  BY ChainParts
<1>3. PICK e : DemuxAt(e) /\ Thread(e, InCast(ToDemux), Begun)
  BY DEF FabricInv, ChainInv
<1>4. q \in BPorts /\ in = cast.out[q]
  BY Ports DEF CastOut
<1>5. /\ cast \in Path(BPorts, InChain) /\ Muxed \in Path({0}, InChain)
      /\ fed \in Slots(InChain)
  BY DEF FabricInv, ChainInv, Feeds
<1>6. /\ in \in Slots(InChain) /\ t \in Slots(InChain) /\ m \in Slots(InChain)
      /\ n \in Slots(InChain) /\ k \in Slots(InChain)
  BY <1>4, <1>5 DEF Path, Slots
<1>7. /\ cast' \in Path(BPorts, InChain)
      /\ InCast(q) = Row4(in, t, m, n) /\ InCast(q)' = Row5(k, t, m, n, fed)
  <2>1. (IF q \in R THEN <<>> ELSE cast.out[q]) = k
    BY <1>1, <1>4
  <2> QED
    BY <1>1, <1>4, <2>1, CastRow
<1>8. IsRows(T) /\ HasEmpty(T) /\ in \in T /\ t \in T /\ m \in T /\ n \in T /\ k \in T /\ fed \in T
  BY <1>5, <1>6, RowAlgebra, SlotFacts
<1>9. rest \in T
  BY <1>8, Groups
<1>10. InCast(q) = in \o rest /\ InCast(q)' = (k \o rest) \o fed
  <2>1. Five(T, in, t, m, n, fed) /\ Five(T, k, t, m, n, fed)
    BY <1>8 DEF Five
  <2>2. Row4(in, t, m, n) = Cat(in, rest)
    BY <2>1, Long DEF Row4
  <2>3. Row5(k, t, m, n, fed) = Cat(Cat(k, rest), fed)
    <3>1. Cat(Cat(Cat(k, t), m), n) = Cat(k, rest)
      BY <2>1, Long
    <3> QED
      BY <3>1 DEF Row5
  <2> QED
    BY <1>7, <2>2, <2>3, Zenon DEF Cat
<1> DEFINE f == IF in # <<>> /\ s_axis_tready THEN After(in[1]) ELSE e
<1> HIDE DEF rest
<1>11. /\ in # <<>> => Follows(e, in[1])
       /\ Thread(f, k \o rest, Begun)
  <2>1. Thread(e, in \o rest, Begun)
    BY <1>3, <1>10
  <2>2. <<>> \o rest = rest
    BY <1>9, ConcatEmptySeq
  <2>3. CASE in = <<>>
    BY <2>1, <2>2, <2>3
  <2>4. CASE in # <<>>
    <3>1. in = <<in[1]>> /\ in[1] \in InChain
      BY <1>6, <2>4, SlotFacts
    <3>2. Thread(e, <<in[1]>> \o rest, Begun)
      BY <2>1, <3>1
    <3>3. Follows(e, in[1]) /\ Thread(After(in[1]), rest, Begun)
      BY <1>9, <3>1, <3>2, ThreadOff
    <3> QED
      BY <2>1, <2>2, <2>4, <3>3
  <2> QED
    BY <2>3, <2>4
<1>12. Thread(f, InCast(q)', Begun')
  <2> DEFINE mid == k \o rest
  <2>1. mid \in T
    BY <1>8, <1>9, ConcatProperties
  <2>2. Thread(f, mid, Begun) /\ InCast(q)' = mid \o fed
    BY <1>10, <1>11
  <2> HIDE DEF mid, f
  <2>3. CASE fed = <<>>
    <3>1. mid \o fed = mid
      BY <2>1, <2>3, ConcatEmptySeq
    <3>2. Begun' = Begun
      BY <2>3, BegunMoves
    <3> QED
      BY <2>2, <3>1, <3>2
  <2>4. CASE fed # <<>>
    <3>1. fed = <<fed[1]>> /\ fed[1] \in InChain
      BY <1>5, <2>4, SlotFacts
    <3>2. Follows(Begun, fed[1]) /\ Begun' = After(fed[1])
      BY <2>4, BegunMoves
    <3>3. Thread(f, mid \o <<fed[1]>>, After(fed[1]))
      BY <2>1, <2>2, <3>1, <3>2, ThreadOn
    <3> QED
      BY <2>2, <3>1, <3>2, <3>3
  <2> QED
    BY <2>3, <2>4
<1>13. /\ demux' \in Path(MPorts, AtOutput)
       /\ Lone(MPorts, demux'.out) /\ Lone(MPorts, demux'.temp)
       /\ select' \in Nat /\ drop' \in BOOLEAN /\ frame' \in BOOLEAN
       /\ s_axis_tready' \in BOOLEAN /\ (s_axis_tready' \/ drop' => demux'.ready)
       /\ DemuxIs(f, frame', drop', select')
  BY <1>2, <1>3, <1>6, <1>11, DemuxMoves
<1>14. ChainInv'
  <2>1. cast' \in Path(BPorts, InChain') /\ demux' \in Path(MPorts, AtOutput')
    BY <1>7, <1>13, SameWords
  <2>2. \E g : DemuxIs(g, frame', drop', select') /\ Thread(g, InCast(ToDemux)', Begun')
    BY <1>12, <1>13
  <2>3. (\E g : DemuxAt(g) /\ Thread(g, InCast(ToDemux), Begun))'
    BY <2>2 DEF DemuxAt
  <2> QED
    BY <1>13, <2>1, <2>3 DEF ChainInv
<1>15. Frames!FsNext
  <2>1. ASSUME NEW s \in MPorts \cup {Monitor}
        PROVE  \E g, h : Shown(s)' = g \o h /\ g \in Shift(Shown(s)) /\ Adds(s, Fed(fed), h)
    <3>1. CASE s = Monitor
      BY <1>1, <3>1, MonitorMoves
    <3>2. CASE s \in MPorts
      BY <1>1, <1>2, <1>3, <1>11, <3>2, OutputMoves
    <3> QED
      BY <3>1, <3>2
  <2>2. Fed(fed) \in SUBSET SPorts
    <3>1. fed # <<>> => fed[1].port \in SPorts
      BY <1>5, SlotFacts DEF InChain, AtOutput, Genuine, Words
    <3> QED
      BY <3>1 DEF Fed
  <2>3. \A p \in SPorts :
           Passing(p)' = IF p \in Fed(fed) THEN NextK(p, Passing(p)) ELSE Passing(p)
    BY DEF Feeds, Fed
  <2>4. \A p \in Fed(fed) : \A r \in SPorts \ {p} :
           Goal(p) \cap Goal(r) # {} => r \notin Fed(fed) /\ ~Midst(r)
    BY DEF Feeds, Fed
  <2> QED
    BY <2>1, <2>2, <2>3, <2>4, FrameStep
<1> QED
  BY <1>14, <1>15

-----------------------------------------------------------------------------
(* The switch.                                                             *)

(* Who is ready, and for whom; a word is taken for an output that has      *)
(* granted it.                                                             *)
LEMMA SwitchAccepts ==
    ASSUME PowersOfTwo, FabricInv, bench = "switch", SourceStep, NEW p \in SPorts
    PROVE  /\ Passing(p) = at[p] /\ Passing(p)' = at'[p] /\ at[p] \in Numbers(p)
           /\ decoded[p] \in [select : MPorts, drop : BOOLEAN, select_valid : BOOLEAN]
           /\ p \in Accepted <=> p \in offered /\ InReady(p)
           /\ InReady(p) <=> \/ decoded[p].drop
                             \/ /\ arbs[decoded[p].select].grant = p
                                /\ crossed[decoded[p].select].ready
           /\ p \in Accepted /\ ~decoded[p].drop =>
                 /\ decoded[p].select_valid
                 /\ arbs[decoded[p].select].grant = p /\ crossed[decoded[p].select].ready
           /\ \A n \in MPorts :
                 For(In, p, n) <=> p \in offered /\ decoded[p].select_valid /\ decoded[p].select = n
           /\ p \in offered => In[p] = <<Word(p, at[p])>>
           /\ p \notin offered => In[p] = <<>>
<1>1. at[p] \in Numbers(p)
  BY DEF FabricInv, SourceInv
<1>2. Passing(p) = at[p] /\ Passing(p)' = at'[p]
  BY DEF Passing, SourceStep
<1>3. /\ decoded[p] \in [select : MPorts, drop : BOOLEAN, select_valid : BOOLEAN]
      /\ decoded[p].select_valid => ~decoded[p].drop
      /\ \A n \in MPorts :
            arbs[n].grant = p => decoded[p].select_valid /\ decoded[p].select = n
      /\ crossed \in [MPorts -> Path({0}, AtOutput)]
  BY DEF FabricInv, SwitchInv
<1>4. SwitchReady(p) <=> InReady(p)
  BY Ports DEF SwitchReady
<1>5. p \in Accepted <=> p \in offered /\ InReady(p)
  BY <1>4 DEF Accepted, Accepts
<1>6. InReady(p) <=> \/ decoded[p].drop
                     \/ /\ arbs[decoded[p].select].grant = p
                        /\ crossed[decoded[p].select].ready
  BY <1>3 DEF InReady, OutReady
<1>7. /\ In[p] # <<>> <=> p \in offered
      /\ p \in offered => In[p] = <<Word(p, at[p])>>
  BY Sources
<1>8. \A n \in MPorts :
         For(In, p, n) <=> p \in offered /\ decoded[p].select_valid /\ decoded[p].select = n
  BY <1>3, <1>7, Ports DEF For
<1> QED
  BY <1>1, <1>2, <1>3, <1>5, <1>6, <1>7, <1>8

(* What goes to an output is the word of the input that has the grant.     *)
LEMMA SwitchWord ==
    ASSUME PowersOfTwo, FabricInv, bench = "switch", SourceStep, NEW n \in MPorts
    PROVE  LET g == arbs[n].grant
           IN  /\ Crossing(In, n) \in Slots(AtOutput)
               /\ Crossing(In, n) # <<>> <=> g \in SPorts /\ For(In, g, n)
               /\ Crossing(In, n) # <<>> =>
                     /\ Crossing(In, n)[1].port = g /\ Crossing(In, n)[1].k = at[g]
                     /\ Crossing(In, n)[1].last = Streams[g][at[g]].last
<1> DEFINE g == arbs[n].grant
           L == Pow(S_ID_WIDTH)
           w == Word(g, at[g])
           out == [w EXCEPT !.tid = (@ % L) + g * L, !.tdest = @ % 2^O_DEST_WIDTH]
<1>1. g \in SPorts \cup {NoGrant} /\ NoGrant \notin SPorts
  BY Ports DEF FabricInv, SwitchInv, Arbiters
<1>2. CASE ~(g \in SPorts /\ For(In, g, n))
  <2>1. Crossing(In, n) = <<>>
    BY <1>1, <1>2, Zenon DEF Crossing
  <2> QED
    BY <1>2, <2>1 DEF Slots
<1>3. CASE g \in SPorts /\ For(In, g, n)
  <2>1. In[InPort[g]][1] = w /\ at[g] \in Numbers(g)
    <3>1. at[g] \in Numbers(g)
      BY <1>3, SwitchAccepts
    <3>2. g \in offered
      BY <1>3, SwitchAccepts
    <3>3. In[g] = <<w>> /\ InPort[g] = g
      BY <1>3, <3>2, Sources, Ports
    <3> QED
      BY <3>1, <3>3
  <2>2. Crossing(In, n) = <<out>>
    <3>1. 2^(O_ID_WIDTH - CLog2(S_COUNT)) = L
      BY Widths
    <3>2. g # NoGrant
      BY <1>1, <1>3
    <3>3. Crossing(In, n) = LET low == L IN
             <<[In[InPort[g]][1] EXCEPT !.tid = (@ % low) + g * low,
                                        !.tdest = @ % 2^O_DEST_WIDTH]>>
      BY <1>3, <3>1, <3>2, Zenon DEF Crossing
    <3> QED
      BY <2>1, <3>3, Zenon
  <2>3. w \in Genuine /\ w.port = g /\ w.k = at[g] /\ w.last = Streams[g][at[g]].last
        /\ w.tid \in Nat /\ w.tdest \in Nat
    BY <1>3, <2>1, Offers DEF AtInput, Genuine, Words
  <2>4. L \in Nat \ {0} /\ g \in Nat /\ w.tdest % 2^O_DEST_WIDTH \in Nat
    BY <1>3, <2>3, Widths, Ports
  <2>5. w.tid % L \in 0 .. L - 1
    BY <2>3, <2>4
  <2>6. ((w.tid % L) + g * L) \div L = g /\ (w.tid % L) + g * L \in Nat
    BY <2>4, <2>5, TwoParts
  <2> DEFINE id == (w.tid % L) + g * L
             dest == w.tdest % 2^O_DEST_WIDTH
  <2>7. out = [w EXCEPT !.tid = id, !.tdest = dest]
    BY Zenon
  <2> HIDE DEF id, dest, w, L, out, g
  <2>8. /\ out \in Words /\ out.port = w.port /\ out.k = w.k /\ out.last = w.last
        /\ out.tid = id
    <3>1. w \in Words /\ id \in Nat /\ dest \in Nat
      BY <2>3, <2>4, <2>6 DEF Genuine, id, dest
    <3> QED
      BY <2>7, <3>1 DEF Words
  <2>9. out \in AtOutput
    BY <2>3, <2>6, <2>8 DEF AtOutput, Genuine, Of, id, L
  <2> QED
    BY <1>3, <2>2, <2>3, <2>8, <2>9 DEF Slots, g
<1> QED
  BY <1>2, <1>3

(* The way of a frame is found in the cycle before its first word goes.    *)
LEMMA SwitchDecodes ==
    ASSUME PowersOfTwo, FabricInv, bench = "switch", SourceStep, NEW ready,
           SwitchStep(In, ready), NEW p \in SPorts
    PROVE  LET d == decoded[p]
               e == decoded'[p]
               ends == p \in Accepted /\ Streams[p][at[p]].last
           IN  /\ e \in [select : MPorts, drop : BOOLEAN, select_valid : BOOLEAN]
               /\ e.select_valid => ~e.drop /\ Streams[p][at'[p]].dest = e.select
               /\ e.drop => Streams[p][at'[p]].dest \notin MPorts
               /\ d.select_valid \/ d.drop =>
                     /\ e.select_valid <=> d.select_valid /\ ~ends
                     /\ e.drop <=> d.drop /\ ~ends
                     /\ e.select = d.select
<1> DEFINE d == decoded[p]
           e == decoded'[p]
           k == at[p]
           ends == p \in Accepted /\ Streams[p][k].last
           w == Word(p, k)
           match == {n \in OPorts : In[p][1].tdest \in M_BASE[n] .. M_TOP[n]}
<1>1. /\ d \in [select : MPorts, drop : BOOLEAN, select_valid : BOOLEAN]
      /\ d.select_valid => ~d.drop /\ Streams[p][k].dest = d.select
      /\ d.drop => Streams[p][k].dest \notin MPorts
      /\ Midst(p) => d.drop \/ d.select_valid
  BY DEF FabricInv, SwitchInv
<1>2. /\ k \in Numbers(p) /\ Passing(p) = k
      /\ p \in Accepted <=> p \in offered /\ InReady(p)
      /\ p \in Accepted /\ ~d.drop => d.select_valid
      /\ p \in offered => In[p] = <<w>>
      /\ p \notin offered => In[p] = <<>>
      /\ InReady(p) \in BOOLEAN
  <2>1. InReady(p) \in BOOLEAN
    BY <1>1 DEF InReady, OutReady
  <2> QED
    BY <2>1, SwitchAccepts
<1>3. /\ w.last = Streams[p][k].last /\ w.tdest = TDest(p, k)
      /\ Streams[p][k] \in [start : BOOLEAN, last : BOOLEAN, dest : Nat]
      /\ Streams[p][NextK(p, k)].dest = Streams[p][k].dest \/ Streams[p][k].last
  BY <1>2, Offers, Circle
<1>4. at'[p] = IF p \in Accepted THEN NextK(p, k) ELSE k
  BY Sources
<1>5. e = Decode(d, In[p], InReady(p))
  BY Ports DEF SwitchStep
<1>6. (In[p] # <<>> /\ InReady(p) /\ In[p][1].last) <=> ends
  <2>1. CASE p \in offered
    <3>1. In[p] # <<>> /\ In[p][1] = w
      BY <1>2, <2>1
    <3>2. p \in Accepted <=> InReady(p)
      BY <1>2, <2>1
    <3> HIDE DEF w
    <3> QED
      BY <1>3, <3>1, <3>2
  <2>2. CASE p \notin offered
    BY <1>2, <2>2
  <2> QED
    BY <2>1, <2>2
<1>7. e = IF In[p] # <<>> /\ ~d.select_valid /\ ~d.drop
            THEN [ select       |-> IF match = {} THEN 0 ELSE Max(match),
                   select_valid |-> match # {},
                   drop         |-> match = {} ]
            ELSE [ select       |-> d.select,
                   select_valid |-> d.select_valid
                                    /\ ~(In[p] # <<>> /\ InReady(p) /\ In[p][1].last),
                   drop         |-> d.drop /\ ~(In[p] # <<>> /\ InReady(p) /\ In[p][1].last) ]
  BY <1>5, Zenon DEF Decode
<1>8. ends \in BOOLEAN
  BY <1>3
<1> HIDE DEF e, match
<1>9. CASE In[p] # <<>> /\ ~d.select_valid /\ ~d.drop
  <2>1. p \in offered /\ p \notin Accepted /\ ~Midst(p)
    BY <1>1, <1>2, <1>9
  <2>2. w.tdest = Streams[p][k].dest
    <3>1. Streams[p][k].start /\ Streams[p][k].dest \in Nat
      BY <1>2, <1>3, <2>1 DEF Midst
    <3>2. TDest(p, k) = Streams[p][k].dest * 1
      BY <3>1 DEF TDest
    <3> QED
      BY <1>3, <3>1, <3>2
  <2>3. match = {Streams[p][k].dest} \cap MPorts
    <3>1. \A n \in MPorts : M_BASE[n] = n /\ M_TOP[n] = n /\ n \in Nat
      BY Ports DEF M_BASE, M_TOP
    <3>2. In[p][1].tdest = Streams[p][k].dest /\ Streams[p][k].dest \in Nat /\ OPorts = MPorts
      BY <1>2, <1>3, <2>1, <2>2, Ports
    <3> QED
      BY <3>1, <3>2 DEF match
  <2>4. match # {} => Max(match) = Streams[p][k].dest /\ Streams[p][k].dest \in MPorts
    <3> SUFFICES ASSUME match # {}
                 PROVE  Max(match) = Streams[p][k].dest /\ Streams[p][k].dest \in MPorts
      OBVIOUS
    <3>1. match = {Streams[p][k].dest} /\ Streams[p][k].dest \in MPorts
      BY <2>3
    <3>2. Streams[p][k].dest >= Streams[p][k].dest
      BY <1>3
    <3> QED
      BY <3>1, <3>2 DEF Max
  <2>5. match = {} => Streams[p][k].dest \notin MPorts
    BY <2>3
  <2>6. /\ e.select = IF match = {} THEN 0 ELSE Max(match)
        /\ e.select_valid = (match # {}) /\ e.drop = (match = {})
        /\ e = [select |-> e.select, select_valid |-> e.select_valid, drop |-> e.drop]
    BY <1>7, <1>9
  <2>7. 0 \in MPorts
    BY Ports DEF MPorts
  <2>8. e \in [select : MPorts, drop : BOOLEAN, select_valid : BOOLEAN]
    BY <2>4, <2>6, <2>7
  <2> QED
    BY <1>4, <1>9, <2>1, <2>4, <2>5, <2>6, <2>8 DEF e
<1>10. CASE ~(In[p] # <<>> /\ ~d.select_valid /\ ~d.drop)
  <2>1. /\ e.select = d.select
        /\ e.select_valid = (d.select_valid /\ ~ends) /\ e.drop = (d.drop /\ ~ends)
        /\ e = [select |-> e.select, select_valid |-> e.select_valid, drop |-> e.drop]
    BY <1>6, <1>7, <1>8, <1>10
  <2>2. e \in [select : MPorts, drop : BOOLEAN, select_valid : BOOLEAN]
    BY <1>1, <1>8, <2>1
  <2>3. ~ends => Streams[p][at'[p]].dest = Streams[p][k].dest
    BY <1>3, <1>4
  <2> QED
    BY <1>1, <2>1, <2>2, <2>3 DEF e
<1> QED
  BY <1>9, <1>10

(* An arbiter of the switch gives the grant on when a frame has gone.      *)
LEMMA SwitchGrants ==
    ASSUME PowersOfTwo, FabricInv, bench = "switch", SourceStep, NEW ready,
           SwitchStep(In, ready), NEW n \in MPorts
    PROVE  LET g == arbs[n].grant
               gone == g \in SPorts /\ g \in Accepted /\ Streams[g][at[g]].last
           IN  /\ arbs'[n] \in Arbiters
               /\ g \in SPorts /\ ~gone => arbs'[n].grant = g
               /\ \A p \in SPorts :
                     arbs'[n].grant = p =>
                        /\ decoded[p].select_valid /\ decoded[p].select = n
                        /\ ~(p \in Accepted /\ Streams[p][at[p]].last)
<1> DEFINE g == arbs[n].grant
           word == Crossing(In, n)
           done == word # <<>> /\ word[1].last /\ crossed[n].ready
           request == {i \in SPorts : For(In, i, n) /\ g # i}
           gone == g \in SPorts /\ g \in Accepted /\ Streams[g][at[g]].last
<1>1. /\ arbs[n] \in Arbiters /\ g \in SPorts \cup {NoGrant} /\ NoGrant \notin SPorts
      /\ crossed[n].ready \in BOOLEAN
      /\ \A p \in SPorts : g = p => decoded[p].select_valid /\ decoded[p].select = n
      /\ \A p \in SPorts : decoded[p].select_valid => ~decoded[p].drop
  BY Ports DEF FabricInv, SwitchInv, Arbiters, Path
<1>2. /\ word \in Slots(AtOutput)
      /\ word # <<>> <=> g \in SPorts /\ For(In, g, n)
      /\ word # <<>> => word[1].last = Streams[g][at[g]].last
  BY SwitchWord
<1>3. done \in BOOLEAN
  <2>1. word # <<>> => word[1].last \in BOOLEAN
    BY <1>2, SlotFacts DEF AtOutput, Genuine, Words
  <2> QED
    BY <1>1, <2>1
<1>4. arbs'[n] = Arbitrate(arbs[n], request, done)
  BY Ports DEF SwitchStep
<1>5. request \in SUBSET SPorts
  OBVIOUS
<1>6. /\ arbs'[n] \in Arbiters
      /\ g # NoGrant /\ ~done => arbs'[n] = arbs[n]
      /\ \/ arbs'[n].grant = g /\ g # NoGrant /\ ~done
         \/ arbs'[n].grant \in request \cup {NoGrant}
  <2> HIDE DEF request, done
  <2> QED
    BY <1>1, <1>3, <1>4, <1>5, Granting
<1>7. g \in SPorts => (done <=> gone)
  <2> SUFFICES ASSUME g \in SPorts PROVE done <=> gone
    OBVIOUS
  <2>1. decoded[g].select_valid /\ decoded[g].select = n /\ ~decoded[g].drop
    BY <1>1
  <2>2. /\ g \in Accepted <=> g \in offered /\ crossed[n].ready
        /\ For(In, g, n) <=> g \in offered
    BY <2>1, SwitchAccepts
  <2> QED
    BY <1>2, <2>2
<1>8. ASSUME NEW p \in SPorts, arbs'[n].grant = p
      PROVE  /\ decoded[p].select_valid /\ decoded[p].select = n
             /\ ~(p \in Accepted /\ Streams[p][at[p]].last)
  <2>1. CASE arbs'[n].grant = g /\ g # NoGrant /\ ~done
    BY <1>1, <1>7, <1>8, <2>1
  <2>2. CASE arbs'[n].grant \in request \cup {NoGrant}
    <3>1. For(In, p, n) /\ g # p
      BY <1>1, <1>8, <2>2
    <3>2. decoded[p].select_valid /\ decoded[p].select = n
      BY <3>1, SwitchAccepts
    <3>3. p \notin Accepted
      BY <1>1, <3>1, <3>2, SwitchAccepts
    <3> QED
      BY <3>2, <3>3
  <2> QED
    BY <1>6, <2>1, <2>2
<1> HIDE DEF done, gone
<1>9. g \in SPorts /\ ~gone => arbs'[n].grant = g
  BY <1>1, <1>6, <1>7
<1> QED
  BY <1>6, <1>8, <1>9 DEF gone

(* What is on the way to a sink of the switch.                             *)
LEMMA CrossMoves ==
    ASSUME PowersOfTwo, FabricInv, bench = "switch", SourceStep, NEW ready,
           SwitchStep(In, ready), NEW n \in MPorts
    PROVE  /\ crossed'[n] \in Path({0}, AtOutput)
           /\ \E t, g : /\ Shown(n)' = t \o g /\ t \in Shift(Shown(n))
                        /\ Adds(n, Accepted, g)
<1> DEFINE c == crossed[n]
           d == crossed'[n]
           word == Crossing(In, n)
           inp == [q \in {0} |-> word]
           taken == IF n \in ready THEN {0} ELSE {}
           moved == n \in ready
           k == Kept(c, 0, taken)
           came == IF c.ready THEN word ELSE <<>>
           g == arbs[n].grant
<1>1. c \in Path({0}, AtOutput)
  BY DEF FabricInv, SwitchInv
<1>2. /\ word \in Slots(AtOutput)
      /\ word # <<>> <=> g \in SPorts /\ For(In, g, n)
      /\ word # <<>> => word[1].port = g /\ word[1].k = at[g]
  BY SwitchWord
<1>3. inp \in [{0} -> Slots(AtOutput)] /\ inp[0] = word
  BY <1>2
<1>4. d = Datapath(c, inp, taken, moved)
  BY Ports DEF SwitchStep
<1>5. moved => \A q \in {0} : c.out[q] # <<>> => q \in taken
  OBVIOUS
<1>6. moved \in BOOLEAN
  OBVIOUS
<1>7. c.out[0] \in Slots(AtOutput) /\ c.temp[0] \in Slots(AtOutput)
  BY <1>1 DEF Path
<1>8. /\ k = c.out[0] \/ k = <<>>
      /\ k \in Slots(AtOutput) /\ came \in Slots(AtOutput)
      /\ came = IF c.ready THEN inp[0] ELSE <<>>
  BY <1>2, <1>3, <1>7 DEF Kept, Slots
<1> HIDE DEF inp, taken, moved
<1>9. d \in Path({0}, AtOutput) /\ Moves(c, d, 0, inp, taken)
  BY <1>1, <1>3, <1>4, <1>5, <1>6, Registers
<1>10. Carried(d.out[0], d.temp[0], k, c.temp[0], came)
  <2>1. 0 \in {0} /\ inp[0] \in Slots(AtOutput)
    BY <1>2, <1>3
  <2> HIDE DEF k, came
  <2> QED
    BY <1>1, <1>8, <1>9, <2>1, Queue DEF k
<1>11. d.out[0] \in Slots(AtOutput) /\ d.temp[0] \in Slots(AtOutput)
  BY <1>9 DEF Path
<1>12. /\ Coming(n) = Cat(c.out[0], c.temp[0])
       /\ Coming(n)' = Cat(d.out[0], d.temp[0])
  <2>1. OutSlice[n] = n /\ bench' = "switch"
    BY Ports DEF SourceStep
  <2> QED
    BY <2>1, Zenon DEF Coming, CrossOut, Cat
<1> HIDE DEF k, came
<1>13. /\ Seen(Coming(n)) = Cat(Seen(c.out[0]), Seen(c.temp[0]))
       /\ Seen(Coming(n)') = Cat(Cat(Seen(k), Seen(c.temp[0])), Seen(came))
  <2>1. Seen(Cat(c.out[0], c.temp[0])) = Cat(Seen(c.out[0]), Seen(c.temp[0]))
    BY <1>7, SeenTwo
  <2>2. Seen(Cat(Cat(k, c.temp[0]), came)) = Cat(Cat(Seen(k), Seen(c.temp[0])), Seen(came))
    BY <1>7, <1>8, SeenThree
  <2> QED
    BY <1>10, <1>12, <2>1, <2>2 DEF Carried
<1>14. \A x \in Slots(AtOutput) :
          /\ Seen(x) \in Slots(Views) /\ Seen(x) \in Seq(Views) /\ (x = <<>> => Seen(x) = <<>>)
  BY SeenOne
<1>15. PICK t \in Shift(Seen(Coming(n))) : Seen(Coming(n)') = Cat(t, Seen(came))
  <2>1. Heads(Views, Seen(c.out[0]), Seen(k), Seen(c.temp[0]), Seen(came))
    BY <1>7, <1>8, <1>14 DEF Heads
  <2> QED
    BY <1>13, <2>1, Advance
<1>16. Shown(n) = Seen(Coming(n)) /\ Shown(n)' = Seen(Coming(n)')
  <2>1. n # Monitor
    BY Ports
  <2> QED
    BY <2>1, Zenon DEF Shown, Seen
<1>17. Adds(n, Accepted, Seen(came))
  <2>1. \A p \in SPorts : decoded[p].select_valid =>
            ~decoded[p].drop /\ Streams[p][at[p]].dest = decoded[p].select
    BY DEF FabricInv, SwitchInv
  <2>2. CASE came # <<>>
    <3>1. c.ready /\ came = word /\ word # <<>>
      BY <2>2 DEF came
    <3>2. g \in SPorts /\ For(In, g, n)
      BY <1>2, <3>1
    <3>3. g \in offered /\ decoded[g].select_valid /\ decoded[g].select = n
      BY <3>2, SwitchAccepts
    <3>4. g \in Accepted /\ Passing(g) = at[g]
      BY <3>1, <3>2, <3>3, SwitchAccepts
    <3>5. n \in Goal(g)
      BY <2>1, <3>2, <3>3, <3>4 DEF Goal
    <3>6. Seen(came) = <<View(came[1])>>
      BY <1>8, <2>2, SeenSlot
    <3>7. View(came[1]) = Sign(g)
      BY <1>2, <3>1, <3>4 DEF View, Sign
    <3> QED
      BY <3>4, <3>5, <3>6, <3>7 DEF Adds
  <2>3. CASE came = <<>>
    <3>1. Seen(came) = <<>>
      BY <1>8, <1>14, <2>3
    <3>2. ASSUME NEW p \in Accepted, n \in Goal(p)
          PROVE  FALSE
      <4>1. p \in SPorts /\ p \in offered
        BY Sources DEF SourceStep, FabricInv, SourceInv
      <4>2. Streams[p][at[p]].dest = n
        <5>1. Passing(p) = at[p]
          BY <4>1, SwitchAccepts
        <5> QED
          BY <3>2, <5>1, Ports DEF Goal
      <4>3. ~decoded[p].drop
        BY <4>1, <4>2 DEF FabricInv, SwitchInv
      <4>4. /\ decoded[p].select_valid /\ arbs[decoded[p].select].grant = p
            /\ crossed[decoded[p].select].ready
        BY <4>1, <4>3, SwitchAccepts
      <4>5. decoded[p].select = n
        BY <2>1, <4>1, <4>2, <4>4
      <4>6. For(In, p, n)
        BY <4>1, <4>4, <4>5, SwitchAccepts
      <4>7. word # <<>> /\ c.ready
        BY <1>2, <4>1, <4>4, <4>5, <4>6
      <4> QED
        BY <2>3, <4>7 DEF came
    <3> QED
      BY <3>1, <3>2 DEF Adds
  <2> QED
    BY <2>2, <2>3
<1> QED
  BY <1>9, <1>15, <1>16, <1>17, Zenon DEF Cat

(* A step of the switch keeps its invariant and is one of a frame switch.  *)
LEMMA SwitchMoves ==
    ASSUME PowersOfTwo, FabricInv, bench = "switch", SourceStep, NEW ready,
           SwitchStep(In, ready), UNCHANGED <<muxVars, chainVars>>
    PROVE  SwitchInv' /\ Frames!FsNext
<1>1. /\ \A p \in SPorts :
            /\ decoded[p] \in [select : MPorts, drop : BOOLEAN, select_valid : BOOLEAN]
            /\ decoded[p].select_valid =>
                  ~decoded[p].drop /\ Streams[p][at[p]].dest = decoded[p].select
            /\ decoded[p].drop => Streams[p][at[p]].dest \notin MPorts
            /\ Midst(p) => \/ decoded[p].drop
                           \/ /\ decoded[p].select_valid
                              /\ arbs[decoded[p].select].grant = p
      /\ InCast(ToMonitor) = <<>>
  BY DEF FabricInv, SwitchInv
<1>2. bench' = bench
  BY DEF SourceStep
<1>3. Accepted \subseteq SPorts
  BY Sources DEF SourceStep, FabricInv, SourceInv
<1>4. \A p \in SPorts :
         /\ Passing(p) = at[p] /\ Passing(p)' = at'[p] /\ at[p] \in Numbers(p)
         /\ at'[p] = IF p \in Accepted THEN NextK(p, at[p]) ELSE at[p]
  BY SwitchAccepts, Sources
<1>5. InCast(ToMonitor)' = <<>>
  <2>1. /\ cast' = cast /\ chosen' = chosen
    BY DEF chainVars, muxVars
  <2>2. InCast(ToMonitor)' = InCast(ToMonitor)
    BY <1>2, <2>1, Zenon DEF InCast, CastOut, Muxed
  <2> QED
    BY <1>1, <2>2
<1>6. ASSUME NEW p \in SPorts
      PROVE  Midst(p)' => /\ Midst(p) \/ p \in Accepted
                          /\ ~(p \in Accepted /\ Streams[p][at[p]].last)
  <2> SUFFICES ASSUME Midst(p)'
               PROVE  /\ Midst(p) \/ p \in Accepted
                      /\ ~(p \in Accepted /\ Streams[p][at[p]].last)
    OBVIOUS
  <2>1. ~Streams[p][at'[p]].start
    BY <1>4 DEF Midst
  <2> QED
    BY <1>4, <2>1, Circle DEF Midst
<1>7. ASSUME NEW p \in SPorts
      PROVE  Midst(p)' => \/ decoded'[p].drop
                          \/ /\ decoded'[p].select_valid
                             /\ arbs'[decoded'[p].select].grant = p
  <2> SUFFICES ASSUME Midst(p)'
               PROVE  \/ decoded'[p].drop
                      \/ /\ decoded'[p].select_valid
                         /\ arbs'[decoded'[p].select].grant = p
    OBVIOUS
  <2>1. /\ Midst(p) \/ p \in Accepted
        /\ ~(p \in Accepted /\ Streams[p][at[p]].last)
    BY <1>6
  <2>2. \/ decoded[p].drop
        \/ decoded[p].select_valid /\ arbs[decoded[p].select].grant = p
    BY <1>1, <2>1, SwitchAccepts
  <2>3. CASE decoded[p].drop
    BY <2>1, <2>3, SwitchDecodes
  <2>4. CASE decoded[p].select_valid /\ arbs[decoded[p].select].grant = p
    <3>1. decoded'[p].select_valid /\ decoded'[p].select = decoded[p].select
      BY <2>1, <2>4, SwitchDecodes
    <3>2. decoded[p].select \in MPorts
      BY <1>1
    <3>3. arbs'[decoded[p].select].grant = p
      BY <2>1, <2>4, <3>2, SwitchGrants
    <3> QED
      BY <3>1, <3>3
  <2> QED
    BY <2>2, <2>3, <2>4
<1>8. ASSUME NEW p \in SPorts, NEW n \in MPorts, arbs'[n].grant = p
      PROVE  decoded'[p].select_valid /\ decoded'[p].select = n
  <2>1. /\ decoded[p].select_valid /\ decoded[p].select = n
        /\ ~(p \in Accepted /\ Streams[p][at[p]].last)
    BY <1>8, SwitchGrants
  <2> QED
    BY <2>1, SwitchDecodes
<1>9. ASSUME NEW p \in SPorts
      PROVE  /\ decoded'[p] \in [select : MPorts, drop : BOOLEAN, select_valid : BOOLEAN]
             /\ decoded'[p].select_valid =>
                   ~decoded'[p].drop /\ Streams[p][at'[p]].dest = decoded'[p].select
             /\ decoded'[p].drop => Streams[p][at'[p]].dest \notin MPorts
  BY SwitchDecodes
<1>10. /\ decoded' \in [SPorts -> [select : MPorts, drop : BOOLEAN, select_valid : BOOLEAN]]
       /\ arbs' \in [MPorts -> Arbiters] /\ crossed' \in [MPorts -> Path({0}, AtOutput)]
  <2>1. /\ decoded' = [p \in SPorts |-> decoded'[p]] /\ arbs' = [n \in MPorts |-> arbs'[n]]
        /\ crossed' = [n \in MPorts |-> crossed'[n]]
    BY Ports, Zenon DEF SwitchStep
  <2>2. \A n \in MPorts : arbs'[n] \in Arbiters /\ crossed'[n] \in Path({0}, AtOutput)
    BY SwitchGrants, CrossMoves
  <2> QED
    BY <1>9, <2>1, <2>2
<1>11. SwitchInv'
  BY <1>5, <1>7, <1>8, <1>9, <1>10 DEF SwitchInv
<1>12. ASSUME NEW p \in Accepted, NEW q \in SPorts \ {p}, Goal(p) \cap Goal(q) # {}
       PROVE  q \notin Accepted /\ ~Midst(q)
  <2>1. /\ p \in SPorts /\ Streams[p][at[p]].dest = Streams[q][at[q]].dest
        /\ Streams[p][at[p]].dest \in MPorts
    BY <1>3, <1>4, <1>12 DEF Goal
  <2>2. ASSUME NEW r \in SPorts, Streams[r][at[r]].dest \in MPorts, r \in Accepted \/ Midst(r)
        PROVE  arbs[Streams[r][at[r]].dest].grant = r
    <3>1. ~decoded[r].drop
      BY <1>1, <2>2
    <3>2. decoded[r].select_valid /\ arbs[decoded[r].select].grant = r
      BY <1>1, <2>2, <3>1, SwitchAccepts
    <3> QED
      BY <1>1, <3>2
  <2> QED
    BY <2>1, <2>2
<1>13. ASSUME NEW s \in MPorts \cup {Monitor}
       PROVE  \E t, g : Shown(s)' = t \o g /\ t \in Shift(Shown(s)) /\ Adds(s, Accepted, g)
  <2>1. CASE s \in MPorts
    BY <2>1, CrossMoves
  <2>2. CASE s = Monitor
    <3>1. Seen(<<>>) = <<>>
      <4>1. <<>> \in Slots(AtOutput)
        BY DEF Slots
      <4> QED
        BY <4>1, SeenOne
    <3>2. Shown(Monitor) = Seen(InCast(ToMonitor)) /\ Shown(Monitor)' = Seen(InCast(ToMonitor)')
      BY Zenon DEF Shown, Seen
    <3>3. Shown(Monitor) = <<>> /\ Shown(Monitor)' = <<>>
      BY <1>1, <1>5, <3>1, <3>2
    <3>4. <<>> = <<>> \o <<>>
      BY ConcatEmptySeq, EmptySeq
    <3>5. <<>> \in Shift(<<>>)
      BY DEF Shift
    <3>6. Adds(Monitor, Accepted, <<>>)
      BY Ports DEF Adds, Goal
    <3> QED
      BY <2>2, <3>3, <3>4, <3>5, <3>6
  <2> QED
    BY <2>1, <2>2
<1>14. \A p \in SPorts :
          Passing(p)' = IF p \in Accepted THEN NextK(p, Passing(p)) ELSE Passing(p)
  BY <1>4
<1>15. Accepted \in SUBSET SPorts
  BY <1>3
<1>16. Frames!FsNext
  <2> HIDE DEF Accepted
  <2> QED
    BY <1>2, <1>12, <1>13, <1>14, <1>15, FrameStep
<1> QED
  BY <1>11, <1>16

-----------------------------------------------------------------------------
(* The bench starts as a switch of frames that has none.                   *)
LEMMA FabricStarts ==
    ASSUME PowersOfTwo, Init
    PROVE  FabricInv /\ Frames!FsInit
<1> DEFINE start(Q) == [ready |-> FALSE, out |-> Idle(Q), temp |-> Idle(Q)]
<1>1. /\ bench \in {"arbitrated", "select", "switch"}
      /\ at = [p \in SPorts |-> 1] /\ offered = {}
      /\ s_axis_reg = Idle(SPorts) /\ arb = ArbiterInit /\ mux = start({0})
      /\ select_reg = 0 /\ frame_reg = FALSE /\ s_axis_tready_reg = {}
      /\ chosen = start({0}) /\ cast = start(BPorts)
      /\ select = 0 /\ drop = FALSE /\ frame = FALSE /\ s_axis_tready = FALSE
      /\ demux = start(MPorts)
      /\ decoded = [i \in SPorts |-> [select |-> 0, drop |-> FALSE, select_valid |-> FALSE]]
      /\ arbs = [n \in OPorts |-> ArbiterInit]
      /\ crossed = [n \in OPorts |-> start({0})]
  BY Zenon
     DEF Init, ArbMuxInit, MuxInit, BroadcastInit, DemuxInit, SwitchInit,
         DatapathInit
<1>2. ASSUME NEW Q, NEW S
      PROVE  /\ start(Q) \in Path(Q, S) /\ Lone(Q, start(Q).out) /\ Lone(Q, start(Q).temp)
             /\ \A q \in Q : start(Q).out[q] = <<>> /\ start(Q).temp[q] = <<>>
  BY DEF Idle, Path, Slots, Lone
<1> HIDE DEF start
<1>3. ArbiterInit \in Arbiters /\ ArbiterInit.grant = NoGrant
  BY DEF ArbiterInit, Arbiters
<1>4. \A p \in SPorts : 1 \in Numbers(p) /\ Streams[p][1].start
  BY StreamAssumption, Circle DEF Numbers
<1>5. SourceInv
  BY <1>1, <1>4 DEF SourceInv
<1>6. \A p \in SPorts : Passing(p) = 1 /\ ~Midst(p)
  <2>1. \A p \in SPorts : Passing(p) = 1
    BY <1>1, Ports DEF Passing, Idle
  <2> QED
    BY <1>4, <2>1 DEF Midst
<1>7. ArbMuxInv
  <2>1. s_axis_reg \in [SPorts -> Slots(AtInput)] /\ \A p \in SPorts : s_axis_reg[p] = <<>>
    BY <1>1 DEF Idle, Slots
  <2> QED
    BY <1>1, <1>2, <1>3, <1>6, <2>1 DEF ArbMuxInv
<1>8. 0 \in SPorts /\ 0 \in MPorts
  BY Ports DEF SPorts, MPorts
<1>9. MuxInv
  BY <1>1, <1>2, <1>6, <1>8 DEF MuxInv
<1>10. /\ Muxed.out[0] = <<>> /\ Muxed.temp[0] = <<>>
       /\ \A q \in BPorts : cast.out[q] = <<>> /\ cast.temp[q] = <<>>
       /\ \A n \in MPorts : demux.out[n] = <<>> /\ demux.temp[n] = <<>>
  <2>1. Muxed = start({0})
    BY <1>1, Zenon DEF Muxed
  <2>2. 0 \in {0}
    OBVIOUS
  <2>3. Muxed.out[0] = <<>> /\ Muxed.temp[0] = <<>>
    BY <1>2, <2>1, <2>2, Zenon
  <2>4. \A q \in BPorts : cast.out[q] = <<>> /\ cast.temp[q] = <<>>
    BY <1>1, <1>2, Zenon
  <2>5. \A n \in MPorts : demux.out[n] = <<>> /\ demux.temp[n] = <<>>
    BY <1>1, <1>2, Zenon
  <2> QED
    BY <2>3, <2>4, <2>5
<1>11. \A q \in BPorts : InCast(q) = <<>>
  <2> TAKE q \in BPorts
  <2>1. CastOut(q) = <<>> /\ cast.temp[CastSlice[q]] = <<>> /\ Muxed.out[0] = <<>>
        /\ Muxed.temp[0] = <<>>
    BY <1>10, Ports DEF CastOut
  <2>2. <<>> \o <<>> = <<>>
    BY ConcatEmptySeq, EmptySeq
  <2>3. InCast(q) = <<>> \o <<>> \o <<>> \o <<>>
    BY <2>1 DEF InCast
  <2> QED
    BY <2>2, <2>3
<1>12. ChainInv
  <2>1. /\ cast \in Path(BPorts, InChain) /\ demux \in Path(MPorts, AtOutput)
        /\ Lone(MPorts, demux.out) /\ Lone(MPorts, demux.temp)
    BY <1>1, <1>2
  <2>2. DemuxAt({})
    BY <1>1 DEF DemuxAt, DemuxIs
  <2>3. Begun = {}
    BY <1>6 DEF Begun
  <2>4. Thread({}, InCast(ToDemux), Begun)
    <3>1. InCast(ToDemux) = <<>> /\ Len(<<>>) = 0
      BY <1>11, Ports
    <3> QED
      BY <2>3, <3>1 DEF Thread
  <2> QED
    BY <1>1, <2>1, <2>2, <2>4 DEF ChainInv
<1>13. SwitchInv
  <2>1. \A n \in MPorts : arbs[n] = ArbiterInit /\ crossed[n] = start({0})
    BY <1>1, Ports
  <2>2. arbs \in [MPorts -> Arbiters] /\ crossed \in [MPorts -> Path({0}, AtOutput)]
    BY <1>1, <1>2, <1>3, Ports
  <2>3. decoded \in [SPorts -> [select : MPorts, drop : BOOLEAN, select_valid : BOOLEAN]]
    BY <1>1, <1>8
  <2>4. \A p \in SPorts : ~decoded[p].select_valid /\ ~decoded[p].drop
    BY <1>1
  <2>5. \A p \in SPorts, n \in MPorts : arbs[n].grant # p
    BY <1>3, <2>1, Ports
  <2> QED
    BY <1>6, <1>11, <2>2, <2>3, <2>4, <2>5, Ports DEF SwitchInv
<1>14. FabricInv
  BY <1>5, <1>7, <1>9, <1>12, <1>13 DEF FabricInv
<1>15. ASSUME NEW s \in MPorts \cup {Monitor}
       PROVE  Shown(s) = <<>>
  <2>1. Seen(<<>>) = <<>>
    <3>1. <<>> \in Slots(AtOutput)
      BY DEF Slots
    <3> QED
      BY <3>1, SeenOne
  <2>2. CASE s = Monitor
    BY <1>11, <2>1, <2>2, Ports DEF Shown
  <2>3. CASE s \in MPorts
    <3>1. <<>> \o <<>> = <<>> /\ \A p : Only(p, <<>>) = <<>>
      BY ConcatEmptySeq, EmptySeq DEF Only
    <3>2. CASE bench = "switch"
      <4>1. CrossOut(s) = <<>> /\ crossed[OutSlice[s]].temp[0] = <<>>
        BY <1>1, <1>2, <2>3, Ports DEF CrossOut
      <4>2. Coming(s) = <<>> \o <<>>
        BY <3>2, <4>1, Zenon DEF Coming
      <4> QED
        BY <2>1, <2>3, <3>1, <4>2, Ports DEF Shown
    <3>3. CASE bench # "switch"
      <4>1. /\ DemuxOut(s) = <<>> /\ demux.temp[DemuxSlice[s]] = <<>>
            /\ CastOut(ToDemux) = <<>> /\ cast.temp[CastSlice[ToDemux]] = <<>>
            /\ Muxed.out[0] = <<>> /\ Muxed.temp[0] = <<>>
        BY <1>10, <2>3, Ports DEF DemuxOut, CastOut
      <4>2. Coming(s) = <<>> \o <<>> \o Only(s, <<>>) \o Only(s, <<>>) \o Only(s, <<>>)
                        \o Only(s, <<>>)
        BY <3>3, <4>1, Zenon DEF Coming
      <4>3. Coming(s) = <<>>
        BY <3>1, <4>2
      <4> QED
        BY <2>1, <2>3, <4>3, Ports DEF Shown
    <3> QED
      BY <3>2, <3>3
  <2> QED
    BY <2>2, <2>3
<1>16. Frames!FsInit
  <2>1. [p \in SPorts |-> Passing(p)] = [p \in SPorts |-> 1]
    BY <1>6
  <2>2. [s \in MPorts \cup {Monitor} |-> Shown(s)] = [s \in MPorts \cup {Monitor} |-> <<>>]
    BY <1>15
  <2> QED
    BY <2>1, <2>2 DEF Frames!FsInit, Frames!Sinks, Shown
<1> QED
  BY <1>14, <1>16

-----------------------------------------------------------------------------
(* Every edge keeps the invariant and is a step of a frame switch.         *)
LEMMA FabricEdge ==
    ASSUME PowersOfTwo, FabricInv, NEW ready, Edge(ready)
    PROVE  FabricInv' /\ Frames!FsNext
<1>1. SourceStep /\ BenchStep(In, ready) /\ bench' = bench
  BY EdgeParts DEF SourceStep
<1>2. SourceInv'
  BY <1>1, Sources
<1>3. CASE bench = "arbitrated"
  <2>1. ChainStep(ready) /\ ArbMuxStep(In, cast.ready)
    BY <1>1, <1>3 DEF BenchStep
  <2>2. cast.ready \in BOOLEAN
    BY <1>3 DEF FabricInv, ChainInv, Path
  <2>3. ArbMuxInv' /\ \E fed : Feeds(fed)
    BY <1>1, <1>3, <2>1, <2>2, ArbMuxFeeds
  <2>4. PICK fed : Feeds(fed)
    BY <2>3
  <2>5. ChainInv' /\ Frames!FsNext
    BY <1>1, <1>3, <2>1, <2>4, ChainMoves
  <2> QED
    BY <1>1, <1>2, <1>3, <2>3, <2>5 DEF FabricInv
<1>4. CASE bench = "select"
  <2>1. /\ ChainStep(ready)
        /\ \/ \E select_in \in SPorts : MuxStep(In, TRUE, select_in, cast.ready)
           \/ MuxStep(In, FALSE, 0, cast.ready)
    BY <1>1, <1>4 DEF BenchStep
  <2>2. cast.ready \in BOOLEAN /\ 0 \in SPorts
    BY <1>4, Ports DEF FabricInv, ChainInv, Path, SPorts
  <2>3. PICK enable \in BOOLEAN, choice \in SPorts : MuxStep(In, enable, choice, cast.ready)
    BY <2>1, <2>2
  <2>4. MuxInv' /\ \E fed : Feeds(fed)
    BY <1>1, <1>4, <2>2, <2>3, MuxFeeds
  <2>5. PICK fed : Feeds(fed)
    BY <2>4
  <2>6. ChainInv' /\ Frames!FsNext
    BY <1>1, <1>4, <2>1, <2>5, ChainMoves
  <2> QED
    BY <1>1, <1>2, <1>4, <2>4, <2>6 DEF FabricInv
<1>5. CASE bench = "switch"
  <2>1. SwitchStep(In, ready) /\ UNCHANGED <<muxVars, chainVars>>
    BY <1>1, <1>5 DEF BenchStep
  <2>2. SwitchInv' /\ Frames!FsNext
    BY <1>1, <1>5, <2>1, SwitchMoves
  <2> QED
    BY <1>1, <1>2, <1>5, <2>2 DEF FabricInv
<1> QED
  BY <1>3, <1>4, <1>5 DEF FabricInv, SourceInv

(* Where nothing changes, nothing that the invariant says changes, nor     *)
(* anything that a frame switch shows.                                     *)
LEMMA FabricRests ==
    ASSUME FabricInv, UNCHANGED vars
    PROVE  FabricInv' /\ UNCHANGED Frames!fsVars
<1>1. /\ UNCHANGED <<s_axis_reg, arb, mux>>
      /\ UNCHANGED <<select_reg, frame_reg, s_axis_tready_reg, chosen>>
      /\ UNCHANGED <<cast, select, drop, frame, s_axis_tready, demux>>
      /\ UNCHANGED <<decoded, arbs, crossed, bench, at, offered>>
  BY DEF vars, arbMuxVars, muxVars, chainVars, demuxVars, switchVars
<1>2. SourceInv' = SourceInv
  BY <1>1, Zenon DEF SourceInv
<1>3. /\ AtInput' = AtInput /\ InChain' = InChain /\ Muxed' = Muxed
      /\ \A p : Passing(p)' = Passing(p)
  BY <1>1, SameWords, Zenon DEF Passing, Muxed
<1>4. \A p : Midst(p)' = Midst(p)
  BY <1>3, Zenon DEF Midst
<1>5. ArbMuxInv' = ArbMuxInv
  BY <1>1, <1>3, <1>4, Zenon DEF ArbMuxInv
<1>6. MuxInv' = MuxInv
  BY <1>1, <1>3, <1>4, Zenon DEF MuxInv
<1>7. \A q : InCast(q)' = InCast(q) /\ CastOut(q)' = CastOut(q)
  BY <1>1, <1>3, Zenon DEF InCast, CastOut
<1>8. Begun' = Begun
  BY <1>3, <1>4 DEF Begun
<1>9. \A e : DemuxAt(e)' = DemuxAt(e)
  BY <1>1, Zenon DEF DemuxAt
<1>10. ChainInv' = ChainInv
  BY <1>1, <1>3, <1>7, <1>8, <1>9, Zenon DEF ChainInv
<1>11. SwitchInv' = SwitchInv
  BY <1>1, <1>4, <1>7 DEF SwitchInv
<1>12. \A p : Coming(p)' = Coming(p)
  BY <1>1, <1>3, <1>7, Zenon DEF Coming, CrossOut, DemuxOut
<1>13. FabricInv'
  BY <1>1, <1>2, <1>5, <1>6, <1>10, <1>11 DEF FabricInv
<1>14. UNCHANGED Frames!fsVars
  BY <1>1, <1>3, <1>7, <1>12 DEF Frames!fsVars
<1> QED
  BY <1>13, <1>14

-----------------------------------------------------------------------------
(* In every state, a port that has a frame under way has the grant of the  *)
(* mux or of an output, the demux is where this frame is to go or drops    *)
(* it, and the words under way are whole frames, in order.                 *)
THEOREM FabricInvariant == ASSUME PowersOfTwo PROVE Spec => []FabricInv
<1>1. Init => FabricInv
  BY FabricStarts
<1>2. FabricInv /\ [Next]_vars => FabricInv'
  BY FabricEdge, FabricRests DEF Next
<1> QED
  BY <1>1, <1>2, PTL DEF Spec

(* The muxes with the broadcast and the demux, and the switch, are         *)
(* switches of frames, for every number of ports, every width of tid and   *)
(* tdest and all streams of whole frames, whatever the sources and the     *)
(* sinks do.                                                               *)
THEOREM SwitchesFrames == ASSUME PowersOfTwo PROVE Spec => IsASwitch
<1>1. Init => FabricInv /\ Frames!FsInit
  BY FabricStarts
<1>2. FabricInv /\ [Next]_vars => FabricInv' /\ [Frames!FsNext]_Frames!fsVars
  BY FabricEdge, FabricRests DEF Next
<1> QED
  BY <1>1, <1>2, PTL DEF Spec, IsASwitch, Frames!FsSpec
=============================================================================
