------------------------------- MODULE Analyzer -------------------------------
(***************************************************************************)
(* analyzer.v: takes a DNS packet apart, by shifting it to the left in one *)
(* register and reading what is on top.                                    *)
(*                                                                         *)
(* One step is one rising edge of clk, with rst low.  Parameters of a step *)
(* are what its neighbours drive before the edge: the packet, pkt_valid    *)
(* and the address of the sender, and parser_ready of the storage machine. *)
(*                                                                         *)
(* The packet is a row of tokens, see DnsIpRx; what is shifted in is zero. *)
(* Left out are the fields nobody counts: flags and counts of the header   *)
(* (but whether there are questions and answers), class, TTL and length of *)
(* a record, the destination address.  CNAMEs are not compressed, as the   *)
(* head of the file says.                                                  *)
(***************************************************************************)
EXTENDS Integers, Sequences

CONSTANTS
    Token, Nul, MaxTokens,
    HeadersQ,      \* headers with a question count above zero
    HeadersA,      \* headers with an answer count above zero
    ASlots, AAAASlots, CNAMESlots,      \* registers for records [30, 8, 2]
    ACounter, AAAACounter, CNAMECounter \* ranges of the counters [32, 8, 4]

VARIABLES
    an_state,
    pkt,           \* pkt_reg
    pkt_ready,
    parser_valid,
    out            \* the registers that the storage machine reads
anVars == <<an_state, pkt, pkt_ready, parser_valid, out>>

Blank == [ hdr |-> Nul, ip |-> "none", qname |-> <<Nul>>, qtype |-> Nul, qclass |-> Nul,
           a     |-> [i \in 0 .. ASlots - 1 |-> Nul],        a_record     |-> 0,
           aaaa  |-> [i \in 0 .. AAAASlots - 1 |-> Nul],     a4_record    |-> 0,
           cname |-> [i \in 0 .. CNAMESlots - 1 |-> <<Nul>>], cname_record |-> 0 ]

AnInit ==
    /\ an_state = "IDLE" /\ pkt = [i \in 1 .. MaxTokens |-> Nul]
    /\ pkt_ready = FALSE /\ parser_valid = FALSE /\ out = Blank

-----------------------------------------------------------------------------
Untaken(parser_ready) == parser_valid /\ ~parser_ready

Top == pkt[1]
Shift(n) ==
    pkt' = [i \in 1 .. MaxTokens |-> IF i + n <= MaxTokens THEN pkt[i + n] ELSE Nul]

(* A step of the parser: it reads in state from and shifts n tokens out.   *)
Parse(from, n, to, parser_ready) ==
    /\ an_state = from /\ an_state' = to
    /\ Shift(n)
    /\ pkt_ready' = FALSE
    /\ parser_valid' = Untaken(parser_ready)

(* A name register: the byte is put in the last place, the shift makes a   *)
(* new one.                                                                *)
PutLast(name, c) == [name EXCEPT ![Len(name)] = c]

(* The packet is taken whenever it is shown, also while the result of the  *)
(* packet before it still waits.                                           *)
Capture(p, valid, parser_ready) ==
    /\ an_state = "IDLE" /\ valid
    /\ an_state' = "RD_HDR"
    /\ pkt' = p
    /\ out' = Blank
    /\ pkt_ready' = FALSE
    /\ parser_valid' = Untaken(parser_ready)

Idle(valid, parser_ready) ==
    /\ an_state = "IDLE" /\ ~valid
    /\ pkt_ready' = ~Untaken(parser_ready)
    /\ parser_valid' = Untaken(parser_ready)
    /\ UNCHANGED <<an_state, pkt, out>>

RdHdr(ip, parser_ready) ==
    /\ Parse("RD_HDR", 1,
             IF Top \in HeadersQ THEN "RD_QUESTION_NAME"
             ELSE IF Top \in HeadersA THEN "RD_ANSWER" ELSE "RD_QUESTION_TYPE",
             parser_ready)
    /\ out' = [out EXCEPT !.hdr = Top, !.ip = ip]

RdQuestionName(parser_ready) ==
    /\ Parse("RD_QUESTION_NAME", 1,
             IF Top = Nul THEN "RD_QUESTION_TYPE" ELSE "RD_QUESTION_NAME_SHIFT",
             parser_ready)
    /\ out' = [out EXCEPT !.qname = PutLast(@, Top)]

RdQuestionNameShift(parser_ready) ==
    /\ Parse("RD_QUESTION_NAME_SHIFT", 0, "RD_QUESTION_NAME", parser_ready)
    /\ out' = [out EXCEPT !.qname = Append(@, Nul)]

RdQuestionType(parser_ready) ==
    /\ Parse("RD_QUESTION_TYPE", 1, "RD_QUESTION_CLASS", parser_ready)
    /\ out' = [out EXCEPT !.qtype = Top]

(* Bytes 6 and 7 from here are the class of the first answer, if there is  *)
(* one: the third token after the class of the question.                   *)
AnswerFollows == pkt[4] # Nul
RdQuestionClass(parser_ready) ==
    /\ Parse("RD_QUESTION_CLASS", 1,
             IF AnswerFollows THEN "RD_ANSWER" ELSE "RD_HDR", parser_ready)
    /\ out' = [out EXCEPT !.qclass = Top]

(* Mutant: the name of the answer is read by the state for names.          *)
MutRdAnswer(parser_ready) ==
    /\ Parse("RD_ANSWER", 1, "RD_ANSWER_NAME", parser_ready)
    /\ UNCHANGED out

RdAnswer(parser_ready) ==
    \/ /\ Top = "ptr"
       /\ Parse("RD_ANSWER", 1, "RD_ANSWER_TYPE", parser_ready)
       /\ UNCHANGED out
    \/ /\ Top # "ptr" /\ an_state = "RD_ANSWER"
       /\ an_state' = "IDLE"
       /\ parser_valid' = TRUE /\ pkt_ready' = FALSE
       /\ Shift(1)
       /\ UNCHANGED out

(* A record of another type ends the packet without a result.              *)
RdAnswerType(parser_ready) ==
    /\ Parse("RD_ANSWER_TYPE", 1,
             CASE Top = "A"     -> "RD_ANSWER_A"
               [] Top = "AAAA"  -> "RD_ANSWER_AAAA"
               [] Top = "CNAME" -> "RD_ANSWER_CNAME"
               [] OTHER         -> "IDLE",
             parser_ready)
    /\ UNCHANGED out

(* Records without a register are counted, not kept.                       *)
(* Mutant: a result after each record, as the code once had it.            *)
MutRdAnswerA(parser_ready) ==
    /\ an_state = "RD_ANSWER_A" /\ an_state' = "RD_ANSWER"
    /\ Shift(1)
    /\ pkt_ready' = FALSE /\ parser_valid' = TRUE
    /\ out' = [out EXCEPT !.a[out.a_record] = Top, !.a_record = (@ + 1) % ACounter]

RdAnswerA(parser_ready) ==
    /\ Parse("RD_ANSWER_A", 1, "RD_ANSWER", parser_ready)
    /\ out' = [out EXCEPT
                 !.a = IF out.a_record < ASlots THEN [@ EXCEPT ![out.a_record] = Top] ELSE @,
                 !.a_record = (@ + 1) % ACounter]

RdAnswerAAAA(parser_ready) ==
    /\ Parse("RD_ANSWER_AAAA", 1, "RD_ANSWER", parser_ready)
    /\ out' = [out EXCEPT
                 !.aaaa = IF out.a4_record < AAAASlots
                            THEN [@ EXCEPT ![out.a4_record] = Top] ELSE @,
                 !.a4_record = (@ + 1) % AAAACounter]

RdAnswerCName(parser_ready) ==
    /\ Parse("RD_ANSWER_CNAME", 1, "RD_ANSWER_CNAME_NAME", parser_ready)
    /\ UNCHANGED out

(* Mutant: the name ends, and the next one goes to the same register.      *)
MutRdAnswerCNameName(parser_ready) ==
    /\ Parse("RD_ANSWER_CNAME_NAME", 1,
             IF Top = Nul THEN "RD_ANSWER" ELSE "RD_ANSWER_CNAME_SHIFT", parser_ready)
    /\ out' = [out EXCEPT !.cname = IF out.cname_record < CNAMESlots
                             THEN [@ EXCEPT ![out.cname_record] = PutLast(@, Top)] ELSE @]

RdAnswerCNameName(parser_ready) ==
    /\ Parse("RD_ANSWER_CNAME_NAME", 1,
             IF Top = Nul THEN "RD_ANSWER" ELSE "RD_ANSWER_CNAME_SHIFT", parser_ready)
    /\ out' = [out EXCEPT
                 !.cname = IF out.cname_record < CNAMESlots
                             THEN [@ EXCEPT ![out.cname_record] = PutLast(@, Top)] ELSE @,
                 !.cname_record = IF Top = Nul THEN (@ + 1) % CNAMECounter ELSE @]

RdAnswerCNameShift(parser_ready) ==
    /\ Parse("RD_ANSWER_CNAME_SHIFT", 0, "RD_ANSWER_CNAME_NAME", parser_ready)
    /\ out' = [out EXCEPT
                 !.cname = IF out.cname_record < CNAMESlots
                             THEN [@ EXCEPT ![out.cname_record] = Append(@, Nul)] ELSE @]

AnStep(p, valid, ip, parser_ready) ==
    \/ Capture(p, valid, parser_ready) \/ Idle(valid, parser_ready)
    \/ RdHdr(ip, parser_ready)
    \/ RdQuestionName(parser_ready) \/ RdQuestionNameShift(parser_ready)
    \/ RdQuestionType(parser_ready) \/ RdQuestionClass(parser_ready)
    \/ RdAnswer(parser_ready) \/ RdAnswerType(parser_ready)
    \/ RdAnswerA(parser_ready) \/ RdAnswerAAAA(parser_ready)
    \/ RdAnswerCName(parser_ready) \/ RdAnswerCNameName(parser_ready)
    \/ RdAnswerCNameShift(parser_ready)

=============================================================================
