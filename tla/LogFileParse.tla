---------------------------- MODULE LogFileParse ----------------------------
(***************************************************************************)
(* dns-parse-sim/log_file_parse.py: the figures of a capture by which the  *)
(* size of a cell and of its regions was chosen.  The log is what          *)
(* dns_parse.c prints of the packets, as iteration_script.sh calls it for  *)
(* one capture file after the other.  A line is one step; what it contains *)
(* is its kind and the strings the script looks for in it.                 *)
(***************************************************************************)
EXTENDS Integers, Sequences, FiniteSets, FiniteSetsExt, SequencesExt

CONSTANTS
    Packets,      \* [dated, qr, host, questions, answers]: dated in one of the
                  \* two months that the script knows, an answer [type, data]
    MaxPackets,   \* bounds the log: packets, capture files, and the packets
    MaxCaptures,  \* of a file that are not DNS
    MaxOthers

Unset == "unset"  \* a variable of the script that has no value yet
Word == STRING \ {Unset}

Packet == [dated : BOOLEAN, qr : {"q", "r"}, host : Word, questions : Seq(Word),
           answers : Seq([type : STRING, data : STRING])]

ASSUME LogAssumption ==
    Packets \subseteq Packet /\ {MaxPackets, MaxCaptures, MaxOthers} \subseteq Nat

VARIABLES
    lines,         \* what dns_parse printed and the script has not read
    log,           \* the packets printed so far
    captures, counted,  \* the capture files finished, the packets in them
    response, hostIP, domain, dns_responses,
    total_packets, total_dns_packets,
    highest,       \* highest_AAAA, highest_A, highest_cname, highest_requests
    pc             \* "loop", "done", or "NameError"

table == <<response, hostIP, domain, dns_responses>>
packet_totals == <<total_packets, total_dns_packets>>
logVars == <<lines, log, captures, counted, table, packet_totals, highest, pc>>

LogInit ==
    /\ lines = <<>> /\ log = <<>> /\ captures = 0 /\ counted = [dns |-> 0, all |-> 0]
    /\ response = Unset /\ hostIP = Unset /\ domain = Unset
    /\ dns_responses = [d \in {} |-> {}]
    /\ total_packets = 0 /\ total_dns_packets = 0
    /\ highest = [aaaa |-> 0, a |-> 0, cname |-> 0, requests |-> 0]
    /\ pc = "loop"

(* The strings among those the script looks for that the line of an answer *)
(* of a type contains.  Names are in small letters.                        *)
Strings(type) ==
    CASE type = "CNAME" -> {"CNAME"}
      [] type = "PTR"   -> {"PTR"}
      [] type = "AAAA"  -> {"AAAA", "A "}
      [] type \in {"A", "SOA"} -> {"A "}
      [] OTHER -> {}

Printed(p) ==
    <<[kind |-> "header", dated |-> p.dated, qr |-> p.qr, host |-> p.host]>>
    \o [i \in DOMAIN p.questions |-> [kind |-> "?", name |-> p.questions[i]]]
    \o [i \in DOMAIN p.answers |->
            [kind |-> "!", contains |-> Strings(p.answers[i].type),
             data |-> p.answers[i].data]]

NextPacket ==
    /\ pc = "loop" /\ lines = <<>>
    /\ captures < MaxCaptures /\ Len(log) < MaxPackets
    /\ \E p \in Packets : lines' = Printed(p) /\ log' = Append(log, p)
    /\ UNCHANGED <<captures, counted, table, packet_totals, highest, pc>>

EndOfCapture ==
    /\ pc = "loop" /\ lines = <<>> /\ captures < MaxCaptures
    /\ \E others \in 0 .. MaxOthers :
          LET dns == Len(log) - counted.dns
          IN  /\ lines' = <<[kind |-> "Total packet", count |-> dns + others],
                            [kind |-> "Total DNS Packets", count |-> dns]>>
              /\ counted' = [dns |-> Len(log), all |-> counted.all + dns + others]
    /\ captures' = captures + 1
    /\ UNCHANGED <<log, table, packet_totals, highest, pc>>

(*************************** the script ************************************)
line == Head(lines)

Read(kinds) ==
    pc = "loop" /\ lines # <<>> /\ line.kind \in kinds /\ lines' = Tail(lines)

Stays == UNCHANGED <<log, captures, counted, highest>>

NameError == pc' = "NameError" /\ UNCHANGED <<table, packet_totals>>

HeaderLine ==
    /\ Read({"header"})
    /\ response' = CASE line.dated /\ line.qr = "r" -> "True"
                   [] line.dated /\ line.qr = "q" -> "False"
                   [] OTHER -> response
    /\ hostIP' = IF line.dated /\ line.qr = "r" THEN line.host ELSE hostIP
    /\ UNCHANGED <<domain, dns_responses, packet_totals, pc>> /\ Stays

(* The table after one more response about a name. *)
Queried(name) ==
    LET old == DOMAIN dns_responses
        new == [hosts |-> <<hostIP>>, a |-> {}, aaaa |-> {}, cname |-> {}]
    IN  IF name \in old
        THEN [dns_responses EXCEPT ![name].hosts = Append(@, hostIP)]
        ELSE [d \in old \cup {name} |-> IF d = name THEN new ELSE dns_responses[d]]

(* Mutant: the domain is taken over with a new entry only.                 *)
MutQuestionLine ==
    /\ Read({"?"}) /\ response = "True"
    /\ domain' = IF line.name \in DOMAIN dns_responses THEN domain ELSE line.name
    /\ dns_responses' = Queried(line.name)
    /\ UNCHANGED <<response, hostIP, packet_totals, pc>> /\ Stays

QuestionLine ==
    /\ Read({"?"})
    /\ \/ response = Unset /\ NameError
       \/ response = "False" /\ UNCHANGED <<table, packet_totals, pc>>
       \/ /\ response = "True"
          /\ domain' = line.name /\ dns_responses' = Queried(line.name)
          /\ UNCHANGED <<response, hostIP, packet_totals, pc>>
    /\ Stays

(* The set of the entry that an answer goes to, "" for none: the first of  *)
(* the four strings that is found decides, whatever the type is.           *)
Goes ==
    IF "CNAME" \in line.contains THEN "cname"
    ELSE IF "PTR" \in line.contains THEN ""
    ELSE IF "AAAA" \in line.contains THEN "aaaa"
    ELSE IF "A " \in line.contains THEN "a"
    ELSE ""

AnswerLine ==
    /\ Read({"!"})
    /\ \/ Goes = "" /\ UNCHANGED <<table, packet_totals, pc>>
       \/ Goes # "" /\ domain = Unset /\ NameError
       \/ /\ Goes # "" /\ domain # Unset
          /\ dns_responses' = [dns_responses EXCEPT ![domain][Goes] = @ \cup {line.data}]
          /\ UNCHANGED <<response, hostIP, domain, packet_totals, pc>>
    /\ Stays

TotalLine ==
    /\ Read({"Total packet", "Total DNS Packets"})
    /\ IF line.kind = "Total packet"
       THEN total_packets' = total_packets + line.count /\ UNCHANGED total_dns_packets
       ELSE total_dns_packets' = total_dns_packets + line.count /\ UNCHANGED total_packets
    /\ UNCHANGED <<table, pc>> /\ Stays

Highest(sizes) == Max({0} \cup sizes)

Report ==
    /\ pc = "loop" /\ lines = <<>> /\ captures = MaxCaptures
    /\ LET entries == Range(dns_responses)
       IN  highest' = [aaaa     |-> Highest({Cardinality(e.aaaa) : e \in entries}),
                       a        |-> Highest({Cardinality(e.a) : e \in entries}),
                       cname    |-> Highest({Cardinality(e.cname) : e \in entries}),
                       requests |-> Highest({Cardinality(Range(e.hosts)) : e \in entries})]
    /\ pc' = "done"
    /\ UNCHANGED <<lines, log, captures, counted, table, packet_totals>>

LogNext ==
    \/ NextPacket \/ EndOfCapture
    \/ HeaderLine \/ QuestionLine \/ AnswerLine \/ TotalLine \/ Report

LogSpec == LogInit /\ [][LogNext]_logVars

(*************************** properties ************************************)
(* What the script takes for granted of a packet: a month it knows, a      *)
(* question in every response, no answer in a query, and no answer with    *)
(* "A " of another type.                                                   *)
Regular(p) ==
    /\ p.dated
    /\ IF p.qr = "r" THEN Len(p.questions) = 1 ELSE p.answers = <<>>
    /\ \A i \in DOMAIN p.answers : p.answers[i].type # "SOA"

About(p, d) == p.qr = "r" /\ p.questions[1] = d

(* Where the responses about a name are in a log l, what they answer of a  *)
(* type, who asked, and the place of one of them among them.               *)
Places(l, d) == {i \in DOMAIN l : About(l[i], d)}

Answers(l, d, type) ==
    {a.data : a \in {b \in UNION {Range(l[i].answers) : i \in Places(l, d)} :
                        b.type = type}}

Hosts(l, d) == {l[i].host : i \in Places(l, d)}

Rank(l, d, i) == Cardinality({j \in Places(l, d) : j <= i})

NamesOf(l) == {l[i].questions[1] : i \in {j \in DOMAIN l : l[j].qr = "r"}}

(* A table has what a log l says, and no more.                             *)
SumsUp(t, l) ==
    /\ DOMAIN t = NamesOf(l)
    /\ \A d \in NamesOf(l) :
          /\ Len(t[d].hosts) = Cardinality(Places(l, d))
          /\ \A i \in Places(l, d) : t[d].hosts[Rank(l, d, i)] = l[i].host
          /\ t[d].a = Answers(l, d, "A")
          /\ t[d].aaaa = Answers(l, d, "AAAA")
          /\ t[d].cname = Answers(l, d, "CNAME")

(* The counts that the script reports of a log l.                          *)
Most(l, type) == Highest({Cardinality(Answers(l, d, type)) : d \in NamesOf(l)})

Figures(l) ==
    [aaaa |-> Most(l, "AAAA"), a |-> Most(l, "A"), cname |-> Most(l, "CNAME"),
     requests |-> Highest({Cardinality(Hosts(l, d)) : d \in NamesOf(l)})]

(* Between two packets of a regular log, and at its end, the table has an  *)
(* entry for exactly the names that a response was about, with the hosts   *)
(* that were answered in the order of the log, and the distinct addresses  *)
(* and CNAMEs of all the responses about the name; the script does not     *)
(* stop; the totals are those of all the capture files, and the counts at  *)
(* the end are the largest of any name.                                    *)
SumsTheLog ==
    (lines = <<>> /\ \A i \in DOMAIN log : Regular(log[i])) =>
        /\ pc # "NameError"
        /\ total_packets = counted.all /\ total_dns_packets = counted.dns
        /\ SumsUp(dns_responses, log)
        /\ pc = "done" => highest = Figures(log)
=============================================================================
