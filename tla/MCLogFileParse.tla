--------------------------- MODULE MCLogFileParse ---------------------------
(* Two names, two hosts, two addresses of a name; packets of every kind    *)
(* that the script tells apart, and the irregular ones that make it stop   *)
(* or write to the entry of another name.                                  *)
EXTENDS LogFileParse

Rec(t, d) == [type |-> t, data |-> d]

Response(host, question, answers) ==
    [dated |-> TRUE, qr |-> "r", host |-> host, questions |-> <<question>>,
     answers |-> answers]

MCPackets ==
    {Response(h, q, a) :
        h \in {"h1", "h2"}, q \in {"x", "y"},
        a \in {<<Rec("A", "v1")>>, <<Rec("CNAME", "y"), Rec("A", "v2")>>, <<Rec("AAAA", "v6")>>}}
    \cup
    {[Response("h1", "x", <<>>) EXCEPT !.qr = "q"],
     [Response("h1", "x", <<Rec("A", "v1")>>) EXCEPT !.qr = "q"],
     Response("h2", "y", <<Rec("PTR", "x")>>),
     Response("h2", "y", <<Rec("SOA", "z"), Rec("MX", "x")>>),
     [Response("h2", "y", <<Rec("A", "v1")>>) EXCEPT !.dated = FALSE],
     [Response("h2", "y", <<Rec("A", "v1")>>) EXCEPT !.questions = <<>>]}
=============================================================================
