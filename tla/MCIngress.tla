------------------------------ MODULE MCIngress ------------------------------
(* Datagrams with every kind of record, and some that are to be dropped.   *)
EXTENDS Ingress

RR(kind, value) == [kind |-> kind, value |-> value]
Response(records) ==
    [ hdr |-> "response", name |-> <<"x", "y">>, type |-> "type", class |-> "in",
      records |-> records, ip |-> "host1", dns |-> TRUE, excess |-> 0 ]

Mixed == Response(<<RR("CNAME", <<"y", "x">>), RR("A", "a1"), RR("AAAA", "b1")>>)
Full  == [Response(<<RR("A", "a1"), RR("A", "a2"), RR("A", "a3")>>) EXCEPT !.name = <<"x">>]
Names == [Response(<<RR("CNAME", <<"x">>), RR("CNAME", <<"y">>), RR("AAAA", "b2"),
                     RR("AAAA", "b1")>>) EXCEPT !.name = <<>>, !.ip = "host2"]
Bare  == [Response(<<RR("A", "a2")>>) EXCEPT !.hdr = "bare"]
Query == [Response(<<>>) EXCEPT !.hdr = "query"]
Edns  == [Query EXCEPT !.records = <<RR("OPT", "size")>>]

MCFrames == { Mixed, Full, Names, Bare, Edns,
              Response(<<RR("A", "a1"), RR("SOA", "data")>>),
              [Full EXCEPT !.dns = FALSE], [Mixed EXCEPT !.excess = 1] }

(* Two good datagrams, for the runs that do not wait between them.         *)
PlainFrames == {Bare, Full}

MCToken == {"0", "query", "response", "bare", "x", "y", "type", "in", "ptr", "opt", "size",
            "A", "AAAA", "CNAME", "SOA", "fixed", "data", "a1", "a2", "a3", "b1", "b2"}
=============================================================================
