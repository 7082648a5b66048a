---------------------------- MODULE MCNegotiation ----------------------------
(***************************************************************************)
(* A server that authenticates and offers no pair the program knows: one   *)
(* way only, or another type altogether.                                   *)
(***************************************************************************)
EXTENDS Negotiation

OneWay == [asks |-> {<<"DO", "AUTH">>}, crypt |-> TRUE, pairs |-> "oneway", ticket |-> "got",
           user |-> TRUE, accepts |-> TRUE, support |-> TRUE, jam |-> FALSE, stops |-> FALSE,
           memory |-> FALSE]

OneWaySessions == {OneWay, [OneWay EXCEPT !.pairs = "none"], [OneWay EXCEPT !.pairs = "mixed"]}
=============================================================================
