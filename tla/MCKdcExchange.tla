---------------------------- MODULE MCKdcExchange ----------------------------
(***************************************************************************)
(* A realm whose servers are asked through a web proxy, and one where a      *)
(* server is asked directly as well.                                         *)
(***************************************************************************)
EXTENDS KdcExchange

Server(name, proto) == [name |-> name, proto |-> proto, port |-> None, admin |-> FALSE]

Web ==
  [registry |-> [R |-> <<Server("web", "http")>>], srv |-> [R |-> <<>>], guess |-> [R |-> <<"kerberos.R">>],
   net |-> [n \in {"web", "b", "kerberos.R"} |-> IF n = "b" THEN <<"b1">> ELSE <<>>],
   proxy |-> TRUE, nat |-> FALSE, timesync |-> FALSE, skewed |-> FALSE, fates |-> {"whole", "page"},
   realms |-> {"R"}, change |-> FALSE, dns |-> TRUE, kind |-> "des"]

ProxySessions == {Web, [Web EXCEPT !.registry["R"] = Append(@, Server("b", "udp"))]}
=============================================================================
