---------------------------- MODULE SetupSessions ----------------------------
(***************************************************************************)
(* Sessions of what is set up, of two programs with their property sheets, *)
(* and of the requests to key servers.                                     *)
(***************************************************************************)
EXTENDS Integers, Sequences

CONSTANTS Program, NetRealm, KRB_PORT, Nothing

-----------------------------------------------------------------------------
(* Sessions of the property sheets                                         *)

Data == {"Setup", "Manager", "Printer"}

Sheet(one, other, may) ==
  [pages |-> [p \in Program |-> IF p = "ktelnet" THEN one ELSE other],
   own |-> [part \in Data |-> Nothing], dflt |-> [part \in Data |-> Nothing],
   realms |-> <<>>, config |-> [r \in NetRealm |-> <<>>], default |-> Nothing,
   file |-> <<>>, may |-> may \cup {"edit"}, values |-> {"", "R", "S"}, hosts |-> {}, writable |-> TRUE, asks |-> FALSE]

Row(k, v) == [key |-> k, value |-> v]

Realms == [Sheet(<<"krb.realms">>, <<"Setup">>, {"add", "value", "rename", "delete", "import", "export"}) EXCEPT
  !.realms = <<Row("dom", "R"), Row("box", "S")>>]

HostLists == [Sheet(<<"krb.config">>, <<"Setup">>, {"addhost", "change", "delete", "host"}) EXCEPT
  !.config["R"] = <<Row("a", "admin")>>, !.hosts = {Row("a", ""), Row("", "")}]

Carried == [HostLists EXCEPT !.may = {"edit", "addhost", "change", "default", "delete", "export", "import"},
                             !.hosts = {Row("b", "admin"), Row("", "")}]

Both == [Sheet(<<"Setup", "Manager">>, <<"Setup", "Manager">>, {"control"}) EXCEPT !.dflt["Setup"] = 1]

Three == <<"Setup", "krb.realms", "krb.config">>

Locked == [Sheet(Three, Three, {"control", "rename"}) EXCEPT !.writable = FALSE, !.realms = <<Row("dom", "R")>>]

LockedHosts == [Locked EXCEPT !.realms = <<>>, !.config["R"] = <<Row("a", "admin")>>]

Printing == Sheet(<<"Printer">>, <<"Setup">>, {"printer"})

Used == [Sheet(<<"krb.realms", "krb.config">>, <<"Setup">>, {"addhost", "delete", "value"}) EXCEPT
  !.config["R"] = <<Row("a", "admin")>>, !.realms = <<Row("dom", "R")>>, !.hosts = {Row("b", ""), Row("web", "admin")},
  !.values = NetRealm, !.asks = TRUE]

SetupSessions == {Realms, HostLists, Carried, Both, Locked, LockedHosts, Printing, Used}

-----------------------------------------------------------------------------
(* Sessions of the requests *)

Server(name, proto, port, admin) == [name |-> name, proto |-> proto, port |-> port, admin |-> admin]

ServerNames == {"a", "b", "web", "kerberos.R", "kerberos-1.R", "kerberos-2.R", "kerberos.S"}

Base == [registry |-> [R |-> <<Server("a", "udp", Nothing, TRUE), Server("b", "tcp", Nothing, FALSE)>>, S |-> <<>>],
         srv |-> [R |-> <<Server("a", "udp", KRB_PORT, FALSE)>>, S |-> <<>>],
         guess |-> [R |-> <<"kerberos.R", "kerberos-1.R", "kerberos-2.R">>, S |-> <<"kerberos.S">>],
         net |-> [n \in ServerNames |-> CASE n = "a" -> <<"a1", "a2">> [] n = "b" -> <<"b1">> [] OTHER -> <<>>],
         proxy |-> FALSE, nat |-> FALSE, timesync |-> FALSE, skewed |-> FALSE,
         fates |-> {"whole", "error", "cut", "empty"}, realms |-> {"R"}, change |-> FALSE, dns |-> TRUE, kind |-> "des"]

Guessed == [Base EXCEPT !.registry["R"] = <<>>, !.net["kerberos.R"] = <<"k0">>, !.net["kerberos-1.R"] = <<"k1">>,
                        !.realms = NetRealm, !.kind = "v5", !.fates = {"whole"}]
Web == [Base EXCEPT !.registry["R"] = <<Server("web", "http", Nothing, FALSE)>>, !.srv["R"] = <<>>, !.proxy = TRUE,
                    !.fates = {"page", "whole", "cut"}, !.kind = "afs"]
Direct == [Web EXCEPT !.proxy = FALSE, !.net["web"] = <<"w1">>, !.timesync = TRUE]
Mixed == [Web EXCEPT !.registry["R"] = @ \o <<Server("b", "udp", 88, FALSE)>>, !.fates = {"whole"}]
DialUp == [Guessed EXCEPT !.dns = FALSE]
Skewed == [Base EXCEPT !.skewed = TRUE, !.kind = "afs", !.fates = {"whole", "cut"}]
Changes == [Base EXCEPT !.change = TRUE, !.fates = {"whole"}, !.kind = "v5",
                        !.registry["R"] = <<Server("a", "udp", Nothing, TRUE)>>, !.srv["R"] = <<>>]
NoAdmin == [Changes EXCEPT !.registry["R"] = <<Server("b", "tcp", Nothing, FALSE)>>, !.nat = TRUE]
AdminAway == [NoAdmin EXCEPT !.registry["R"] = <<Server("web", "udp", Nothing, TRUE), Server("a", "tcp", Nothing, TRUE)>>]

KdcSessions == {Base, Guessed, Web, Direct, Mixed, DialUp, Skewed, Changes, NoAdmin, AdminAway}
==============================================================================
