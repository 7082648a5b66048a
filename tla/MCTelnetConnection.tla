------------------------- MODULE MCTelnetConnection -------------------------
(***************************************************************************)
(* A window's connections.  Three one after the other over two socket      *)
(* numbers, so that a number is used again while messages about its last   *)
(* owner are still queued, and two blocks that bring up the password       *)
(* dialog.  Or what comes before: a connection is asked for, and opened,   *)
(* with its sheet; two programs set up realms and hosts; and a program     *)
(* asks the key servers, those that were set up or those of a given        *)
(* session.                                                                *)
(***************************************************************************)
EXTENDS TelnetConnection, SetupSessions, SequencesExt, TLC

CONSTANTS AskSession, HistorySize, MaxSteps
CONSTANTS Label, MaxEdits, SetupSession
CONSTANTS CLIENT_KRB_RETRY, MaxRequests, KdcSession

VARIABLES grain
VARIABLES session, args, sheet, history, lastUsed, stored, line, profile, conn, asked, used, steps

nvars == <<session, args, sheet, history, lastUsed, stored, line, profile, conn, asked, used, steps>>

VARIABLES setting, reg, prog, cache, file, written, edits

svars == <<setting, reg, prog, cache, file, written, edits>>

VARIABLES asking, dns, orealm, hosts, at, req, dialog, link, wild, db, verdict, requests

kvars == <<asking, dns, orealm, hosts, at, req, dialog, link, wild, db, verdict, requests>>

N == INSTANCE NewConnection WITH Session <- AskSession, None <- Nothing

S == INSTANCE Setup WITH session <- setting, stored <- written, steps <- edits, Session <- SetupSession,
                         Realm <- NetRealm, MaxSteps <- MaxEdits, None <- Nothing

K == INSTANCE KdcExchange WITH session <- asking, told <- verdict, count <- requests, Session <- KdcSession,
                               None <- Nothing

ASSUME N!ConnectionAssumption
ASSUME SetupAssumption == S!SetupAssumption
ASSUME KdcAssumption == K!KdcAssumption

Handles == {4, 8}

-----------------------------------------------------------------------------
(* What users ask for *)

Blank == [type |-> "none", host |-> "", bare |-> FALSE, spec |-> "", port |-> "", user |-> "", ticket |-> "",
          proxy |-> FALSE, profile |-> "", princ |-> ""]
Form == [Blank EXCEPT !.port = "telnet", !.profile = "Default"]

Telnet ==
  { [Form EXCEPT !.host = "a", !.user = "u", !.profile = "P"],
    [Form EXCEPT !.host = "b", !.bare = TRUE],
    [Form EXCEPT !.host = "x", !.profile = "P"],
    [Form EXCEPT !.host = "c", !.proxy = TRUE, !.ticket = "t"] }
Serial == {[Blank EXCEPT !.host = p, !.profile = "Default"] : p \in {"COM1", "COM2"}}
Ftp == {[Blank EXCEPT !.host = h, !.user = u] : h \in {"a", "x"}, u \in {"", "v"}}

Option(o, v) == [opt |-> o, value |-> v, bare |-> FALSE, spec |-> ""]
Host(h) == Option("", h)

Idle == [program |-> "ktelnet", args |-> Nothing, forms |-> [p \in {"telnet", "serial", "ftp"} |-> {}],
         knows |-> ("a" :> "a.dom" @@ "b" :> "b.dom" @@ "c" :> "c.dom"),
         ports |-> ("COM1" :> [rate |-> 1, flow |-> 0] @@ "COM2" :> [rate |-> 1, flow |-> 1]),
         fails |-> {}, refuses |-> {}]

Lines ==
  { <<Host("a")>>, <<Host("x")>>, <<Host("b"), Host("smtp"), Host("c")>>, <<Option("l", "u"), Host("a"), Host("smtp")>>,
    <<[Host("b") EXCEPT !.bare = TRUE], Option("i", "P")>>, <<Option("h", ""), Option("i", "P"), Host("x")>>,
    <<Option("i", "P")>>, <<Option("l", "u")>>, <<Option("o", ""), Option("i", "P")>>, <<Option("f", ""), Host("a"), Option("p", "q")>>,
    <<Option("f", ""), Option("l", "u")>>, <<Option("s", "")>>, <<Option("s", ""), Host("COM2")>>,
    <<Option("s", ""), [Host("COM1") EXCEPT !.spec = "fast"]>>, <<Option("s", ""), [Host("COM1") EXCEPT !.spec = "junk"]>>,
    <<Option("s", ""), Host("COM9")>>, <<Host("a"), Option("f", "")>>, <<Option("l", "u"), Option("l", "v")>>,
    <<Option("p", "q"), Option("p", "r")>> }

AskSessions ==
  {Idle}
  \cup {[Idle EXCEPT !.args = l, !.forms = [telnet |-> {}, serial |-> Serial, ftp |-> Ftp]] : l \in Lines}
  \cup {[Idle EXCEPT !.forms = [telnet |-> Telnet, serial |-> Serial, ftp |-> Ftp]],
        [Idle EXCEPT !.forms = [telnet |-> Telnet, serial |-> {}, ftp |-> Ftp], !.fails = {"telnet"}],
        [Idle EXCEPT !.program = "kftp", !.forms = [telnet |-> {}, serial |-> {}, ftp |-> Ftp \cup {[Form EXCEPT !.host = "b", !.bare = TRUE, !.port = "", !.profile = ""]}]],
        [Idle EXCEPT !.args = <<Option("s", "")>>, !.forms = [telnet |-> {}, serial |-> Serial, ftp |-> {}], !.refuses = {2}],
        [Idle EXCEPT !.args = <<Host("a")>>, !.forms = [telnet |-> {}, serial |-> Serial, ftp |-> {}], !.fails = {"telnet", "serial"}]}

-----------------------------------------------------------------------------
(* A program asks what was set up *)

SetUpHosts(realm) ==
  [i \in 1..Len(reg.config[realm]) |->
     Server(reg.config[realm][i].key, "udp", Nothing, reg.config[realm][i].value = "admin")]

Start ==
  /\ grain = "setup" /\ setting.asks /\ \A p \in Program : prog[p].at = "idle"
  /\ grain' = "use"
  /\ LET realm == S!file_find_realm("box", "dom")
     IN asking' = [Base EXCEPT !.registry = [r \in NetRealm |-> SetUpHosts(r)], !.fates = {"whole"},
                               !.realms = {IF realm = Nothing THEN "R" ELSE realm}]
  /\ UNCHANGED <<vars, nvars, svars, dns, orealm, hosts, at, req, dialog, link, wild, db, verdict, requests>>

-----------------------------------------------------------------------------

MCInit ==
  /\ Init /\ N!Init /\ S!Init /\ K!Init
  /\ \/ grain = "sockets" /\ session = Idle /\ setting = Used /\ asking = Base
     \/ grain = "sheet" /\ session # Idle /\ setting = Used /\ asking = Base
     \/ grain = "setup" /\ session = Idle /\ asking = Base
     \/ grain = "use" /\ session = Idle /\ setting = Used

MCNext ==
  \/ grain = "sockets" /\ Next /\ UNCHANGED <<grain, nvars, svars, kvars>>
  \/ grain = "sheet" /\ N!Next /\ UNCHANGED <<grain, vars, svars, kvars>>
  \/ grain = "setup" /\ S!Next /\ UNCHANGED <<grain, vars, nvars, kvars>>
  \/ Start
  \/ grain = "use" /\ K!Next /\ UNCHANGED <<grain, vars, nvars, svars>>

MCSpec == MCInit /\ [][MCNext]_<<grain, vars, nvars, svars, kvars>>

FairMCSpec ==
  /\ MCSpec
  /\ WF_vars(grain = "sockets" /\ Handler) /\ \A c \in Conn : WF_vars(grain = "sockets" /\ Reader(c))

-----------------------------------------------------------------------------
(* Properties of what is asked for, set up and requested, under their names *)

OpensAsAsked == N!OpensAsAsked
HostsAreWhole == S!HostsAreWhole
SavedIsMeant == S!SavedIsMeant
ChangeIsTold == K!ChangeIsTold

\* A request is given up only when all hosts have been asked as AskedEnough
\* says, and every host that was set up for its realm was among them; and what is
\* said of an answer is what it says.
HostsAreAsked ==
  /\ K!AskedEnough /\ K!VerdictIsRight
  /\ (grain = "use" /\ K!Ended("retry")) =>
       LET set == FlattenSeq([i \in 1..Len(asking.registry[req.realm]) |->
                                asking.net[asking.registry[req.realm][i].name]])
       IN \A x \in 1..Len(set) : \E y \in DOMAIN req.n : req.n[y].addr = set[x]
=============================================================================
