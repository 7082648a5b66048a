--------------------------- MODULE MCNewConnection ---------------------------
(***************************************************************************)
(* Command lines that bring up the sheet, with a user or a profile.        *)
(***************************************************************************)
EXTENDS NewConnection, TLC

Option(o, v) == [opt |-> o, value |-> v, bare |-> FALSE, spec |-> ""]

Form == [NoData EXCEPT !.host = "a", !.profile = "Default"]

Given(as) ==
  [program |-> "ktelnet", args |-> as,
   forms |-> [telnet |-> {[Form EXCEPT !.port = "telnet"]}, serial |-> {},
              ftp |-> {[Form EXCEPT !.profile = "", !.user = u] : u \in {"", "v"}}],
   knows |-> "a" :> "a.dom", ports |-> "COM1" :> [rate |-> 1, flow |-> 0],
   fails |-> {}, refuses |-> {}]

GivenSessions ==
  { Given(<<Option("f", ""), Option("l", "u")>>),
    Given(<<Option("o", ""), Option("i", "P")>>),
    Given(<<Option("s", ""), Option("i", "P")>>) }
=============================================================================
