--------------------------- MODULE MCTerminalInput ---------------------------
(***************************************************************************)
(* A terminal window: how its input is read, what is answered to the       *)
(* telnet commands in it, or how it is printed.  Sessions of TerminalInput *)
(* have a handful of bytes: text before, between and after commands and    *)
(* escape sequences.  The servers of Negotiation ask for up to three       *)
(* changes: of echo, go ahead, terminal type, size and an option the       *)
(* program does not know, in any order, taken back while the answer is on  *)
(* its way; and of authentication with every way it can go, the encryption *)
(* behind it ended and started again, and any one reply, or several of one *)
(* answer, refused.                                                        *)
(***************************************************************************)
EXTENDS TerminalInput

CONSTANTS PrintSession, CharWidth, CharHeight, PageHeight, MaxSteps, None
CONSTANTS OptionSessions, MaxAsks, MaxResizes

VARIABLES grain, printing, pos, shown, enable, printer, capture, boxes, told, crashed, steps
VARIABLES negotiation, open, refused, eaten, in, out, will, doo, negotiated, enckey, authenticated, engine, encIV, decIV,
          encrypt, decrypt, us, him, server, asks, resizes

tvars == vars
pvars == <<printing, pos, shown, enable, printer, capture, boxes, told, crashed, steps>>

nvars == <<negotiation, open, refused, eaten, in, out, will, doo, negotiated, enckey, authenticated, engine, encIV, decIV,
           encrypt, decrypt, us, him, server, asks, resizes>>

P == INSTANCE Printing WITH session <- printing, Session <- PrintSession
N == INSTANCE Negotiation WITH session <- negotiation, Sessions <- OptionSessions

ASSUME P!PrintingAssumption
ASSUME OptionsAssumption == N!NegotiationAssumption

\* No server asks for encryption by itself: it comes to it behind the authentication.
ASSUME EncryptionBehind == \A s \in OptionSessions : \A ask \in s.asks : ask[2] # "ENCRYPT"

Cmd == <<"IAC", "NOP">>
Opt == <<"IAC", "DO", "opt">>
Esc == <<"ESC", "m">>
Txt == <<"x">>

OnTelnet(bytes) ==
  [input |-> bytes, telnet |-> TRUE, whole |-> TRUE, early |-> FALSE,
   failures |-> 0, aborts |-> 0]
OnSerial(bytes) == [OnTelnet(bytes) EXCEPT !.telnet = FALSE]
Interrupted(bytes) == [OnTelnet(bytes) EXCEPT !.early = TRUE, !.aborts = 2]
Troubled(bytes)    == [Interrupted(bytes) EXCEPT !.failures = 1]

\* Commands and sequences in turn; sequences on a serial line; a user who
\* interrupts, receive errors and a close that comes early.
AllSessions ==
  {OnTelnet(Txt \o Opt \o Esc \o Txt), OnTelnet(Esc \o Cmd \o Txt \o Esc),
   OnTelnet(Opt \o Esc \o Opt \o Txt),
   OnSerial(Txt \o Esc \o Txt \o Esc), OnSerial(Esc \o Esc \o Txt),
   Interrupted(Txt \o Opt \o Txt), Troubled(Cmd \o Txt \o Cmd)}

-----------------------------------------------------------------------------
(* Sessions of the printer: lines of two or three letters, pages of two lines *)

Unprinted == [input |-> Txt, kinds |-> <<None, None>>, show |-> TRUE, eject |-> FALSE, may |-> {}, fails |-> {},
          luck |-> 0, width |-> 6]

Fill == <<"x", "on", "x", "high", "lf", "x", "cr", "x", "tab", "x", "x", "ff", "x", "off", "x">>
Lines == <<"on", "x", "x", "x", "high", "x", "lf", "x", "off">>
Short == <<"x", "on", "x", "esc", "x", "off", "x">>
Twice == <<"on", "x", "on", "x", "off", "off", "x">>
PrinterKinds == {"windows", "file", "device"}

PrintSessions ==
  {Unprinted}
  \cup {[Unprinted EXCEPT !.input = i, !.kinds = <<k, k>>, !.width = w, !.eject = TRUE, !.may = {"capture"}] :
          i \in {Fill, Lines}, k \in {"windows"}, w \in {6, 7}}
  \cup {[Unprinted EXCEPT !.input = i, !.kinds = <<k, None>>, !.show = s, !.eject = e,
                     !.may = {"eject", "select", "reset", "setup"}] :
          i \in {Short, Twice}, k \in PrinterKinds, s \in BOOLEAN, e \in BOOLEAN}
  \cup {[Unprinted EXCEPT !.input = Short, !.kinds = <<k, "file">>, !.show = s, !.fails = {"open", "late", "write", "capture"},
                     !.luck = 2, !.may = m] :
          k \in PrinterKinds, s \in BOOLEAN, m \in {{"eject", "select", "reset"}, {"eject", "capture", "setup", "rash"}}}

-----------------------------------------------------------------------------
(* Sessions of the negotiation *)

Silent ==
  [asks |-> {}, crypt |-> TRUE, pairs |-> "mutual", ticket |-> "got", user |-> TRUE,
   accepts |-> TRUE, support |-> TRUE,
   jam |-> FALSE, stops |-> FALSE, memory |-> FALSE]

Asking(s) == [Silent EXCEPT !.asks = s]
Auth1   == {<<"DO", "AUTH">>}

NegotiationSessions ==
  {Silent, Asking({<<"WILL", "ECHO">>, <<"WONT", "ECHO">>, <<"DO", "TTYPE">>, <<"DO", "OTHER">>}),
   Asking({<<"DO", "NAWS">>, <<"DONT", "NAWS">>, <<"WILL", "SGA">>, <<"DO", "SGA">>}),
   [Asking({<<"WILL", "ECHO">>, <<"DO", "TTYPE">>, <<"DONT", "TTYPE">>})
      EXCEPT !.memory = TRUE],
   [Asking(Auth1 \cup {<<"WILL", "OTHER">>}) EXCEPT !.crypt = FALSE],
   [Asking(Auth1 \cup {<<"WILL", "AUTH">>, <<"WILL", "ECHO">>, <<"DO", "TTYPE">>}) EXCEPT !.pairs = "oneway"],
   [Asking(Auth1 \cup {<<"WILL", "SGA">>, <<"DO", "NAWS">>}) EXCEPT !.pairs = "none", !.jam = TRUE],
   [Asking(Auth1) EXCEPT !.pairs = "mixed"],
   [Asking(Auth1) EXCEPT !.ticket = "cancelled"],
   [Asking(Auth1) EXCEPT !.ticket = "failed"],
   [Asking(Auth1) EXCEPT !.user = FALSE],
   [Asking(Auth1) EXCEPT !.accepts = FALSE],
   [Asking(Auth1) EXCEPT !.support = FALSE],
   Asking(Auth1 \cup {<<"WILL", "ECHO">>}),
   [Asking(Auth1 \cup {<<"WILL", "SGA">>}) EXCEPT !.jam = TRUE],
   [Asking(Auth1 \cup {<<"DO", "NAWS">>}) EXCEPT !.stops = TRUE]}
-----------------------------------------------------------------------------

MCInit ==
  /\ Init /\ P!Init /\ N!Init
  /\ grain \in {"input", "printing", "options"}
  /\ grain # "input" => session = OnTelnet(Txt \o Opt \o Esc \o Txt)
  /\ grain = "printing" <=> printing # Unprinted
  /\ grain # "options" => negotiation = Silent

MCNext ==
  \/ grain = "input" /\ Next /\ UNCHANGED <<grain, pvars, nvars>>
  \/ grain = "printing" /\ P!Next /\ UNCHANGED <<grain, tvars, nvars>>
  \/ grain = "options" /\ N!Next /\ UNCHANGED <<grain, tvars, pvars>>

MCSpec ==
  /\ MCInit /\ [][MCNext]_<<grain, tvars, pvars, nvars>>
  /\ WF_tvars(grain = "input" /\ Window) /\ WF_tvars(grain = "input" /\ Dismiss)
  /\ WF_tvars(grain = "input" /\ Receive) /\ WF_tvars(grain = "input" /\ Post)
  /\ WF_nvars(grain = "options" /\ N!Program) /\ WF_nvars(grain = "options" /\ N!Server)

-----------------------------------------------------------------------------
(* The properties of the printer and of the options, under their names *)

PrintingIsTrue == P!PrintingIsTrue
EndsAgree == N!EndsAgree
Settles == N!Settles
=============================================================================
