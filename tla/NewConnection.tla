----------------------------- MODULE NewConnection -----------------------------
(***************************************************************************)
(* How a connection is asked for: the sheet with a page for telnet, serial   *)
(* lines and FTP (FTP only in Kftp), the command line, the lists of hosts    *)
(* used before, the profile that comes with it, and the settings of a       *)
(* serial line, kept in the registry and changed from the sheet or while    *)
(* the line is open.  A dialog is one step each time the user leaves it.    *)
(***************************************************************************)
EXTENDS Integers, Sequences, SequencesExt, FiniteSets

CONSTANTS
  Session,
  HistorySize, \* InputHistory keeps ten
  MaxSteps,    \* bound: what the user does
  None

\* args: the command line; forms: what may be typed into each page; knows: the
\* names that can be resolved, with the host's own; ports: the serial lines and
\* how they are set; fails: types of connections that cannot be opened; refuses:
\* speeds that the lines cannot do; profiles: whether there are several.
ConnectionAssumption ==
  /\ HistorySize \in Nat \ {0}
  /\ \A s \in Session : /\ s.program \in {"ktelnet", "kftp"}
                        /\ DOMAIN s.forms \subseteq {"telnet", "serial", "ftp"}

VARIABLES
  session,
  args,     \* what is left of the command line; None once it was read
  sheet,    \* PrpGetHostDialog
  history,  \* InputHistory of the two pages
  lastUsed, \* LastUsed
  stored,   \* SerialConnection\<port> in the registry
  line,     \* how the lines are set
  profile,  \* the profile of the window
  conn,     \* the window's connection
  asked,    \* what it was opened for: the page, and what only the command line said
  used,     \* the names that were put into history, and whether a page took them
  steps

vars == <<session, args, sheet, history, lastUsed, stored, line, profile, conn, asked, used, steps>>

\* bare: the name was given with a backslash; spec: settings given with a port.
NoData == [type |-> "none", host |-> "", bare |-> FALSE, spec |-> "", port |-> "", user |-> "", ticket |-> "",
           proxy |-> FALSE, profile |-> "", princ |-> ""]

Pages == IF session.program = "kftp" THEN <<"ftp">> ELSE <<"telnet", "serial", "ftp">>

NoConnection == [data |-> NoData, pars |-> None, shown |-> None]
Open == conn.data.type # "none"

-----------------------------------------------------------------------------
(* InputHistory *)

\* A slip: the name that was chosen is not taken out of the rest.
RememberedTwice(h, host) == SelectSeq(<<host>> \o SubSeq(h, 1, IF Len(h) < HistorySize THEN Len(h) ELSE HistorySize - 1), LAMBDA x : x # "")

Remembered(h, host) ==
  LET rest == SelectSeq(h, LAMBDA x : x # host)
  IN SelectSeq(<<host>> \o SubSeq(rest, 1, IF Len(rest) < HistorySize THEN Len(rest) ELSE HistorySize - 1), LAMBDA x : x # "")

Newest(h) == IF h = <<>> THEN "" ELSE h[1]

-----------------------------------------------------------------------------
(* Serial lines.  A speed of zero keeps the line's, -1 is none of the list. *)

GetSerialPars(port) == IF stored[port] = None THEN [rate |-> 0, flow |-> 0] ELSE stored[port]

\* The dialog: a list in which nothing is selected gives -1.
Rates == {1, 2}
Selectable(rate) == Rates \cup {IF rate \in Rates THEN rate ELSE -1}
SerialSetup(pars) == [rate : Selectable(pars.rate), flow : {0, 1}]

\* The settings that are asked of the line.  Those of the command line come
\* without flow control.
Dcb(spec, pars, port) ==
  IF spec # "" THEN [rate |-> IF spec = "fast" THEN 2 ELSE 1, flow |-> 0]
  ELSE IF pars # None THEN [rate |-> IF pars.rate = 0 THEN line[port].rate ELSE pars.rate, flow |-> pars.flow]
  ELSE line[port]

\* SetCommState: what it returns is taken for success.
SetCommState(dcb, port) == IF dcb.rate \in Rates \ session.refuses THEN [line EXCEPT ![port] = dcb] ELSE line

\* A slip: the settings are read back from the line first.
SetupStored(data, pars) ==
  LET dcb == Dcb(data.spec, pars, data.host)
  IN [ok |-> data.spec # "junk", pars |-> dcb, line |-> SetCommState(line[data.host], data.host)]

SetupParameters(data, pars) ==
  LET dcb == Dcb(data.spec, pars, data.host)
  IN [ok |-> data.spec # "junk", pars |-> dcb, line |-> SetCommState(dcb, data.host)]

-----------------------------------------------------------------------------
(* OpenConnection::Execute *)

Named(data) ==
  IF data.bare \/ data.proxy \/ data.type = "serial" THEN data ELSE [data EXCEPT !.host = session.knows[@]]

Resolves(data) == data.bare \/ data.proxy \/ data.type = "serial" \/ data.host \in DOMAIN session.knows

\* The profile is loaded before it is known whether the connection can be opened.
Connect(data, wish) ==
  /\ profile' = IF data.profile # "" THEN data.profile ELSE profile
  /\ IF data.type = "serial"
       THEN LET to == [data EXCEPT !.port = ""]
                up == SetupParameters(to, stored[data.host])
            IN IF data.host \in DOMAIN line /\ "serial" \notin session.fails /\ up.ok
                 THEN /\ line' = up.line
                      /\ conn' = [data |-> to, pars |-> up.pars, shown |-> up.pars]
                      /\ asked' = wish
                 ELSE UNCHANGED <<line, conn, asked>>
       ELSE /\ IF data.type \notin session.fails
                 THEN conn' = [NoConnection EXCEPT !.data = data] /\ asked' = wish
                 ELSE UNCHANGED <<conn, asked>>
            /\ UNCHANGED line

-----------------------------------------------------------------------------
(* The command line *)

Failed == [NoData EXCEPT !.type = "failed"]

\* One argument, or an option and what follows it.
Argument(data, a) ==
  IF data = Failed THEN Failed ELSE
  CASE a.opt = "i" -> [data EXCEPT !.profile = a.value]
    [] a.opt = "h" -> [data EXCEPT !.proxy = TRUE]
    [] a.opt = "l" -> IF data.user # "" THEN Failed ELSE [data EXCEPT !.user = a.value]
    [] a.opt = "p" -> IF data.princ # "" THEN Failed ELSE [data EXCEPT !.princ = a.value]
    [] a.opt \in {"f", "s"} -> IF data.type # "none" THEN Failed ELSE [data EXCEPT !.type = IF a.opt = "f" THEN "ftp" ELSE "serial"]
    [] a.opt = "o" -> data
    [] a.opt = "" /\ data.host = "" -> [data EXCEPT !.host = a.value, !.bare = a.bare, !.spec = a.spec,
                                                    !.type = IF @ = "none" THEN "telnet" ELSE @]
    [] a.opt = "" /\ data.host # "" -> IF data.port = "" THEN [data EXCEPT !.port = a.value] ELSE Failed

Arguments(as) == FoldLeft(Argument, NoData, as)
BringUpOpenDialog(as) == \E i \in 1..Len(as) : as[i].opt \in {"o", "f", "s"}

NoSheet == [data |-> NoData, page |-> "", seen |-> {}, fields |-> <<>>, lists |-> <<>>, given |-> NoData]

\* What a page asks for.  given: what a sheet that the command line brought up was
\* given; a user it names is for FTP, and a profile for any page.
Wish(page, given) ==
  [page |-> page,
   given |-> [user    |-> IF page.type = "ftp" /\ page.user = "" THEN given.user ELSE "",
              profile |-> IF page.profile \in {"", profile} THEN given.profile ELSE ""]]

\* A page when it is made: nothing of what the sheet was given is put into it.
TelnetPage == [NoData EXCEPT !.host = Newest(history.telnet), !.port = "telnet", !.profile = profile]
SerialPage == [NoData EXCEPT !.host = IF lastUsed \in DOMAIN line THEN lastUsed ELSE CHOOSE x \in DOMAIN line : TRUE,
                             !.profile = profile]
FtpPage    == [NoData EXCEPT !.host = Newest(history.ftp)]

Shows(data, p, fields) == [data |-> [data EXCEPT !.type = p], page |-> p, seen |-> {p}, fields |-> fields, lists |-> history, given |-> data]

Sheet(data) ==
  Shows(data, IF data.type = "none" THEN "telnet" ELSE data.type,
        [p \in ToSet(Pages) |-> CASE p = "telnet" -> TelnetPage [] p = "serial" -> SerialPage [] p = "ftp" -> FtpPage])

KftpSheet == Shows(NoData, "ftp", [p \in {"ftp"} |-> FtpPage])

Act == steps < MaxSteps /\ steps' = steps + 1

CommandLine ==
  /\ args # None /\ args' = None
  /\ LET data == Arguments(args) IN
     IF data = Failed THEN UNCHANGED <<sheet, profile, conn, asked, line>>
     ELSE IF data.host = "" /\ ~BringUpOpenDialog(args)
       THEN /\ profile' = IF data.profile # "" THEN data.profile ELSE profile
            /\ UNCHANGED <<sheet, conn, asked, line>>
     ELSE IF data.host = "" THEN sheet' = Sheet(data) /\ UNCHANGED <<profile, conn, asked, line>>
     ELSE /\ UNCHANGED sheet
          /\ IF Resolves(data) THEN Connect(Named(data), Wish(data, NoData))
             ELSE UNCHANGED <<profile, conn, asked, line>>
  /\ UNCHANGED <<session, history, lastUsed, stored, used, steps>>

-----------------------------------------------------------------------------
(* The sheet *)

Asks(with) ==
  /\ Act /\ args = None /\ sheet.page = ""
  /\ sheet' = with /\ conn' = NoConnection
  /\ UNCHANGED <<session, args, history, lastUsed, stored, line, profile, asked, used>>

\* A connection that is there is closed first.
CmOpenConnection == session.program = "ktelnet" /\ Asks(Sheet(NoData))

\* In Kftp it must be closed.
CmOpenFtp == session.program = "kftp" /\ ~Open /\ Asks(KftpSheet)

CmCloseConnection ==
  /\ Act /\ sheet.page = "" /\ Open
  /\ conn' = NoConnection
  /\ UNCHANGED <<session, args, sheet, history, lastUsed, stored, line, profile, asked, used>>

SetActive ==
  /\ Act /\ sheet.page # ""
  /\ \E p \in ToSet(Pages) \ {sheet.page} :
       sheet' = [sheet EXCEPT !.page = p, !.data.type = p, !.seen = @ \cup {p}]
  /\ UNCHANGED <<session, args, history, lastUsed, stored, line, profile, conn, asked, used>>

Type ==
  /\ Act /\ sheet.page # ""
  /\ \E f \in session.forms[sheet.page] : sheet.fields[sheet.page] # f /\ sheet' = [sheet EXCEPT !.fields[sheet.page] = f]
  /\ UNCHANGED <<session, args, history, lastUsed, stored, line, profile, conn, asked, used>>

\* The settings of the port that is chosen.
CmSerialSetup ==
  /\ Act /\ sheet.page # "" /\ sheet.page = "serial"
  /\ LET port == sheet.fields["serial"].host
     IN \E p \in SerialSetup(GetSerialPars(port)) : stored' = [stored EXCEPT ![port] = p]
  /\ UNCHANGED <<session, args, sheet, history, lastUsed, line, profile, conn, asked, used>>

Cancel ==
  /\ Act /\ sheet.page # "" /\ sheet' = NoSheet
  /\ UNCHANGED <<session, args, history, lastUsed, stored, line, profile, conn, asked, used>>

\* Apply of a page of the type that is asked for: its profile is taken before
\* the name is looked up, the rest behind it.
TelnetApply(data, field) ==
  LET d == [data EXCEPT !.profile = IF field.profile # "" THEN field.profile ELSE @]
      f == [field EXCEPT !.type = "telnet"]
  IN IF ~Resolves(f) THEN d
     ELSE [d EXCEPT !.host = Named(f).host, !.bare = f.bare, !.port = f.port, !.user = f.user, !.ticket = f.ticket, !.proxy = f.proxy]

SerialApply(data, field) ==
  [data EXCEPT !.profile = IF field.profile # "" THEN field.profile ELSE @, !.host = field.host, !.user = "", !.port = "",
               !.ticket = "", !.proxy = FALSE]

FtpApply(data, field) ==
  LET f == [field EXCEPT !.type = "ftp", !.proxy = FALSE]
  IN IF ~Resolves(f) THEN data
     ELSE [data EXCEPT !.host = Named(f).host, !.bare = f.bare, !.port = "", !.user = f.user, !.ticket = "", !.proxy = FALSE]

\* A slip: a page that is not in front is applied, too.
FilledAlways(data, p, field) ==
  CASE p = "telnet" -> TelnetApply(data, field) [] p = "serial" -> SerialApply(data, field) [] p = "ftp" -> FtpApply(data, field)

Filled(data, p, field) ==
  CASE data.type # p -> data
    [] data.type = p /\ p = "telnet" -> TelnetApply(data, field)
    [] data.type = p /\ p = "serial" -> SerialApply(data, field)
    [] data.type = p /\ p = "ftp" -> FtpApply(data, field)

\* Apply of each page that was shown, up to one that refuses.
Ok ==
  /\ Act /\ sheet.page # ""
  /\ LET form == sheet.fields[sheet.page]
         good == Resolves([form EXCEPT !.type = sheet.page])
         at   == CHOOSE i \in 1..Len(Pages) : Pages[i] = sheet.page
         done == {Pages[i] : i \in 1..(IF good THEN Len(Pages) ELSE at)} \cap sheet.seen
         data == FoldLeft(LAMBDA d, p : IF p \in done THEN Filled(d, p, sheet.fields[p]) ELSE d, sheet.data, Pages)
     IN /\ history' = [p \in DOMAIN history |-> IF p \in done THEN Remembered(sheet.lists[p], sheet.fields[p].host) ELSE history[p]]
        /\ used' = [p \in DOMAIN used |-> IF p \in done THEN used[p] \cup {<<sheet.fields[p].host, good /\ p = sheet.page>>} ELSE used[p]]
        /\ lastUsed' = IF sheet.page = "serial" THEN form.host ELSE lastUsed
        /\ IF good THEN sheet' = NoSheet /\ Connect(data, Wish([form EXCEPT !.type = sheet.page], sheet.given))
           ELSE sheet' = [sheet EXCEPT !.data = data] /\ UNCHANGED <<profile, conn, asked, line>>
  /\ UNCHANGED <<session, args, stored>>

-----------------------------------------------------------------------------

\* CM_SERIALSETUP: the settings of a line that is open.
InvokeCommand ==
  /\ Act /\ sheet.page = "" /\ conn.data.type = "serial"
  /\ \E p \in SerialSetup(conn.pars) :
       LET up == SetupParameters(conn.data, p)
       IN /\ stored' = [stored EXCEPT ![conn.data.host] = p]
          /\ conn' = [conn EXCEPT !.pars = up.pars, !.shown = p]
          /\ line' = up.line
  /\ UNCHANGED <<session, args, sheet, history, lastUsed, profile, asked, used>>

Init ==
  /\ session \in Session
  /\ args = session.args /\ sheet = NoSheet /\ history = [telnet |-> <<>>, ftp |-> <<>>] /\ lastUsed = ""
  /\ stored = [p \in DOMAIN session.ports |-> None] /\ line = session.ports
  /\ profile = "Default" /\ conn = NoConnection /\ asked = Wish(NoData, NoData)
  /\ used = [telnet |-> {}, ftp |-> {}] /\ steps = 0

Next ==
  \/ CommandLine \/ CmOpenConnection \/ CmOpenFtp \/ CmCloseConnection \/ SetActive \/ Type \/ CmSerialSetup \/ Cancel \/ Ok
  \/ InvokeCommand

Spec == Init /\ [][Next]_vars

-----------------------------------------------------------------------------
(* Properties *)

\* A connection is what the page in front asked for, or the command line,
\* whatever was typed into the other pages, refused before, or cancelled.  An
\* FTP page has no profile: it comes with that of the window, of the command
\* line or of a telnet page whose host was refused.  The exception: a user or a
\* profile that the command line gave to a sheet, where the page says nothing
\* else, may be lost (GivenIsTaken).
ConnectsAsAsked ==
  LET page == asked.page IN
  Open =>
    /\ conn.data.type = page.type /\ conn.data.bare = page.bare
    /\ conn.data.ticket = page.ticket /\ conn.data.proxy = page.proxy
    /\ conn.data.type # "serial" => conn.data.port = page.port
    /\ conn.data.host = IF page.host \in DOMAIN session.knows /\ ~page.bare /\ ~page.proxy THEN session.knows[page.host] ELSE page.host
    /\ asked.given.user = "" => conn.data.user = page.user
    /\ asked.given.profile = "" /\ page.profile # "" => profile = page.profile

\* KTELNET -f [-l user] opens an FTP connection as that user, and -i names the
\* profile of all variants (the comment at TERMEMUL.CPP:508): where the sheet
\* that these bring up says nothing else, the connection has them.
GivenIsTaken ==
  Open => /\ asked.given.user # "" => conn.data.user = asked.given.user
          /\ asked.given.profile # "" => profile = asked.given.profile

\* A serial line is set as the window shows it, and so that the next connection
\* finds it so, unless the line cannot do it, a list was left with nothing
\* selected, or the settings came with the command line: no one is told then.
LineIsAsShown ==
  (conn.data.type = "serial" /\ conn.data.spec = "" /\ conn.shown.rate \in Rates \ session.refuses) =>
    /\ line[conn.data.host] = conn.shown
    /\ stored[conn.data.host] # None => Dcb("", stored[conn.data.host], conn.data.host) = conn.shown

\* The lists hold every host once, and those a connection was asked for while
\* there is room.  A name that was refused is lost when the next is taken.
HistoryIsKept ==
  \A p \in DOMAIN history :
    LET names == {u[1] : u \in used[p]} \ {""} IN
    /\ IsInjective(history[p]) /\ Len(history[p]) <= HistorySize /\ ToSet(history[p]) \subseteq names
    /\ Cardinality(names \cup {""}) <= HistorySize => \A u \in used[p] : u[2] /\ u[1] # "" => u[1] \in ToSet(history[p])

\* What is asked for is what is opened, and it can be asked for again.
OpensAsAsked == ConnectsAsAsked /\ LineIsAsShown /\ HistoryIsKept
=============================================================================
