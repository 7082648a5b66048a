------------------------------- MODULE Programs -------------------------------
(***************************************************************************)
(* The programs as the desktop sees them: how ktelnet, Kftp and the POP      *)
(* proxy start, which windows they have, and how one program gets the        *)
(* window of the ticket manager (ktelnet -m) in front, starting it if        *)
(* need be.  There is one ticket manager and one proxy: a second one finds   *)
(* the window of the first, posts a command to it and ends.  Both may be     *)
(* icons in the system tray.  And the log that Kftp and the proxy show.      *)
(*                                                                         *)
(* The programs share nothing but the windows: FindWindow gives the one in   *)
(* front of those of a class, CreateProcess comes back long before the new   *)
(* window is there, and what is posted to a window goes with it.             *)
(***************************************************************************)
EXTENDS Integers, Sequences, SequencesExt, FiniteSets

CONSTANTS
  Proc,      \* slots for processes
  Session,
  Tries,     \* CmShowTickets looks thirty times for the new window
  LogSize,   \* MaxSize of the log
  None

\* starts: what users start, with the command line; manager: what SetupMgr says
\* of the program to start; normal, tray: the two marks of setup for windows;
\* shell: whether the system takes an icon; winsock: whether there is one; talks: lengths of the lines logged; steps:
\* bound, what users do.
ProgramsAssumption ==
  /\ Tries \in Nat /\ LogSize \in Nat /\ None \notin Proc
  /\ \A s \in Session : /\ s.manager \in {"own", "ktelnet", "broken"}
                        /\ s.shell \subseteq BOOLEAN /\ s.winsock \subseteq BOOLEAN /\ s.talks \in Seq(1..LogSize - 1)

VARIABLES
  session,
  proc,     \* the processes
  order,    \* those that have a window, the one in front first
  kept,     \* WindowSize in the registry: how the window of a class was last seen
  waiting,  \* those who asked for the manager's window and do not have it yet
  steps

vars == <<session, proc, order, kept, waiting, steps>>

Class == {"tickets", "proxy", "ftp", "terminal"}

\* all and marked are there for the properties: all that was logged since the
\* log was cleared, and what the user marked.
Started == <<0, 0>>
NewLog == [text |-> Started, all |-> Started, from |-> 2, to |-> 2, marked |-> <<>>, said |-> 0]

NewProc(exe, args) ==
  [exe |-> exe, args |-> args, at |-> "loading", class |-> None, shown |-> "hidden", icon |-> FALSE,
   posted |-> <<>>, found |-> None, who |-> None, tries |-> 0, log |-> NewLog]
NoProc == [NewProc(None, <<>>) EXCEPT !.at = "free"]

Init ==
  /\ session \in Session
  /\ proc = [p \in Proc |-> NoProc] /\ order = <<>> /\ waiting = {} /\ steps = 0
  /\ kept = [c \in Class |-> "restored"]

FindWindow(class) ==
  LET windows == SelectSeq(order, LAMBDA p : proc[p].class = class)
  IN IF windows = <<>> THEN None ELSE Head(windows)

InFront(p) == <<p>> \o SelectSeq(order, LAMBDA q : q # p)

Post(p, cmd, who, text) ==
  [proc EXCEPT ![p].posted = Append(@, [cmd |-> cmd, who |-> who, text |-> text])]

\* The slots are alike: a new process takes any.
Free == {p \in Proc : proc[p].at = "free"}
Slot == CHOOSE p \in Free : TRUE

-----------------------------------------------------------------------------
(* How a program starts *)

\* The constructors take -d, which shows the page for debugging, from the end.
Arguments(args) == IF args # <<>> /\ Last(args) = "-d" THEN Front(args) ELSE args

\* Setup is loaded; without Winsock there is a box, and that is all.
Construct(p) ==
  /\ proc[p].at = "loading"
  /\ \E winsock \in session.winsock :
       proc' = [proc EXCEPT ![p].args = Arguments(@), ![p].at = IF winsock THEN "starting" ELSE "useless"]
  /\ UNCHANGED <<session, order, kept, waiting, steps>>

IsManager(p) == proc[p].exe = "ktelnet" /\ proc[p].args = <<"-m">>

WindowClass(p) ==
  CASE IsManager(p) -> "tickets"
    [] proc[p].exe = "ktelnet" /\ ~IsManager(p) -> "terminal"
    [] proc[p].exe = "kftp" -> "ftp"
    [] proc[p].exe = "proxy" -> "proxy"

Single == {"tickets", "proxy"}
Command(class) == IF class = "tickets" THEN "CM_SHOWTICKETS" ELSE "CM_SHOWLOG"

InitMainWindow(p) ==
  LET class == WindowClass(p)
      other == IF class \in Single THEN FindWindow(class) ELSE None
  IN /\ proc[p].at = "starting"
     /\ proc' = IF other # None
                  THEN [Post(other, Command(class), None, <<>>) EXCEPT ![p] = NoProc]
                  ELSE [proc EXCEPT ![p].at = "creating"]
     /\ UNCHANGED <<session, order, kept, waiting, steps>>

Visible(class) == class \in Single => session.normal \/ ~session.tray

\* The window is there for others, its icon is not.
Create(p) ==
  LET class == WindowClass(p)
  IN /\ proc[p].at = "creating"
     /\ proc' = [proc EXCEPT ![p].at = "setup", ![p].class = class,
                             ![p].shown = IF Visible(class) THEN kept[class] ELSE "hidden"]
     /\ order' = InFront(p)
     /\ UNCHANGED <<session, kept, waiting, steps>>

\* A slip: the window stays as it was asked for when there is no icon.
SetupWindowAsAsked(p) ==
  LET tray == proc[p].class \in Single /\ session.tray
  IN /\ proc[p].at = "setup"
     /\ \E added \in IF tray THEN session.shell ELSE {FALSE} :
          proc' = [proc EXCEPT ![p].at = "running", ![p].icon = added]
     /\ UNCHANGED <<session, order, kept, waiting, steps>>

SetupWindow(p) ==
  LET class == proc[p].class
      tray == class \in Single /\ session.tray
  IN /\ proc[p].at = "setup"
     /\ \E added \in IF tray THEN session.shell ELSE {FALSE} :
          /\ proc' = [proc EXCEPT ![p].at = "running", ![p].icon = added,
                                  ![p].shown = IF tray /\ ~added THEN "restored" ELSE @]
          /\ kept' = IF tray /\ ~added THEN [kept EXCEPT ![class] = "restored"] ELSE kept
     /\ UNCHANGED <<session, order, waiting, steps>>

-----------------------------------------------------------------------------
(* The window of the ticket manager *)

\* The process that is to make the window, or a box.
Launch(p) ==
  IF session.manager = "broken" \/ Free = {}
    THEN proc' = [proc EXCEPT ![p].at = "told"] /\ UNCHANGED waiting
    ELSE /\ LET exe == IF session.manager = "own" THEN proc[p].exe ELSE session.manager
            IN proc' = [proc EXCEPT ![Slot] = NewProc(exe, <<"-m">>), ![p].at = "polling", ![p].who = p, ![p].tries = 0]
         /\ waiting' = waiting \cup {p}

\* who: the process whose user asked; None stands for the icon in the tray.
Found(p, who, window, procs) ==
  [procs EXCEPT ![p].at = "found", ![p].who = who, ![p].found = window]

CmShowTickets(p) ==
  LET window == FindWindow("tickets")
  IN /\ proc[p].at = "running" /\ proc[p].shown # "hidden"
     /\ steps < session.steps /\ steps' = steps + 1
     /\ IF window # None
          THEN proc' = Found(p, p, window, proc) /\ waiting' = waiting \cup {p}
          ELSE Launch(p)
     /\ UNCHANGED <<session, order, kept>>

\* Another terminal, which brings up the sheet for a connection.
CmNewConnection(p) ==
  /\ proc[p].at = "running" /\ proc[p].exe = "ktelnet" /\ proc[p].shown # "hidden"
  /\ steps < session.steps /\ steps' = steps + 1
  /\ proc' = IF Free = {} THEN [proc EXCEPT ![p].at = "told"] ELSE [proc EXCEPT ![Slot] = NewProc("ktelnet", <<"-o">>)]
  /\ UNCHANGED <<session, order, kept, waiting>>

\* A slip: it is not counted how often it was looked.
LookForEver(p) ==
  LET window == FindWindow("tickets")
  IN /\ proc[p].at = "polling" /\ window # None
     /\ proc' = Found(p, p, window, proc) /\ UNCHANGED waiting
     /\ UNCHANGED <<session, order, kept, steps>>

Look(p) ==
  LET window == FindWindow("tickets")
  IN /\ proc[p].at = "polling"
     /\ IF window # None THEN proc' = Found(p, p, window, proc) /\ UNCHANGED waiting
        ELSE IF proc[p].tries < Tries
          THEN proc' = [proc EXCEPT ![p].tries = @ + 1] /\ UNCHANGED waiting
          ELSE proc' = [proc EXCEPT ![p].at = "told"] /\ waiting' = waiting \ {p}
     /\ UNCHANGED <<session, order, kept, steps>>

Dismiss(p) ==
  /\ \/ proc[p].at = "told" /\ proc' = [proc EXCEPT ![p].at = "running"]
     \/ proc[p].at = "useless" /\ proc' = [proc EXCEPT ![p] = NoProc]
  /\ UNCHANGED <<session, order, kept, waiting, steps>>

\* ShowWindow(SW_RESTORE) if it is not to be seen, SetForegroundWindow.
Restore(p, procs) ==
  /\ proc' = [procs EXCEPT ![p].shown = "restored"]
  /\ order' = InFront(p)
  /\ kept' = [kept EXCEPT ![proc[p].class] = "restored"]

\* A slip: the command is posted also when the window is the program's own.
ReachByPost(p) ==
  LET window == proc[p].found
      there == window \in ToSet(order) /\ proc[window].class = "tickets"
      posted == IF there THEN Post(window, "CM_SHOWTICKETS", proc[p].who, <<>>) ELSE proc
  IN /\ proc[p].at = "found"
     /\ proc' = [posted EXCEPT ![p].at = "running", ![p].found = None, ![p].who = None]
     /\ waiting' = IF there THEN waiting ELSE waiting \ {proc[p].who}
     /\ UNCHANGED <<session, order, kept, steps>>

\* The window that was found may be gone.
Reach(p) ==
  LET window == proc[p].found
      there == window \in ToSet(order) /\ proc[window].class = "tickets"
      posted == IF there /\ window # p THEN Post(window, "CM_SHOWTICKETS", proc[p].who, <<>>) ELSE proc
      back == [posted EXCEPT ![p].at = "running", ![p].found = None, ![p].who = None]
  IN /\ proc[p].at = "found"
     /\ IF window = p THEN Restore(p, back) ELSE proc' = back /\ UNCHANGED <<order, kept>>
     /\ waiting' = IF there /\ window # p THEN waiting ELSE waiting \ {proc[p].who}
     /\ UNCHANGED <<session, steps>>

-----------------------------------------------------------------------------
(* What is posted to a window *)

Boundary(text, i) == i = Len(text) \/ text[i] # text[i + 1]

\* The start of the line after the one that position pos is in.
NextLine(text, pos) == CHOOSE i \in pos + 1..Len(text) : Boundary(text, i) /\ \A j \in pos + 1..i - 1 : ~Boundary(text, j)

Back(pos, cut) == IF pos < cut THEN 0 ELSE pos - cut

\* A slip: what is marked is not moved with the text that goes.
NewMessageUnmoved(log, line) ==
  LET size == Len(log.text)
      last == log.from = log.to /\ log.to = size
      cut == IF size + Len(line) < LogSize THEN 0
             ELSE NextLine(log.text, IF LogSize \div 4 > Len(line) THEN LogSize \div 4 ELSE Len(line))
      text == SubSeq(log.text, cut + 1, size) \o line
      end == last \/ cut = size
  IN [log EXCEPT !.text = text, !.all = @ \o line,
                 !.from = IF end THEN Len(text) ELSE @, !.to = IF end THEN Len(text) ELSE @]

\* A full log loses a quarter, in whole lines.  The marked text stays marked, and
\* the caret at the end stays there.
NewMessage(log, line) ==
  LET size == Len(log.text)
      last == log.from = log.to /\ log.to = size
      cut == IF size + Len(line) < LogSize THEN 0
             ELSE NextLine(log.text, IF LogSize \div 4 > Len(line) THEN LogSize \div 4 ELSE Len(line))
      text == SubSeq(log.text, cut + 1, size) \o line
      end == last \/ cut = size
  IN [log EXCEPT !.text = text, !.all = @ \o line,
                 !.from = IF end THEN Len(text) ELSE Back(@, cut),
                 !.to = IF end THEN Len(text) ELSE Back(@, cut)]

\* The program's loop takes the next message: also while a box is up.  A manager
\* finds a window, its own at least.  The proxy's CmShowLog is one step.
Handle(p) ==
  LET msg == Head(proc[p].posted)
      taken == [proc EXCEPT ![p].posted = Tail(@)]
      log == FindWindow("proxy")
  IN /\ proc[p].at \in {"running", "told"} /\ proc[p].posted # <<>>
     /\ \/ /\ msg.cmd = "CM_SHOWTICKETS"
           /\ proc' = Found(p, msg.who, FindWindow("tickets"), taken)
           /\ UNCHANGED <<order, kept>>
        \/ /\ msg.cmd = "CM_SHOWLOG"
           /\ IF log = p THEN Restore(p, taken)
              ELSE /\ proc' = [taken EXCEPT ![log].posted = Append(@, msg)]
                   /\ UNCHANGED <<order, kept>>
        \/ /\ msg.cmd = "text"
           /\ proc' = [taken EXCEPT ![p].log = NewMessage(@, msg.text)]
           /\ UNCHANGED <<order, kept>>
     /\ UNCHANGED <<session, waiting, steps>>

\* A thread of Kftp or of the proxy has something to say.
LogText(p) ==
  LET n == proc[p].log.said + 1
  IN /\ proc[p].class \in {"ftp", "proxy"} /\ proc[p].at # "setup" /\ n <= Len(session.talks)
     /\ proc' = [Post(p, "text", None, [i \in 1..session.talks[n] |-> n]) EXCEPT ![p].log.said = n]
     /\ UNCHANGED <<session, order, kept, waiting, steps>>

-----------------------------------------------------------------------------
(* What the user does *)

UserStep(p) == proc[p].at = "running" /\ steps < session.steps /\ steps' = steps + 1

StartProgram(p) ==
  /\ Free # {} /\ p = Slot /\ steps < session.steps /\ steps' = steps + 1
  /\ \E s \in session.starts : proc' = [proc EXCEPT ![p] = NewProc(s.exe, s.args)]
  /\ UNCHANGED <<session, order, kept, waiting>>

\* What was posted to the window goes with it.
Exit(p) ==
  /\ proc' = [proc EXCEPT ![p] = NoProc]
  /\ order' = SelectSeq(order, LAMBDA q : q # p)
  /\ waiting' = waiting \ ({p} \cup {m.who : m \in ToSet(proc[p].posted)})
  /\ UNCHANGED kept

\* A slip: the window hides whether there is an icon or not.
EvCloseHides(p) ==
  /\ UserStep(p) /\ proc[p].shown # "hidden"
  /\ IF proc[p].class \in Single
       THEN proc' = [proc EXCEPT ![p].shown = "hidden"] /\ UNCHANGED <<order, kept, waiting>>
       ELSE Exit(p)
  /\ UNCHANGED session

EvClose(p) ==
  /\ UserStep(p) /\ proc[p].shown # "hidden"
  /\ IF proc[p].icon
       THEN proc' = [proc EXCEPT ![p].shown = "hidden"] /\ UNCHANGED <<order, kept, waiting>>
       ELSE Exit(p)
  /\ UNCHANGED session

CmExit(p) == UserStep(p) /\ (proc[p].icon \/ proc[p].shown # "hidden") /\ Exit(p) /\ UNCHANGED session

TrayNotify(p) ==
  /\ UserStep(p) /\ proc[p].icon
  /\ proc' = Post(p, Command(proc[p].class), None, <<>>)
  /\ UNCHANGED <<session, order, kept, waiting>>

\* EvSize stores how the window is seen.
EvSize(p) ==
  /\ UserStep(p) /\ proc[p].shown = "restored"
  /\ proc' = [proc EXCEPT ![p].shown = "minimized"]
  /\ kept' = [kept EXCEPT ![proc[p].class] = "minimized"]
  /\ UNCHANGED <<session, order, waiting>>

Activate(p) ==
  /\ UserStep(p) /\ proc[p].shown # "hidden"
  /\ Restore(p, proc)
  /\ UNCHANGED <<session, waiting>>

Select(p) ==
  /\ UserStep(p) /\ proc[p].class \in {"ftp", "proxy"} /\ session.talks # <<>>
  /\ \E from \in 0..Len(proc[p].log.text) : \E to \in from..Len(proc[p].log.text) :
       proc' = [proc EXCEPT ![p].log.from = from, ![p].log.to = to,
                            ![p].log.marked = SubSeq(proc[p].log.text, from + 1, to)]
  /\ UNCHANGED <<session, order, kept, waiting>>

CmEditDeleteAll(p) ==
  /\ UserStep(p) /\ proc[p].class \in {"ftp", "proxy"} /\ session.talks # <<>>
  /\ proc' = [proc EXCEPT ![p].log = [NewLog EXCEPT !.said = proc[p].log.said]]
  /\ UNCHANGED <<session, order, kept, waiting>>

-----------------------------------------------------------------------------

\* What a program does by itself; boxes are answered.
Runs(p) == Construct(p) \/ InitMainWindow(p) \/ Create(p) \/ SetupWindow(p) \/ Look(p) \/ Dismiss(p) \/ Reach(p) \/ Handle(p)

User(p) ==
  \/ StartProgram(p) \/ CmNewConnection(p) \/ CmShowTickets(p) \/ EvClose(p) \/ CmExit(p) \/ TrayNotify(p)
  \/ EvSize(p) \/ Activate(p) \/ Select(p) \/ CmEditDeleteAll(p)

Next == \E p \in Proc : Runs(p) \/ LogText(p) \/ User(p)

Fairness == \A p \in Proc : WF_vars(Runs(p))

Spec == Init /\ [][Next]_vars /\ Fairness

-----------------------------------------------------------------------------
(* Properties *)

\* Whoever asks for the tickets gets the window in front or is told why not,
\* unless the manager is closed meanwhile (MAIN.CPP 278-346): whatever other
\* programs start and however many windows of the class there are.
ShowIsAnswered == \A p \in Proc : p \in waiting ~> p \notin waiting

\* A program without a window to be seen has an icon that brings it back
\* (TICKETS.CPP 121-180, MWindow.cpp 128-202).
HiddenHasIcon ==
  \A p \in Proc : proc[p].at \in {"running", "polling", "found", "told"} /\ proc[p].shown = "hidden" => proc[p].icon

\* The log stays below its size, shows the last of what was said, and what the
\* user has marked stays marked as far as it is still there (LOGWND.CPP 234-300).
LogIsTail ==
  \A p \in Proc : LET log == proc[p].log IN
    /\ Len(log.text) < LogSize /\ IsSuffix(log.text, log.all)
    /\ log.to \in 0..Len(log.text) /\ log.from \in 0..log.to
    /\ IsSuffix(SubSeq(log.text, log.from + 1, log.to), log.marked)

WindowsServe == [](HiddenHasIcon /\ LogIsTail) /\ ShowIsAnswered
=============================================================================
