---------------------------- MODULE TerminalInput ----------------------------
(***************************************************************************)
(* How received bytes reach the screen: the reading thread of a connection *)
(* (TnRead, SerRead), the window message it posts, the message loop of     *)
(* TerminalEmulator::EvConnectionRead, the telnet command parser and the   *)
(* escape sequence parser of AnsiEmulator.                                 *)
(*                                                                         *)
(* Two threads share the stream.  Every call on it is atomic (ReadLock),   *)
(* so the steps of the window's thread are cut only where the other thread *)
(* can make a difference: after a read that found nothing, and where       *)
(* messages are dispatched.  The stream is kept by positions: `put` bytes  *)
(* have arrived, `rd` of them have been read, the mark is at `mk`; chunks  *)
(* are the business of BufferedStream.                                     *)
(***************************************************************************)
EXTENDS Integers, Sequences, SequencesExt

CONSTANTS
  Sessions, \* the circumstances a behaviour may run under, see Session
  MaxBlock  \* bound: the most bytes one recv returns

\* A token stands for one byte.  "x" is text; "ESC" "m" is an escape sequence;
\* "IAC" "NOP" and "IAC" "DO" "opt" are telnet commands; "FF" is a byte 255 of
\* the text, which is sent with an "IAC" before it.
Token   == {"x", "ESC", "m", "IAC", "NOP", "DO", "opt", "FF"}
IsIAC(t) == t \in {"IAC", "FF"}

\* What a byte contributes: to the text, the end of a command, or neither.
IsText(t)    == t \in {"x", "ESC", "m", "FF"}
IsCommand(t) == t \in {"NOP", "opt"}

Error == {"closed", "failed"}

Session ==
  [input    : Seq(Token), \* what the other end sends
   telnet   : BOOLEAN,    \* a telnet connection, or a serial or local one
   whole    : BOOLEAN,    \* no block ends inside a telnet command
   early    : BOOLEAN,    \* the peer may close before it has sent everything
   failures : Nat,        \* bound: receive errors other than the close
   aborts   : Nat]        \* bound: how often the user sends AO or IP

ASSUME InputAssumption == Sessions \subseteq Session /\ MaxBlock \in Nat \ {0}

VARIABLES
  session,   \* the circumstances of this behaviour
  put, rd, mk,
  charsReceived, \* the event of the stream
  reader,    \* the reading thread: in recv, or about to post its message
  socket,    \* open or invalid
  errStr,    \* ErrStr of the reading thread
  queue,     \* the window's messages WM_REG_CONNREAD
  gui,       \* where the window's thread is
  errorType, \* ErrorType: an error message that came while processing
  resume,    \* where the thread goes on after junking received data
  done,      \* what has been done with the bytes so far, in order
  reported,  \* how many errors the user has been shown
  failures, aborts

stream == <<put, rd, mk, charsReceived>>
window == <<gui, errorType, resume, done, reported>>
vars == <<session, stream, reader, socket, errStr, queue, window, failures, aborts>>

input  == session.input
Telnet == session.telnet

Init ==
  /\ session \in Sessions
  /\ put = 0 /\ rd = 0 /\ mk = 0
  /\ charsReceived = FALSE
  /\ reader = "recv" /\ socket = "open" /\ errStr = "none"
  /\ queue = <<>>
  /\ gui = "idle" /\ errorType = "none" /\ resume = "idle"
  /\ done = <<>>
  /\ reported = 0 /\ failures = 0 /\ aborts = 0

-----------------------------------------------------------------------------
(* The reading thread *)

\* A block may not end inside a command, when the peer is so kind.
Uncut(p) == \/ ~session.whole
            \/ p = Len(input)
            \/ ~(input[p] \in {"IAC", "DO"})

\* recv returns some bytes; the message follows when the lock is released.
Receive ==
  /\ reader = "recv" /\ socket = "open"
  /\ \E p \in put + 1 .. put + MaxBlock :
       /\ p <= Len(input) /\ Uncut(p)
       /\ put' = p
  /\ charsReceived' = TRUE
  /\ reader' = "post"
  /\ UNCHANGED <<session, rd, mk, socket, errStr, queue, window, failures, aborts>>

Post ==
  /\ reader = "post"
  /\ queue' = Append(queue, "read")
  /\ reader' = "recv"
  /\ UNCHANGED <<session, stream, socket, errStr, window, failures, aborts>>

\* An error is kept and announced unless an earlier one is still kept.
Failed(e) ==
  IF errStr = "none"
    THEN errStr' = e /\ queue' = Append(queue, e)
    ELSE UNCHANGED <<errStr, queue>>

Close ==
  /\ Telnet /\ reader = "recv" /\ socket = "open"
  /\ session.early \/ put = Len(input)
  /\ socket' = "invalid"
  /\ Failed("closed")
  /\ UNCHANGED <<session, stream, reader, window, failures, aborts>>

ReceiveError ==
  /\ Telnet /\ reader = "recv" /\ socket = "open"
  /\ failures < session.failures
  /\ failures' = failures + 1
  /\ Failed("failed")
  /\ UNCHANGED <<session, stream, reader, socket, window, aborts>>

Reader == Receive \/ Post \/ Close \/ ReceiveError

-----------------------------------------------------------------------------
(* Calls on the stream *)

Log(as, from, to) == [i \in 1 .. to - from |-> <<from + i, as>>]

\* _CharExist finds nothing.
Nothing == rd = put /\ charsReceived' = FALSE /\ UNCHANGED <<put, rd, mk>>

\* The reader goes on to position p, the event following as in _UpdateCR.
ReadTo(p) ==
  /\ rd' = p
  /\ charsReceived' = (p < put)
  /\ UNCHANGED put

\* ReceivedDone collects the bytes read, which moves the mark behind them.
ReceivedDone == mk' = rd'

-----------------------------------------------------------------------------
(* The window's thread *)

OfWindow == UNCHANGED <<session, reader, socket, failures, aborts>>

\* ProcessReceived with an error: the message box stays up until the user
\* closes it, and other messages are dispatched meanwhile.
ShowError(box, next) ==
  IF errStr = "none"
    THEN gui' = next /\ UNCHANGED <<errStr, reported>>
    ELSE gui' = box /\ errStr' = "none" /\ reported' = reported + 1

\* EvConnectionRead for a message that finds nobody processing.
Dispatch ==
  /\ gui = "idle" /\ queue # <<>>
  /\ queue' = Tail(queue)
  /\ IF Head(queue) = "read"
       THEN gui' = "loop" /\ UNCHANGED <<errStr, reported>>
       ELSE ShowError("box", "after")
  /\ UNCHANGED <<errorType, resume, done, stream>> /\ OfWindow

\* EvConnectionRead while ProcessingChars: only an error is remembered.
\* That happens in PumpWaitingMessages and in the loop of a message box.
Swallow ==
  /\ gui \in {"pump", "box", "lastbox"} /\ queue # <<>>
  /\ queue' = Tail(queue)
  /\ errorType' = IF Head(queue) \in Error THEN Head(queue) ELSE errorType
  /\ UNCHANGED <<gui, resume, done, reported, errStr, stream>> /\ OfWindow

\* A slip: what arrived while messages were dispatched is left.
PumpDoneOnce ==
  /\ gui = "pump" /\ queue = <<>>
  /\ gui' = "after"
  /\ UNCHANGED <<errorType, resume, done, reported, errStr, queue, stream>> /\ OfWindow

PumpDone ==
  /\ gui = "pump" /\ queue = <<>>
  /\ gui' = "loop"
  /\ UNCHANGED <<errorType, resume, done, reported, errStr, queue, stream>> /\ OfWindow

Dismiss ==
  /\ gui \in {"box", "lastbox"}
  /\ IF gui = "box"
       THEN gui' = "after" /\ UNCHANGED errorType
       ELSE gui' = "idle" /\ errorType' = "none"
  /\ UNCHANGED <<resume, done, reported, errStr, queue, stream>> /\ OfWindow

\* What follows the loop of EvConnectionRead.
After ==
  /\ gui = "after"
  /\ IF errorType = "none"
       THEN gui' = "idle" /\ UNCHANGED <<errorType, errStr, reported>>
       ELSE /\ ShowError("lastbox", "idle")
            /\ errorType' = IF errStr = "none" THEN "none" ELSE errorType
  /\ UNCHANGED <<resume, done, queue, stream>> /\ OfWindow

Quiet == UNCHANGED <<errorType, resume, reported, errStr, queue>> /\ OfWindow

\* TelnetNegotiate and the option's NegotiateOption, standing before an IAC.
\* A command that has not arrived as a whole is left where it broke off: the
\* bytes read are not given back.  IAC IAC puts the second one back, to be
\* taken for the start of a command.
TelnetNegotiate ==
  LET Has(i)   == rd + i <= put
      At(i)    == input[rd + i]
      obeyed(i) == /\ ReadTo(rd + i)
                   /\ mk' = rd'
                   /\ done' = Append(done, <<rd + i, "obeyed">>)
      brokenOff == ReadTo(put) /\ UNCHANGED <<mk, done>>
  IN IF ~Has(2) THEN brokenOff
     ELSE \/ At(2) = "NOP" /\ obeyed(2)
          \/ At(2) = "DO" /\ IF Has(3) THEN obeyed(3) ELSE brokenOff
          \/ IsIAC(At(2)) /\ ReadTo(rd + 1) /\ UNCHANGED <<mk, done>>
          \/ /\ ~(At(2) \in {"NOP", "DO"}) /\ ~IsIAC(At(2))
             /\ ReadTo(rd + 2) /\ UNCHANGED <<mk, done>>

\* ProcessReceived decides whether there is anything for the emulator.  The
\* telnet one looks at the next byte, which sets the event again.
ProcessReceived(yes, no) ==
  IF Telnet
    THEN \/ Nothing /\ gui' = no /\ UNCHANGED done
         \/ rd < put /\ IsIAC(input[rd + 1]) /\ TelnetNegotiate /\ UNCHANGED gui
         \/ /\ rd < put /\ ~IsIAC(input[rd + 1])
            /\ gui' = yes /\ charsReceived' = TRUE
            /\ UNCHANGED <<put, rd, mk, done>>
    ELSE /\ gui' = IF charsReceived THEN yes ELSE no
         /\ UNCHANGED <<stream, done>>

Loop == gui = "loop" /\ ProcessReceived("chars", "after") /\ Quiet

\* A slip: CheckSkipChar is not overridden.
StopsAtEscape(t) == t = "ESC"

\* The bytes SkipTo stops at: the start of an escape sequence, and on a telnet
\* connection (CheckSkipChar) the start of a command.
StopsAt(t) == t = "ESC" \/ (Telnet /\ IsIAC(t))

\* CharsReceived: the text up to the next escape sequence goes to the screen.
\* SkipTo sees no further than the end of a chunk, so it may stop early.
CharsReceived ==
  /\ gui = "chars"
  /\ \/ Nothing /\ gui' = "pump" /\ UNCHANGED done
     \/ /\ rd < put /\ StopsAt(input[rd + 1])
        /\ gui' = IF input[rd + 1] = "ESC" THEN "escape" ELSE "pump"
        /\ UNCHANGED <<stream, done>>
     \/ \E p \in rd + 1 .. put :
        /\ \A i \in rd + 1 .. p : ~StopsAt(input[i])
        /\ rd' = p
        /\ done' = done \o Log("shown", rd, p)
        /\ ReceivedDone
        /\ gui' = IF p < put /\ input[p + 1] = "ESC" THEN "escape" ELSE "pump"
        /\ UNCHANGED <<put, charsReceived>>
  /\ Quiet

\* ProcessEscSequence.  GetChar fails at the end of what has arrived, and at
\* an IAC, which it puts back; either way the sequence is to be given back.
Escape ==
  /\ gui = "escape"
  /\ \/ /\ rd + 2 <= put /\ ~(Telnet /\ IsIAC(input[rd + 2]))
        /\ ReadTo(rd + 2)
        /\ done' = done \o Log("shown", rd, rd + 2)
        /\ ReceivedDone
        /\ gui' = "chars"
     \/ /\ rd + 2 <= put /\ Telnet /\ IsIAC(input[rd + 2])
        /\ rd' = rd + 1 /\ charsReceived' = TRUE
        /\ gui' = "restore"
        /\ UNCHANGED <<put, mk, done>>
     \/ /\ rd + 1 = put
        /\ ReadTo(put)
        /\ gui' = "restore"
        /\ UNCHANGED <<mk, done>>
  /\ Quiet

\* RestoreToMark, however much has arrived since the read that failed.
Restore ==
  /\ gui = "restore"
  /\ rd' = mk
  /\ charsReceived' = FALSE
  /\ gui' = "pump"
  /\ UNCHANGED <<put, mk, done>> /\ Quiet

\* CmConnectionCommands: the user interrupts the program or its output, and
\* what has arrived is junked.  It is a message too, so it can come in the
\* middle of EvConnectionRead.
Abort ==
  /\ Telnet /\ socket = "open"
  /\ gui \in {"idle", "pump"} /\ aborts < session.aborts
  /\ aborts' = aborts + 1
  /\ gui' = "junk" /\ resume' = gui
  /\ UNCHANGED <<session, stream, reader, socket, errorType, reported, errStr,
                 queue, done, failures>>

Junk ==
  /\ gui = "junk"
  /\ ProcessReceived("junk1", resume)
  /\ Quiet

JunkOne ==
  /\ gui = "junk1"
  /\ ReadTo(rd + 1) /\ UNCHANGED mk
  /\ done' = Append(done, <<rd + 1, "junked">>)
  /\ gui' = "junk"
  /\ Quiet

Window == \/ Dispatch \/ Swallow \/ PumpDone \/ After \/ Loop \/ CharsReceived
          \/ Escape \/ Restore \/ Junk \/ JunkOne

Next == Reader \/ Window \/ Dismiss \/ Abort

\* Windows runs both threads, the user closes a message box in the end, and
\* the peer goes on sending as long as the connection is open.
Fairness ==
  /\ WF_vars(Window) /\ WF_vars(Dismiss)
  /\ WF_vars(Receive) /\ WF_vars(Post)

Spec     == Init /\ [][Next]_vars
FairSpec == Spec /\ Fairness

-----------------------------------------------------------------------------
(* Properties *)

TypeOK ==
  /\ session \in Sessions
  /\ put \in 0..Len(input) /\ rd \in 0..put /\ mk \in 0..rd
  /\ charsReceived \in BOOLEAN
  /\ reader \in {"recv", "post"} /\ socket \in {"open", "invalid"}
  /\ errStr \in Error \cup {"none"}
  /\ queue \in Seq(Error \cup {"read"})
  /\ gui \in {"idle", "loop", "chars", "escape", "restore", "pump", "after",
              "box", "lastbox", "junk", "junk1"}
  /\ errorType \in Error \cup {"none"}
  /\ resume \in {"idle", "pump"}
  /\ done \in Seq(Nat \X {"shown", "obeyed", "junked"})
  /\ reported \in Nat /\ failures \in 0..session.failures
  /\ aborts \in 0..session.aborts

\* The units of what has arrived: each byte of text, each complete command.
Unit(i) == IsText(input[i]) \/ IsCommand(input[i])
Units == SelectSeq([i \in 1..put |-> i], Unit)

Fits(entry) ==
  IF IsCommand(input[entry[1]]) THEN entry[2] = "obeyed"
                                ELSE entry[2] \in {"shown", "junked"}

\* Of what two consecutive bytes are not, on a telnet connection.
Follows(i) ==
  /\ input[i] # "FF"
  /\ input[i] = "IAC" => input[i + 1] \in {"IAC", "NOP", "DO"}
  /\ input[i] = "DO" <=> input[i + 1] = "opt"
  /\ input[i + 1] \in {"NOP", "DO"} => input[i] = "IAC"

\* Commands are whole, known and not cut by a block; a serial line has none.
\* Who interrupts a program is sent no escape sequences: a sequence that is
\* given back brings back what was junked before it.
Orderly ==
  /\ IF Telnet
       THEN /\ session.whole
            /\ \A i \in 1..Len(input) - 1 : Follows(i)
            /\ input # <<>> => input[1] \notin {"NOP", "DO", "opt"} /\ input[Len(input)] # "FF"
       ELSE \A i \in 1..Len(input) : IsText(input[i])
  /\ session.aborts > 0 => \A i \in 1..Len(input) : input[i] # "ESC"

\* Text is shown once and in order, commands are obeyed and not shown, and
\* each is dealt with after everything before it: blocks that end anywhere,
\* messages that come while others are processed, escape sequences that are
\* given back and read again change nothing.
HandledInOrder ==
  Orderly => \A k \in 1..Len(done) :
    LET before == IF k = 1 THEN 0 ELSE done[k - 1][1]
    IN /\ done[k][1] \in before + 1..put /\ Unit(done[k][1]) /\ Fits(done[k])
       /\ \A i \in before + 1..done[k][1] - 1 : ~Unit(i)

\* Everything that arrives is dealt with in the end.
Delivered == <>[](Len(done) = Len(Units))

\* On a telnet connection everything that arrives is dealt with in the end,
\* messages swallowed, sequences given back and data junked notwithstanding;
\* not so what arrives while the box of a receive error is up.
\* So is an error the reading thread keeps; of two errors the one that comes
\* while the other is shown is forgotten.
AllHandled ==
  /\ Telnet /\ session.failures = 0 => Delivered
  /\ session.failures = 0 => (errStr # "none" ~> errStr = "none")
=============================================================================
