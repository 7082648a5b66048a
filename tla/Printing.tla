-------------------------------- MODULE Printing -------------------------------
(***************************************************************************)
(* The printer and the capture file of a terminal window.  The host turns   *)
(* printing on and off; ReceivedDone gives what was read since to the       *)
(* printer and to the file.  The user may eject a page, print what is       *)
(* marked, reset the terminal and change the setup, also while a message    *)
(* box about the printer is up.  A Windows printer lays the text out in     *)
(* pages.                                                                  *)
(***************************************************************************)
EXTENDS Integers, Sequences, SequencesExt, FiniteSets

CONSTANTS
  Session,
  CharWidth, CharHeight, PageHeight, \* of a printed page, in dots
  MaxSteps,                          \* bound: commands of the user
  None

\* input: what the host sends, an escape sequence being one of it; kinds: the
\* printer that is set up, and the one after it was changed; show, eject:
\* ShowText, AutoEject.  may: what the user does.  fails: what goes wrong.
PrintingAssumption ==
  \A s \in Session :
    /\ \A i \in 1..Len(s.input) : s.input[i] \in {"x", "high", "lf", "cr", "ff", "tab", "on", "off", "esc"}
    /\ \A k \in 1..2 : s.kinds[k] \in {"windows", "file", "device", None}

VARIABLES
  session,
  pos,     \* how much of the input has been read
  shown,   \* what of it NormalChars was given
  enable,  \* EnablePrint
  printer, \* the object, its device, and what that was given
  capture, \* CF and its file
  boxes,   \* the message boxes that are up, and what is to be done behind each
  told,    \* what a box was about that was not printed
  crashed, steps

vars == <<session, pos, shown, enable, printer, capture, boxes, told, crashed, steps>>

FormFeed == 0
Marked == -1

Has(d) == d.kind # None
Item(i) == CASE i > 0 -> session.input[i] [] i = FormFeed -> "ff" [] i = Marked -> "x"

\* No printer, and a device that will fail so many times.
NoPrinter(n) == [kind |-> None, open |-> FALSE, handle |-> FALSE, dirty |-> FALSE, col |-> 0, row |-> 0,
                 page |-> 0, ended |-> {}, given |-> <<>>, marks |-> <<>>, luck |-> n, deaf |-> FALSE]

-----------------------------------------------------------------------------
(* Pages *)

PageStart(d) == [d EXCEPT !.page = @ + 1, !.col = 0, !.row = 0]
PageEnd(d) == [d EXCEPT !.ended = @ \cup {d.page}, !.dirty = FALSE]

\* A slip: the page goes on behind its last line.
LineCheckLate(d, offset) ==
  LET e == IF d.col + offset >= session.width THEN [d EXCEPT !.col = 0, !.row = @ + CharHeight] ELSE d
  IN IF e.row > PageHeight THEN PageStart(PageEnd(e)) ELSE e

LineCheck(d, offset) ==
  LET e == IF d.col + offset >= session.width THEN [d EXCEPT !.col = 0, !.row = @ + CharHeight] ELSE d
  IN IF e.row + CharHeight > PageHeight THEN PageStart(PageEnd(e)) ELSE e

TextOut(d, i) ==
  LineCheck([d EXCEPT !.marks = Append(@, [of |-> i, page |-> d.page, row |-> d.row, col |-> d.col]),
                      !.dirty = TRUE, !.col = @ + CharWidth], 0)

\* One of a run of letters: if it does not fit it goes into the next line.
ProcessMulti(d, i) == TextOut(IF d.col + CharWidth > session.width THEN LineCheck([d EXCEPT !.col = session.width], 0) ELSE d, i)

ProcessChar(d, i) ==
  CASE Item(i) = "tab" -> LineCheck([d EXCEPT !.col = ((@ \div CharWidth + 8) \div 8) * 8 * CharWidth], 0)
    [] Item(i) = "cr" -> LineCheck([d EXCEPT !.col = 0], 0)
    [] Item(i) = "lf" -> LineCheck([d EXCEPT !.row = @ + CharHeight], 0)
    [] Item(i) = "ff" -> LineCheck([d EXCEPT !.row = PageHeight], 0)
    [] Item(i) = "high" -> TextOut(LineCheck(d, CharWidth), i)

Printed(d, i) == IF Item(i) \in {"x", "on", "off", "esc"} THEN ProcessMulti(d, i) ELSE ProcessChar(d, i)

EndJob(d) == [(IF d.dirty THEN PageEnd(d) ELSE d) EXCEPT !.handle = FALSE, !.open = FALSE]

-----------------------------------------------------------------------------
(* Printers: each operation with all it may come to *)

Done(d) == [dev |-> d, ok |-> TRUE]
Failed(d) == [dev |-> d, ok |-> FALSE]
Broken(d) == Failed([d EXCEPT !.luck = @ - 1])
Fails(d, how) == d.luck > 0 /\ how \in session.fails

\* A device that was opened in part is open for the next Open, but for nobody else.
Open(d) ==
  IF d.handle THEN {Done([d EXCEPT !.deaf = @ \/ ~d.open])}
  ELSE LET up == [d EXCEPT !.handle = TRUE, !.open = TRUE]
       IN {Done(IF d.kind = "windows" THEN PageStart(up) ELSE up)}
          \cup (IF Fails(d, "open") THEN {Broken(d)} ELSE {})
          \cup (IF d.kind = "device" /\ Fails(d, "late") THEN {Broken([d EXCEPT !.handle = TRUE])} ELSE {})

DataOut(d, data) ==
  LET all == [d EXCEPT !.given = @ \o data]
  IN IF d.kind = "windows" THEN (IF d.handle THEN {Done(FoldLeft(Printed, all, data))} ELSE {Failed(d)})
     ELSE IF ~d.open THEN {Failed(d)}
     ELSE {Done(all)} \cup (IF Fails(d, "write") THEN {Broken([d EXCEPT !.given = @ \o SubSeq(data, 1, n)]) : n \in 0..(Len(data) - 1)} ELSE {})

EjectPage(d) ==
  IF d.kind = "windows" THEN {Done(IF d.handle THEN EndJob(d) ELSE d)} ELSE DataOut(d, <<FormFeed>>)

\* What Closing comes to is not looked at.
Close(d, abort) ==
  LET closing == IF ~abort /\ session.eject THEN {r.dev : r \in EjectPage(d)} ELSE {d}
  IN IF d.kind = "windows" THEN {Done(e) : e \in closing}
     ELSE IF ~d.open THEN {Failed(d)}
     ELSE {Done([e EXCEPT !.handle = FALSE, !.open = FALSE]) : e \in closing}

HaveData(d) == d.open /\ (d.kind = "windows" => d.dirty)

GetNewPrinter(d) == [d EXCEPT !.kind = session.kinds[1]]

\* The destructors end the job and close the file.
Deleted(d) == [(IF d.kind = "windows" /\ d.handle THEN EndJob(d) ELSE d)
                 EXCEPT !.kind = None, !.open = FALSE, !.handle = FALSE, !.dirty = FALSE]

-----------------------------------------------------------------------------
(* ReceivedDone *)

Box(at, data) == [at |-> at, data |-> data]

\* The capture file, last; up: the boxes that stay.
Capture(data, up) ==
  \/ /\ capture' = [capture EXCEPT !.got = IF capture.on THEN @ \o data ELSE @]
     /\ boxes' = up
  \/ /\ capture.on /\ data # <<>> /\ "capture" \in session.fails
     /\ capture' = [capture EXCEPT !.on = FALSE]
     /\ boxes' = Append(up, Box("capture", <<>>))

\* d: the printer by now.  Text is lost for a printer that is not open.
ReceivedDone(d, on, data, up) ==
  \E r \in (IF on /\ Has(d) /\ d.open /\ data # <<>> THEN DataOut(d, data) ELSE {Done(d)}) :
    /\ printer' = r.dev /\ enable' = on
    /\ IF r.ok THEN Capture(data, up) /\ UNCHANGED told
       ELSE boxes' = Append(up, Box("data", data)) /\ told' = told \cup ToSet(data) /\ UNCHANGED capture

\* StartPrinter, and ReceivedDone for what was read.
StartPrinter(on, data, up) ==
  LET d == IF Has(printer) THEN printer ELSE GetNewPrinter(printer)
  IN IF ~Has(d) THEN ReceivedDone(d, enable, data, up)
     ELSE \E r \in (IF on THEN Open(d) ELSE IF d.open THEN Close(d, FALSE) ELSE {Done(d)}) :
            IF r.ok THEN ReceivedDone(r.dev, on, data, up)
            ELSE printer' = r.dev /\ boxes' = Append(up, Box("start", data)) /\ UNCHANGED <<enable, capture, told>>

-----------------------------------------------------------------------------
(* What the host sends *)

\* While a box about what was read is up EvConnectionRead swallows its messages.
OfInput == {"data", "start", "capture", "on"}
Listening == ~crashed /\ \A k \in 1..Len(boxes) : boxes[k].at \notin OfInput

Escapes == {"on", "off", "esc"}
Here(n) == [k \in 1..n |-> pos + k]
Text(i) == session.input[i] \notin Escapes

\* A block up to an escape sequence, or up to where it ends.
Chars ==
  /\ Listening
  /\ \E n \in 1..(Len(session.input) - pos) :
       /\ \A k \in 1..n : Text(pos + k)
       /\ shown' = IF ~enable \/ session.show THEN shown \o Here(n) ELSE shown
       /\ ReceivedDone(printer, enable, Here(n), boxes)
       /\ pos' = pos + n
  /\ UNCHANGED <<session, crashed, steps>>

\* CheckForEndPrint while text is not shown, ProcessEscSequence otherwise.
Sequence ==
  /\ Listening /\ pos < Len(session.input) /\ ~Text(pos + 1)
  /\ LET s == session.input[pos + 1]
     IN CASE s = "off" -> StartPrinter(FALSE, Here(1), boxes)
          [] s = "on" /\ (~enable \/ session.show) -> ReceivedDone(printer, enable, Here(1), Append(boxes, Box("on", <<>>)))
          [] s = "esc" \/ (s = "on" /\ enable /\ ~session.show) -> ReceivedDone(printer, enable, Here(1), boxes)
  /\ pos' = pos + 1
  /\ UNCHANGED <<session, shown, crashed, steps>>

\* What follows ReceivedDone for the sequence for on.
PrintOn ==
  /\ boxes # <<>> /\ Last(boxes).at = "on"
  /\ StartPrinter(TRUE, <<>>, Front(boxes))
  /\ UNCHANGED <<session, pos, shown, crashed, steps>>

-----------------------------------------------------------------------------
(* What the user does *)

Counted(what) == /\ boxes = <<>> /\ ~crashed /\ what \in session.may
                 /\ steps < MaxSteps /\ steps' = steps + 1

CmPrinterEject ==
  /\ Counted("eject") /\ Has(printer) /\ HaveData(printer)
  /\ \E r \in EjectPage(printer) :
       IF ~r.ok THEN printer' = r.dev /\ boxes' = <<Box("eject", <<>>)>>
       ELSE \E c \in (IF enable THEN {[dev |-> [r.dev EXCEPT !.deaf = @ \/ r.dev.kind = "windows"], ok |-> TRUE]} ELSE Close(r.dev, TRUE)) :
              printer' = c.dev /\ UNCHANGED boxes
  /\ UNCHANGED <<session, pos, shown, enable, capture, told, crashed>>

\* The end of CmPrintSelected.
SelectedDone(d) ==
  /\ \E r \in (IF Has(d) /\ d.open THEN Close(d, FALSE) ELSE {Done(d)}) : printer' = Deleted(r.dev)
  /\ enable' = FALSE

\* A printer that is there and not open prints nothing.
SelectedOut(d, on) ==
  \E r \in (IF d.open THEN DataOut(d, <<Marked>>) ELSE {Done(d)}) :
    IF r.ok THEN SelectedDone(r.dev) /\ boxes' = <<>>
    ELSE printer' = r.dev /\ enable' = on /\ boxes' = <<Box("marked", <<>>)>>

CmPrintSelected ==
  /\ Counted("select")
  /\ LET d == IF Has(printer) THEN printer ELSE GetNewPrinter(printer)
     IN IF ~Has(d) THEN boxes' = <<Box("none", <<>>)>> /\ printer' = d /\ UNCHANGED enable
        ELSE IF Has(printer) THEN SelectedOut(d, enable)
        ELSE \E r \in Open(d) : IF r.ok THEN SelectedOut(r.dev, TRUE)
                                ELSE printer' = r.dev /\ boxes' = <<Box("selected", <<>>)>> /\ UNCHANGED enable
  /\ UNCHANGED <<session, pos, shown, capture, told, crashed>>

\* A reset of the terminal, or a new connection.
Reset ==
  /\ Counted("reset") /\ Has(printer)
  /\ \E r \in (IF printer.open THEN Close(printer, FALSE) ELSE {Done(printer)}) : printer' = r.dev
  /\ enable' = FALSE
  /\ UNCHANGED <<session, pos, shown, capture, boxes, told, crashed>>

\* A program has saved its setup, at any time: the printer is deleted.
EvPropertyChanged ==
  /\ "setup" \in session.may /\ steps < MaxSteps /\ steps' = steps + 1 /\ ~crashed
  /\ boxes # <<>> => "rash" \in session.may /\ Last(boxes).at # "on"
  /\ session' = [session EXCEPT !.kinds = <<@[2], @[1]>>]
  /\ IF ~Has(printer) THEN UNCHANGED <<printer, enable>>
     ELSE /\ \E r \in (IF printer.open THEN Close(printer, FALSE) ELSE {Done(printer)}) : printer' = Deleted(r.dev)
          /\ enable' = FALSE
  /\ UNCHANGED <<pos, shown, capture, boxes, told, crashed>>

CmCaptureText ==
  /\ Counted("capture") /\ ~capture.on
  /\ capture' = [on |-> TRUE, from |-> pos, got |-> <<>>]
  /\ UNCHANGED <<session, pos, shown, enable, printer, boxes, told, crashed>>

CmEndCaptureText ==
  /\ Counted("capture") /\ capture.on
  /\ capture' = [capture EXCEPT !.on = FALSE]
  /\ UNCHANGED <<session, pos, shown, enable, printer, boxes, told, crashed>>

-----------------------------------------------------------------------------
(* Behind a box *)

\* printer->Close(true), EnablePrint = false.
Abandoned(d) == {[dev |-> r.dev, on |-> FALSE] : r \in Close(d, TRUE)}

\* The user has read it; printer is not looked at once more.
Answered ==
  /\ boxes # <<>> /\ Last(boxes).at # "on" /\ ~crashed
  /\ LET box == Last(boxes) IN
     IF ~Has(printer) /\ box.at \notin {"none", "capture"}
     THEN crashed' = TRUE /\ UNCHANGED <<printer, enable, capture, boxes>>
     ELSE /\ UNCHANGED crashed
          /\ CASE box.at \in {"none", "capture"} -> boxes' = Front(boxes) /\ UNCHANGED <<printer, enable, capture>>
               [] box.at \in {"data", "start"} ->
                    /\ \E a \in Abandoned(printer) : printer' = a.dev /\ enable' = a.on
                    /\ Capture(box.data, Front(boxes))
               [] box.at = "eject" ->
                    /\ \E a \in Abandoned(printer) : printer' = a.dev /\ enable' = FALSE
                    /\ boxes' = Front(boxes) /\ UNCHANGED capture
               [] box.at = "selected" -> (\E a \in Abandoned(printer) : SelectedOut(a.dev, FALSE)) /\ UNCHANGED capture
               [] box.at = "marked" ->
                    /\ \E a \in Abandoned(printer) : SelectedDone(a.dev)
                    /\ boxes' = Front(boxes) /\ UNCHANGED capture
  /\ UNCHANGED <<session, pos, shown, told, steps>>

-----------------------------------------------------------------------------

Init ==
  /\ session \in Session
  /\ pos = 0 /\ shown = <<>> /\ enable = FALSE /\ printer = NoPrinter(session.luck)
  /\ capture = [on |-> FALSE, from |-> 0, got |-> <<>>] /\ boxes = <<>> /\ told = {} /\ crashed = FALSE /\ steps = 0

Next ==
  \/ Chars \/ Sequence \/ PrintOn \/ Answered
  \/ CmPrinterEject \/ CmPrintSelected \/ Reset \/ EvPropertyChanged \/ CmCaptureText \/ CmEndCaptureText

Spec == Init /\ [][Next]_vars

-----------------------------------------------------------------------------
(* Properties *)

Ours(s) == SelectSeq(s, LAMBDA i : i > 0)

\* The host has asked for it to be printed.
Between(i) == \E j \in 1..(i - 1) : session.input[j] = "on" /\ \A k \in (j + 1)..i : session.input[k] # "off"

\* What the host sends is shown, printed, or a box says that it was not; in its
\* order and once.  A page that is ejected from a Windows printer while the host
\* prints, and a device that was opened in part, leave a printer that takes the
\* text and prints none of it.
NothingUnseen ==
  /\ LET p == Ours(printer.given) IN \A k \in 1..(Len(p) - 1) : p[k] < p[k + 1]
  /\ (~printer.deaf /\ ~crashed) => \A i \in 1..pos : Text(i) => i \in ToSet(shown) \cup ToSet(printer.given) \cup told

\* What is printed of it is between a sequence for on and one for off, all of it
\* if nothing fails and the user lets it.  A printer that fails on what is marked
\* goes on with the host's text until its box is answered.
PrintedIsMeant ==
  /\ session.luck = 0 \/ "select" \notin session.may => \A i \in ToSet(Ours(printer.given)) : Between(i)
  /\ (session.may \subseteq {"capture"} /\ session.luck = 0 /\ session.kinds[1] # None) =>
       Ours(printer.given) = SelectSeq([i \in 1..pos |-> i], Between)

Follows(m, n) == \/ n.page > m.page
                 \/ n.page = m.page /\ (n.row > m.row \/ (n.row = m.row /\ n.col >= m.col + CharWidth))

\* Every letter is on a page, behind the one before unless the host went back,
\* and every page of a job that has ended was ended.
OnPaper ==
  LET ms == printer.marks IN
  /\ \A k \in 1..Len(ms) : ms[k].col + CharWidth <= session.width /\ ms[k].row + CharHeight <= PageHeight
  /\ \A k \in 1..(Len(ms) - 1) :
       \/ Follows(ms[k], ms[k + 1])
       \/ ms[k].of > 0 /\ ms[k + 1].of > 0 /\ \E i \in ms[k].of..ms[k + 1].of : session.input[i] = "cr"
  /\ ~printer.handle => \A k \in 1..Len(ms) : ms[k].page \in printer.ended

\* The capture file is all that was received while it was open.
Captured ==
  /\ \A k \in 1..Len(capture.got) : capture.got[k] = capture.from + k
  /\ capture.on /\ boxes = <<>> /\ ~crashed => capture.from + Len(capture.got) = pos

\* Printing and capture give what they are asked for, and the printer is there
\* when it is called unless the setup was changed behind a box about it.
PrintingIsTrue ==
  /\ NothingUnseen /\ PrintedIsMeant /\ OnPaper /\ Captured
  /\ crashed => "rash" \in session.may
=============================================================================
