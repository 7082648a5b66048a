------------------------------- MODULE Screen -------------------------------
(***************************************************************************)
(* The screen of the terminal: TerminalEmulator's buffer with its scroll-   *)
(* back and its cursor, what AnsiEmulator's control sequences do to them,   *)
(* the area the mouse has marked, and what the window has painted of all    *)
(* this.  A sequence arrives whole here: how it is read from the            *)
(* connection is the matter of TerminalInput.                               *)
(***************************************************************************)
EXTENDS Integers, Sequences, SequencesExt

CONSTANTS
  BufferLines, BufferColumns,
  MaxSteps,    \* bound: operations on a screen
  Session

LF == "LF"   CR == "CR"   BS == "BS"   HT == "HT"   BEL == "BEL"   SPACE == " "
WRITTEN == "written"
REVERSE == "reverse"

Size == BufferLines * BufferColumns

\* first: lines printed before.  texts: what NormalChars is given.  ops: the
\* control sequences and commands that come, nums: their arguments.  sizes: of
\* the window, later.  scrolls: ScrollWindow is used.
ScreenAssumption ==
  /\ BufferLines \in Nat \ {0} /\ BufferColumns \in Nat \ {0} /\ MaxSteps \in Nat
  /\ \A s \in Session :
       /\ DOMAIN s = {"first", "rows", "cols", "wrap", "texts", "ops", "nums", "sizes", "scrolls"}
       /\ s.rows \in 1..BufferLines /\ s.cols \in 1..BufferColumns
       /\ s.first \in 0..(BufferLines - 1) /\ {s.wrap, s.scrolls} \subseteq BOOLEAN
       /\ s.nums \subseteq Nat /\ s.sizes \subseteq (1..BufferLines) \X (1..BufferColumns)

VARIABLES
  session, steps,
  scr      \* the fields of the emulator and of its window, and three of the
           \* model: down, the program has ended; carried, a highlight moved
           \* with its pixels; stray, the cursor was left of the first column
           \* for a letter or a tab took it beyond the last

vars == <<session, steps, scr>>

MaxOf(a, b) == IF a > b THEN a ELSE b
MinOf(a, b) == IF a < b THEN a ELSE b
Clamp(x, a, b) == IF x >= b THEN b ELSE MaxOf(x, a)

-----------------------------------------------------------------------------
(* Memory *)

Blank == [ch |-> SPACE, at |-> {}]

Addr(row, col) == BufferColumns * row + col

\* MoveMemory and FillMemory; what lies outside of the buffer is not followed.
Moved(mem, to, from, len) ==
  [x \in DOMAIN mem |-> IF x \in to..(to + len - 1) /\ x + from - to \in DOMAIN mem
                        THEN mem[x + from - to] ELSE mem[x]]

Filled(mem, a, len, cell) == [x \in DOMAIN mem |-> IF x \in a..(a + len - 1) THEN cell ELSE mem[x]]

\* A negative length ends the program.
Fill(s, a, len, cell) ==
  [s EXCEPT !.mem = Filled(@, a, len, cell), !.down = @ \/ len < 0]

Cursor(s) == Addr(s.off + s.line, s.col)

-----------------------------------------------------------------------------
(* The window *)

Marked(s, row, col) ==
  /\ Addr(row, col) >= s.markStart /\ Addr(row, col) < s.markEnd
  /\ \E c \in col..(s.cols - 1) : WRITTEN \in s.mem[Addr(row, c)].at

\* What a row of the window has to show
View(s, r) ==
  LET row == s.start + r IN
  IF row >= BufferLines THEN <<>>
  ELSE [c \in 0..(s.cols - 1) |-> [cell |-> s.mem[Addr(row, c)], marked |-> Marked(s, row, c)]]

Row(s) == 0..(s.rows - 1)

Invalidate(s) == [s EXCEPT !.dirty = Row(s), !.carried = FALSE]

InvalidateRowsBuf(s, t, b) ==
  [s EXCEPT !.dirty = @ \cup {r \in Row(s) : t - s.start <= r /\ r <= b - s.start}]

InvalidateRows(s, t, b) == InvalidateRowsBuf(s, t + s.off, b + s.off)

Paint(s) ==
  [s EXCEPT !.painted = [r \in Row(s) |-> IF r \in s.dirty THEN View(s, r) ELSE s.painted[r]],
            !.dirty = {}]

\* Windows moves the picture of the rows t..b and invalidates what it uncovers.
ScrollWindow(s, t, b, n) ==
  LET from(r) == r - n
      rows == {r \in Row(s) : t <= r /\ r <= b}
  IN [s EXCEPT !.painted = [r \in Row(s) |-> IF r \in rows /\ from(r) \in rows
                                             THEN s.painted[from(r)] ELSE s.painted[r]],
               !.dirty = @ \cup {r \in rows : from(r) \notin rows}]

-----------------------------------------------------------------------------
(* Scrolling *)

AdjustOrigin(s) == [s EXCEPT !.start = s.off]

SetupScrollBar(s) == [s EXCEPT !.used = MaxOf(@, s.line + s.off + 1)]

\* Lines pass into the scrollback while the buffer has room, and the marked
\* area moves with the text when it has not.
Unmarked(s) == [s EXCEPT !.markStart = -1, !.markEnd = -1]

ShiftMark(s, k) ==
  LET e == s.markEnd - k * BufferColumns IN
  IF s.markStart = -1 THEN s
  ELSE IF e < 0 THEN Unmarked(s)
  ELSE [s EXCEPT !.markStart = MaxOf(@ - k * BufferColumns, 0), !.markEnd = e]

ScrollUp(s, t, b, k, whole) ==
  LET a == IF whole THEN 0 ELSE Addr(s.off + t, 0)
      n == IF whole THEN BufferLines - k ELSE b - t + 1 - k
      m == Moved(s.mem, a, a + k * BufferColumns, n * BufferColumns)
      z == Addr(s.off + b + 1 - k, 0)
  IN \* the attributes of the lines that come in are left as they were
     [(IF whole THEN ShiftMark(s, k) ELSE s) EXCEPT
        !.mem = [x \in DOMAIN m |-> IF x \in z..(z + k * BufferColumns - 1)
                                    THEN [m[x] EXCEPT !.ch = SPACE] ELSE m[x]]]

ScrollDown(s, t, b, n) ==
  LET a == Addr(s.off + t, 0)
      m == Moved(s.mem, a + n * BufferColumns, a, (b - t + 1 - n) * BufferColumns)
  IN [s EXCEPT !.mem = Filled(m, a, n * BufferColumns, Blank)]

\* Windows is up to date before the picture moves.
BeginScroll(s, redraw) == IF s.off = s.start /\ redraw THEN Paint(s) ELSE AdjustOrigin(s)

\* The top lines become scrollback.
TakeIn(s, gain) ==
  SetupScrollBar([s EXCEPT !.off = @ + gain, !.start = s.off + gain,
                           !.used = s.off + gain + s.rows])

ShiftLines(s, t, b, n, whole) ==
  IF n < 0 THEN ScrollUp(s, t, b, -n, whole) ELSE IF n > 0 THEN ScrollDown(s, t, b, n) ELSE s

Carry(s, n) == [s EXCEPT !.carried = @ \/ (n # 0 /\ s.markStart # -1)]

ShowScroll(s, t, b, rows, n, total) ==
  IF total \/ ~session.scrolls THEN Paint(Invalidate(s))
  ELSE InvalidateRows(ScrollWindow(s, t, b, rows), IF n < 0 THEN b + n ELSE t,
                      IF n < 0 THEN b ELSE t - n)

\* t and b count from 0 here.
_ScrollRows(s, t, b, rows, redraw) ==
  LET n == Clamp(rows, -(b - t + 1), b - t + 1)
      whole == t = 0 /\ b = s.rows - 1 /\ n < 0
      gain == IF whole THEN MinOf(BufferLines - s.off - s.rows, -n) ELSE 0
      begun(r) == IF whole THEN TakeIn(r, gain) ELSE r
      moved(r) == SetupScrollBar(ShiftLines(Carry(r, n + gain), t, b, n + gain, whole))
      shown(r) == IF redraw THEN ShowScroll(r, t, b, rows, n, s.off # s.start) ELSE r
  IN shown(moved(begun(BeginScroll(s, redraw))))

ScrollRows(s, top, bottom, rows, redraw) == _ScrollRows(s, top - 1, bottom - 1, rows, redraw)

\* A slip: the line of the cursor is not taken back.
ScrollCheckOnly(s, total) ==
  IF s.line < s.rows THEN s ELSE _ScrollRows(s, 0, s.rows - 1, -1, ~total)

ScrollCheck(s, total) ==
  IF s.line < s.rows THEN s
  ELSE _ScrollRows([s EXCEPT !.line = @ - 1], 0, s.rows - 1, -1, ~total)

-----------------------------------------------------------------------------
(* Erasing, inserting and deleting *)

UnmarkCheck(s, a, len) ==
  IF s.markStart = -1 \/ a >= s.markEnd \/ a + len <= s.markStart THEN s
  ELSE Invalidate(Unmarked(s))

ClearLineFromCursor(s) ==
  IF BufferColumns = s.col THEN s
  ELSE InvalidateRows(Fill(s, Cursor(s), BufferColumns - s.col, Blank), s.line, s.line)

ClearLineToCursor(s) ==
  InvalidateRows(Fill(s, Addr(s.off + s.line, 0), s.col + 1, Blank), s.line, s.line)

ClearScreenFromCursor(s) ==
  LET a == Cursor(s) IN
  InvalidateRows(Fill(UnmarkCheck(s, a, Size - a), a, Size - a, Blank), s.line, s.rows)

\* A slip: from the first line shown, not from the first of the screen.
ClearViewToCursor(s) ==
  LET a == Addr(s.start, 0)  len == Cursor(s) - a + 1 IN
  InvalidateRows(Fill(UnmarkCheck(s, a, len), a, len, Blank), 0, s.line)

ClearScreenToCursor(s) ==
  LET a == Addr(s.off, 0)  len == Cursor(s) - a + 1 IN
  InvalidateRows(Fill(UnmarkCheck(s, a, len), a, len, Blank), 0, s.line)

ClearScreen(s) ==
  LET a == Addr(s.off, 0) IN
  Invalidate(Fill(UnmarkCheck(s, a, Size - a), a, Size - a, Blank))

\* To the end of the buffer, like the others
FillWithE(s) ==
  LET a == Addr(s.off, 0) IN Invalidate(Fill(s, a, Size - a, [ch |-> "E", at |-> {}]))

DeleteChars(s, num) ==
  LET a == Cursor(s)  z == Addr(s.off + s.line, s.cols)  n == MinOf(num, z - a)
      m == [s EXCEPT !.mem = Moved(@, a, a + n, z - a - n)]
  IN InvalidateRows(Fill(m, z - n, n, Blank), s.line, s.line)

InsertChars(s, num) ==
  LET a == Cursor(s)  z == Addr(s.off + s.line, s.cols)  n == MinOf(num, z - a)
      m == [s EXCEPT !.mem = Moved(@, a + n, a, z - a - n)]
  IN InvalidateRows(Fill(m, a, n, Blank), s.line, s.line)

\* from and last count from 1; from is the cursor's line.
DeleteLines(s, from, last, num) ==
  LET a == Addr(s.off + from - 1, 0)  z == Addr(s.off + last, 0)
      n == MinOf(num, last + 1 - from) * BufferColumns
      m == [s EXCEPT !.mem = Moved(@, a, a + n, z - a - n)]
  IN InvalidateRows(Fill(m, z - n, n, Blank), from - 1, last)

InsertLines(s, from, last, num) ==
  LET a == Addr(s.off + from - 1, 0)  z == Addr(s.off + last, 0)
      n == MinOf(num, last + 1 - from) * BufferColumns
      m == [s EXCEPT !.mem = Moved(@, a + n, a, z - a - n)]
  IN InvalidateRows(Fill(m, a, n, Blank), from - 1, last)

-----------------------------------------------------------------------------
(* The cursor *)

CheckAndUpdateCursor(s) ==
  LET line == Clamp(s.line, 0, s.rows - 1) IN
  [s EXCEPT !.line = line, !.col = Clamp(@, 0, s.cols - 1), !.used = MaxOf(@, s.off + line + 1)]

MoveCursor(s, drow, dcol) ==
  CheckAndUpdateCursor([s EXCEPT !.line = @ + drow, !.col = @ + dcol])

PlaceCursor(s, row, col) == CheckAndUpdateCursor([s EXCEPT !.line = row - 1, !.col = col - 1])

\* marginLeft and marginRight are 1, always.
ConvVT100Coord(s, row, col) ==
  IF s.origin THEN <<MinOf(row + s.top - 1, s.bottom), MinOf(col, 1)>> ELSE <<row, col>>

Place(s, row, col) == LET p == ConvVT100Coord(s, row, col) IN PlaceCursor(s, p[1], p[2])

-----------------------------------------------------------------------------
(* Text *)

NextTab(s) ==
  LET stops == {z \in (s.col + 1)..(s.cols - 1) : z \in s.tabs}
  IN IF stops = {} THEN MaxOf(s.cols, s.col + 1) ELSE CHOOSE z \in stops : \A y \in stops : z <= y

LineFeed(s, total) ==
  IF s.line + 1 = s.bottom
  THEN ClearLineFromCursor(ScrollRows(s, s.top, s.bottom, -1, ~total))
  ELSE LET t == [InvalidateRows(s, s.line, s.line) EXCEPT !.line = @ + 1]
       IN ScrollCheck(SetupScrollBar(t), total)

Wrap(s, total) ==
  IF s.col >= s.cols /\ s.wrap
  THEN ScrollCheck([InvalidateRows(s, s.line, s.line) EXCEPT !.line = @ + 1, !.col = 0], total)
  ELSE s

MakeRoom(s) == IF s.insert THEN InsertChars(s, 1) ELSE s

Put(s, c) ==
  [s EXCEPT !.mem = Filled(@, Cursor(s), 1, [ch |-> c, at |-> s.at \cup {WRITTEN}]),
            !.col = @ + 1, !.stray = @ \/ s.col < 0]

PutIn(s, c) ==
  IF s.col >= s.cols THEN s
  ELSE Put(MakeRoom(UnmarkCheck(s, Addr(s.line + s.start, s.col), 1)), c)

Letter(s, c, total) == ScrollCheck(PutIn(Wrap(s, total), c), total)

Char(s, c, total) ==
  CASE c = LF -> LineFeed(s, total)
    [] c = CR -> ScrollCheck([s EXCEPT !.col = 0], total)
    [] c = BS -> ScrollCheck([s EXCEPT !.col = @ - 1], total)
    [] c = HT -> ScrollCheck([s EXCEPT !.col = NextTab(s), !.stray = @ \/ NextTab(s) > s.cols], total)
    [] c = BEL -> s
    [] OTHER -> Letter(s, c, total)

NormalChars(s, text) ==
  LET total == s.off # s.start
      put(t, c) == Char(t, c, total)
      shown(t) == IF total THEN Invalidate(t) ELSE InvalidateRows(t, s.line, t.line)
  IN shown(FoldLeft(put, AdjustOrigin(s), text))

-----------------------------------------------------------------------------
(* The marked area *)

\* A slip: what was marked before is not painted again.
UpdateMarkOnly(s) ==
  LET top == MinOf(s.area.top, s.area.bottom)  bottom == MaxOf(s.area.top, s.area.bottom)
      a == [s.area EXCEPT !.left = MaxOf(@, 0), !.right = MinOf(@, s.cols)]
      x == Addr(a.top, a.left)  y == Addr(a.bottom, a.right)
  IN [InvalidateRowsBuf(s, top, bottom) EXCEPT
        !.area = a, !.markTop = top, !.markBottom = bottom,
        !.markStart = MaxOf(MinOf(x, y), 0), !.markEnd = MinOf(MaxOf(x, y), Size)]

\* Normalized, top and bottom
UpdateMark(s) ==
  LET top == MinOf(s.area.top, s.area.bottom)  bottom == MaxOf(s.area.top, s.area.bottom)
      a == [s.area EXCEPT !.left = MaxOf(@, 0), !.right = MinOf(@, s.cols)]
      x == Addr(a.top, a.left)  y == Addr(a.bottom, a.right)
      t == InvalidateRowsBuf(s, MinOf(top, s.markTop), MaxOf(bottom, s.markBottom))
  IN [t EXCEPT !.area = a, !.markTop = top, !.markBottom = bottom,
               !.markStart = MaxOf(MinOf(x, y), 0), !.markEnd = MinOf(MaxOf(x, y), Size)]

LastWritten(s, row) ==
  LET W == {c \in 0..(s.cols - 1) : WRITTEN \in s.mem[Addr(row, c)].at}
  IN IF W = {} THEN -1 ELSE CHOOSE c \in W : \A d \in W : d <= c

CRLF == "CRLF"

\* _EditCopy, from row and column on
Copy(s) ==
  LET f[p \in (0..BufferLines) \X (0..BufferColumns)] ==
        LET row == p[1]  col == p[2] IN
        IF Addr(row, col) >= s.markEnd THEN <<>>
        ELSE IF col > LastWritten(s, row)
        THEN (IF s.markEnd >= Addr(row + 1, 0) THEN <<CRLF>> ELSE <<>>) \o f[<<row + 1, 0>>]
        ELSE <<s.mem[Addr(row, col)].ch>> \o f[<<row, col + 1>>]
  IN IF s.markStart >= s.markEnd THEN <<>>
     ELSE f[<<s.markStart \div BufferColumns, s.markStart % BufferColumns>>]

\* The memory asked for
CopySize(s) ==
  (MaxOf(s.markEnd - s.markStart, s.markStart - s.markEnd) \div BufferColumns + 1)
    * (s.cols + 2) + 1

-----------------------------------------------------------------------------
(* Control sequences *)

Index(s, n) ==
  IF s.line + 1 = s.bottom THEN ClearLineFromCursor(ScrollRows(s, s.top, s.bottom, -n, TRUE))
  ELSE MoveCursor(s, 1, 0)

ReverseIndex(s, n) ==
  IF s.line + 1 = s.top THEN ClearLineFromCursor(ScrollRows(s, s.top, s.bottom, n, TRUE))
  ELSE MoveCursor(s, -1, 0)

\* A region that is empty or turned round becomes one line or is turned back.
SetRegion(s, t, b) ==
  LET r == [s EXCEPT !.top = MaxOf(MinOf(t, b), 1), !.bottom = MinOf(MaxOf(t, b), s.rows)]
  IN Place(r, 1, 1)

Reset(s) ==
  LET r == [s EXCEPT !.origin = FALSE, !.insert = FALSE, !.wrap = session.wrap, !.top = 1,
                     !.bottom = s.rows, !.saved = [row |-> 1, col |-> 1, at |-> {}], !.at = {}]
  IN Invalidate(CheckAndUpdateCursor(r))

SaveCursor(s) == [s EXCEPT !.saved = [row |-> s.line + 1, col |-> s.col + 1, at |-> s.at]]

\* SetAttribute only adds.
RestoreCursor(s) ==
  [PlaceCursor(s, s.saved.row, s.saved.col) EXCEPT !.at = @ \cup s.saved.at]

-----------------------------------------------------------------------------
(* The window's own calls *)

SetOrigin(s, line) ==
  LET l == MinOf(MaxOf(MinOf(line, s.used - s.rows), 0), BufferLines - s.rows) IN
  IF l = s.start THEN s ELSE Invalidate([s EXCEPT !.start = l])

Redrawn(s) == Paint(Invalidate([s EXCEPT !.painted = [r \in Row(s) |-> <<>>]]))

\* UpdateWindowSize: a region that was the whole window stays that.
UpdateRegion(s, old) == [s EXCEPT !.bottom = IF s.top = 1 /\ @ = old THEN s.rows ELSE @]

SetWindowSize(s, rows, cols) ==
  LET off == MaxOf(s.used - rows, 0)
      t == [s EXCEPT !.off = off, !.line = @ + s.off - off, !.rows = rows, !.cols = cols,
                     !.start = off]
  IN UpdateRegion(Redrawn(SetupScrollBar(t)), s.rows)

\* EvLButtonDown without shift
Press(s, r, c) ==
  LET y == r + s.start IN
  UpdateMark([s EXCEPT !.area = [left |-> c, right |-> c, top |-> y, bottom |-> y]])

\* EvMouseMove: outside of the window, it scrolls first.
Drag(s, r, c) ==
  LET to(t) == UpdateMark([t EXCEPT !.area.bottom = r + t.start, !.area.right = c])
  IN to(CASE r < 0 -> SetOrigin(s, s.start - 1)
          [] r > s.rows -> SetOrigin(s, s.start + 1)
          [] OTHER -> s)

MarkAll(s) ==
  UpdateMark([s EXCEPT !.area = [left |-> 0, top |-> 0, right |-> s.cols - 1,
                                 bottom |-> s.used - 1]])

-----------------------------------------------------------------------------
(* The program *)

\* A terminal on which some lines have been printed
Fresh(ss) ==
  [mem |-> [x \in 0..(Size - 1) |-> Blank], down |-> FALSE, off |-> 0, start |-> 0, used |-> 1,
   rows |-> ss.rows, cols |-> ss.cols, line |-> 0, col |-> 0, at |-> {},
   tabs |-> {c \in 0..(BufferColumns - 1) : c % 8 = 0}, top |-> 1, bottom |-> ss.rows,
   origin |-> FALSE, insert |-> FALSE, wrap |-> ss.wrap,
   saved |-> [row |-> 1, col |-> 1, at |-> {}],
   area |-> [left |-> 0, top |-> 0, right |-> 0, bottom |-> 0],
   markStart |-> -1, markEnd |-> -1, markTop |-> 0, markBottom |-> 0,
   painted |-> [r \in 0..(ss.rows - 1) |-> <<>>], dirty |-> {}, carried |-> FALSE,
   stray |-> FALSE]

Line == <<"a", CR, LF>>

Init ==
  /\ session \in Session
  /\ steps = 0
  /\ scr = Paint(Invalidate(NormalChars(Fresh(session),
                                         FlattenSeq([i \in 1..session.first |-> Line]))))

Comes(op) == op \in session.ops /\ steps < MaxSteps /\ ~scr.down

Leads(s) == scr' = s /\ steps' = steps + 1 /\ UNCHANGED session

Text ==
  /\ steps < MaxSteps /\ ~scr.down
  /\ \E text \in session.texts : Leads(NormalChars(scr, text))

IndexSeq == Comes("IND") /\ \E n \in session.nums : n > 0 /\ Leads(Index(scr, n))

ReverseIndexSeq == Comes("RI") /\ \E n \in session.nums : n > 0 /\ Leads(ReverseIndex(scr, n))

NextLine == Comes("NEL") /\ Leads(NormalChars(scr, <<CR, LF>>))

\* GetCursorColumn counts from 1, as set_tab does.
TabSeq ==
  \/ Comes("HTS") /\ Leads([scr EXCEPT !.tabs = @ \cup {scr.col}])
  \/ Comes("TBC") /\ Leads([scr EXCEPT !.tabs = @ \ {scr.col}])
  \/ Comes("TBC") /\ Leads([scr EXCEPT !.tabs = {}])

SaveSeq == Comes("DECSC") /\ Leads(SaveCursor(scr))

RestoreSeq == Comes("DECSC") /\ Leads(RestoreCursor(scr))

\* No argument, and the argument 0, mean 1.
MoveSeq ==
  \E n \in {1} \cup (session.nums \ {0}) :
     \/ Comes("CUU") /\ Leads(MoveCursor(scr, -n, 0))
     \/ Comes("CUD") /\ Leads(MoveCursor(scr, n, 0))
     \/ Comes("CUF") /\ Leads(MoveCursor(scr, 0, n))
     \/ Comes("CUB") /\ Leads(MoveCursor(scr, 0, -n))

PlaceSeq ==
  /\ Comes("CUP")
  /\ \E r, c \in session.nums : Leads(Place(scr, MaxOf(r, 1), MaxOf(c, 1)))

AttributeSeq ==
  \/ Comes("SGR") /\ Leads([scr EXCEPT !.at = @ \cup {REVERSE}])
  \/ Comes("SGR") /\ Leads([scr EXCEPT !.at = {}])

EditSeq ==
  \E n \in {1} \cup (session.nums \ {0}) :
     \/ Comes("DCH") /\ Leads(DeleteChars(scr, n))
     \/ Comes("ICH") /\ Leads(InsertChars(scr, n))
     \/ Comes("IL") /\ Leads(InsertLines(scr, scr.line + 1, scr.bottom, n))
     \/ Comes("DL") /\ Leads(DeleteLines(scr, scr.line + 1, scr.bottom, n))

EraseSeq ==
  \/ Comes("ED") /\ Leads(ClearScreenFromCursor(scr))
  \/ Comes("ED") /\ Leads(ClearScreenToCursor(scr))
  \/ Comes("ED") /\ Leads(ClearScreen(scr))
  \/ Comes("EL") /\ Leads(ClearLineFromCursor(scr))
  \/ Comes("EL") /\ Leads(ClearLineToCursor(scr))
  \/ Comes("EL") /\ Leads(ClearLineFromCursor(ClearLineToCursor(scr)))

RegionSeq == Comes("STBM") /\ \E t, b \in session.nums : Leads(SetRegion(scr, t, b))

ModeSeq ==
  \E on \in BOOLEAN :
     \/ Comes("DECOM") /\ Leads([scr EXCEPT !.origin = on])
     \/ Comes("DECAWM") /\ Leads([scr EXCEPT !.wrap = on])
     \/ Comes("IRM") /\ Leads([scr EXCEPT !.insert = on])

FillSeq == Comes("DECALN") /\ Leads(FillWithE(scr))

ResetSeq == Comes("RIS") /\ Leads(Reset(scr))

Scroll ==
  /\ Comes("scroll")
  /\ \E l \in {scr.start - 1, scr.start + 1, scr.start + scr.rows - 2,
               scr.start - scr.rows + 2} \cup (0..(BufferLines - 1)) : Leads(SetOrigin(scr, l))

Resize ==
  /\ steps < MaxSteps /\ ~scr.down
  /\ \E z \in session.sizes : z # <<scr.rows, scr.cols>> /\ Leads(SetWindowSize(scr, z[1], z[2]))

\* The client area may hold part of one row more than the screen.
Mouse ==
  \E r \in -1..(scr.rows + 1), c \in 0..scr.cols :
     \/ Comes("mark") /\ r \in 0..scr.rows /\ Leads(Press(scr, r, c))
     \/ Comes("mark") /\ Leads(Drag(scr, r, c))

MarkAllCommand == Comes("mark") /\ Leads(MarkAll(scr))

\* The window gets around to it.
WindowPaint ==
  /\ scr.dirty # {} /\ ~scr.down
  /\ scr' = Paint(scr) /\ UNCHANGED <<session, steps>>

Done == (steps = MaxSteps \/ scr.down) /\ UNCHANGED vars

Next ==
  \/ Text \/ IndexSeq \/ ReverseIndexSeq \/ NextLine \/ TabSeq \/ SaveSeq \/ RestoreSeq
  \/ MoveSeq \/ PlaceSeq \/ AttributeSeq \/ EditSeq \/ EraseSeq \/ RegionSeq \/ ModeSeq
  \/ FillSeq \/ ResetSeq \/ Scroll \/ Resize \/ Mouse \/ MarkAllCommand \/ WindowPaint \/ Done

Spec == Init /\ [][Next]_vars

-----------------------------------------------------------------------------
(* Properties *)

\* What the window shows and will not paint again is what the buffer and the
\* marked area say: every call that changes them has invalidated, or moved by
\* ScrollWindow, all that it changed.  A region scrolled under a marked area
\* takes the highlight along until the next full painting, and a letter written
\* left of the first column goes into the row above unseen.
Painted ==
  (~scr.down /\ ~scr.carried /\ ~scr.stray) =>
     \A r \in Row(scr) \ scr.dirty : scr.painted[r] = View(scr, r)

BufferRow(s, row) == [c \in 0..(BufferColumns - 1) |-> s.mem[Addr(row, c)].ch]

\* A line in the scrollback is never changed, whatever the host sends; the oldest
\* lines alone go, and only when the buffer is full.  (Resizing can leave the
\* cursor above the screen; it is not on it then.)
ScrollbackKept ==
  [][(scr.line >= 0 /\ ~scr'.stray /\ ~scr'.down) =>
       \E k \in 0..BufferLines :
          /\ k > 0 => scr'.off + scr'.rows = BufferLines
          /\ \A row \in k..(scr.off - 1) : BufferRow(scr', row - k) = BufferRow(scr, row)]_vars

\* In a window of fixed size the cursor stays on the screen, at most one column
\* to the right of it, and the screen inside the buffer; no length comes out
\* negative but for a cursor that a tab took beyond the last column, or one two
\* lines below the region in which lines are inserted or deleted.
CursorOnScreen ==
  (session.sizes = {} /\ ~scr.stray) =>
     /\ scr.down => scr.line > scr.bottom
     /\ scr.line \in 0..(scr.rows - 1) /\ scr.col <= scr.cols
     /\ scr.off + scr.rows <= BufferLines /\ scr.used <= BufferLines
     /\ scr.start \in 0..(BufferLines - scr.rows)

IsMarked == scr.markStart # -1 /\ scr.markStart # scr.markEnd

\* What is copied to the clipboard is what is highlighted, in its order, and
\* fits the memory asked for.
CopyIsHighlighted ==
  (IsMarked /\ ~scr.stray) =>
     LET lit(x) == /\ x % BufferColumns < scr.cols
                   /\ Marked(scr, x \div BufferColumns, x % BufferColumns)
         copy == Copy(scr)
         cells == SelectSeq([i \in 1..Size |-> i - 1], lit)
     IN /\ SelectSeq(copy, LAMBDA c : c # CRLF) = [i \in DOMAIN cells |-> scr.mem[cells[i]].ch]
        /\ Len(copy) + Len(SelectSeq(copy, LAMBDA c : c = CRLF)) < CopySize(scr)

\* What the window shows is what is held, and what is copied, and the cursor
\* and the lines stay inside the buffer whatever the host sends.
ShownIsHeld == Painted /\ CopyIsHighlighted /\ CursorOnScreen
=============================================================================
