------------------------- MODULE MCBufferedStream -------------------------
(***************************************************************************)
(* A terminal window: the stream it reads from, the screen it shows, and    *)
(* the profile that tells what its keys do.  Chunks of 2 bytes, up to 5     *)
(* bytes: three chunks, blocks that end inside, at the end of, and beyond a *)
(* chunk.  Small screens and what may come on each.  Two keys, two          *)
(* combinations of shift keys, one table of two characters.                 *)
(***************************************************************************)
EXTENDS BufferedStream

CONSTANTS BufferLines, BufferColumns, MaxMoves, ScreenSession
CONSTANTS Name, Key, Shift, Cmd, TableChar, Dir, EditBuf, ExportBuf, MaxSteps, Nothing, ProfileSession

VARIABLES grain
VARIABLES screening, moves, scr

svars == <<screening, moves, scr>>

VARIABLES km, registry, sheet, posted, used, stray, meant, profiling, steps

pvars == <<km, registry, sheet, posted, used, stray, meant, profiling, steps>>

C == INSTANCE Screen WITH session <- screening, steps <- moves, Session <- ScreenSession, MaxSteps <- MaxMoves

P == INSTANCE Profile WITH session <- profiling, Session <- ProfileSession, None <- Nothing, Char <- TableChar

\* The same without their sessions, for what the sessions are made of
OnScreen == INSTANCE Screen WITH session <- screening, steps <- moves, Session <- {}, MaxSteps <- MaxMoves

InProfile == INSTANCE Profile WITH session <- profiling, Session <- {}, None <- Nothing, Char <- TableChar

ASSUME ScreenAssumption == C!ScreenAssumption
ASSUME ProfileAssumption == P!ProfileAssumption

\* The ftp client only moves forward in the stream;
\* the terminal emulation goes back to its mark when the sequence it was
\* reading has not arrived as a whole.
AllUsers == {CallNames \ {"RestoreToMark"}, CallNames}

-----------------------------------------------------------------------------
(* Screens *)

Still == [first |-> 0, rows |-> 2, cols |-> 2, wrap |-> TRUE, texts |-> {}, ops |-> {},
         nums |-> {}, sizes |-> {}, scrolls |-> TRUE]

\* Text that wraps and scrolls, with the window scrolled back and a mark set
Scrolling ==
  [Still EXCEPT !.first = 1, !.texts = {<<"b">>, <<"c", "c", OnScreen!CR, OnScreen!LF>>, <<"d", OnScreen!BS, OnScreen!HT, OnScreen!BEL, OnScreen!LF>>},
               !.ops = {"scroll", "mark", "IND"}, !.nums = {1, 2}]

\* A region in a screen of three rows
Region ==
  [Still EXCEPT !.rows = 3, !.first = 3, !.texts = {<<"b", OnScreen!LF, "c">>},
               !.ops = {"STBM", "RI", "IND", "IL", "DL", "CUP", "DECOM", "DECSC"},
               !.nums = {0, 1, 2, 3}]

\* Editing in the line, with and without the insert mode
Editing ==
  [Still EXCEPT !.first = 2, !.texts = {<<"b">>, <<"c", "d", "e">>},
               !.ops = {"DCH", "ICH", "IRM", "EL", "ED", "mark"},
               !.nums = {2}]

Moving ==
  [Still EXCEPT !.first = 1, !.wrap = FALSE, !.texts = {<<"b", "c", "d">>, <<OnScreen!BS, "b">>, <<OnScreen!HT, "e", OnScreen!LF>>},
               !.ops = {"CUU", "CUD", "CUF", "CUB", "CUP", "DECSC", "SGR", "RIS", "DECALN", "DECAWM",
                        "HTS", "TBC", "NEL"},
               !.nums = {0, 2}, !.scrolls = FALSE]

\* A window that changes its size
Resized ==
  [Still EXCEPT !.first = 2, !.texts = {<<"b", "c", "d">>, <<"c", OnScreen!CR, OnScreen!LF>>},
               !.ops = {"ED", "CUP", "STBM", "IND", "scroll"}, !.nums = {1, 2},
               !.sizes = {<<1, 2>>, <<2, 2>>, <<3, 1>>}]

ScreenSessions == {Still, Scrolling, Region, Editing, Moving, Resized}

-----------------------------------------------------------------------------
(* Profiles *)

Bare == [keys |-> <<>>, tr |-> [d \in Dir |-> InProfile!NoTable], text |-> ""]

Key1(s, op) == [key |-> 1, shift |-> s, op |-> op]
Key2(s, op) == [key |-> 2, shift |-> s, op |-> op]

Digit == <<55>>
Long == <<92, 48, 51, 51, 55, 56, 57, 65, 66, 67, 68, 69>>  \* too long for the export
Bound == [Bare EXCEPT !.keys = <<Key1(1, InProfile!Send(Digit)), Key2(0, InProfile!Command(500))>>]
Other == [Bare EXCEPT !.keys = <<Key1(0, InProfile!Send(<<7>>)), Key1(1, InProfile!Command(500))>>]
Translated == [Bare EXCEPT !.tr = [d \in Dir |-> [win |-> FALSE, tab |-> [c \in TableChar |-> 0]]], !.text = "t"]

Defaults == <<Key1(1, InProfile!Send(<<0>>)), Key2(1, InProfile!Command(500))>>

Untouched == [may |-> {"sheet"}, ops |-> {"send", "windows"}, typed |-> {Digit}, registry |-> [n \in Name |-> IF n = InProfile!Default THEN Bound ELSE Nothing],
         others |-> {}, files |-> {}, defaults |-> Defaults]

Keys == [Untouched EXCEPT !.may = {"sheet", "keys", "track"}, !.ops = {"send", "windows", "command"},
         !.typed = {<<92, 97>>, <<92, 48, 49, 55, 55>>, <<32, 92, 92>>, Long}]

Profiles == [Untouched EXCEPT !.may = {"sheet", "keys", "profiles"}, !.registry["p"] = Other]
Texts == [Untouched EXCEPT !.may = {"sheet", "text", "profiles"}, !.registry["p"] = Translated]
Tables == [Untouched EXCEPT !.may = {"sheet", "tables", "text", "profiles"}, !.registry["p"] = Translated]
Others == [Untouched EXCEPT !.may = {"sheet", "keys", "other", "press"}, !.others = {Other, Bound}]
Window == [Untouched EXCEPT !.may = {"import", "default", "open", "start", "press", "other"}, !.registry["p"] = Other,
            !.others = {Translated},
            !.files = {<<InProfile!KeyLine(1, 0, "dead", <<>>), InProfile!KeyLine(1, 1, Nothing, <<>>), InProfile!TrLine("trInput", 0, 1)>>,
                       <<InProfile!KeyLine(2, 0, Nothing, <<92, 49, 50>>), InProfile!BadLine, InProfile!TextLine("t")>>,
                       <<InProfile!TextLine("t"), InProfile!KeyLine(2, 1, "command", <<999>>)>>}]

ProfileSessions == {Untouched, Keys, Profiles, Texts, Tables, Others, Window}

-----------------------------------------------------------------------------

MCInit ==
  /\ Init /\ C!Init /\ P!Init
  /\ \/ grain = "stream" /\ screening = Still /\ profiling = Untouched
     \/ grain = "screen" /\ calls = CallNames /\ screening # Still /\ profiling = Untouched
     \/ grain = "profile" /\ calls = CallNames /\ screening = Still /\ profiling # Untouched

MCNext ==
  \/ grain = "stream" /\ Next /\ UNCHANGED <<grain, svars, pvars>>
  \/ grain = "screen" /\ C!Next /\ UNCHANGED <<grain, vars, pvars>>
  \/ grain = "profile" /\ P!Next /\ UNCHANGED <<grain, vars, svars>>

MCSpec == MCInit /\ [][MCNext]_<<grain, vars, svars, pvars>>

-----------------------------------------------------------------------------
(* The properties of the screen and of the profile, under their names, each  *)
(* where it is its turn: what does not move is as it was at the beginning     *)

ShownIsHeld == grain = "screen" => C!ShownIsHeld
ScrollbackKept == C!ScrollbackKept
NothingFreedIsUsed == grain = "profile" => P!NothingFreedIsUsed
CopiesAgree == grain = "profile" => P!CopiesAgree
SavedIsMeant == P!SavedIsMeant
=============================================================================
