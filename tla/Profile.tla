------------------------------ MODULE Profile -------------------------------
(***************************************************************************)
(* Profiles: what the keys do and how characters are translated, as a       *)
(* window has it in memory, as the registry and an exported file have it,   *)
(* and as the property sheet shows and changes it.  Another window may save *)
(* at any time; its broadcast is handled before anything that is posted.    *)
(***************************************************************************)
EXTENDS Integers, Sequences, SequencesExt, FiniteSets

CONSTANTS
  Name,      \* of profiles, one of them "Default"
  Key,       \* virtual key codes
  Shift,     \* combinations of Ctrl, Shift and Alt, 0 for none
  Cmd,       \* commands that have a name
  Char,      \* the characters that are translated
  Dir,       \* trInput, trOutput
  EditBuf, ExportBuf,  \* the buffers of the edit box and of the exported line
  MaxSteps,  \* bound: actions of the user
  None,      \* nothing: a value of its own
  Session

Default == "Default"
Windows == [op |-> "windows", arg |-> <<>>]
Dead    == [op |-> "dead", arg |-> <<>>]
Command(c) == [op |-> "command", arg |-> <<c>>]
Send(s)    == [op |-> "send", arg |-> s]

\* may: the actions of the user.  typed: texts for a key.  keys: key and shift
\* combinations used, ops: the operations.  registry: what is stored at first,
\* others: what another window may store.  files: to import, defaults: the
\* calls LoadDefaultKeyMap makes.
ProfileAssumption ==
  /\ Default \in Name /\ 0 \in Shift /\ Shift \subseteq Nat /\ Char \subseteq Nat /\ Key \subseteq Nat
  /\ EditBuf \in Nat /\ ExportBuf \in Nat /\ MaxSteps \in Nat
  /\ \A s \in Session :
       /\ DOMAIN s = {"may", "ops", "typed", "registry", "others", "files", "defaults"}
       /\ \A t \in s.typed : Len(t) < EditBuf

VARIABLES
  km,        \* the profile in memory
  registry,  \* what is stored for each name, None for a name that is not there
  sheet,     \* the open property sheet, or None
  posted,    \* the string a key has posted, with the descriptor it points into
  used,      \* what freed memory was used for
  stray,     \* the two patterns that lead to such uses, as far as they were met
  meant,     \* what the user sees: the bindings, the tables and the text
  session, steps

vars == <<km, registry, sheet, posted, used, stray, meant, session, steps>>

-----------------------------------------------------------------------------
(* Strings of a key, as they are sent and as they are written *)

Back == 92
Letter == [c \in {7, 8, 9, 10, 13, 27} |->
             CASE c = 7 -> 97 [] c = 8 -> 98 [] c = 9 -> 116 [] c = 10 -> 110 [] c = 13 -> 114 [] c = 27 -> 101]
Letters == {Letter[c] : c \in DOMAIN Letter}
Octal0 == 48
Octal == Octal0..(Octal0 + 7)

\* A slip: digits are written without the leading ones.
WrittenShort(c, first) ==
  IF c \in DOMAIN Letter THEN <<Back, Letter[c]>>
  ELSE IF c < 8 THEN <<Back, Octal0 + c>>
  ELSE IF c < 32 \/ c % 128 = 127 THEN <<Back, Octal0 + (c \div 8), Octal0 + (c % 8)>>
  ELSE <<c>>

Written(c, first) ==
  IF c \in DOMAIN Letter THEN <<Back, Letter[c]>>
  ELSE IF c < 32 \/ c % 128 = 127 \/ (c = 32 /\ first)
    THEN <<Back, Octal0 + ((c \div 64) % 8), Octal0 + ((c \div 8) % 8), Octal0 + (c % 8)>>
    ELSE <<c>>

\* A backslash is not written twice.  What begins in the last five places of
\* the buffer is not written at all.
GetSendString(s, bufSize, firstSpace) ==
  FoldLeftDomain(LAMBDA buf, i : IF Len(buf) < bufSize - 5 THEN buf \o Written(s[i], firstSpace /\ i = 1) ELSE buf,
                 <<>>, s)

\* After one or two octal digits the next character is taken as it is.
SetSendString(t) ==
  LET at(i) == IF i <= Len(t) THEN t[i] ELSE 0
      one(i) == IF at(i) = 0 THEN <<>> ELSE <<at(i)>>
      f[i \in 1..(Len(t) + 5)] ==
        IF i > Len(t) THEN <<>>
        ELSE IF t[i] # Back THEN <<t[i]>> \o f[i + 1]
        ELSE IF at(i + 1) \in Letters THEN <<CHOOSE c \in DOMAIN Letter : Letter[c] = t[i + 1]>> \o f[i + 2]
        ELSE IF at(i + 1) \notin Octal THEN one(i + 1) \o f[i + 2]
        ELSE IF at(i + 2) \notin Octal THEN <<t[i + 1] - Octal0>> \o one(i + 2) \o f[i + 3]
        ELSE IF at(i + 3) \notin Octal
          THEN <<(t[i + 1] - Octal0) * 8 + t[i + 2] - Octal0>> \o one(i + 3) \o f[i + 4]
        ELSE <<((t[i + 1] - Octal0) * 64 + (t[i + 2] - Octal0) * 8 + t[i + 3] - Octal0) % 256>> \o f[i + 4]
  IN f[1]

-----------------------------------------------------------------------------
(* A profile *)

Identity == [c \in Char |-> c]
NoTable == [win |-> FALSE, tab |-> None]

\* Where a list of descriptors has shift, counted from its end, 0 for nowhere:
\* new descriptors are put in front.
Find(list, shift) ==
  LET at == {i \in 1..Len(list) : list[i].shift = shift}
  IN IF at = {} THEN 0 ELSE Len(list) + 1 - (CHOOSE i \in at : \A j \in at : i <= j)

Index(list, pos) == Len(list) + 1 - pos

Descriptor(shift, op) == [shift |-> shift, op |-> op.op, arg |-> op.arg]

Operation(kd) == [op |-> kd.op, arg |-> kd.arg]

NewDescriptor(p, k, shift, op) == [p EXCEPT !.keys[k] = <<Descriptor(shift, op)>> \o @]

Update(p, k, pos, op) ==
  [p EXCEPT !.keys[k][Index(p.keys[k], pos)] = [@ EXCEPT !.op = op.op, !.arg = op.arg]]

_AddSingleKeyMap(p, k, shift, op) ==
  LET pos == Find(p.keys[k], shift)
  IN IF pos = 0 THEN NewDescriptor(p, k, shift, op) ELSE Update(p, k, pos, op)

\* The tables go, the flags of the tables, the name and the text stay.
Clear(p) == [p EXCEPT !.keys = [k \in Key |-> <<>>], !.tr = [d \in Dir |-> [@[d] EXCEPT !.tab = None]]]

SetupTranslation(p, d, win) ==
  [p EXCEPT !.tr[d] = IF win THEN [win |-> TRUE, tab |-> None] ELSE [win |-> FALSE, tab |-> Identity]]

\* What a key does, and what happens to a character.
Does(p, k, shift) ==
  LET pos == Find(p.keys[k], shift)
  IN IF pos = 0 THEN Windows ELSE Operation(p.keys[k][Index(p.keys[k], pos)])

TranslateChars(p, d) ==
  [p.tr[d] EXCEPT !.tab = IF @ = None THEN Identity ELSE @]

Effect(p) == [keys |-> [x \in Key \X Shift |-> Does(p, x[1], x[2])],
              tr   |-> [d \in Dir |-> TranslateChars(p, d)], text |-> p.text]

Doubled(p) == \E k \in Key : \E i, j \in 1..Len(p.keys[k]) : i # j /\ p.keys[k][i].shift = p.keys[k][j].shift

-----------------------------------------------------------------------------
(* The registry *)

InOrder(keys) == SetToSortSeq(keys, <)

\* Only commands and strings are saved.
BinSave(k, kd) ==
  IF kd.op \in {"command", "send"} THEN <<[key |-> k, shift |-> kd.shift, op |-> Operation(kd)]>> ELSE <<>>

Saved(p) ==
  [keys |-> FlattenSeq([n \in 1..Cardinality(Key) |-> LET k == InOrder(Key)[n]
                          IN FlattenSeq([i \in 1..Len(p.keys[k]) |-> BinSave(k, p.keys[k][i])])]),
   tr   |-> [d \in Dir |-> IF p.tr[d].tab = Identity THEN NoTable ELSE p.tr[d]],
   text |-> p.text]

LoadKeyMap(p, stored) == FoldLeft(LAMBDA q, e : _AddSingleKeyMap(q, e.key, e.shift, e.op), p, stored.keys)

LoadTranslate(p, stored) == [p EXCEPT !.tr = stored.tr]

\* A profile without a key of its own reads the default's.  Nothing is cleared.
LoadFromRegistry(p, name, reg) ==
  LET stored == reg[IF reg[name] = None THEN Default ELSE name]
  IN [LoadTranslate(LoadKeyMap(p, stored), stored) EXCEPT !.name = name, !.text = stored.text]

SaveInRegistry(p, reg) == [reg EXCEPT ![p.name] = Saved(p)]

Empty(name) == [name |-> name, keys |-> [k \in Key |-> <<>>], tr |-> [d \in Dir |-> NoTable], text |-> ""]

LoadDefaultKeyMap(p) == FoldLeft(LAMBDA q, e : _AddSingleKeyMap(q, e.key, e.shift, e.op), p, session.defaults)

-----------------------------------------------------------------------------
(* Files *)

\* op is None for a line without an operation, text the rest of the line.
KeyLine(k, shift, op, text) == [line |-> "key", key |-> k, shift |-> shift, op |-> op, text |-> text]
TrLine(d, from, to) == [line |-> "tr", dir |-> d, from |-> from, to |-> to]
TextLine(text) == [line |-> "text", text |-> text]
BadLine == [line |-> "bad"]

ExportKeyMap(p) ==
  FlattenSeq([n \in 1..Cardinality(Key) |->
    LET k == InOrder(Key)[n]
    IN [i \in 1..Len(p.keys[k]) |->
          KeyLine(k, p.keys[k][i].shift, p.keys[k][i].op,
                  IF p.keys[k][i].op = "send" THEN GetSendString(p.keys[k][i].arg, ExportBuf, TRUE) ELSE p.keys[k][i].arg)]])

\* Translation by Windows is not written down.
ExportTranslate(p, d) ==
  IF p.tr[d].tab = None THEN <<>>
  ELSE LET t == p.tr[d].tab  cs == InOrder({c \in Char : t[c] # c})
       IN [i \in 1..Len(cs) |-> TrLine(d, cs[i], t[cs[i]])]

Export(p) == <<TextLine(p.text)>> \o ExportKeyMap(p) \o FlattenSeq([i \in 1..Cardinality(Dir) |->
               ExportTranslate(p, SetToSeq(Dir)[i])])

\* acc: the profile, the operation as the lines before left it, and whether a
\* line was wrong.
ImportLine(acc, l) ==
  LET p == acc.p
      op == IF l.op = None THEN acc.op ELSE l.op
      done == CASE op = "send" -> Send(SetSendString(l.text)) [] op = "command" -> [op |-> op, arg |-> l.text]
                [] op = "windows" -> Windows [] op = "dead" -> Dead
  IN CASE acc.wrong -> acc
       [] ~acc.wrong /\ l.line = "bad" -> [acc EXCEPT !.wrong = TRUE]
       [] ~acc.wrong /\ l.line = "text" -> [acc EXCEPT !.p.text = l.text]
       [] ~acc.wrong /\ l.line = "tr" ->
            [acc EXCEPT !.p.tr[l.dir] = [win |-> FALSE,
                                         tab |-> [(IF @.tab = None THEN Identity ELSE @.tab) EXCEPT ![l.from] = l.to]]]
       [] ~acc.wrong /\ l.line = "key" ->
            IF op = "command" /\ (l.text = <<>> \/ Head(l.text) \notin Cmd)
            THEN [acc EXCEPT !.op = op, !.wrong = TRUE]
            ELSE [acc EXCEPT !.op = op, !.p = _AddSingleKeyMap(p, l.key, l.shift, done)]

Imported(p, lines, op) == FoldLeft(ImportLine, [p |-> p, op |-> op, wrong |-> FALSE], lines)
-----------------------------------------------------------------------------
(* The sheet.  st: the profile, the sheet and what freed memory was used     *)
(* for.  kp is the page of the keys: the key and shift boxes that are        *)
(* chosen, the operation that is shown, whether it was changed, and the      *)
(* descriptor it is of: cur, its place, 0 for NULL, and freed.               *)

Changed(kp) == kp.changed \/ (kp.radio = "send" /\ kp.modified)

Chosen(kp) == CASE kp.radio = "windows" -> Windows
                [] kp.radio = "command" -> IF kp.cmd = None THEN Windows ELSE Command(kp.cmd)
                [] kp.radio = "send" -> Send(SetSendString(kp.str))

SaveCurrent(st) ==
  LET kp == st.sheet.kp  k == kp.curKey
  IN CASE kp.cur = 0 -> [st EXCEPT !.km = NewDescriptor(@, k, kp.curShift, Chosen(kp)),
                                   !.sheet.kp.dirty = TRUE, !.sheet.kp.cur = Len(st.km.keys[k]) + 1]
       [] kp.cur # 0 /\ kp.freed -> [st EXCEPT !.used = @ \cup {"key"}, !.sheet.kp.dirty = TRUE]
       [] kp.cur # 0 /\ ~kp.freed -> [st EXCEPT !.km = Update(@, k, kp.cur, Chosen(kp)), !.sheet.kp.dirty = TRUE]

Shown(kp, op) ==
  CASE op.op = "command" -> [kp EXCEPT !.radio = "command", !.cmd = IF op.arg[1] \in Cmd THEN op.arg[1] ELSE None]
    [] op.op = "send" -> [kp EXCEPT !.radio = "send", !.str = GetSendString(op.arg, EditBuf, FALSE)]
    [] OTHER -> [kp EXCEPT !.radio = "windows", !.cmd = None, !.str = <<>>]

\* clear: a key was chosen, so that shift boxes are to fit it.
Selected(st, clear) ==
  LET kp == st.sheet.kp
      list == st.km.keys[kp.key]
      found == Find(list, IF clear THEN 0 ELSE kp.shift)
      first == clear /\ found = 0 /\ list # <<>>
      pos == IF first THEN Len(list) ELSE found
      shift == IF first THEN list[1].shift ELSE IF clear THEN 0 ELSE kp.shift
      op == IF pos = 0 THEN Windows ELSE Operation(list[Index(list, pos)])
  IN [st EXCEPT !.sheet.kp = Shown([@ EXCEPT !.curKey = kp.key, !.cur = pos, !.freed = FALSE, !.curShift = shift,
                                             !.shift = shift, !.changed = FALSE, !.modified = FALSE], op)]

\* A slip: what was typed is not looked at.
UpdateSelectionBlind(st, clear) ==
  Selected(IF st.sheet.kp.curKey # None /\ st.sheet.kp.changed THEN SaveCurrent(st) ELSE st, clear)

UpdateSelection(st, clear) ==
  Selected(IF st.sheet.kp.curKey # None /\ Changed(st.sheet.kp) THEN SaveCurrent(st) ELSE st, clear)

Listed(p, d) ==
  IF p.tr[d].tab = None THEN <<>> ELSE [c \in {x \in Char : p.tr[d].tab[x] # x} |-> p.tr[d].tab[c]]

Filled(items) == [c \in Char |-> IF c \in DOMAIN items THEN items[c] ELSE c]
Contents(c) == [win |-> c.win, tab |-> IF c.win THEN Identity ELSE Filled(c.items)]

RedisplayTable(st, d) ==
  IF ~st.sheet.cp[d].created THEN st
  ELSE [st EXCEPT !.sheet.cp[d] = [@ EXCEPT !.items = Listed(st.km, d), !.win = st.km.tr[d].win, !.sel = 0, !.dirty = FALSE]]

RedisplayTables(st) == FoldSet(LAMBDA d, s : RedisplayTable(s, d), st, Dir)

RedisplayKey(st) == IF st.sheet.kp.created THEN UpdateSelection(st, TRUE) ELSE st

Redisplay(st) == RedisplayTables(RedisplayKey([st EXCEPT !.sheet.prof.text = st.km.text]))

ApplyProfile(st) == [st EXCEPT !.km.text = st.sheet.prof.text, !.sheet.prof.dirty = FALSE, !.sheet.saveOnClose = TRUE]

Applied(st) == [st EXCEPT !.sheet.kp.dirty = FALSE, !.sheet.saveOnClose = TRUE]

ApplyKey(st) == IF st.sheet.kp.created THEN Applied(UpdateSelection(st, FALSE)) ELSE st

ApplyTable(st, d) ==
  LET c == st.sheet.cp[d]
  IN IF ~c.created THEN st
     ELSE [st EXCEPT !.km = SetupTranslation(@, d, c.win), !.sheet.cp[d].dirty = FALSE,
                     !.km.tr[d].tab = IF c.win THEN None ELSE Filled(c.items)]

ApplyTables(st) == FoldSet(LAMBDA d, s : ApplyTable(s, d), st, Dir)

SaveAllData(st) == ApplyTables(ApplyKey(ApplyProfile(st)))

\* A slip: the page of the keys says what it knows.
LookedAway(st) == st

\* The first page that is dirty answers for all of them; only when none before
\* it is, the page of the keys looks after its own.
Looked(st) == IF ~st.sheet.prof.dirty /\ st.sheet.kp.created THEN UpdateSelection(st, FALSE) ELSE st


IsDirty(st) == st.sheet.prof.dirty \/ st.sheet.kp.dirty \/ \E d \in Dir : st.sheet.cp[d].dirty

\* Clear deletes every descriptor, the one CurrentKey points to as well.
Reloaded(st, name, reg) ==
  Redisplay([st EXCEPT !.km = LoadFromRegistry(Clear(@), name, reg), !.sheet.kp.freed = st.sheet.kp.cur # 0])

-----------------------------------------------------------------------------
(* The user in the sheet *)

State == [km |-> km, sheet |-> sheet, used |-> used]

Put(st) == km' = st.km /\ sheet' = st.sheet /\ used' = st.used

Counted == steps < MaxSteps /\ steps' = steps + 1 /\ UNCHANGED session

User(what) == what \in session.may /\ Counted

Away(s) == [s EXCEPT !.kp.tracking = FALSE]

InSheet(what) == User(what) /\ sheet # None /\ UNCHANGED <<posted>>

NewSheet ==
  [prof |-> [text |-> km.text, dirty |-> FALSE], saveOnClose |-> FALSE, asked |-> FALSE,
   kp |-> [created |-> FALSE, dirty |-> FALSE, key |-> InOrder(Key)[1], shift |-> 0, radio |-> "windows", cmd |-> None,
           str |-> <<>>, modified |-> FALSE, changed |-> FALSE, curKey |-> None, cur |-> 0, curShift |-> 0,
           freed |-> FALSE, tracking |-> FALSE, ignore |-> TRUE],
   cp |-> [d \in Dir |-> [created |-> FALSE, dirty |-> FALSE, items |-> <<>>, win |-> FALSE, sel |-> 0]]]

ShowKeys ==
  /\ InSheet("keys") /\ ~sheet.kp.created
  /\ Put(UpdateSelection([State EXCEPT !.sheet.kp.created = TRUE], TRUE))
  /\ UNCHANGED <<registry, stray, meant>>

ShowTable(d) ==
  /\ InSheet("tables") /\ ~sheet.cp[d].created
  /\ Put(RedisplayTable([State EXCEPT !.sheet = Away(@), !.sheet.cp[d].created = TRUE], d))
  /\ UNCHANGED <<registry, stray, meant>>

SetText(t) ==
  /\ InSheet("text") /\ t # sheet.prof.text
  /\ sheet' = [Away(sheet) EXCEPT !.prof.text = t, !.prof.dirty = TRUE]
  /\ meant' = [meant EXCEPT !.text = t]
  /\ UNCHANGED <<km, registry, used, stray>>

OnKeys == InSheet("keys") /\ sheet.kp.created /\ UNCHANGED <<registry, stray>>

SelectKey(k) ==
  /\ OnKeys /\ k # sheet.kp.key
  /\ Put(UpdateSelection([State EXCEPT !.sheet = Away(@), !.sheet.kp.key = k], TRUE))
  /\ UNCHANGED meant

ClickShift(s) ==
  /\ OnKeys /\ s # sheet.kp.shift
  /\ Put(UpdateSelection([State EXCEPT !.sheet = Away(@), !.sheet.kp.shift = s], FALSE))
  /\ UNCHANGED meant

\* An operation is chosen, a command picked, a text typed.
Edited(kp) ==
  /\ sheet' = Away([sheet EXCEPT !.kp = kp])
  /\ meant' = [meant EXCEPT !.keys[<<kp.curKey, kp.curShift>>] = Chosen(kp)]
  /\ UNCHANGED <<km, used>>

EvOperChanged(r) ==
  OnKeys /\ r \in session.ops /\ Edited([sheet.kp EXCEPT !.radio = r, !.changed = TRUE])

EvCmdChanged(c) ==
  OnKeys /\ sheet.kp.radio = "command" /\ c # sheet.kp.cmd /\ Edited([sheet.kp EXCEPT !.cmd = c, !.changed = TRUE])

TypeText(t) ==
  OnKeys /\ sheet.kp.radio = "send" /\ t # sheet.kp.str /\ Edited([sheet.kp EXCEPT !.str = t, !.modified = TRUE])

CmKSel ==
  /\ OnKeys /\ "track" \in session.may
  /\ sheet' = [sheet EXCEPT !.kp.tracking = ~@, !.kp.ignore = @ \/ ~sheet.kp.tracking]
  /\ UNCHANGED <<km, used, meant>>

\* A key is pressed or released for the button that waits for one.
Track(k, s) ==
  /\ OnKeys /\ sheet.kp.tracking
  /\ Put(UpdateSelection([State EXCEPT !.sheet.kp = [@ EXCEPT !.shift = s, !.key = IF sheet.kp.ignore THEN @ ELSE k,
                                                              !.tracking = sheet.kp.ignore, !.ignore = FALSE]], FALSE))
  /\ UNCHANGED meant

-----------------------------------------------------------------------------
(* The user in a table *)

OnTable(d) == InSheet("tables") /\ sheet.cp[d].created /\ UNCHANGED <<km, registry, used, stray>>

\* The list is sorted again after every change; the index of the selection is
\* not.
ItemAt(items, i) == InOrder(DOMAIN items)[i]

Listing(d, c) ==
  /\ sheet' = [sheet EXCEPT !.cp[d] = c]
  /\ meant' = [meant EXCEPT !.tr[d] = Contents(c)]

SelectItem(d, i) ==
  /\ OnTable(d) /\ ~sheet.cp[d].win /\ i \in 1..Cardinality(DOMAIN sheet.cp[d].items)
  /\ i # sheet.cp[d].sel
  /\ sheet' = [sheet EXCEPT !.cp[d].sel = i]
  /\ UNCHANGED meant

With(items, from, to) == [c \in DOMAIN items \cup {from} |-> IF c = from THEN to ELSE items[c]]
Without(items, from) == [c \in DOMAIN items \ {from} |-> items[c]]

AddItem(d, from, to) ==
  LET c == sheet.cp[d]
  IN /\ OnTable(d) /\ ~c.win /\ from \notin DOMAIN c.items
     /\ Listing(d, [c EXCEPT !.items = With(@, from, to), !.dirty = TRUE, !.sel = Cardinality(DOMAIN c.items) + 1])

ChangeItem(d, from, to) ==
  LET c == sheet.cp[d]  old == ItemAt(c.items, c.sel)
  IN /\ OnTable(d) /\ ~c.win /\ c.sel # 0
     /\ from \notin DOMAIN c.items \ {old}
     /\ Listing(d, [c EXCEPT !.items = With(Without(@, old), from, to), !.dirty = TRUE])

DeleteItem(d) ==
  LET c == sheet.cp[d]
  IN /\ OnTable(d) /\ ~c.win /\ c.sel # 0
     /\ Listing(d, [c EXCEPT !.items = Without(@, ItemAt(c.items, c.sel)), !.dirty = TRUE, !.sel = 0])

ClearItems(d) ==
  LET c == sheet.cp[d]
  IN OnTable(d) /\ ~c.win /\ c.items # <<>> /\ Listing(d, [c EXCEPT !.items = <<>>, !.dirty = TRUE, !.sel = 0])

EvWinTLTClicked(d) ==
  LET c == sheet.cp[d] IN OnTable(d) /\ Listing(d, [c EXCEPT !.win = ~@, !.dirty = TRUE])

-----------------------------------------------------------------------------
(* Profiles in the sheet, and its end *)

Fresh(name, reg) == Effect(LoadFromRegistry(Empty(name), name, reg))

\* The question "save changes?" is asked if a page is dirty; a No, too, takes
\* the data of the pages into the profile.
Asked(st, answer) == IF IsDirty(st) THEN [SaveAllData(st) EXCEPT !.sheet.asked = TRUE] ELSE st

RegistryAsked(st, answer) == IF IsDirty(st) /\ answer = "yes" THEN SaveInRegistry(Asked(st, answer).km, registry) ELSE registry

Answer == {"yes", "no"}

EvProfileChanged(name, answer) ==
  LET looked == Looked([State EXCEPT !.sheet = Away(@)])
      st == Reloaded(Asked(looked, answer), name, RegistryAsked(looked, answer))
  IN /\ InSheet("profiles") /\ name # km.name
     /\ answer = "no" \/ IsDirty(looked)
     /\ Put(st) /\ registry' = RegistryAsked(looked, answer)
     /\ meant' = Fresh(name, registry')
     /\ UNCHANGED stray

\* A new name for what the sheet shows.
CmNew(name, answer) ==
  LET looked == Looked([State EXCEPT !.sheet = Away(@)])
  IN /\ InSheet("profiles") /\ name # km.name /\ registry[name] = None
     /\ answer = "no" \/ IsDirty(looked)
     /\ Put([Asked(looked, answer) EXCEPT !.km.name = name, !.sheet.prof.dirty = TRUE])
     /\ registry' = RegistryAsked(looked, answer)
     /\ UNCHANGED <<meant, stray>>

\* The user answers the question with Cancel, or gives no new name.
Stays(answer) ==
  LET looked == Looked([State EXCEPT !.sheet = Away(@)])
      st == IF answer = "cancel" THEN looked ELSE Asked(looked, answer)
  IN /\ InSheet("profiles") /\ IsDirty(looked)
     /\ Put(st) /\ registry' = IF answer = "cancel" THEN registry ELSE RegistryAsked(looked, answer)
     /\ UNCHANGED <<meant, stray>>

CmDelete ==
  /\ InSheet("profiles") /\ km.name # Default
  /\ Put(Reloaded([State EXCEPT !.sheet = Away(@)], Default, registry))
  /\ registry' = [registry EXCEPT ![km.name] = None]
  /\ stray' = IF sheet.kp.created /\ Changed(sheet.kp) THEN stray \cup {"key"} ELSE stray
  /\ meant' = Fresh(Default, registry')

\* WM_REG_PROPUPDATETOP comes back to the window that sends it.
EvPropertyChanged(p, reg) == LoadFromRegistry(p, p.name, reg)

Saves(p) ==
  /\ registry' = SaveInRegistry(p, registry)
  /\ km' = EvPropertyChanged(p, registry')

Leave == sheet' = None /\ meant' = Effect(km') /\ UNCHANGED <<stray>>

Ok ==
  LET st == SaveAllData(State)
  IN InSheet("sheet") /\ Saves(st.km) /\ used' = st.used /\ Leave

\* Whether anything is saved is told by SaveOnClose, not by the button.
Cancel ==
  /\ InSheet("sheet")
  /\ IF sheet.saveOnClose THEN Saves(km) ELSE UNCHANGED <<km, registry>>
  /\ UNCHANGED used /\ Leave

-----------------------------------------------------------------------------
(* The window *)

InWindow(what) == User(what) /\ sheet = None /\ posted = None

Edit == InWindow("sheet") /\ sheet' = NewSheet /\ UNCHANGED <<km, registry, posted, used, stray, meant>>

\* Command and string go to the queue; a string by its address.
Process(k, s) ==
  LET op == Does(km, k, s)
  IN /\ InWindow("press") /\ op.op = "send" /\ op.arg # <<>>
     /\ posted' = [key |-> k, shift |-> s, freed |-> FALSE]
     /\ UNCHANGED <<km, registry, sheet, used, stray, meant>>

EvSendString ==
  /\ posted # None
  /\ posted' = None
  /\ used' = IF posted.freed THEN used \cup {"string"} ELSE used
  /\ UNCHANGED <<km, registry, sheet, stray, meant, session, steps>>

Known(p) == km' = p /\ meant' = Effect(p) /\ UNCHANGED <<sheet, posted, used, stray>>

CmProfileDefault ==
  /\ InWindow("default")
  /\ Known(LoadDefaultKeyMap(Clear(km)))
  /\ registry' = SaveInRegistry(km', registry)

\* The operation of a first line without one is whatever the variable held.
CmProfileImport(file, clear) ==
  \E op \in {"windows", "command", "send", "dead"} :
    LET r == Imported(IF clear THEN Clear(km) ELSE km, file, op)
    IN /\ InWindow("import")
       /\ Known(r.p)
       /\ registry' = IF r.wrong THEN registry ELSE SaveInRegistry(r.p, registry)

\* A connection is opened with a profile: nothing is cleared.
OpenConnection(name) ==
  InWindow("open") /\ Known(LoadFromRegistry(km, name, registry)) /\ UNCHANGED registry

Started(reg) ==
  LET p == LoadFromRegistry(Empty(Default), Default, reg)
  IN IF reg[Default].keys = <<>> THEN LoadDefaultKeyMap(p) ELSE p

SetupWindow == InWindow("start") /\ Known(Started(registry)) /\ UNCHANGED registry

-----------------------------------------------------------------------------
(* Another window saves a profile, and its broadcast is handled here *)

\* What is in the pages stays there; an operation that was changed as well.
MeantNow(p) ==
  LET page == sheet.kp
  IN IF sheet = None THEN Effect(p)
     ELSE [Effect(p) EXCEPT !.text = meant.text,
             !.tr = [d \in Dir |-> IF sheet.cp[d].created THEN meant.tr[d] ELSE @[d]],
             !.keys = [x \in DOMAIN @ |-> IF page.created /\ Changed(page) /\ x = <<page.curKey, page.curShift>>
                                          THEN meant.keys[x] ELSE @[x]]]

OtherSaves(name, stored) ==
  /\ "other" \in session.may /\ Counted
  /\ registry' = [registry EXCEPT ![name] = stored]
  /\ km' = EvPropertyChanged(km, registry')
  /\ meant' = MeantNow(km')
  /\ posted' = IF posted = None THEN None
               ELSE [posted EXCEPT !.freed = @ \/
                       \E i \in 1..Len(registry'[IF registry'[km.name] = None THEN Default ELSE km.name].keys) :
                         LET e == registry'[IF registry'[km.name] = None THEN Default ELSE km.name].keys[i]
                         IN e.key = posted.key /\ e.shift = posted.shift]
  /\ stray' = IF posted = None THEN stray ELSE stray \cup {"string"}
  /\ UNCHANGED <<sheet, used>>

-----------------------------------------------------------------------------

Init ==
  /\ session \in Session
  /\ registry = session.registry
  /\ km = Started(session.registry)
  /\ meant = Effect(km)
  /\ sheet = None /\ posted = None /\ used = {} /\ stray = {} /\ steps = 0

InTheSheet ==
  \/ ShowKeys \/ Ok \/ Cancel \/ CmKSel \/ CmDelete
  \/ \E t \in {"", "t"} : SetText(t)
  \/ \E k \in Key : SelectKey(k) \/ \E s \in Shift : Track(k, s)
  \/ \E s \in Shift : ClickShift(s)
  \/ \E r \in {"windows", "command", "send"} : EvOperChanged(r)
  \/ \E c \in Cmd : EvCmdChanged(c)
  \/ \E t \in session.typed : TypeText(t)
  \/ \E d \in Dir :
       \/ ShowTable(d) \/ DeleteItem(d) \/ ClearItems(d) \/ EvWinTLTClicked(d)
       \/ \E i \in 1..Cardinality(Char) : SelectItem(d, i)
       \/ \E from, to \in Char : AddItem(d, from, to) \/ ChangeItem(d, from, to)
  \/ \E n \in Name, a \in Answer : EvProfileChanged(n, a) \/ CmNew(n, a)
  \/ \E a \in Answer \cup {"cancel"} : Stays(a)

InTheWindow ==
  \/ Edit \/ EvSendString \/ CmProfileDefault \/ SetupWindow
  \/ \E k \in Key, s \in Shift : Process(k, s)
  \/ \E f \in session.files, clear \in BOOLEAN : CmProfileImport(f, clear)
  \/ \E n \in Name : OpenConnection(n)

Next ==
  \/ InTheSheet \/ InTheWindow
  \/ \E n \in Name, c \in session.others : OtherSaves(n, c)

Spec == Init /\ [][Next]_vars

-----------------------------------------------------------------------------
(* Properties *)

\* A descriptor is never deleted while the page of the keys is to use it, nor
\* a string that is on its way, but when a profile is deleted with an
\* operation changed, and when another window's broadcast overtakes a string.
NothingFreedIsUsed == used \subseteq stray

\* Dead keys are not saved.
NotDead(e) == [e EXCEPT !.keys = [x \in DOMAIN @ |-> IF @[x] = Dead THEN Windows ELSE @[x]]]

\* What the registry is given is what the user has seen and set, for every
\* key, table and text, also on pages left long ago and for keys chosen before:
\* a fresh load does just that.  Two descriptors for one key and shift, as a
\* broadcast may make them while a key is shown, come back in wrong order.  A
\* sheet that is left by Cancel saves nothing unless the user had been asked.
SavedIsMeant ==
  [][/\ (sheet # None /\ registry' # registry /\ (Ok \/ \E n \in Name : EvProfileChanged(n, "yes") \/ CmNew(n, "yes")))
          => \/ Fresh(km.name, registry') = NotDead(meant)
             \/ stray # {} \/ Doubled(SaveAllData(State).km)
     /\ (sheet # None /\ Cancel) => registry' = registry \/ sheet.asked]_vars

Backslashed(p) == \E k \in Key : \E i \in 1..Len(p.keys[k]) : Back \in {p.keys[k][i].arg[j] : j \in 1..Len(p.keys[k][i].arg)}

\* A string has no more than four places for each of its bytes in a file; one
\* that the buffer of the export is too short for comes back cut.
MayBeCut(op, copy) ==
  /\ op.op = "send" /\ 4 * Len(op.arg) > ExportBuf - 5
  /\ copy.op = "send" /\ IsPrefix(copy.arg, op.arg)

\* A profile that is saved and loaded, or exported and imported, does what it
\* did: what the registry leaves out are dead keys, and a file translation by
\* Windows, the backslashes of a string, commands without a name, and the end
\* of a string that is too long for ExportKeyMap's buffer.
CopiesAgree ==
  Doubled(km) \/
  /\ Effect(LoadFromRegistry(Empty(km.name), km.name, SaveInRegistry(km, registry))) = NotDead(Effect(km))
  /\ LET r == Imported(Empty(km.name), Export(km), "windows")
         had == Effect(km)
         has == Effect(r.p)
     IN \/ Backslashed(km) \/ \E d \in Dir : km.tr[d].win
        \/ /\ ~r.wrong /\ [has EXCEPT !.keys = had.keys] = had
           /\ \A x \in DOMAIN had.keys : has.keys[x] = had.keys[x] \/ MayBeCut(had.keys[x], has.keys[x])
=============================================================================
