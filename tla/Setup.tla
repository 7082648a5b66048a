------------------------------- MODULE Setup --------------------------------
(***************************************************************************)
(* What is set up: the property sheet of each program, its copy of the      *)
(* settings in memory, the lists of realms and of their hosts, the registry *)
(* all programs share, and the Kerberos library that reads it.              *)
(***************************************************************************)
EXTENDS Integers, Sequences, SequencesExt, FiniteSets, Functions

CONSTANTS
  Program,
  Realm,     \* names of realms
  Label,     \* hosts and domains in the list of realms
  MaxSteps,  \* bound: actions of the users
  None,      \* nothing: a value of its own
  Session

Data == {"Setup", "Manager", "Printer"}  \* pages whose controls have a transfer buffer
Printers == {"none", "file", "windows", "serial"}
Arguments == {"", "x", "y"}  \* of a printer
TX_DEFAULTREALM == "DefaultRealm"
NoDefault == "NO.DEFAULT.REALM"

\* What a part may hold.
Held(part) == IF part = "Printer" THEN Printers ELSE 0..1

\* pages: of each program, in order.  own, dflt: what is stored for the user and
\* for a new user.  realms, config, default: the lists and the default realm at
\* first, file: to import.  may: what users do, values: what they type, hosts:
\* servers with their service.  writable: whether the lists may be written.
SetupAssumption ==
  /\ MaxSteps \in Nat /\ TX_DEFAULTREALM \notin Realm
  /\ None \notin Printers /\ None \notin [val : Printers, arg : Arguments]
  /\ None \notin 0..1 /\ None \notin [val : 0..1]
  /\ \A s \in Session :
       /\ DOMAIN s = {"pages", "own", "dflt", "realms", "config", "default", "file", "may", "values", "hosts",
                      "writable", "asks"}
       /\ s.pages \in [Program -> Seq(Data \cup {"krb.realms", "krb.config"})]
       /\ \A part \in Data : {s.own[part], s.dflt[part]} \subseteq Held(part) \cup {None}
       /\ DOMAIN s.own = Data /\ DOMAIN s.config = Realm /\ s.writable \in BOOLEAN

VARIABLES
  session,
  reg,      \* what the registry holds
  prog,     \* each program: its buffers, where it is, its pages, whether it saves at the end
  cache,    \* the hosts the library of a program has looked up, and for which realm
  file,     \* the exported file
  stored,   \* the lists of hosts that were set up as a whole
  steps

vars == <<session, reg, prog, cache, file, stored, steps>>

-----------------------------------------------------------------------------
(* The registry *)

Pages(p) == ToSet(session.pages[p])

Stored(part) == IF reg.own[part] # None THEN reg.own[part] ELSE session.dflt[part]

\* What the programs set before anything is loaded.
AtFirst(part) == IF part = "Printer" THEN "none" ELSE 0

LoadPart(part, buf) == IF Stored(part) # None THEN Stored(part) ELSE buf[part]

LoadData(p) == [part \in Data |-> IF part \in Pages(p) THEN LoadPart(part, prog[p].buf) ELSE prog[p].buf[part]]

SavePart(p, part) == IF part \in Pages(p) THEN prog[p].buf[part] ELSE reg.own[part]

\* Values stay where they are when they are written again.
SetValue(list, key, v) ==
  IF \E i \in 1..Len(list) : list[i].key = key
  THEN [i \in 1..Len(list) |-> IF list[i].key = key THEN [list[i] EXCEPT !.value = v] ELSE list[i]]
  ELSE Append(list, [key |-> key, value |-> v])

SetString(list, row) == SetValue(list, row.key, row.value)

\* A slip: what is not in the list any more is left.
WrittenOver(old, rows) == FoldLeft(SetString, old, rows)

Written(old, rows) ==
  FoldLeft(SetString, SelectSeq(old, LAMBDA v : \E i \in 1..Len(rows) : rows[i].key = v.key), rows)

HostsOf(rows, realm) ==
  FoldLeft(SetString, <<>>,
           [i \in 1..Len(SelectSeq(rows, LAMBDA r : r.realm = realm)) |->
              LET r == SelectSeq(rows, LAMBDA x : x.realm = realm)[i] IN [key |-> r.key, value |-> r.value]])

-----------------------------------------------------------------------------
(* Pages.  meant: what the user has said of each entry; twice: entries that  *)
(* were in the list two times.                                               *)

\* In the list of hosts the first row is the default realm.
ConfigRows ==
  LET ofRealm(r) == [i \in 1..Len(reg.config[r]) |-> [realm |-> r, key |-> reg.config[r][i].key, value |-> reg.config[r][i].value]]
  IN <<[realm |-> TX_DEFAULTREALM, key |-> IF reg.default = None THEN "" ELSE reg.default, value |-> ""]>>
     \o FlattenSeq([i \in 1..Cardinality(Realm) |-> ofRealm(SetToSeq(Realm)[i])])

Entry(row) == IF "realm" \in DOMAIN row THEN <<row.realm, row.key>> ELSE row.key

AsMeant(rows) == {<<Entry(rows[i]), rows[i].value>> : i \in 1..Len(rows)}

List(rows) == [rows |-> rows, meant |-> AsMeant(rows), twice |-> {}]

SetupWindow(p, page) ==
  CASE page = "Printer" -> [val |-> prog[p].buf[page], arg |-> reg.arg[prog[p].buf[page]]]
    [] page \in Data \ {"Printer"} -> [val |-> prog[p].buf[page]]
    [] page = "krb.realms" -> List(reg.realms)
    [] page = "krb.config" -> List(ConfigRows)

Doubles(rows) == {Entry(rows[i]) : i \in {j \in 1..Len(rows) : \E k \in 1..Len(rows) : k # j /\ Entry(rows[k]) = Entry(rows[j])}}

\* The list after a change; what is said of an entry replaces what was.
Now(list, rows, gone, said) ==
  [rows |-> rows, meant |-> {m \in list.meant : m[1] \notin gone \cup {s[1] : s \in said}} \cup said,
   twice |-> list.twice \cup Doubles(rows)]

Said(row) == {<<Entry(row), row.value>>}

-----------------------------------------------------------------------------
(* The sheet *)

Closed(p) == [page \in Pages(p) |-> None]

Counted(what) == what \in session.may /\ steps < MaxSteps /\ steps' = steps + 1

Others == UNCHANGED <<session, reg, cache, file, stored>>

CmSetup(p) ==
  /\ prog[p].at = "idle" /\ Counted("edit")
  /\ LET first == Head(session.pages[p])
     IN prog' = [prog EXCEPT ![p].at = "sheet", ![p].save = FALSE, ![p].asked = FALSE,
                             ![p].open = [@ EXCEPT ![first] = SetupWindow(p, first)]]
  /\ Others

Turn(p, page) ==
  /\ prog[p].at = "sheet" /\ prog[p].open[page] = None
  /\ prog' = [prog EXCEPT ![p].open[page] = SetupWindow(p, page)]
  /\ UNCHANGED steps /\ Others

Shows(p, page) == prog[p].at = "sheet" /\ page \in Pages(p) /\ prog[p].open[page] # None

SetControl(p, page, v) ==
  /\ page \in Data \ {"Printer"} /\ Shows(p, page) /\ Counted("control")
  /\ prog' = [prog EXCEPT ![p].open[page].val = v]
  /\ Others

\* The argument that was typed for another printer is gone.
EvPrinterChanged(p, kind) ==
  /\ Shows(p, "Printer") /\ Counted("printer")
  /\ prog' = [prog EXCEPT ![p].open["Printer"] = [val |-> kind, arg |-> reg.arg[kind]]]
  /\ Others

CmPrintSetup(p, arg) ==
  /\ Shows(p, "Printer") /\ Counted("printer")
  /\ LET kind == prog[p].open["Printer"].val
     IN /\ kind # "none"
        /\ prog' = [prog EXCEPT ![p].open["Printer"].arg = arg]
        /\ reg' = IF kind = "serial" THEN [reg EXCEPT !.arg[kind] = arg] ELSE reg
  /\ UNCHANGED <<session, cache, file, stored>>

Changes(p, page, list) ==
  /\ prog' = [prog EXCEPT ![p].open[page] = list]
  /\ Others

-----------------------------------------------------------------------------
(* The list of realms *)

Rows(p, page) == prog[p].open[page].rows

\* A new entry is put in front, also when the dialog is cancelled.
CmAddItem(p, label, v) ==
  /\ Shows(p, "krb.realms") /\ session.writable /\ Counted("add")
  /\ LET row == [key |-> label, value |-> v]
     IN Changes(p, "krb.realms", Now(prog[p].open["krb.realms"], <<row>> \o Rows(p, "krb.realms"), {}, Said(row)))

CmValueItem(p, i, v) ==
  /\ Shows(p, "krb.realms") /\ session.writable /\ i \in 1..Len(Rows(p, "krb.realms")) /\ Counted("value")
  /\ LET row == [Rows(p, "krb.realms")[i] EXCEPT !.value = v]
     IN Changes(p, "krb.realms", Now(prog[p].open["krb.realms"], [Rows(p, "krb.realms") EXCEPT ![i] = row], {}, Said(row)))

\* A label can also be edited in place, where the registry cannot be written.
EvLvnEndLabelEdit(p, i, label) ==
  /\ Shows(p, "krb.realms") /\ i \in 1..Len(Rows(p, "krb.realms")) /\ Counted("rename")
  /\ ~\E j \in 1..Len(Rows(p, "krb.realms")) : j # i /\ Rows(p, "krb.realms")[j].key = label
  /\ LET row == [Rows(p, "krb.realms")[i] EXCEPT !.key = label]
     IN Changes(p, "krb.realms", Now(prog[p].open["krb.realms"], [Rows(p, "krb.realms") EXCEPT ![i] = row],
                                     {Rows(p, "krb.realms")[i].key}, Said(row)))

\* The lines of the file are put in front, each before the last; a line without
\* a value ends it.  An entry that is overwritten stays behind the new one.
ImportRealms(list, lines, answers) ==
  LET line(acc, i) ==
        LET row == lines[i]
            known == \E j \in 1..Len(acc.list.rows) : acc.list.rows[j].key = row.key
        IN CASE ~acc.goes \/ row.value = "" \/ (known /\ answers[i] = "cancel") -> [acc EXCEPT !.goes = FALSE]
             [] acc.goes /\ row.value # "" /\ known /\ answers[i] = "no" -> acc
             [] acc.goes /\ row.value # "" /\ (known => answers[i] = "yes") ->
                  [acc EXCEPT !.list = Now(acc.list, <<row>> \o acc.list.rows, {}, Said(row))]
  IN FoldLeft(line, [list |-> list, goes |-> TRUE], [i \in 1..Len(lines) |-> i]).list

\* DeleteAllItems, if the user agrees.
Cleared(list, clear) == IF clear THEN Now(list, <<>>, {m[1] : m \in list.meant}, {}) ELSE list

\* The file is one of this page.
Exported(page) == \A i \in 1..Len(file) : "realm" \in DOMAIN file[i] <=> page = "krb.config"

CmImportRealms(p, clear, answers) ==
  /\ Shows(p, "krb.realms") /\ session.writable /\ Exported("krb.realms") /\ Counted("import")
  /\ Changes(p, "krb.realms", ImportRealms(Cleared(prog[p].open["krb.realms"], clear), file, answers))

-----------------------------------------------------------------------------
(* The list of hosts *)

Config(p) == prog[p].open["krb.config"]

\* CmAddRealm at the end, or CmAddServer behind an entry of the same realm.
AddHost(p, i, realm, host) ==
  /\ Shows(p, "krb.config") /\ session.writable /\ i \in 1..Len(Config(p).rows) /\ Counted("addhost")
  /\ i = Len(Config(p).rows) \/ (Config(p).rows[i].realm = realm /\ realm # TX_DEFAULTREALM)
  /\ LET row == [realm |-> realm, key |-> host.key, value |-> host.value]
     IN Changes(p, "krb.config", Now(Config(p), SubSeq(Config(p).rows, 1, i) \o <<row>> \o
                                     SubSeq(Config(p).rows, i + 1, Len(Config(p).rows)), {}, Said(row)))

CmChangeServer(p, i, host) ==
  /\ Shows(p, "krb.config") /\ session.writable /\ i \in 1..Len(Config(p).rows) /\ Counted("change")
  /\ Config(p).rows[i].realm # TX_DEFAULTREALM
  /\ LET row == [Config(p).rows[i] EXCEPT !.key = host.key, !.value = host.value]
     IN Changes(p, "krb.config", Now(Config(p), [Config(p).rows EXCEPT ![i] = row], {Entry(Config(p).rows[i])}, Said(row)))

Defaults(rows) == {i \in 1..Len(rows) : rows[i].realm = TX_DEFAULTREALM}

\* CmValueItem in the list of hosts: the default realm.
SetDefaultRealm(p, realm) ==
  /\ Shows(p, "krb.config") /\ session.writable /\ Counted("default")
  /\ \E i \in Defaults(Config(p).rows) :
       LET row == [Config(p).rows[i] EXCEPT !.key = realm]
       IN Changes(p, "krb.config", Now(Config(p), [Config(p).rows EXCEPT ![i] = row], {Entry(Config(p).rows[i])}, Said(row)))

\* Of either list.
CmDeleteItem(p, page, i) ==
  /\ page \in {"krb.realms", "krb.config"} /\ Shows(p, page) /\ session.writable /\ i \in 1..Len(Rows(p, page)) /\ Counted("delete")
  /\ page = "krb.config" => Rows(p, page)[i].realm # TX_DEFAULTREALM
  /\ Changes(p, page, Now(prog[p].open[page], RemoveAt(Rows(p, page), i), {Entry(Rows(p, page)[i])}, {}))

\* The default realm is the first line; an empty one comes back as a name.
CmExport(p, page) ==
  /\ page \in {"krb.realms", "krb.config"} /\ Shows(p, page) /\ Counted("export")
  /\ file' = IF page = "krb.realms" THEN Rows(p, page)
             ELSE LET notDefault(r) == r.realm # TX_DEFAULTREALM
                  IN [i \in 1..Cardinality(Defaults(Rows(p, page))) |-> Rows(p, page)[CHOOSE d \in Defaults(Rows(p, page)) : TRUE]]
                     \o SelectSeq(Rows(p, page), notDefault)
  /\ UNCHANGED <<session, reg, prog, cache, stored>>

Whole(lines) ==
  LET bad == {i \in 1..Len(lines) : lines[i].realm = "" \/ lines[i].key = ""}
  IN IF bad = {} THEN lines ELSE SubSeq(lines, 1, (CHOOSE i \in bad : \A j \in bad : i <= j) - 1)

CmImportConfig(p, clear) ==
  /\ Shows(p, "krb.config") /\ session.writable /\ Exported("krb.config") /\ file # <<>> /\ Counted("import")
  /\ LET list == Cleared(Config(p), clear)
         row == [realm |-> TX_DEFAULTREALM, key |-> IF file[1].key = "" THEN NoDefault ELSE file[1].key, value |-> ""]
         set == IF Defaults(list.rows) = {} THEN <<row>> \o list.rows
                ELSE [i \in 1..Len(list.rows) |-> IF i \in Defaults(list.rows) THEN row ELSE list.rows[i]]
         lines == Whole(Tail(file))
     IN Changes(p, "krb.config", Now(list, set \o lines, {Entry(list.rows[i]) : i \in Defaults(list.rows)},
                                     Said(row) \cup {<<Entry(lines[i]), lines[i].value>> : i \in 1..Len(lines)}))

-----------------------------------------------------------------------------
(* OK and Cancel *)

Ok(p) ==
  /\ prog[p].at = "sheet"
  /\ prog' = [prog EXCEPT ![p].at = "apply", ![p].k = 1, ![p].asked = TRUE]
  /\ UNCHANGED steps /\ Others

Page(p) == session.pages[p][prog[p].k]

Refused(p) == prog' = [prog EXCEPT ![p].at = "sheet", ![p].k = 0]

Applied(p) == prog' = [prog EXCEPT ![p].at = "apply", ![p].k = @ + 1]

Applying(p) == prog[p].at = "apply" /\ prog[p].k <= Len(session.pages[p])

SkipPage(p) ==
  /\ Applying(p) /\ prog[p].open[Page(p)] = None
  /\ Applied(p) /\ UNCHANGED steps /\ Others

ApplyData(p) ==
  /\ Applying(p) /\ Page(p) \in Data /\ prog[p].open[Page(p)] # None
  /\ LET page == prog[p].open[Page(p)]
     IN /\ prog' = [prog EXCEPT ![p].k = @ + 1, ![p].save = TRUE, ![p].buf[Page(p)] = page.val]
        /\ reg' = IF Page(p) = "Printer" /\ page.val \in {"file", "windows"} THEN [reg EXCEPT !.arg[page.val] = page.arg] ELSE reg
  /\ UNCHANGED <<session, cache, file, stored, steps>>

ApplyRealms(p) ==
  /\ Applying(p) /\ Page(p) = "krb.realms" /\ prog[p].open[Page(p)] # None
  /\ LET rows == Rows(p, "krb.realms")
     IN IF (\E i \in 1..Len(rows) : rows[i].value = "") \/ (~session.writable /\ rows # <<>>)
        THEN Refused(p) /\ UNCHANGED reg
        ELSE /\ Applied(p)
             /\ reg' = IF session.writable THEN [reg EXCEPT !.realms = Written(@, rows)] ELSE reg
  /\ UNCHANGED <<session, cache, file, stored, steps>>

HostRows(p) == SelectSeq(Config(p).rows, LAMBDA r : r.realm # TX_DEFAULTREALM)

DefaultRealm(p) ==
  LET set == {Config(p).rows[i].key : i \in Defaults(Config(p).rows)} \ {""}
  IN IF set = {} THEN None ELSE CHOOSE r \in set : TRUE

\* A slip: the realms are deleted before the lines are looked at.
ApplyConfigEarly(p) ==
  /\ Applying(p) /\ Page(p) = "krb.config" /\ prog[p].open[Page(p)] # None
  /\ IF \E i \in 1..Len(HostRows(p)) : HostRows(p)[i].realm = "" \/ HostRows(p)[i].key = ""
     THEN Refused(p) ELSE prog' = [prog EXCEPT ![p].at = "write"]
  /\ reg' = IF session.writable THEN [reg EXCEPT !.default = DefaultRealm(p), !.config = [r \in Realm |-> <<>>]] ELSE reg
  /\ UNCHANGED <<session, cache, file, stored, steps>>

\* All realms are deleted before any is written.
ApplyConfig(p) ==
  /\ Applying(p) /\ Page(p) = "krb.config" /\ prog[p].open[Page(p)] # None
  /\ IF \E i \in 1..Len(HostRows(p)) : HostRows(p)[i].realm = "" \/ HostRows(p)[i].key = ""
     THEN Refused(p) /\ UNCHANGED reg
     ELSE /\ prog' = [prog EXCEPT ![p].at = "write"]
          /\ reg' = IF session.writable THEN [reg EXCEPT !.default = DefaultRealm(p), !.config = [r \in Realm |-> <<>>]] ELSE reg
  /\ UNCHANGED <<session, cache, file, stored, steps>>

WriteConfig(p) ==
  /\ prog[p].at = "write"
  /\ IF ~session.writable /\ HostRows(p) # <<>>
     THEN Refused(p) /\ UNCHANGED <<reg, stored>>
     ELSE /\ Applied(p)
          /\ IF session.writable
             THEN /\ reg' = [reg EXCEPT !.config = [r \in Realm |-> HostsOf(HostRows(p), r)]]
                  /\ stored' = [r \in Realm |-> stored[r] \cup {HostsOf(HostRows(p), r)}]
             ELSE UNCHANGED <<reg, stored>>
  /\ UNCHANGED <<session, cache, file, steps>>

EndApply(p) ==
  /\ prog[p].at = "apply" /\ prog[p].k > Len(session.pages[p])
  /\ prog' = [prog EXCEPT ![p].at = "save"]
  /\ UNCHANGED steps /\ Others

Cancel(p) ==
  /\ prog[p].at = "sheet"
  /\ prog' = [prog EXCEPT ![p].at = "save"]
  /\ UNCHANGED steps /\ Others

SaveData(p) ==
  /\ prog[p].at = "save"
  /\ reg' = IF prog[p].save THEN [reg EXCEPT !.own = [part \in Data |-> SavePart(p, part)]] ELSE reg
  /\ prog' = [prog EXCEPT ![p].at = "tell", ![p].k = 0, ![p].open = Closed(p)]
  /\ UNCHANGED <<session, cache, file, stored, steps>>

\* Each program handles the broadcast when it waits for messages.
EvPropertyChangedTop(p) ==
  /\ prog[p].at = "tell"
  /\ \A q \in Program : prog[q].at \in {"idle", "sheet", "tell"}
  /\ prog' = [q \in Program |-> [prog[q] EXCEPT !.buf = LoadData(q), !.at = IF q = p THEN "idle" ELSE @]]
  /\ UNCHANGED steps /\ Others

-----------------------------------------------------------------------------
(* The library: the list of hosts is made when another realm is asked for *)

krb_get_host(p, realm) ==
  /\ "host" \in session.may /\ cache[p].realm # realm
  /\ cache' = [cache EXCEPT ![p] = [realm |-> realm, hosts |-> reg.config[realm],
                                    torn |-> \E q \in Program : prog[q].at = "write"]]
  /\ UNCHANGED <<session, reg, prog, file, stored, steps>>

\* The realm of a host or of its domain; None: the library guesses.
file_find_realm(host, domain) ==
  LET of(key) == {reg.realms[i].value : i \in {j \in 1..Len(reg.realms) : reg.realms[j].key = key}}
  IN IF of(host) # {} THEN CHOOSE r \in of(host) : TRUE
     ELSE IF of(domain) # {} THEN CHOOSE r \in of(domain) : TRUE ELSE None

-----------------------------------------------------------------------------

Init ==
  /\ session \in Session
  /\ reg = [own |-> session.own, arg |-> [k \in Printers |-> ""], default |-> session.default, config |-> session.config,
            realms |-> session.realms]
  /\ prog = [p \in Program |->
       [buf |-> [part \in Data |-> IF part \in Pages(p) /\ Stored(part) # None THEN Stored(part)
                                   ELSE AtFirst(part)],
        at |-> "idle", k |-> 0, open |-> Closed(p), save |-> FALSE, asked |-> FALSE]]
  /\ cache = [p \in Program |-> [realm |-> None, hosts |-> <<>>, torn |-> FALSE]]
  /\ file = session.file /\ stored = [r \in Realm |-> {session.config[r]}] /\ steps = 0

Values == session.values

Edits(p) ==
  \/ \E page \in Data, v \in 0..1 : SetControl(p, page, v)
  \/ \E kind \in Printers : EvPrinterChanged(p, kind)
  \/ \E arg \in Arguments \ {""} : CmPrintSetup(p, arg)
  \/ \E l \in Label, v \in Values : CmAddItem(p, l, v)
  \/ \E i \in 1..3, v \in Values : CmValueItem(p, i, v)
  \/ \E i \in 1..3, l \in Label : EvLvnEndLabelEdit(p, i, l)
  \/ \E clear \in BOOLEAN, answers \in [1..Len(file) -> {"yes", "no", "cancel"}] : CmImportRealms(p, clear, answers)
  \/ \E i \in 1..4, realm \in Realm, host \in session.hosts : AddHost(p, i, realm, host)
  \/ \E i \in 1..4, host \in session.hosts : CmChangeServer(p, i, host)
  \/ \E realm \in Realm \cup {""} : SetDefaultRealm(p, realm)
  \/ \E page \in Pages(p), i \in 1..4 : CmDeleteItem(p, page, i)
  \/ \E page \in Pages(p) : CmExport(p, page)
  \/ \E clear \in BOOLEAN : CmImportConfig(p, clear)

Closes(p) ==
  \/ Ok(p) \/ SkipPage(p) \/ ApplyData(p) \/ ApplyRealms(p) \/ ApplyConfig(p) \/ WriteConfig(p) \/ EndApply(p)
  \/ Cancel(p) \/ SaveData(p) \/ EvPropertyChangedTop(p)

Next == \E p \in Program :
  \/ CmSetup(p) \/ \E page \in Pages(p) : Turn(p, page)
  \/ Edits(p) \/ Closes(p)
  \/ \E realm \in Realm : krb_get_host(p, realm)

Spec == Init /\ [][Next]_vars

-----------------------------------------------------------------------------
(* Properties *)

\* The page of realms, or of hosts, has been written as a whole.
WroteRealms(p) == Applying(p) /\ Page(p) = "krb.realms" /\ prog[p].open[Page(p)] # None
                  /\ prog'[p].k = prog[p].k + 1

WroteConfig(p) == prog[p].at = "write" /\ prog'[p].at = "apply"

Lines(realms) == {<<realms[i].key, realms[i].value>> : i \in 1..Len(realms)}

HostLines(config) == UNION {{<<<<r, e[1]>>, e[2]>> : e \in Lines(config[r])} : r \in Realm}

\* What the registry holds after a list was written is what the user said of
\* each entry: last typed, imported or found there, and not removed, whatever
\* was there before.  An entry that was in the list twice may have the other of
\* its values: a new line is put in front, and the last that is written wins.
Agrees(meant, twice, written) == \A e \in (meant \ written) \cup (written \ meant) : e[1] \in twice

\* The lists of realms and hosts are written as the user left them, by every way
\* of editing them: in place, by a dialog, by import.
ListsAreMeant ==
  [][\A p \in Program :
       /\ (WroteRealms(p) /\ session.writable) =>
            Agrees(prog[p].open["krb.realms"].meant, prog[p].open["krb.realms"].twice, Lines(reg'.realms))
       /\ (WroteConfig(p) /\ session.writable) =>
            Agrees({m \in Config(p).meant : m[1][1] # TX_DEFAULTREALM}, Config(p).twice, HostLines(reg'.config))]_vars

InEffect(part) == IF Stored(part) # None THEN Stored(part) ELSE AtFirst(part)

\* What is in effect changes only when a program ends a sheet, in the parts that
\* are shown there and that this program was asked to change, and the lists only
\* on OK.  A program that saves before it has been told of another's change
\* undoes it.  The settings of a serial printer are stored at once.
OnlyAsked ==
  [][/\ \A part \in Data : InEffect(part)' # InEffect(part) =>
          \E p \in Program : /\ prog[p].at = "save" /\ prog[p].save
                             /\ \/ prog[p].open[part] # None
                                \/ \E q \in Program \ {p} : prog[q].at = "tell"
     /\ reg'.realms # reg.realms \/ reg'.config # reg.config \/ reg'.default # reg.default =>
          session.writable /\ \E p \in Program : prog[p].asked /\ prog[p].at \in {"apply", "write"}
     /\ \A k \in Printers \ {"serial"} : reg'.arg[k] # reg.arg[k] => \E p \in Program : prog[p].at = "apply"]_vars

\* The registry holds what users meant it to hold, and no more.
SavedIsMeant == ListsAreMeant /\ OnlyAsked

\* The hosts a program asks are a list that was set up as a whole, unless it
\* looked while another program was between deleting and writing the lists.
HostsAreWhole ==
  \A p \in Program : (cache[p].realm # None /\ ~cache[p].torn) => cache[p].hosts \in stored[cache[p].realm]
=============================================================================
