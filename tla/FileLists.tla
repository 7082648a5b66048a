------------------------------- MODULE FileLists ------------------------------
(***************************************************************************)
(* What the window of Kftp shows of a server: a tree of directories, the    *)
(* list of the current one, its path in the title and in the edit field.    *)
(* The tree and the path are translated into each other, and lines of a     *)
(* listing into entries, by a filter for the server's system.               *)
(*                                                                         *)
(* A text is a sequence of words, separators among them.  The operations   *)
(* of a command happen in one step (KftpOperation is about them); a listing *)
(* is read line by line, with messages dispatched in between.               *)
(***************************************************************************)
EXTENDS Integers, Sequences, SequencesExt, FiniteSets, Functions

CONSTANTS
  Session,
  MaxSteps,  \* bound: commands of the user
  None       \* nothing: a value of its own

\* system: of the server.  files: its directories at first.  home: where a login
\* gets to.  may: what the user does.  names: of new files and directories, typed:
\* paths for the edit field.  grouped: whether lines name a group.  long: names
\* that take a line of their own.
ListsAssumption ==
  /\ MaxSteps \in Nat
  /\ \A s \in Session :
       /\ DOMAIN s = {"system", "files", "home", "may", "names", "typed", "grouped", "long"}
       /\ s.system \in {"UNIX", "VMS"} /\ s.home \in DOMAIN s.files

VARIABLES
  session,
  fs,      \* the server: the entries of each directory
  client,  \* whether there is a connection
  tree,    \* the nodes of the tree by their handles
  caret,   \* the node that is selected
  cur,     \* CurrentHTreeItem
  path,    \* CurrentPath
  rows,    \* the list
  load,    \* the listing that is being read
  cancel,  \* CancelOper
  closing, \* CloseConnection
  got,     \* what the last download was of
  whole,   \* whether the list was read to its end
  moved,   \* whether the label of a node was changed in the tree since a path was set
  steps

shown == <<tree, caret, cur, path>>
vars == <<session, fs, client, shown, rows, load, cancel, closing, got, whole, moved, steps>>

Unix == session.system = "UNIX"
TOP_DIR == <<"_$TOP$_">>
HostName == <<"host">>

-----------------------------------------------------------------------------
(* Paths *)

\* What strtok_r finds, call after call.
strtok(text, seps) ==
  LET step(acc, w) == CASE w \notin seps -> [acc EXCEPT ![Len(acc)] = Append(@, w)]
                        [] w \in seps /\ Last(acc) = <<>> -> acc
                        [] w \in seps /\ Last(acc) # <<>> -> Append(acc, <<>>)
  IN SelectSeq(FoldLeft(step, <<<<>>>>, text), LAMBDA t : t # <<>>)

After(text, w) == LET i == CHOOSE k \in 1..Len(text) : text[k] = w IN SubSeq(text, i + 1, Len(text))

\* The parts of a path, and the directories of VMS as one of them.
GetDirPart(text) ==
  <<TOP_DIR>> \o (IF Unix THEN strtok(text, {"/"})
                  ELSE <<Head(strtok(text, {":", "["}))>>
                       \o (IF ":" \in ToSet(text) THEN strtok(After(text, ":"), {"[", ",", "]"}) ELSE <<>>))

AddPathUnix(text, part) ==
  (IF text = <<"/">> THEN text ELSE text \o <<"/">>) \o (IF part = TOP_DIR THEN <<>> ELSE part)

\* VmsFilter::AddPath: a device, and the first and the next directories.
AddPathVms(acc, part) ==
  CASE part = TOP_DIR -> [acc EXCEPT !.next = "device"]
    [] part # TOP_DIR /\ acc.next = "device" -> [text |-> acc.text \o part \o <<":">>, next |-> "dir1"]
    [] part # TOP_DIR /\ acc.next = "dir1" -> [text |-> acc.text \o <<"[">> \o part, next |-> "dir"]
    [] part # TOP_DIR /\ acc.next = "dir" -> [acc EXCEPT !.text = @ \o <<".">> \o part]

\* Nothing for a device without a directory.
GetPath(parts) ==
  IF Unix THEN FoldLeft(AddPathUnix, <<>>, parts)
  ELSE LET v == FoldLeft(AddPathVms, [text |-> <<>>, next |-> "done"], parts)
       IN IF v.next = "dir" THEN v.text \o <<"]">> ELSE None

\* A slip: the directory is left out.
BuildFileNameBare(text, name) == IF Unix THEN <<"/">> \o name ELSE name

BuildFileName(text, name) == IF Unix THEN text \o <<"/">> \o name ELSE text \o name

-----------------------------------------------------------------------------
(* The server *)

Entry(kind, name, to) == [kind |-> kind, name |-> name, to |-> to]

Links(dir) == IF dir \in DOMAIN fs THEN {e \in fs[dir] : e.kind = "l"} ELSE {}

\* The directory of a path; links are followed.
Resolve(text) ==
  LET into(dir, part) ==
        IF \E e \in Links(dir) : e.name = part THEN (CHOOSE e \in Links(dir) : e.name = part).to ELSE Append(dir, part)
  IN FoldLeft(into, <<>>, strtok(text, {"/", ":", "[", ".", "]"}))

Group == IF session.grouped THEN <<<<"users">>>> ELSE <<>>

Word(name) == [i \in 1..Len(name) |-> <<name[i]>>]

\* The lines for an entry: on VMS the information may come on the next.
Lines(e) ==
  CASE Unix -> <<<<<<e.kind>>, <<"1">>, <<"me">>>> \o Group \o <<<<"12">>, <<"Jan">>, <<"2">>, <<"2000">>>> \o Word(e.name)
                 \o (IF e.kind = "l" THEN <<<<"->">>>> \o Word(Last(e.to)) ELSE <<>>)>>
    [] ~Unix -> LET name == IF e.kind = "d" THEN e.name \o <<".DIR", ";1">> ELSE e.name
                IN IF e.name \in session.long THEN <<<<name>>, <<<<"3">>>>>> ELSE <<<<name, <<"3">>>>>>

Heading(dir) ==
  CASE Unix -> <<<<<<"total">>, <<"12">>>>>> \o Lines(Entry("d", <<".">>, <<>>)) \o Lines(Entry("d", <<"..">>, <<>>))
    [] ~Unix /\ fs[dir] # {} -> <<<<<<"Directory">>>>>>
    [] ~Unix /\ fs[dir] = {} -> <<<<<<"*", ".*", ";0">>, <<"<%RMS">>>>>>

Listing(dir) == Heading(dir) \o FlattenSeq([i \in 1..Cardinality(fs[dir]) |-> Lines(SetToSeq(fs[dir])[i])])

-----------------------------------------------------------------------------
(* Lines of a listing *)

Months == {<<"Jan">>}

Nothing == [type |-> "unknown", name |-> None]
Parsed(type, name) == [type |-> type, name |-> name]

\* A slip: a line always names a group.
NameAtGrouped(line) == 9

\* The name comes behind the year; a month is told from a size by its letter.
NameAt(line) == IF line[5] \in Months THEN 8 ELSE 9

ParseUnix(line) ==
  IF Len(line) < 5 \/ Len(line) < NameAt(line) THEN Nothing
  ELSE LET text == SubSeq(line, NameAt(line), Len(line))
           arrow == <<"->">> \in ToSet(text)
           name == FlattenSeq(IF arrow /\ line[1] = <<"l">> THEN SubSeq(text, 1, Len(text) - Len(After(text, <<"->">>)) - 1) ELSE text)
       IN CASE line[1] = <<"d">> -> IF name \in {<<".">>, <<"..">>} THEN Nothing ELSE Parsed("dir", name)
            [] line[1] = <<"l">> /\ arrow -> IF name = <<>> \/ After(text, <<"->">>) = <<>> THEN Nothing ELSE Parsed("link", name)
            [] line[1] # <<"d">> /\ ~(line[1] = <<"l">> /\ arrow) -> Parsed("file", name)

Versioned(name) == name # <<>> /\ Last(name) \in {";0", ";1", ";2", ";3"}

\* What a VMS name and its information are.
ParseInfo(name, info) ==
  CASE name[1] = "*" /\ info # <<>> /\ Head(info) = <<"<%RMS">> -> Nothing
    [] name[1] # "*" /\ ".DIR" \in ToSet(name) -> Parsed("dir", SubSeq(name, 1, Len(name) - 2))
    [] name[1] # "*" /\ ".DIR" \notin ToSet(name) -> Parsed("file", name)

\* half: the name of the line before, if that had nothing else.
ParseVms(half, line) ==
  CASE half # None -> ParseInfo(half, line)
    [] half = None /\ ~Versioned(Head(line)) -> Nothing
    [] half = None /\ Versioned(Head(line)) /\ Len(line) = 1 -> Parsed("incomplete", Head(line))
    [] half = None /\ Versioned(Head(line)) /\ Len(line) > 1 -> ParseInfo(Head(line), Tail(line))

ParseData(half, line) == IF Unix THEN ParseUnix(line) ELSE ParseVms(half, line)

-----------------------------------------------------------------------------
(* The tree *)

GetTreeNode(t, parent, name) == {n \in DOMAIN t : t[n].parent = parent /\ t[n].name = name}

\* The handle of a new node may be that of a deleted one.
Unused(t) == CHOOSE n \in 1..(Cardinality(DOMAIN t) + 1) : n \notin DOMAIN t

\* AddDir: the tree with the node, and the node.
AddDir(t, parent, part) ==
  LET name == IF parent = 0 /\ part = TOP_DIR THEN HostName ELSE part
      found == GetTreeNode(t, parent, name)
  IN IF found # {} THEN [tree |-> t, node |-> CHOOSE n \in found : TRUE]
     ELSE [tree |-> (Unused(t) :> [name |-> name, parent |-> parent, button |-> TRUE]) @@ t, node |-> Unused(t)]

\* AddPath, but for the selection.
Added(t, text) ==
  LET into(acc, part) == AddDir(acc.tree, acc.node, part)
  IN FoldLeft(into, [tree |-> t, node |-> 0], GetDirPart(text))

\* RecBuildPath: the labels from the host to a node.
Chain(t, node) ==
  LET parts[n \in {0} \cup DOMAIN t] ==
        IF n = 0 THEN <<>> ELSE Append(parts[t[n].parent], IF t[n].parent = 0 THEN TOP_DIR ELSE t[n].name)
  IN parts[node]

BuildPath(t, node) == IF node = 0 THEN None ELSE GetPath(Chain(t, node))

Below(t, node) == {n \in DOMAIN t : \E k \in DOMAIN t : k = node /\ IsPrefix(Chain(t, k), Chain(t, n))}

-----------------------------------------------------------------------------
(* Listings *)

Counted(what) == what \in session.may /\ steps < MaxSteps /\ steps' = steps + 1

Reading == load # None
Idle == ~Reading

\* LoadList and SelChanged, from a tree and a selection on: the list is empty by now.
LoadList(node, text, all) ==
  LET dir == Resolve(text)
  IN \/ /\ dir \in DOMAIN fs
        /\ load' = [node |-> node, lines |-> Listing(dir), all |-> all, dirs |-> 0, half |-> None, whole |-> TRUE]
     \/ /\ dir \notin DOMAIN fs \/ "refuse" \in session.may
        /\ load' = load

ClearListWindow == rows' = {} /\ whole' = FALSE

\* Nothing is said of the node that is selected already.
Select(t, node) ==
  /\ tree' = t /\ caret' = node
  /\ LET text == BuildPath(t, node)
     IN IF node = caret THEN UNCHANGED <<cur, path, rows, load, whole, moved>>
        ELSE /\ ClearListWindow
             /\ IF text = None THEN UNCHANGED <<cur, path, load, moved>>
                ELSE path' = text /\ cur' = node /\ moved' = FALSE /\ LoadList(node, text, TRUE)
  /\ UNCHANGED <<session, fs, client, cancel, closing, got>>

CmOpenConnection ==
  /\ ~client /\ Idle /\ Counted("open")
  /\ LET home == IF Unix THEN FoldLeft(AddPathUnix, <<>>, <<TOP_DIR>> \o session.home)
                 ELSE Head(session.home) \o <<":", "[">> \o FlattenSeq([i \in 1..2 * Len(session.home) - 3 |->
                        IF i % 2 = 0 THEN <<".">> ELSE session.home[(i + 3) \div 2]]) \o <<"]">>
         a == Added(tree, home)
     IN /\ tree' = a.tree /\ caret' = a.node /\ ClearListWindow
        /\ path' = BuildPath(a.tree, a.node) /\ cur' = a.node /\ moved' = FALSE
        /\ LoadList(a.node, BuildPath(a.tree, a.node), TRUE)
  /\ client' = TRUE
  /\ UNCHANGED <<session, fs, cancel, closing, got>>

\* A click in the tree; SelChange refuses it while a listing is read.
SelChanged(node) == client /\ Idle /\ Counted("select") /\ Select(tree, node)

CmUpDir ==
  /\ client /\ Idle /\ path # <<>> /\ tree[cur].parent # 0 /\ Counted("up")
  /\ Select(tree, tree[cur].parent)

\* The edit field of the frame.
EvSetParentInfo(text) ==
  /\ client /\ Idle /\ Counted("path")
  /\ LET a == Added(tree, text) IN Select(a.tree, a.node)

ListExpand(node) ==
  /\ client /\ Idle /\ tree[node].button /\ {n \in DOMAIN tree : tree[n].parent = node} = {} /\ Counted("expand")
  /\ BuildPath(tree, node) # None /\ LoadList(node, BuildPath(tree, node), FALSE)
  /\ UNCHANGED <<session, fs, client, shown, rows, cancel, closing, got, whole, moved>>

\* F5, at any time; the list is cleared before the lock is asked for.
CmRefresh ==
  /\ Counted("refresh") /\ ClearListWindow
  /\ CASE Reading -> load' = [load EXCEPT !.whole = FALSE]
       [] Idle /\ client -> LoadList(cur, path, TRUE)
       [] Idle /\ ~client -> load' = load
  /\ UNCHANGED <<session, fs, client, shown, cancel, closing, got, moved>>

AddEntry(e) == load.all /\ e.type \in {"file", "dir", "link"}

\* A line has come.
ReadLine ==
  /\ Reading /\ ~cancel /\ load.lines # <<>>
  /\ LET e == ParseData(load.half, Head(load.lines))
     IN /\ load' = [load EXCEPT !.lines = Tail(@), !.half = IF e.type = "incomplete" THEN e.name ELSE None,
                                !.dirs = @ + (IF e.type = "dir" THEN 1 ELSE 0)]
        /\ tree' = IF e.type = "dir" THEN AddDir(tree, load.node, e.name).tree ELSE tree
        /\ rows' = IF AddEntry(e) THEN rows \cup {e} ELSE rows
  /\ UNCHANGED <<session, fs, client, caret, cur, path, cancel, closing, got, whole, moved, steps>>

\* The data connection ends early.
Cut ==
  /\ Reading /\ load.lines # <<>> /\ Counted("cut")
  /\ load' = [load EXCEPT !.lines = <<>>, !.whole = FALSE]
  /\ UNCHANGED <<session, fs, client, shown, rows, cancel, closing, got, whole, moved>>

\* ConnectionUpdate; the handle of the current node stays.
Disconnected ==
  /\ client' = FALSE /\ tree' = <<>> /\ caret' = 0 /\ path' = <<>> /\ rows' = {} /\ whole' = FALSE /\ closing' = FALSE
  /\ UNCHANGED <<cur, moved>>

\* The end of the listing, or of patience; then a close that had to wait.
EndLoad ==
  /\ Reading /\ (cancel \/ load.lines = <<>>)
  /\ load' = None /\ cancel' = FALSE
  /\ IF closing THEN Disconnected
     ELSE /\ tree' = [tree EXCEPT ![load.node].button = load.dirs > 0]
          /\ whole' = IF load.all THEN load.whole /\ ~cancel ELSE whole
          /\ UNCHANGED <<client, caret, cur, path, rows, closing, moved>>
  /\ UNCHANGED <<session, fs, got, steps>>

CmStop ==
  /\ Reading /\ ~cancel /\ Counted("stop")
  /\ cancel' = TRUE
  /\ UNCHANGED <<session, fs, client, shown, rows, load, closing, got, whole, moved>>

\* By the user, or because the connection is gone.
CmCloseConnection ==
  /\ client /\ Counted("close")
  /\ IF Reading THEN cancel' = TRUE /\ closing' = TRUE /\ UNCHANGED <<client, shown, rows, whole, moved>>
     ELSE Disconnected /\ UNCHANGED cancel
  /\ UNCHANGED <<session, fs, load, got>>

-----------------------------------------------------------------------------
(* Commands about entries *)

Ready == client /\ Idle /\ path # <<>>

\* foCwd with the current path, before what a command is about.
Here == Resolve(path)

\* A double click, or Enter, or Open.
FileDClick(row) ==
  /\ client /\ Idle /\ row \in rows
  /\ CASE row.type = "dir" ->
            /\ Counted("open dir") /\ GetTreeNode(tree, cur, row.name) # {}
            /\ Select(tree, CHOOSE n \in GetTreeNode(tree, cur, row.name) : TRUE)
       [] row.type = "link" ->
            /\ Counted("open link")
            /\ LET a == Added(tree, GetPath(Append(Chain(tree, cur), row.name))) IN Select(a.tree, a.node)
       [] row.type = "file" ->
            /\ Counted("get") /\ got' = {BuildFileName(path, row.name)}
            /\ UNCHANGED <<session, fs, client, shown, rows, load, cancel, closing, whole, moved>>

\* Several are selected: the ones that are no files are passed over.
CmOpenDownload(sel) ==
  /\ Ready /\ sel \subseteq rows /\ Cardinality(sel) > 1 /\ Counted("get")
  /\ got' = {BuildFileName(path, r.name) : r \in {x \in sel : x.type = "file"}}
  /\ UNCHANGED <<session, fs, client, shown, rows, load, cancel, closing, whole, moved>>

Named(dir, name) == {e \in fs[dir] : e.name = name}

\* The server after a rename: what is below a directory goes with it.
Renamed(dir, old, new) ==
  LET from == Append(dir, old)
      key(d) == IF IsPrefix(from, d) THEN Append(dir, new) \o SubSeq(d, Len(from) + 1, Len(d)) ELSE d
      entry(d, e) == IF d = dir /\ e.name = old THEN [e EXCEPT !.name = new] ELSE e
  IN [k \in {key(d) : d \in DOMAIN fs} |-> LET d == CHOOSE x \in DOMAIN fs : key(x) = k IN {entry(d, e) : e \in fs[d]}]

\* RNFR and RNTO in a directory: done, or not.
CanRename(dir, old, new) == dir \in DOMAIN fs /\ Named(dir, old) # {} /\ Named(dir, new) = {}

EvLvnEndLabelEdit(row, new) ==
  /\ Ready /\ row \in rows /\ new # row.name /\ Counted("rename")
  /\ ~\E r \in rows : r.name = new
  /\ IF CanRename(Here, row.name, new)
     THEN /\ fs' = Renamed(Here, row.name, new)
          /\ tree' = [n \in DOMAIN tree |-> IF n \in GetTreeNode(tree, cur, row.name) THEN [tree[n] EXCEPT !.name = new] ELSE tree[n]]
          /\ rows' = (rows \ {row}) \cup {[row EXCEPT !.name = new]}
     ELSE UNCHANGED <<fs, tree, rows>>
  /\ UNCHANGED <<session, client, caret, cur, path, load, cancel, closing, got, whole, moved>>

\* In the tree: neither the list nor the current path is changed.
EvTvnEndLabelEdit(node, new) ==
  /\ Ready /\ node \in DOMAIN tree /\ tree[node].parent # 0 /\ new # tree[node].name /\ Counted("rename node")
  /\ GetTreeNode(tree, tree[node].parent, new) = {}
  /\ LET above == BuildPath(tree, tree[node].parent)
     IN IF above # None /\ CanRename(Resolve(above), tree[node].name, new)
        THEN fs' = Renamed(Resolve(above), tree[node].name, new) /\ tree' = [tree EXCEPT ![node].name = new] /\ moved' = TRUE
        ELSE UNCHANGED <<fs, tree, moved>>
  /\ UNCHANGED <<session, client, caret, cur, path, rows, load, cancel, closing, got, whole>>

\* A directory must be empty.
Deletable(row) ==
  /\ Named(Here, row.name) # {}
  /\ row.type = "dir" => Append(Here, row.name) \in DOMAIN fs /\ fs[Append(Here, row.name)] = {}

NodesOf(gone) == UNION {Below(tree, n) : n \in UNION {GetTreeNode(tree, cur, r.name) : r \in {x \in gone : x.type = "dir"}}}

CmDeleteFile(sel) ==
  /\ client /\ Idle /\ sel \subseteq rows /\ sel # {} /\ Here \in DOMAIN fs /\ Counted("delete")
  /\ LET gone == {r \in sel : Deletable(r)}
         left == [d \in DOMAIN fs \ {Append(Here, r.name) : r \in {x \in gone : x.type = "dir"}} |-> fs[d]]
     IN /\ fs' = [left EXCEPT ![Here] = {e \in @ : \A r \in gone : r.name # e.name}]
        /\ rows' = rows \ gone
        /\ tree' = Restrict(tree, DOMAIN tree \ NodesOf(gone))
  /\ UNCHANGED <<session, client, caret, cur, path, load, cancel, closing, got, whole, moved>>

\* CmRefresh, or the end of CmUpload, with the new contents of the server.
Refreshed ==
  /\ ClearListWindow
  /\ \/ load' = [node |-> cur, lines |-> (IF Here \in DOMAIN fs' THEN Heading(Here) \o
                    FlattenSeq([i \in 1..Cardinality(fs'[Here]) |-> Lines(SetToSeq(fs'[Here])[i])]) ELSE <<>>),
                 all |-> TRUE, dirs |-> 0, half |-> None, whole |-> TRUE]
     \/ "refuse" \in session.may /\ load' = load

\* Nothing more happens if the directory is not made.
CmMkDir(name) ==
  /\ Ready /\ Here \in DOMAIN fs /\ Counted("mkdir")
  /\ Named(Here, name) = {}
  /\ fs' = (Append(Here, name) :> {}) @@ [fs EXCEPT ![Here] = @ \cup {Entry("d", name, <<>>)}]
  /\ Refreshed
  /\ UNCHANGED <<session, client, shown, cancel, closing, got, moved>>

\* What the dialog returns: a name, or names in quotes.
Selection(names) ==
  IF Len(names) = 1 THEN names[1]
  ELSE FlattenSeq([i \in 1..Len(names) |-> <<"'">> \o names[i] \o <<"'", " ">>])

\* NotifyClosing: the name, or what is between a quote and the next.
Picked(spec) ==
  LET step(acc, w) == CASE w = "'" /\ acc.open -> [acc EXCEPT !.open = FALSE]
                        [] w = "'" /\ ~acc.open -> [open |-> TRUE, names |-> Append(acc.names, <<>>)]
                        [] w # "'" /\ acc.open -> [acc EXCEPT !.names[Len(acc.names)] = Append(@, w)]
                        [] w # "'" /\ ~acc.open -> acc
  IN IF "'" \in ToSet(spec) THEN FoldLeft(step, [open |-> FALSE, names |-> <<>>], spec).names ELSE <<spec>>

\* The files of a selection one after the other, up to the first that fails.
CmUpload(names) ==
  /\ Ready /\ Here \in DOMAIN fs /\ Counted("put")
  /\ \E n \in 0..Len(names) :
       LET put == {Picked(Selection(names))[i] : i \in 1..n}
       IN /\ \A name \in put : \A e \in Named(Here, name) : e.kind = "-"
          /\ fs' = [fs EXCEPT ![Here] = @ \cup {Entry("-", name, <<>>) : name \in put}]
  /\ Refreshed
  /\ UNCHANGED <<session, client, shown, cancel, closing, got, moved>>

-----------------------------------------------------------------------------

Init ==
  /\ session \in Session /\ fs = session.files
  /\ client = FALSE /\ tree = <<>> /\ caret = 0 /\ cur = 0 /\ path = <<>> /\ rows = {} /\ load = None
  /\ cancel = FALSE /\ closing = FALSE /\ got = {} /\ whole = FALSE /\ moved = FALSE /\ steps = 0

Next ==
  \/ CmOpenConnection \/ CmUpDir \/ CmRefresh \/ CmStop \/ CmCloseConnection
  \/ ReadLine \/ Cut \/ EndLoad
  \/ \E node \in DOMAIN tree : SelChanged(node) \/ ListExpand(node)
  \/ \E text \in session.typed : EvSetParentInfo(text)
  \/ \E row \in rows : FileDClick(row)
  \/ \E sel \in SUBSET rows : CmOpenDownload(sel) \/ CmDeleteFile(sel)
  \/ \E row \in rows, name \in session.names : EvLvnEndLabelEdit(row, name)
  \/ \E node \in DOMAIN tree, name \in session.names : EvTvnEndLabelEdit(node, name)
  \/ \E name \in session.names : CmMkDir(name)
  \/ \E a, b \in session.names : CmUpload(IF a = b THEN <<a>> ELSE <<a, b>>)

Spec == Init /\ [][Next]_vars

-----------------------------------------------------------------------------
(* Properties *)

RowOf(e) == Parsed(CASE e.kind = "d" -> "dir" [] e.kind = "l" -> "link" [] e.kind \notin {"d", "l"} -> "file", e.name)

\* A list that was read to its end is what the server has in the current
\* directory, whatever was deleted, renamed, made or sent since; each of its
\* directories has its node.  A label changed in the tree is not seen by the list.
ListIsThere ==
  (client /\ Idle /\ whole /\ ~moved) =>
    /\ Here \in DOMAIN fs /\ rows = {RowOf(e) : e \in fs[Here]}
    /\ \A r \in rows : r.type = "dir" => GetTreeNode(tree, cur, r.name) # {}

\* The path commands are given with is that of the node that is shown as the
\* current one, and the nodes of the tree are directories of the server, each
\* with one node; but for what was typed or renamed in the tree.
TreeIsThere ==
  (client /\ ~moved) =>
    /\ path # <<>> => path = BuildPath(tree, cur)
    /\ \A n, k \in DOMAIN tree : Chain(tree, n) = Chain(tree, k) => n = k
    /\ "path" \notin session.may =>
         \A n \in DOMAIN tree : BuildPath(tree, n) # None => Resolve(BuildPath(tree, n)) \in DOMAIN fs

\* The window shows what is there, and a command changes only the directory that
\* is shown as the current one, or, for a label in the tree, the one above its
\* node, and gets files of that list.
ActsWhereShown ==
  /\ [](ListIsThere /\ TreeIsThere)
  /\ [][/\ ~moved /\ fs' # fs =>
             \A d \in DOMAIN fs \cap DOMAIN fs' : fs'[d] # fs[d] =>
               \/ d = Resolve(BuildPath(tree, cur))
               \/ \E n \in DOMAIN tree' : tree'[n] # tree[n] /\ d = Resolve(BuildPath(tree, tree[n].parent))
        /\ ~moved /\ got' # got =>
             \A text \in got' : \E r \in rows :
               r.type = "file" /\ strtok(text, {"/", ":", "[", "]"}) = strtok(BuildPath(tree, cur), {"/", ":", "[", "]"}) \o <<r.name>>
       ]_vars
=============================================================================
