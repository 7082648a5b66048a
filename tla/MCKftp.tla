-------------------------------- MODULE MCKftp --------------------------------
(***************************************************************************)
(* Kftp: the operations of its commands, or what its window shows.  In the  *)
(* first sessions of the operations the user is patient; in the last two he *)
(* is not, and the window is late.                                          *)
(***************************************************************************)
EXTENDS KftpOperation, Functions

CONSTANTS ListSession, MaxSteps, None

VARIABLES grain, showing, fs, linked, tree, caret, cur, path, rows, load, stopped, ends, got, whole, moved, steps

kvars == vars
lvars == <<showing, fs, linked, tree, caret, cur, path, rows, load, stopped, ends, got, whole, moved, steps>>

L == INSTANCE FileLists WITH
       session <- showing, Session <- ListSession, client <- linked, cancel <- stopped, closing <- ends

ASSUME L!ListsAssumption

-----------------------------------------------------------------------------
(* Sessions of the operations *)

Plain == [commands |-> {"open"}, stops |-> {}, closes |-> FALSE, patient |-> TRUE,
          calm |-> TRUE, drops |-> FALSE, auto |-> FALSE]

Sessions ==
  { Plain,
    [Plain EXCEPT !.commands = {"open", "get", "list"}, !.stops = {"get"}],
    [Plain EXCEPT !.commands = {"open", "put", "refresh"}, !.stops = {"put"},
                  !.closes = TRUE],
    [Plain EXCEPT !.commands = {"open", "delete", "list", "mkdir"}, !.closes = TRUE],
    [Plain EXCEPT !.commands = {"open", "remote", "rename", "list"}, !.stops = {"list"}],
    [Plain EXCEPT !.commands = {"open", "list", "get"}, !.drops = TRUE],
    [Plain EXCEPT !.commands = {"open", "list", "refresh"}, !.auto = TRUE, !.stops = {"open"},
                  !.closes = TRUE],
    [Plain EXCEPT !.auto = TRUE, !.drops = TRUE],
    [Plain EXCEPT !.commands = {"open", "rename"}, !.patient = FALSE, !.closes = TRUE],
    [Plain EXCEPT !.commands = {"open", "remote"}, !.calm = FALSE] }

-----------------------------------------------------------------------------
(* Servers and what users do with them *)

Entry(kind, name, to) == [kind |-> kind, name |-> name, to |-> to]
File(name) == Entry("-", name, <<>>)
Dir(name) == Entry("d", name, <<>>)

A == <<"a">>
B == <<"b">>
C == <<"my", "file">>
D == <<"D">>
X == <<"x", ".c", ";1">>

OnUnix ==
  [system |-> "UNIX", home |-> <<A>>, may |-> {}, names |-> {}, typed |-> {}, grouped |-> TRUE, long |-> {},
   files |-> (<<>> :> {Dir(A), Dir(B), File(C)} @@ <<A>> :> {Dir(A), Dir(B), File(C)} @@ <<A, B>> :> {}
              @@ <<B>> :> {File(A)} @@ <<A, A>> :> {Dir(B)} @@ <<A, A, B>> :> {})]

WithLinks == [OnUnix EXCEPT !.files[<<A, A>>] = {Entry("l", B, <<B>>), File(A)}]

OnVms ==
  [OnUnix EXCEPT !.system = "VMS", !.home = <<D, A, B>>, !.long = {B, X},
     !.files = (<<D>> :> {Dir(A)} @@ <<D, A>> :> {Dir(B), File(X)} @@ <<D, A, B>> :> {Dir(B), Dir(A), File(X)}
                @@ <<D, A, B, A>> :> {} @@ <<D, A, B, B>> :> {File(X)})]

Looks == {"open", "select", "open dir", "open link", "up", "expand", "get"}

Unwatched == OnUnix

ListSessions ==
  { Unwatched,
    [WithLinks EXCEPT !.may = Looks \cup {"path"}, !.typed = {<<"/", "b">>, <<"/", "x", "/", "a">>}, !.grouped = FALSE],
    [OnUnix EXCEPT !.may = {"open", "rename", "delete", "mkdir", "put"}, !.names = {A, <<"c">>}, !.home = <<A, A>>],
    [OnUnix EXCEPT !.may = {"open", "select", "expand", "rename", "delete", "mkdir"}, !.names = {<<"c">>}],
    [OnUnix EXCEPT !.may = {"open", "refresh", "stop", "cut", "close", "refuse", "expand", "select"}],
    [OnUnix EXCEPT !.may = {"open", "rename node", "select", "delete"}, !.names = {<<"c">>}],
    [OnVms EXCEPT !.may = Looks \cup {"refresh"}],
    [OnVms EXCEPT !.may = {"open", "rename", "delete", "mkdir", "expand", "open dir"}, !.names = {<<"C">>}] }

-----------------------------------------------------------------------------

MCInit ==
  /\ Init /\ L!Init
  /\ \/ grain = "operations" /\ showing = Unwatched
     \/ grain = "lists" /\ session = Plain /\ showing # Unwatched


MCNext ==
  \/ grain = "operations" /\ Next /\ UNCHANGED <<grain, lvars>>
  \/ grain = "lists" /\ L!Next /\ UNCHANGED <<grain, kvars>>

MCSpec ==
  /\ MCInit /\ [][MCNext]_<<grain, kvars, lvars>>
  /\ WF_kvars(grain = "operations" /\ Windows) /\ WF_kvars(grain = "operations" /\ Machines)
  /\ WF_kvars(grain = "operations" /\ Arrive)

-----------------------------------------------------------------------------
(* The property of the lists, under its name *)

ActsWhereShown == L!ActsWhereShown
=============================================================================
