---------------------------- MODULE KftpOperation ----------------------------
(***************************************************************************)
(* Kftp: the commands of FTPClientWindow, each a sequence of operations     *)
(* that FTPHandler::Operation hands to the thread of FTPMachine.            *)
(*                                                                         *)
(* Operation keeps its block (CommandBlock) on the stack of the window's    *)
(* thread and dispatches messages until the block is Done.  So a command    *)
(* can begin inside another one, and `stack' holds those that have begun,   *)
(* the innermost last.  The machine has one pointer to a block (cb) and     *)
(* one flag (NewCommand); it reads cb again when it writes the result.      *)
(* CommandLock keeps most commands, not all, from beginning inside another. *)
(***************************************************************************)
EXTENDS Integers, Sequences, FiniteSets, SequencesExt

CONSTANTS
  Session,     \* what the user may do, and what may happen meanwhile
  MaxCommands, \* bound: commands given, the connection's opening among them
  MaxFiles     \* bound: files of a transfer or a deletion

Locking   == {"list", "refresh", "get", "put", "delete", "remote"}
Unlocked  == {"open", "mkdir", "rename"}

\* commands: what is given; stops: where Stop is pressed; patient: what
\* knows no lock is not begun inside a command, nor anything inside it; calm: while the window sleeps for
\* 100 ms the machine is done with a command whose result it has set; auto:
\* KFTPAutoAuth is set; a server may authenticate or not.
ASSUME KftpAssumption ==
  /\ MaxCommands \in Nat \ {0} /\ MaxFiles \in Nat \ {0}
  /\ \A s \in Session :
       /\ DOMAIN s = {"commands", "stops", "closes", "patient", "calm", "drops", "auto"}
       /\ s.commands \subseteq Locking \cup Unlocked
       /\ s.stops \subseteq Locking \cup {"open"}
       /\ {s.closes, s.patient, s.calm, s.drops, s.auto} \subseteq BOOLEAN

VARIABLES
  session,
  stack,      \* the commands under way
  client,     \* FtpClient: the number of the handler, 0 for none
  lock,       \* the semaphore CmdProgress
  cancel,     \* CancelOper
  closing,    \* CloseConnection
  infos,      \* how often the list of FileInfo was cleared
  posted,     \* CM_CLOSECONN in the window's queue
  given,      \* commands begun by the user
  crashed,    \* a deleted object or a null pointer was used
  at,         \* where the machine's thread is
  cb,         \* the block it points to, by its place on the stack
  newCommand, \* NewCommand
  job,        \* the operation it executes
  abort,      \* AbortSemaphore
  terminate,  \* ShouldTerminate
  up,         \* the control connection
  late,       \* replies of the server under way that no operation waits for
  unread      \* those that have arrived

window  == <<stack, client, lock, cancel, closing, infos, given, crashed>>
machine == <<at, cb, newCommand, job, terminate>>
wire    == <<up, late, unread>>
vars == <<session, window, posted, machine, abort, wire>>

Init ==
  /\ session \in Session
  /\ stack = <<>> /\ client = 0 /\ lock = FALSE /\ cancel = FALSE /\ closing = FALSE
  /\ infos = 0 /\ posted = 0 /\ given = 0 /\ crashed = FALSE
  /\ at = "ended" /\ cb = 0 /\ newCommand = FALSE /\ job = "none"
  /\ abort = FALSE /\ terminate = FALSE
  /\ up = FALSE /\ late = 0 /\ unread = 0

-----------------------------------------------------------------------------
(* The commands *)

Times(n, op) == [i \in 1..n |-> op]

\* What a command does, in order: operations of the machine, and the window's
\* own steps.  The opening holds the lock from "auth" to "unlock" only.
Steps(c, n) ==
  CASE c = "open"    -> <<"renew", "login", "cmd", "auth", "dialog", "kauth", "unlock", "getcwd", "load">>
    [] c \in {"list", "refresh"} -> <<"getlist", "read", "clear", "unlock">>
    [] c = "get"     -> <<"getmode", "binary">> \o Times(n, "get") \o <<"clear", "unlock">>
    [] c = "put"     -> <<"getmode", "binary", "cwd">> \o Times(n, "put")
                          \o <<"clear", "unlock", "refresh">>
    [] c = "delete"  -> <<"cwd">> \o Times(n, "delete") \o <<"unlock">>
    [] c = "mkdir"   -> <<"cwd", "mkdir", "refresh">>
    [] c = "rename"  -> <<"cwd", "rename">>
    [] c = "remote"  -> <<"klist", "unlock">>
    [] c = "close"   -> <<>>

Local == {"getmode", "binary"}               \* operations without the server
Twice == {"cmd", "klist"}                    \* operations that set two results
Asked == {"login", "getcwd", "getlist", "cwd", "get", "put", "delete", "mkdir",
          "rename", "kauth"} \cup Twice               \* operations that ask the server
Operations == Local \cup Asked

Frame(c, n) ==
  [cmd |-> c, todo |-> Steps(c, n), phase |-> "next", op |-> "none", done |-> FALSE,
   ok |-> FALSE, note |-> FALSE, by |-> "none", asks |-> FALSE,
   client |-> 0, infos |-> infos]

Top      == stack[Len(stack)]
SetTop(f) == stack' = [stack EXCEPT ![Len(stack)] = f]
Goto(todo) == [Top EXCEPT !.todo = todo, !.phase = "next", !.op = "none"]

\* The steps from the first one of that name on.
From(todo, step) ==
  LET i == CHOOSE k \in 1..Len(todo) : todo[k] = step /\ \A j \in 1..(k-1) : todo[j] # step
  IN SubSeq(todo, i, Len(todo))

\* Where a command goes on when the operation at its head has returned.
Onward(f) ==
  LET op == Head(f.todo) rest == Tail(f.todo) IN
  CASE f.cmd = "open" /\ ~f.ok /\ op # "kauth" ->
                                   IF op = "login" /\ f.note THEN <<"again">> \o rest
                                   ELSE <<"close">>
    [] f.cmd \in {"list", "refresh"} /\ ~f.ok       -> <<"unlock">>
    [] f.cmd \in {"get", "put"} /\ op # f.cmd /\ ~f.ok -> <<"unlock">>
    [] f.cmd = "put" /\ op = "put" /\ (~f.ok \/ cancel) -> From(rest, "clear")
    [] f.cmd = "delete" /\ op = "cwd" /\ ~f.ok      -> <<"unlock">>
    [] f.cmd \in {"mkdir", "rename"} /\ ~f.ok       -> <<>>
    [] OTHER -> rest

-----------------------------------------------------------------------------
(* Messages: Operation and the reading of a list dispatch them *)

Doing(step) == /\ stack # <<>> /\ ~crashed /\ Top.phase = "next"
               /\ Top.todo # <<>> /\ Head(Top.todo) = step

Pumping == ~crashed /\ (stack # <<>> => Top.phase \in {"wait", "read"})

\* A slip: the lock is taken whether it is held or not.
AllowedAlways(c) == TRUE

\* CommandLock, and the tests of CmMkDir and SelChange
Allowed(c) == c \in Locking \cup {"mkdir"} => ~lock

\* A command of the user.  Refresh clears the list before it tries the lock.
Give(c) ==
  /\ Pumping /\ posted = 0 /\ given < MaxCommands
  /\ c \in session.commands
  /\ session.patient /\ stack # <<>> => lock /\ c \notin {"open", "rename"}
  /\ IF c = "open" THEN client = 0 \/ ~up ELSE client # 0
  /\ Allowed(c) \/ c = "refresh"
  /\ given' = given + 1
  /\ infos' = IF c = "refresh" \/ c = "list" THEN infos + 1 ELSE infos
  /\ IF Allowed(c)
     THEN /\ \E n \in 1..MaxFiles :
               /\ n = 1 \/ c \in {"get", "put", "delete"}
               /\ stack' = Append(stack, [Frame(c, n) EXCEPT !.infos = infos'])
          /\ lock' = (lock \/ c \in Locking)
     ELSE UNCHANGED <<stack, lock>>
  /\ UNCHANGED <<session, client, cancel, closing, posted, crashed, machine, abort, wire>>

\* CmStop; SetAbort is done at once, on the window's thread.
Stop ==
  /\ Pumping /\ posted = 0 /\ lock /\ ~cancel
  /\ \E i \in DOMAIN stack : stack[i].cmd \in session.stops
  /\ cancel' = TRUE /\ abort' = (abort \/ client # 0)
  /\ UNCHANGED <<session, stack, client, lock, closing, infos, given, crashed, posted,
                 machine, wire>>

CloseFrame == [Frame("close", 0) EXCEPT !.phase = "delete"]

\* A slip: the handler is deleted although a command is under way.
CloseAtOnce(s) ==
  IF client = 0
  THEN /\ closing' = FALSE /\ stack' = s /\ UNCHANGED <<client, cancel, abort, terminate>>
  ELSE /\ client' = 0 /\ terminate' = TRUE /\ stack' = Append(s, CloseFrame)
       /\ UNCHANGED <<closing, cancel, abort>>

\* CmCloseConnection, called with the stack s.  The handler's destructor lets
\* the thread end and waits for it.
CmCloseConnection(s) ==
  IF client = 0
  THEN /\ closing' = FALSE /\ stack' = s /\ UNCHANGED <<client, cancel, abort, terminate>>
  ELSE IF lock
  THEN /\ closing' = TRUE /\ cancel' = TRUE /\ abort' = TRUE /\ stack' = s
       /\ UNCHANGED <<client, terminate>>
  ELSE /\ client' = 0 /\ terminate' = TRUE /\ stack' = Append(s, CloseFrame)
       /\ UNCHANGED <<closing, cancel, abort>>

UserCloses ==
  /\ Pumping /\ posted = 0 /\ session.closes /\ client # 0 /\ up /\ ~closing
  /\ session.patient /\ stack # <<>> => lock
  /\ CmCloseConnection(stack)
  /\ UNCHANGED <<session, lock, infos, given, crashed, posted, at, cb, newCommand, job, wire>>

\* The message the machine's thread has posted when it ended; the dialog for the
\* password lets it through.
MachineCloses ==
  /\ Pumping \/ Doing("dialog")
  /\ posted > 0 /\ posted' = posted - 1
  /\ CmCloseConnection(stack)
  /\ UNCHANGED <<session, lock, infos, given, crashed, at, cb, newCommand, job, wire>>

-----------------------------------------------------------------------------
(* The window's thread in a command *)

Crash == crashed' = TRUE /\ UNCHANGED <<session, stack, client, lock, cancel, closing,
                              infos, given, posted, machine, abort, wire>>

\* Operation begins: StartOp.  Nobody tests FtpClient between two operations,
\* and CmDeleteFile reads the name from a FileInfo it has collected before.
StartOp ==
  \E op \in Operations :
    /\ Doing(op)
    /\ IF client = 0 \/ (op = "delete" /\ Top.infos # infos) THEN Crash
       ELSE /\ SetTop([Top EXCEPT !.phase = "wait", !.op = op, !.done = FALSE, !.ok = FALSE,
                        !.note = FALSE, !.by = "none", !.client = client])
            /\ cb' = Len(stack) /\ newCommand' = TRUE
            /\ UNCHANGED <<session, client, lock, cancel, closing, infos, given, crashed,
                           posted, at, job, terminate, abort, wire>>

\* The loop of Operation runs on in a handler that was deleted.
Orphan ==
  /\ stack # <<>> /\ ~crashed /\ Top.phase = "wait" /\ ~Top.done /\ Top.client # client
  /\ Crash

\* The dialog is executed for the machine's thread.
Answer ==
  /\ stack # <<>> /\ ~crashed /\ Top.phase = "wait" /\ Top.asks
  /\ SetTop([Top EXCEPT !.asks = FALSE])
  /\ UNCHANGED <<session, client, lock, cancel, closing, infos, given, crashed, posted,
                 machine, abort, wire>>

\* Operation returns.  The list is cleared for the one that was opened.
Return ==
  /\ stack # <<>> /\ ~crashed /\ Top.phase = "wait" /\ Top.done
  /\ session.calm => at \notin {"second", "failed", "reset"}
  /\ SetTop(Goto(Onward(Top)))
  /\ infos' = IF Top.op = "getlist" /\ Top.ok THEN infos + 1 ELSE infos
  /\ UNCHANGED <<session, client, lock, cancel, closing, given, crashed, posted,
                 machine, abort, wire>>

\* Login: the user may have the tickets destroyed and log in again.
Again ==
  /\ Doing("again")
  /\ \E todo \in {<<"login">> \o Tail(Top.todo), <<"close">>} :
       /\ todo # <<"close">> => given < MaxCommands
       /\ given' = IF todo = <<"close">> THEN given ELSE given + 1
       /\ SetTop(Goto(todo))
  /\ UNCHANGED <<session, client, lock, cancel, closing, infos, crashed, posted, machine,
                 abort, wire>>

\* CmRemAuth, called by CmOpenConnection if it is set and the server authenticates.
\* It has a lock of its own; without it, nothing is done.
RemAuth ==
  /\ Doing("auth")
  /\ \/ SetTop(Goto(<<"getcwd", "load">>)) /\ UNCHANGED <<lock, crashed>>
     \/ /\ session.auto
        /\ IF client = 0 THEN crashed' = TRUE /\ UNCHANGED <<stack, lock>>
           ELSE ~lock /\ lock' = TRUE /\ SetTop(Goto(Tail(Top.todo))) /\ UNCHANGED crashed
  /\ UNCHANGED <<session, client, cancel, closing, infos, given, posted, machine, abort, wire>>

\* The dialog for name and password, which may be cancelled
Dialog ==
  /\ Doing("dialog")
  /\ \E todo \in {Tail(Top.todo), <<"unlock", "getcwd", "load">>} : SetTop(Goto(todo))
  /\ UNCHANGED <<session, client, lock, cancel, closing, infos, given, crashed, posted,
                 machine, abort, wire>>

\* LoadList at the end of the list, or cancelled: foAbort
ReadList ==
  /\ \/ Doing("read") /\ SetTop([Top EXCEPT !.phase = "read"]) /\ UNCHANGED abort
     \/ /\ stack # <<>> /\ ~crashed /\ Top.phase = "read"
        /\ abort' = (abort \/ cancel)
        /\ SetTop(Goto(Tail(Top.todo)))
  /\ UNCHANGED <<session, client, lock, cancel, closing, infos, given, crashed, posted,
                 machine, wire>>

\* TransferStart(false) with foClearAbort.  ABOR is sent, and its reply is
\* read, on the window's thread.
ClearAbort ==
  /\ Doing("clear")
  /\ IF client = 0 THEN Crash
     ELSE /\ abort' = FALSE
          /\ IF abort /\ up
             THEN late' = late + 1 /\ SetTop([Top EXCEPT !.phase = "abor"]) /\ UNCHANGED cancel
             ELSE cancel' = FALSE /\ SetTop(Goto(Tail(Top.todo))) /\ UNCHANGED late
          /\ UNCHANGED <<session, client, lock, closing, infos, given, crashed, posted,
                         machine, up, unread>>

AborReply ==
  /\ stack # <<>> /\ ~crashed /\ Top.phase = "abor"
  /\ unread > 0 \/ ~up
  /\ unread' = IF unread > 0 THEN unread - 1 ELSE 0
  /\ cancel' = FALSE /\ SetTop(Goto(Tail(Top.todo)))
  /\ UNCHANGED <<session, client, lock, closing, infos, given, crashed, posted, machine,
                 abort, up, late>>

\* CommandLock's destructor; EvCommandReleased carries out a close that waits.
\* The lock is free by then, so CmCloseConnection deletes the handler.
Unlock ==
  /\ Doing("unlock") /\ lock' = FALSE
  /\ LET s == [stack EXCEPT ![Len(stack)] = Goto(Tail(Top.todo))] IN
     IF closing /\ client # 0
     THEN /\ client' = 0 /\ terminate' = TRUE /\ stack' = Append(s, CloseFrame)
          /\ UNCHANGED closing
     ELSE /\ closing' = FALSE /\ stack' = s /\ UNCHANGED <<client, terminate>>
  /\ UNCHANGED <<session, cancel, infos, given, crashed, posted, at, cb, newCommand, job,
                 abort, wire>>

\* A command that ends with a list: AddPath selects the directory, CmUpload
\* and CmMkDir load it again.  LoadList does nothing while locked, and
\* nothing without a connection.
Load ==
  /\ \E step \in {"load", "refresh"} : Doing(step)
  /\ infos' = infos + 1
  /\ LET s == [stack EXCEPT ![Len(stack)] = Goto(<<>>)] IN
     IF lock \/ client = 0 THEN stack' = s /\ UNCHANGED lock
     ELSE /\ stack' = Append(s, [Frame("list", 1) EXCEPT !.infos = infos'])
          /\ lock' = TRUE
  /\ UNCHANGED <<session, client, cancel, closing, given, crashed, posted, machine, abort,
                 wire>>

\* The failed CmOpenConnection closes.
GiveUp ==
  /\ Doing("close")
  /\ CmCloseConnection([stack EXCEPT ![Len(stack)] = Goto(<<>>)])
  /\ UNCHANGED <<session, lock, infos, given, crashed, posted, at, cb, newCommand, job, wire>>

\* The destructor has waited for the thread; ConnectionUpdate clears the list.
Deleted ==
  /\ stack # <<>> /\ ~crashed /\ Top.phase = "delete" /\ at = "ended"
  /\ stack' = Front(stack) /\ infos' = infos + 1 /\ closing' = FALSE
  /\ late' = 0 /\ unread' = 0 /\ up' = FALSE /\ abort' = FALSE
  /\ UNCHANGED <<session, client, lock, cancel, given, crashed, posted, machine>>

\* CmOpenConnection has a new handler, with the connection open or refused by
\* the greeting; the old one is deleted.
Renew ==
  /\ Doing("renew")
  /\ IF at # "ended" THEN terminate' = TRUE /\ ~terminate
                          /\ UNCHANGED <<stack, client, at, newCommand, job, abort, wire>>
     ELSE /\ client' = given /\ SetTop(Goto(Tail(Top.todo)))
          /\ at' = "greeting" /\ newCommand' = FALSE /\ job' = "none" /\ abort' = FALSE
          /\ terminate' = FALSE /\ up' = TRUE /\ late' = 0 /\ unread' = 0
  /\ UNCHANGED <<session, lock, cancel, closing, infos, given, crashed, posted, cb>>

Leave ==
  /\ stack # <<>> /\ ~crashed /\ Top.phase = "next" /\ Top.todo = <<>>
  /\ stack' = Front(stack)
  /\ UNCHANGED <<session, client, lock, cancel, closing, infos, given, crashed, posted,
                 machine, abort, wire>>

-----------------------------------------------------------------------------
(* The machine's thread *)

\* FTPMachine::Close and the end of Run
EndRun == at' = "ended" /\ posted' = posted + 1

Greeting ==
  /\ at = "greeting" /\ ~crashed
  /\ \/ ~terminate /\ at' = "drain" /\ UNCHANGED posted
     \/ (terminate \/ session.drops) /\ EndRun
  /\ UNCHANGED <<session, window, cb, newCommand, job, terminate, abort, wire>>

\* The head of the loop.  A closed connection reads as 421.
Drain ==
  /\ at = "drain" /\ ~crashed
  /\ IF terminate \/ ~up THEN EndRun /\ UNCHANGED unread
     ELSE IF unread > 0 THEN unread' = unread - 1 /\ UNCHANGED <<at, posted>>
     ELSE at' = "check" /\ UNCHANGED <<posted, unread>>
  /\ UNCHANGED <<session, window, cb, newCommand, job, terminate, abort, up, late>>

Check ==
  /\ at = "check" /\ ~crashed
  /\ IF newCommand THEN at' = "exec" /\ job' = stack[cb].op
     ELSE at' = "drain" /\ UNCHANGED job
  /\ UNCHANGED <<session, window, posted, cb, newCommand, terminate, abort, wire>>

\* A slip: without a result the block is not Done.
SetResultIfAny(ok, note) ==
  IF cb \in DOMAIN stack /\ stack[cb].phase = "wait"
  THEN stack' = [stack EXCEPT ![cb].done = ok, ![cb].ok = ok, ![cb].note = note,
                              ![cb].by = job]
  ELSE UNCHANGED stack

\* SetResult, in the block cb points to by now.  A block that is gone is
\* written to all the same, and the value is lost.
SetResult(ok, note) ==
  IF cb \in DOMAIN stack /\ stack[cb].phase = "wait"
  THEN stack' = [stack EXCEPT ![cb].done = TRUE, ![cb].ok = ok, ![cb].note = note,
                              ![cb].by = job]
  ELSE UNCHANGED stack

Finish(ok) ==
  /\ at' = IF job \in Twice THEN "second" ELSE "reset"
  /\ SetResult(ok, FALSE)

\* GetUserPrompt, which gives up when the thread is to end.
Prompt ==
  /\ at = "exec" /\ job = "login" /\ ~crashed /\ ~terminate
  /\ cb \in DOMAIN stack
  /\ stack' = [stack EXCEPT ![cb].asks = TRUE] /\ at' = "prompt"
  /\ UNCHANGED <<session, client, lock, cancel, closing, infos, given, crashed, posted, cb,
                 newCommand, job, terminate, abort, wire>>

Prompted ==
  /\ at = "prompt" /\ ~crashed
  /\ terminate \/ (cb \in DOMAIN stack /\ ~stack[cb].asks)
  /\ at' = "answer"
  /\ UNCHANGED <<session, window, posted, cb, newCommand, job, terminate, abort, wire>>

\* An operation that ends with the replies it asks for.  An abort keeps its
\* commands from being sent, so that it fails; a list leaves a reply behind.
Ask ==
  /\ ~crashed /\ (at = "answer" \/ (at = "exec" /\ job \notin {"get", "put"}))
  /\ \E ok \in BOOLEAN :
       /\ job \in Local => ok
       /\ abort \/ ~up => ~ok \/ job \in Local
       /\ Finish(ok)
       /\ late' = IF job = "getlist" /\ ok THEN late + 1 ELSE late
  /\ UNCHANGED <<session, client, lock, cancel, closing, infos, given, crashed, posted, cb,
                 newCommand, job, terminate, abort, up, unread>>

\* RetryConnection: while it logs in the machine sets a note for the result,
\* and goes on to fail.
Retry ==
  /\ at = "exec" /\ job = "login" /\ ~crashed
  /\ SetResult(TRUE, TRUE) /\ at' = "failed"
  /\ UNCHANGED <<session, client, lock, cancel, closing, infos, given, crashed, posted, cb,
                 newCommand, job, terminate, abort, wire>>

Failed ==
  /\ at = "failed" /\ ~crashed
  /\ SetResult(FALSE, TRUE) /\ at' = "reset"
  /\ UNCHANGED <<session, client, lock, cancel, closing, infos, given, crashed, posted, cb,
                 newCommand, job, terminate, abort, wire>>

\* GetFile and PutFile.  GetFile resets the abort it has met and sends ABOR;
\* PutFile fails with the server's last reply still to come.
Transfer ==
  /\ at = "exec" /\ job \in {"get", "put"} /\ ~crashed
  /\ \/ \E ok \in BOOLEAN : (abort \/ ~up => ~ok) /\ Finish(ok) /\ UNCHANGED <<abort, late>>
     \/ /\ abort /\ up /\ Finish(FALSE)
        /\ IF job = "get" THEN abort' = FALSE /\ UNCHANGED late
           ELSE late' = late + 1 /\ UNCHANGED abort
  /\ UNCHANGED <<session, client, lock, cancel, closing, infos, given, crashed, posted, cb,
                 newCommand, job, terminate, up, unread>>

\* The second result of foCmd and foRemoteKlist, the reply's text
Second ==
  /\ at = "second" /\ ~crashed /\ at' = "reset"
  /\ IF cb \in DOMAIN stack /\ stack[cb].phase = "wait"
     THEN stack' = [stack EXCEPT ![cb].done = TRUE] ELSE UNCHANGED stack
  /\ UNCHANGED <<session, client, lock, cancel, closing, infos, given, crashed, posted, cb,
                 newCommand, job, terminate, abort, wire>>

\* NewCommand = false, whoever may have set it meanwhile
Reset ==
  /\ at = "reset" /\ ~crashed /\ at' = "drain" /\ newCommand' = FALSE /\ job' = "none"
  /\ UNCHANGED <<session, window, posted, cb, terminate, abort, wire>>

-----------------------------------------------------------------------------
(* The server *)

Arrive ==
  /\ late > 0 /\ ~crashed /\ late' = late - 1 /\ unread' = unread + 1
  /\ UNCHANGED <<session, window, posted, machine, abort, up>>

Drop ==
  /\ session.drops /\ up /\ ~crashed /\ up' = FALSE
  /\ UNCHANGED <<session, window, posted, machine, abort, late, unread>>

Windows == StartOp \/ Orphan \/ Answer \/ Return \/ Again \/ RemAuth \/ Dialog \/ ReadList \/ ClearAbort
             \/ AborReply \/ Unlock \/ Load \/ GiveUp \/ Deleted \/ Renew \/ Leave
             \/ MachineCloses
Machines == Greeting \/ Drain \/ Check \/ Prompt \/ Prompted \/ Ask \/ Retry \/ Failed
              \/ Transfer \/ Second \/ Reset
Users == (\E c \in Locking \cup Unlocked : Give(c)) \/ Stop \/ UserCloses

Next == Windows \/ Machines \/ Users \/ Arrive \/ Drop

\* Both threads run, and what was sent arrives.
FairSpec == Init /\ [][Next]_vars /\ WF_vars(Windows) /\ WF_vars(Machines) /\ WF_vars(Arrive)

-----------------------------------------------------------------------------
(* Properties *)

Calm == session.calm /\ session.patient

\* A close that waited for the lock of CmRemAuth has deleted the handler before
\* CmOpenConnection asks it for the directory.
ClosedInOpen ==
  /\ client = 0 /\ stack # <<>>
  /\ Top.cmd = "open" /\ Top.todo # <<>> /\ Head(Top.todo) = "getcwd"

\* No operation runs in a handler that was deleted, is begun without one, or
\* reads an entry of the list that was freed, however the user closes and
\* whatever he tries meanwhile (CmCloseConnection waits for the lock), but for
\* the close during the authentication within the opening (FCLIENT.CPP 875-883).
\* So while the server keeps the connection, and F5 spares a deletion.
NothingFreedIsUsed ==
  session.patient /\ ~session.drops /\ ~({"refresh", "delete"} \subseteq session.commands)
    => ~crashed \/ ClosedInOpen

\* What the window can hang on: the thread it waits for has ended, and the
\* reply to its ABOR was read by the machine's thread.
ThreadGone == stack # <<>> /\ Top.phase = "wait" /\ at = "ended"
ReplyTaken == stack # <<>> /\ Top.phase = "abor" /\ late + unread = 0
Hung == ThreadGone \/ ReplyTaken \/ crashed

\* A command that has begun ends, a close that found one under way is carried
\* out then, and a connection the server has closed is closed here.
CommandEnds ==
  /\ Calm /\ stack # <<>> ~> stack = <<>> \/ Hung
  /\ Calm /\ closing ~> client = 0 \/ Hung
  /\ Calm /\ client # 0 /\ ~up ~> client = 0 \/ up \/ Hung

\* Operation returns with the result of its own command: nothing that begins
\* while it waits takes the machine, or its block, from it.  So for users who
\* wait for the commands that have no lock (FTPHND.CPP 250-262).  And a stop of
\* a download ends with it: the next command is not met by it.
ResultIsOwn ==
  /\ [][Return /\ Calm => Top.by = Top.op]_vars
  /\ [](Calm /\ session.stops \subseteq {"get"} /\ ~session.closes /\ ~session.drops
           /\ stack = <<>> => ~abort /\ ~cancel)
=============================================================================
