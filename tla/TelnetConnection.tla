-------------------------- MODULE TelnetConnection --------------------------
(***************************************************************************)
(* The life of telnet connections in one terminal window: the socket, the  *)
(* reading thread (TnRead) and the window's thread that opens, closes and  *)
(* reopens.  Both threads close the socket and write mSocket, without a    *)
(* lock; the system gives the number of a closed socket to the next one.   *)
(*                                                                         *)
(* The steps of the two threads are cut wherever mSocket is used.  Of the  *)
(* bytes only their arrival counts; how they are read is the business of   *)
(* TerminalInput.  Messages that come while bytes are processed or a box   *)
(* is up wait: EvConnectionRead sets them aside then (ErrorType).          *)
(***************************************************************************)
EXTENDS Integers, Sequences

CONSTANTS
  Handle,    \* the numbers the system has for sockets
  MaxConns,  \* bound: how many connections are opened
  MaxBlocks  \* bound: how many blocks arrive

ASSUME ConnectionAssumption ==
  0 \notin Handle /\ MaxConns \in Nat \ {0} /\ MaxBlocks \in Nat

None == 0 \* no connection (the local one), no socket (INVALID_SOCKET)
Conn == 1 .. MaxConns

VARIABLES
  opened,  \* how many connections there have been
  current, \* connection of the window
  mSocket, \* of each connection
  owner,   \* the connection a socket was opened for, None when it is closed
  peer,    \* what the other end of the connection has done
  reader,  \* where the reading thread is; "absent" when Reader is 0
  stop,    \* ShouldTerminate of the reading thread
  errStr,  \* is ErrStr set
  queue,   \* the messages posted to the window
  gui,     \* where the window's thread is
  subject, \* the connection it is closing
  told,    \* the connections whose error the user has been shown
  blocks

threads == <<reader, stop>>
sockets == <<mSocket, owner>>
window  == <<opened, current, gui, subject, told>>
vars == <<threads, sockets, window, peer, errStr, queue, blocks>>

Init ==
  /\ opened = 0 /\ current = None
  /\ mSocket = [c \in Conn |-> None]
  /\ owner = [h \in Handle |-> None]
  /\ peer = [c \in Conn |-> "none"]
  /\ reader = [c \in Conn |-> "absent"]
  /\ stop = [c \in Conn |-> FALSE]
  /\ errStr = [c \in Conn |-> FALSE]
  /\ queue = <<>>
  /\ gui = "idle" /\ subject = None /\ told = {}
  /\ blocks = 0

-----------------------------------------------------------------------------
(* The system and the peer *)

\* closesocket; a number that is not a socket, or not one any more, is an error.
CloseSocket(h) ==
  owner' = [i \in Handle |-> IF i = h THEN None ELSE owner[i]]

Invalidate(c) == mSocket' = [mSocket EXCEPT ![c] = None]

Usable(c) == mSocket[c] # None /\ owner[mSocket[c]] = c

PeerCloses(c) ==
  /\ peer[c] = "up"
  /\ peer' = [peer EXCEPT ![c] = "gone"]
  /\ UNCHANGED <<threads, sockets, window, errStr, queue, blocks>>

-----------------------------------------------------------------------------
(* The reading thread *)

ReaderAt(c, from, to) ==
  /\ reader[c] = from
  /\ reader' = [reader EXCEPT ![c] = to]
  /\ UNCHANGED <<stop, window, peer>>

Run(c) ==
  /\ \/ stop[c] /\ ReaderAt(c, "run", "ended")
     \/ ~stop[c] /\ mSocket[c] # None /\ ReaderAt(c, "run", "recv")
  /\ UNCHANGED <<sockets, errStr, queue, blocks>>

\* recv returns bytes, the end of the stream, or an error because the socket
\* was closed meanwhile; WSAEINTR is not a failure.
ReadData(c) ==
  /\ \/ /\ Usable(c) /\ blocks < MaxBlocks
        /\ ReaderAt(c, "recv", "run")
        /\ blocks' = blocks + 1
        /\ queue' = Append(queue, "read")
     \/ /\ Usable(c) /\ peer[c] = "gone"
        /\ ReaderAt(c, "recv", "close")
        /\ UNCHANGED <<queue, blocks>>
     \/ /\ ~Usable(c)
        /\ ReaderAt(c, "recv", "fail") \/ ReaderAt(c, "recv", "run")
        /\ UNCHANGED <<queue, blocks>>
  /\ UNCHANGED <<sockets, errStr>>

\* The connection is broken: closesocket(CN->mSocket), as it is by now.
Broken(c) ==
  /\ ReaderAt(c, "close", "closed")
  /\ CloseSocket(mSocket[c])
  /\ UNCHANGED <<mSocket, errStr, queue, blocks>>

Forget(c) ==
  /\ ReaderAt(c, "closed", "fail")
  /\ Invalidate(c)
  /\ UNCHANGED <<owner, errStr, queue, blocks>>

\* Failed keeps one error at a time and posts a message for it.
Failed(c) ==
  /\ ReaderAt(c, "fail", "run")
  /\ IF errStr[c]
       THEN UNCHANGED <<errStr, queue>>
       ELSE errStr' = [errStr EXCEPT ![c] = TRUE] /\ queue' = Append(queue, "error")
  /\ UNCHANGED <<sockets, blocks>>

Reader(c) == Run(c) \/ ReadData(c) \/ Broken(c) \/ Forget(c) \/ Failed(c)

-----------------------------------------------------------------------------
(* Close, on the window's thread *)

Closing(c) == gui' = "close" /\ subject' = c

\* mSocket is looked at and, when valid, closed ...
Close ==
  /\ gui = "close"
  /\ IF mSocket[subject] # None
       THEN CloseSocket(mSocket[subject]) /\ gui' = "invalidate"
       ELSE gui' = "stop" /\ UNCHANGED owner
  /\ UNCHANGED <<mSocket, threads, opened, current, subject, told, peer,
                 errStr, queue, blocks>>

\* ... and forgotten.
CloseForget ==
  /\ gui = "invalidate"
  /\ Invalidate(subject)
  /\ gui' = "stop"
  /\ UNCHANGED <<owner, threads, opened, current, subject, told, peer, errStr,
                 queue, blocks>>

\* A slip: a thread that never ran is waited for as well.
StopReaderAnyhow ==
  /\ gui = "stop"
  /\ gui' = "wait"
  /\ stop' = [stop EXCEPT ![subject] = TRUE]
  /\ UNCHANGED <<reader, sockets, opened, current, subject, told, peer, errStr,
                 queue, blocks>>

\* The reading thread is told to end; it is started first if it never was.
StopReader ==
  /\ gui = "stop"
  /\ IF reader[subject] = "absent"
       THEN gui' = "idle" /\ UNCHANGED threads
       ELSE /\ gui' = "wait"
            /\ stop' = [stop EXCEPT ![subject] = TRUE]
            /\ reader' = [reader EXCEPT ![subject] = IF @ = "created" THEN "run" ELSE @]
  /\ UNCHANGED <<sockets, opened, current, subject, told, peer, errStr, queue, blocks>>

\* TerminateAndWait returns when the thread has ended.
Ended(c) == reader[c] = "ended"

DeleteReader ==
  /\ gui = "wait" /\ Ended(subject)
  /\ reader' = [reader EXCEPT ![subject] = "absent"]
  /\ errStr' = [errStr EXCEPT ![subject] = FALSE]
  /\ gui' = "idle"
  /\ UNCHANGED <<stop, sockets, opened, current, subject, told, peer, queue, blocks>>

-----------------------------------------------------------------------------
(* Open and Reopen *)

\* KTelnetConnection::Open of a new connection.  It may fail before there is a
\* socket or with one; then the connection is deleted, which closes it.
OpenFails(c) ==
  /\ reader' = [reader EXCEPT ![c] = "created"]
  /\ \/ UNCHANGED sockets
     \/ \E h \in Handle :
          /\ owner[h] = None
          /\ owner' = [owner EXCEPT ![h] = c] /\ mSocket' = [mSocket EXCEPT ![c] = h]
  /\ Closing(c)
  /\ UNCHANGED <<current, peer>>

\* It becomes the connection of the window, and the one before is deleted.
OpenSucceeds(c) ==
  /\ \E h \in Handle :
       /\ owner[h] = None
       /\ owner' = [owner EXCEPT ![h] = c] /\ mSocket' = [mSocket EXCEPT ![c] = h]
  /\ reader' = [reader EXCEPT ![c] = "run"]
  /\ peer' = [peer EXCEPT ![c] = "up"]
  /\ current' = c
  /\ IF current = None THEN gui' = "idle" /\ UNCHANGED subject
                       ELSE Closing(current)

Open ==
  /\ opened < MaxConns
  /\ opened' = opened + 1
  /\ OpenFails(opened + 1) \/ OpenSucceeds(opened + 1)
  /\ UNCHANGED <<stop, told, errStr, queue, blocks>>

\* Input is only fetched when no posted message waits.
UserActs == gui = "idle" /\ queue = <<>>

CmOpenConnection == UserActs /\ current = None /\ Open

CmCloseConnection ==
  /\ UserActs /\ current # None
  /\ current' = None
  /\ Closing(current)
  /\ UNCHANGED <<threads, sockets, opened, told, peer, errStr, queue, blocks>>

-----------------------------------------------------------------------------
(* Messages *)

TakeMessage(kind) ==
  /\ gui = "idle" /\ queue # <<>> /\ Head(queue) = kind
  /\ queue' = Tail(queue)
  /\ UNCHANGED <<threads, sockets, opened, current, subject, peer, blocks>>

\* What has arrived is processed; that may bring up the password dialog.
EvConnectionRead ==
  /\ TakeMessage("read")
  /\ gui' = IF current # None THEN "process" ELSE "idle"
  /\ UNCHANGED <<told, errStr>>

\* ProcessReceived shows an error its thread has kept, if there is one.
EvConnectionError ==
  /\ TakeMessage("error")
  /\ IF current # None /\ reader[current] # "absent" /\ errStr[current]
       THEN /\ errStr' = [errStr EXCEPT ![current] = FALSE]
            /\ told' = told \cup {current}
       ELSE UNCHANGED <<errStr, told>>
  /\ UNCHANGED gui

\* EvRetryConnection asks the user, when there is a connection to reopen.
EvRetryConnection ==
  /\ TakeMessage("retry")
  /\ gui' = IF current # None THEN "ask" ELSE "idle"
  /\ UNCHANGED <<told, errStr>>

Processed ==
  /\ gui = "process"
  /\ gui' = "idle"
  /\ UNCHANGED <<threads, sockets, opened, current, subject, told, peer, errStr,
                 queue, blocks>>

\* A slip: the connection stays open until it is replaced.
SendRetryOnly ==
  /\ gui = "process" /\ reader[current] # "absent"
  /\ queue' = Append(queue, "retry")
  /\ gui' = "idle"
  /\ UNCHANGED <<threads, sockets, opened, current, subject, told, peer, errStr,
                 blocks>>

\* Authentication failed: SendRetryConnection posts a message and closes.  The
\* peer rejects once for a connection, not again in the bytes already received.
SendRetryConnection ==
  /\ gui = "process" /\ reader[current] # "absent"
  /\ queue' = Append(queue, "retry")
  /\ Closing(current)
  /\ UNCHANGED <<threads, sockets, opened, current, told, peer, errStr, blocks>>

DoNotReopen ==
  /\ gui = "ask"
  /\ gui' = "idle"
  /\ UNCHANGED <<threads, sockets, opened, current, subject, told, peer, errStr,
                 queue, blocks>>

Reopen == gui = "ask" /\ Open

Handler == \/ Close \/ CloseForget \/ StopReader \/ DeleteReader
           \/ EvConnectionRead \/ EvConnectionError \/ EvRetryConnection
           \/ Processed \/ SendRetryConnection \/ DoNotReopen \/ Reopen

Next == \/ \E c \in Conn : Reader(c) \/ PeerCloses(c)
        \/ Handler \/ CmOpenConnection \/ CmCloseConnection

\* Windows runs every thread; dialogs are answered in the end.
Fairness == WF_vars(Handler) /\ \A c \in Conn : WF_vars(Reader(c))

Spec     == Init /\ [][Next]_vars
FairSpec == Spec /\ Fairness

-----------------------------------------------------------------------------
(* Properties *)

TypeOK ==
  /\ opened \in 0..MaxConns
  /\ current \in Conn \cup {None} /\ subject \in Conn \cup {None}
  /\ mSocket \in [Conn -> Handle \cup {None}]
  /\ owner \in [Handle -> Conn \cup {None}]
  /\ peer \in [Conn -> {"none", "up", "gone"}]
  /\ reader \in [Conn -> {"absent", "created", "run", "recv", "close", "closed",
                          "fail", "ended"}]
  /\ stop \in [Conn -> BOOLEAN] /\ errStr \in [Conn -> BOOLEAN]
  /\ queue \in Seq({"read", "error", "retry"})
  /\ Len(queue) <= MaxBlocks + MaxConns \* one error is posted for a connection
  /\ gui \in {"idle", "process", "ask", "close", "invalidate", "stop", "wait"}
  /\ told \subseteq Conn /\ blocks \in 0..MaxBlocks

\* The number a connection keeps in mSocket is its own socket's, or that of a
\* socket that is closed and not open again: what one thread closes after the
\* other has closed it is never a socket of somebody else.
NoForeignSocket ==
  \A c \in Conn : mSocket[c] # None => owner[mSocket[c]] \in {c, None}

\* No reading thread is left of a connection that has been deleted.
NoOrphanReader ==
  \A c \in Conn : reader[c] # "absent" => c = current \/ (c = subject /\ gui # "idle")

\* When nothing is being opened or closed only the connection of the window
\* has a socket.
NoLeak == gui = "idle" => \A h \in Handle : owner[h] \in {current, None}

\* Sockets and threads are those of the connection they were made for, to its
\* end, and end with it.
SocketsKept == NoForeignSocket /\ NoOrphanReader /\ NoLeak

\* Closing a connection never hangs on its reading thread; and when the peer
\* closes, the user is told, unless the connection was closed or replaced before.
CloseEnds ==
  /\ gui = "wait" ~> gui = "idle"
  /\ \A c \in Conn :
       peer[c] = "gone" /\ current = c ~> c \in told \/ current # c \/ stop[c]
=============================================================================
