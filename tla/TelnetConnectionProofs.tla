------------------------ MODULE TelnetConnectionProofs ------------------------
(***************************************************************************)
(* For any number of connections, socket numbers and blocks: although two  *)
(* threads close the socket and write mSocket without a lock, neither      *)
(* closes a socket of somebody else, no reading thread outlives its        *)
(* connection and no socket is left open.                                  *)
(*                                                                         *)
(* NoForeignSocket is not inductive: a number that is closed may be given  *)
(* to a new connection while another one still keeps it in mSocket.  That  *)
(* cannot be, because when a connection is opened no other one keeps any   *)
(* number (OnlyAttached, RetryIsClosed): the window has closed, and waited *)
(* for the reading thread, before.                                         *)
(*                                                                         *)
(* For any programs, realms, pages and edits: a list of hosts that is      *)
(* looked up outside of a write was stored as a whole (ListsWhole: all     *)
(* that the registry holds were stored together), and a part of the        *)
(* settings changes only where a user asked for it (Loaded: what was not   *)
(* edited is in memory as it is stored).                                   *)
(*                                                                         *)
(* For any hosts, protocols and answers of the key servers: what is told   *)
(* of a ticket and of a change of the password is so (ChangeInv: whoever   *)
(* has got to the administration server has shown the old password).       *)
(***************************************************************************)
EXTENDS MCTelnetConnection, SequenceTheorems, TLAPS

Message == {"read", "error", "retry"}

Types ==
  /\ opened \in 0..MaxConns
  /\ current \in Conn \cup {None} /\ subject \in Conn \cup {None}
  /\ current <= opened /\ subject <= opened
  /\ mSocket \in [Conn -> Handle \cup {None}]
  /\ owner \in [Handle -> Conn \cup {None}]
  /\ reader \in [Conn -> {"absent", "created", "run", "recv", "close", "closed",
                          "fail", "ended"}]
  /\ queue \in Seq(Message)
  /\ gui \in {"idle", "process", "ask", "close", "invalidate", "stop", "wait"}

InClose == gui \in {"close", "invalidate", "stop", "wait"}

\* The connection of the window, and the one that is being closed.
Attached(c) == c = current \/ (InClose /\ c = subject)

GuiInvolved ==
  /\ gui \in {"process", "ask"} => current # None
  /\ InClose => subject # None

Detached(c) == mSocket[c] = None /\ reader[c] = "absent"

\* Any other connection has no socket and no reading thread.
OnlyAttached == \A c \in Conn : Attached(c) \/ Detached(c)

OwnerKnows == \A h \in Handle : owner[h] # None => mSocket[owner[h]] = h

\* What is about to be forgotten has been closed.
Closed(c) == mSocket[c] = None \/ owner[mSocket[c]] = None

ClosedFirst ==
  /\ gui = "invalidate" => Closed(subject)
  /\ gui \in {"stop", "wait"} => mSocket[subject] = None
  /\ \A c \in Conn : reader[c] = "closed" => Closed(c)

OneRetry ==
  /\ \A i, j \in 1..Len(queue) : queue[i] = "retry" /\ queue[j] = "retry" => i = j
  /\ gui = "ask" => \A i \in 1..Len(queue) : queue[i] # "retry"

RetryPending == gui = "ask" \/ \E i \in 1..Len(queue) : queue[i] = "retry"

\* The user is asked to reopen only a connection that is closed by then.
RetryIsClosed ==
  RetryPending /\ current # None =>
    Detached(current) \/ (InClose /\ subject = current)

IInv == /\ Types /\ GuiInvolved /\ OnlyAttached /\ OwnerKnows /\ NoForeignSocket
        /\ ClosedFirst /\ OneRetry /\ RetryIsClosed

LEMMA InitInv == Init => IInv
BY ConnectionAssumption
   DEF Init, IInv, Types, GuiInvolved, OnlyAttached, OwnerKnows, NoForeignSocket,
       ClosedFirst, OneRetry, RetryIsClosed, RetryPending, Attached, Detached,
       InClose, Conn, None, Message

-----------------------------------------------------------------------------
(* The queue *)

\* Every retry message of the next state was there, at the same place.
NoNewRetry ==
  \A i \in 1..Len(queue') :
    queue'[i] = "retry" => i \in 1..Len(queue) /\ queue[i] = "retry"

LEMMA AppendOther ==
  ASSUME queue \in Seq(Message), NEW m \in Message, m # "retry",
         queue' = Append(queue, m)
  PROVE  queue' \in Seq(Message) /\ NoNewRetry
BY AppendProperties DEF NoNewRetry

LEMMA SameQueue ==
  ASSUME UNCHANGED queue
  PROVE  NoNewRetry
BY DEF NoNewRetry

\* What does not bring a retry message, nor begins to ask, keeps OneRetry.
LEMMA OneRetryKept ==
  ASSUME OneRetry, NoNewRetry, gui' = "ask" => gui = "ask"
  PROVE  OneRetry'
BY DEF OneRetry, NoNewRetry

LEMMA PendingKept ==
  ASSUME NoNewRetry, gui' = "ask" => gui = "ask", RetryPending'
  PROVE  RetryPending
BY DEF RetryPending, NoNewRetry

-----------------------------------------------------------------------------
(* The reading thread *)

\* A step of the thread of c that leaves the sockets alone.
LEMMA ReaderMoves ==
  ASSUME IInv, NEW c \in Conn, NEW from, NEW to,
         from # "absent", from # "created",
         to \in {"run", "recv", "close", "fail", "ended"},
         ReaderAt(c, from, to), UNCHANGED sockets,
         queue' \in Seq(Message), NoNewRetry
  PROVE  IInv'
<1> USE DEF IInv
<1>1. /\ reader[c] = from /\ reader' = [reader EXCEPT ![c] = to]
      /\ UNCHANGED <<opened, current, gui, subject, mSocket, owner>>
  BY DEF ReaderAt, window, sockets
<1>2. Types' /\ GuiInvolved' /\ OwnerKnows' /\ NoForeignSocket'
  BY <1>1 DEF Types, GuiInvolved, InClose, OwnerKnows, NoForeignSocket
<1>3. OnlyAttached'
  BY <1>1 DEF OnlyAttached, Attached, Detached, InClose, Types
<1>4. ClosedFirst'
  BY <1>1 DEF ClosedFirst, Closed, Types
<1>5. OneRetry'
  BY <1>1, OneRetryKept
<1>6. RetryIsClosed'
  BY <1>1, PendingKept DEF RetryIsClosed, Detached, InClose, Types
<1> QED
  BY <1>2, <1>3, <1>4, <1>5, <1>6

LEMMA RunStep == ASSUME IInv, NEW c \in Conn, Run(c) PROVE IInv'
<1>1. PICK to \in {"ended", "recv"} : ReaderAt(c, "run", to)
  BY DEF Run
<1>2. UNCHANGED sockets /\ queue' = queue
  BY DEF Run
<1> QED
  BY <1>1, <1>2, ReaderMoves, SameQueue DEF IInv, Types

LEMMA ReadDataStep == ASSUME IInv, NEW c \in Conn, ReadData(c) PROVE IInv'
<1>1. PICK to \in {"run", "close", "fail"} : ReaderAt(c, "recv", to)
  BY DEF ReadData
<1>2. UNCHANGED sockets
  BY DEF ReadData
<1>3. queue' = Append(queue, "read") \/ queue' = queue
  BY DEF ReadData
<1>4. queue' \in Seq(Message) /\ NoNewRetry
  BY <1>3, AppendOther, SameQueue DEF IInv, Types, Message
<1> QED
  BY <1>1, <1>2, <1>4, ReaderMoves

LEMMA FailedStep == ASSUME IInv, NEW c \in Conn, Failed(c) PROVE IInv'
<1>1. ReaderAt(c, "fail", "run") /\ UNCHANGED sockets
  BY DEF Failed
<1>2. queue' = Append(queue, "error") \/ queue' = queue
  BY DEF Failed
<1>3. queue' \in Seq(Message) /\ NoNewRetry
  BY <1>2, AppendOther, SameQueue DEF IInv, Types, Message
<1> QED
  BY <1>1, <1>3, ReaderMoves

\* Closing whatever socket c keeps takes it away from nobody else, and leaves
\* nothing behind that c could not forget.
LEMMA CloseSocketKeeps ==
  ASSUME Types, OwnerKnows, NoForeignSocket, NEW c \in Conn,
         CloseSocket(mSocket[c]), UNCHANGED mSocket
  PROVE  /\ owner' \in [Handle -> Conn \cup {None}]
         /\ OwnerKnows' /\ NoForeignSocket'
         /\ Closed(c)'
         /\ \A d \in Conn : Closed(d) => Closed(d)'
BY DEF Types, OwnerKnows, NoForeignSocket, CloseSocket, Closed

\* Forgetting a number whose socket is closed.
LEMMA ForgetKeeps ==
  ASSUME Types, OwnerKnows, NoForeignSocket, NEW c \in Conn, Closed(c),
         Invalidate(c), UNCHANGED owner
  PROVE  /\ mSocket' \in [Conn -> Handle \cup {None}]
         /\ OwnerKnows' /\ NoForeignSocket'
         /\ \A d \in Conn : Closed(d) => Closed(d)'
         /\ \A d \in Conn : mSocket[d] = None => mSocket'[d] = None
         /\ mSocket'[c] = None
<1>1. mSocket' = [mSocket EXCEPT ![c] = None]
  BY DEF Invalidate
<1>2. \A h \in Handle : owner[h] # c
  BY ConnectionAssumption DEF Types, OwnerKnows, Closed, None, Conn
<1>3. OwnerKnows'
  BY <1>1, <1>2 DEF OwnerKnows, Types
<1> QED
  BY <1>1, <1>3 DEF Types, NoForeignSocket, Closed

LEMMA BrokenStep == ASSUME IInv, NEW c \in Conn, Broken(c) PROVE IInv'
<1> USE DEF IInv
<1>1. /\ reader[c] = "close" /\ reader' = [reader EXCEPT ![c] = "closed"]
      /\ CloseSocket(mSocket[c])
      /\ UNCHANGED <<opened, current, gui, subject, mSocket, queue>>
  BY DEF Broken, ReaderAt, window
<1>2. Types' /\ GuiInvolved' /\ OwnerKnows' /\ NoForeignSocket'
  BY <1>1, CloseSocketKeeps DEF Types, GuiInvolved, InClose
<1>3. OnlyAttached'
  BY <1>1 DEF OnlyAttached, Attached, Detached, InClose, Types
<1>4. ClosedFirst'
  BY <1>1, CloseSocketKeeps DEF ClosedFirst, Closed, Types, GuiInvolved, InClose
<1>5. OneRetry'
  BY <1>1, OneRetryKept, SameQueue
<1>6. RetryIsClosed'
  BY <1>1, PendingKept, SameQueue DEF RetryIsClosed, Detached, InClose, Types
<1> QED
  BY <1>2, <1>3, <1>4, <1>5, <1>6

LEMMA ForgetStep == ASSUME IInv, NEW c \in Conn, Forget(c) PROVE IInv'
<1> USE DEF IInv
<1>1. /\ reader[c] = "closed" /\ reader' = [reader EXCEPT ![c] = "fail"]
      /\ Invalidate(c)
      /\ UNCHANGED <<opened, current, gui, subject, owner, queue>>
  BY DEF Forget, ReaderAt, window
<1>2. Closed(c)
  BY <1>1 DEF ClosedFirst
<1>3. Types' /\ GuiInvolved' /\ OwnerKnows' /\ NoForeignSocket'
  BY <1>1, <1>2, ForgetKeeps DEF Types, GuiInvolved, InClose
<1>4. OnlyAttached'
  BY <1>1, <1>2, ForgetKeeps DEF OnlyAttached, Attached, Detached, InClose, Types
<1>5. ClosedFirst'
  <2>1. \A d \in Conn : reader'[d] = "closed" => Closed(d)'
    BY <1>1, <1>2, ForgetKeeps DEF ClosedFirst, Types
  <2>2. subject \in Conn \/ ~InClose
    BY DEF GuiInvolved, Types
  <2> QED
    BY <1>1, <1>2, <2>1, <2>2, ForgetKeeps DEF ClosedFirst, InClose
<1>6. OneRetry'
  BY <1>1, OneRetryKept, SameQueue
<1>7. RetryIsClosed'
  BY <1>1, <1>2, ForgetKeeps, PendingKept, SameQueue
     DEF RetryIsClosed, Detached, InClose, Types
<1> QED
  BY <1>3, <1>4, <1>5, <1>6, <1>7

LEMMA ReaderStep == ASSUME IInv, NEW c \in Conn, Reader(c) PROVE IInv'
BY RunStep, ReadDataStep, BrokenStep, ForgetStep, FailedStep DEF Reader

-----------------------------------------------------------------------------
(* Close *)

LEMMA SubjectInClose == Types /\ GuiInvolved /\ InClose => subject \in Conn
BY DEF Types, GuiInvolved

LEMMA CloseStep == ASSUME IInv, Close PROVE IInv'
<1> USE DEF IInv
<1>1. /\ gui = "close" /\ gui' \in {"invalidate", "stop"}
      /\ UNCHANGED <<opened, current, subject, mSocket, reader, queue>>
  BY DEF Close, threads
<1>2. subject \in Conn
  BY <1>1, SubjectInClose DEF InClose
<1>3. OnlyAttached' /\ GuiInvolved'
  BY <1>1 DEF OnlyAttached, GuiInvolved, Attached, Detached, InClose
<1>4. OneRetry'
  BY <1>1, OneRetryKept, SameQueue
<1>5. RetryIsClosed'
  BY <1>1, PendingKept, SameQueue DEF RetryIsClosed, Detached, InClose
<1>6. CASE mSocket[subject] # None
  <2>1. CloseSocket(mSocket[subject]) /\ gui' = "invalidate"
    BY <1>6 DEF Close
  <2>2. Types' /\ OwnerKnows' /\ NoForeignSocket'
    BY <1>1, <1>2, <2>1, CloseSocketKeeps DEF Types
  <2>3. ClosedFirst'
    BY <1>1, <1>2, <2>1, CloseSocketKeeps DEF ClosedFirst, Closed
  <2> QED
    BY <1>3, <1>4, <1>5, <2>2, <2>3
<1>7. CASE mSocket[subject] = None
  <2>1. gui' = "stop" /\ UNCHANGED owner
    BY <1>7 DEF Close
  <2> QED
    BY <1>1, <1>3, <1>4, <1>5, <1>7, <2>1
       DEF Types, OwnerKnows, NoForeignSocket, ClosedFirst, Closed
<1> QED
  BY <1>6, <1>7

LEMMA CloseForgetStep == ASSUME IInv, CloseForget PROVE IInv'
<1> USE DEF IInv
<1>1. /\ gui = "invalidate" /\ gui' = "stop" /\ Invalidate(subject)
      /\ UNCHANGED <<opened, current, subject, owner, reader, queue>>
  BY DEF CloseForget, threads
<1>2. subject \in Conn /\ Closed(subject)
  BY <1>1, SubjectInClose DEF InClose, ClosedFirst
<1>3. Types' /\ GuiInvolved' /\ OwnerKnows' /\ NoForeignSocket'
  BY <1>1, <1>2, ForgetKeeps DEF Types, GuiInvolved, InClose
<1>4. OnlyAttached'
  BY <1>1, <1>2, ForgetKeeps DEF OnlyAttached, Attached, Detached, InClose
<1>5. ClosedFirst'
  BY <1>1, <1>2, ForgetKeeps DEF ClosedFirst
<1>6. OneRetry'
  BY <1>1, OneRetryKept, SameQueue
<1>7. RetryIsClosed'
  BY <1>1, <1>2, PendingKept, SameQueue
     DEF RetryIsClosed, Detached, InClose, Invalidate, Types
<1> QED
  BY <1>3, <1>4, <1>5, <1>6, <1>7

\* The end of Close: the thread is told to end, or there is none.
LEMMA StopReaderStep == ASSUME IInv, StopReader PROVE IInv'
<1> USE DEF IInv
<1>1. /\ gui = "stop"
      /\ UNCHANGED <<opened, current, subject, mSocket, owner, queue>>
  BY DEF StopReader, sockets
<1>2. subject \in Conn /\ mSocket[subject] = None
  BY <1>1, SubjectInClose DEF InClose, ClosedFirst
<1>3. \/ gui' = "idle" /\ reader[subject] = "absent" /\ UNCHANGED reader
      \/ gui' = "wait" /\ reader' = [reader EXCEPT ![subject] =
                                       IF @ = "created" THEN "run" ELSE @]
  BY DEF StopReader, threads
<1>4. Types' /\ GuiInvolved' /\ OwnerKnows' /\ NoForeignSocket'
  BY <1>1, <1>2, <1>3 DEF Types, GuiInvolved, InClose, OwnerKnows, NoForeignSocket
<1>5. OnlyAttached'
  BY <1>1, <1>2, <1>3 DEF OnlyAttached, Attached, Detached, InClose, Types
<1>6. ClosedFirst'
  BY <1>1, <1>2, <1>3 DEF ClosedFirst, Closed, Types
<1>7. OneRetry'
  BY <1>1, <1>3, OneRetryKept, SameQueue
<1>8. RetryIsClosed'
  BY <1>1, <1>2, <1>3, PendingKept, SameQueue
     DEF RetryIsClosed, Detached, InClose, Types
<1> QED
  BY <1>4, <1>5, <1>6, <1>7, <1>8

LEMMA DeleteReaderStep == ASSUME IInv, DeleteReader PROVE IInv'
<1> USE DEF IInv
<1>1. /\ gui = "wait" /\ gui' = "idle"
      /\ reader' = [reader EXCEPT ![subject] = "absent"]
      /\ UNCHANGED <<opened, current, subject, mSocket, owner, queue>>
  BY DEF DeleteReader, sockets
<1>2. subject \in Conn /\ mSocket[subject] = None
  BY <1>1, SubjectInClose DEF InClose, ClosedFirst
<1>3. Types' /\ GuiInvolved' /\ OwnerKnows' /\ NoForeignSocket'
  BY <1>1, <1>2 DEF Types, GuiInvolved, InClose, OwnerKnows, NoForeignSocket
<1>4. OnlyAttached'
  BY <1>1, <1>2 DEF OnlyAttached, Attached, Detached, InClose, Types
<1>5. ClosedFirst'
  BY <1>1, <1>2 DEF ClosedFirst, Closed, Types
<1>6. OneRetry'
  BY <1>1, OneRetryKept, SameQueue
<1>7. RetryIsClosed'
  BY <1>1, <1>2, PendingKept, SameQueue DEF RetryIsClosed, Detached, InClose, Types
<1> QED
  BY <1>3, <1>4, <1>5, <1>6, <1>7

-----------------------------------------------------------------------------
(* Messages *)

\* The message at the front is taken away; when it is a retry, it was the only
\* one.
LEMMA TailOfQueue ==
  ASSUME OneRetry, queue \in Seq(Message), queue # <<>>, queue' = Tail(queue)
  PROVE  /\ queue' \in Seq(Message)
         /\ \A i, j \in 1..Len(queue') :
              queue'[i] = "retry" /\ queue'[j] = "retry" => i = j
         /\ (\E i \in 1..Len(queue') : queue'[i] = "retry") => RetryPending
         /\ Head(queue) = "retry" => \A i \in 1..Len(queue') : queue'[i] # "retry"
<1>1. queue' \in Seq(Message) /\ Len(queue') = Len(queue) - 1
  BY HeadTailProperties
<1>2. \A i \in 1..Len(queue') : i + 1 \in 1..Len(queue) /\ queue'[i] = queue[i + 1]
  BY <1>1, HeadTailProperties, LenProperties
<1>3. 1 \in 1..Len(queue) /\ Head(queue) = queue[1]
  BY <1>1, HeadTailProperties, LenProperties
<1>4. Len(queue) \in Nat /\ Len(queue') \in Nat
  BY <1>1, LenProperties
<1>5. \A i, j \in 1..Len(queue') :
        queue'[i] = "retry" /\ queue'[j] = "retry" => i = j
  BY <1>2, <1>4 DEF OneRetry
<1>6. (\E i \in 1..Len(queue') : queue'[i] = "retry") => RetryPending
  BY <1>2 DEF RetryPending
<1>7. Head(queue) = "retry" => \A i \in 1..Len(queue') : queue'[i] # "retry"
  BY <1>2, <1>3, <1>4 DEF OneRetry
<1> QED
  BY <1>1, <1>5, <1>6, <1>7

\* A message that does not ask: the window's thread stays idle or processes.
LEMMA MessageStep ==
  ASSUME IInv, EvConnectionRead \/ EvConnectionError \/ EvRetryConnection
  PROVE  IInv'
<1> USE DEF IInv
<1>1. /\ gui = "idle" /\ queue # <<>> /\ queue' = Tail(queue)
      /\ UNCHANGED <<reader, mSocket, owner, opened, current, subject>>
  BY DEF EvConnectionRead, EvConnectionError, EvRetryConnection, TakeMessage,
         threads, sockets
<1>2. \/ gui' = "idle"
      \/ gui' = "process" /\ current # None
      \/ gui' = "ask" /\ current # None /\ Head(queue) = "retry"
  BY <1>1 DEF EvConnectionRead, EvConnectionError, EvRetryConnection, TakeMessage
<1>3. Types' /\ OwnerKnows' /\ NoForeignSocket'
  BY <1>1, <1>2, TailOfQueue DEF Types, OwnerKnows, NoForeignSocket
<1>4. OnlyAttached' /\ GuiInvolved'
  BY <1>1, <1>2 DEF OnlyAttached, GuiInvolved, Attached, Detached, InClose
<1>5. ClosedFirst'
  BY <1>1, <1>2 DEF ClosedFirst, Closed
<1>6. OneRetry'
  BY <1>1, <1>2, TailOfQueue DEF OneRetry, Types
<1>7. RetryPending' => RetryPending
  <2>1. CASE gui' = "ask"
    BY <1>1, <1>2, <2>1, HeadTailProperties, LenProperties DEF RetryPending, Types
  <2>2. CASE gui' # "ask"
    BY <1>1, <2>2, TailOfQueue DEF RetryPending, Types
  <2> QED
    BY <2>1, <2>2
<1>8. RetryIsClosed'
  BY <1>1, <1>2, <1>7 DEF RetryIsClosed, Detached, InClose
<1> QED
  BY <1>3, <1>4, <1>5, <1>6, <1>8

\* The window's thread has nothing more to do.
LEMMA BackToIdle ==
  ASSUME IInv, Processed \/ DoNotReopen
  PROVE  IInv'
<1> USE DEF IInv
<1>1. /\ gui \in {"process", "ask"} /\ gui' = "idle"
      /\ UNCHANGED <<reader, mSocket, owner, opened, current, subject, queue>>
  BY DEF Processed, DoNotReopen, threads, sockets
<1>2. OneRetry'
  BY <1>1, OneRetryKept, SameQueue
<1>3. RetryIsClosed'
  BY <1>1, PendingKept, SameQueue DEF RetryIsClosed, Detached, InClose
<1> QED
  BY <1>1, <1>2, <1>3
     DEF Types, OwnerKnows, NoForeignSocket, OnlyAttached, GuiInvolved, Attached,
         Detached, InClose, ClosedFirst, Closed

\* No retry message waits while the connection has its reading thread, so the
\* one that is posted is the only one.
LEMMA SendRetryConnectionStep == ASSUME IInv, SendRetryConnection PROVE IInv'
<1> USE DEF IInv
<1>1. /\ gui = "process" /\ gui' = "close" /\ subject' = current
      /\ reader[current] # "absent"
      /\ queue' = Append(queue, "retry")
      /\ UNCHANGED <<reader, mSocket, owner, opened, current>>
  BY DEF SendRetryConnection, Closing, threads, sockets
<1>2. current \in Conn
  BY <1>1 DEF GuiInvolved, Types
<1>3. ~RetryPending
  BY <1>1 DEF RetryIsClosed, Detached, InClose, GuiInvolved
<1>4. Types'
  BY <1>1, AppendProperties DEF Types, Message
<1>5. OneRetry'
  BY <1>1, <1>3, AppendProperties, LenProperties DEF OneRetry, RetryPending, Types
<1>6. RetryIsClosed' /\ GuiInvolved' /\ OnlyAttached'
  BY <1>1, <1>2 DEF RetryIsClosed, GuiInvolved, OnlyAttached, Attached, Detached,
                    InClose
<1> QED
  BY <1>1, <1>4, <1>5, <1>6 DEF OwnerKnows, NoForeignSocket, ClosedFirst, Closed

-----------------------------------------------------------------------------
(* Open and Reopen *)

LEMMA OpenStep ==
  ASSUME IInv, Open, gui \in {"idle", "ask"},
         \A i \in 1..Len(queue) : queue[i] # "retry",
         current # None => Detached(current)
  PROVE  IInv'
<1> USE DEF IInv
<1> DEFINE c == opened + 1
<1>1. /\ c \in Conn /\ opened' = c /\ c # current
      /\ c \in 0..MaxConns /\ current <= c /\ subject <= c /\ c <= c /\ c # None
      /\ queue' = queue
  BY ConnectionAssumption DEF Open, Types, Conn, None
<1>2. \A d \in Conn : Detached(d)
  BY ConnectionAssumption DEF OnlyAttached, Attached, InClose, Conn, None
<1>3. \A h \in Handle : owner[h] = None
  BY <1>2, ConnectionAssumption DEF OwnerKnows, Detached, Types, None, Conn
<1>4. NoNewRetry /\ ~(\E i \in 1..Len(queue') : queue'[i] = "retry")
  BY <1>1, SameQueue
<1> HIDE DEF c
<1>5. CASE OpenFails(c)
  <2>1. /\ reader' = [reader EXCEPT ![c] = "created"]
        /\ gui' = "close" /\ subject' = c /\ current' = current
        /\ \/ UNCHANGED <<owner, mSocket>>
           \/ \E h \in Handle : /\ owner' = [owner EXCEPT ![h] = c]
                                /\ mSocket' = [mSocket EXCEPT ![c] = h]
    BY <1>5 DEF OpenFails, Closing, sockets
  <2>2. Types' /\ GuiInvolved'
    BY <1>1, <2>1 DEF Types, GuiInvolved, InClose
  <2>3. OnlyAttached'
    BY <1>1, <1>2, <2>1 DEF OnlyAttached, Attached, Detached, InClose, Types
  <2>4. OwnerKnows' /\ NoForeignSocket'
    BY <1>1, <1>2, <1>3, <2>1, ConnectionAssumption
       DEF OwnerKnows, NoForeignSocket, Detached, Types
  <2>5. ClosedFirst'
    BY <1>1, <1>2, <2>1 DEF ClosedFirst, Closed, Detached, Types
  <2>6. OneRetry' /\ RetryIsClosed'
    BY <1>1, <1>4, <2>1 DEF OneRetry, RetryIsClosed, RetryPending
  <2> QED
    BY <2>2, <2>3, <2>4, <2>5, <2>6
<1>6. CASE OpenSucceeds(c)
  <2>1. /\ reader' = [reader EXCEPT ![c] = "run"]
        /\ current' = c
        /\ \/ current = None /\ gui' = "idle" /\ subject' = subject
           \/ current # None /\ gui' = "close" /\ subject' = current
        /\ \E h \in Handle : /\ owner' = [owner EXCEPT ![h] = c]
                             /\ mSocket' = [mSocket EXCEPT ![c] = h]
    BY <1>6 DEF OpenSucceeds, Closing
  <2>2. Types' /\ GuiInvolved'
    BY <1>1, <2>1 DEF Types, GuiInvolved, InClose
  <2>3. OnlyAttached'
    BY <1>1, <1>2, <2>1 DEF OnlyAttached, Attached, Detached, InClose, Types
  <2>4. OwnerKnows' /\ NoForeignSocket'
    BY <1>1, <1>2, <1>3, <2>1, ConnectionAssumption
       DEF OwnerKnows, NoForeignSocket, Detached, Types
  <2>5. ClosedFirst'
    BY <1>1, <1>2, <2>1 DEF ClosedFirst, Closed, Detached, Types
  <2>6. OneRetry' /\ RetryIsClosed'
    BY <1>1, <1>4, <2>1 DEF OneRetry, RetryIsClosed, RetryPending
  <2> QED
    BY <2>2, <2>3, <2>4, <2>5, <2>6
<1> QED
  BY <1>5, <1>6 DEF Open, c

LEMMA CmOpenConnectionStep == ASSUME IInv, CmOpenConnection PROVE IInv'
<1>1. /\ gui = "idle" /\ queue = <<>> /\ current = None /\ Open
  BY DEF CmOpenConnection, UserActs
<1>2. \A i \in 1..Len(queue) : queue[i] # "retry"
  BY <1>1
<1> QED
  BY <1>1, <1>2, OpenStep

LEMMA ReopenStep == ASSUME IInv, Reopen PROVE IInv'
<1>1. gui = "ask" /\ Open
  BY DEF Reopen
<1>2. \A i \in 1..Len(queue) : queue[i] # "retry"
  BY <1>1 DEF IInv, OneRetry
<1>3. current # None => Detached(current)
  BY <1>1 DEF IInv, RetryIsClosed, RetryPending, InClose
<1> QED
  BY <1>1, <1>2, <1>3, OpenStep

LEMMA CmCloseConnectionStep == ASSUME IInv, CmCloseConnection PROVE IInv'
<1> USE DEF IInv
<1>1. /\ gui = "idle" /\ queue = <<>> /\ current # None /\ current' = None
      /\ gui' = "close" /\ subject' = current
      /\ UNCHANGED <<reader, mSocket, owner, opened, queue>>
  BY DEF CmCloseConnection, UserActs, Closing, threads, sockets
<1>2. Types' /\ GuiInvolved'
  BY <1>1, ConnectionAssumption DEF Types, GuiInvolved, InClose, None
<1>3. OnlyAttached' /\ OneRetry' /\ RetryIsClosed'
  BY <1>1 DEF OnlyAttached, Attached, Detached, InClose, OneRetry, RetryIsClosed
<1> QED
  BY <1>1, <1>2, <1>3 DEF OwnerKnows, NoForeignSocket, ClosedFirst, Closed

-----------------------------------------------------------------------------

LEMMA StutterStep ==
  ASSUME IInv,
         UNCHANGED <<reader, mSocket, owner, opened, current, subject, gui, queue>>
  PROVE  IInv'
BY DEF IInv, Types, GuiInvolved, OwnerKnows, NoForeignSocket, OnlyAttached,
       ClosedFirst, OneRetry, RetryIsClosed, RetryPending, Attached, Detached,
       InClose, Closed

LEMMA IInvStep == IInv /\ [Next]_vars => IInv'
<1> SUFFICES ASSUME IInv, [Next]_vars PROVE IInv'
  OBVIOUS
<1>1. CASE \E c \in Conn : Reader(c)
  BY <1>1, ReaderStep
<1>2. CASE \E c \in Conn : PeerCloses(c)
  BY <1>2, StutterStep DEF PeerCloses, threads, sockets, window
<1>3. CASE Handler
  BY <1>3, CloseStep, CloseForgetStep, StopReaderStep, DeleteReaderStep,
     MessageStep, BackToIdle, SendRetryConnectionStep, ReopenStep DEF Handler
<1>4. CASE UNCHANGED vars
  BY <1>4, StutterStep DEF vars, threads, sockets, window
<1> QED
  BY <1>1, <1>2, <1>3, <1>4, CmOpenConnectionStep, CmCloseConnectionStep DEF Next

LEMMA IInvAlways == Spec => []IInv
BY InitInv, IInvStep, PTL DEF Spec

\* Whatever the two threads do to mSocket and in whatever order: what either of
\* them closes is its connection's own socket, or nobody's.
THEOREM SocketsAreOwn == Spec => []NoForeignSocket
<1>1. IInv => NoForeignSocket
  BY DEF IInv
<1> QED
  BY <1>1, IInvAlways, PTL

\* A reading thread never outlives its connection: once Close has returned
\* there is none that could touch the deleted object.
THEOREM ReadersEndFirst == Spec => []NoOrphanReader
<1>1. IInv => NoOrphanReader
  BY DEF IInv, OnlyAttached, Attached, Detached, InClose, NoOrphanReader
<1> QED
  BY <1>1, IInvAlways, PTL

\* However opening and closing went, no socket is left open that does not
\* belong to the connection of the window.
THEOREM SocketsAreClosed == Spec => []NoLeak
<1>1. IInv => NoLeak
  <2> SUFFICES ASSUME IInv, gui = "idle", NEW h \in Handle, owner[h] # None
               PROVE  owner[h] = current
    BY DEF NoLeak
  <2>1. owner[h] \in Conn /\ mSocket[owner[h]] = h /\ h # None
    BY ConnectionAssumption DEF IInv, Types, OwnerKnows, None
  <2> QED
    BY <2>1 DEF IInv, OnlyAttached, Attached, Detached, InClose
<1> QED
  BY <1>1, IInvAlways, PTL

\* All three together: what a run of three connections shows holds for any
\* number of connections and handles.
THEOREM SocketsAreKept == Spec => []SocketsKept
<1>1. NoForeignSocket /\ NoOrphanReader /\ NoLeak => SocketsKept
  BY DEF SocketsKept
<1> QED
  BY <1>1, SocketsAreOwn, ReadersEndFirst, SocketsAreClosed, PTL

-----------------------------------------------------------------------------
(* What is set up *)

SheetPlaces == {"idle", "sheet", "apply", "write", "save", "tell"}

Control(page) ==
  {Nothing} \cup IF page = "Printer" THEN [val : S!Printers, arg : S!Arguments] ELSE [val : 0..1]

ProgramTyped(p) ==
  /\ DOMAIN prog[p] = {"buf", "at", "k", "open", "save", "asked"}
  /\ prog[p].at \in SheetPlaces /\ prog[p].k \in Nat /\ prog[p].save \in BOOLEAN
  /\ DOMAIN prog[p].buf = S!Data /\ \A part \in S!Data : prog[p].buf[part] \in S!Held(part)
  /\ DOMAIN prog[p].open = S!Pages(p)
  /\ \A page \in S!Pages(p) \cap S!Data : prog[p].open[page] \in Control(page)

RegTyped ==
  /\ DOMAIN reg = {"own", "arg", "default", "config", "realms"}
  /\ DOMAIN reg.own = S!Data /\ \A part \in S!Data : reg.own[part] \in S!Held(part) \cup {Nothing}
  /\ reg.arg \in [S!Printers -> S!Arguments]
  /\ DOMAIN reg.config = NetRealm

STyped ==
  /\ setting \in SetupSession
  /\ RegTyped
  /\ DOMAIN prog = Program /\ DOMAIN cache = Program /\ DOMAIN written = NetRealm
  /\ \A p \in Program : ProgramTyped(p)

CachedWhole == S!HostsAreWhole /\ \A p \in Program : cache[p].realm \in NetRealm \cup {Nothing}

\* The lists that are in the registry were stored together, unless a program is
\* between deleting and writing them.
ListsWhole ==
  \/ setting.writable /\ \E p \in Program : prog[p].at = "write"
  \/ \A r \in NetRealm : reg.config[r] \in written[r]

\* Nobody else is about to tell that it has saved.
Told(p) == \A q \in Program \ {p} : prog[q].at # "tell"

\* A part the user has not seen, or has not saved, is in memory as it is stored.
Loaded(p) ==
  \A part \in S!Pages(p) \cap S!Data : prog[p].open[part] = Nothing \/ ~prog[p].save =>
    prog[p].buf[part] = S!InEffect(part) \/ (S!Stored(part) # Nothing /\ ~Told(p))

SheetInv(p) ==
  /\ prog[p].at \in {"idle", "tell"} => \A page \in S!Pages(p) \cap S!Data : prog[p].open[page] = Nothing
  /\ prog[p].at \in {"apply", "write"} => prog[p].asked /\ prog[p].k > 0

SInv == STyped /\ ListsWhole /\ CachedWhole /\ \A p \in Program : SheetInv(p) /\ Loaded(p)

-----------------------------------------------------------------------------

LEMMA SessionFacts ==
  ASSUME S!SetupAssumption, setting \in SetupSession
  PROVE  /\ \A p \in Program : setting.pages[p] \in Seq(S!Data \cup {"krb.realms", "krb.config"})
         /\ \A part \in S!Data : /\ setting.own[part] \in S!Held(part) \cup {Nothing}
                               /\ setting.dflt[part] \in S!Held(part) \cup {Nothing}
         /\ DOMAIN setting.own = S!Data /\ DOMAIN setting.config = NetRealm /\ setting.writable \in BOOLEAN
         /\ Nothing \notin S!Printers /\ Nothing \notin [val : S!Printers, arg : S!Arguments]
         /\ Nothing \notin 0..1 /\ Nothing \notin [val : 0..1]
         /\ \A part \in S!Data : Nothing \notin S!Held(part)
  BY DEF S!SetupAssumption, S!Held

LEMMA StoredHeld ==
  ASSUME S!SetupAssumption, STyped, NEW part \in S!Data
  PROVE  S!Stored(part) \in S!Held(part) \cup {Nothing} /\ S!AtFirst(part) \in S!Held(part)
  BY SessionFacts DEF STyped, RegTyped, S!Stored, S!AtFirst, S!Held, S!Data, S!Printers

LEMMA SetupInit ==
  ASSUME S!SetupAssumption, S!Init
  PROVE  SInv
<1>1. setting \in SetupSession
  BY DEF S!Init
<1>2. RegTyped
  BY <1>1, SessionFacts DEF S!Init, RegTyped, S!Arguments
<1>3. ASSUME NEW p \in Program
      PROVE  ProgramTyped(p) /\ SheetInv(p) /\ Loaded(p)
  <2>1. prog[p] = [buf |-> [part \in S!Data |-> IF part \in S!Pages(p) /\ S!Stored(part) # Nothing THEN S!Stored(part)
                                   ELSE S!AtFirst(part)],
                   at |-> "idle", k |-> 0, open |-> S!Closed(p), save |-> FALSE, asked |-> FALSE]
    BY <1>3 DEF S!Init
  <2>2. \A part \in S!Data : S!Stored(part) \in S!Held(part) \cup {Nothing} /\ S!AtFirst(part) \in S!Held(part)
    BY <1>1, <1>2, SessionFacts DEF RegTyped, S!Stored, S!AtFirst, S!Held, S!Data, S!Printers
  <2>3. ProgramTyped(p)
    BY <2>1, <2>2, SessionFacts DEF ProgramTyped, SheetPlaces, S!Closed, Control
  <2>4. SheetInv(p) /\ Loaded(p)
    BY <2>1, <2>2 DEF SheetInv, Loaded, S!InEffect, S!Closed
  <2> QED
    BY <2>3, <2>4
<1>4. STyped
  BY <1>1, <1>2, <1>3, SessionFacts DEF S!Init, STyped
<1>5. ListsWhole /\ CachedWhole
  <2>1. \A r \in NetRealm : reg.config[r] \in written[r]
    BY <1>1, SessionFacts DEF S!Init
  <2>2. \A p \in Program : cache[p].realm = Nothing
    BY DEF S!Init
  <2> QED
    BY <2>1, <2>2 DEF ListsWhole, CachedWhole, S!HostsAreWhole
<1> QED
  BY <1>3, <1>4, <1>5 DEF SInv

\* A change of a list that is not a part of the settings.
LEMMA ListStep ==
  ASSUME S!SetupAssumption, SInv, NEW p \in Program, NEW page, page \notin S!Data, NEW l,
         prog' = [prog EXCEPT ![p].open[page] = l], UNCHANGED <<setting, reg, cache, written>>
  PROVE  SInv'
<1>1. \A q \in Program : /\ DOMAIN prog'[q] = DOMAIN prog[q] /\ prog'[q].at = prog[q].at /\ prog'[q].k = prog[q].k
                         /\ prog'[q].save = prog[q].save /\ prog'[q].asked = prog[q].asked
                         /\ prog'[q].buf = prog[q].buf /\ DOMAIN prog'[q].open = DOMAIN prog[q].open
                         /\ \A part \in S!Pages(q) \cap S!Data : prog'[q].open[part] = prog[q].open[part]
  BY DEF SInv, STyped, ProgramTyped
<1>2. \A q \in Program : S!Pages(q)' = S!Pages(q)
  BY DEF S!Pages
<1>3. \A part : S!Stored(part)' = S!Stored(part) /\ S!InEffect(part)' = S!InEffect(part)
  BY DEF S!Stored, S!InEffect, S!AtFirst
<1>4. STyped'
  <2>1. ASSUME NEW q \in Program
        PROVE  ProgramTyped(q)'
    <3>1. ProgramTyped(q)
      BY DEF SInv, STyped
    <3> QED
      BY <1>1, <1>2, <3>1 DEF ProgramTyped
  <2> QED
    BY <2>1 DEF SInv, STyped, RegTyped
<1>5. ListsWhole' /\ CachedWhole'
  BY <1>1 DEF SInv, ListsWhole, CachedWhole, S!HostsAreWhole
<1>6. \A q \in Program : SheetInv(q)' /\ Loaded(q)'
  BY <1>1, <1>2, <1>3 DEF SInv, SheetInv, Loaded, Told
<1> QED
  BY <1>4, <1>5, <1>6 DEF SInv

\* A step of one program that neither tells the others nor saves.
LEMMA MoveStep ==
  ASSUME S!SetupAssumption, SInv, NEW p \in Program, setting' = setting, DOMAIN prog' = Program,
         \A q \in Program \ {p} : prog'[q] = prog[q],
         reg'.own = reg.own, RegTyped', prog[p].at # "tell",
         DOMAIN written' = NetRealm, DOMAIN cache' = Program,
         ProgramTyped(p)', SheetInv(p)', Loaded(p)', ListsWhole', CachedWhole'
  PROVE  SInv'
<1>1. \A part : S!Stored(part)' = S!Stored(part) /\ S!InEffect(part)' = S!InEffect(part)
  BY DEF S!Stored, S!InEffect, S!AtFirst
<1>2. ASSUME NEW q \in Program, q # p
      PROVE  ProgramTyped(q)' /\ SheetInv(q)' /\ Loaded(q)'
  <2>1. prog'[q] = prog[q] /\ S!Pages(q)' = S!Pages(q)
    BY <1>2 DEF S!Pages
  <2>2. ProgramTyped(q)' /\ SheetInv(q)'
    BY <2>1 DEF SInv, STyped, ProgramTyped, SheetInv
  <2>3. ~Told(q) => ~Told(q)'
    BY DEF Told
  <2>4. Loaded(q)'
    BY <1>1, <2>1, <2>3 DEF SInv, Loaded
  <2> QED
    BY <2>2, <2>4
<1> QED
  BY <1>2 DEF SInv, STyped

\* A step that leaves the lists of hosts.
LEMMA ListsKept ==
  ASSUME SInv, NEW p \in Program, UNCHANGED <<setting, cache, written>>, reg'.config = reg.config,
         \A q \in Program \ {p} : prog'[q] = prog[q],
         prog[p].at = "write" => prog'[p].at = "write"
  PROVE  /\ ListsWhole' /\ CachedWhole'
         /\ DOMAIN written' = NetRealm /\ DOMAIN cache' = Program
  BY DEF SInv, STyped, ListsWhole, CachedWhole, S!HostsAreWhole

\* A step in which only the sheet of one program changes.
LEMMA SheetStep ==
  ASSUME S!SetupAssumption, SInv, NEW p \in Program, UNCHANGED <<setting, reg, cache, written>>,
         DOMAIN prog' = Program, \A q \in Program \ {p} : prog'[q] = prog[q],
         prog[p].at # "tell", prog[p].at = "write" => prog'[p].at = "write",
         ProgramTyped(p)', SheetInv(p)', Loaded(p)'
  PROVE  SInv'
<1>1. RegTyped'
  BY DEF SInv, STyped, RegTyped
<1> QED
  BY <1>1, ListsKept, MoveStep

\* What is shown of a part is of its type.
LEMMA WindowTyped ==
  ASSUME S!SetupAssumption, STyped, NEW p \in Program, NEW page \in S!Pages(p) \cap S!Data
  PROVE  S!SetupWindow(p, page) \in Control(page) \ {Nothing}
<1>1. prog[p].buf[page] \in S!Held(page)
  BY DEF STyped, ProgramTyped
<1>2. CASE page = "Printer"
  <2>1. reg.arg[prog[p].buf[page]] \in S!Arguments
    BY <1>1, <1>2 DEF S!Held, STyped, RegTyped
  <2> QED
    BY <1>1, <1>2, <2>1, SessionFacts DEF S!SetupWindow, Control, S!Held, STyped, S!Data
<1>3. CASE page # "Printer"
  BY <1>1, <1>3, SessionFacts DEF S!SetupWindow, Control, S!Held, STyped, S!Data
<1> QED
  BY <1>2, <1>3

LEMMA CmSetupStep ==
  ASSUME S!SetupAssumption, SInv, NEW p \in Program, S!CmSetup(p)
  PROVE  SInv'
<1> DEFINE first == Head(setting.pages[p])
<1>1. /\ prog[p].at = "idle"
      /\ prog' = [prog EXCEPT ![p].at = "sheet", ![p].save = FALSE, ![p].asked = FALSE,
                              ![p].open = [@ EXCEPT ![first] = S!SetupWindow(p, first)]]
      /\ UNCHANGED <<setting, reg, cache, written>>
  BY DEF S!CmSetup, S!Others
<1>2. ProgramTyped(p) /\ SheetInv(p) /\ Loaded(p) /\ DOMAIN prog = Program /\ STyped
  BY DEF SInv, STyped
<1>3. /\ DOMAIN prog' = Program /\ \A q \in Program \ {p} : prog'[q] = prog[q]
      /\ prog'[p].at = "sheet" /\ prog'[p].save = FALSE /\ prog'[p].k = prog[p].k
      /\ prog'[p].buf = prog[p].buf /\ DOMAIN prog'[p] = DOMAIN prog[p]
      /\ prog'[p].open = [prog[p].open EXCEPT ![first] = S!SetupWindow(p, first)]
  BY <1>1, <1>2 DEF ProgramTyped
<1>4. S!Pages(p)' = S!Pages(p)
  BY <1>1 DEF S!Pages
<1>5. \A page \in S!Pages(p) \cap S!Data : prog'[p].open[page] \in Control(page)
  BY <1>2, <1>3, WindowTyped DEF ProgramTyped
<1>6. ProgramTyped(p)'
  BY <1>2, <1>3, <1>4, <1>5 DEF ProgramTyped, SheetPlaces
<1>7. \A part : S!Stored(part)' = S!Stored(part) /\ S!InEffect(part)' = S!InEffect(part)
  BY <1>1 DEF S!Stored, S!InEffect, S!AtFirst
<1>8. SheetInv(p)' /\ Loaded(p)'
  BY <1>1, <1>2, <1>3, <1>4, <1>7 DEF SheetInv, Loaded, Told
<1> QED
  BY <1>1, <1>3, <1>6, <1>8, SheetStep

LEMMA TurnStep ==
  ASSUME S!SetupAssumption, SInv, NEW p \in Program, NEW page \in S!Pages(p), S!Turn(p, page)
  PROVE  SInv'
<1>1. /\ prog[p].at = "sheet" /\ prog[p].open[page] = Nothing
      /\ prog' = [prog EXCEPT ![p].open[page] = S!SetupWindow(p, page)]
      /\ UNCHANGED <<setting, reg, cache, written>>
  BY DEF S!Turn, S!Others
<1>2. ProgramTyped(p) /\ SheetInv(p) /\ Loaded(p) /\ DOMAIN prog = Program /\ STyped
  BY DEF SInv, STyped
<1>3. /\ DOMAIN prog' = Program /\ \A q \in Program \ {p} : prog'[q] = prog[q]
      /\ prog'[p].at = "sheet" /\ prog'[p].save = prog[p].save /\ prog'[p].k = prog[p].k
      /\ prog'[p].buf = prog[p].buf /\ DOMAIN prog'[p] = DOMAIN prog[p]
      /\ prog'[p].open = [prog[p].open EXCEPT ![page] = S!SetupWindow(p, page)]
  BY <1>1, <1>2 DEF ProgramTyped
<1>4. S!Pages(p)' = S!Pages(p)
  BY <1>1 DEF S!Pages
<1>5. \A g \in S!Pages(p) \cap S!Data : prog'[p].open[g] \in Control(g)
  BY <1>2, <1>3, WindowTyped DEF ProgramTyped
<1>6. ProgramTyped(p)'
  BY <1>2, <1>3, <1>4, <1>5 DEF ProgramTyped, SheetPlaces
<1>7. \A part : S!Stored(part)' = S!Stored(part) /\ S!InEffect(part)' = S!InEffect(part)
  BY <1>1 DEF S!Stored, S!InEffect, S!AtFirst
<1>8. SheetInv(p)' /\ Loaded(p)'
  BY <1>1, <1>2, <1>3, <1>4, <1>7 DEF SheetInv, Loaded, Told, ProgramTyped
<1> QED
  BY <1>1, <1>3, <1>6, <1>8, SheetStep

\* The control of a part that is shown is changed.
LEMMA ControlStep ==
  ASSUME S!SetupAssumption, SInv, NEW p \in Program, NEW page \in S!Pages(p) \cap S!Data,
         NEW v \in Control(page) \ {Nothing}, prog[p].at = "sheet", prog[p].open[page] # Nothing,
         prog' = [prog EXCEPT ![p].open[page] = v], UNCHANGED <<setting, cache, written>>,
         reg'.own = reg.own, reg'.config = reg.config, RegTyped'
  PROVE  SInv'
<1>2. ProgramTyped(p) /\ SheetInv(p) /\ Loaded(p) /\ DOMAIN prog = Program /\ STyped
  BY DEF SInv, STyped
<1>3. /\ DOMAIN prog' = Program /\ \A q \in Program \ {p} : prog'[q] = prog[q]
      /\ prog'[p].at = "sheet" /\ prog'[p].save = prog[p].save /\ prog'[p].k = prog[p].k
      /\ prog'[p].buf = prog[p].buf /\ DOMAIN prog'[p] = DOMAIN prog[p]
      /\ prog'[p].open = [prog[p].open EXCEPT ![page] = v]
  BY <1>2 DEF ProgramTyped
<1>4. S!Pages(p)' = S!Pages(p)
  BY DEF S!Pages
<1>5. \A g \in S!Pages(p) \cap S!Data : prog'[p].open[g] \in Control(g)
  BY <1>2, <1>3 DEF ProgramTyped
<1>6. ProgramTyped(p)'
  BY <1>2, <1>3, <1>4, <1>5 DEF ProgramTyped
<1>7. \A part : S!Stored(part)' = S!Stored(part) /\ S!InEffect(part)' = S!InEffect(part)
  BY DEF S!Stored, S!InEffect, S!AtFirst
<1>8. SheetInv(p)' /\ Loaded(p)'
  BY <1>2, <1>3, <1>4, <1>7 DEF SheetInv, Loaded, Told, ProgramTyped
<1> QED
  BY <1>3, <1>6, <1>8, ListsKept, MoveStep

LEMMA SetControlStep ==
  ASSUME S!SetupAssumption, SInv, NEW p \in Program, NEW page \in S!Data, NEW v \in 0..1, S!SetControl(p, page, v)
  PROVE  SInv'
<1>1. /\ prog[p].at = "sheet" /\ page \in S!Pages(p) /\ prog[p].open[page] # Nothing /\ page # "Printer"
      /\ prog' = [prog EXCEPT ![p].open[page].val = v]
      /\ UNCHANGED <<setting, reg, cache, written>>
  BY DEF S!SetControl, S!Shows, S!Others
<1>2. ProgramTyped(p) /\ DOMAIN prog = Program /\ STyped
  BY DEF SInv, STyped
<1>3. prog[p].open[page] \in [val : 0..1]
  BY <1>1, <1>2 DEF ProgramTyped, Control
<1>4. [prog[p].open[page] EXCEPT !.val = v] \in Control(page) \ {Nothing}
  BY <1>1, <1>3, <1>2, SessionFacts DEF Control, STyped
<1>5. prog' = [prog EXCEPT ![p].open[page] = [prog[p].open[page] EXCEPT !.val = v]]
  BY <1>1
<1>6. RegTyped'
  BY <1>1, <1>2 DEF STyped, RegTyped
<1> QED
  BY <1>1, <1>4, <1>5, <1>6, ControlStep

LEMMA PrinterChangedStep ==
  ASSUME S!SetupAssumption, SInv, NEW p \in Program, NEW kind \in S!Printers, S!EvPrinterChanged(p, kind)
  PROVE  SInv'
<1>1. /\ prog[p].at = "sheet" /\ "Printer" \in S!Pages(p) \cap S!Data /\ prog[p].open["Printer"] # Nothing
      /\ prog' = [prog EXCEPT ![p].open["Printer"] = [val |-> kind, arg |-> reg.arg[kind]]]
      /\ UNCHANGED <<setting, reg, cache, written>>
  BY DEF S!EvPrinterChanged, S!Shows, S!Others, S!Data
<1>2. STyped /\ RegTyped
  BY DEF SInv, STyped
<1>3. [val |-> kind, arg |-> reg.arg[kind]] \in Control("Printer") \ {Nothing}
  BY <1>2, SessionFacts DEF Control, STyped, RegTyped
<1>4. RegTyped'
  BY <1>1, <1>2 DEF RegTyped
<1> QED
  BY <1>1, <1>3, <1>4, ControlStep

LEMMA PrintSetupStep ==
  ASSUME S!SetupAssumption, SInv, NEW p \in Program, NEW arg \in S!Arguments, S!CmPrintSetup(p, arg)
  PROVE  SInv'
<1> DEFINE kind == prog[p].open["Printer"].val
<1>1. /\ prog[p].at = "sheet" /\ "Printer" \in S!Pages(p) \cap S!Data /\ prog[p].open["Printer"] # Nothing
      /\ prog' = [prog EXCEPT ![p].open["Printer"].arg = arg]
      /\ reg' = IF kind = "serial" THEN [reg EXCEPT !.arg[kind] = arg] ELSE reg
      /\ UNCHANGED <<setting, cache, written>>
  BY DEF S!CmPrintSetup, S!Shows, S!Data
<1>2. ProgramTyped(p) /\ DOMAIN prog = Program /\ STyped /\ RegTyped
  BY DEF SInv, STyped
<1>3. prog[p].open["Printer"] \in [val : S!Printers, arg : S!Arguments]
  BY <1>1, <1>2 DEF ProgramTyped, Control
<1>4. [prog[p].open["Printer"] EXCEPT !.arg = arg] \in Control("Printer") \ {Nothing}
  BY <1>3, <1>2, SessionFacts DEF Control, STyped
<1>5. prog' = [prog EXCEPT ![p].open["Printer"] = [prog[p].open["Printer"] EXCEPT !.arg = arg]]
  BY <1>1
<1>6. RegTyped' /\ reg'.own = reg.own /\ reg'.config = reg.config
  BY <1>1, <1>2 DEF RegTyped
<1> QED
  BY <1>1, <1>4, <1>5, <1>6, ControlStep

\* A step that changes no buffer and no page.
LEMMA PlaceStep ==
  ASSUME S!SetupAssumption, SInv, NEW p \in Program, setting' = setting, DOMAIN prog' = Program,
         \A q \in Program \ {p} : prog'[q] = prog[q],
         prog[p].at # "tell", DOMAIN prog'[p] = DOMAIN prog[p],
         prog'[p].buf = prog[p].buf, prog'[p].open = prog[p].open, prog'[p].save = prog[p].save,
         prog'[p].at \in {"sheet", "apply", "write", "save"}, prog'[p].k \in Nat,
         prog'[p].at \in {"apply", "write"} => prog'[p].asked /\ prog'[p].k > 0,
         reg'.own = reg.own, RegTyped', DOMAIN written' = NetRealm, DOMAIN cache' = Program,
         ListsWhole', CachedWhole'
  PROVE  SInv'
<1>1. ProgramTyped(p) /\ Loaded(p)
  BY DEF SInv, STyped
<1>2. S!Pages(p)' = S!Pages(p) /\ Told(p)' = Told(p)
  BY DEF S!Pages, Told
<1>3. \A part : S!Stored(part)' = S!Stored(part) /\ S!InEffect(part)' = S!InEffect(part)
  BY DEF S!Stored, S!InEffect, S!AtFirst
<1>4. ProgramTyped(p)'
  BY <1>1, <1>2 DEF ProgramTyped, SheetPlaces
<1>5. SheetInv(p)' /\ Loaded(p)'
  BY <1>1, <1>2, <1>3 DEF SheetInv, Loaded
<1> QED
  BY <1>4, <1>5, MoveStep

\* OK, Cancel, and the pages that were not shown.
LEMMA CloseSheetStep ==
  ASSUME S!SetupAssumption, SInv, NEW p \in Program, S!Ok(p) \/ S!SkipPage(p) \/ S!EndApply(p) \/ S!Cancel(p)
  PROVE  SInv'
<1>1. ProgramTyped(p) /\ SheetInv(p) /\ DOMAIN prog = Program /\ STyped /\ RegTyped
  BY DEF SInv, STyped
<1>2. /\ DOMAIN prog' = Program /\ \A q \in Program \ {p} : prog'[q] = prog[q]
      /\ DOMAIN prog'[p] = DOMAIN prog[p]
      /\ prog'[p].buf = prog[p].buf /\ prog'[p].open = prog[p].open /\ prog'[p].save = prog[p].save
      /\ UNCHANGED <<setting, reg, cache, written>>
      /\ prog[p].at \in {"sheet", "apply"}
      /\ prog'[p].at \in {"apply", "save"} /\ prog'[p].k \in Nat
      /\ prog'[p].at = "apply" => prog'[p].asked /\ prog'[p].k > 0
  <2>1. CASE S!Ok(p)
    BY <1>1, <2>1 DEF ProgramTyped, S!Ok, S!Others
  <2>2. CASE S!SkipPage(p)
    BY <1>1, <2>2 DEF ProgramTyped, SheetInv, S!SkipPage, S!Applying, S!Applied, S!Others
  <2>3. CASE S!EndApply(p)
    BY <1>1, <2>3 DEF ProgramTyped, S!EndApply, S!Others
  <2>4. CASE S!Cancel(p)
    BY <1>1, <2>4 DEF ProgramTyped, S!Cancel, S!Others
  <2> QED
    BY <2>1, <2>2, <2>3, <2>4
<1>3. RegTyped'
  BY <1>1, <1>2 DEF RegTyped
<1> QED
  BY <1>2, <1>3, ListsKept, PlaceStep

LEMMA ApplyRealmsStep ==
  ASSUME S!SetupAssumption, SInv, NEW p \in Program, S!ApplyRealms(p)
  PROVE  SInv'
<1>1. ProgramTyped(p) /\ SheetInv(p) /\ DOMAIN prog = Program /\ STyped /\ RegTyped
  BY DEF SInv, STyped
<1>2. /\ prog[p].at = "apply" /\ UNCHANGED <<setting, cache, written>>
      /\ \/ S!Refused(p) /\ UNCHANGED reg
         \/ S!Applied(p) /\ \E list : reg' = [reg EXCEPT !.realms = list] \/ reg' = reg
  BY DEF S!ApplyRealms, S!Applying
<1>3. /\ DOMAIN prog' = Program /\ \A q \in Program \ {p} : prog'[q] = prog[q]
      /\ DOMAIN prog'[p] = DOMAIN prog[p]
      /\ prog'[p].buf = prog[p].buf /\ prog'[p].open = prog[p].open /\ prog'[p].save = prog[p].save
      /\ prog'[p].at \in {"sheet", "apply"} /\ prog'[p].k \in Nat
      /\ prog'[p].at = "apply" => prog'[p].asked /\ prog'[p].k > 0
  <2>1. CASE S!Refused(p)
    BY <1>1, <2>1 DEF ProgramTyped, S!Refused
  <2>2. CASE S!Applied(p)
    BY <1>1, <1>2, <2>2 DEF ProgramTyped, SheetInv, S!Applied
  <2> QED
    BY <1>2, <2>1, <2>2
<1>4. RegTyped' /\ reg'.own = reg.own /\ reg'.config = reg.config
  BY <1>1, <1>2 DEF RegTyped
<1> QED
  BY <1>2, <1>3, <1>4, ListsKept, PlaceStep

LEMMA ApplyConfigStep ==
  ASSUME S!SetupAssumption, SInv, NEW p \in Program, S!ApplyConfig(p)
  PROVE  SInv'
<1>1. ProgramTyped(p) /\ SheetInv(p) /\ DOMAIN prog = Program /\ STyped /\ RegTyped
  BY DEF SInv, STyped
<1>2. /\ prog[p].at = "apply" /\ UNCHANGED <<setting, cache, written>>
      /\ \/ S!Refused(p) /\ UNCHANGED reg
         \/ /\ prog' = [prog EXCEPT ![p].at = "write"]
            /\ reg' = IF setting.writable THEN [reg EXCEPT !.default = S!DefaultRealm(p), !.config = [r \in NetRealm |-> <<>>]] ELSE reg
  BY DEF S!ApplyConfig, S!Applying
<1>3. /\ DOMAIN prog' = Program /\ \A q \in Program \ {p} : prog'[q] = prog[q]
      /\ DOMAIN prog'[p] = DOMAIN prog[p]
      /\ prog'[p].buf = prog[p].buf /\ prog'[p].open = prog[p].open /\ prog'[p].save = prog[p].save
      /\ prog'[p].at \in {"sheet", "write"} /\ prog'[p].k \in Nat
      /\ prog'[p].at = "write" => prog'[p].asked /\ prog'[p].k > 0
  <2>1. CASE S!Refused(p)
    BY <1>1, <2>1 DEF ProgramTyped, S!Refused
  <2>2. CASE prog' = [prog EXCEPT ![p].at = "write"]
    BY <1>1, <1>2, <2>2 DEF ProgramTyped, SheetInv
  <2> QED
    BY <1>2, <2>1, <2>2
<1>4. RegTyped' /\ reg'.own = reg.own
  <2>1. CASE reg' = [reg EXCEPT !.default = S!DefaultRealm(p), !.config = [r \in NetRealm |-> <<>>]]
    <3>1. /\ DOMAIN reg' = DOMAIN reg /\ reg'.own = reg.own /\ reg'.arg = reg.arg
          /\ reg'.config = [r \in NetRealm |-> <<>>]
      BY <1>1, <2>1 DEF RegTyped
    <3> QED
      BY <1>1, <3>1 DEF RegTyped
  <2>2. CASE reg' = reg
    BY <1>1, <2>2 DEF RegTyped
  <2> QED
    BY <1>2, <2>1, <2>2
<1>5. ListsWhole' /\ CachedWhole'
  <2>1. CachedWhole'
    BY <1>2 DEF SInv, CachedWhole, S!HostsAreWhole
  <2>2. CASE reg' = reg
    BY <1>2, <1>3, <2>2, ListsKept
  <2>3. CASE reg' # reg
    <3>1. setting.writable /\ prog'[p].at = "write"
      BY <1>1, <1>2, <2>3 DEF ProgramTyped
    <3> QED
      BY <1>2, <2>1, <3>1 DEF ListsWhole
  <2> QED
    BY <2>2, <2>1, <2>3
<1>6. DOMAIN written' = NetRealm /\ DOMAIN cache' = Program
  BY <1>1, <1>2 DEF STyped
<1> QED
  BY <1>2, <1>3, <1>4, <1>5, <1>6, PlaceStep

LEMMA WriteConfigStep ==
  ASSUME S!SetupAssumption, SInv, NEW p \in Program, S!WriteConfig(p)
  PROVE  SInv'
<1>1. ProgramTyped(p) /\ SheetInv(p) /\ DOMAIN prog = Program /\ STyped /\ RegTyped
  BY DEF SInv, STyped
<1>2. /\ prog[p].at = "write" /\ UNCHANGED <<setting, cache>>
      /\ \/ S!Refused(p) /\ UNCHANGED <<reg, written>> /\ ~setting.writable
         \/ S!Applied(p) /\ UNCHANGED <<reg, written>> /\ ~setting.writable
         \/ /\ S!Applied(p)
            /\ reg' = [reg EXCEPT !.config = [r \in NetRealm |-> S!HostsOf(S!HostRows(p), r)]]
            /\ written' = [r \in NetRealm |-> written[r] \cup {S!HostsOf(S!HostRows(p), r)}]
  BY DEF S!WriteConfig
<1>3. /\ DOMAIN prog' = Program /\ \A q \in Program \ {p} : prog'[q] = prog[q]
      /\ DOMAIN prog'[p] = DOMAIN prog[p]
      /\ prog'[p].buf = prog[p].buf /\ prog'[p].open = prog[p].open /\ prog'[p].save = prog[p].save
      /\ prog'[p].at \in {"sheet", "apply"} /\ prog'[p].k \in Nat
      /\ prog'[p].at = "apply" => prog'[p].asked /\ prog'[p].k > 0
  <2>1. CASE S!Refused(p)
    BY <1>1, <2>1 DEF ProgramTyped, S!Refused
  <2>2. CASE S!Applied(p)
    BY <1>1, <1>2, <2>2 DEF ProgramTyped, SheetInv, S!Applied
  <2> QED
    BY <1>2, <2>1, <2>2
<1>4. RegTyped' /\ reg'.own = reg.own
  BY <1>1, <1>2 DEF RegTyped
<1>5. ListsWhole' /\ CachedWhole' /\ DOMAIN written' = NetRealm /\ DOMAIN cache' = Program
  <2>1. CASE UNCHANGED <<reg, written>> /\ ~setting.writable
    BY <1>1, <1>2, <2>1 DEF SInv, STyped, ListsWhole, CachedWhole, S!HostsAreWhole
  <2>2. CASE /\ reg' = [reg EXCEPT !.config = [r \in NetRealm |-> S!HostsOf(S!HostRows(p), r)]]
             /\ written' = [r \in NetRealm |-> written[r] \cup {S!HostsOf(S!HostRows(p), r)}]
    <3>1. \A r \in NetRealm : written[r] \subseteq written'[r] /\ reg'.config[r] \in written'[r]
      BY <1>1, <2>2 DEF RegTyped
    <3>2. ListsWhole'
      BY <3>1 DEF ListsWhole
    <3>3. CachedWhole'
      <4> SUFFICES ASSUME NEW q \in Program, cache[q].realm # Nothing, ~cache[q].torn
                   PROVE  cache[q].hosts \in written'[cache[q].realm]
        BY <1>2 DEF SInv, CachedWhole, S!HostsAreWhole
      <4>1. cache[q].hosts \in written[cache[q].realm]
        BY DEF SInv, CachedWhole, S!HostsAreWhole
      <4> QED
        BY <3>1, <4>1 DEF SInv, CachedWhole
    <3> QED
      BY <1>1, <1>2, <2>2, <3>2, <3>3 DEF STyped
  <2> QED
    BY <1>2, <2>1, <2>2
<1> QED
  BY <1>2, <1>3, <1>4, <1>5, PlaceStep

LEMMA ApplyDataStep ==
  ASSUME S!SetupAssumption, SInv, NEW p \in Program, S!ApplyData(p)
  PROVE  SInv'
<1> DEFINE part == S!Page(p)
           page == prog[p].open[part]
<1>1. ProgramTyped(p) /\ SheetInv(p) /\ Loaded(p) /\ DOMAIN prog = Program /\ STyped /\ RegTyped
  BY DEF SInv, STyped
<1>2. /\ prog[p].at = "apply" /\ part \in S!Data /\ page # Nothing /\ prog[p].k \in 1..Len(setting.pages[p])
      /\ prog' = [prog EXCEPT ![p].k = @ + 1, ![p].save = TRUE, ![p].buf[part] = page.val]
      /\ reg' = IF part = "Printer" /\ page.val \in {"file", "windows"} THEN [reg EXCEPT !.arg[page.val] = page.arg] ELSE reg
      /\ UNCHANGED <<setting, cache, written>>
  <2>1. Len(setting.pages[p]) \in Nat
    BY <1>1, SessionFacts DEF STyped
  <2>2. prog[p].at = "apply" /\ prog[p].k <= Len(setting.pages[p])
    BY DEF S!ApplyData, S!Applying
  <2>3. prog[p].k \in Nat /\ prog[p].k > 0
    BY <1>1, <2>2 DEF SheetInv, ProgramTyped
  <2>4. prog[p].k \in 1..Len(setting.pages[p])
    BY <2>1, <2>2, <2>3
  <2>5. /\ part \in S!Data /\ page # Nothing
        /\ prog' = [prog EXCEPT ![p].k = @ + 1, ![p].save = TRUE, ![p].buf[part] = page.val]
        /\ reg' = IF part = "Printer" /\ page.val \in {"file", "windows"} THEN [reg EXCEPT !.arg[page.val] = page.arg] ELSE reg
        /\ UNCHANGED <<setting, cache, written>>
    BY Zenon DEF S!ApplyData
  <2> QED
    BY <2>2, <2>4, <2>5, Zenon
<1>3. part \in S!Pages(p) \cap S!Data
  <2>1. setting.pages[p] \in Seq(S!Data \cup {"krb.realms", "krb.config"})
    BY <1>1, SessionFacts DEF STyped
  <2>2. prog[p].k \in DOMAIN setting.pages[p]
    BY <1>2, <2>1
  <2> QED
    BY <1>2, <2>2 DEF S!Pages, S!Page, S!ToSet
<1>4. page \in Control(part) \ {Nothing}
  <2>1. page # Nothing
    BY <1>2, Zenon
  <2> QED
    BY <1>1, <1>3, <2>1 DEF ProgramTyped
<1>5. page.val \in S!Held(part) /\ (part = "Printer" => page.arg \in S!Arguments)
  BY <1>4 DEF Control, S!Held
<1>6. RegTyped' /\ reg'.own = reg.own /\ reg'.config = reg.config
  BY <1>1, <1>2, <1>5 DEF RegTyped, S!Held
<1>7. /\ DOMAIN prog' = Program /\ \A q \in Program \ {p} : prog'[q] = prog[q]
      /\ DOMAIN prog'[p] = DOMAIN prog[p] /\ prog'[p].at = "apply" /\ prog'[p].save = TRUE
      /\ prog'[p].k = prog[p].k + 1 /\ prog'[p].asked = prog[p].asked
      /\ prog'[p].open = prog[p].open /\ prog'[p].buf = [prog[p].buf EXCEPT ![part] = page.val]
  BY <1>1, <1>2 DEF ProgramTyped
<1>8. S!Pages(p)' = S!Pages(p) /\ Told(p)' = Told(p)
  BY <1>2, <1>7 DEF S!Pages, Told
<1>9. \A x : S!Stored(x)' = S!Stored(x) /\ S!InEffect(x)' = S!InEffect(x)
  BY <1>2, <1>6 DEF S!Stored, S!InEffect, S!AtFirst
<1>10. ProgramTyped(p)'
  BY <1>1, <1>2, <1>5, <1>7, <1>8 DEF ProgramTyped
<1>11. SheetInv(p)' /\ Loaded(p)'
  <2>1. SheetInv(p)'
    BY <1>1, <1>2, <1>7 DEF SheetInv
  <2>2. Loaded(p)'
    BY <1>1, <1>2, <1>7, <1>8, <1>9 DEF Loaded, ProgramTyped
  <2> QED
    BY <2>1, <2>2
<1> QED
  BY <1>2, <1>6, <1>7, <1>10, <1>11, ListsKept, MoveStep

LEMMA SaveStep ==
  ASSUME S!SetupAssumption, SInv, NEW p \in Program, S!SaveData(p)
  PROVE  SInv'
<1>1. /\ \A q \in Program : ProgramTyped(q) /\ SheetInv(q) /\ Loaded(q)
      /\ DOMAIN prog = Program /\ STyped /\ RegTyped
  BY DEF SInv, STyped
<1>2. /\ prog[p].at = "save" /\ UNCHANGED <<setting, cache, written>>
      /\ reg' = IF prog[p].save THEN [reg EXCEPT !.own = [part \in S!Data |-> S!SavePart(p, part)]] ELSE reg
      /\ prog' = [prog EXCEPT ![p].at = "tell", ![p].k = 0, ![p].open = S!Closed(p)]
  BY DEF S!SaveData
<1>3. /\ DOMAIN prog' = Program /\ \A q \in Program \ {p} : prog'[q] = prog[q]
      /\ DOMAIN prog'[p] = DOMAIN prog[p] /\ prog'[p].at = "tell" /\ prog'[p].save = prog[p].save
      /\ prog'[p].k = 0 /\ prog'[p].open = S!Closed(p) /\ prog'[p].buf = prog[p].buf
  BY <1>1, <1>2 DEF ProgramTyped
<1>4. \A q \in Program : S!Pages(q)' = S!Pages(q)
  BY <1>2 DEF S!Pages
<1>5. /\ DOMAIN reg' = DOMAIN reg /\ reg'.arg = reg.arg /\ reg'.config = reg.config
      /\ reg'.own = IF prog[p].save THEN [part \in S!Data |-> S!SavePart(p, part)] ELSE reg.own
  BY <1>1, <1>2 DEF RegTyped
<1>6. \A part \in S!Data : reg'.own[part] = IF prog[p].save /\ part \in S!Pages(p) THEN prog[p].buf[part] ELSE reg.own[part]
  BY <1>5 DEF S!SavePart
<1>7. RegTyped'
  <2>1. DOMAIN reg'.own = S!Data
    BY <1>1, <1>5 DEF RegTyped
  <2>2. \A part \in S!Data : reg'.own[part] \in S!Held(part) \cup {Nothing}
    BY <1>1, <1>6 DEF RegTyped, ProgramTyped
  <2> QED
    BY <1>1, <1>5, <2>1, <2>2 DEF RegTyped
<1>8. \A part \in S!Data : S!Stored(part)' = IF prog[p].save /\ part \in S!Pages(p) THEN prog[p].buf[part] ELSE S!Stored(part)
  <2> SUFFICES ASSUME NEW part \in S!Data
               PROVE  S!Stored(part)' = IF prog[p].save /\ part \in S!Pages(p) THEN prog[p].buf[part] ELSE S!Stored(part)
    OBVIOUS
  <2>1. prog[p].buf[part] # Nothing
    BY <1>1, SessionFacts DEF ProgramTyped, STyped
  <2> QED
    BY <1>2, <1>6, <2>1 DEF S!Stored
<1>9. \A q \in Program : ProgramTyped(q)' /\ SheetInv(q)'
  <2>1. ProgramTyped(p)'
    <3>1. DOMAIN prog'[p].open = S!Pages(p) /\ \A page \in S!Pages(p) : prog'[p].open[page] = Nothing
      BY <1>3 DEF S!Closed
    <3> QED
      BY <1>1, <1>3, <1>4, <3>1 DEF ProgramTyped, SheetPlaces, Control
  <2>2. SheetInv(p)'
    BY <1>3, <1>4 DEF SheetInv, S!Closed
  <2>3. ASSUME NEW q \in Program \ {p}
        PROVE  ProgramTyped(q)' /\ SheetInv(q)'
    BY <1>1, <1>3, <1>4 DEF ProgramTyped, SheetInv
  <2> QED
    BY <2>1, <2>2, <2>3
<1>10. ASSUME NEW q \in Program, NEW part \in S!Pages(q) \cap S!Data,
              prog'[q].open[part] = Nothing \/ ~prog'[q].save
       PROVE  prog'[q].buf[part] = S!InEffect(part)' \/ (S!Stored(part)' # Nothing /\ ~Told(q)')
  <2>1. prog[p].buf[part] # Nothing
    BY <1>1, SessionFacts DEF ProgramTyped, STyped
  <2>2. CASE q = p
    <3>1. CASE prog[p].save
      BY <1>3, <1>8, <2>1, <2>2, <3>1 DEF S!InEffect
    <3>2. CASE ~prog[p].save
      <4>1. prog[p].buf[part] = S!InEffect(part) \/ (S!Stored(part) # Nothing /\ ~Told(p))
        BY <1>1, <2>2, <3>2 DEF Loaded
      <4>2. Told(p)' = Told(p) /\ S!Stored(part)' = S!Stored(part) /\ S!InEffect(part)' = S!InEffect(part)
        BY <1>3, <1>8, <3>2 DEF Told, S!InEffect, S!AtFirst
      <4> QED
        BY <1>3, <2>2, <4>1, <4>2
    <3> QED
      BY <3>1, <3>2
  <2>3. CASE q # p
    <3>1. ~Told(q)'
      BY <1>3, <2>3 DEF Told
    <3>2. CASE S!Stored(part)' # Nothing
      BY <3>1, <3>2
    <3>3. CASE S!Stored(part)' = Nothing
      <4>1. S!Stored(part) = Nothing
        BY <1>8, <2>1, <3>3
      <4>2. prog[q].buf[part] = S!InEffect(part)
        BY <1>1, <1>3, <1>10, <2>3, <4>1 DEF Loaded
      <4> QED
        BY <1>3, <2>3, <3>3, <4>1, <4>2 DEF S!InEffect, S!AtFirst
    <3> QED
      BY <3>2, <3>3
  <2> QED
    BY <2>2, <2>3
<1>11. \A q \in Program : Loaded(q)'
  BY <1>4, <1>10 DEF Loaded
<1>12. ListsWhole' /\ CachedWhole' /\ DOMAIN written' = NetRealm /\ DOMAIN cache' = Program
  BY <1>2, <1>3, <1>5, ListsKept
<1> QED
  BY <1>1, <1>2, <1>3, <1>7, <1>9, <1>11, <1>12 DEF SInv, STyped

LEMMA TellStep ==
  ASSUME S!SetupAssumption, SInv, NEW p \in Program, S!EvPropertyChangedTop(p)
  PROVE  SInv'
<1>1. /\ \A q \in Program : ProgramTyped(q) /\ SheetInv(q) /\ Loaded(q)
      /\ DOMAIN prog = Program /\ STyped /\ RegTyped
  BY DEF SInv, STyped
<1>2. /\ prog[p].at = "tell" /\ UNCHANGED <<setting, reg, cache, written>>
      /\ \A q \in Program : prog[q].at \in {"idle", "sheet", "tell"}
      /\ prog' = [q \in Program |-> [prog[q] EXCEPT !.buf = S!LoadData(q), !.at = IF q = p THEN "idle" ELSE @]]
  BY DEF S!EvPropertyChangedTop, S!Others
<1>3. \A part : S!Stored(part)' = S!Stored(part) /\ S!InEffect(part)' = S!InEffect(part)
  BY <1>2 DEF S!Stored, S!InEffect, S!AtFirst
<1>4. ASSUME NEW q \in Program
      PROVE  /\ DOMAIN prog'[q] = DOMAIN prog[q] /\ prog'[q].open = prog[q].open
             /\ prog'[q].k = prog[q].k /\ prog'[q].save = prog[q].save
             /\ prog'[q].buf = S!LoadData(q) /\ S!Pages(q)' = S!Pages(q)
             /\ prog'[q].at = IF q = p THEN "idle" ELSE prog[q].at
  BY <1>1, <1>2 DEF ProgramTyped, S!Pages
<1>5. ASSUME NEW q \in Program
      PROVE  ProgramTyped(q)' /\ SheetInv(q)' /\ Loaded(q)'
  <2>1. \A part \in S!Data : S!LoadData(q)[part] =
          IF part \in S!Pages(q) /\ S!Stored(part) # Nothing THEN S!Stored(part) ELSE prog[q].buf[part]
    BY DEF S!LoadData, S!LoadPart
  <2>2. DOMAIN S!LoadData(q) = S!Data /\ \A part \in S!Data : S!LoadData(q)[part] \in S!Held(part)
    BY <1>1, <2>1, StoredHeld DEF ProgramTyped, S!LoadData
  <2>3. ProgramTyped(q)'
    BY <1>1, <1>4, <2>2 DEF ProgramTyped, SheetPlaces
  <2>4. SheetInv(q)'
    <3>1. prog'[q].at \in {"idle", "sheet", "tell"} /\ (prog'[q].at \in {"idle", "tell"} => prog[q].at \in {"idle", "tell"})
      BY <1>2, <1>4
    <3> QED
      BY <1>1, <1>4, <3>1 DEF SheetInv
  <2>5. Loaded(q)'
    <3> SUFFICES ASSUME NEW part \in S!Pages(q) \cap S!Data, prog[q].open[part] = Nothing \/ ~prog[q].save
                 PROVE  S!LoadData(q)[part] = S!InEffect(part)
      BY <1>3, <1>4 DEF Loaded
    <3>1. CASE S!Stored(part) # Nothing
      BY <2>1, <3>1 DEF S!InEffect
    <3>2. CASE S!Stored(part) = Nothing
      BY <1>1, <2>1, <3>2 DEF Loaded
    <3> QED
      BY <3>1, <3>2
  <2> QED
    BY <2>3, <2>4, <2>5
<1>6. ListsWhole' /\ CachedWhole'
  <2>1. \A r \in NetRealm : reg.config[r] \in written[r]
    BY <1>2 DEF SInv, ListsWhole
  <2> QED
    BY <1>2, <2>1 DEF SInv, ListsWhole, CachedWhole, S!HostsAreWhole
<1>7. RegTyped' /\ DOMAIN prog' = Program
  BY <1>1, <1>2 DEF RegTyped
<1> QED
  BY <1>1, <1>2, <1>5, <1>6, <1>7 DEF SInv, STyped

LEMMA LookupStep ==
  ASSUME S!SetupAssumption, SInv, NEW p \in Program, NEW realm \in NetRealm, S!krb_get_host(p, realm)
  PROVE  SInv'
<1>1. DOMAIN cache = Program /\ STyped /\ ListsWhole /\ CachedWhole
  BY DEF SInv, STyped
<1>2. /\ UNCHANGED <<setting, reg, prog, written>>
      /\ cache' = [cache EXCEPT ![p] = [realm |-> realm, hosts |-> reg.config[realm],
                                        torn |-> \E q \in Program : prog[q].at = "write"]]
  BY DEF S!krb_get_host
<1>3. CachedWhole'
  <2> SUFFICES ASSUME NEW q \in Program
               PROVE  /\ cache'[q].realm \in NetRealm \cup {Nothing}
                      /\ (cache'[q].realm # Nothing /\ ~cache'[q].torn) => cache'[q].hosts \in written[cache'[q].realm]
    BY <1>2 DEF CachedWhole, S!HostsAreWhole
  <2>1. CASE q = p
    BY <1>1, <1>2, <2>1 DEF ListsWhole
  <2>2. CASE q # p
    BY <1>1, <1>2, <2>2 DEF CachedWhole, S!HostsAreWhole
  <2> QED
    BY <2>1, <2>2
<1>4. STyped'
  <2>1. \A q \in Program : ProgramTyped(q)'
    BY <1>1, <1>2 DEF STyped, ProgramTyped, S!Pages
  <2> QED
    BY <1>1, <1>2, <2>1 DEF STyped, RegTyped
<1>5. \A q \in Program : SheetInv(q)' /\ Loaded(q)'
  BY <1>2 DEF SInv, SheetInv, Loaded, Told, S!InEffect, S!Stored, S!AtFirst, S!Pages
<1> QED
  BY <1>1, <1>2, <1>3, <1>4, <1>5 DEF SInv, ListsWhole

LEMMA ExportStep ==
  ASSUME SInv, UNCHANGED <<setting, reg, prog, cache, written>>
  PROVE  SInv'
  BY DEF SInv, STyped, RegTyped, ProgramTyped, ListsWhole, CachedWhole, S!HostsAreWhole, SheetInv, Loaded,
     Told, S!InEffect, S!Stored, S!AtFirst, S!Pages

LEMMA EditStep ==
  ASSUME S!SetupAssumption, SInv, NEW p \in Program, S!Edits(p)
  PROVE  SInv'
<1>1. ASSUME NEW page, NEW l, page \in {"krb.realms", "krb.config"}, S!Changes(p, page, l)
      PROVE  SInv'
  <2>1. page \notin S!Data
    BY <1>1 DEF S!Data
  <2> QED
    BY <1>1, <2>1, ListStep DEF S!Changes, S!Others
<1>2. ASSUME NEW page \in S!Data, NEW v \in 0..1, S!SetControl(p, page, v)
      PROVE  SInv'
  BY <1>2, SetControlStep
<1>3. ASSUME NEW kind \in S!Printers, S!EvPrinterChanged(p, kind)
      PROVE  SInv'
  BY <1>3, PrinterChangedStep
<1>4. ASSUME NEW arg \in S!Arguments, S!CmPrintSetup(p, arg)
      PROVE  SInv'
  BY <1>4, PrintSetupStep
<1>5. ASSUME NEW l, NEW v, S!CmAddItem(p, l, v)
      PROVE  SInv'
  BY <1>1, <1>5 DEF S!CmAddItem
<1>6. ASSUME NEW i, NEW v, S!CmValueItem(p, i, v)
      PROVE  SInv'
  BY <1>1, <1>6 DEF S!CmValueItem
<1>7. ASSUME NEW i, NEW l, S!EvLvnEndLabelEdit(p, i, l)
      PROVE  SInv'
  BY <1>1, <1>7 DEF S!EvLvnEndLabelEdit
<1>8. ASSUME NEW clear, NEW answers, S!CmImportRealms(p, clear, answers)
      PROVE  SInv'
  BY <1>1, <1>8 DEF S!CmImportRealms
<1>9. ASSUME NEW i, NEW realm, NEW host, S!AddHost(p, i, realm, host)
      PROVE  SInv'
  BY <1>1, <1>9 DEF S!AddHost
<1>10. ASSUME NEW i, NEW host, S!CmChangeServer(p, i, host)
       PROVE  SInv'
  BY <1>1, <1>10 DEF S!CmChangeServer
<1>11. ASSUME NEW realm, S!SetDefaultRealm(p, realm)
       PROVE  SInv'
  BY <1>1, <1>11 DEF S!SetDefaultRealm
<1>12. ASSUME NEW page, NEW i, S!CmDeleteItem(p, page, i)
       PROVE  SInv'
  BY <1>1, <1>12 DEF S!CmDeleteItem
<1>13. ASSUME NEW page, S!CmExport(p, page)
       PROVE  SInv'
  BY <1>13, ExportStep DEF S!CmExport
<1>14. ASSUME NEW clear, S!CmImportConfig(p, clear)
       PROVE  SInv'
  <2>1. \E l : S!Changes(p, "krb.config", l)
    BY <1>14, Zenon DEF S!CmImportConfig
  <2> QED
    BY <1>1, <2>1
<1> QED
  BY <1>2, <1>3, <1>4, <1>5, <1>6, <1>7, <1>8, <1>9, <1>10, <1>11, <1>12, <1>13, <1>14 DEF S!Edits

LEMMA SetupStep ==
  ASSUME S!SetupAssumption, SInv, [S!Next]_svars
  PROVE  SInv'
<1>1. ASSUME NEW p \in Program, S!Closes(p)
      PROVE  SInv'
  BY <1>1, CloseSheetStep, ApplyDataStep, ApplyRealmsStep, ApplyConfigStep, WriteConfigStep, SaveStep, TellStep
     DEF S!Closes
<1>2. CASE UNCHANGED svars
  BY <1>2, ExportStep DEF svars
<1> QED
  BY <1>1, <1>2, CmSetupStep, TurnStep, EditStep, LookupStep DEF S!Next

-----------------------------------------------------------------------------
(* Who changes what is in effect *)

\* What OnlyAsked says of a step.
AskedStep ==
  /\ \A part \in S!Data : S!InEffect(part)' # S!InEffect(part) =>
       \E p \in Program : /\ prog[p].at = "save" /\ prog[p].save
                          /\ \/ prog[p].open[part] # Nothing
                             \/ \E q \in Program \ {p} : prog[q].at = "tell"
  /\ reg'.realms # reg.realms \/ reg'.config # reg.config \/ reg'.default # reg.default =>
       setting.writable /\ \E p \in Program : prog[p].asked /\ prog[p].at \in {"apply", "write"}
  /\ \A k \in S!Printers \ {"serial"} : reg'.arg[k] # reg.arg[k] => \E p \in Program : prog[p].at = "apply"

LEMMA NothingChanges ==
  ASSUME UNCHANGED <<setting, reg>>
  PROVE  AskedStep
  BY DEF AskedStep, S!InEffect, S!Stored, S!AtFirst

LEMMA SaveAsked ==
  ASSUME S!SetupAssumption, SInv, NEW p \in Program, S!SaveData(p)
  PROVE  AskedStep
<1>1. ProgramTyped(p) /\ Loaded(p) /\ STyped /\ RegTyped
  BY DEF SInv, STyped
<1>2. /\ prog[p].at = "save" /\ setting' = setting
      /\ reg' = IF prog[p].save THEN [reg EXCEPT !.own = [part \in S!Data |-> S!SavePart(p, part)]] ELSE reg
  BY DEF S!SaveData
<1>3. CASE ~prog[p].save
  BY <1>2, <1>3, NothingChanges
<1>4. CASE prog[p].save
  <2>1. /\ reg'.own = [part \in S!Data |-> S!SavePart(p, part)]
        /\ reg'.realms = reg.realms /\ reg'.config = reg.config /\ reg'.default = reg.default /\ reg'.arg = reg.arg
    BY <1>1, <1>2, <1>4 DEF RegTyped
  <2>2. ASSUME NEW part \in S!Data, S!InEffect(part)' # S!InEffect(part)
        PROVE  prog[p].open[part] # Nothing \/ \E q \in Program \ {p} : prog[q].at = "tell"
    <3>1. CASE part \notin S!Pages(p)
      <4>1. reg'.own[part] = reg.own[part]
        BY <2>1, <3>1 DEF S!SavePart
      <4> QED
        BY <1>2, <2>2, <4>1 DEF S!InEffect, S!Stored, S!AtFirst
    <3>2. CASE part \in S!Pages(p)
      <4>1. reg'.own[part] = prog[p].buf[part] /\ prog[p].buf[part] # Nothing
        BY <1>1, <2>1, <3>2, SessionFacts DEF S!SavePart, ProgramTyped, STyped
      <4>2. S!InEffect(part)' = prog[p].buf[part]
        BY <4>1 DEF S!InEffect, S!Stored
      <4>3. prog[p].buf[part] # S!InEffect(part)
        BY <2>2, <4>2
      <4> QED
        BY <1>1, <3>2, <4>3 DEF Loaded, Told
    <3> QED
      BY <3>1, <3>2
  <2> QED
    BY <1>2, <1>4, <2>1, <2>2 DEF AskedStep
<1> QED
  BY <1>3, <1>4

\* A step that changes no part of the settings.
LEMMA ListAsked ==
  ASSUME SInv, NEW p \in Program, setting' = setting, reg'.own = reg.own,
         \/ prog[p].at \in {"apply", "write"} /\ setting.writable /\ reg'.arg = reg.arg
         \/ /\ reg'.realms = reg.realms /\ reg'.config = reg.config /\ reg'.default = reg.default
            /\ prog[p].at = "apply" \/ \A k \in S!Printers \ {"serial"} : reg'.arg[k] = reg.arg[k]
  PROVE  AskedStep
<1>1. \A part : S!InEffect(part)' = S!InEffect(part)
  BY DEF S!InEffect, S!Stored, S!AtFirst
<1>2. prog[p].at \in {"apply", "write"} => prog[p].asked
  BY DEF SInv, SheetInv
<1> QED
  BY <1>1, <1>2 DEF AskedStep

LEMMA CloseAsked ==
  ASSUME S!SetupAssumption, SInv, NEW p \in Program, S!Closes(p)
  PROVE  AskedStep
<1>1. RegTyped
  BY DEF SInv, STyped
<1>2. CASE S!Ok(p) \/ S!SkipPage(p) \/ S!EndApply(p) \/ S!Cancel(p) \/ S!EvPropertyChangedTop(p)
  BY <1>2, NothingChanges DEF S!Ok, S!SkipPage, S!EndApply, S!Cancel, S!EvPropertyChangedTop, S!Others
<1>3. CASE S!ApplyData(p)
  <2>1. prog[p].at = "apply" /\ setting' = setting /\ \E k, a : reg' = [reg EXCEPT !.arg[k] = a] \/ reg' = reg
    BY <1>3 DEF S!ApplyData, S!Applying
  <2>2. /\ reg'.own = reg.own /\ reg'.realms = reg.realms /\ reg'.config = reg.config /\ reg'.default = reg.default
    BY <1>1, <2>1 DEF RegTyped
  <2> QED
    BY <2>1, <2>2, ListAsked
<1>4. CASE S!ApplyRealms(p)
  <2>1. /\ prog[p].at = "apply" /\ setting' = setting
        /\ (setting.writable /\ \E l : reg' = [reg EXCEPT !.realms = l]) \/ reg' = reg
    BY <1>4 DEF S!ApplyRealms, S!Applying
  <2>2. CASE reg' = reg
    BY <2>1, <2>2, NothingChanges
  <2>3. CASE setting.writable /\ \E l : reg' = [reg EXCEPT !.realms = l]
    <3>1. reg'.own = reg.own /\ reg'.arg = reg.arg
      BY <1>1, <2>3 DEF RegTyped
    <3> QED
      BY <2>1, <2>3, <3>1, ListAsked
  <2> QED
    BY <2>1, <2>2, <2>3
<1>5. CASE S!ApplyConfig(p) \/ S!WriteConfig(p)
  <2>1. /\ prog[p].at \in {"apply", "write"} /\ setting' = setting
        /\ \/ setting.writable /\ \E d, c : reg' = [reg EXCEPT !.default = d, !.config = c] \/ reg' = [reg EXCEPT !.config = c]
           \/ reg' = reg
    BY <1>5 DEF S!ApplyConfig, S!WriteConfig, S!Applying
  <2>2. CASE reg' = reg
    BY <2>1, <2>2, NothingChanges
  <2>3. CASE setting.writable /\ \E d, c : reg' = [reg EXCEPT !.default = d, !.config = c] \/ reg' = [reg EXCEPT !.config = c]
    <3>1. reg'.own = reg.own /\ reg'.arg = reg.arg
      BY <1>1, <2>3 DEF RegTyped
    <3> QED
      BY <2>1, <2>3, <3>1, ListAsked
  <2> QED
    BY <2>1, <2>2, <2>3
<1> QED
  BY <1>2, <1>3, <1>4, <1>5, SaveAsked DEF S!Closes

LEMMA EditAsked ==
  ASSUME S!SetupAssumption, SInv, NEW p \in Program, S!Edits(p)
  PROVE  AskedStep
<1>1. RegTyped
  BY DEF SInv, STyped
<1>2. ASSUME NEW arg \in S!Arguments, S!CmPrintSetup(p, arg)
      PROVE  AskedStep
  <2>1. setting' = setting /\ (reg' = reg \/ reg' = [reg EXCEPT !.arg["serial"] = arg])
    BY <1>2 DEF S!CmPrintSetup
  <2>2. /\ reg'.own = reg.own /\ reg'.realms = reg.realms /\ reg'.config = reg.config /\ reg'.default = reg.default
        /\ \A k \in S!Printers \ {"serial"} : reg'.arg[k] = reg.arg[k]
    BY <1>1, <2>1 DEF RegTyped
  <2> QED
    BY <2>1, <2>2, ListAsked
<1>3. ASSUME NEW l, NEW v, S!CmAddItem(p, l, v) \/ S!CmValueItem(p, l, v) \/ S!EvLvnEndLabelEdit(p, l, v) \/ S!SetControl(p, l, v)
                             \/ S!CmImportRealms(p, l, v) \/ S!CmChangeServer(p, l, v) \/ S!CmDeleteItem(p, l, v)
      PROVE  AskedStep
  BY <1>3, NothingChanges
     DEF S!CmAddItem, S!CmValueItem, S!EvLvnEndLabelEdit, S!SetControl, S!CmImportRealms, S!CmChangeServer, S!CmDeleteItem, S!Changes, S!Others
<1>4. ASSUME NEW x, S!EvPrinterChanged(p, x) \/ S!SetDefaultRealm(p, x) \/ S!CmExport(p, x) \/ S!CmImportConfig(p, x)
      PROVE  AskedStep
  BY <1>4, NothingChanges DEF S!EvPrinterChanged, S!SetDefaultRealm, S!CmExport, S!CmImportConfig, S!Changes, S!Others
<1>5. ASSUME NEW i, NEW realm, NEW host, S!AddHost(p, i, realm, host)
      PROVE  AskedStep
  BY <1>5, NothingChanges DEF S!AddHost, S!Changes, S!Others
<1> QED
  BY <1>2, <1>3, <1>4, <1>5 DEF S!Edits

LEMMA NextAsked ==
  ASSUME S!SetupAssumption, SInv, [S!Next]_svars
  PROVE  AskedStep
<1>1. ASSUME NEW p \in Program, S!CmSetup(p)
      PROVE  AskedStep
  BY <1>1, NothingChanges DEF S!CmSetup, S!Others
<1>2. ASSUME NEW p \in Program, NEW x, S!Turn(p, x) \/ S!krb_get_host(p, x)
      PROVE  AskedStep
  BY <1>2, NothingChanges DEF S!Turn, S!krb_get_host, S!Others
<1>3. CASE UNCHANGED svars
  BY <1>3, NothingChanges DEF svars
<1> QED
  BY <1>1, <1>2, <1>3, CloseAsked, EditAsked DEF S!Next

-----------------------------------------------------------------------------
(* Requests to the key servers *)

Verdicts == {"ok", "badpw", "err", "time", "kerror", "prot", "cant", "retry"}
Requesting == {"host", "send", "decode", "result"}
Linked == {"link", "conn", "send_pw", "out"}
Forms == {"whole", "error", "cut", "empty", "page"}
Services == {"krbtgt", "changepw"}

RequestFields == {"realm", "service", "pw", "i", "addrs", "n", "asked", "nohost", "round", "j", "form", "key", "result"}

\* What stays of the connection to the administration server.
LinkInv ==
  /\ DOMAIN link = {"fd", "secrets", "act", "priv", "ret"}
  /\ link.priv \in Int /\ link.ret = 0
  /\ at \notin {"send_pw", "out"} => link.fd = FALSE
  /\ at # "out" => link.secrets = FALSE /\ link.act = 0
  /\ link.priv <= 0 /\ (link.priv # 0 <=> "ret_sz" \in wild)
  /\ (verdict = "lost" => link.priv < 0) /\ (verdict = "noconn" => "pw_msg" \in wild)

\* Whoever has got as far as the administration server knows the password.
ChangeInv ==
  /\ at \in {"idle", "dialog"} => dialog = Nothing
  /\ at \in Requesting => DOMAIN req = RequestFields /\ req.service \in Services /\ (dialog # Nothing => req.pw = dialog.old)
  /\ at = "decode" => req.key = db /\ req.form \in Forms
  /\ at = "result" => req.result \in Verdicts /\ (req.result = "ok" => db.pw = req.pw)
  /\ at \in Linked => dialog # Nothing /\ dialog.old = db.pw

KInv == LinkInv /\ ChangeInv

TellsTruly ==
  /\ (verdict # "changed" /\ verdict' = "changed") => db'.pw = dialog.new
  /\ (at = "out" /\ verdict' \in {"refused", "ulose"}) => db' = db
  /\ db' # db => at = "out" /\ dialog.old = db.pw

-----------------------------------------------------------------------------

LEMMA KdcInit ==
  ASSUME K!KdcAssumption, K!Init
  PROVE  KInv
  BY DEF K!KdcAssumption, K!Init, KInv, LinkInv, ChangeInv, K!NoLink, Requesting, Linked

\* The first part of the requests: hosts, addresses and answers.
LEMMA AskStep ==
  ASSUME K!KdcAssumption, KInv, K!Ask
  PROVE  KInv' /\ TellsTruly
<1>1. UNCHANGED <<dialog, link, db, verdict>> /\ wild \subseteq wild' /\ wild' \subseteq wild \cup {"reply"}
  BY DEF K!Ask, K!NextHost, K!NextAddress, K!NoAnswer, K!GetPwInTkt, K!Answer
<1>2. at \in Requesting \ {"result"} /\ at' \in Requesting
  <2>1. CASE K!NextHost
    BY <2>1 DEF K!NextHost, Requesting
  <2>2. CASE K!NextAddress
    BY <2>2 DEF K!NextAddress, Requesting
  <2>3. CASE K!NoAnswer
    BY <2>3 DEF K!NoAnswer, K!AfterSilence, Requesting
  <2>4. CASE K!GetPwInTkt
    BY <2>4 DEF K!GetPwInTkt, Requesting
  <2>5. CASE \E f \in {"whole", "error", "cut", "empty", "page"} : K!Answer(f)
    BY <2>5 DEF K!Answer, Requesting
  <2> QED
    BY <2>1, <2>2, <2>3, <2>4, <2>5 DEF K!Ask
<1>3. DOMAIN req = RequestFields /\ req.service \in Services
  BY <1>2 DEF KInv, ChangeInv
<1>4. /\ DOMAIN req' = RequestFields /\ req'.pw = req.pw /\ req'.service = req.service
      /\ at' = "decode" => req'.key = db /\ req'.form \in Forms
      /\ at' = "result" => req'.result \in Verdicts /\ (req'.result = "ok" => db.pw = req'.pw)
  <2>1. CASE K!NextHost
    BY <1>3, <2>1 DEF K!NextHost, RequestFields, Verdicts, K!Collect
  <2>2. CASE K!NextAddress
    BY <1>3, <2>2 DEF K!NextAddress, RequestFields, K!Collect
  <2>3. CASE K!NoAnswer
    BY <1>3, <2>3 DEF K!NoAnswer, K!AfterSilence, RequestFields, Verdicts, K!Asked
  <2>4. CASE K!GetPwInTkt
    <3>1. req.key = db /\ at' = "result" /\ req.form \in Forms
      BY <2>4 DEF K!GetPwInTkt, KInv, ChangeInv
    <3>2. CASE \E code \in K!Cipher \ {"ok"} : req' = [req EXCEPT !.result = code]
      <4>1. \A code \in K!Cipher \ {"ok"} : code \in Verdicts
        BY <3>1 DEF K!Cipher, Forms, Verdicts
      <4> QED
        BY <1>3, <3>1, <3>2, <4>1 DEF RequestFields
    <3>3. ASSUME NEW a \in K!krb_decode_as_rep("des"), NEW b \in K!krb_decode_as_rep("afs"), NEW c \in K!krb_decode_as_rep("v5"),
                 req' = [req EXCEPT !.result = K!Verdict(<<a, b, c>>)]
          PROVE  req'.result \in Verdicts /\ (req'.result = "ok" => db.pw = req.pw)
      <4>1. \A kind : \A code \in K!krb_decode_as_rep(kind) :
              code \in {"ok", "badpw", "err", "time"} /\ (code = "ok" => req.key.pw = req.pw)
        BY DEF K!krb_decode_as_rep, K!Fits
      <4>2. /\ a \in {"ok", "badpw", "err", "time"} /\ b \in {"ok", "badpw", "err", "time"} /\ c \in {"ok", "badpw", "err", "time"}
            /\ a = "ok" \/ b = "ok" \/ c = "ok" => db.pw = req.pw
        BY <3>1, <4>1
      <4>3. K!Verdict(<<a, b, c>>) \in {a, b, c, "badpw"} /\ (K!Verdict(<<a, b, c>>) = "ok" => a = "ok" \/ b = "ok" \/ c = "ok")
        <5> DEFINE t == <<a, b, c>>
                   told3 == {i \in 1..3 : t[i] # "badpw"}
        <5>1. \A i \in 1..3 : t[i] \in {a, b, c}
          OBVIOUS
        <5>2. told3 # {} => \E i \in told3 : \A j \in told3 : j <= i
          OBVIOUS
        <5>3. told3 # {} => (CHOOSE i \in told3 : \A j \in told3 : j <= i) \in 1..3
          BY <5>2
        <5> QED
          BY <5>1, <5>3 DEF K!Verdict
      <4> QED
        BY <1>3, <3>3, <4>2, <4>3 DEF RequestFields, Verdicts
    <3> QED
      BY <1>3, <2>4, <3>1, <3>2, <3>3 DEF K!GetPwInTkt, RequestFields
  <2>5. CASE \E f \in {"whole", "error", "cut", "empty", "page"} : K!Answer(f)
    BY <1>3, <2>5 DEF K!Answer, RequestFields, Forms, K!Asked
  <2> QED
    BY <2>1, <2>2, <2>3, <2>4, <2>5 DEF K!Ask
<1>5. LinkInv'
  BY <1>1, <1>2 DEF KInv, LinkInv, Requesting
<1>6. ChangeInv'
  BY <1>1, <1>2, <1>4 DEF KInv, ChangeInv, Requesting, Linked
<1> QED
  BY <1>1, <1>5, <1>6 DEF KInv, TellsTruly

LEMMA UserStep ==
  ASSUME K!KdcAssumption, KInv,
         \/ K!LoggedIn \/ K!Requested \/ K!NetworkUp \/ K!CmCPW \/ K!CancelDialog
         \/ \E r, pw : K!Login(r, pw)
         \/ \E old \in K!Passwords, new \in K!Passwords : \E ver : K!CloseWindow(old, new, ver)
  PROVE  KInv' /\ TellsTruly
<1>1. LinkInv /\ ChangeInv /\ Nothing \notin {"changed", "lost", "noconn"} /\ Nothing \notin [old : K!Passwords, new : K!Passwords]
  BY DEF KInv, K!KdcAssumption
<1>2. CASE K!LoggedIn
  BY <1>1, <1>2 DEF K!LoggedIn, KInv, LinkInv, ChangeInv, TellsTruly, Verdicts, Requesting, Linked
<1>3. CASE K!Requested
  <2>1. at = "result" /\ dialog # Nothing /\ req.result \in Verdicts /\ req.service \in Services
    BY <1>1, <1>3 DEF K!Requested, ChangeInv, Requesting
  <2>2. UNCHANGED <<link, wild, db>>
    BY <1>3 DEF K!Requested
  <2>3. CASE req.result # "ok" /\ K!Error(req.result)
    BY <1>1, <2>1, <2>2, <2>3 DEF K!Error, KInv, LinkInv, ChangeInv, TellsTruly, Verdicts, Requesting, Linked
  <2>4. CASE req' = K!Request(req.realm, "changepw", dialog.old) /\ at' = "host" /\ UNCHANGED <<verdict, dialog>>
    <3>1. DOMAIN req' = RequestFields /\ req'.pw = dialog.old /\ req'.service \in Services
      BY <2>4 DEF K!Request, RequestFields, Services
    <3> QED
      BY <1>1, <2>1, <2>2, <2>4, <3>1 DEF KInv, LinkInv, ChangeInv, TellsTruly, Requesting, Linked
  <2>5. CASE req.result = "ok" /\ at' = "link" /\ UNCHANGED <<req, verdict, dialog>>
    BY <1>1, <2>1, <2>2, <2>5 DEF KInv, LinkInv, ChangeInv, TellsTruly, Requesting, Linked
  <2> QED
    BY <1>3, <2>1, <2>3, <2>4, <2>5 DEF K!Requested, Services
<1>4. CASE K!NetworkUp \/ K!CmCPW \/ K!CancelDialog
  BY <1>1, <1>4 DEF K!NetworkUp, K!CmCPW, K!CancelDialog, KInv, LinkInv, ChangeInv, TellsTruly, Requesting, Linked
<1>5. ASSUME NEW r, NEW pw, K!Login(r, pw)
      PROVE  KInv' /\ TellsTruly
  <2>1. DOMAIN req' = RequestFields /\ req'.service \in Services
    BY <1>5 DEF K!Login, K!Request, RequestFields, Services
  <2> QED
    BY <1>1, <1>5, <2>1 DEF K!Login, KInv, LinkInv, ChangeInv, TellsTruly, Requesting, Linked
<1>6. ASSUME NEW old \in K!Passwords, NEW new \in K!Passwords, NEW ver, K!CloseWindow(old, new, ver)
      PROVE  KInv' /\ TellsTruly
  <2>1. at = "dialog" /\ UNCHANGED <<link, wild, db>>
    BY <1>6 DEF K!CloseWindow
  <2>2. CASE verdict' \in {"weak", "differ"} /\ dialog' = Nothing /\ UNCHANGED <<at, req>>
    BY <1>1, <2>1, <2>2 DEF KInv, LinkInv, ChangeInv, TellsTruly, Requesting, Linked
  <2>3. CASE /\ dialog' = [old |-> old, new |-> new] /\ verdict' = Nothing
             /\ req' = K!Request(K!Realm, IF asking.nat THEN "krbtgt" ELSE "changepw", old) /\ at' = "host"
    <3>1. DOMAIN req' = RequestFields /\ req'.pw = old /\ req'.service \in Services
      BY <2>3 DEF K!Request, RequestFields, Services
    <3> QED
      BY <1>1, <2>1, <2>3, <3>1 DEF KInv, LinkInv, ChangeInv, TellsTruly, Requesting, Linked
  <2> QED
    BY <1>6, <2>2, <2>3 DEF K!CloseWindow
<1> QED
  BY <1>2, <1>3, <1>4, <1>5, <1>6

LEMMA AdministerStep ==
  ASSUME K!KdcAssumption, KInv, K!Administer
  PROVE  KInv' /\ TellsTruly
<1>1. LinkInv /\ ChangeInv /\ Nothing \notin {"changed", "lost", "noconn"}
  BY DEF KInv, K!KdcAssumption
<1>2. CASE K!kadm_init_link
  BY <1>1, <1>2 DEF K!kadm_init_link, K!Error, KInv, LinkInv, ChangeInv, TellsTruly, Requesting, Linked
<1>3. CASE K!kadm_cli_conn
  BY <1>1, <1>3 DEF K!kadm_cli_conn, K!Error, KInv, LinkInv, ChangeInv, TellsTruly, Requesting, Linked
<1>4. CASE K!kadm_cli_send
  BY <1>1, <1>4 DEF K!kadm_cli_send, KInv, LinkInv, ChangeInv, TellsTruly, Requesting, Linked
<1>5. CASE K!Lost
  <2>1. /\ at = "out" /\ at' = "dialog" /\ dialog' = Nothing /\ verdict' = "lost" /\ wild' = wild \cup {"ret_sz"}
        /\ link' = [K!Cleared(link, "lost") EXCEPT !.act = 0, !.priv = @ - 1]
    BY <1>5 DEF K!Lost, K!Error
  <2>2. /\ DOMAIN link' = DOMAIN link /\ link'.fd = FALSE /\ link'.secrets = FALSE /\ link'.act = 0 /\ link'.ret = 0
        /\ link'.priv = link.priv - 1
    BY <1>1, <2>1 DEF LinkInv, K!Cleared
  <2> QED
    BY <1>1, <2>1, <2>2 DEF KInv, LinkInv, ChangeInv, TellsTruly, Requesting, Linked
<1>6. ASSUME NEW fate \in {"done", "refused", "ulose", "garbled"}, K!Reply(fate)
      PROVE  KInv' /\ TellsTruly
  <2>1. /\ at = "out" /\ at' \in {"idle", "dialog"} /\ dialog' = Nothing /\ wild' = wild
        /\ verdict' = IF fate = "done" THEN "changed" ELSE fate
        /\ link' = K!Cleared([link EXCEPT !.act = 0, !.ret = 1], fate)
        /\ fate \in {"refused", "ulose"} => db' = db
        /\ fate = "done" => db' = [pw |-> dialog.new, kind |-> "des"]
    BY <1>6 DEF K!Reply, K!Error, K!Change
  <2>2. /\ DOMAIN link' = DOMAIN link /\ link'.fd = FALSE /\ link'.secrets = FALSE /\ link'.act = 0 /\ link'.ret = 0
        /\ link'.priv = link.priv
    BY <1>1, <2>1 DEF LinkInv, K!Cleared
  <2> QED
    BY <1>1, <2>1, <2>2 DEF KInv, LinkInv, ChangeInv, TellsTruly, Requesting, Linked
<1> QED
  BY <1>2, <1>3, <1>4, <1>5, <1>6 DEF K!Administer

LEMMA KdcStep ==
  ASSUME K!KdcAssumption, KInv, [K!Next]_kvars
  PROVE  KInv' /\ TellsTruly
<1>1. CASE UNCHANGED kvars
  BY <1>1 DEF kvars, KInv, LinkInv, ChangeInv, TellsTruly
<1>2. CASE \E old, ver \in {"old", "new"}, new \in K!Passwords : K!CloseWindow(old, new, ver)
  BY <1>2, UserStep DEF K!Passwords
<1> QED
  BY <1>1, <1>2, AskStep, UserStep, AdministerStep DEF K!Next

-----------------------------------------------------------------------------
(* What is said of an answer *)

Kinds == {"des", "afs", "v5"}

VInv ==
  /\ db = [pw |-> db.pw, kind |-> db.kind] /\ db.kind \in Kinds
  /\ grain = "setup" => at = "idle"
  /\ K!VerdictIsRight

\* One right key is enough, and a bad password is told only if all say so.
LEMMA VerdictFacts ==
  ASSUME NEW a, NEW b, NEW c
  PROVE  /\ K!Verdict(<<a, b, c>>) = "ok" <=> "ok" \in {a, b, c}
         /\ K!Verdict(<<a, b, c>>) = "badpw" => {a, b, c} = {"badpw"}
         /\ K!Verdict(<<a, b, c>>) \in {a, b, c}
<1> DEFINE t == <<a, b, c>>
           tells == {i \in 1..3 : t[i] # "badpw"}
           last == CHOOSE i \in tells : \A j \in tells : j <= i
<1>1. t[1] = a /\ t[2] = b /\ t[3] = c
  OBVIOUS
<1>2. K!Verdict(t) = IF \E i \in 1..3 : t[i] = "ok" THEN "ok" ELSE IF tells = {} THEN "badpw" ELSE t[last]
  BY Zenon DEF K!Verdict
<1>3. tells # {} => \E i \in tells : \A j \in tells : j <= i
  <2>1. tells = (IF 1 \in tells THEN {1} ELSE {}) \cup (IF 2 \in tells THEN {2} ELSE {}) \cup (IF 3 \in tells THEN {3} ELSE {})
    OBVIOUS
  <2> QED
    BY <2>1
<1>4. tells # {} => last \in 1..3 /\ t[last] # "badpw"
  BY <1>3
<1>5. tells = {} => a = "badpw" /\ b = "badpw" /\ c = "badpw"
  BY <1>1
<1>6. (\E i \in 1..3 : t[i] = "ok") <=> "ok" \in {a, b, c}
  BY <1>1
<1>7. \A i \in 1..3 : t[i] \in {a, b, c}
  BY <1>1
<1> HIDE DEF t, last
<1>8. K!Verdict(t) = "ok" <=> "ok" \in {a, b, c}
  BY <1>2, <1>4, <1>6, <1>7
<1>9. K!Verdict(t) = "badpw" => {a, b, c} = {"badpw"}
  BY <1>2, <1>4, <1>5, <1>6
<1>10. K!Verdict(t) \in {a, b, c}
  BY <1>2, <1>4, <1>5, <1>6, <1>7
<1> QED
  BY <1>8, <1>9, <1>10 DEF t

LEMMA VerdictMade ==
  ASSUME K!KdcAssumption, KInv, VInv, K!GetPwInTkt
  PROVE  K!VerdictIsRight'
<1>1. /\ at = "decode" /\ at' = "result" /\ UNCHANGED <<asking, db>>
      /\ req.key = db /\ req.form \in Forms /\ DOMAIN req = RequestFields
  BY DEF K!GetPwInTkt, KInv, ChangeInv, Requesting
<1>2. CASE \E code \in K!Cipher \ {"ok"} : req' = [req EXCEPT !.result = code]
  <2>1. \A code \in K!Cipher \ {"ok"} : code \in {"kerror", "prot"}
    BY <1>1 DEF K!Cipher, Forms
  <2>2. req'.result \in {"kerror", "prot"}
    BY <1>1, <1>2, <2>1 DEF RequestFields
  <2> QED
    BY <2>2 DEF K!VerdictIsRight, K!Ended
<1>3. ASSUME "ok" \in K!Cipher, NEW a \in K!krb_decode_as_rep("des"), NEW b \in K!krb_decode_as_rep("afs"),
             NEW c \in K!krb_decode_as_rep("v5"), req' = [req EXCEPT !.result = K!Verdict(<<a, b, c>>)]
      PROVE  K!VerdictIsRight'
  <2> DEFINE v == K!Verdict(<<a, b, c>>)
  <2>1. req'.result = v /\ req'.form = req.form /\ req'.key = db /\ req'.pw = req.pw
    BY <1>1, <1>3 DEF RequestFields
  <2>2. req.form \in {"whole", "cut", "empty"}
    BY <1>1, <1>3 DEF K!Cipher, Forms
  <2>3. /\ v = "ok" <=> "ok" \in {a, b, c}
        /\ v = "badpw" => {a, b, c} = {"badpw"}
        /\ v \in {a, b, c}
    BY VerdictFacts
  <2>4. \A kind : \A code \in K!krb_decode_as_rep(kind) :
          /\ code = "ok" /\ req.form = "whole" => db.pw = req.pw
          /\ code = "time" => asking.skewed \/ req.form = "cut"
    BY <1>1 DEF K!krb_decode_as_rep, K!Fits
  <2>5. req.form = "whole" /\ db.pw = req.pw =>
          \A code \in K!krb_decode_as_rep(db.kind) : code = "ok" \/ (code = "time" /\ asking.skewed)
    BY <1>1 DEF K!krb_decode_as_rep, K!Fits, VInv
  <2>6. req.form = "whole" /\ db.pw = req.pw => "ok" \in {a, b, c} \/ ("time" \in {a, b, c} /\ asking.skewed)
    BY <2>5 DEF VInv, Kinds
  <2> HIDE DEF v
  <2>7. v = "ok" /\ req.form = "whole" => db.pw = req.pw
    BY <2>3, <2>4
  <2>8. v = "badpw" \/ v = "err" => req.form \in {"cut", "empty"} \/ db.pw # req.pw \/ (v = "err" /\ asking.skewed)
    BY <2>2, <2>3, <2>6
  <2>9. v = "time" => asking.skewed \/ req.form = "cut"
    BY <2>3, <2>4
  <2> QED
    BY <1>1, <2>1, <2>2, <2>7, <2>8, <2>9 DEF K!VerdictIsRight, K!Ended
<1> QED
  BY <1>2, <1>3 DEF K!GetPwInTkt

\* Only there and where nobody has answered a request ends.
LEMMA VerdictStep ==
  ASSUME K!KdcAssumption, KInv, VInv, K!Next
  PROVE  K!VerdictIsRight'
<1>1. CASE K!GetPwInTkt
  BY <1>1, VerdictMade
<1>2. CASE K!NextHost
  <2>1. DOMAIN req = RequestFields
    BY <1>2 DEF KInv, ChangeInv, Requesting, K!NextHost
  <2>2. at' = "result" => req'.result = "cant"
    BY <1>2, <2>1 DEF K!NextHost, RequestFields
  <2> QED
    BY <2>2 DEF K!VerdictIsRight, K!Ended
<1>3. CASE K!NoAnswer
  <2>1. DOMAIN req = RequestFields
    BY <1>3 DEF KInv, ChangeInv, Requesting, K!NoAnswer
  <2>2. at' = "result" => req'.result = "retry"
    BY <1>3, <2>1 DEF K!NoAnswer, K!AfterSilence, K!Asked, RequestFields
  <2> QED
    BY <2>2 DEF K!VerdictIsRight, K!Ended
<1>4. CASE \/ K!NextAddress \/ \E f \in {"whole", "error", "cut", "empty", "page"} : K!Answer(f)
           \/ K!LoggedIn \/ K!Requested \/ K!NetworkUp \/ K!CmCPW \/ K!CancelDialog
  <2>1. K!Requested => req.service \in Services
    BY DEF KInv, ChangeInv, Requesting, K!Requested
  <2>2. at' # "result"
    BY <1>4, <2>1 DEF Services, K!NextAddress, K!Answer, K!LoggedIn, K!Requested, K!Error, K!NetworkUp, K!CmCPW, K!CancelDialog
  <2> QED
    BY <2>2 DEF K!VerdictIsRight, K!Ended
<1>5. CASE K!Administer
  <2>1. at' # "result"
    BY <1>5 DEF K!Administer, K!kadm_init_link, K!kadm_cli_conn, K!kadm_cli_send, K!Lost, K!Reply, K!Error
  <2> QED
    BY <2>1 DEF K!VerdictIsRight, K!Ended
<1>6. ASSUME NEW r, NEW pw, K!Login(r, pw)
      PROVE  K!VerdictIsRight'
  BY <1>6 DEF K!Login, K!VerdictIsRight, K!Ended
<1>7. ASSUME NEW old, NEW new, NEW ver, K!CloseWindow(old, new, ver)
      PROVE  K!VerdictIsRight'
  <2>1. at' # "result"
    BY <1>7 DEF K!CloseWindow
  <2> QED
    BY <2>1 DEF K!VerdictIsRight, K!Ended
<1> QED
  BY <1>1, <1>2, <1>3, <1>4, <1>5, <1>6, <1>7 DEF K!Next, K!Ask

LEMMA DbStep ==
  ASSUME KInv, VInv, K!Next
  PROVE  db' = [pw |-> db'.pw, kind |-> db'.kind] /\ db'.kind \in Kinds
<1>1. CASE UNCHANGED db
  BY <1>1 DEF VInv
<1>2. CASE K!Change
  BY <1>2 DEF K!Change, Kinds
<1> QED
  BY <1>1, <1>2 DEF K!Next, K!Ask, K!Administer, K!NextHost, K!NextAddress, K!NoAnswer, K!GetPwInTkt, K!Answer, K!LoggedIn,
       K!Requested, K!kadm_init_link, K!kadm_cli_conn, K!kadm_cli_send, K!Lost, K!Reply, K!NetworkUp, K!CmCPW,
       K!CancelDialog, K!Login, K!CloseWindow

LEMMA VInvStep ==
  ASSUME KInv, VInv, [MCNext]_<<grain, vars, nvars, svars, kvars>>
  PROVE  VInv'
<1>1. CASE grain = "use" /\ K!Next /\ grain' = grain
  BY <1>1, KdcAssumption, VerdictStep, DbStep DEF VInv
<1>2. CASE UNCHANGED <<grain, kvars>>
  BY <1>2 DEF VInv, kvars, K!VerdictIsRight, K!Ended
<1>3. CASE Start
  <2>1. grain = "setup" /\ grain' = "use" /\ UNCHANGED <<at, db>>
    BY <1>3 DEF Start
  <2> QED
    BY <2>1 DEF VInv, K!VerdictIsRight, K!Ended
<1> QED
  BY <1>1, <1>2, <1>3 DEF MCNext

-----------------------------------------------------------------------------
(* The theorems of what is set up and requested *)

LEMMA GrainStep ==
  ASSUME [MCNext]_<<grain, vars, nvars, svars, kvars>>
  PROVE  /\ [S!Next]_svars
         /\ [K!Next]_kvars \/ UNCHANGED <<dns, orealm, hosts, at, req, dialog, link, wild, db, verdict, requests>>
  BY DEF MCNext, Start, svars, kvars

\* The lists of hosts that the programs of an installation look up are whole,
\* unless one was looked up while another was written, for any programs, realms,
\* pages and edits.
THEOREM ListsAreWhole == MCSpec => []HostsAreWhole
<1>1. MCInit => SInv
  BY SetupAssumption, SetupInit DEF MCInit
<1>2. SInv /\ [MCNext]_<<grain, vars, nvars, svars, kvars>> => SInv'
  BY SetupAssumption, GrainStep, SetupStep
<1>3. SInv => HostsAreWhole
  BY DEF SInv, CachedWhole, HostsAreWhole
<1> QED
  BY <1>1, <1>2, <1>3, PTL DEF MCSpec

\* What is in effect changes only where a user asked for it.
THEOREM OnlyAskedIsSaved == MCSpec => S!OnlyAsked
<1>1. MCInit => SInv
  BY SetupAssumption, SetupInit DEF MCInit
<1>2. SInv /\ [MCNext]_<<grain, vars, nvars, svars, kvars>> => SInv'
  BY SetupAssumption, GrainStep, SetupStep
<1>3. SInv /\ [MCNext]_<<grain, vars, nvars, svars, kvars>> => [AskedStep]_svars
  BY SetupAssumption, GrainStep, NextAsked
<1>4. S!OnlyAsked <=> [][AskedStep]_svars
  BY DEF S!OnlyAsked, AskedStep, svars, S!vars
<1> QED
  BY <1>1, <1>2, <1>3, <1>4, PTL DEF MCSpec

LEMMA KdcAlways ==
  ASSUME KInv, [MCNext]_<<grain, vars, nvars, svars, kvars>>
  PROVE  KInv' /\ [TellsTruly]_kvars
<1>1. CASE [K!Next]_kvars
  BY <1>1, KdcAssumption, KdcStep
<1>2. CASE UNCHANGED <<dns, orealm, hosts, at, req, dialog, link, wild, db, verdict, requests>>
  BY <1>2 DEF KInv, LinkInv, ChangeInv, TellsTruly
<1> QED
  BY <1>1, <1>2, GrainStep

\* What the user is told of a change of the password is so, and nothing of the
\* exchange stays behind, however the servers answer.
THEOREM ChangesAreTold == MCSpec => ChangeIsTold
<1>1. MCInit => KInv
  BY KdcAssumption, KdcInit DEF MCInit
<1>2. KInv /\ [MCNext]_<<grain, vars, nvars, svars, kvars>> => KInv' /\ [TellsTruly]_kvars
  BY KdcAlways
<1>3. KInv => K!LeftClean
  BY DEF KInv, LinkInv, K!LeftClean
<1>4. ChangeIsTold <=> []K!LeftClean /\ [][TellsTruly]_kvars
  BY DEF ChangeIsTold, K!ChangeIsTold, TellsTruly, kvars, K!vars
<1> QED
  BY <1>1, <1>2, <1>3, <1>4, PTL DEF MCSpec

\* A ticket is taken only from an answer under the password that was given, and
\* a bad password is told only of one that is, for any hosts, protocols and ways
\* to make a key.
THEOREM VerdictsAreRight == MCSpec => []K!VerdictIsRight
<1>1. MCInit => KInv /\ VInv
  <2> SUFFICES ASSUME MCInit PROVE KInv /\ VInv
    OBVIOUS
  <2>1. K!Init /\ at = "idle"
    BY DEF MCInit, K!Init
  <2>2. asking \in KdcSession /\ db = [pw |-> "old", kind |-> asking.kind]
    BY <2>1 DEF K!Init
  <2>3. asking.kind \in Kinds
    BY <2>2, KdcAssumption DEF K!KdcAssumption, Kinds
  <2> QED
    BY <2>1, <2>2, <2>3, KdcAssumption, KdcInit DEF VInv, K!VerdictIsRight, K!Ended
<1>2. KInv /\ VInv /\ [MCNext]_<<grain, vars, nvars, svars, kvars>> => KInv' /\ VInv'
  BY KdcAlways, VInvStep
<1>3. VInv => K!VerdictIsRight
  BY DEF VInv
<1> QED
  BY <1>1, <1>2, <1>3, PTL DEF MCSpec
==============================================================================
