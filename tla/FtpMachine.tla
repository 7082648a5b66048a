----------------------------- MODULE FtpMachine -----------------------------
(***************************************************************************)
(* An FTP session of ktelnet: the machine's thread (FTPMachine::Run with   *)
(* the parser's commands and FTPWorker's transfers), the threads that read *)
(* the control and the data connection, the window and the server.         *)
(*                                                                         *)
(* The machine sends a command and reads one reply; a transfer has a       *)
(* second one at its end.  What is not read stays in the control stream,   *)
(* and the next command takes it for its own reply.  A reply arrives as a  *)
(* whole.  The event CharsReceived of the control stream is set while      *)
(* replies are unread; reading the last one resets it, also when it was    *)
(* the end of the stream that had set it.                                  *)
(***************************************************************************)
EXTENDS Integers, Sequences

CONSTANTS
  Session,   \* what the user wants and what may happen meanwhile
  MaxBlocks, \* bound: blocks in a file, names in a list
  MaxLogins  \* bound: how often the user retries to log in

ASSUME SessionAssumption ==
  /\ MaxBlocks \in Nat \ {0} /\ MaxLogins \in Nat
  /\ \A s \in Session :
       /\ DOMAIN s = {"jobs", "passive", "secure", "aborts", "timely", "disk",
                      "steady", "drops", "closes"}
       /\ s.jobs \in Seq({"dir", "get", "put", "mget", "mput", "cd", "rename",
                          "delete", "quit"})
       /\ s.aborts \in Nat

None == 0      \* no command, and a reply to no command
NoFiles == -1  \* neither in mget nor in mput

Logins == {"login", "kerberos"} \* Login, before and after Authenticate succeeded

LoginCommands == {"AUTH", "ADAT", "USER", "PASS", "ACCT"}

\* The commands, which are also the places where the machine sends one and
\* waits for its reply.
Transfers == {"RETR", "STOR", "LIST", "NLST"}
Commands == Transfers \cup LoginCommands \cup {"TYPE", "PASV", "PORT", "CWD", "XCWD",
              "DELE", "RNFR", "RNTO", "QUIT", "ABOR"}

VARIABLES
  session,
  toServer,  \* commands on their way, as [id, verb]
  replies,   \* replies that have arrived and are unread, as [of, code]
  ctl,       \* control connection: "open", "dropped", "invalid", "eof"
  woken,     \* CharsReceived is set by the end of the control stream
  xfer,      \* the transfer the server is busy with
  data,      \* the data connection with its stream
  at,        \* where the machine is
  part,      \* the function it executes
  files,     \* names left of mget, files left of mput
  awaiting,  \* the command whose reply is due
  sent,      \* how many commands were sent
  lastCode,  \* LastCode, 0 for -1
  abort,     \* AbortSemaphore
  terminate, \* ShouldTerminate and ExitSemaphore
  retryOp,
  user       \* how many jobs were begun, aborts and retries made

server  == <<toServer, xfer>>
control == <<replies, ctl, woken>>
machine == <<at, part, files, awaiting, sent, lastCode>>
flags   == <<abort, terminate, retryOp, user>>
vars == <<session, server, control, data, machine, flags>>

Idle == [id |-> None, verb |-> "none", left |-> 0]

\* A stream before it is connected.  op is CurrentOp, got counts the blocks
\* handled by Receive, event is CharsReceived; shut and ended are the close of
\* this end and of the server's.
NoData == [op |-> "none", up |-> FALSE, reading |-> FALSE, sent |-> 0, got |-> 0,
           ended |-> FALSE, shut |-> FALSE, eof |-> FALSE, event |-> FALSE,
           error |-> FALSE]

Init ==
  /\ session \in Session
  /\ toServer = <<>> /\ xfer = Idle
  /\ replies \in {<<[of |-> None, code |-> c]>> : c \in {220, 500}}
  /\ ctl = "open" /\ woken = FALSE
  /\ data = NoData
  /\ at = "greeting" /\ part = "login" /\ files = NoFiles /\ awaiting = None
  /\ sent = 0 /\ lastCode = 0
  /\ abort = FALSE /\ terminate = FALSE /\ retryOp = "abort"
  /\ user = [jobs |-> 0, aborts |-> 0, retries |-> 0]

\* FTPMachine::Abort
Stopped == abort \/ terminate

Goto(p) == at' = p
Stay    == UNCHANGED <<part, files, awaiting, sent, lastCode>>

-----------------------------------------------------------------------------
(* Where a function goes on after a reply *)

\* A slip: one reply is read, whatever it says.
AfterAborOnce(code) == IF part = "clear" THEN "top" ELSE "fail"

\* GetFile reads a second reply when the first was the transfer's.
AfterAbor(code) ==
  IF part = "clear" THEN "top" ELSE IF part = "get" /\ code = 426 THEN "rest" ELSE "fail"

\* Login.  With a "kerberos" login sec->IsAuthenticated() holds.
AfterLogin(code) ==
  LET n == code \div 100 IN
  CASE at = "AUTH"          -> IF n = 3 THEN "ticket" ELSE "USER"
    [] at = "ADAT"          -> IF n = 2 THEN "verify" ELSE "sorry"
    [] at = "USER" /\ n = 3 -> IF part = "kerberos" THEN "PASS" ELSE "password"
    [] at = "PASS" /\ n = 3 -> "account"
    [] OTHER                -> IF n = 2 THEN "top" ELSE "refused"

TransferParts == {"list", "names", "get", "put"}
TransferVerb == CASE part = "list" -> "LIST" [] part = "names" -> "NLST"
                  [] part = "get" -> "RETR" [] OTHER -> "STOR"

AfterReply(code) ==
  LET n == code \div 100 IN
  CASE at = "greeting"  -> IF n > 2 THEN "close" ELSE "login"
    [] at = "stray"     -> IF code = 421 THEN "close" ELSE "drain"
    [] at = "ABOR"      -> AfterAbor(code)
    [] at = "rest"      -> "fail"
    [] at \in LoginCommands -> AfterLogin(code)
    [] at = "TYPE"      -> "local"
    [] at = "PASV"      -> IF n = 2 THEN "connect" ELSE "fail"
    [] at = "PORT"      -> IF n = 5 THEN "fail" ELSE TransferVerb
    [] at \in Transfers -> IF n = 1 THEN "accept" ELSE "fail"
    [] at = "CWD"       -> IF code = 500 THEN "XCWD" ELSE "done"
    [] at = "RNFR"      -> IF n = 3 THEN "RNTO" ELSE "done"
    [] at = "final"     -> IF part = "names" THEN "names" ELSE "done"
    [] OTHER            -> "done"

-----------------------------------------------------------------------------
(* Commands and replies *)

\* Command does nothing when the user has aborted or the socket is gone.
Refused(verb) == (Stopped /\ verb # "ABOR") \/ ctl \in {"invalid", "eof"}

Command ==
  /\ at \in Commands /\ awaiting = None
  /\ IF Refused(at)
       THEN /\ lastCode' = 0 /\ Goto(AfterReply(0))
            /\ UNCHANGED <<toServer, awaiting, sent>>
       ELSE /\ toServer' = Append(toServer, [id |-> sent + 1, verb |-> at])
            /\ awaiting' = sent + 1 /\ sent' = sent + 1
            /\ UNCHANGED <<at, lastCode>>
  /\ UNCHANGED <<session, xfer, control, data, part, files, flags>>

NewCharsReceived == replies # <<>> \/ woken

\* Where GetReply is called: after a command, and four times by itself.
Reading == \/ at \in Commands /\ awaiting # None
           \/ at \in {"greeting", "stray", "rest", "final"}

\* GetReply returns with a code; 0 when it was stopped.
Replied(code) ==
  /\ lastCode' = code
  /\ Goto(AfterReply(code))
  /\ part' = IF at = "ADAT" /\ code \div 100 = 2 THEN "kerberos" ELSE part
  /\ awaiting' = IF at \in Transfers /\ code \div 100 = 1 THEN awaiting
                 ELSE IF at = "ABOR" /\ AfterAbor(code) = "rest" THEN awaiting ELSE None
  /\ UNCHANGED <<session, server, data, files, sent, flags>>

\* What GetReply makes of the end of the stream.
EofCode == IF at = "QUIT" THEN 221 ELSE IF Stopped THEN 0 ELSE 421

ReadReply ==
  /\ Reading /\ ~terminate /\ ctl # "eof" /\ replies # <<>>
  /\ Replied(Head(replies).code)
  /\ replies' = Tail(replies)
  /\ woken' = IF Tail(replies) = <<>> THEN FALSE ELSE woken
  /\ UNCHANGED ctl

\* EndOfFile, ExitSemaphore, CharsReceived without a byte, AbortSemaphore.
ReadNothing ==
  /\ Reading
  /\ \/ (ctl = "eof" \/ terminate) /\ UNCHANGED <<ctl, woken>>
     \/ ctl = "invalid" /\ woken /\ replies = <<>> /\ ctl' = "eof" /\ woken' = FALSE
     \/ abort /\ ~NewCharsReceived /\ UNCHANGED <<ctl, woken>>
  /\ Replied(EofCode)
  /\ UNCHANGED replies

\* The peer has closed: mSocket becomes INVALID_SOCKET, CharsReceived is set.
ControlEnds ==
  /\ ctl = "dropped"
  /\ ctl' = "invalid" /\ woken' = TRUE
  /\ UNCHANGED <<session, server, replies, data, machine, flags>>

-----------------------------------------------------------------------------
(* Login and the loop of Run *)

MachineOnly == UNCHANGED <<session, server, control, data>>

\* From one place to another, with nothing else changed.
Step(from, to) ==
  /\ at = from /\ Goto(to)
  /\ Stay /\ MachineOnly /\ UNCHANGED flags

Login == Step("login", IF session.secure THEN "AUTH" ELSE "USER")

\* MakeAuth: a ticket, the user cancels, or there is none to be had.
Ticket == \E to \in {"ADAT", "refused", "sorry"} : Step("ticket", to)

\* What the server has sent with its reply to ADAT is checked.
Verify == \E to \in {"USER", "refused"} : Step("verify", to)

\* RetryConnection posts a message and Login fails.
RetryConnection ==
  /\ at = "sorry" /\ Goto("refused")
  /\ retryOp' = "wait"
  /\ Stay /\ MachineOnly /\ UNCHANGED <<abort, terminate, user>>

\* GetUserPrompt returns false when it is stopped.
Prompt(place, verb) == Step(place, IF Stopped THEN "refused" ELSE verb)

LoginFailed ==
  /\ at = "refused"
  /\ terminate \/ retryOp # "wait"
  /\ Goto(IF retryOp = "retry" /\ ~terminate THEN "login" ELSE "close")
  /\ retryOp' = IF retryOp = "retry" /\ ~terminate THEN "abort" ELSE retryOp
  /\ Stay /\ MachineOnly /\ UNCHANGED <<abort, terminate, user>>

Top == Step("top", IF terminate \/ lastCode = 421 THEN "close" ELSE "drain")

Drain == Step("drain", IF NewCharsReceived THEN "stray" ELSE "prompt")

\* CMDGets is stopped.
NoCommand == Stopped /\ Step("prompt", "after")

\* CloseConnection on the machine's thread; AssignControlStream sets the abort.
Close ==
  /\ at = "close" /\ Goto("ended")
  /\ abort' = TRUE
  /\ ctl' = "eof" /\ replies' = <<>> /\ woken' = FALSE
  /\ Stay /\ UNCHANGED <<session, server, data, terminate, retryOp, user>>

\* After a command: a pending abort is sent to the server.
AfterCommand ==
  /\ at = "after"
  /\ Goto(IF abort THEN "ABOR" ELSE "top")
  /\ part' = IF abort THEN "clear" ELSE "none"
  /\ abort' = FALSE
  /\ MachineOnly
  /\ UNCHANGED <<files, awaiting, sent, lastCode, terminate, retryOp, user>>

-----------------------------------------------------------------------------
(* The parser's commands *)

\* The function that is called and where it begins.
Begin(function, n, place) == part' = function /\ files' = n /\ Goto(place)

Parse(job) ==
  \/ job = "cd"     /\ Begin("cd", NoFiles, "CWD")
  \/ job = "rename" /\ Begin("rename", NoFiles, "RNFR")
  \/ job = "delete" /\ Begin("delete", NoFiles, "DELE")
  \/ job = "quit"   /\ Begin("quit", NoFiles, "QUIT")
  \/ job = "dir"    /\ Begin("list", NoFiles, "TYPE")
  \/ job = "get"    /\ Begin("get", NoFiles, "TYPE")
  \/ job = "put"    /\ Begin("put", NoFiles, "TYPE")
  \/ job = "mget"   /\ Begin("names", NoFiles, "TYPE")
  \/ job = "mput"   /\ Begin("put", MaxBlocks, "file")

CMDGets ==
  /\ at = "prompt" /\ ~Stopped /\ user.jobs < Len(session.jobs)
  /\ user' = [user EXCEPT !.jobs = @ + 1]
  /\ Parse(session.jobs[user.jobs + 1])
  /\ MachineOnly /\ UNCHANGED <<awaiting, sent, lastCode, abort, terminate, retryOp>>

\* The next file of MGet or MPut; MGet looks for an abort first.
NextFile ==
  /\ at = "file"
  /\ IF files = 0 \/ (part = "get" /\ Stopped)
       THEN files' = NoFiles /\ Goto("after")
       ELSE files' = files - 1 /\ Goto("TYPE")
  /\ MachineOnly /\ UNCHANGED <<part, awaiting, sent, lastCode, flags>>

\* The function returns and its stream is deleted.  CmExit terminates.
Return ==
  /\ at \in {"done", "fail"}
  /\ LET next == at = "done" /\ files # NoFiles /\ ~Stopped IN
       /\ Goto(IF next THEN "file" ELSE "after")
       /\ files' = IF next THEN files ELSE NoFiles
  /\ data' = NoData /\ awaiting' = None
  /\ terminate' = (terminate \/ part = "quit")
  /\ UNCHANGED <<session, server, control, part, sent, lastCode, abort,
                 retryOp, user>>

DataStep(from, to) ==
  /\ at = from /\ Goto(to)
  /\ Stay /\ UNCHANGED <<session, server, control, flags>>

\* A slip: the file is not assigned to the stream, its data stay there.
OpWithoutFile == CASE part = "list" -> "conn" [] part = "put" -> "send" [] OTHER -> "none"

\* AssignOutput, AssignInput; a list of names stays in the stream.
Op == CASE part = "list" -> "conn" [] part = "get" -> "file"
        [] part = "put" -> "send" [] OTHER -> "none"

Assign ==
  \/ /\ DataStep("local", IF session.passive THEN "PASV" ELSE "PORT")
     /\ data' = [data EXCEPT !.op = Op]
  \/ part \in {"get", "put"} /\ DataStep("local", "fail") /\ UNCHANGED data

Connect ==
  \/ ctl = "open" /\ DataStep("connect", TransferVerb)
     /\ data' = [data EXCEPT !.up = TRUE]
  \/ DataStep("connect", "fail") /\ UNCHANGED data

\* In active mode the server has connected before it says so.
Accept ==
  /\ DataStep("accept", IF part = "put" THEN "send" ELSE "wait")
  /\ data' = [data EXCEPT !.reading = TRUE]

TransferDone ==
  /\ ~terminate /\ data.event
  /\ DataStep("wait", IF data.error THEN "fail" ELSE "final")
  /\ UNCHANGED data

\* GetFile sends an ABOR of its own, the lists leave that to Run.
TransferStopped ==
  /\ at = "wait"
  /\ terminate \/ (abort /\ ~data.event)
  /\ Goto(IF part = "get" THEN "ABOR" ELSE "fail")
  /\ abort' = (abort /\ part # "get")
  /\ awaiting' = None
  /\ MachineOnly
  /\ UNCHANGED <<part, files, sent, lastCode, terminate, retryOp, user>>

\* The names that have arrived by now, or do while the first files are fetched:
\* the wait was for the first block only.
ReadNames ==
  \/ /\ ~Stopped /\ at = "names" /\ Goto("file")
     /\ part' = "get" /\ files' \in data.got .. data.sent
     /\ data' = NoData
     /\ UNCHANGED <<session, server, control, awaiting, sent, lastCode, flags>>
  \/ Stopped /\ DataStep("names", "fail") /\ UNCHANGED data

\* SendFile: SendPossible is asked until it is or until it is stopped.
SendBlock ==
  /\ ~Stopped /\ data.sent < MaxBlocks /\ ~data.eof
  /\ DataStep("send", "send")
  /\ data' = [data EXCEPT !.sent = @ + 1]

SendFails == /\ Stopped \/ (data.sent = MaxBlocks /\ data.ended)
             /\ DataStep("send", "fail") /\ UNCHANGED data

SendEnds ==
  /\ ~Stopped /\ data.sent = MaxBlocks /\ ~data.eof
  /\ DataStep("send", "final")
  /\ data' = [data EXCEPT !.shut = TRUE]

Machine ==
  \/ Command \/ ReadReply \/ ReadNothing
  \/ Login \/ Ticket \/ Verify \/ RetryConnection \/ LoginFailed
  \/ Top \/ Drain \/ NoCommand \/ AfterCommand \/ Close
  \/ NextFile \/ Return \/ Assign \/ Connect \/ Accept
  \/ TransferDone \/ TransferStopped \/ ReadNames
  \/ SendBlock \/ SendFails \/ SendEnds
  \/ Stopped /\ (Prompt("password", "PASS") \/ Prompt("account", "ACCT"))

-----------------------------------------------------------------------------
(* The thread that reads the data connection *)

ReaderOnly == UNCHANGED <<session, server, control, machine, flags>>

\* Receive: a block goes to the screen or the file, or stays in the stream and
\* sets the event.  After a failed write the connection is closed.
Receive ==
  /\ data.reading /\ ~data.eof /\ ~data.shut
  /\ data.op # "send" /\ data.got < data.sent
  /\ \/ data' = [data EXCEPT !.got = @ + 1, !.event = @ \/ data.op = "none"]
     \/ /\ session.disk /\ data.op = "file"
        /\ data' = [data EXCEPT !.error = TRUE, !.event = TRUE, !.eof = TRUE, !.shut = TRUE]
  /\ ReaderOnly

\* A slip: the end of a file that is received does not set the event.
EndOfDataSilent ==
  /\ data.reading /\ ~data.eof /\ ~data.shut /\ data.ended
  /\ data.op = "send" \/ data.got = data.sent
  /\ data' = [data EXCEPT !.eof = TRUE, !.event = @ \/ data.op = "conn"]
  /\ ReaderOnly

\* The server has closed; Receive(NULL) does nothing for a file that is sent.
EndOfData ==
  /\ data.reading /\ ~data.eof /\ ~data.shut /\ data.ended
  /\ data.op = "send" \/ data.got = data.sent
  /\ data' = [data EXCEPT !.eof = TRUE, !.event = data.op # "send"]
  /\ ReaderOnly

-----------------------------------------------------------------------------
(* The user *)

UserOnly == UNCHANGED <<session, server, control, data, machine>>

\* A timely abort meets a download that is under way.
UnderWay == at = "wait" /\ part = "get" /\ xfer # Idle /\ ~data.ended /\ ~data.error

CtrlC ==
  /\ at # "ended" /\ user.aborts < session.aborts
  /\ session.timely => UnderWay
  /\ abort' = TRUE /\ user' = [user EXCEPT !.aborts = @ + 1]
  /\ UserOnly /\ UNCHANGED <<terminate, retryOp>>

Answers == ~Stopped /\ (Prompt("password", "PASS") \/ Prompt("account", "ACCT"))

\* The question whether to try again with a new ticket.
Reopen ==
  /\ retryOp = "wait" /\ ~terminate
  /\ \/ retryOp' = "abort" /\ UNCHANGED user
     \/ /\ user.retries < MaxLogins /\ retryOp' = "retry"
        /\ user' = [user EXCEPT !.retries = @ + 1]
  /\ UserOnly /\ UNCHANGED <<abort, terminate>>

\* The connection is deleted, which terminates the machine and waits for it.
CloseWindow ==
  /\ session.closes /\ ~terminate /\ at # "ended"
  /\ terminate' = TRUE
  /\ UserOnly /\ UNCHANGED <<abort, retryOp, user>>

-----------------------------------------------------------------------------
(* The server *)

Codes == [AUTH |-> {334, 504}, ADAT |-> {235, 535}, USER |-> {230, 331, 530},
          PASS |-> {230, 332, 530}, ACCT |-> {230, 530}, TYPE |-> {200},
          PASV |-> {227, 500}, PORT |-> {200, 500}, CWD |-> {250, 500, 550},
          XCWD |-> {250}, DELE |-> {250, 550}, RNFR |-> {350, 550},
          RNTO |-> {250, 553}, QUIT |-> {221}, ABOR |-> {226}]

ServerOnly == UNCHANGED <<session, machine, flags>>

Says(id, code) == replies' = Append(replies, [of |-> id, code |-> code])

Serving(verbs) ==
  /\ ctl = "open" /\ toServer # <<>> /\ Head(toServer).verb \in verbs
  /\ toServer' = Tail(toServer)

\* Commands are executed one after the other; the server closes after QUIT.
Answer ==
  /\ xfer = Idle /\ Serving(Commands \ Transfers)
  /\ \E code \in Codes[Head(toServer).verb] : Says(Head(toServer).id, code)
  /\ ctl' = IF Head(toServer).verb = "QUIT" THEN "dropped" ELSE ctl
  /\ ServerOnly /\ UNCHANGED <<xfer, woken, data>>

\* It refuses a transfer or starts it, if the client still listens for it.
StartTransfer ==
  /\ xfer = Idle /\ Serving(Transfers)
  /\ LET c == Head(toServer)
         listens == at = c.verb /\ awaiting = c.id IN
     \/ Says(c.id, IF listens THEN 550 ELSE 425) /\ UNCHANGED <<xfer, data>>
     \/ /\ listens
        /\ Says(c.id, 150)
        /\ \E n \in IF c.verb = "STOR" THEN {0} ELSE 0 .. MaxBlocks :
             xfer' = [id |-> c.id, verb |-> c.verb, left |-> n]
        /\ data' = [data EXCEPT !.up = TRUE]
  /\ ServerOnly /\ UNCHANGED <<ctl, woken>>

\* With timely aborts the server has not finished when one is sent.
Hurried == session.timely /\ (abort \/ at = "ABOR")

Sends ==
  /\ xfer.left > 0 /\ data.up /\ ~data.ended /\ ~data.shut
  /\ xfer' = [xfer EXCEPT !.left = @ - 1]
  /\ data' = [data EXCEPT !.sent = @ + 1]
  /\ ServerOnly /\ UNCHANGED <<toServer, control>>

\* It closes the data connection when all is sent, or early.
EndsData ==
  /\ xfer # Idle /\ data.up /\ ~data.ended /\ ~data.shut /\ ~Hurried
  /\ xfer.verb = "STOR" => ~session.steady
  /\ data' = [data EXCEPT !.ended = TRUE]
  /\ ServerOnly /\ UNCHANGED <<server, control>>

\* The last reply of a transfer.
Finishes ==
  /\ xfer # Idle /\ ~Hurried
  /\ ~data.up \/ data.shut \/ data.ended
  /\ LET whole == IF xfer.verb = "STOR" THEN data.shut ELSE data.ended /\ xfer.left = 0 IN
     Says(xfer.id, IF data.up /\ whole THEN 226 ELSE 426)
  /\ xfer' = Idle
  /\ ServerOnly /\ UNCHANGED <<toServer, ctl, woken, data>>

\* ABOR is urgent: the transfer ends, with a reply of its own.
AbortsTransfer ==
  /\ xfer # Idle /\ Serving({"ABOR"})
  /\ replies' = replies \o <<[of |-> xfer.id, code |-> 426],
                             [of |-> Head(toServer).id, code |-> 226]>>
  /\ xfer' = Idle
  /\ data' = [data EXCEPT !.ended = data.up]
  /\ ServerOnly /\ UNCHANGED <<ctl, woken>>

\* It closes the connections, with a word or without.
Drops ==
  /\ session.drops /\ ctl = "open"
  /\ ctl' = "dropped"
  /\ UNCHANGED replies \/ Says(None, 421)
  /\ xfer' = Idle
  /\ data' = [data EXCEPT !.ended = data.up]
  /\ ServerOnly /\ UNCHANGED <<toServer, woken>>

Server == Answer \/ StartTransfer \/ Sends \/ EndsData \/ Finishes \/ AbortsTransfer

Next == \/ Machine \/ ControlEnds \/ Receive \/ EndOfData
        \/ CMDGets \/ CtrlC \/ Answers \/ Reopen \/ CloseWindow
        \/ Server \/ Drops

\* Windows runs all threads, the server answers and finishes, the box is answered.
Fairness == /\ WF_vars(Machine) /\ WF_vars(ControlEnds)
            /\ WF_vars(Receive \/ EndOfData)
            /\ WF_vars(Server) /\ WF_vars(Reopen)

Spec     == Init /\ [][Next]_vars
FairSpec == Spec /\ Fairness

-----------------------------------------------------------------------------
(* Properties *)

TypeOK ==
  /\ session \in Session
  /\ toServer \in Seq([id : 1 .. sent, verb : Commands]) /\ Len(toServer) <= 2
  /\ replies \in Seq([of : 0 .. sent, code : 150 .. 599]) /\ Len(replies) <= 3
  /\ ctl \in {"open", "dropped", "invalid", "eof"} /\ woken \in BOOLEAN
  /\ xfer \in [id : 0 .. sent, verb : Transfers \cup {"none"}, left : 0 .. MaxBlocks]
  /\ data \in [op : {"none", "conn", "file", "send"},
               sent : 0 .. MaxBlocks, got : 0 .. MaxBlocks,
               up : BOOLEAN, reading : BOOLEAN, ended : BOOLEAN, shut : BOOLEAN,
               eof : BOOLEAN, event : BOOLEAN, error : BOOLEAN]
  /\ data.got <= data.sent /\ data.reading => data.up
  /\ part \in Logins \cup TransferParts \cup {"cd", "rename", "delete", "quit", "clear", "none"}
  /\ files \in NoFiles .. MaxBlocks
  /\ awaiting \in {None, sent}
  /\ sent \in Nat /\ lastCode \in {0} \cup 150 .. 599
  /\ abort \in BOOLEAN /\ terminate \in BOOLEAN
  /\ retryOp \in {"wait", "abort", "retry"}
  /\ user \in [jobs : 0 .. Len(session.jobs), aborts : 0 .. session.aborts,
               retries : 0 .. MaxLogins]

\* Nothing happens that makes a function return without its last reply.
Tidy == session.timely /\ session.steady /\ ~session.disk

\* A command never takes a reply to an earlier one for its own, and what the
\* loop of Run finds unread is no such reply either.  (An ABOR may find the
\* last reply of the transfer it ends.)
RepliesMatched ==
  Tidy /\ replies # <<>> /\ Head(replies).of # None =>
    /\ Reading /\ at \notin {"ABOR", "stray", "greeting"} => Head(replies).of = awaiting
    /\ at \in {"prompt", "drain", "stray"} => abort \/ terminate

\* When a transfer is said to be complete all that the server has sent is in
\* the file or on the screen.
Complete == at = "final" /\ part \in {"list", "get"} =>
              data.ended /\ data.got = data.sent

\* Three things a job may hang on: an upload whose connection the server has
\* closed, a reply that is due when the end of the control stream went by
\* unnoticed, and what is unread in the control stream of a closed window.
SendHangs  == at = "send" /\ data.eof /\ ~Stopped
ReplyHangs == Reading /\ ctl = "invalid" /\ replies = <<>> /\ ~woken /\ ~Stopped
DrainHangs == terminate /\ at = "stray"

\* Whatever the user does, every command comes back to the prompt, and closing
\* the window ends the machine, wherever it is.
Busy == part \notin Logins /\ at \notin {"prompt", "ended"}
JobEnds ==
  /\ Busy ~> ~Busy \/ SendHangs \/ ReplyHangs \/ DrainHangs
  /\ terminate ~> at = "ended" \/ DrainHangs
=============================================================================
