-------------------------- MODULE FtpMachineProofs --------------------------
(***************************************************************************)
(* A transfer that is said to be complete is complete, and no command      *)
(* takes the reply to another for its own, for any session, any size of    *)
(* file and any behaviour of the server.                                   *)
(*                                                                         *)
(* Complete speaks of the moment before the last reply.  It is not         *)
(* inductive: it needs that the event of the data stream means the end of  *)
(* a file or listing (EndIsEnd), which needs that the stream was assigned  *)
(* for the function that waits (Assigned), that the stream of an earlier   *)
(* transfer is not met again (FreshStream), and that a function does not   *)
(* change under way (PartKnown, FilesLeft).                                *)
(*                                                                         *)
(* RepliesMatched speaks of the first unread reply.  It needs to be known  *)
(* of each place which command is on its way, what the server is at and    *)
(* which replies are unread (DueAt), also when the user has aborted        *)
(* (AbortKnown) and when the connection is lost (ControlGone), which needs *)
(* what is known of the data connection (DataKnown and the first part).    *)
(*                                                                         *)
(* The last part is about the seals of a session (SealInv): from which     *)
(* reply on each end can read the other, and that it stays so.             *)
(***************************************************************************)
EXTENDS MCFtpMachine, SequenceTheorems, TLAPS

DataType ==
  data \in [op : {"none", "conn", "file", "send"}, sent : Nat, got : Nat,
            up : BOOLEAN, reading : BOOLEAN, ended : BOOLEAN, shut : BOOLEAN,
            eof : BOOLEAN, event : BOOLEAN, error : BOOLEAN]

\* From the assignment of the stream to the last reply.
Ready == {"PASV", "PORT", "connect", "accept", "wait", "send", "final"} \cup Transfers

\* Where names or files may be left; mget and mput transfer one after the other.
FileLoop == {"file", "TYPE", "local", "done", "fail", "ABOR", "rest"} \cup Ready

FilesLeft == files # NoFiles => part \in {"get", "put"} /\ at \in FileLoop

PartKnown ==
  /\ at \in {"TYPE", "local"} \cup Ready => part \in TransferParts
  /\ at = "file" => part \in {"get", "put"}
  /\ at = "send" => part = "put"
  /\ at = "names" => part = "names"

Assigned == at \in Ready => data.op = Op

\* The places where the stream of the present transfer is in use.
InUse == \/ at \in {"wait", "send", "final", "names", "done", "fail", "rest"}
         \/ at = "ABOR" /\ part # "clear"

FreshStream == data.reading \/ data.event => InUse

\* The event of a stream that shows or stores what arrives is set at its end.
EndIsEnd ==
  /\ data.ended => data.up
  /\ data.event /\ data.op \in {"conn", "file"} =>
       data.eof /\ (data.error \/ (data.ended /\ data.got = data.sent))

Announced ==
  at = "final" /\ part \in {"list", "get"} => data.event /\ ~data.error

IInv == /\ DataType /\ FilesLeft /\ PartKnown /\ Assigned
        /\ FreshStream /\ EndIsEnd /\ Announced

LEMMA InitInv == Init => IInv
BY DEF Init, NoData, NoFiles, IInv, DataType, FilesLeft, PartKnown, Assigned, FreshStream,
       EndIsEnd, Announced, Ready, Transfers, InUse

\* Most of what the user, the server and the control connection do.
LEMMA Elsewhere ==
  ASSUME IInv, UNCHANGED <<at, part, files, data>>
  PROVE  IInv'
BY DEF IInv, DataType, FilesLeft, PartKnown, Assigned, Op, FreshStream, InUse, EndIsEnd,
       Announced

-----------------------------------------------------------------------------
(* The data connection: the machine stays where it is *)

LEMMA SamePlace ==
  ASSUME IInv, UNCHANGED <<at, part, files>>, data'.op = data.op
  PROVE  FilesLeft' /\ PartKnown' /\ Assigned'
BY DEF IInv, FilesLeft, PartKnown, Assigned, Op

LEMMA SendsStep == ASSUME IInv, Sends PROVE IInv'
<1>1. /\ data.up /\ ~data.ended /\ UNCHANGED <<at, part, files>>
      /\ data' = [data EXCEPT !.sent = @ + 1]
  BY DEF Sends, ServerOnly, machine
<1>2. FilesLeft' /\ PartKnown' /\ Assigned'
  BY <1>1, SamePlace DEF IInv, DataType
<1>3. DataType' /\ FreshStream' /\ EndIsEnd' /\ Announced'
  BY <1>1 DEF IInv, DataType, FreshStream, InUse, EndIsEnd, Announced
<1> QED
  BY <1>2, <1>3 DEF IInv

\* The server, or the loss of the connection, ends a data connection that is up.
LEMMA EndedStep ==
  ASSUME IInv, UNCHANGED <<at, part, files>>, data' = [data EXCEPT !.ended = data.up]
  PROVE  IInv'
<1>1. FilesLeft' /\ PartKnown' /\ Assigned'
  BY SamePlace DEF IInv, DataType
<1>2. DataType' /\ FreshStream' /\ EndIsEnd' /\ Announced'
  BY DEF IInv, DataType, FreshStream, InUse, EndIsEnd, Announced
<1> QED
  BY <1>1, <1>2 DEF IInv

LEMMA UpStep ==
  ASSUME IInv, UNCHANGED <<at, part, files>>, data' = [data EXCEPT !.up = TRUE]
  PROVE  IInv'
<1>1. FilesLeft' /\ PartKnown' /\ Assigned'
  BY SamePlace DEF IInv, DataType
<1>2. DataType' /\ FreshStream' /\ EndIsEnd' /\ Announced'
  BY DEF IInv, DataType, FreshStream, InUse, EndIsEnd, Announced
<1> QED
  BY <1>1, <1>2 DEF IInv

LEMMA ServerStep == ASSUME IInv, Server PROVE IInv'
<1>1. CASE Answer
  BY <1>1, Elsewhere DEF Answer, ServerOnly, machine
<1>2. CASE StartTransfer
  <2>1. /\ UNCHANGED <<at, part, files>>
        /\ data' = data \/ data' = [data EXCEPT !.up = TRUE]
    BY <1>2 DEF StartTransfer, ServerOnly, machine
  <2> QED
    BY <2>1, Elsewhere, UpStep
<1>3. CASE Sends
  BY <1>3, SendsStep
<1>4. CASE EndsData
  <2>1. data.up /\ data' = [data EXCEPT !.ended = TRUE] /\ UNCHANGED <<at, part, files>>
    BY <1>4 DEF EndsData, ServerOnly, machine
  <2>2. data' = [data EXCEPT !.ended = data.up]
    BY <2>1 DEF IInv, DataType
  <2> QED
    BY <2>1, <2>2, EndedStep
<1>5. CASE Finishes
  BY <1>5, Elsewhere DEF Finishes, ServerOnly, machine
<1>6. CASE AbortsTransfer
  BY <1>6, EndedStep DEF AbortsTransfer, ServerOnly, machine
<1> QED
  BY <1>1, <1>2, <1>3, <1>4, <1>5, <1>6 DEF Server

LEMMA DropsStep == ASSUME IInv, Drops PROVE IInv'
BY EndedStep DEF Drops, ServerOnly, machine

LEMMA ReceiveStep == ASSUME IInv, Receive PROVE IInv'
<1>1. /\ data.reading /\ ~data.eof /\ data.op # "send" /\ UNCHANGED <<at, part, files>>
      /\ \/ data' = [data EXCEPT !.got = @ + 1, !.event = @ \/ data.op = "none"]
         \/ data' = [data EXCEPT !.error = TRUE, !.event = TRUE, !.eof = TRUE, !.shut = TRUE]
  BY DEF Receive, ReaderOnly, machine
<1>2. data.op \in {"conn", "file"} => ~data.event
  BY <1>1 DEF IInv, EndIsEnd
<1>3. InUse /\ InUse'
  BY <1>1 DEF IInv, FreshStream, InUse
<1>4. FilesLeft' /\ PartKnown' /\ Assigned'
  BY <1>1, SamePlace DEF IInv, DataType
<1>5. DataType' /\ FreshStream' /\ EndIsEnd'
  <2>1. CASE data' = [data EXCEPT !.got = @ + 1, !.event = @ \/ data.op = "none"]
    <3>1. /\ data'.op = data.op /\ data'.got = data.got + 1
          /\ data'.event = (data.event \/ data.op = "none")
          /\ data'.ended = data.ended /\ data'.up = data.up
      BY <2>1 DEF IInv, DataType
    <3>2. DataType'
      <4>1. (data.event \/ data.op = "none") \in BOOLEAN /\ data.got + 1 \in Nat
        BY DEF IInv, DataType
      <4> DEFINE d == [data EXCEPT !.got = @ + 1]
      <4>2. d \in [op : {"none", "conn", "file", "send"}, sent : Nat, got : Nat,
                   up : BOOLEAN, reading : BOOLEAN, ended : BOOLEAN, shut : BOOLEAN,
                   eof : BOOLEAN, event : BOOLEAN, error : BOOLEAN]
        BY <4>1 DEF IInv, DataType
      <4>3. data' = [d EXCEPT !.event = (data.event \/ data.op = "none")]
        BY <2>1 DEF IInv, DataType
      <4> HIDE DEF d
      <4> QED
        BY <4>1, <4>2, <4>3 DEF DataType
    <3>3. FreshStream'
      BY <1>3 DEF FreshStream
    <3>4. EndIsEnd'
      BY <3>1, <1>2 DEF IInv, EndIsEnd
    <3> QED
      BY <3>2, <3>3, <3>4
  <2>2. CASE data' = [data EXCEPT !.error = TRUE, !.event = TRUE, !.eof = TRUE, !.shut = TRUE]
    BY <2>2, <1>2, <1>3 DEF IInv, DataType, FreshStream, EndIsEnd
  <2> QED
    BY <1>1, <2>1, <2>2
<1>6. Announced'
  <2>1. ~(at = "final" /\ part \in {"list", "get"})
    BY <1>2 DEF IInv, Announced, Assigned, Op, Ready
  <2> QED
    BY <2>1, <1>1 DEF Announced
<1> QED
  BY <1>4, <1>5, <1>6 DEF IInv

LEMMA EndOfDataStep == ASSUME IInv, EndOfData PROVE IInv'
<1>1. /\ data.reading /\ ~data.eof /\ data.ended /\ UNCHANGED <<at, part, files>>
      /\ data.op = "send" \/ data.got = data.sent
      /\ data' = [data EXCEPT !.eof = TRUE, !.event = data.op # "send"]
  BY DEF EndOfData, ReaderOnly, machine
<1>2. InUse /\ InUse'
  BY <1>1 DEF IInv, FreshStream, InUse
<1>3. FilesLeft' /\ PartKnown' /\ Assigned'
  BY <1>1, SamePlace DEF IInv, DataType
<1>4. DataType' /\ FreshStream' /\ EndIsEnd'
  BY <1>1, <1>2 DEF IInv, DataType, FreshStream, EndIsEnd
<1>5. Announced'
  BY <1>1 DEF IInv, DataType, Announced, Assigned, Op, Ready, EndIsEnd
<1> QED
  BY <1>3, <1>4, <1>5 DEF IInv

-----------------------------------------------------------------------------
(* The machine: the data connection stays as it is *)

\* Where the places decide, and the stream is not in use at the new one unless
\* it was before.
LEMMA PlaceStep ==
  ASSUME IInv, UNCHANGED data, FilesLeft', PartKnown', Assigned', InUse => InUse',
         at' = "final" => part' \notin {"list", "get"}
  PROVE  IInv'
BY DEF IInv, DataType, FreshStream, EndIsEnd, Announced

LEMMA ReplyStep ==
  ASSUME IInv, NEW code, at \in Commands \/ at \in {"greeting", "stray", "rest", "final"},
         at' = AfterReply(code),
         part' = part \/ (at = "ADAT" /\ part' = "kerberos"),
         UNCHANGED <<files, data>>
  PROVE  IInv'
<1> USE DEF IInv, Commands, Transfers, LoginCommands
<1>1. at \in Ready => /\ part \in TransferParts /\ part' = part
                      /\ at' \in {"connect", "fail", "accept", "names", "done"} \cup Transfers
                      /\ at' = "names" => part = "names"
  BY DEF AfterReply, TransferVerb, Ready, PartKnown, TransferParts
<1>2. at = "TYPE" => at' = "local" /\ part \in TransferParts /\ part' = part
  BY DEF AfterReply, PartKnown, TransferParts
<1>3. at = "rest" => at' = "fail" /\ part' = part
  BY DEF AfterReply
<1>4. at = "ABOR" => /\ part' = part
                     /\ part # "clear" => at' \in {"fail", "rest"}
                     /\ part = "clear" => at' = "top"
  <2>1. at = "ABOR" => at' = AfterAbor(code)
    BY DEF AfterReply
  <2> QED
    BY <2>1 DEF AfterAbor
<1>5. at \notin {"ABOR", "rest", "TYPE"} \cup Ready =>
        at' \notin {"file", "TYPE", "local", "names"} \cup Ready
  <2>1. AfterLogin(code) \notin {"file", "TYPE", "local", "names"} \cup Ready
    BY DEF AfterLogin, Ready
  <2> QED
    BY <2>1 DEF AfterReply, Ready
<1>6. at = "done" \/ at = "fail" => FALSE
  OBVIOUS
<1>7. FilesLeft'
  BY <1>1, <1>2, <1>3, <1>4 DEF FilesLeft, FileLoop, Ready
<1>8. PartKnown'
  BY <1>1, <1>2, <1>3, <1>4, <1>5 DEF PartKnown, Ready, TransferParts
<1>9. Assigned'
  BY <1>1, <1>2, <1>3, <1>4, <1>5 DEF Assigned, Op, Ready
<1>10. InUse => InUse'
  BY <1>1, <1>3, <1>4 DEF InUse, Ready, AfterReply
<1>11. at' # "final"
  BY <1>1, <1>2, <1>3, <1>4, <1>5 DEF Ready
<1> QED
  BY <1>7, <1>8, <1>9, <1>10, <1>11, PlaceStep

LEMMA CommandStep == ASSUME IInv, Command PROVE IInv'
<1>1. CASE Refused(at)
  BY <1>1, ReplyStep DEF Command, Goto
<1>2. CASE ~Refused(at)
  BY <1>2, Elsewhere DEF Command
<1> QED
  BY <1>1, <1>2

LEMMA RepliedStep == ASSUME IInv, Reading, NEW code, Replied(code) PROVE IInv'
BY ReplyStep DEF Reading, Replied, Goto

\* Outside the transfers a step from place to place disturbs nothing.
LEMMA OutsideStep ==
  ASSUME IInv, UNCHANGED <<files, data>>, at \notin FileLoop \cup {"names"},
         at' \notin FileLoop \cup {"names"}
  PROVE  IInv'
<1> USE DEF IInv, FileLoop, Ready
<1>1. ~InUse
  BY DEF InUse
<1>2. FilesLeft' /\ PartKnown' /\ Assigned'
  BY DEF FilesLeft, PartKnown, Assigned
<1> QED
  BY <1>1, <1>2, PlaceStep

LEMMA RunStep ==
  ASSUME IInv,
         \/ Login \/ Ticket \/ Verify \/ RetryConnection \/ LoginFailed
         \/ Top \/ Drain \/ NoCommand \/ Close
         \/ Prompt("password", "PASS") \/ Prompt("account", "ACCT")
  PROVE  IInv'
<1>1. UNCHANGED <<files, data>>
  BY DEF Login, Ticket, Verify, RetryConnection, LoginFailed, Top, Drain, NoCommand,
         Close, Prompt, Step, Stay, MachineOnly
<1>2. /\ at \in {"login", "ticket", "verify", "sorry", "refused", "top", "drain",
                 "prompt", "close", "password", "account"}
      /\ at' \in {"AUTH", "USER", "ADAT", "refused", "sorry", "login", "close", "drain",
                  "stray", "prompt", "after", "ended", "PASS", "ACCT"}
  BY DEF Login, Ticket, Verify, RetryConnection, LoginFailed, Top, Drain, NoCommand,
         Close, Prompt, Step, Goto
<1> QED
  BY <1>1, <1>2, OutsideStep DEF FileLoop, Ready, Transfers

LEMMA AfterCommandStep == ASSUME IInv, AfterCommand PROVE IInv'
<1>1. /\ at = "after" /\ UNCHANGED <<files, data>>
      /\ (at' = "ABOR" /\ part' = "clear") \/ at' = "top"
  BY DEF AfterCommand, Goto, MachineOnly
<1>2. ~InUse /\ files = NoFiles
  BY <1>1 DEF IInv, InUse, FilesLeft, FileLoop, Ready, Transfers
<1>3. FilesLeft' /\ PartKnown' /\ Assigned'
  BY <1>1, <1>2 DEF FilesLeft, PartKnown, Assigned, Ready, Transfers
<1> QED
  BY <1>1, <1>2, <1>3, PlaceStep

LEMMA CMDGetsStep == ASSUME IInv, CMDGets PROVE IInv'
<1>1. /\ at = "prompt" /\ UNCHANGED data
      /\ \/ files' = NoFiles /\ at' \in {"CWD", "RNFR", "DELE", "QUIT"}
         \/ /\ files' = NoFiles /\ at' = "TYPE" /\ part' \in TransferParts
         \/ part' = "put" /\ at' = "file"
  BY DEF CMDGets, Parse, Begin, Goto, MachineOnly, TransferParts
<1>2. ~InUse
  BY <1>1 DEF InUse
<1>3. FilesLeft' /\ PartKnown' /\ Assigned'
  BY <1>1 DEF FilesLeft, PartKnown, Assigned, Ready, Transfers, FileLoop
<1> QED
  BY <1>1, <1>2, <1>3, PlaceStep

LEMMA NextFileStep == ASSUME IInv, NextFile PROVE IInv'
<1>1. /\ at = "file" /\ UNCHANGED <<part, data>>
      /\ (files' = NoFiles /\ at' = "after") \/ at' = "TYPE"
  BY DEF NextFile, Goto, MachineOnly
<1>2. ~InUse /\ part \in {"get", "put"}
  BY <1>1 DEF IInv, InUse, PartKnown
<1>3. FilesLeft' /\ PartKnown' /\ Assigned'
  BY <1>1, <1>2 DEF FilesLeft, PartKnown, Assigned, Ready, Transfers, FileLoop,
                    TransferParts
<1> QED
  BY <1>1, <1>2, <1>3, PlaceStep

\* With a new stream nothing of the old one is left.
LEMMA NewStream ==
  ASSUME IInv, data' = NoData, FilesLeft', PartKnown', at' \notin Ready
  PROVE  IInv'
BY DEF IInv, DataType, Assigned, FreshStream, EndIsEnd, Announced, NoData, Ready

LEMMA ReturnStep == ASSUME IInv, Return PROVE IInv'
<1>1. /\ data' = NoData /\ UNCHANGED part
      /\ \/ files # NoFiles /\ files' = files /\ at' = "file"
         \/ files' = NoFiles /\ at' = "after"
  BY DEF Return, Goto
<1>2. FilesLeft' /\ PartKnown'
  BY <1>1 DEF IInv, FilesLeft, PartKnown, Ready, Transfers, FileLoop
<1> QED
  BY <1>1, <1>2, NewStream DEF Ready, Transfers

-----------------------------------------------------------------------------
(* Transfers *)

LEMMA AssignStep == ASSUME IInv, Assign PROVE IInv'
<1> USE DEF IInv
<1>1. /\ at = "local" /\ UNCHANGED <<part, files>>
      /\ \/ at' \in {"PASV", "PORT"} /\ data' = [data EXCEPT !.op = Op]
         \/ at' = "fail" /\ UNCHANGED data
  BY DEF Assign, DataStep, Goto, Stay
<1>2. part \in TransferParts /\ (files # NoFiles => part \in {"get", "put"})
  BY <1>1 DEF PartKnown, FilesLeft
<1>3. FilesLeft' /\ PartKnown'
  BY <1>1, <1>2 DEF FilesLeft, PartKnown, Ready, Transfers, FileLoop
<1>4. CASE at' = "fail"
  <2>1. Assigned' /\ (InUse => InUse')
    BY <1>4 DEF Assigned, Ready, Transfers, InUse
  <2> QED
    BY <1>1, <1>3, <1>4, <2>1, PlaceStep
<1>5. CASE at' # "fail"
  <2>1. data' = [data EXCEPT !.op = Op] /\ at' \in {"PASV", "PORT"}
    BY <1>1, <1>5
  <2>2. Op \in {"none", "conn", "file", "send"} /\ Op' = Op
    BY <1>1, <1>2 DEF Op, TransferParts
  <2>3. ~data.reading /\ ~data.event
    BY <1>1 DEF FreshStream, InUse
  <2> QED
    BY <1>3, <2>1, <2>2, <2>3 DEF DataType, Assigned, FreshStream, EndIsEnd, Announced
<1> QED
  BY <1>4, <1>5

\* A step inside one transfer.
LEMMA Onward ==
  ASSUME IInv, UNCHANGED <<part, files>>, at \in Ready, at' \in Ready, data'.op = data.op,
         at' = "send" => part = "put"
  PROVE  FilesLeft' /\ PartKnown' /\ Assigned'
BY DEF IInv, FilesLeft, PartKnown, Assigned, Op, Ready, Transfers, FileLoop

\* A function gives up.
LEMMA GiveUp ==
  ASSUME IInv, UNCHANGED <<part, files, data>>, at \in Ready \cup {"names"}, at' = "fail"
  PROVE  IInv'
<1>1. FilesLeft' /\ PartKnown' /\ Assigned' /\ (InUse => InUse')
  BY DEF IInv, FilesLeft, PartKnown, Assigned, InUse, Ready, Transfers, FileLoop
<1> QED
  BY <1>1, PlaceStep

LEMMA ConnectStep == ASSUME IInv, Connect PROVE IInv'
<1>1. /\ at = "connect" /\ UNCHANGED <<part, files>>
      /\ \/ at' = TransferVerb /\ data' = [data EXCEPT !.up = TRUE]
         \/ at' = "fail" /\ UNCHANGED data
  BY DEF Connect, DataStep, Goto, Stay
<1>2. CASE at' = "fail" /\ UNCHANGED data
  BY <1>1, <1>2, GiveUp DEF Ready
<1>3. CASE at' = TransferVerb /\ data' = [data EXCEPT !.up = TRUE]
  <2>1. at' \in Transfers
    BY <1>3 DEF TransferVerb, Transfers
  <2>2. FilesLeft' /\ PartKnown' /\ Assigned'
    BY <1>1, <1>3, <2>1, Onward DEF Ready, Transfers, IInv, DataType
  <2>3. ~data.reading /\ ~data.event
    BY <1>1 DEF IInv, FreshStream, InUse
  <2>4. DataType' /\ FreshStream' /\ EndIsEnd' /\ Announced'
    BY <1>3, <2>1, <2>3
       DEF IInv, DataType, FreshStream, EndIsEnd, Announced, Transfers
  <2> QED
    BY <2>2, <2>4 DEF IInv
<1> QED
  BY <1>1, <1>2, <1>3

LEMMA AcceptStep == ASSUME IInv, Accept PROVE IInv'
<1>1. /\ at = "accept" /\ UNCHANGED <<part, files>>
      /\ at' = (IF part = "put" THEN "send" ELSE "wait")
      /\ data' = [data EXCEPT !.reading = TRUE]
  BY DEF Accept, DataStep, Goto, Stay
<1>2. FilesLeft' /\ PartKnown' /\ Assigned'
  BY <1>1, Onward DEF Ready, IInv, DataType
<1>3. DataType' /\ FreshStream' /\ EndIsEnd' /\ Announced'
  BY <1>1 DEF IInv, DataType, FreshStream, InUse, EndIsEnd, Announced
<1> QED
  BY <1>2, <1>3 DEF IInv

LEMMA TransferDoneStep == ASSUME IInv, TransferDone PROVE IInv'
<1>1. /\ at = "wait" /\ data.event /\ UNCHANGED <<part, files, data>>
      /\ at' = (IF data.error THEN "fail" ELSE "final")
  BY DEF TransferDone, DataStep, Goto, Stay
<1>2. CASE data.error
  BY <1>1, <1>2, GiveUp DEF Ready
<1>3. CASE ~data.error
  <2>1. FilesLeft' /\ PartKnown' /\ Assigned'
    BY <1>1, <1>3, Onward DEF Ready
  <2>2. DataType' /\ FreshStream' /\ EndIsEnd' /\ Announced'
    BY <1>1, <1>3 DEF IInv, DataType, FreshStream, InUse, EndIsEnd, Announced
  <2> QED
    BY <2>1, <2>2 DEF IInv
<1> QED
  BY <1>2, <1>3

LEMMA TransferStoppedStep == ASSUME IInv, TransferStopped PROVE IInv'
<1>1. /\ at = "wait" /\ UNCHANGED <<part, files, data>>
      /\ (at' = "ABOR" /\ part = "get") \/ at' = "fail"
  BY DEF TransferStopped, Goto, MachineOnly
<1>2. FilesLeft' /\ PartKnown' /\ Assigned' /\ (InUse => InUse')
  BY <1>1 DEF IInv, FilesLeft, PartKnown, Assigned, InUse, Ready, Transfers, FileLoop
<1> QED
  BY <1>1, <1>2, PlaceStep

LEMMA ReadNamesStep == ASSUME IInv, ReadNames PROVE IInv'
<1>1. CASE Stopped /\ DataStep("names", "fail") /\ UNCHANGED data
  BY <1>1, GiveUp DEF DataStep, Goto, Stay
<1>2. CASE at' = "file" /\ part' = "get" /\ data' = NoData
  <2>1. FilesLeft' /\ PartKnown' /\ at' \notin Ready
    BY <1>2 DEF FilesLeft, PartKnown, Ready, Transfers, FileLoop
  <2> QED
    BY <1>2, <2>1, NewStream
<1> QED
  BY <1>1, <1>2 DEF ReadNames, Goto

LEMMA SendBlockStep == ASSUME IInv, SendBlock PROVE IInv'
<1>1. /\ at = "send" /\ at' = "send" /\ UNCHANGED <<part, files>>
      /\ data' = [data EXCEPT !.sent = @ + 1]
  BY DEF SendBlock, DataStep, Goto, Stay
<1>2. data.op = "send"
  BY <1>1 DEF IInv, Assigned, PartKnown, Op, Ready
<1>3. FilesLeft' /\ PartKnown' /\ Assigned'
  BY <1>1, SamePlace DEF IInv, DataType
<1>4. DataType' /\ FreshStream' /\ EndIsEnd' /\ Announced'
  BY <1>1, <1>2 DEF IInv, DataType, FreshStream, InUse, EndIsEnd, Announced
<1> QED
  BY <1>3, <1>4 DEF IInv

LEMMA SendFailsStep == ASSUME IInv, SendFails PROVE IInv'
BY GiveUp DEF SendFails, DataStep, Goto, Stay, Ready

LEMMA SendEndsStep == ASSUME IInv, SendEnds PROVE IInv'
<1>1. /\ at = "send" /\ at' = "final" /\ UNCHANGED <<part, files>>
      /\ data' = [data EXCEPT !.shut = TRUE]
  BY DEF SendEnds, DataStep, Goto, Stay
<1>2. part = "put"
  BY <1>1 DEF IInv, PartKnown
<1>3. FilesLeft' /\ PartKnown' /\ Assigned'
  BY <1>1, Onward DEF Ready, IInv, DataType
<1>4. DataType' /\ FreshStream' /\ EndIsEnd' /\ Announced'
  BY <1>1, <1>2 DEF IInv, DataType, FreshStream, InUse, EndIsEnd, Announced
<1> QED
  BY <1>3, <1>4 DEF IInv

LEMMA MachineStep == ASSUME IInv, Machine PROVE IInv'
<1>1. CASE ReadReply \/ ReadNothing
  BY <1>1, RepliedStep DEF ReadReply, ReadNothing
<1>2. CASE \/ Login \/ Ticket \/ Verify \/ RetryConnection \/ LoginFailed
           \/ Top \/ Drain \/ NoCommand \/ Close
           \/ Prompt("password", "PASS") \/ Prompt("account", "ACCT")
  BY <1>2, RunStep
<1> QED
  BY <1>1, <1>2, CommandStep, AfterCommandStep, NextFileStep, ReturnStep, AssignStep,
     ConnectStep, AcceptStep, TransferDoneStep, TransferStoppedStep, ReadNamesStep,
     SendBlockStep, SendFailsStep, SendEndsStep DEF Machine

-----------------------------------------------------------------------------

LEMMA IInvStep == ASSUME IInv, [Next]_vars PROVE IInv'
<1>1. CASE UNCHANGED vars
  BY <1>1, Elsewhere DEF vars, machine
<1>2. CASE ControlEnds
  BY <1>2, Elsewhere DEF ControlEnds, machine
<1>3. CASE CtrlC \/ Reopen \/ CloseWindow
  BY <1>3, Elsewhere DEF CtrlC, Reopen, CloseWindow, UserOnly, machine
<1>4. CASE Answers
  BY <1>4, RunStep DEF Answers
<1> QED
  BY <1>1, <1>2, <1>3, <1>4, MachineStep, ServerStep, DropsStep, ReceiveStep,
     EndOfDataStep, CMDGetsStep DEF Next

\* The invariant that Complete rests on.
THEOREM IInvAlways == Spec => []IInv
BY InitInv, IInvStep, PTL DEF Spec

\* FTPDataStream::Receive and the waits of GetFile and ListDir: whatever the
\* server does and whenever the user aborts, a file or a listing is said to be
\* complete only when the server has closed the connection and all that it
\* sent is stored or shown.
THEOREM TransfersComplete == Spec => []Complete
<1>1. IInv => Complete
  BY DEF IInv, Announced, EndIsEnd, Assigned, Op, Complete, Ready
<1> QED
  BY <1>1, IInvAlways, PTL

-----------------------------------------------------------------------------
(* A command never takes a reply to an earlier one for its own.            *)
(*                                                                         *)
(* Of a session in which nothing makes a function return early, one knows  *)
(* at each place what is on its way and which replies are unread.          *)

ReplyType ==
  /\ toServer \in Seq([id : Nat \ {None}, verb : Commands])
  /\ replies \in Seq([of : Nat, code : Nat])
  /\ xfer = Idle \/ xfer \in [id : Nat \ {None}, verb : Transfers, left : Nat]
  /\ sent \in Nat /\ awaiting \in Nat
  /\ ctl \in {"open", "dropped", "invalid", "eof"}
  /\ abort \in BOOLEAN /\ terminate \in BOOLEAN

\* Nothing is unread after the first k replies but the server's farewell.
Unread(k) ==
  /\ k <= Len(replies)
  /\ \A i \in (k + 1) .. Len(replies) : replies[i].of = None
  /\ Len(replies) > k => ctl # "open"

NothingSent == ctl = "open" => toServer = <<>>

\* A command is on its way, and nothing else.
OnlySent == ctl = "open" => toServer = <<[id |-> awaiting, verb |-> at]>>

Quiet == xfer = Idle /\ NothingSent /\ Unread(0)

\* The one reply of a command is due.
Asked ==
  /\ xfer = Idle
  /\ \/ Unread(0) /\ OnlySent
     \/ Unread(1) /\ replies[1].of = awaiting /\ NothingSent

\* A transfer that the server has accepted: k replies come before its last one.
Running(k) ==
  /\ NothingSent
  /\ \/ /\ xfer # Idle /\ xfer.id = awaiting /\ xfer.verb = TransferVerb
        /\ data.up /\ Unread(k)
     \/ xfer = Idle /\ ctl # "open" /\ Unread(k)
     \/ /\ part = "put" => at = "final"
        /\ xfer = Idle /\ Unread(k + 1) /\ replies[k + 1].of = awaiting

\* The first reply of a transfer is due.
AskedTransfer ==
  \/ xfer = Idle /\ Unread(0) /\ OnlySent
  \/ /\ Unread(1) /\ replies[1].of = awaiting /\ replies[1].code \div 100 # 1
     /\ xfer = Idle /\ NothingSent
  \/ /\ Len(replies) > 0 /\ replies[1].of = awaiting /\ replies[1].code = 150
     /\ Running(1)

\* GetFile aborts a download, which the server has not finished.
Aborting ==
  \/ awaiting = None /\ NothingSent /\ Unread(0) /\ (ctl = "open" => xfer # Idle)
  \/ awaiting # None /\ OnlySent /\ Unread(0) /\ (ctl = "open" => xfer # Idle)
  \/ /\ awaiting # None /\ NothingSent /\ Unread(2) /\ xfer = Idle
     /\ replies[1].of # None /\ replies[1].code = 426 /\ replies[2].of = awaiting

Aborted ==
  /\ xfer = Idle /\ NothingSent
  /\ Unread(0) \/ (Unread(1) /\ replies[1].of = awaiting)

InTransfer == {"accept", "wait", "send", "final"}
AtRest == at \notin Commands \cup InTransfer \cup {"rest", "greeting", "close", "ended"}

CommandDue  == at \in Commands \ (Transfers \cup {"ABOR"}) /\ awaiting # None => Asked
TransferDue == at \in Transfers /\ awaiting # None => AskedTransfer
LastDue     == at \in InTransfer => Running(0) /\ awaiting # None
SecondDue   == at = "rest" => Aborted

\* What is said of a window that is not being closed.
NothingDue ==
  /\ at \in Commands \ {"ABOR"} /\ awaiting = None => Quiet
  /\ AtRest => Quiet
GreetingDue ==
  at = "greeting" => /\ xfer = Idle /\ NothingSent
                     /\ \A i \in 1 .. Len(replies) : replies[i].of = None
                     /\ Len(replies) > 1 => ctl # "open"
AbortDue ==
  at = "ABOR" => /\ part = "get" => Aborting
                 /\ part # "get" => xfer = Idle /\ Unread(0) /\ ctl # "open"

DueAt ==
  /\ CommandDue /\ TransferDue /\ LastDue /\ SecondDue
  /\ ~terminate => NothingDue /\ GreetingDue /\ AbortDue

Awaited == \/ at \in Commands \cup InTransfer \cup {"rest", "done", "fail"}
           \/ awaiting = None

VerbKnown == at \in Transfers => at = TransferVerb

ControlGone ==
  /\ at = "ended" => ctl = "eof"
  /\ ctl # "open" /\ at # "ended" => xfer = Idle
  /\ ctl = "eof" /\ at # "ended" => replies = <<>>

\* The user aborts a download that is under way.
AbortKnown ==
  abort => \/ at = "ended"
           \/ /\ part = "get"
              /\ \/ /\ at = "wait" /\ Unread(0)
                    /\ ctl = "open" => xfer # Idle /\ ~data.ended
                 \/ at \in {"final", "done", "fail", "after"} /\ ctl # "open"

Connected == Transfers \cup InTransfer \cup {"names", "done", "fail", "rest", "ABOR"}

DataKnown ==
  /\ ~data.error
  /\ data.up => at \in Connected /\ (at = "ABOR" => part # "clear")
  /\ data.shut => part = "put" /\ at \in {"final", "done", "fail"}
  /\ part = "put" /\ at \in {"STOR", "accept", "wait", "send"} /\ data.ended
        /\ (awaiting # None \/ ~terminate)
       => ctl # "open"

Known == DueAt /\ Awaited /\ VerbKnown /\ ControlGone /\ AbortKnown /\ DataKnown

RInv == ReplyType /\ (Tidy => Known)

LEMMA InitReplies == Init => RInv
<1> SUFFICES ASSUME Init PROVE RInv
  OBVIOUS
<1> USE DEF Init, None
<1>1. PICK c \in {220, 500} : replies = <<[of |-> None, code |-> c]>>
  OBVIOUS
<1>2. ReplyType
  <2>1. [of |-> None, code |-> 220] \in [of : Nat, code : Nat]
        /\ [of |-> None, code |-> 500] \in [of : Nat, code : Nat]
    OBVIOUS
  <2>2. replies \in Seq([of : Nat, code : Nat])
    BY <1>1, <2>1
  <2> QED
    BY <2>2, EmptySeq DEF ReplyType
<1>3. Commands \cap {"greeting"} = {} /\ "greeting" \notin Transfers
  BY DEF Commands, Transfers, LoginCommands
<1>4. DueAt
  BY <1>1, <1>3 DEF DueAt, CommandDue, TransferDue, LastDue, SecondDue, NothingDue, GreetingDue,
                    AbortDue, AtRest, InTransfer, NothingSent
<1>5. Awaited /\ VerbKnown /\ ControlGone /\ AbortKnown /\ DataKnown
  BY <1>3 DEF Awaited, VerbKnown, ControlGone, AbortKnown, DataKnown, NoData
<1> QED
  BY <1>2, <1>4, <1>5 DEF RInv, Known

-----------------------------------------------------------------------------
(* What is unread *)

LEMMA UnreadNothing ==
  ASSUME ReplyType, replies # <<>>, Unread(0)
  PROVE  Head(replies).of = None /\ ctl # "open"
BY DEF ReplyType, Unread

LEMMA UnreadTail ==
  ASSUME ReplyType, replies # <<>>, replies' = Tail(replies), ctl' = ctl
  PROVE  /\ Unread(0) \/ Unread(1) => Unread(0)'
         /\ Unread(2) => Unread(1)' /\ replies'[1] = replies[2]
         /\ Len(replies') = Len(replies) - 1
         /\ \A i \in 1 .. Len(replies') : replies'[i] = replies[i + 1]
<1>1. /\ replies' \in Seq([of : Nat, code : Nat]) /\ Len(replies') = Len(replies) - 1
      /\ \A i \in 1 .. Len(replies') : replies'[i] = replies[i + 1]
      /\ Len(replies) \in Nat
  BY DEF ReplyType
<1>2. Unread(0) => Unread(0)'
  BY <1>1 DEF Unread
<1>3. Unread(1) => Unread(0)'
  BY <1>1 DEF Unread
<1>4. Unread(2) => Unread(1)' /\ replies'[1] = replies[2]
  BY <1>1 DEF Unread
<1> QED
  BY <1>1, <1>2, <1>3, <1>4

\* The server says one more thing.
LEMMA UnreadAppend ==
  ASSUME ReplyType, NEW k \in Nat, Unread(k), ctl = "open", NEW r,
         replies' = Append(replies, r)
  PROVE  Unread(k + 1)' /\ replies'[k + 1] = r /\ \A i \in 1 .. k : replies'[i] = replies[i]
<1>1. Len(replies) = k
  BY DEF ReplyType, Unread
<1>2. Len(replies') = k + 1 /\ replies'[k + 1] = r
  BY <1>1 DEF ReplyType
<1>3. \A i \in 1 .. k : replies'[i] = replies[i]
  BY <1>1 DEF ReplyType
<1>4. Unread(k + 1)'
  BY <1>2 DEF Unread
<1> QED
  BY <1>2, <1>3, <1>4

\* The connection is lost, with a word or without.
LEMMA UnreadGone ==
  ASSUME ReplyType, NEW k \in Nat, Unread(k), ctl' # "open",
         replies' = replies \/ replies' = Append(replies, [of |-> None, code |-> 421])
  PROVE  Unread(k)' /\ \A i \in 1 .. k : replies'[i] = replies[i]
<1>1. /\ Len(replies) \in Nat /\ Len(replies') \in Nat
      /\ \A i \in 1 .. Len(replies) : replies'[i] = replies[i]
      /\ \A i \in (Len(replies) + 1) .. Len(replies') : replies'[i].of = None
      /\ Len(replies) <= Len(replies')
  <2>1. CASE replies' = replies
    BY <2>1 DEF ReplyType
  <2>2. CASE replies' = Append(replies, [of |-> None, code |-> 421])
    <3>1. /\ Len(replies) \in Nat /\ Len(replies') = Len(replies) + 1
          /\ replies'[Len(replies) + 1] = [of |-> None, code |-> 421]
          /\ \A i \in 1 .. Len(replies) : replies'[i] = replies[i]
      BY <2>2 DEF ReplyType
    <3> QED
      BY <3>1
  <2> QED
    BY <2>1, <2>2
<1>2. k <= Len(replies) /\ \A i \in (k + 1) .. Len(replies) : replies[i].of = None
  BY DEF Unread
<1>3. \A i \in (k + 1) .. Len(replies') : replies'[i].of = None
  <2> TAKE i \in (k + 1) .. Len(replies')
  <2>1. CASE i <= Len(replies)
    BY <2>1, <1>1, <1>2
  <2>2. CASE i > Len(replies)
    BY <2>2, <1>1
  <2> QED
    BY <2>1, <2>2, <1>1
<1> QED
  BY <1>1, <1>2, <1>3 DEF Unread

LEMMA UnreadSame ==
  ASSUME UNCHANGED replies, ctl' = ctl \/ ctl' # "open", NEW k, Unread(k)
  PROVE  Unread(k)'
BY DEF Unread

-----------------------------------------------------------------------------
(* Types *)

LEMMA CodesAreNumbers ==
  ASSUME NEW verb \in Commands \ Transfers, NEW code \in Codes[verb]
  PROVE  code \in Nat
BY DEF Codes, Commands, Transfers, LoginCommands

LEMMA Longer ==
  ASSUME NEW T, NEW s \in Seq(T), NEW e \in T, NEW t, t = s \/ t = Append(s, e)
  PROVE  t \in Seq(T)
BY AppendProperties

LEMMA ServedCommand ==
  ASSUME ReplyType, NEW verbs, Serving(verbs)
  PROVE  /\ Head(toServer) \in [id : Nat \ {None}, verb : Commands]
         /\ toServer' \in Seq([id : Nat \ {None}, verb : Commands])
         /\ Head(toServer).verb \in verbs /\ ctl = "open" /\ toServer # <<>>
BY HeadTailProperties DEF ReplyType, Serving

LEMMA ReplyTypeStep == ASSUME ReplyType, [Next]_vars PROVE ReplyType'
<1> USE DEF ReplyType, None
<1>1. CASE Answer
  <2>1. PICK code \in Codes[Head(toServer).verb] : Says(Head(toServer).id, code)
    BY <1>1 DEF Answer
  <2>2. /\ Head(toServer) \in [id : Nat \ {None}, verb : Commands]
        /\ toServer' \in Seq([id : Nat \ {None}, verb : Commands])
        /\ Head(toServer).verb \in Commands \ Transfers
    BY <1>1, ServedCommand DEF Answer, Serving
  <2>3. code \in Nat
    BY <2>2, CodesAreNumbers
  <2>4. replies' \in Seq([of : Nat, code : Nat])
    BY <2>1, <2>2, <2>3 DEF Says
  <2>5. UNCHANGED <<xfer, sent, awaiting, abort, terminate>> /\ ctl' \in {ctl, "dropped"}
    BY <1>1 DEF Answer, ServerOnly, machine, flags
  <2> QED
    BY <2>2, <2>4, <2>5 DEF Idle
<1>2. CASE StartTransfer
  <2>1. /\ Head(toServer) \in [id : Nat \ {None}, verb : Commands]
        /\ toServer' \in Seq([id : Nat \ {None}, verb : Commands])
        /\ Head(toServer).verb \in Transfers
        /\ UNCHANGED <<ctl, sent, awaiting, abort, terminate>>
    BY <1>2, ServedCommand DEF StartTransfer, Serving, ServerOnly, machine, flags
  <2>2. \E code \in Nat : Says(Head(toServer).id, code)
    <3>1. /\ (IF at = Head(toServer).verb /\ awaiting = Head(toServer).id THEN 550 ELSE 425) \in Nat
          /\ 150 \in Nat
      OBVIOUS
    <3> QED
      BY <1>2, <3>1 DEF StartTransfer
  <2>4. replies' \in Seq([of : Nat, code : Nat])
    <3>1. PICK code \in Nat : Says(Head(toServer).id, code)
      BY <2>2
    <3>2. [of |-> Head(toServer).id, code |-> code] \in [of : Nat, code : Nat]
      BY <2>1, <3>1
    <3> QED
      BY <3>1, <3>2 DEF Says, ReplyType
  <2>3. xfer' = xfer \/ xfer' \in [id : Nat \ {None}, verb : Transfers, left : Nat]
    <3>1. (IF Head(toServer).verb = "STOR" THEN {0} ELSE 0 .. MaxBlocks) \subseteq Nat
      BY SessionAssumption
    <3> QED
      BY <1>2, <2>1, <3>1 DEF StartTransfer
  <2> QED
    BY <2>1, <2>3, <2>4 DEF Idle
<1>3. CASE Sends
  <2>1. xfer # Idle /\ xfer' = [xfer EXCEPT !.left = @ - 1] /\ xfer.left > 0
    BY <1>3 DEF Sends, Idle
  <2>2. xfer' \in [id : Nat \ {None}, verb : Transfers, left : Nat]
    BY <2>1
  <2> QED
    BY <1>3, <2>2 DEF Sends, ServerOnly, machine, flags, control
<1>4. CASE EndsData
  BY <1>4 DEF EndsData, ServerOnly, machine, flags, control, server, Idle
<1>5. CASE Finishes
  <2>1. replies' \in Seq([of : Nat, code : Nat])
    BY <1>5 DEF Finishes, Says
  <2> QED
    BY <1>5, <2>1 DEF Finishes, ServerOnly, machine, flags, Idle
<1>6. CASE AbortsTransfer
  <2>1. /\ Head(toServer) \in [id : Nat \ {None}, verb : Commands]
        /\ toServer' \in Seq([id : Nat \ {None}, verb : Commands])
    BY <1>6, ServedCommand DEF AbortsTransfer, Serving
  <2>2. xfer \in [id : Nat \ {None}, verb : Transfers, left : Nat]
    BY <1>6 DEF AbortsTransfer
  <2>3. <<[of |-> xfer.id, code |-> 426], [of |-> Head(toServer).id, code |-> 226]>>
          \in Seq([of : Nat, code : Nat])
    BY <2>1, <2>2
  <2>4. replies' \in Seq([of : Nat, code : Nat])
    BY <1>6, <2>3 DEF AbortsTransfer
  <2> QED
    BY <1>6, <2>1, <2>4 DEF AbortsTransfer, ServerOnly, machine, flags, Idle
<1>7. CASE Drops
  <2> DEFINE R == [of : Nat, code : Nat]
             r == [of |-> None, code |-> 421]
  <2>1. r \in R /\ replies \in Seq(R) /\ (replies' = replies \/ replies' = Append(replies, r))
    BY <1>7 DEF Drops, Says
  <2>2. replies' \in Seq(R)
    <3> HIDE DEF R, r
    <3> QED
      BY <2>1, Longer
  <2> QED
    BY <1>7, <2>2 DEF Drops, ServerOnly, machine, flags, Idle
<1>8. CASE Command
  <2> DEFINE R == [id : Nat \ {None}, verb : Commands]
             r == [id |-> sent + 1, verb |-> at]
  <2>1. r \in R /\ toServer \in Seq(R) /\ (toServer' = toServer \/ toServer' = Append(toServer, r))
    BY <1>8 DEF Command
  <2>2. toServer' \in Seq(R)
    <3> HIDE DEF R, r
    <3> QED
      BY <2>1, Longer
  <2> QED
    BY <1>8, <2>2 DEF Command, control, flags, Idle
<1>9. CASE ReadReply
  BY <1>9 DEF ReadReply, Replied, server, flags, Idle
<1>10. CASE ReadNothing
  BY <1>10 DEF ReadNothing, Replied, server, flags, Idle
<1>11. CASE ControlEnds \/ Receive \/ EndOfData
  BY <1>11 DEF ControlEnds, Receive, EndOfData, ReaderOnly, server, control, machine, flags, Idle
<1>12. CASE CMDGets \/ CtrlC \/ Answers \/ Reopen \/ CloseWindow
  BY <1>12 DEF CMDGets, CtrlC, Answers, Reopen, CloseWindow, UserOnly, MachineOnly, Prompt,
               Step, Stay, server, control, machine, flags, Idle
<1>13. CASE \/ Login \/ Ticket \/ Verify \/ RetryConnection \/ LoginFailed
            \/ Top \/ Drain \/ NoCommand \/ AfterCommand \/ NextFile
            \/ Prompt("password", "PASS") \/ Prompt("account", "ACCT")
  BY <1>13 DEF Login, Ticket, Verify, RetryConnection, LoginFailed, Top, Drain, NoCommand,
               AfterCommand, NextFile, Prompt, Step, Stay, MachineOnly,
               server, control, machine, flags, Idle
<1>14. CASE Close \/ Return
  <2>1. terminate' \in BOOLEAN
    BY <1>14, Zenon DEF Close, Return
  <2>2. /\ UNCHANGED <<toServer, xfer, sent>> /\ abort' \in BOOLEAN
        /\ awaiting' \in {awaiting, None}
        /\ replies' \in {replies, <<>>} /\ ctl' \in {ctl, "eof"}
    BY <1>14 DEF Close, Return, Stay, server, control
  <2> QED
    <3>1. replies' \in Seq([of : Nat, code : Nat])
      BY <2>2, EmptySeq, Zenon
    <3> QED
      BY <2>1, <2>2, <3>1 DEF Idle
<1>15. CASE \/ Assign \/ Connect \/ Accept \/ TransferDone \/ TransferStopped \/ ReadNames
            \/ SendBlock \/ SendFails \/ SendEnds
  <2>1. abort' \in BOOLEAN
    BY <1>15, Zenon DEF Assign, Connect, Accept, TransferDone, TransferStopped, ReadNames,
         SendBlock, SendFails, SendEnds, DataStep, flags
  <2>2. /\ UNCHANGED <<toServer, xfer, replies, ctl, sent, terminate>>
        /\ awaiting' \in {awaiting, None}
    BY <1>15 DEF Assign, Connect, Accept, TransferDone, TransferStopped, ReadNames, SendBlock,
         SendFails, SendEnds, DataStep, Stay, MachineOnly, server, control, flags
  <2> QED
    BY <2>1, <2>2 DEF Idle
<1>16. CASE UNCHANGED vars
  BY <1>16 DEF vars, server, control, machine, flags, Idle
<1> QED
  BY <1>1, <1>2, <1>3, <1>4, <1>5, <1>6, <1>7, <1>8, <1>9, <1>10, <1>11, <1>12, <1>13,
     <1>14, <1>15, <1>16 DEF Next, Server, Machine

-----------------------------------------------------------------------------
(* Replies: the server, the connection and the user *)

LEMMA PlacesDiffer ==
  /\ Commands \cap (InTransfer \cup {"rest", "greeting", "close", "ended", "done", "fail",
                    "after", "names", "stray"}) = {}
  /\ Transfers \subseteq Commands /\ "ABOR" \in Commands /\ "ABOR" \notin Transfers
BY DEF Commands, Transfers, LoginCommands, InTransfer

\* What is due depends on the place, the control connection and the transfer.
LEMMA SameDue ==
  ASSUME DueAt, UNCHANGED <<toServer, replies, ctl, xfer, at, part, awaiting>>,
         terminate => terminate', data.up => data'.up
  PROVE  DueAt'
<1> USE DEF DueAt
<1>1. (Unread(0) => Unread(0)') /\ (Unread(1) => Unread(1)') /\ (Unread(2) => Unread(2)')
  BY DEF Unread
<1>2. (NothingSent => NothingSent') /\ (OnlySent => OnlySent') /\ (Quiet => Quiet')
  BY <1>1 DEF NothingSent, OnlySent, Quiet
<1>3. (Running(0) => Running(0)') /\ (Running(1) => Running(1)')
  BY <1>1, <1>2 DEF Running, TransferVerb
<1>4. CommandDue' /\ TransferDue' /\ LastDue' /\ SecondDue'
  BY <1>1, <1>2, <1>3
     DEF CommandDue, TransferDue, LastDue, SecondDue, Asked, AskedTransfer, Aborted
<1>5. ~terminate' => NothingDue' /\ GreetingDue' /\ AbortDue'
  BY <1>1, <1>2 DEF NothingDue, GreetingDue, AbortDue, AtRest, Aborting
<1> QED
  BY <1>4, <1>5

LEMMA SameKnown ==
  ASSUME Known, UNCHANGED <<toServer, replies, ctl, xfer, at, part, awaiting, abort>>,
         terminate => terminate', data'.up = data.up, data'.ended = data.ended,
         data'.shut = data.shut, data'.error = data.error
  PROVE  Known'
<1> USE DEF Known
<1>1. DueAt'
  BY SameDue
<1>2. Awaited' /\ VerbKnown' /\ ControlGone'
  BY DEF Awaited, VerbKnown, TransferVerb, ControlGone
<1>3. AbortKnown' /\ DataKnown'
  BY DEF AbortKnown, Unread, DataKnown
<1> QED
  BY <1>1, <1>2, <1>3

\* Where a command can be on its way.
LEMMA Served ==
  ASSUME Known, ctl = "open", toServer # <<>>
  PROVE  /\ ~abort /\ at # "ended"
         /\ \/ /\ at \in Commands /\ awaiting # None /\ OnlySent /\ Unread(0)
               /\ at # "ABOR" => xfer = Idle
               /\ at = "ABOR" => xfer # Idle /\ part = "get"
            \/ /\ terminate \/ at = "close"
               /\ at \notin InTransfer \cup {"rest"}
               /\ at \in Commands \ {"ABOR"} => awaiting = None
<1> USE DEF Known, DueAt
<1>1. at # "ended" /\ ~NothingSent
  BY DEF ControlGone, NothingSent
<1>2. at \notin InTransfer \cup {"rest"} /\ ~abort
  BY <1>1, PlacesDiffer DEF LastDue, SecondDue, Running, Aborted, AbortKnown, InTransfer
<1>3. at \in Commands /\ at # "ABOR" /\ awaiting # None => OnlySent /\ Unread(0) /\ xfer = Idle
  BY <1>1 DEF CommandDue, TransferDue, Asked, AskedTransfer, Running
<1>4. ~terminate => \/ at = "close"
                    \/ at \in Commands /\ (at = "ABOR" \/ awaiting # None)
  <2>1. ~Quiet
    BY <1>1 DEF Quiet
  <2>2. ~terminate => at # "greeting"
    BY <1>1 DEF GreetingDue
  <2> QED
    BY <1>1, <1>2, <2>1, <2>2 DEF NothingDue, AtRest
<1>5. ~terminate /\ at = "ABOR" => /\ awaiting # None /\ OnlySent /\ Unread(0)
                                   /\ xfer # Idle /\ part = "get"
  BY <1>1 DEF AbortDue, Aborting
<1> QED
  BY <1>1, <1>2, <1>3, <1>4, <1>5

LEMMA AnswerKnown == ASSUME ReplyType, Known, Answer PROVE Known'
<1>1. /\ xfer = Idle /\ ctl = "open" /\ toServer # <<>> /\ toServer' = Tail(toServer)
      /\ Head(toServer).verb \notin Transfers
      /\ UNCHANGED <<xfer, data, at, part, awaiting, abort, terminate>>
      /\ ctl' \in {ctl, "dropped"}
  BY DEF Answer, Serving, ServerOnly, machine, flags
<1>2. PICK code : replies' = Append(replies, [of |-> Head(toServer).id, code |-> code])
  BY DEF Answer, Says
<1>3. ~abort /\ at # "ended"
  BY <1>1, Served
<1>4. Awaited' /\ VerbKnown' /\ ControlGone' /\ AbortKnown' /\ DataKnown'
  BY <1>1, <1>3 DEF Known, Awaited, VerbKnown, TransferVerb, ControlGone, AbortKnown, DataKnown
<1>5. CASE at \in Commands /\ awaiting # None /\ OnlySent /\ Unread(0) /\ at # "ABOR"
  <2>1. toServer = <<[id |-> awaiting, verb |-> at]>>
    BY <1>1, <1>5 DEF OnlySent
  <2>2. toServer' = <<>> /\ Head(toServer).id = awaiting /\ at \notin Transfers
    BY <2>1, <1>1
  <2>3. Unread(0 + 1)' /\ replies'[0 + 1] = [of |-> awaiting, code |-> code]
    BY <1>1, <1>2, <1>5, <2>2, UnreadAppend
  <2>4. Asked'
    BY <2>2, <2>3, <1>1 DEF Asked, NothingSent
  <2> QED
    BY <1>1, <1>4, <1>5, <2>2, <2>4, PlacesDiffer
       DEF Known, DueAt, CommandDue, TransferDue, LastDue, SecondDue, NothingDue, AtRest,
           GreetingDue, AbortDue
<1>6. CASE /\ terminate \/ at = "close"
           /\ at \notin InTransfer \cup {"rest"}
           /\ at \in Commands \ {"ABOR"} => awaiting = None
  BY <1>1, <1>4, <1>6, PlacesDiffer
     DEF Known, DueAt, CommandDue, TransferDue, LastDue, SecondDue, NothingDue, AtRest,
         GreetingDue, AbortDue
<1> QED
  BY <1>1, <1>5, <1>6, Served

LEMMA StartTransferKnown == ASSUME IInv, ReplyType, Known, StartTransfer PROVE Known'
<1> DEFINE c == Head(toServer)
<1>1. /\ xfer = Idle /\ ctl = "open" /\ toServer # <<>> /\ toServer' = Tail(toServer)
      /\ c.verb \in Transfers
      /\ UNCHANGED <<ctl, at, part, awaiting, abort, terminate>>
  BY DEF StartTransfer, Serving, ServerOnly, machine, flags
<1>2. ~abort /\ at # "ended"
  BY <1>1, Served
<1>3. \/ /\ UNCHANGED <<xfer, data>>
         /\ \E code \in {550, 425} : replies' = Append(replies, [of |-> c.id, code |-> code])
      \/ /\ at = c.verb /\ awaiting = c.id
         /\ replies' = Append(replies, [of |-> c.id, code |-> 150])
         /\ \E n : xfer' = [id |-> c.id, verb |-> c.verb, left |-> n]
         /\ data' = [data EXCEPT !.up = TRUE]
  BY DEF StartTransfer, Says
<1>4. /\ data'.error = data.error /\ data'.shut = data.shut /\ data'.ended = data.ended
      /\ data'.up => data.up \/ at \in Transfers
  <2>1. data' = data \/ (at \in Transfers /\ data' = [data EXCEPT !.up = TRUE])
    BY <1>1, <1>3
  <2> QED
    BY <2>1 DEF IInv, DataType
<1>5. Awaited' /\ VerbKnown' /\ ControlGone' /\ AbortKnown' /\ DataKnown'
  BY <1>1, <1>2, <1>4, PlacesDiffer
     DEF Known, Awaited, VerbKnown, TransferVerb, ControlGone, AbortKnown, DataKnown, Connected
<1>6. CASE at \in Commands /\ awaiting # None /\ OnlySent /\ Unread(0) /\ at # "ABOR"
  <2>1. toServer = <<[id |-> awaiting, verb |-> at]>>
    BY <1>1, <1>6 DEF OnlySent
  <2>2. toServer' = <<>> /\ c.id = awaiting /\ c.verb = at /\ at \in Transfers
    BY <2>1, <1>1
  <2>3. PICK code \in {550, 425, 150} :
          /\ replies' = Append(replies, [of |-> awaiting, code |-> code])
          /\ code # 150 => xfer' = xfer
          /\ code = 150 => /\ \E n : xfer' = [id |-> awaiting, verb |-> at, left |-> n]
                           /\ data'.up
    BY <1>3, <2>2 DEF IInv, DataType
  <2>4. Unread(0 + 1)' /\ replies'[0 + 1] = [of |-> awaiting, code |-> code]
    BY <1>1, <1>6, <2>3, UnreadAppend
  <2>5. AskedTransfer'
    <3>1. CASE code # 150
      <4>1. code \div 100 # 1
        BY <3>1
      <4> QED
        BY <2>2, <2>3, <2>4, <3>1, <4>1, <1>1 DEF AskedTransfer, NothingSent
    <3>2. CASE code = 150
      <4>1. xfer'.id = awaiting /\ xfer'.verb = at /\ xfer' # Idle
        BY <2>3, <3>2, <1>6 DEF Idle
      <4>2. Running(1)'
        BY <4>1, <2>2, <2>3, <2>4, <3>2, <1>1
           DEF Running, NothingSent, Known, VerbKnown, TransferVerb
      <4>3. Len(replies') \in Nat
        BY <2>3 DEF ReplyType
      <4> QED
        BY <4>2, <4>3, <2>4, <3>2, <1>1 DEF AskedTransfer, Unread
    <3> QED
      BY <3>1, <3>2
  <2> QED
    BY <1>1, <1>5, <1>6, <2>2, <2>5, PlacesDiffer
       DEF Known, DueAt, CommandDue, TransferDue, LastDue, SecondDue, NothingDue, AtRest,
           GreetingDue, AbortDue
<1>7. CASE /\ terminate \/ at = "close"
           /\ at \notin InTransfer \cup {"rest"}
           /\ at \in Commands \ {"ABOR"} => awaiting = None
  BY <1>1, <1>5, <1>7, PlacesDiffer
     DEF Known, DueAt, CommandDue, TransferDue, LastDue, SecondDue, NothingDue, AtRest,
         GreetingDue, AbortDue
<1> QED
  BY <1>1, <1>6, <1>7, Served

LEMMA AbortsTransferKnown == ASSUME IInv, ReplyType, Known, AbortsTransfer PROVE Known'
<1>1. /\ xfer # Idle /\ ctl = "open" /\ toServer # <<>> /\ toServer' = Tail(toServer)
      /\ Head(toServer).verb = "ABOR" /\ xfer' = Idle
      /\ replies' = replies \o <<[of |-> xfer.id, code |-> 426],
                                 [of |-> Head(toServer).id, code |-> 226]>>
      /\ UNCHANGED <<ctl, at, part, awaiting, abort, terminate>>
      /\ data' = [data EXCEPT !.ended = data.up]
  BY DEF AbortsTransfer, Serving, ServerOnly, machine, flags
<1>2. ~abort /\ at # "ended" /\ at \notin InTransfer
  BY <1>1, PlacesDiffer, Served
<1>3. data'.error = data.error /\ data'.shut = data.shut /\ data'.up = data.up
  BY <1>1 DEF IInv, DataType
<1>4. at \in Commands /\ (awaiting # None \/ ~(terminate \/ at = "close")) => at = "ABOR"
  <2>1. CASE at \in Commands /\ awaiting # None /\ OnlySent /\ Unread(0)
    <3>1. toServer = <<[id |-> awaiting, verb |-> at]>>
      BY <1>1, <2>1 DEF OnlySent
    <3> QED
      BY <3>1, <1>1
  <2> QED
    BY <1>1, <2>1, Served
<1>5. Awaited' /\ VerbKnown' /\ ControlGone' /\ AbortKnown' /\ DataKnown'
  BY <1>1, <1>2, <1>3, <1>4, PlacesDiffer
     DEF Known, Awaited, VerbKnown, TransferVerb, ControlGone, AbortKnown, DataKnown, Transfers,
         InTransfer
<1>6. CASE at = "ABOR" /\ awaiting # None /\ OnlySent /\ Unread(0)
  <2>1. toServer = <<[id |-> awaiting, verb |-> at]>>
    BY <1>1, <1>6 DEF OnlySent
  <2>2. toServer' = <<>> /\ Head(toServer).id = awaiting
    BY <2>1, <1>1
  <2>3. xfer.id # None /\ replies = <<>>
    BY <1>1, <1>6 DEF ReplyType, Unread
  <2>4. replies' = <<[of |-> xfer.id, code |-> 426], [of |-> awaiting, code |-> 226]>>
    BY <1>1, <2>2, <2>3
  <2>5. /\ Len(replies') = 2 /\ replies'[1].of # None
        /\ replies'[1].code = 426 /\ replies'[2].of = awaiting
    BY <2>3, <2>4
  <2>6. Unread(2)'
    BY <2>5 DEF Unread
  <2>7. Aborting' 
    BY <2>2, <2>5, <2>6, <1>1, <1>6 DEF Aborting, NothingSent
  <2>8. ~terminate => part = "get"
    BY <1>1, <1>6, Served
  <2> QED
    BY <1>1, <1>5, <1>6, <2>7, <2>8, PlacesDiffer
       DEF Known, DueAt, CommandDue, TransferDue, LastDue, SecondDue, NothingDue, AtRest,
           GreetingDue, AbortDue
<1>7. CASE /\ terminate \/ at = "close"
           /\ at \notin InTransfer \cup {"rest"}
           /\ at \in Commands \ {"ABOR"} => awaiting = None
  BY <1>1, <1>5, <1>7, PlacesDiffer
     DEF Known, DueAt, CommandDue, TransferDue, LastDue, SecondDue, NothingDue, AtRest,
         GreetingDue, AbortDue
<1> QED
  BY <1>1, <1>4, <1>6, <1>7, Served

LEMMA SendsKnown == ASSUME IInv, ReplyType, Known, Sends PROVE Known'
<1>1. /\ xfer.left > 0 /\ xfer' = [xfer EXCEPT !.left = @ - 1]
      /\ data' = [data EXCEPT !.sent = @ + 1]
      /\ UNCHANGED <<toServer, replies, ctl, at, part, awaiting, abort, terminate>>
  BY DEF Sends, ServerOnly, control, machine, flags
<1>2. xfer # Idle
  BY <1>1 DEF Idle
<1>3. xfer' # Idle /\ xfer'.id = xfer.id /\ xfer'.verb = xfer.verb
  BY <1>1, <1>2 DEF ReplyType, Idle, Transfers
<1>4. /\ data'.error = data.error /\ data'.shut = data.shut
      /\ data'.ended = data.ended /\ data'.up = data.up
  BY <1>1 DEF IInv, DataType
<1>5. Awaited' /\ VerbKnown' /\ ControlGone' /\ AbortKnown' /\ DataKnown'
  BY <1>1, <1>2, <1>3, <1>4
     DEF Known, Awaited, VerbKnown, TransferVerb, ControlGone, AbortKnown, DataKnown, Unread
<1>6. /\ (Unread(0) => Unread(0)') /\ (Unread(1) => Unread(1)')
      /\ (NothingSent => NothingSent') /\ (OnlySent => OnlySent')
  BY <1>1 DEF Unread, NothingSent, OnlySent
<1>7. (Running(0) => Running(0)') /\ (Running(1) => Running(1)')
  BY <1>1, <1>2, <1>3, <1>4, <1>6 DEF Running, TransferVerb
<1>8. CommandDue' /\ TransferDue' /\ LastDue' /\ SecondDue'
  BY <1>1, <1>2, <1>6, <1>7
     DEF Known, DueAt, CommandDue, TransferDue, LastDue, SecondDue, Asked, AskedTransfer, Aborted
<1>9. ~terminate' => NothingDue' /\ GreetingDue' /\ AbortDue'
  BY <1>1, <1>2, <1>3, <1>6
     DEF Known, DueAt, NothingDue, GreetingDue, AbortDue, Quiet, Aborting, AtRest
<1> QED
  BY <1>5, <1>8, <1>9 DEF Known, DueAt

\* A server that is busy has an open connection, and the machine is in a
\* transfer.
LEMMA BusyServer ==
  ASSUME IInv, Known, xfer # Idle, ctl = "open"
  PROVE  /\ at \in Transfers /\ awaiting # None =>
              Running(1) /\ Unread(1) /\ xfer.id = awaiting /\ xfer.verb = TransferVerb /\ data.up
                /\ Len(replies) > 0 /\ replies[1].of = awaiting /\ replies[1].code = 150
         /\ at \in InTransfer =>
              Unread(0) /\ xfer.id = awaiting /\ xfer.verb = TransferVerb /\ data.up
         /\ at # "rest" /\ (at \in Commands \ (Transfers \cup {"ABOR"}) => awaiting = None)
         /\ ~terminate => /\ ~AtRest /\ at # "greeting"
                          /\ at \in Commands \ {"ABOR"} => awaiting # None
BY DEF Known, DueAt, CommandDue, TransferDue, LastDue, SecondDue, NothingDue, GreetingDue,
       Asked, AskedTransfer, Running, Aborted, Quiet

LEMMA EndsDataKnown ==
  ASSUME IInv, ReplyType, Known, Tidy, EndsData
  PROVE  Known'
<1>1. /\ xfer # Idle /\ data.up /\ ~data.ended /\ ~data.shut /\ ~Hurried
      /\ xfer.verb # "STOR"
      /\ data' = [data EXCEPT !.ended = TRUE]
      /\ UNCHANGED <<toServer, xfer, replies, ctl, at, part, awaiting, abort, terminate>>
  BY DEF EndsData, Tidy, ServerOnly, server, control, machine, flags
<1>2. data'.error = data.error /\ data'.shut = data.shut /\ data'.up = data.up
  BY <1>1 DEF IInv, DataType
<1>3. ~abort
  BY <1>1 DEF Hurried, Tidy
<1>4. DueAt'
  BY <1>1, <1>2, SameDue DEF Known
<1>5. Awaited' /\ VerbKnown' /\ ControlGone' /\ AbortKnown'
  BY <1>1, <1>3 DEF Known, Awaited, VerbKnown, TransferVerb, ControlGone, AbortKnown
<1>6. part = "put" /\ at \in {"STOR", "accept", "wait", "send"} /\ (awaiting # None \/ ~terminate)
        => ctl # "open"
  <2>1. TransferVerb # "STOR" => part # "put"
    BY DEF TransferVerb
  <2> QED
    BY <1>1, <2>1, BusyServer, PlacesDiffer DEF Transfers, InTransfer
<1>7. DataKnown'
  BY <1>1, <1>2, <1>6 DEF Known, DataKnown
<1> QED
  BY <1>4, <1>5, <1>7 DEF Known

LEMMA FinishesKnown ==
  ASSUME IInv, ReplyType, Known, Tidy, Finishes
  PROVE  Known'
<1>1. /\ xfer # Idle /\ ~Hurried /\ xfer' = Idle
      /\ ~data.up \/ data.shut \/ data.ended
      /\ UNCHANGED <<toServer, ctl, data, at, part, awaiting, abort, terminate>>
  BY DEF Finishes, ServerOnly, machine, flags
<1>2. PICK code : replies' = Append(replies, [of |-> xfer.id, code |-> code])
  BY DEF Finishes, Says
<1>3. ~abort /\ at # "ABOR"
  BY <1>1 DEF Hurried, Tidy
<1>4. CASE at = "ended"
  <2>1. ctl = "eof"
    BY <1>4 DEF Known, ControlGone
  <2>2. DueAt'
    BY <1>1, <1>4, PlacesDiffer
       DEF DueAt, CommandDue, TransferDue, LastDue, SecondDue, NothingDue, GreetingDue,
           AbortDue, AtRest, InTransfer
  <2>3. Awaited' /\ VerbKnown' /\ ControlGone' /\ AbortKnown' /\ DataKnown'
    BY <1>1, <1>3, <1>4, <2>1
       DEF Known, Awaited, VerbKnown, ControlGone, AbortKnown, DataKnown, TransferVerb
  <2> QED
    BY <2>2, <2>3 DEF Known
<1>5. CASE at # "ended"
  <2>1. ctl = "open"
    BY <1>1, <1>5 DEF Known, ControlGone
  <2>2. Awaited' /\ VerbKnown' /\ ControlGone' /\ AbortKnown' /\ DataKnown'
    BY <1>1, <1>3, <2>1
       DEF Known, Awaited, VerbKnown, TransferVerb, ControlGone, AbortKnown, DataKnown
  <2>3. /\ part = "put" /\ data.up =>
             at \notin {"STOR", "accept", "wait", "send"} \/ ~(awaiting # None \/ ~terminate)
    BY <1>1, <2>1 DEF Known, DataKnown
  <2>4. CASE at \in Transfers /\ awaiting # None
    <3>1. /\ Unread(1) /\ xfer.id = awaiting /\ data.up /\ NothingSent
          /\ replies[1].of = awaiting /\ replies[1].code = 150 /\ Len(replies) > 0
      BY <1>1, <2>1, <2>4, BusyServer DEF Running
    <3>2. part # "put"
      BY <2>3, <2>4, <3>1 DEF Known, VerbKnown, TransferVerb
    <3>3. Unread(1 + 1)' /\ replies'[1 + 1] = [of |-> awaiting, code |-> code]
          /\ replies'[1] = replies[1] /\ Len(replies') > 0
      <4>1. \A i \in 1 .. 1 : replies'[i] = replies[i]
        BY <1>2, <2>1, <3>1, UnreadAppend
      <4> QED
        BY <1>2, <2>1, <3>1, <4>1, UnreadAppend DEF ReplyType
    <3>4. Running(1)'
      BY <3>1, <3>2, <3>3, <1>1 DEF Running, NothingSent
    <3>5. TransferDue'
      BY <3>1, <3>3, <3>4, <1>1 DEF TransferDue, AskedTransfer
    <3> QED
      BY <1>1, <2>2, <2>4, <3>5, PlacesDiffer
         DEF Known, DueAt, CommandDue, LastDue, SecondDue, NothingDue, GreetingDue, AbortDue, AtRest
  <2>5. CASE at \in InTransfer
    <3>1. Unread(0) /\ xfer.id = awaiting /\ data.up /\ NothingSent /\ awaiting # None
      BY <1>1, <2>1, <2>5, BusyServer DEF Known, DueAt, LastDue, Running
    <3>2. part = "put" => at = "final"
      BY <2>3, <2>5, <3>1 DEF InTransfer
    <3>3. Unread(0 + 1)' /\ replies'[0 + 1] = [of |-> awaiting, code |-> code]
      BY <1>2, <2>1, <3>1, UnreadAppend
    <3>4. LastDue'
      BY <3>1, <3>2, <3>3, <1>1 DEF LastDue, Running, NothingSent
    <3> QED
      BY <1>1, <2>2, <2>5, <3>4, PlacesDiffer
         DEF Known, DueAt, CommandDue, TransferDue, SecondDue, NothingDue, GreetingDue, AbortDue,
             AtRest, InTransfer
  <2>6. CASE at \notin InTransfer /\ ~(at \in Transfers /\ awaiting # None)
    BY <1>1, <1>3, <2>1, <2>2, <2>6, BusyServer, PlacesDiffer
       DEF Known, DueAt, CommandDue, TransferDue, LastDue, SecondDue, NothingDue, GreetingDue,
           AbortDue, AtRest
  <2> QED
    BY <2>4, <2>5, <2>6
<1> QED
  BY <1>4, <1>5

LEMMA DropsKnown == ASSUME IInv, ReplyType, Known, Drops PROVE Known'
<1>1. /\ ctl = "open" /\ ctl' = "dropped" /\ xfer' = Idle
      /\ replies' = replies \/ replies' = Append(replies, [of |-> None, code |-> 421])
      /\ data' = [data EXCEPT !.ended = data.up]
      /\ UNCHANGED <<toServer, at, part, awaiting, abort, terminate>>
  BY DEF Drops, Says, ServerOnly, machine, flags
<1>2. data'.error = data.error /\ data'.shut = data.shut /\ data'.up = data.up
  BY <1>1 DEF IInv, DataType
<1>3. Awaited' /\ VerbKnown' /\ ControlGone' /\ DataKnown'
  BY <1>1, <1>2 DEF Known, Awaited, VerbKnown, TransferVerb, ControlGone, DataKnown
<1>4. NothingSent' /\ OnlySent'
  BY <1>1 DEF NothingSent, OnlySent
<1>5. Unread(0) => Unread(0)'
  BY <1>1, UnreadGone
<1>6. Unread(1) => Unread(1)' /\ replies'[1] = replies[1]
  <2>1. ASSUME Unread(1) PROVE \A i \in 1 .. 1 : replies'[i] = replies[i]
    BY <1>1, <2>1, UnreadGone
  <2> QED
    BY <1>1, <2>1, UnreadGone
<1>7. Unread(2) => Unread(2)' /\ replies'[1] = replies[1] /\ replies'[2] = replies[2]
  <2>1. ASSUME Unread(2) PROVE \A i \in 1 .. 2 : replies'[i] = replies[i]
    BY <1>1, <2>1, UnreadGone
  <2> QED
    BY <1>1, <2>1, UnreadGone
<1>8. AbortKnown'
  BY <1>1, <1>5 DEF Known, AbortKnown, ControlGone
<1>9. Running(0) => Running(0)'
  BY <1>1, <1>4, <1>5, <1>6 DEF Running
<1>10. Running(1) => Running(1)'
  BY <1>1, <1>4, <1>6, <1>7 DEF Running
<1>11. Len(replies) > 0 => Len(replies') > 0 /\ replies'[1] = replies[1]
  <2>1. Len(replies) \in Nat /\ \A i \in 1 .. Len(replies) : replies'[i] = replies[i]
    BY <1>1 DEF ReplyType
  <2>2. Len(replies') \in {Len(replies), Len(replies) + 1}
    BY <1>1 DEF ReplyType
  <2> QED
    BY <2>1, <2>2
<1>12. CommandDue' /\ TransferDue' /\ LastDue' /\ SecondDue'
  BY <1>1, <1>4, <1>5, <1>6, <1>9, <1>10, <1>11
     DEF Known, DueAt, CommandDue, TransferDue, LastDue, SecondDue, Asked, AskedTransfer, Aborted
<1>13. GreetingDue => GreetingDue'
  <2>1. \A i \in 1 .. Len(replies') :
          (\A j \in 1 .. Len(replies) : replies[j].of = None) => replies'[i].of = None
    <3>1. /\ Len(replies) \in Nat /\ Len(replies') \in {Len(replies), Len(replies) + 1}
          /\ \A i \in 1 .. Len(replies) : replies'[i] = replies[i]
          /\ Len(replies') = Len(replies) + 1 => replies'[Len(replies) + 1].of = None
      BY <1>1 DEF ReplyType
    <3> QED
      BY <3>1
  <2> QED
    BY <1>1, <1>4, <2>1 DEF GreetingDue
<1>14. ~terminate => NothingDue' /\ AbortDue'
  BY <1>1, <1>4, <1>5, <1>7
     DEF Known, DueAt, NothingDue, AbortDue, Quiet, Aborting, AtRest
<1> QED
  BY <1>1, <1>3, <1>8, <1>12, <1>13, <1>14 DEF Known, DueAt

LEMMA ControlEndsKnown == ASSUME Known, ControlEnds PROVE Known'
<1>1. /\ ctl = "dropped" /\ ctl' = "invalid"
      /\ UNCHANGED <<toServer, xfer, replies, data, at, part, awaiting, abort, terminate>>
  BY DEF ControlEnds, server, machine, flags
<1>2. /\ (Unread(0) => Unread(0)') /\ (Unread(1) => Unread(1)') /\ (Unread(2) => Unread(2)')
      /\ NothingSent' /\ OnlySent'
  BY <1>1 DEF Unread, NothingSent, OnlySent
<1>3. (Running(0) => Running(0)') /\ (Running(1) => Running(1)')
  BY <1>1, <1>2 DEF Running, TransferVerb
<1>4. Awaited' /\ VerbKnown' /\ ControlGone' /\ AbortKnown' /\ DataKnown'
  BY <1>1, <1>2 DEF Known, Awaited, VerbKnown, TransferVerb, ControlGone, AbortKnown, DataKnown
<1>5. CommandDue' /\ TransferDue' /\ LastDue' /\ SecondDue'
  BY <1>1, <1>2, <1>3
     DEF Known, DueAt, CommandDue, TransferDue, LastDue, SecondDue, Asked, AskedTransfer, Aborted
<1>6. ~terminate' => NothingDue' /\ GreetingDue' /\ AbortDue'
  BY <1>1, <1>2
     DEF Known, DueAt, NothingDue, GreetingDue, AbortDue, Quiet, Aborting, AtRest
<1> QED
  BY <1>4, <1>5, <1>6 DEF Known, DueAt

LEMMA ReaderKnown ==
  ASSUME IInv, Known, Tidy, Receive \/ EndOfData
  PROVE  Known'
<1>1. UNCHANGED <<toServer, xfer, replies, ctl, at, part, awaiting, abort, terminate>>
  BY DEF Receive, EndOfData, ReaderOnly, server, control, machine, flags
<1>2. /\ data'.error = data.error /\ data'.shut = data.shut
      /\ data'.ended = data.ended /\ data'.up = data.up
  <2>1. \/ data' = [data EXCEPT !.got = @ + 1, !.event = @ \/ data.op = "none"]
        \/ data' = [data EXCEPT !.eof = TRUE, !.event = data.op # "send"]
    BY Zenon DEF Receive, EndOfData, Tidy
  <2> QED
    BY <2>1 DEF IInv, DataType
<1> QED
  BY <1>1, <1>2, SameKnown

LEMMA UserKnown ==
  ASSUME IInv, ReplyType, Known, Tidy, CtrlC \/ Reopen \/ CloseWindow
  PROVE  Known'
<1>1. CASE CtrlC
  <2>1. /\ UnderWay /\ abort' = TRUE
        /\ UNCHANGED <<toServer, xfer, replies, ctl, data, at, part, awaiting, terminate>>
    BY <1>1 DEF CtrlC, Tidy, UserOnly, server, control, machine
  <2>2. Unread(0)
    BY <2>1 DEF UnderWay, Known, DueAt, LastDue, Running, InTransfer
  <2>3. DueAt'
    BY <2>1, SameDue DEF Known
  <2>4. Awaited' /\ VerbKnown' /\ ControlGone' /\ DataKnown'
    BY <2>1 DEF Known, Awaited, VerbKnown, TransferVerb, ControlGone, DataKnown
  <2>5. AbortKnown'
    BY <2>1, <2>2 DEF AbortKnown, UnderWay, Unread
  <2> QED
    BY <2>3, <2>4, <2>5 DEF Known
<1>2. CASE Reopen \/ CloseWindow
  <2>1. /\ UNCHANGED <<toServer, xfer, replies, ctl, data, at, part, awaiting, abort>>
        /\ terminate => terminate'
    BY <1>2 DEF Reopen, CloseWindow, UserOnly, server, control, machine
  <2> QED
    BY <2>1, SameKnown
<1> QED
  BY <1>1, <1>2

-----------------------------------------------------------------------------
(* Replies: the machine *)

LEMMA AfterReplyPlaces ==
  ASSUME NEW code, at \in Commands \/ at \in {"greeting", "stray", "rest", "final"}
  PROVE  /\ at = "ABOR" => AfterReply(code) = AfterAbor(code)
         /\ at \in Transfers =>
              AfterReply(code) = IF code \div 100 = 1 THEN "accept" ELSE "fail"
         /\ at \notin Transfers \cup {"ABOR"} =>
              /\ AfterReply(code) \notin InTransfer \cup {"rest", "greeting", "ended", "ABOR"}
              /\ AfterReply(code) \in Transfers => AfterReply(code) = TransferVerb /\ at = "PORT"
         /\ at = "final" => AfterReply(code) = IF part = "names" THEN "names" ELSE "done"
         /\ at = "rest" => AfterReply(code) = "fail"
<1> USE DEF Commands, Transfers, LoginCommands, InTransfer
<1>1. /\ AfterLogin(code) \in {"ticket", "USER", "verify", "sorry", "PASS", "password", "account",
                               "top", "refused"}
  BY DEF AfterLogin
<1>2. at \in LoginCommands => AfterReply(code) = AfterLogin(code)
  BY DEF AfterReply
<1>3. at \in Transfers => AfterReply(code) = IF code \div 100 = 1 THEN "accept" ELSE "fail"
  BY DEF AfterReply
<1>4. at = "ABOR" => AfterReply(code) = AfterAbor(code)
  BY DEF AfterReply
<1>5. at = "rest" => AfterReply(code) = "fail"
  BY DEF AfterReply
<1>6. at = "final" => AfterReply(code) = IF part = "names" THEN "names" ELSE "done"
  BY DEF AfterReply
<1>7. at \notin Transfers \cup LoginCommands \cup {"ABOR", "PORT", "rest", "final"} =>
        AfterReply(code) \in {"close", "login", "drain", "local", "connect", "fail", "XCWD",
                              "done", "RNTO"}
  BY DEF AfterReply
<1>8. at = "PORT" => AfterReply(code) \in {"fail", TransferVerb}
  BY DEF AfterReply
<1>9. TransferVerb \in Transfers
  BY DEF TransferVerb
<1> QED
  BY <1>1, <1>2, <1>3, <1>4, <1>5, <1>6, <1>7, <1>8, <1>9

\* A function goes on with no reply due.
LEMMA GoesOn ==
  ASSUME IInv, Known, NEW code, at \in Commands \/ at \in {"greeting", "stray", "rest", "final"},
         at' = AfterReply(code), at' \notin {"accept", "rest"},
         part' = part \/ (at = "ADAT" /\ part' = "kerberos"),
         awaiting' = None, ~terminate' => Quiet', ctl # "open" => ctl' # "open",
         UNCHANGED <<data, abort, terminate>>,
         ctl' # "open" => xfer' = Idle, ctl' = "eof" => replies' = <<>>
  PROVE  Known'
<1>1. /\ at' \notin InTransfer \cup {"rest", "greeting", "ended", "ABOR"}
      /\ at' \in Transfers => at' = TransferVerb /\ at = "PORT"
  BY AfterReplyPlaces, PlacesDiffer DEF AfterAbor, InTransfer, Transfers
<1>2. DueAt'
  BY <1>1, PlacesDiffer
     DEF DueAt, CommandDue, TransferDue, LastDue, SecondDue, NothingDue, GreetingDue,
         AbortDue, AtRest
<1>3. Awaited' /\ VerbKnown' /\ ControlGone'
  BY <1>1 DEF Known, Awaited, VerbKnown, ControlGone, TransferVerb
<1>4. at # "final" => ~abort
  BY PlacesDiffer DEF Known, AbortKnown, InTransfer
<1>5. AbortKnown'
  BY <1>4, AfterReplyPlaces, PlacesDiffer DEF Known, AbortKnown, InTransfer
<1>6. DataKnown'
  <2>1. data.up => /\ at \in Transfers \cup {"final", "rest", "ABOR"}
                   /\ at = "ABOR" => part # "clear"
    BY PlacesDiffer DEF Known, DataKnown, Connected, InTransfer
  <2>2. data.up => at' \in Connected /\ at' \notin {"ABOR", "STOR"} /\ part' = part
    <3>1. at # "ADAT" \/ ~data.up
      BY <2>1 DEF Transfers
    <3>2. CASE at = "ABOR"
      BY <2>1, <3>1, <3>2, AfterReplyPlaces DEF AfterAbor, Connected
    <3>3. CASE at \in Transfers
      BY <2>1, <3>1, <3>3, AfterReplyPlaces DEF Connected
    <3>4. CASE at \in {"final", "rest"}
      BY <2>1, <3>1, <3>4, AfterReplyPlaces, PlacesDiffer DEF Connected, InTransfer
    <3> QED
      BY <2>1, <3>2, <3>3, <3>4
  <2>3. data.ended => data.up
    BY DEF IInv, EndIsEnd
  <2>4. data.shut => part = "put" /\ at = "final"
    BY PlacesDiffer DEF Known, DataKnown
  <2>5. data.shut => part' = "put" /\ at' = "done"
    BY <2>4, AfterReplyPlaces, PlacesDiffer
  <2>6. data.ended => at' \notin {"STOR", "accept", "wait", "send"}
    BY <2>2, <2>3, <1>1 DEF InTransfer
  <2> QED
    BY <2>2, <2>5, <2>6 DEF Known, DataKnown
<1> QED
  BY <1>2, <1>3, <1>5, <1>6 DEF Known

LEMMA CommandKnown == ASSUME IInv, ReplyType, Known, Command PROVE Known'
<1>1. /\ at \in Commands /\ awaiting = None
      /\ UNCHANGED <<xfer, replies, ctl, data, part, abort, terminate>>
  BY DEF Command, control, flags
<1>2. ~abort
  BY <1>1, PlacesDiffer DEF Known, AbortKnown, InTransfer
<1>3. CASE Refused(at)
  <2>1. at' = AfterReply(0) /\ UNCHANGED <<toServer, awaiting>>
    BY <1>3 DEF Command, Goto
  <2>2. at' \notin {"accept", "rest"}
    <3>1. 0 \div 100 # 1
      OBVIOUS
    <3>2. AfterAbor(0) \notin {"accept", "rest"}
      BY DEF AfterAbor
    <3> QED
      BY <1>1, <2>1, <3>1, <3>2, AfterReplyPlaces, PlacesDiffer DEF InTransfer
  <2>3. ~terminate => Quiet
    <3>1. ~terminate => ctl # "open"
      BY <1>2, <1>3 DEF Refused, Stopped
    <3>2. xfer = Idle \/ ctl = "open"
      BY <1>1, PlacesDiffer DEF Known, ControlGone
    <3> QED
      BY <1>1, <3>1, <3>2
         DEF Known, DueAt, NothingDue, AbortDue, Quiet, Aborting, NothingSent
  <2>4. ~terminate' => Quiet'
    BY <1>1, <2>1, <2>3 DEF Quiet, NothingSent, Unread
  <2>5. (ctl' # "open" => xfer' = Idle) /\ (ctl' = "eof" => replies' = <<>>)
    BY <1>1, PlacesDiffer DEF Known, ControlGone
  <2> QED
    BY <1>1, <2>1, <2>2, <2>4, <2>5, GoesOn
<1>4. CASE ~Refused(at)
  <2>1. /\ at' = at /\ awaiting' = sent + 1
        /\ toServer' = Append(toServer, [id |-> sent + 1, verb |-> at])
    BY <1>4 DEF Command
  <2>2. awaiting' # None
    BY <2>1 DEF ReplyType, None
  <2>3. at # "ABOR" => ~terminate
    BY <1>4 DEF Refused, Stopped
  <2>4. NothingSent => OnlySent'
    BY <1>1, <2>1 DEF NothingSent, OnlySent
  <2>5. Unread(0) => Unread(0)'
    BY <1>1 DEF Unread
  <2>6. at # "ABOR" => Asked' /\ AskedTransfer'
    BY <1>1, <2>3, <2>4, <2>5 DEF Known, DueAt, NothingDue, Quiet, Asked, AskedTransfer
  <2>7. at = "ABOR" /\ ~terminate => AbortDue'
    BY <1>1, <2>1, <2>2, <2>4, <2>5 DEF Known, DueAt, AbortDue, Aborting
  <2>8. DueAt'
    BY <1>1, <2>1, <2>2, <2>6, <2>7, PlacesDiffer
       DEF DueAt, CommandDue, TransferDue, LastDue, SecondDue, NothingDue, GreetingDue,
           AbortDue, AtRest
  <2>9. Awaited' /\ VerbKnown' /\ ControlGone' /\ AbortKnown' /\ DataKnown'
    BY <1>1, <1>2, <2>1, <2>3
       DEF Known, Awaited, VerbKnown, TransferVerb, ControlGone, AbortKnown, DataKnown
  <2> QED
    BY <2>8, <2>9 DEF Known
<1> QED
  BY <1>3, <1>4

LEMMA ReadReplyKnown == ASSUME IInv, ReplyType, Known, ReadReply PROVE Known'
<1> DEFINE code == Head(replies).code
<1>1. /\ Reading /\ ~terminate /\ ctl # "eof" /\ replies # <<>>
      /\ at' = AfterReply(code)
      /\ part' = part \/ (at = "ADAT" /\ part' = "kerberos")
      /\ replies' = Tail(replies)
      /\ UNCHANGED <<toServer, xfer, ctl, data, abort, terminate>>
      /\ awaiting' = IF at \in Transfers /\ code \div 100 = 1 THEN awaiting
                     ELSE IF at = "ABOR" /\ AfterAbor(code) = "rest" THEN awaiting ELSE None
  BY DEF ReadReply, Replied, Goto, server, flags
<1>2. /\ at \in Commands \/ at \in {"greeting", "stray", "rest", "final"}
      /\ at \in Commands => awaiting # None
  BY <1>1, PlacesDiffer DEF Reading, InTransfer
<1>3. /\ Unread(0) => ctl # "open" /\ Unread(0)'
      /\ Unread(1) => Unread(0)'
      /\ Unread(2) => Unread(1)' /\ replies'[1] = replies[2]
      /\ Len(replies) > 0 /\ Head(replies) = replies[1]
      /\ Len(replies') = Len(replies) - 1
      /\ \A i \in 1 .. Len(replies') : replies'[i] = replies[i + 1]
  <2>1. Len(replies) > 0 /\ Head(replies) = replies[1]
    BY <1>1 DEF ReplyType
  <2> QED
    BY <1>1, <2>1, UnreadNothing, UnreadTail
<1>4. (NothingSent => NothingSent') /\ (ctl # "open" => xfer = Idle /\ NothingSent')
  BY <1>1, <1>2, PlacesDiffer DEF NothingSent, Known, ControlGone
<1>5. (ctl' # "open" => xfer' = Idle) /\ ctl' # "eof"
  BY <1>1, <1>2, PlacesDiffer DEF Known, ControlGone
<1>6. CASE at \in Commands \ (Transfers \cup {"ABOR"})
  <2>1. Quiet'
    BY <1>1, <1>2, <1>3, <1>4, <1>6 DEF Known, DueAt, CommandDue, Asked, Quiet
  <2> QED
    BY <1>1, <1>2, <1>5, <1>6, <2>1, GoesOn, AfterReplyPlaces, PlacesDiffer DEF InTransfer
<1>7. CASE at \in Transfers /\ code \div 100 # 1
  <2>1. Quiet'
    <3>1. replies[1].code # 150
      BY <1>3, <1>7
    <3> QED
      BY <1>1, <1>2, <1>3, <1>4, <1>7, <3>1, PlacesDiffer
         DEF Known, DueAt, TransferDue, AskedTransfer, Running, Quiet
  <2> QED
    BY <1>1, <1>2, <1>5, <1>7, <2>1, GoesOn, AfterReplyPlaces, PlacesDiffer DEF InTransfer
<1>8. CASE at \in Transfers /\ code \div 100 = 1
  <2>1. at' = "accept" /\ awaiting' = awaiting /\ part' = part
    BY <1>1, <1>2, <1>8, AfterReplyPlaces DEF Transfers
  <2>2. Running(0)'
    <3>1. CASE Unread(0)
      BY <1>1, <1>3, <1>4, <3>1 DEF Running
    <3>2. CASE Running(1)
      <4>1. at # "final"
        BY <1>8 DEF Transfers
      <4>2. CASE /\ NothingSent /\ Unread(1)
                 /\ \/ xfer # Idle /\ xfer.id = awaiting /\ xfer.verb = TransferVerb /\ data.up
                    \/ xfer = Idle /\ ctl # "open"
        BY <1>1, <1>3, <1>4, <2>1, <4>2 DEF Running, TransferVerb
      <4>3. CASE /\ part # "put" /\ xfer = Idle /\ Unread(1 + 1)
                 /\ replies[1 + 1].of = awaiting /\ NothingSent
        <5>1. Unread(0 + 1)' /\ replies'[0 + 1].of = awaiting
          BY <1>3, <4>3
        <5> QED
          BY <1>1, <1>4, <2>1, <4>3, <5>1 DEF Running
      <4> QED
        BY <3>2, <4>1, <4>2, <4>3 DEF Running
    <3> QED
      BY <1>2, <1>3, <1>8, <3>1, <3>2, PlacesDiffer DEF Known, DueAt, TransferDue, AskedTransfer
  <2>3. DueAt'
    BY <1>2, <1>8, <2>1, <2>2, PlacesDiffer
       DEF DueAt, CommandDue, TransferDue, LastDue, SecondDue, NothingDue, GreetingDue,
           AbortDue, AtRest, InTransfer
  <2>4. ~abort /\ ~data.shut
    BY <1>8, PlacesDiffer DEF Known, AbortKnown, DataKnown, InTransfer
  <2>5. part = "put" => at = "STOR"
    BY <1>8 DEF Known, VerbKnown, TransferVerb
  <2>6. Awaited' /\ VerbKnown' /\ ControlGone' /\ AbortKnown' /\ DataKnown'
    BY <1>1, <1>2, <1>5, <1>8, <2>1, <2>4, <2>5, PlacesDiffer
       DEF Known, Awaited, VerbKnown, ControlGone, AbortKnown, DataKnown, InTransfer, Connected
  <2> QED
    BY <2>3, <2>6 DEF Known
<1>9. CASE at = "ABOR" /\ AfterAbor(code) # "rest"
  <2>1. Quiet'
    <3>1. part = "get" => code # 426
      BY <1>9 DEF AfterAbor
    <3> QED
      BY <1>1, <1>2, <1>3, <1>4, <1>9, <3>1 DEF Known, DueAt, AbortDue, Aborting, Quiet, NothingSent
  <2>2. AfterAbor(code) \in {"top", "rest", "fail"}
    BY DEF AfterAbor
  <2> QED
    BY <1>1, <1>2, <1>5, <1>9, <2>1, <2>2, GoesOn, AfterReplyPlaces DEF Transfers
<1>10. CASE at = "ABOR" /\ AfterAbor(code) = "rest"
  <2>1. at' = "rest" /\ awaiting' = awaiting /\ part' = part /\ part = "get"
    BY <1>1, <1>2, <1>10, AfterReplyPlaces DEF AfterAbor, Transfers
  <2>2. Aborted'
    BY <1>1, <1>2, <1>3, <1>4, <1>10, <2>1 DEF Known, DueAt, AbortDue, Aborting, Aborted
  <2>3. DueAt'
    BY <1>2, <1>10, <2>1, <2>2, PlacesDiffer
       DEF DueAt, CommandDue, TransferDue, LastDue, SecondDue, NothingDue, GreetingDue,
           AbortDue, AtRest, InTransfer
  <2>4. ~abort /\ ~data.shut
    BY <1>10 DEF Known, AbortKnown, DataKnown
  <2>5. Awaited' /\ VerbKnown' /\ ControlGone' /\ AbortKnown' /\ DataKnown'
    BY <1>1, <1>2, <1>5, <1>10, <2>1, <2>4, PlacesDiffer
       DEF Known, Awaited, VerbKnown, ControlGone, AbortKnown, DataKnown, Connected
  <2> QED
    BY <2>3, <2>5 DEF Known
<1>11. CASE at \in {"greeting", "stray", "rest", "final"}
  <2>1. Quiet'
    <3>1. CASE at = "greeting"
      <4>1. xfer = Idle /\ NothingSent /\ \A i \in 1 .. Len(replies) : replies[i].of = None
            /\ (Len(replies) > 1 => ctl # "open")
        BY <1>1, <3>1 DEF Known, DueAt, GreetingDue
      <4>2. Unread(0)'
        BY <1>1, <1>3, <4>1 DEF Unread, ReplyType
      <4> QED
        BY <1>1, <1>4, <4>1, <4>2 DEF Quiet
    <3>2. CASE at = "stray"
      BY <1>1, <1>3, <1>4, <3>2
         DEF Known, DueAt, NothingDue, AtRest, Commands, Transfers, LoginCommands, InTransfer, Quiet
    <3>3. CASE at = "rest"
      BY <1>1, <1>3, <1>4, <3>3 DEF Known, DueAt, SecondDue, Aborted, Quiet
    <3>4. CASE at = "final"
      <4>1. Running(0)
        BY <3>4 DEF Known, DueAt, LastDue, InTransfer
      <4>2. Unread(0 + 1) => Unread(0)'
        BY <1>3
      <4>3. Unread(0) => xfer = Idle
        BY <1>3, <1>4
      <4> QED
        BY <1>1, <1>3, <1>4, <4>1, <4>2, <4>3 DEF Running, Quiet
    <3> QED
      BY <1>11, <3>1, <3>2, <3>3, <3>4
  <2>2. at \notin Transfers \cup {"ABOR"}
    BY <1>11 DEF Transfers
  <2> QED
    BY <1>1, <1>2, <1>5, <2>1, <2>2, GoesOn, AfterReplyPlaces DEF InTransfer
<1> QED
  BY <1>2, <1>6, <1>7, <1>8, <1>9, <1>10, <1>11

LEMMA ReadNothingKnown == ASSUME IInv, ReplyType, Known, ReadNothing PROVE Known'
<1>1. /\ Reading /\ at' = AfterReply(EofCode)
      /\ part' = part \/ (at = "ADAT" /\ part' = "kerberos")
      /\ UNCHANGED <<toServer, xfer, replies, data, abort, terminate>>
      /\ ctl' = ctl \/ (ctl = "invalid" /\ ctl' = "eof" /\ replies = <<>>)
      /\ ctl = "eof" \/ terminate \/ ((ctl \in {"invalid", "eof"} \/ abort) /\ replies = <<>>)
      /\ awaiting' = IF at \in Transfers /\ EofCode \div 100 = 1 THEN awaiting
                     ELSE IF at = "ABOR" /\ AfterAbor(EofCode) = "rest" THEN awaiting ELSE None
  BY DEF ReadNothing, Replied, Goto, server, flags, NewCharsReceived
<1>2. at \in Commands \/ at \in {"greeting", "stray", "rest", "final"}
  BY <1>1 DEF Reading
<1>3. EofCode \in {0, 221, 421} /\ EofCode \div 100 # 1 /\ AfterAbor(EofCode) # "rest"
  BY DEF EofCode, AfterAbor
<1>4. at' \notin {"accept", "rest"} /\ awaiting' = None
  <2>1. AfterAbor(EofCode) # "accept"
    BY DEF AfterAbor
  <2> QED
    BY <1>1, <1>2, <1>3, <2>1, AfterReplyPlaces, PlacesDiffer DEF InTransfer
<1>5. at # "ended"
  BY <1>2, PlacesDiffer
<1>6. (ctl # "open" => xfer = Idle) /\ (ctl = "eof" => replies = <<>>)
  BY <1>5 DEF Known, ControlGone
<1>7. abort => ctl # "open"
  BY <1>2, PlacesDiffer DEF Known, AbortKnown, InTransfer
<1>8. ~terminate' => Quiet'
  <2>1. ~terminate => ctl # "open" /\ ctl' # "open" /\ replies = <<>> /\ xfer = Idle
    BY <1>1, <1>6, <1>7
  <2> QED
    BY <1>1, <2>1 DEF Quiet, NothingSent, Unread
<1> QED
  BY <1>1, <1>2, <1>4, <1>6, <1>8, GoesOn

\* Outside the transfers the machine goes from one place at rest to another,
\* to a command, or ends.
Resting == {"login", "ticket", "verify", "sorry", "refused", "top", "drain", "prompt", "close",
            "password", "account", "after", "file", "local", "connect", "names"}

LEMMA QuietSame ==
  ASSUME Quiet, UNCHANGED <<toServer, xfer, replies, ctl>>
  PROVE  Quiet'
BY DEF Quiet, NothingSent, Unread

LEMMA RestingPlaces ==
  /\ Resting \cap (Commands \cup InTransfer \cup {"rest", "greeting", "ended", "done", "fail"}) = {}
BY DEF Resting, Commands, Transfers, LoginCommands, InTransfer

LEMMA FromRest ==
  ASSUME Known, at \in Resting \cup {"done", "fail"}, ~terminate, at # "close"
  PROVE  Quiet
BY PlacesDiffer, RestingPlaces DEF Known, DueAt, NothingDue, AtRest, InTransfer

\* Nothing is due there, nor at the next place.
LEMMA RestKnown ==
  ASSUME IInv, Known, at \in Resting,
         UNCHANGED <<toServer, xfer, replies, ctl, awaiting, abort, terminate>>,
         ~abort,
         at' \in Commands \cup Resting \cup {"stray", "fail"}, at' # "ABOR",
         at = "close" => terminate,
         at' \in Transfers => at' = TransferVerb',
         ~data'.error, ~data'.shut, ~(data'.up /\ data'.ended),
         data'.ended => data'.up,
         data'.up => at' \in Connected
  PROVE  Known'
<1>1. awaiting' = None
  BY RestingPlaces DEF Known, Awaited
<1>2. ~terminate' => Quiet'
  BY FromRest, QuietSame
<1>3. at' \notin InTransfer \cup {"rest", "greeting", "ended"}
  BY RestingPlaces, PlacesDiffer DEF InTransfer
<1>4. DueAt'
  BY <1>1, <1>2, <1>3
     DEF DueAt, CommandDue, TransferDue, LastDue, SecondDue, NothingDue, GreetingDue,
         AbortDue
<1>5. at # "ended"
  BY RestingPlaces
<1>6. Awaited' /\ VerbKnown' /\ ControlGone' /\ AbortKnown' /\ DataKnown'
  BY <1>1, <1>3, <1>5 DEF Known, Awaited, VerbKnown, ControlGone, AbortKnown, DataKnown
<1> QED
  BY <1>4, <1>6 DEF Known

LEMMA RestingData ==
  ASSUME IInv, Known, at \in Resting
  PROVE  /\ ~data.error /\ ~data.shut
         /\ at # "names" => ~data.up /\ ~data.ended
         /\ at # "after" => ~abort
BY RestingPlaces DEF Known, DataKnown, AbortKnown, IInv, EndIsEnd, Connected, Transfers,
  InTransfer, Commands

LEMMA RunKnown ==
  ASSUME IInv, Known,
         \/ Login \/ Ticket \/ Verify \/ RetryConnection \/ LoginFailed
         \/ Top \/ Drain \/ NoCommand \/ CMDGets \/ NextFile
         \/ Prompt("password", "PASS") \/ Prompt("account", "ACCT")
  PROVE  Known'
<1>1. /\ at \in Resting \ {"close", "after", "names"}
      /\ at' \in (Commands \ (Transfers \cup {"ABOR"})) \cup Resting \cup {"stray"}
      /\ UNCHANGED <<toServer, xfer, replies, ctl, data, awaiting, abort, terminate>>
  BY DEF Login, Ticket, Verify, RetryConnection, LoginFailed, Top, Drain, NoCommand, CMDGets,
         NextFile, Prompt, Step, Goto, Stay, MachineOnly, server, control, flags, Parse, Begin,
         Resting, Commands, Transfers, LoginCommands
<1>2. ~data.error /\ ~data.shut /\ ~data.up /\ ~data.ended /\ ~abort
  BY <1>1, RestingData
<1>3. at' # "ABOR" /\ at' \notin Transfers
  BY <1>1, RestingPlaces, PlacesDiffer
<1> QED
  BY <1>1, <1>2, <1>3, RestKnown

LEMMA CloseKnown == ASSUME IInv, Known, Close PROVE Known'
<1>1. /\ at = "close" /\ at' = "ended" /\ ctl' = "eof"
      /\ UNCHANGED <<xfer, data, part, awaiting>>
  BY DEF Close, Goto, Stay, server
<1>2. at \in Resting /\ ~data.error /\ ~data.shut /\ ~data.up /\ awaiting = None
  BY <1>1, RestingData, RestingPlaces DEF Resting, Known, Awaited
<1>3. DueAt'
  BY <1>1, PlacesDiffer
     DEF DueAt, CommandDue, TransferDue, LastDue, SecondDue, NothingDue, GreetingDue,
         AbortDue, AtRest, InTransfer
<1>4. Awaited' /\ VerbKnown' /\ ControlGone' /\ AbortKnown' /\ DataKnown'
  BY <1>1, <1>2, PlacesDiffer DEF Awaited, VerbKnown, ControlGone, AbortKnown, DataKnown
<1> QED
  BY <1>3, <1>4 DEF Known

LEMMA AfterCommandKnown == ASSUME IInv, Known, AfterCommand PROVE Known'
<1>1. /\ at = "after" /\ ~abort'
      /\ UNCHANGED <<toServer, xfer, replies, ctl, data, awaiting, terminate>>
      /\ \/ abort /\ at' = "ABOR" /\ part' = "clear"
         \/ ~abort /\ at' = "top"
  BY DEF AfterCommand, Goto, MachineOnly, server, control
<1>2. at \in Resting /\ ~data.error /\ ~data.shut /\ ~data.up /\ ~data.ended /\ awaiting = None
  BY <1>1, RestingData, RestingPlaces DEF Resting, Known, Awaited
<1>3. ~terminate' => Quiet'
  BY <1>1, <1>2, FromRest, QuietSame
<1>4. abort => ctl # "open"
  BY <1>1 DEF Known, AbortKnown
<1>5. DueAt'
  BY <1>1, <1>2, <1>3, <1>4, PlacesDiffer
     DEF DueAt, CommandDue, TransferDue, LastDue, SecondDue, NothingDue, GreetingDue,
         AbortDue, AtRest, InTransfer, Quiet, Commands, Transfers, LoginCommands
<1>6. Awaited' /\ VerbKnown' /\ ControlGone' /\ AbortKnown' /\ DataKnown'
  BY <1>1, <1>2, PlacesDiffer DEF Known, Awaited, VerbKnown, ControlGone, AbortKnown, DataKnown,
     Transfers
<1> QED
  BY <1>5, <1>6 DEF Known

LEMMA ReturnKnown == ASSUME IInv, Known, Return PROVE Known'
<1>1. /\ at \in {"done", "fail"}
      /\ at' = "after" \/ (at' = "file" /\ ~abort)
      /\ UNCHANGED <<toServer, xfer, replies, ctl, part, abort>>
      /\ data' = NoData /\ awaiting' = None /\ (terminate => terminate')
  BY DEF Return, Goto, Stopped, server, control
<1>2. ~terminate' => Quiet'
  BY <1>1, FromRest, QuietSame
<1>3. at' \in Resting /\ at \notin Commands
  BY <1>1, PlacesDiffer DEF Resting
<1>4. DueAt'
  BY <1>1, <1>2, <1>3, RestingPlaces
     DEF DueAt, CommandDue, TransferDue, LastDue, SecondDue, NothingDue, GreetingDue,
         AbortDue, AtRest, Commands
<1>5. Awaited' /\ VerbKnown' /\ ControlGone' /\ AbortKnown'
  BY <1>1, <1>3, RestingPlaces, PlacesDiffer
     DEF Known, Awaited, VerbKnown, ControlGone, AbortKnown
<1>6. DataKnown'
  BY <1>1 DEF DataKnown, NoData
<1> QED
  BY <1>4, <1>5, <1>6 DEF Known

LEMMA AssignKnown == ASSUME IInv, Known, Assign PROVE Known'
<1>1. /\ at = "local" /\ at' \in {"PASV", "PORT", "fail"}
      /\ UNCHANGED <<toServer, xfer, replies, ctl, awaiting, abort, terminate>>
      /\ data' = data \/ data' = [data EXCEPT !.op = Op]
  BY DEF Assign, DataStep, Goto, Stay, server, control, flags
<1>2. ~data.error /\ ~data.shut /\ ~data.up /\ ~data.ended /\ ~abort /\ at \in Resting
  BY <1>1, RestingData DEF Resting
<1>3. ~data'.error /\ ~data'.shut /\ ~data'.up /\ ~data'.ended
  BY <1>1, <1>2 DEF IInv, DataType
<1>4. at' \in Commands \cup {"fail"} /\ at' \notin Transfers /\ at' # "ABOR"
  BY <1>1 DEF Commands, Transfers
<1> QED
  BY <1>1, <1>2, <1>3, <1>4, RestKnown

LEMMA ConnectKnown == ASSUME IInv, Known, Connect PROVE Known'
<1>1. /\ at = "connect"
      /\ UNCHANGED <<toServer, xfer, replies, ctl, part, awaiting, abort, terminate>>
      /\ \/ at' = TransferVerb /\ data' = [data EXCEPT !.up = TRUE]
         \/ at' = "fail" /\ data' = data
  BY DEF Connect, DataStep, Goto, Stay, server, control, flags
<1>2. ~data.error /\ ~data.shut /\ ~data.up /\ ~data.ended /\ ~abort /\ at \in Resting
  BY <1>1, RestingData DEF Resting
<1>3. TransferVerb \in Transfers /\ TransferVerb' = TransferVerb
  BY <1>1 DEF TransferVerb, Transfers
<1>4. ~data'.error /\ ~data'.shut /\ ~data'.ended /\ (data'.up => at' \in Transfers)
  BY <1>1, <1>2, <1>3 DEF IInv, DataType
<1>5. at' \in Commands \cup {"fail"} /\ at' # "ABOR" /\ (at' \in Transfers => at' = TransferVerb')
  BY <1>1, <1>3, PlacesDiffer DEF Commands, Transfers
<1> QED
  BY <1>1, <1>2, <1>4, <1>5, RestKnown DEF Connected

LEMMA ReadNamesKnown == ASSUME IInv, Known, ReadNames PROVE Known'
<1>1. /\ at = "names"
      /\ UNCHANGED <<toServer, xfer, replies, ctl, awaiting, abort, terminate>>
      /\ \/ at' = "file" /\ data' = NoData
         \/ at' = "fail" /\ data' = data
  BY DEF ReadNames, DataStep, Goto, Stay, server, control, flags
<1>2. ~data.error /\ ~data.shut /\ ~abort /\ at \in Resting
  BY <1>1, RestingData DEF Resting
<1>3. CASE at' = "file" /\ data' = NoData
  <2>1. ~data'.error /\ ~data'.shut /\ ~data'.ended /\ ~data'.up
    BY <1>3 DEF NoData
  <2> QED
    BY <1>1, <1>2, <1>3, <2>1, RestingPlaces, RestKnown DEF Resting, Commands
<1>4. CASE at' = "fail" /\ data' = data
  <2>1. ~terminate' => Quiet'
    BY <1>1, <1>2, FromRest, QuietSame
  <2>2. awaiting = None /\ at' \notin Commands
    BY <1>1, <1>2, <1>4, RestingPlaces, PlacesDiffer DEF Known, Awaited
  <2>3. DueAt'
    BY <1>1, <1>4, <2>1, <2>2
       DEF DueAt, CommandDue, TransferDue, LastDue, SecondDue, NothingDue, GreetingDue,
           AbortDue, AtRest, Commands, InTransfer
  <2>4. Awaited' /\ VerbKnown' /\ ControlGone' /\ AbortKnown' /\ DataKnown'
    BY <1>1, <1>2, <1>4, <2>2, PlacesDiffer
       DEF Known, Awaited, VerbKnown, ControlGone, AbortKnown, DataKnown, Connected
  <2> QED
    BY <2>3, <2>4 DEF Known
<1> QED
  BY <1>1, <1>3, <1>4

-----------------------------------------------------------------------------
(* Replies: transfers under way *)

\* The machine goes on while the last reply is due.
LEMMA StillRunning ==
  ASSUME Known, at \in InTransfer, at' \in InTransfer,
         UNCHANGED <<toServer, xfer, replies, ctl, part, awaiting, abort, terminate>>,
         data.up => data'.up, part = "put" /\ at = "final" => at' = "final"
  PROVE  DueAt' /\ Awaited' /\ VerbKnown' /\ ControlGone'
<1>1. (Unread(0) => Unread(0)') /\ (Unread(1) => Unread(1)') /\ (NothingSent => NothingSent')
  BY DEF Unread, NothingSent
<1>2. Running(0)' /\ awaiting' # None
  BY <1>1 DEF Known, DueAt, LastDue, Running, TransferVerb
<1>3. at' \notin Commands \cup {"rest", "greeting", "ended"} /\ at # "ended"
  BY PlacesDiffer DEF InTransfer
<1>4. DueAt'
  BY <1>2, <1>3, PlacesDiffer
     DEF DueAt, CommandDue, TransferDue, LastDue, SecondDue, NothingDue, GreetingDue,
         AbortDue, AtRest
<1>5. Awaited' /\ VerbKnown' /\ ControlGone'
  BY <1>3, PlacesDiffer DEF Known, Awaited, VerbKnown, ControlGone
<1> QED
  BY <1>4, <1>5

LEMMA AcceptKnown == ASSUME IInv, Known, Accept PROVE Known'
<1>1. /\ at = "accept" /\ at' = IF part = "put" THEN "send" ELSE "wait"
      /\ data' = [data EXCEPT !.reading = TRUE]
      /\ UNCHANGED <<toServer, xfer, replies, ctl, part, awaiting, abort, terminate>>
  BY DEF Accept, DataStep, Goto, Stay, server, control, flags
<1>2. /\ data'.error = data.error /\ data'.shut = data.shut
      /\ data'.ended = data.ended /\ data'.up = data.up
  BY <1>1 DEF IInv, DataType
<1>3. DueAt' /\ Awaited' /\ VerbKnown' /\ ControlGone'
  BY <1>1, <1>2, StillRunning DEF InTransfer
<1>4. AbortKnown' /\ DataKnown'
  BY <1>1, <1>2 DEF Known, AbortKnown, DataKnown, Connected, InTransfer
<1> QED
  BY <1>3, <1>4 DEF Known

LEMMA SendBlockKnown == ASSUME IInv, Known, SendBlock PROVE Known'
<1>1. /\ at = "send" /\ at' = "send"
      /\ data' = [data EXCEPT !.sent = @ + 1]
      /\ UNCHANGED <<toServer, xfer, replies, ctl, part, awaiting, abort, terminate>>
  BY DEF SendBlock, DataStep, Goto, Stay, server, control, flags
<1>2. /\ data'.error = data.error /\ data'.shut = data.shut
      /\ data'.ended = data.ended /\ data'.up = data.up
  BY <1>1 DEF IInv, DataType
<1> QED
  BY <1>1, <1>2, SameKnown

LEMMA SendEndsKnown == ASSUME IInv, Known, SendEnds PROVE Known'
<1>1. /\ at = "send" /\ at' = "final" /\ ~Stopped
      /\ data' = [data EXCEPT !.shut = TRUE]
      /\ UNCHANGED <<toServer, xfer, replies, ctl, part, awaiting, abort, terminate>>
  BY DEF SendEnds, DataStep, Goto, Stay, server, control, flags
<1>2. /\ data'.error = data.error /\ data'.ended = data.ended /\ data'.up = data.up
  BY <1>1 DEF IInv, DataType
<1>3. DueAt' /\ Awaited' /\ VerbKnown' /\ ControlGone'
  BY <1>1, <1>2, StillRunning DEF InTransfer
<1>4. part = "put"
  BY <1>1 DEF IInv, PartKnown
<1>5. AbortKnown' /\ DataKnown'
  BY <1>1, <1>2, <1>4 DEF Known, AbortKnown, DataKnown, Connected, InTransfer, Stopped
<1> QED
  BY <1>3, <1>5 DEF Known

LEMMA TransferDoneKnown == ASSUME IInv, Known, TransferDone PROVE Known'
<1>1. /\ at = "wait" /\ data.event /\ at' = IF data.error THEN "fail" ELSE "final"
      /\ UNCHANGED <<toServer, xfer, replies, ctl, data, part, awaiting, abort, terminate>>
  BY DEF TransferDone, DataStep, Goto, Stay, server, control, flags
<1>2. at' = "final"
  BY <1>1 DEF Known, DataKnown
<1>3. DueAt' /\ Awaited' /\ VerbKnown' /\ ControlGone'
  BY <1>1, <1>2, StillRunning DEF InTransfer
<1>4. abort => part = "get" /\ ctl # "open"
  <2>1. part = "get" => data.op = "file"
    BY <1>1 DEF IInv, Assigned, Op, Ready
  <2>2. part = "get" => data.ended
    BY <1>1, <2>1 DEF Known, DataKnown, IInv, EndIsEnd
  <2> QED
    BY <1>1, <2>2 DEF Known, AbortKnown
<1>5. AbortKnown' /\ DataKnown'
  BY <1>1, <1>2, <1>4 DEF Known, AbortKnown, DataKnown, Connected, InTransfer
<1> QED
  BY <1>3, <1>5 DEF Known

LEMMA TransferStoppedKnown == ASSUME IInv, Known, TransferStopped PROVE Known'
<1>1. /\ at = "wait" /\ at' = (IF part = "get" THEN "ABOR" ELSE "fail")
      /\ abort \/ terminate
      /\ awaiting' = None /\ (abort' => abort /\ part # "get")
      /\ UNCHANGED <<toServer, xfer, replies, ctl, data, part, terminate>>
  BY DEF TransferStopped, Goto, MachineOnly, server, control
<1>2. abort => part = "get" /\ Unread(0) /\ (ctl = "open" => xfer # Idle)
  BY <1>1 DEF Known, AbortKnown
<1>3. ~abort'
  BY <1>1, <1>2
<1>4. NothingSent
  BY <1>1 DEF Known, DueAt, LastDue, Running, InTransfer
<1>5. ~terminate => part = "get" /\ Aborting'
  BY <1>1, <1>2, <1>4 DEF Aborting, NothingSent, Unread
<1>6. DueAt'
  BY <1>1, <1>5, PlacesDiffer
     DEF DueAt, CommandDue, TransferDue, LastDue, SecondDue, NothingDue, GreetingDue,
         AbortDue, AtRest, InTransfer
<1>7. Awaited' /\ VerbKnown' /\ ControlGone' /\ AbortKnown' /\ DataKnown'
  BY <1>1, <1>3, PlacesDiffer
     DEF Known, Awaited, VerbKnown, ControlGone, AbortKnown, DataKnown, Connected, Transfers
<1> QED
  BY <1>6, <1>7 DEF Known

LEMMA SendFailsKnown == ASSUME IInv, Known, SendFails PROVE Known'
<1>1. /\ at = "send" /\ at' = "fail" /\ (Stopped \/ data.ended)
      /\ UNCHANGED <<toServer, xfer, replies, ctl, data, part, awaiting, abort, terminate>>
  BY DEF SendFails, DataStep, Goto, Stay, server, control, flags
<1>2. part = "put" /\ ~abort
  BY <1>1 DEF IInv, PartKnown, Known, AbortKnown
<1>3. ~terminate => Quiet
  <2>1. ~terminate => ctl # "open" /\ xfer = Idle
    BY <1>1, <1>2 DEF Known, DataKnown, ControlGone, Stopped
  <2> QED
    BY <1>1, <1>2, <2>1 DEF Known, DueAt, LastDue, Running, InTransfer, Quiet
<1>4. ~terminate' => Quiet'
  BY <1>1, <1>3, QuietSame
<1>5. DueAt'
  BY <1>1, <1>4, PlacesDiffer
     DEF DueAt, CommandDue, TransferDue, LastDue, SecondDue, NothingDue, GreetingDue,
         AbortDue, AtRest, InTransfer
<1>6. Awaited' /\ VerbKnown' /\ ControlGone' /\ AbortKnown' /\ DataKnown'
  BY <1>1, <1>2, PlacesDiffer
     DEF Known, Awaited, VerbKnown, ControlGone, AbortKnown, DataKnown, Connected
<1> QED
  BY <1>5, <1>6 DEF Known

-----------------------------------------------------------------------------

LEMMA KnownStep == ASSUME IInv, ReplyType, Known, Tidy, Next PROVE Known'
<1>1. CASE Machine
  BY <1>1, CommandKnown, ReadReplyKnown, ReadNothingKnown, RunKnown, CloseKnown,
     AfterCommandKnown, ReturnKnown, AssignKnown, ConnectKnown, ReadNamesKnown, AcceptKnown,
     TransferDoneKnown, TransferStoppedKnown, SendBlockKnown, SendFailsKnown, SendEndsKnown
     DEF Machine
<1>2. CASE Server
  BY <1>2, AnswerKnown, StartTransferKnown, SendsKnown, EndsDataKnown, FinishesKnown,
     AbortsTransferKnown DEF Server
<1>3. CASE Drops \/ ControlEnds \/ Receive \/ EndOfData
  BY <1>3, DropsKnown, ControlEndsKnown, ReaderKnown
<1>4. CASE CMDGets \/ CtrlC \/ Answers \/ Reopen \/ CloseWindow
  BY <1>4, RunKnown, UserKnown DEF Answers
<1> QED
  BY <1>1, <1>2, <1>3, <1>4 DEF Next

LEMMA RInvStep == ASSUME IInv, RInv, [Next]_vars PROVE RInv'
<1>1. ReplyType'
  BY ReplyTypeStep DEF RInv
<1>2. session' = session
  BY DEF Next, Machine, Server, vars, Command, ReadReply, ReadNothing, Replied, Login, Ticket,
         Verify, RetryConnection, LoginFailed, Top, Drain, NoCommand, AfterCommand, Close,
         NextFile, Return, Assign, Connect, Accept, TransferDone, TransferStopped, ReadNames,
         SendBlock, SendFails, SendEnds, Prompt, Step, MachineOnly, DataStep, ControlEnds,
         Receive, EndOfData, ReaderOnly, CMDGets, CtrlC, Answers, Reopen, CloseWindow, UserOnly,
         Answer, StartTransfer, Sends, EndsData, Finishes, AbortsTransfer, Drops, ServerOnly
<1>3. Tidy' => Tidy
  BY <1>2 DEF Tidy
<1>4. CASE UNCHANGED vars
  BY <1>1, <1>3, <1>4, SameKnown DEF RInv, vars, server, control, machine, flags
<1>5. CASE Next
  BY <1>1, <1>3, <1>5, KnownStep DEF RInv
<1> QED
  BY <1>4, <1>5

\* The invariant that RepliesMatched rests on.
THEOREM RInvAlways == Spec => []RInv
BY InitReplies, RInvStep, IInvAlways, PTL DEF Spec

\* FTPControlStream::Command and GetReply with the functions of FTPWorker: in
\* a session in which no function returns early, no command takes the reply to
\* another for its own, in whatever order the user aborts, the server answers
\* and the connection is lost.
THEOREM RepliesMatch == Spec => []RepliesMatched
<1>1. RInv => RepliesMatched
  <2> SUFFICES ASSUME RInv, Tidy, replies # <<>>, Head(replies).of # None
               PROVE  /\ Reading /\ at \notin {"ABOR", "stray", "greeting"} =>
                           Head(replies).of = awaiting
                      /\ at \in {"prompt", "drain", "stray"} => abort \/ terminate
    BY DEF RepliesMatched
  <2>1. ~Unread(0) /\ Head(replies) = replies[1]
    BY UnreadNothing DEF RInv, ReplyType
  <2>2. ASSUME Reading, at \notin {"ABOR", "stray", "greeting"} PROVE replies[1].of = awaiting
    <3>1. CASE at \in Commands /\ awaiting # None
      BY <2>1, <2>2, <3>1
         DEF RInv, Known, DueAt, CommandDue, TransferDue, Asked, AskedTransfer
    <3>2. CASE at = "rest"
      BY <2>1, <3>2 DEF RInv, Known, DueAt, SecondDue, Aborted
    <3>3. CASE at = "final"
      <4>1. Running(0)
        BY <3>3 DEF RInv, Known, DueAt, LastDue, InTransfer
      <4> QED
        BY <2>1, <4>1 DEF Running
    <3> QED
      BY <2>2, <3>1, <3>2, <3>3 DEF Reading
  <2>3. at \in {"prompt", "drain", "stray"} => terminate
    BY <2>1, PlacesDiffer, RestingPlaces
       DEF RInv, Known, DueAt, NothingDue, AtRest, Quiet, Resting, InTransfer
  <2> QED
    BY <2>1, <2>2, <2>3
<1> QED
  BY <1>1, RInvAlways, PTL

-----------------------------------------------------------------------------
(* Seals: S is the machine of FtpSecurity.  The two directions are checked   *)
(* one after the other: that of the server by AssignSecurity (Opened), that  *)
(* of the program by the reply to USER or PASS, since a server that cannot   *)
(* read refuses (Heard).  Between the two the program is not yet logged in.  *)

Private == {"KAUTH", "TICKET"}

Inside == {"in", "told", "kauthpass", "KLIST", "KDESTROY", "AFSLOG"} \cup Private
After  == Inside \cup {"name", "password", "account", "USER", "PASS", "ACCT"}
Before == {"login", "AUTH", "ticket", "dialog", "have", "ADAT", "sorry"}

SealHandler == [kind : {"none", "plain", "krb4"}, level : {"none", "safe"}, key : Nat, from : Nat]
TicketPair == [tgt : Nat, svc : Nat, nat : Nat, key : Nat]
Peer  == [mech : BOOLEAN, key : Nat, did : BOOLEAN]

SealTypes ==
  /\ sealed \in SealedSession
  /\ place \in Before \cup After \cup {"refused", "closed"}
  /\ sec \in SealHandler
  /\ tickets \in TicketPair /\ srv \in Peer
  /\ out \in S!Commands \cup {Nothing} /\ in \in S!Replies \cup {Nothing}

\* A command, then its reply, and nothing else.
OneTurn ==
  /\ place \in S!Verbs => (out # Nothing /\ in = Nothing) \/ (out = Nothing /\ in # Nothing)
  /\ place \notin S!Verbs => out = Nothing /\ in = Nothing
  /\ out # Nothing => out.verb = place

\* The program opens what the server seals.
Opened ==
  /\ S!krb_equiv(sealed.speaks, sealed.server)
  /\ S!lsb_time(sealed.speaks, sealed.seen, FALSE, 0) = S!Signed(sealed.server, sec.from)
  /\ srv.key = sec.key

Safe == S!krb_mk_safe(sec.key, sec.from, S!Signed(sec.from, sealed.server))
Priv == S!krb_mk_priv(sec.key, sec.from, S!Signed(sec.from, sealed.server))

\* The server opens what the program seals.
Heard == S!Reads(Safe)

OurSeal(verb) == IF ~S!IsAuthenticated(sec) THEN S!Plain ELSE IF verb \in Private THEN Priv ELSE Safe

\* The stream gets a handler once; there is a retry only before that.
Handlers ==
  /\ stream \in {"own", "worker"}
  /\ place \in Before => stream = "own"
  /\ retry # "abort" => place = "refused" /\ stream = "own"
  /\ place \in After => stream = "worker" /\ (S!IsAuthenticated(sec) \/ sec.kind = "plain")
  /\ place \in Private \cup {"kauthpass"} => S!IsAuthenticated(sec)
  /\ S!IsAuthenticated(sec) => stream = "worker" /\ sec.kind = "krb4" /\ Opened
  /\ place \in {"ticket", "dialog", "have", "ADAT"} => sec.kind = "krb4"
  /\ S!IsAuthenticated(sec) \/ place = "ADAT" => (sec.from # sealed.own => passive)

UnderSeal(reply) ==
  \/ reply.seal = S!Plain
  \/ S!IsAuthenticated(sec) /\ reply.seal \in {S!Seal("safe", sec.key), S!Seal("private", sec.key)}

Exchange ==
  /\ place = "ADAT" /\ in # Nothing /\ in.code = 2 => in.data = S!Seal("safe", srv.key)
  /\ place \in After /\ out # Nothing => out.seal = OurSeal(place)
  /\ place \in After /\ in # Nothing => UnderSeal(in)
  /\ place \in {"USER", "PASS", "ACCT"} /\ in # Nothing /\ in.code # 5 /\ S!IsAuthenticated(sec) => Heard
  /\ place \in Inside /\ S!IsAuthenticated(sec) => Heard

\* The server has not done yet what it is asked for, and says so when it has.
Honest ==
  /\ place \in Inside /\ out # Nothing => ~srv.did
  /\ place = "kauthpass" => ~srv.did
  /\ place = "KAUTH" /\ in # Nothing => ~srv.did
  /\ place \in {"TICKET", "KLIST", "KDESTROY", "AFSLOG"} /\ in # Nothing => (srv.did <=> in.code = 2)

SealInv == SealTypes /\ OneTurn /\ Handlers /\ Exchange /\ Honest /\ S!ToldIsTrue

-----------------------------------------------------------------------------
(* Seals and types *)

LEMMA DirectionType ==
  ASSUME NEW a, NEW b, NEW r, NEW f
  PROVE  S!lsb_time(a, b, r, f) \in {-1, 0, 1}
<1> DEFINE less(x, y) == S!krb_lsb_antinet_ulong_less(x, y)
           dir == IF less(a, b) THEN -1 ELSE 1
           outside == f # 0 /\ less(a, b) /\ (less(f, a) \/ less(b, f))
<1>1. dir = -1 \/ dir = 1
  OBVIOUS
<1>2. S!lsb_time(a, b, r, f) = dir \/ S!lsb_time(a, b, r, f) = -dir
  BY Zenon DEF S!lsb_time
<1> QED
  BY <1>1, <1>2

LEMMA SessionFacts ==
  ASSUME S!SecurityAssumption, SealTypes
  PROVE  /\ Nothing \notin S!Commands /\ Nothing \notin S!Replies
         /\ sealed.own \in Nat /\ sealed.seen \in Nat /\ sealed.was \in Nat
         /\ sealed.server \in Nat /\ sealed.speaks \in Nat
         /\ sealed.mech \in BOOLEAN /\ sealed.afs \in BOOLEAN
         /\ sealed.foreign \in BOOLEAN /\ sealed.willing \in BOOLEAN
<1>1. sealed \in SealedSession
  BY DEF SealTypes
<1>2. /\ {sealed.own, sealed.seen, sealed.was, sealed.server, sealed.speaks} \subseteq Nat \ {0}
      /\ sealed.was # sealed.seen
  BY <1>1 DEF S!SecurityAssumption
<1>3. {sealed.nat, sealed.reverse, sealed.lenient, sealed.mech, sealed.afs, sealed.foreign,
       sealed.willing} \subseteq BOOLEAN
  BY <1>1, Zenon DEF S!SecurityAssumption
<1>4. /\ sealed.mech \in BOOLEAN /\ sealed.afs \in BOOLEAN
      /\ sealed.foreign \in BOOLEAN /\ sealed.willing \in BOOLEAN
  BY <1>3, Zenon
<1> QED
  BY <1>2, <1>4 DEF S!SecurityAssumption

LEMMA PlainType == S!Plain \in S!Seals
BY DEF S!Plain, S!Seals

LEMMA HandlerType ==
  /\ S!NoHandler \in SealHandler /\ S!FTPSecure \in SealHandler /\ S!FTPSecureKRB4 \in SealHandler
  /\ S!NoHandler.level = "none" /\ S!FTPSecure.level = "none" /\ S!FTPSecureKRB4.level = "none"
  /\ S!FTPSecure.kind = "plain" /\ S!FTPSecureKRB4.kind = "krb4"
BY DEF S!NoHandler, S!FTPSecure, S!FTPSecureKRB4, SealHandler

LEMMA EncodeType ==
  ASSUME S!SecurityAssumption, SealTypes, NEW verb \in S!Verbs, NEW sl \in {"default", "private"}
  PROVE  /\ S!Encode(verb, sl) \in S!Commands
         /\ S!Encode(verb, sl).verb = verb /\ S!Encode(verb, sl).data = S!Plain
<1> DEFINE h == S!security
           level == IF h.kind = "plain" THEN "none" ELSE IF sl = "default" THEN h.level ELSE sl
           dir == S!Signed(h.from, sealed.server)
           seal == CASE level = "none"    -> S!Plain
                     [] level = "safe"    -> S!krb_mk_safe(h.key, h.from, dir)
                     [] level = "private" -> S!krb_mk_priv(h.key, h.from, dir)
<1>1. h.key \in Nat /\ h.from \in Nat /\ h.level \in {"none", "safe"}
  BY HandlerType DEF SealTypes, S!security, SealHandler
<1>2. dir \in {-1, 0, 1}
  BY DirectionType DEF S!Signed
<1>3. level \in {"none", "safe", "private"}
  BY <1>1
<1>4. seal \in S!Seals
  BY <1>1, <1>2, <1>3, PlainType DEF S!Seals, S!krb_mk_safe, S!krb_mk_priv
<1>5. S!Encode(verb, sl) = [verb |-> verb, data |-> S!Plain, seal |-> seal]
  BY DEF S!Encode
<1> HIDE DEF seal
<1> QED
  BY <1>4, <1>5, PlainType DEF S!Commands

LEMMA SealType ==
  ASSUME S!SecurityAssumption, SealTypes, NEW type \in {"plain", "safe", "private"}, NEW key \in Nat
  PROVE  S!Seal(type, key) \in S!Seals
<1>1. S!lsb_time(sealed.speaks, sealed.seen, FALSE, 0) \in {-1, 0, 1}
  BY DirectionType
<1>2. sealed.speaks \in Nat
  BY SessionFacts
<1> QED
  BY <1>1, <1>2, PlainType DEF S!Seal, S!Seals, S!krb_mk_safe, S!krb_mk_priv

LEMMA WithData ==
  ASSUME NEW cmd \in S!Commands, NEW d \in S!Seals
  PROVE  /\ [cmd EXCEPT !.data = d] \in S!Commands
         /\ [cmd EXCEPT !.data = d].verb = cmd.verb
         /\ [cmd EXCEPT !.data = d].seal = cmd.seal
         /\ [cmd EXCEPT !.data = d].data = d
BY DEF S!Commands

LEMMA AdatSent ==
  ASSUME S!SecurityAssumption, SealTypes, S!Authenticate
  PROVE  place' = "ADAT" /\ out' \in S!Commands /\ out'.verb = "ADAT"
<1> DEFINE cmd == S!Encode("ADAT", "default")
           d == [S!Plain EXCEPT !.key = tickets.key, !.from = tickets.svc]
<1>1. cmd \in S!Commands /\ cmd.verb = "ADAT"
  BY EncodeType DEF S!Verbs
<1>2. d \in S!Seals
  BY PlainType DEF SealTypes, S!Seals, TicketPair
<1>3. out' = [cmd EXCEPT !.data = d] /\ place' = "ADAT"
  BY DEF S!Authenticate
<1> HIDE DEF cmd, d
<1> QED
  BY <1>1, <1>2, <1>3, WithData

\* What RemoteKauth has made of the password
Opener(right) == IF right /\ S!Opens THEN [S!Plain EXCEPT !.key = 1] ELSE S!Plain

LEMMA TicketSent ==
  ASSUME S!SecurityAssumption, SealTypes, S!Prompted, place' = "TICKET"
  PROVE  /\ out' \in S!Commands /\ out'.verb = "TICKET"
         /\ out'.seal = S!Encode("TICKET", "private").seal
         /\ out'.data # S!Plain \/ ~sealed.willing \/ ~S!Opens
<1> DEFINE cmd == S!Encode("TICKET", "private")
<1>1. cmd \in S!Commands /\ cmd.verb = "TICKET"
  BY EncodeType DEF S!Verbs
<1>2. \A right : Opener(right) \in S!Seals
  BY PlainType DEF Opener, S!Seals
<1>3. PICK right \in {TRUE, sealed.willing} : place' = "TICKET" /\ out' = [cmd EXCEPT !.data = Opener(right)]
  BY DEF S!Prompted, S!Tell, Opener
<1>4. [S!Plain EXCEPT !.key = 1] # S!Plain
  BY DEF S!Plain
<1>5. sealed.willing /\ S!Opens => Opener(right) # S!Plain
  BY <1>3, <1>4, Zenon DEF Opener
<1> HIDE DEF cmd
<1>6. cmd.seal = S!Encode("TICKET", "private").seal
  BY DEF cmd
<1> QED
  BY <1>1, <1>2, <1>3, <1>5, <1>6, WithData

LEMMA ServeType ==
  ASSUME S!SecurityAssumption, SealTypes, S!Serve
  PROVE  out \in S!Commands /\ in' \in S!Replies /\ srv' \in Peer
<1>t. srv \in Peer /\ out \in S!Commands \cup {Nothing} /\ sealed.mech \in BOOLEAN
  BY SessionFacts DEF SealTypes
<1>1. PICK cmd \in S!Commands : cmd = out
  BY <1>t DEF S!Serve
<1>2. /\ cmd.verb \in S!Verbs /\ cmd.seal.type \in {"plain", "safe", "private"}
      /\ cmd.data.key \in Nat
  BY DEF S!Commands, S!Seals
<1>3. srv.key \in Nat /\ S!Plain \in S!Seals
  BY <1>t, PlainType DEF Peer
<1>4. \A type \in {"plain", "safe", "private"}, code \in Nat :
        S!Says(type, code) => in' \in S!Replies
  BY <1>3, SealType DEF S!Says, S!Replies
<1>5. \A code \in Nat : in' = [code |-> code, seal |-> S!Plain, data |-> S!Seal("safe", cmd.data.key)]
                          => in' \in S!Replies
  BY <1>2, <1>3, SealType DEF S!Replies
<1>6. S!Codes(cmd.verb) \subseteq Nat
  BY DEF S!Codes
<1>7. in' \in S!Replies
  BY <1>1, <1>2, <1>4, <1>5, <1>6 DEF S!Serve
<1>8. srv' \in Peer
  <2>1. [srv EXCEPT !.mech = sealed.mech, !.key = 0] \in Peer
    BY <1>t DEF Peer
  <2>2. [srv EXCEPT !.key = cmd.data.key] \in Peer
    BY <1>t, <1>2 DEF Peer
  <2>3. \A code : [srv EXCEPT !.did = code = 2] \in Peer
    BY <1>t DEF Peer
  <2>4. \A code : [srv EXCEPT !.did = code = 2 /\ cmd.verb \notin {"USER", "PASS", "ACCT"}] \in Peer
    BY <1>t DEF Peer
  <2> QED
    BY <1>t, <1>1, <2>1, <2>2, <2>3, <2>4 DEF S!Serve
<1> QED
  BY <1>1, <1>7, <1>8

Places == Before \cup After \cup {"refused", "closed"}

LEMMA SealTypesStep == S!SecurityAssumption /\ SealTypes /\ [S!Next]_S!vars => SealTypes'
<1> SUFFICES ASSUME S!SecurityAssumption, SealTypes, [S!Next]_S!vars PROVE SealTypes'
  OBVIOUS
<1> SUFFICES /\ sealed' = sealed
             /\ place' \in Places /\ sec' \in SealHandler /\ tickets' \in TicketPair
             /\ srv' \in Peer /\ out' \in S!Commands \cup {Nothing} /\ in' \in S!Replies \cup {Nothing}
  BY DEF SealTypes, Places
<1>t. /\ place \in Places /\ sec \in SealHandler /\ tickets \in TicketPair
      /\ srv \in Peer /\ out \in S!Commands \cup {Nothing} /\ in \in S!Replies \cup {Nothing}
  BY DEF SealTypes, Places
<1>e. \A verb \in S!Verbs, sl \in {"default", "private"} : S!Encode(verb, sl) \in S!Commands
  BY EncodeType
<1>s. /\ sealed.mech \in BOOLEAN /\ sealed.own \in Nat /\ sealed.seen \in Nat /\ sealed.was \in Nat
      /\ sealed.server \in Nat /\ sealed.speaks \in Nat
  BY SessionFacts
<1>0. CASE UNCHANGED S!vars
  BY <1>0, <1>t DEF S!vars, S!machine
<1>1. CASE S!Login
  BY <1>1, <1>t, <1>e, HandlerType DEF S!Login, S!machine, S!Replied, S!UserAnd, S!OnlyAt, S!Tell, S!Goto, S!Command,
     Places, Before, After, Inside, Private, S!Verbs
<1>2. CASE S!GetSecurityHandler
  BY <1>2, <1>t, <1>e, HandlerType DEF S!GetSecurityHandler, S!machine, S!Replied, S!UserAnd, S!OnlyAt, S!Tell, S!Goto, S!Command,
     Places, Before, After, Inside, Private, S!Verbs
<1>3. CASE S!MakeAuth
  <2>1. tickets' \in TicketPair
    <3>1. [tickets EXCEPT !.svc = sealed.seen, !.key = @ + 1] \in TicketPair
      <4>1. tickets.key + 1 \in Nat
        BY <1>t DEF TicketPair
      <4>2. [tickets EXCEPT !.svc = sealed.seen, !.key = tickets.key + 1] \in TicketPair
        BY <4>1, <1>t, <1>s DEF TicketPair
      <4> QED
        BY <4>2, <1>t DEF TicketPair
    <3> QED
      BY <1>3, <1>t, <3>1 DEF S!MakeAuth
  <2>2. place' \in Places /\ out' = out
    BY <1>3 DEF S!MakeAuth, S!Goto, Places, Before
  <2> QED
    BY <1>3, <1>t, <2>1, <2>2 DEF S!MakeAuth, S!UserAnd
<1>4. CASE S!Authenticate
  <2>1. sec' \in SealHandler
    BY <1>4, <1>t, <1>s DEF S!Authenticate, SealHandler, TicketPair
  <2> QED
    BY <1>4, <1>t, <2>1, AdatSent DEF S!Authenticate, S!UserAnd, Places, Before
<1>5. CASE S!Authenticated
  BY <1>5, <1>t DEF S!Authenticated, S!AssignSecurity, S!SetSecureLevel, SealHandler, S!machine, S!Replied, S!UserAnd, S!OnlyAt, S!Tell, S!Goto, S!Command,
     Places, Before, After, Inside, Private, S!Verbs
<1>6. CASE S!Name
  BY <1>6, <1>t, <1>e, HandlerType DEF S!Name, S!Named, S!machine, S!Replied, S!UserAnd, S!OnlyAt, S!Tell, S!Goto, S!Command,
     Places, Before, After, Inside, Private, S!Verbs
<1>7. CASE S!LoginReplied
  BY <1>7, <1>t, <1>e, HandlerType DEF S!LoginReplied, S!machine, S!Replied, S!UserAnd, S!OnlyAt, S!Tell, S!Goto, S!Command,
     Places, Before, After, Inside, Private, S!Verbs
<1>8. CASE S!RetryConnection
  BY <1>8, <1>t, <1>e, HandlerType DEF S!RetryConnection, S!machine, S!Replied, S!UserAnd, S!OnlyAt, S!Tell, S!Goto, S!Command,
     Places, Before, After, Inside, Private, S!Verbs
<1>9. CASE S!JobReplied
  BY <1>9, <1>t, <1>e, HandlerType DEF S!JobReplied, S!machine, S!Replied, S!UserAnd, S!OnlyAt, S!Tell, S!Goto, S!Command,
     Places, Before, After, Inside, Private, S!Verbs
<1>10. CASE S!Told
  BY <1>10, <1>t, <1>e, HandlerType DEF S!Told, S!machine, S!Replied, S!UserAnd, S!OnlyAt, S!Tell, S!Goto, S!Command,
     Places, Before, After, Inside, Private, S!Verbs
<1>11. CASE S!Dialog
  BY <1>11, <1>t, <1>s DEF S!Dialog, S!wkrb_add_our_ip_for_realm, TicketPair, S!machine, S!Replied, S!UserAnd, S!OnlyAt, S!Tell, S!Goto, S!Command,
     Places, Before, After, Inside, Private, S!Verbs
<1>12. CASE S!GetUserPrompt
  BY <1>12, <1>t, <1>e, HandlerType DEF S!GetUserPrompt, S!Named, S!machine, S!Replied, S!UserAnd, S!OnlyAt, S!Tell, S!Goto, S!Command,
     Places, Before, After, Inside, Private, S!Verbs
<1>13. CASE S!Reopen
  <2>1. S!Destroyed \in TicketPair
    BY <1>t DEF S!Destroyed, TicketPair
  <2> QED
    BY <1>13, <1>t, <2>1 DEF S!Reopen, S!machine
<1>14. CASE S!Prompted
  BY <1>14, <1>t, TicketSent DEF S!Prompted, S!UserAnd, S!Tell, Places, After, Inside, Private
<1>15. CASE S!Parse
  <2>1. out' \in S!Commands \cup {Nothing} /\ place' \in Places
    BY <1>15, <1>t, <1>e DEF S!Parse, S!machine, S!Replied, S!UserAnd, S!OnlyAt, S!Tell, S!Goto, S!Command,
     Places, Before, After, Inside, Private, S!Verbs
  <2>2. srv' \in Peer
    BY <1>15, <1>t DEF S!Parse, Peer
  <2> QED
    BY <1>15, <1>t, <2>1, <2>2 DEF S!Parse
<1>16. CASE S!Serve
  BY <1>16, <1>t, ServeType DEF S!Serve, S!machine
<1>17. CASE S!LoginFailed
  BY <1>17, <1>t, <1>e, HandlerType DEF S!LoginFailed, S!machine, S!Replied, S!UserAnd, S!OnlyAt, S!Tell, S!Goto, S!Command,
     Places, Before, After, Inside, Private, S!Verbs
<1> QED
  BY <1>0, <1>1, <1>2, <1>3, <1>4, <1>5, <1>6, <1>7, <1>8, <1>9, <1>10,
     <1>11, <1>12, <1>13, <1>14, <1>15, <1>16, <1>17 DEF S!Next, S!Machine, S!User

-----------------------------------------------------------------------------
(* Turns *)

LEMMA OneTurnStep == S!SecurityAssumption /\ SealTypes /\ OneTurn /\ [S!Next]_S!vars => OneTurn'
<1> SUFFICES ASSUME S!SecurityAssumption, SealTypes, OneTurn, [S!Next]_S!vars PROVE OneTurn'
  OBVIOUS
<1>e. \A verb \in S!Verbs, sl \in {"default", "private"} :
        S!Encode(verb, sl) # Nothing /\ S!Encode(verb, sl).verb = verb
  BY EncodeType, SessionFacts
<1>0. CASE UNCHANGED S!vars
  BY <1>0 DEF S!vars, S!machine, OneTurn
<1>1. CASE S!Login
  BY <1>1, <1>e DEF S!Login, OneTurn, S!Replied, S!OnlyAt, S!Tell, S!Goto, S!Command, S!Verbs
<1>2. CASE S!GetSecurityHandler
  BY <1>2, <1>e DEF S!GetSecurityHandler, OneTurn, S!Replied, S!OnlyAt, S!Tell, S!Goto, S!Command, S!Verbs
<1>3. CASE S!MakeAuth
  BY <1>3, <1>e DEF S!MakeAuth, OneTurn, S!Replied, S!OnlyAt, S!Tell, S!Goto, S!Command, S!Verbs
<1>4. CASE S!Authenticate
  BY <1>4, AdatSent, SessionFacts DEF S!Authenticate, OneTurn, S!Verbs
<1>5. CASE S!Authenticated
  BY <1>5 DEF S!Authenticated, S!AssignSecurity, OneTurn, S!Replied, S!Goto, S!Verbs
<1>6. CASE S!Name
  BY <1>6, <1>e DEF S!Name, S!Named, OneTurn, S!Replied, S!OnlyAt, S!Tell, S!Goto, S!Command, S!Verbs
<1>7. CASE S!LoginReplied
  BY <1>7, <1>e DEF S!LoginReplied, OneTurn, S!Replied, S!OnlyAt, S!Tell, S!Goto, S!Command, S!Verbs
<1>8. CASE S!RetryConnection
  BY <1>8, <1>e DEF S!RetryConnection, OneTurn, S!Replied, S!OnlyAt, S!Tell, S!Goto, S!Command, S!Verbs
<1>9. CASE S!JobReplied
  BY <1>9, <1>e DEF S!JobReplied, OneTurn, S!Replied, S!OnlyAt, S!Tell, S!Goto, S!Command, S!Verbs
<1>10. CASE S!Told
  BY <1>10, <1>e DEF S!Told, OneTurn, S!Replied, S!OnlyAt, S!Tell, S!Goto, S!Command, S!Verbs
<1>11. CASE S!Dialog
  BY <1>11, <1>e DEF S!Dialog, OneTurn, S!Replied, S!OnlyAt, S!Tell, S!Goto, S!Command, S!Verbs
<1>12. CASE S!GetUserPrompt
  BY <1>12, <1>e DEF S!GetUserPrompt, S!Named, OneTurn, S!Replied, S!OnlyAt, S!Tell, S!Goto, S!Command, S!Verbs
<1>13. CASE S!Reopen
  BY <1>13 DEF S!Reopen, S!machine, OneTurn
<1>14. CASE S!Prompted
  <2>1. CASE place' = "TICKET"
    BY <1>14, <2>1, TicketSent, SessionFacts DEF S!Prompted, OneTurn, S!Verbs
  <2>2. CASE place' # "TICKET"
    BY <1>14, <2>2 DEF S!Prompted, S!Tell, OneTurn, S!Verbs
  <2> QED
    BY <2>1, <2>2
<1>15. CASE S!Parse
  BY <1>15, <1>e DEF S!Parse, OneTurn, S!Replied, S!OnlyAt, S!Tell, S!Goto, S!Command, S!Verbs
<1>16. CASE S!Serve
  BY <1>16, ServeType, SessionFacts DEF S!Serve, S!machine, OneTurn, S!Verbs
<1>17. CASE S!LoginFailed
  BY <1>17, <1>e DEF S!LoginFailed, OneTurn, S!Replied, S!OnlyAt, S!Tell, S!Goto, S!Command, S!Verbs
<1> QED
  BY <1>0, <1>1, <1>2, <1>3, <1>4, <1>5, <1>6, <1>7, <1>8, <1>9, <1>10,
     <1>11, <1>12, <1>13, <1>14, <1>15, <1>16, <1>17 DEF S!Next, S!Machine, S!User

-----------------------------------------------------------------------------
(* Handlers *)

\* The server's key changes with AUTH and ADAT only.
LEMMA KeyKept ==
  ASSUME S!SecurityAssumption, SealTypes, OneTurn, [S!Next]_S!vars, place \notin {"AUTH", "ADAT"}
  PROVE  srv'.key = srv.key
<1>t. srv \in Peer
  BY DEF SealTypes
<1>1. CASE S!Serve
  <2>1. out.verb \notin {"AUTH", "ADAT"}
    BY <1>1 DEF S!Serve, OneTurn
  <2>2. \A b : [srv EXCEPT !.did = b].key = srv.key
    BY <1>t DEF Peer
  <2> QED
    BY <1>1, <2>1, <2>2 DEF S!Serve
<1>2. CASE S!Parse
  BY <1>2, <1>t DEF S!Parse, Peer
<1>3. CASE ~S!Serve /\ ~S!Parse
  <2>1. srv' = srv
    BY <1>3 DEF S!Next, S!Machine, S!User, S!vars, S!machine, S!Login, S!GetSecurityHandler, S!MakeAuth, S!Authenticate,
      S!Authenticated, S!Name, S!LoginReplied, S!RetryConnection, S!LoginFailed, S!JobReplied, S!Told, S!Dialog, S!GetUserPrompt,
      S!Reopen, S!Prompted, S!UserAnd, S!OnlyAt
  <2> QED
    BY <2>1
<1> QED
  BY <1>1, <1>2, <1>3

LEMMA HandlersKept ==
  ASSUME Handlers, UNCHANGED <<sealed, sec, stream, passive, retry>>,
         S!IsAuthenticated(sec) => srv'.key = srv.key,
         place' \in Before => stream = "own",
         retry # "abort" => place' = "refused",
         place' \in After => stream = "worker" /\ (S!IsAuthenticated(sec) \/ sec.kind = "plain"),
         place' \in Private \cup {"kauthpass"} => S!IsAuthenticated(sec),
         place' \in {"ticket", "dialog", "have", "ADAT"} => sec.kind = "krb4",
         place' = "ADAT" => (sec.from # sealed.own => passive)
  PROVE  Handlers'
<1>1. S!IsAuthenticated(sec) => Opened'
  BY DEF Handlers, Opened, S!krb_equiv, S!Signed
<1>2. S!IsAuthenticated(sec)' <=> S!IsAuthenticated(sec)
  BY DEF S!IsAuthenticated
<1> QED
  BY <1>1, <1>2 DEF Handlers, S!IsAuthenticated

LEMMA HandlersStep ==
  S!SecurityAssumption /\ SealTypes /\ OneTurn /\ Handlers /\ Exchange /\ [S!Next]_S!vars => Handlers'
<1> SUFFICES ASSUME S!SecurityAssumption, SealTypes, OneTurn, Handlers, Exchange, [S!Next]_S!vars
             PROVE  Handlers'
  OBVIOUS
<1>k. place \notin {"AUTH", "ADAT"} => srv'.key = srv.key
  BY KeyKept
<1>a. place \in Before => ~S!IsAuthenticated(sec) /\ stream = "own" /\ retry = "abort"
  BY DEF Handlers, Before
<1>b. place \in After => stream = "worker" /\ (S!IsAuthenticated(sec) \/ sec.kind = "plain") /\ retry = "abort"
  BY DEF Handlers, After, Inside, Private
<1>h. sec \in SealHandler
  BY DEF SealTypes
<1>0. CASE UNCHANGED S!vars
  BY <1>0, HandlersKept DEF S!vars, S!machine, Handlers
<1>1. CASE S!Login
  BY <1>1, <1>a, HandlerType DEF S!Login, S!Goto, S!Command, Handlers, S!IsAuthenticated, Before, After, Inside, Private
<1>2. CASE S!GetSecurityHandler
  BY <1>2, <1>a, HandlerType DEF S!GetSecurityHandler, S!Replied, S!UserAnd, S!Goto, Handlers, S!IsAuthenticated,
     Before, After, Inside, Private
<1>3. CASE S!MakeAuth
  BY <1>3, <1>a, <1>k, HandlersKept DEF S!MakeAuth, S!UserAnd, S!Goto, Handlers, Before, After, Inside, Private
<1>4. CASE S!Authenticate
  <2>1. ~S!IsAuthenticated(sec) /\ ~S!IsAuthenticated(sec)' /\ sec'.kind = "krb4"
    BY <1>4, <1>a, <1>h DEF S!Authenticate, S!IsAuthenticated, Before, SealHandler, Handlers
  <2>2. sec'.from # sealed.own => passive'
    BY <1>4, <1>h DEF S!Authenticate, SealHandler
  <2> QED
    BY <1>4, <1>a, <2>1, <2>2 DEF S!Authenticate, S!UserAnd, Handlers, S!IsAuthenticated, Before, After, Inside, Private
<1>5. CASE S!Authenticated
  <2>1. place = "ADAT" /\ stream = "own" /\ retry = "abort" /\ ~S!IsAuthenticated(sec) /\ sec.kind = "krb4"
    BY <1>5, <1>a DEF S!Authenticated, S!Replied, Before, Handlers
  <2>2. CASE stream' = stream
    BY <1>5, <2>1, <2>2, HandlersKept DEF S!Authenticated, S!AssignSecurity, S!UserAnd, S!Goto, Before, After, Inside,
       Private
  <2>3. CASE stream' # stream
    <3>1. /\ S!n = 2 /\ S!krb_rd_safe(in.data, sec.key, sealed.server, S!Signed(sealed.server, sec.from))
          /\ sec' = S!SetSecureLevel(sec, "safe") /\ stream' = "worker" /\ place' = "name"
      BY <1>5, <2>3 DEF S!Authenticated, S!AssignSecurity, S!Goto
    <3>2. in.code = 2 /\ in # Nothing
      BY <1>5, <3>1 DEF S!Authenticated, S!Replied, S!n, S!Decode
    <3>3. in.data = S!krb_mk_safe(srv.key, sealed.speaks, S!lsb_time(sealed.speaks, sealed.seen, FALSE, 0))
      BY <2>1, <3>2 DEF Exchange, S!Seal
    <3>4. Opened
      <4> DEFINE dir == S!lsb_time(sealed.speaks, sealed.seen, FALSE, 0)
      <4>1. in.data.key = srv.key /\ in.data.from = sealed.speaks /\ in.data.dir = dir
        BY <3>3 DEF S!krb_mk_safe
      <4>2. /\ S!krb_equiv(in.data.from, sealed.server) /\ in.data.key = sec.key
            /\ in.data.dir = S!Signed(sealed.server, sec.from)
        BY <3>1 DEF S!krb_rd_safe
      <4> QED
        BY <4>1, <4>2 DEF Opened
    <3>5. sec'.key = sec.key /\ sec'.from = sec.from /\ sec'.kind = "krb4" /\ sec'.level = "safe"
      BY <2>1, <3>1, <1>h DEF SealHandler, S!SetSecureLevel
    <3>6. Opened'
      BY <1>5, <3>4, <3>5 DEF S!Authenticated, S!UserAnd, Opened, S!krb_equiv, S!Signed
    <3>7. passive' = passive /\ sealed' = sealed /\ retry' = retry
      BY <1>5 DEF S!Authenticated, S!UserAnd
    <3> QED
      BY <2>1, <3>1, <3>5, <3>6, <3>7 DEF Handlers, S!IsAuthenticated, Before, After, Inside, Private
  <2> QED
    BY <2>2, <2>3
<1>6. CASE S!Name
  BY <1>6, <1>b, <1>k, HandlersKept DEF S!Name, S!Named, S!OnlyAt, S!Command, Before, After, Inside, Private
<1>7. CASE S!LoginReplied
  BY <1>7, <1>b, <1>k, HandlersKept DEF S!LoginReplied, S!Replied, S!OnlyAt, S!Goto, S!Command, Before, After, Inside, Private
<1>8. CASE S!RetryConnection
  BY <1>8, <1>a, <1>k DEF S!RetryConnection, S!OnlyAt, S!Goto, Handlers, Opened, S!krb_equiv, S!Signed, S!IsAuthenticated,
     Before, After, Inside, Private
<1>9. CASE S!JobReplied
  BY <1>9, <1>b, <1>k, HandlersKept DEF S!JobReplied, S!Replied, S!UserAnd, S!Tell, Handlers, Before, After, Inside, Private
<1>10. CASE S!Told
  BY <1>10, <1>b, <1>k, HandlersKept DEF S!Told, S!OnlyAt, S!Goto, Before, After, Inside, Private
<1>11. CASE S!Dialog
  BY <1>11, <1>a, <1>k, HandlersKept DEF S!Dialog, S!UserAnd, S!Goto, Handlers, Before, After, Inside, Private
<1>12. CASE S!GetUserPrompt
  BY <1>12, <1>b, <1>k, HandlersKept DEF S!GetUserPrompt, S!Named, S!OnlyAt, S!Goto, S!Command, Before, After, Inside, Private
<1>13. CASE S!Reopen
  <2>1. place = "refused" /\ stream = "own" /\ ~S!IsAuthenticated(sec)
    BY <1>13 DEF S!Reopen, Handlers
  <2> QED
    BY <1>13, <2>1 DEF S!Reopen, S!machine, Handlers, S!IsAuthenticated, Before, After, Inside, Private
<1>14. CASE S!Prompted
  <2>1. place = "kauthpass" /\ place' \in {"TICKET", "told"} /\ S!IsAuthenticated(sec)
    BY <1>14 DEF S!Prompted, S!Tell, Handlers
  <2>2. UNCHANGED <<sealed, sec, stream, passive, retry>> /\ srv' = srv
    BY <1>14 DEF S!Prompted, S!UserAnd
  <2> QED
    BY <2>1, <2>2, <1>b, HandlersKept DEF Before, After, Inside, Private
<1>15. CASE S!Parse
  <2>1. place' \in {"KAUTH", "KLIST", "KDESTROY", "AFSLOG", "told"} /\ (place' = "KAUTH" => sec.kind = "krb4")
    BY <1>15 DEF S!Parse, S!Command, S!Tell
  <2>2. place = "in" /\ UNCHANGED <<sealed, sec, stream, passive, retry>>
    BY <1>15 DEF S!Parse
  <2> QED
    BY <2>1, <2>2, <1>b, <1>k, HandlersKept DEF Before, After, Inside, Private
<1>16. CASE S!Serve
  BY <1>16, <1>a, <1>b, <1>k, HandlersKept DEF S!Serve, S!machine, Handlers, Before
<1>17. CASE S!LoginFailed
  BY <1>17, <1>a, <1>k DEF S!LoginFailed, S!OnlyAt, S!Goto, Handlers, Opened, S!krb_equiv, S!Signed, S!IsAuthenticated,
     Before, After, Inside, Private
<1> QED
  BY <1>0, <1>1, <1>2, <1>3, <1>4, <1>5, <1>6, <1>7, <1>8, <1>9, <1>10,
     <1>11, <1>12, <1>13, <1>14, <1>15, <1>16, <1>17 DEF S!Next, S!Machine, S!User

-----------------------------------------------------------------------------
(* The exchange of sealed commands and replies *)

\* What a command is sealed with once the stream has the handler
LEMMA EncodeSeals ==
  ASSUME Handlers, stream = "worker", S!IsAuthenticated(sec) \/ sec.kind = "plain",
         NEW verb \in S!Verbs, sec \in SealHandler
  PROVE  /\ S!Encode(verb, "default").seal = IF S!IsAuthenticated(sec) THEN Safe ELSE S!Plain
         /\ S!IsAuthenticated(sec) => S!Encode(verb, "private").seal = Priv
<1>1. S!security = sec
  BY DEF S!security
<1>2. CASE S!IsAuthenticated(sec)
  <2>1. sec.kind = "krb4" /\ sec.level = "safe"
    BY <1>2 DEF Handlers, S!IsAuthenticated, SealHandler
  <2> QED
    BY <1>1, <1>2, <2>1 DEF S!Encode, Safe, Priv
<1>3. CASE ~S!IsAuthenticated(sec)
  BY <1>1, <1>3 DEF S!Encode
<1> QED
  BY <1>2, <1>3

\* A command in private is heard when a safe one is.
LEMMA PrivIsHeard == S!Reads(Safe) => S!Reads(Priv)
<1> DEFINE d == S!Signed(sec.from, sealed.server)
<1>1. /\ Safe.type = "safe" /\ Safe.key = sec.key /\ Safe.from = sec.from /\ Safe.dir = d
      /\ Priv.type = "private" /\ Priv.key = sec.key /\ Priv.from = sec.from /\ Priv.dir = d
  BY DEF Safe, Priv, S!krb_mk_safe, S!krb_mk_priv
<1> HIDE DEF d
<1> QED
  BY <1>1 DEF S!Reads, S!krb_rd_safe, S!krb_rd_priv

\* A reply the server has sealed is opened, so what Command returns is its code.
LEMMA RepliesOpened ==
  ASSUME Handlers, place \in After, UnderSeal(in)
  PROVE  S!n = in.code
<1>1. S!security = sec
  BY DEF S!security, Handlers
<1>2. CASE in.seal = S!Plain
  BY <1>2 DEF S!n, S!Decode, S!Plain
<1>3. CASE S!IsAuthenticated(sec) /\ in.seal \in {S!Seal("safe", sec.key), S!Seal("private", sec.key)}
  <2> DEFINE dir == S!lsb_time(sealed.speaks, sealed.seen, FALSE, 0)
  <2>1. /\ in.seal.type \in {"safe", "private"} /\ in.seal.key = sec.key
        /\ in.seal.from = sealed.speaks /\ in.seal.dir = dir
    <3>1. /\ S!Seal("safe", sec.key) = S!krb_mk_safe(sec.key, sealed.speaks, dir)
          /\ S!Seal("private", sec.key) = S!krb_mk_priv(sec.key, sealed.speaks, dir)
      BY DEF S!Seal
    <3> HIDE DEF dir
    <3>2. CASE in.seal = S!krb_mk_safe(sec.key, sealed.speaks, dir)
      BY <3>2 DEF S!krb_mk_safe
    <3>3. CASE in.seal = S!krb_mk_priv(sec.key, sealed.speaks, dir)
      BY <3>3 DEF S!krb_mk_priv
    <3> QED
      BY <1>3, <3>1, <3>2, <3>3
  <2>2. sec.kind = "krb4" /\ S!krb_equiv(sealed.speaks, sealed.server)
        /\ dir = S!Signed(sealed.server, sec.from)
    BY <1>3 DEF Handlers, Opened
  <2> HIDE DEF dir
  <2> QED
    BY <1>1, <2>1, <2>2 DEF S!n, S!Decode, S!krb_rd_safe, S!krb_rd_priv
<1> QED
  BY <1>2, <1>3 DEF UnderSeal

LEMMA SealsKept ==
  ASSUME sealed' = sealed, sec' = sec
  PROVE  /\ S!IsAuthenticated(sec)' <=> S!IsAuthenticated(sec)
         /\ \A verb : OurSeal(verb)' = OurSeal(verb)
         /\ \A type, key : S!Seal(type, key)' = S!Seal(type, key)
         /\ srv'.key = srv.key => (Heard' <=> Heard) /\ \A seal : S!Reads(seal)' <=> S!Reads(seal)
<1>1. S!IsAuthenticated(sec)' <=> S!IsAuthenticated(sec)
  BY DEF S!IsAuthenticated
<1>2. \A verb : OurSeal(verb)' = OurSeal(verb)
  BY DEF OurSeal, S!IsAuthenticated, Safe, Priv, S!Signed
<1>3. \A type, key : S!Seal(type, key)' = S!Seal(type, key)
  BY DEF S!Seal
<1>4. srv'.key = srv.key => \A seal : S!Reads(seal)' <=> S!Reads(seal)
  BY DEF S!Reads, S!krb_rd_safe, S!krb_rd_priv, S!krb_equiv
<1>5. srv'.key = srv.key => (Heard' <=> Heard)
  BY DEF Heard, S!Reads, Safe, S!Signed, S!krb_rd_safe, S!krb_rd_priv, S!krb_equiv
<1> QED
  BY <1>1, <1>2, <1>3, <1>4, <1>5

\* What keeps the exchange: a command that is sealed as it must be, no reply left.
LEMMA ExchangeKept ==
  ASSUME Exchange, UNCHANGED <<sealed, sec>>, srv'.key = srv.key,
         in' = Nothing, place' \in After => out' = Nothing \/ out'.seal = OurSeal(place'),
         place' \in Inside /\ S!IsAuthenticated(sec) => Heard
  PROVE  Exchange'
<1>1. /\ S!IsAuthenticated(sec)' <=> S!IsAuthenticated(sec)
      /\ \A verb : OurSeal(verb)' = OurSeal(verb)
      /\ Heard' <=> Heard
  BY SealsKept
<1>2. \A verb : OurSeal(verb)' = IF ~S!IsAuthenticated(sec) THEN S!Plain ELSE IF verb \in Private THEN Priv ELSE Safe
  BY <1>1 DEF OurSeal
<1>3. place' \in After /\ out' # Nothing => out'.seal = OurSeal(place)'
  BY <1>1, <1>2 DEF OurSeal, S!IsAuthenticated, Safe, Priv, S!Signed
<1> QED
  BY <1>1, <1>3 DEF Exchange

LEMMA ExchangeStep ==
  S!SecurityAssumption /\ SealTypes /\ OneTurn /\ Handlers /\ Exchange /\ [S!Next]_S!vars => Exchange'
<1> SUFFICES ASSUME S!SecurityAssumption, SealTypes, OneTurn, Handlers, Exchange, [S!Next]_S!vars
             PROVE  Exchange'
  OBVIOUS
<1>k. place \notin {"AUTH", "ADAT"} => srv'.key = srv.key
  BY KeyKept
<1>h. sec \in SealHandler
  BY DEF SealTypes
<1>e. place \in After => \A verb \in S!Verbs :
        /\ verb \notin Private => S!Encode(verb, "default").seal = OurSeal(verb)
        /\ verb \in Private /\ S!IsAuthenticated(sec) => S!Encode(verb, "private").seal = OurSeal(verb)
  BY <1>h, EncodeSeals DEF Handlers, OurSeal
<1>t. /\ place \notin S!Verbs => out = Nothing /\ in = Nothing
      /\ in # Nothing => out = Nothing
  BY DEF OneTurn
<1>0. CASE UNCHANGED S!vars
  <2>1. UNCHANGED <<sealed, place, sec, out, in, srv>>
    BY <1>0 DEF S!vars, S!machine
  <2> QED
    BY <2>1, SealsKept DEF Exchange, UnderSeal, OurSeal, S!IsAuthenticated, Safe, Priv, S!Signed, S!Seal
<1>1. CASE S!Login
  BY <1>1, <1>t DEF S!Login, S!Goto, S!Command, Exchange, S!Verbs, Before, After, Inside, Private
<1>2. CASE S!GetSecurityHandler
  BY <1>2, <1>t DEF S!GetSecurityHandler, S!Replied, S!Goto, Exchange, Before, After, Inside, Private
<1>3. CASE S!MakeAuth
  BY <1>3, <1>t DEF S!MakeAuth, S!UserAnd, S!Goto, Exchange, S!Verbs, After, Inside, Private
<1>4. CASE S!Authenticate
  BY <1>4, <1>t DEF S!Authenticate, Exchange, S!Verbs, After, Inside, Private
<1>5. CASE S!Authenticated
  BY <1>5, <1>t DEF S!Authenticated, S!AssignSecurity, S!Replied, S!Goto, Exchange, After, Inside, Private
<1>6. CASE S!Name
  BY <1>6, <1>t, <1>k, <1>e, ExchangeKept DEF S!Name, S!Named, S!OnlyAt, S!Command, S!Verbs, After, Inside, Private
<1>7. CASE S!LoginReplied
  <2>1. S!n = 2 => in.code = 2
    BY DEF S!n, S!Decode
  <2>2. place \in {"USER", "PASS", "ACCT"} /\ in # Nothing /\ in' = Nothing
    BY <1>7 DEF S!LoginReplied, S!Replied
  <2>3. /\ place' \in {"USER", "PASS", "password", "account", "refused", "in"}
        /\ place' = "in" => S!n = 2 /\ out' = out
        /\ place' # "in" => out' = out \/ (place' = "PASS" /\ out' = S!Encode("PASS", "default"))
    BY <1>7, <2>2 DEF S!LoginReplied, S!Goto, S!Command
  <2>4. place' = "in" /\ S!IsAuthenticated(sec) => Heard
    BY <2>1, <2>2, <2>3 DEF Exchange
  <2>5. UNCHANGED <<sealed, sec>>
    BY <1>7 DEF S!LoginReplied, S!OnlyAt
  <2> QED
    BY <2>2, <2>3, <2>4, <2>5, <1>t, <1>k, <1>e, ExchangeKept DEF S!Verbs, After, Inside, Private
<1>8. CASE S!RetryConnection
  BY <1>8, <1>t DEF S!RetryConnection, S!OnlyAt, S!Goto, Exchange, S!Verbs, After, Inside, Private
<1>9. CASE S!JobReplied
  <2>1. place \in Inside /\ place' \in {"kauthpass", "told"} /\ in # Nothing /\ in' = Nothing
    BY <1>9 DEF S!JobReplied, S!Replied, S!Tell, Inside, Private
  <2>2. UNCHANGED <<sealed, sec, out>>
    BY <1>9 DEF S!JobReplied, S!UserAnd
  <2> QED
    BY <2>1, <2>2, <1>t, <1>k, ExchangeKept DEF Exchange, Inside, Private
<1>10. CASE S!Told
  BY <1>10, <1>t, <1>k, ExchangeKept DEF S!Told, S!OnlyAt, S!Goto, Exchange, S!Verbs, After, Inside, Private
<1>11. CASE S!Dialog
  BY <1>11, <1>t DEF S!Dialog, S!UserAnd, S!Goto, Exchange, S!Verbs, After, Inside, Private
<1>12. CASE S!GetUserPrompt
  BY <1>12, <1>t, <1>k, <1>e, ExchangeKept DEF S!GetUserPrompt, S!Named, S!OnlyAt, S!Goto, S!Command, S!Verbs, After, Inside, Private
<1>13. CASE S!Reopen
  <2>1. place = "refused" /\ place' = place /\ out' = out
    BY <1>13 DEF S!Reopen, S!machine, Handlers
  <2> QED
    BY <2>1 DEF Exchange, After, Inside, Private
<1>14. CASE S!Prompted
  <2>1. place = "kauthpass" /\ place' \in {"TICKET", "told"} /\ (place' = "told" => out' = out)
    BY <1>14 DEF S!Prompted, S!Tell
  <2>2. UNCHANGED <<sealed, sec, in, srv>> /\ S!IsAuthenticated(sec)
    BY <1>14, <2>1 DEF S!Prompted, S!UserAnd, Handlers
  <2>3. place' = "TICKET" => out'.seal = OurSeal("TICKET")
    BY <1>14, <2>1, <2>2, <1>e, TicketSent DEF S!Verbs, After, Inside, Private
  <2> QED
    BY <2>1, <2>2, <2>3, <1>t, ExchangeKept DEF Exchange, S!Verbs, Inside, Private
<1>15. CASE S!Parse
  <2>1. /\ place = "in" /\ UNCHANGED <<sealed, sec, in>>
        /\ place' \in {"KAUTH", "KLIST", "KDESTROY", "AFSLOG", "told"}
        /\ place' = "KAUTH" => sec.kind = "krb4" /\ out' = S!Encode("KAUTH", "private")
        /\ place' = "told" => out' = out
        /\ place' \in {"KLIST", "KDESTROY", "AFSLOG"} => out' = S!Encode(place', "default")
    BY <1>15 DEF S!Parse, S!Command, S!Tell
  <2>2. sec.kind = "krb4" => S!IsAuthenticated(sec)
    BY <2>1 DEF Handlers, After, Inside
  <2> QED
    BY <2>1, <2>2, <1>t, <1>k, <1>e, ExchangeKept DEF Exchange, S!Verbs, After, Inside, Private
<1>16. CASE S!Serve
  <2>1. /\ out # Nothing /\ out' = Nothing /\ out.verb = place /\ place \in S!Verbs
        /\ UNCHANGED <<sealed, place, sec>> /\ srv \in Peer
    BY <1>16, <1>t DEF S!Serve, S!machine, OneTurn, SealTypes
  <2>2. CASE place = "AUTH"
    BY <2>1, <2>2 DEF Exchange, After, Inside, Private
  <2>3. CASE place = "ADAT"
    <3>1. CASE in'.code = 5
      BY <2>1, <2>3, <3>1 DEF Exchange, After, Inside, Private
    <3>2. CASE in'.code # 5
      <4>1. srv' = [srv EXCEPT !.key = out.data.key] /\ in'.data = S!Seal("safe", out.data.key)
        BY <1>16, <2>1, <2>3, <3>2 DEF S!Serve, S!Says
      <4>2. srv'.key = out.data.key
        BY <2>1, <4>1 DEF Peer
      <4>3. in'.data = S!Seal("safe", srv.key)'
        BY <2>1, <4>1, <4>2 DEF S!Seal
      <4> QED
        BY <2>1, <2>3, <4>3 DEF Exchange, After, Inside, Private
    <3> QED
      BY <3>1, <3>2
  <2>4. CASE place \notin {"AUTH", "ADAT"}
    <3>1. place \in After /\ srv'.key = srv.key /\ out.seal = OurSeal(place)
      BY <1>k, <2>1, <2>4 DEF Exchange, S!Verbs, After, Inside, Private
    <3>2. \/ in'.code = 5 /\ in'.seal = S!Seal("plain", srv.key)
          \/ in'.seal = S!Seal(out.seal.type, srv.key) /\ (out.seal.type = "plain" \/ S!Reads(out.seal))
      BY <1>16, <2>1, <2>4 DEF S!Serve, S!Says
    <3>3. S!Seal("plain", srv.key) = S!Plain
      BY DEF S!Seal
    <3>4. /\ S!IsAuthenticated(sec)' <=> S!IsAuthenticated(sec)
          /\ Heard' <=> Heard
          /\ \A type, key : S!Seal(type, key)' = S!Seal(type, key)
      BY <2>1, <3>1, SealsKept
    <3>5. /\ S!IsAuthenticated(sec) => srv.key = sec.key /\ out.seal.type \in {"safe", "private"}
          /\ S!IsAuthenticated(sec) /\ place \notin Private => out.seal = Safe
          /\ ~S!IsAuthenticated(sec) => out.seal.type = "plain"
      <4>1. S!Plain.type = "plain" /\ Safe.type = "safe" /\ Priv.type = "private"
        BY DEF S!Plain, Safe, Priv, S!krb_mk_safe, S!krb_mk_priv
      <4>2. S!IsAuthenticated(sec) => srv.key = sec.key
        BY DEF Handlers, Opened
      <4> QED
        BY <3>1, <4>1, <4>2 DEF OurSeal
    <3>6. in'.seal = S!Plain \/ (S!IsAuthenticated(sec) /\ in'.seal \in {S!Seal("safe", sec.key), S!Seal("private", sec.key)})
      BY <3>2, <3>3, <3>5
    <3>7. UnderSeal(in)'
      <4>1. S!Seal("safe", sec.key)' = S!Seal("safe", sec.key) /\ S!Seal("private", sec.key)' = S!Seal("private", sec.key)
        BY <2>1 DEF S!Seal
      <4> QED
        BY <3>4, <3>6, <4>1 DEF UnderSeal
    <3>8. place \in {"USER", "PASS", "ACCT"} /\ in'.code # 5 /\ S!IsAuthenticated(sec) => Heard
      BY <3>2, <3>5 DEF Heard, Private
    <3> QED
      BY <2>1, <2>4, <3>4, <3>7, <3>8 DEF Exchange
  <2> QED
    BY <2>2, <2>3, <2>4
<1>17. CASE S!LoginFailed
  BY <1>17, <1>t DEF S!LoginFailed, S!OnlyAt, S!Goto, Exchange, S!Verbs, After, Inside, Private
<1> QED
  BY <1>0, <1>1, <1>2, <1>3, <1>4, <1>5, <1>6, <1>7, <1>8, <1>9, <1>10,
     <1>11, <1>12, <1>13, <1>14, <1>15, <1>16, <1>17 DEF S!Next, S!Machine, S!User

-----------------------------------------------------------------------------
(* What is done and what is told *)

LEMMA HonestStep ==
  S!SecurityAssumption /\ SealTypes /\ OneTurn /\ Handlers /\ Exchange /\ Honest /\ [S!Next]_S!vars => Honest'
<1> SUFFICES ASSUME S!SecurityAssumption, SealTypes, OneTurn, Handlers, Exchange, Honest, [S!Next]_S!vars
             PROVE  Honest'
  OBVIOUS
<1>t. /\ place \notin S!Verbs => out = Nothing /\ in = Nothing
      /\ in # Nothing => out = Nothing
  BY DEF OneTurn
<1>0. CASE UNCHANGED S!vars
  BY <1>0 DEF S!vars, S!machine, Honest
<1>1. CASE S!Login
  BY <1>1, <1>t DEF S!Login, S!Goto, S!Command, Honest, S!Verbs, Inside, Private
<1>2. CASE S!GetSecurityHandler
  BY <1>2 DEF S!GetSecurityHandler, S!Replied, S!Goto, Honest, Inside, Private
<1>3. CASE S!MakeAuth
  BY <1>3 DEF S!MakeAuth, S!Goto, Honest, Inside, Private
<1>4. CASE S!Authenticate
  BY <1>4 DEF S!Authenticate, Honest, Inside, Private
<1>5. CASE S!Authenticated
  BY <1>5 DEF S!Authenticated, S!AssignSecurity, S!Replied, S!Goto, Honest, Inside, Private
<1>6. CASE S!Name
  BY <1>6 DEF S!Name, S!Named, S!Command, Honest, Inside, Private
<1>7. CASE S!LoginReplied
  BY <1>7, <1>t DEF S!LoginReplied, S!Replied, S!Goto, S!Command, Honest, Inside, Private
<1>8. CASE S!RetryConnection
  BY <1>8 DEF S!RetryConnection, S!Goto, Honest, Inside, Private
<1>9. CASE S!JobReplied
  <2>1. in # Nothing /\ in' = Nothing /\ out' = out /\ srv' = srv /\ place' \in {"kauthpass", "told"}
        /\ (place' = "kauthpass" => place = "KAUTH")
    BY <1>9 DEF S!JobReplied, S!Replied, S!Tell, S!UserAnd
  <2> QED
    BY <2>1, <1>t DEF Honest
<1>10. CASE S!Told
  BY <1>10, <1>t DEF S!Told, S!Goto, S!OnlyAt, Honest, S!Verbs, Inside, Private
<1>11. CASE S!Dialog
  BY <1>11 DEF S!Dialog, S!Goto, Honest, Inside, Private
<1>12. CASE S!GetUserPrompt
  BY <1>12 DEF S!GetUserPrompt, S!Named, S!Goto, S!Command, Honest, Inside, Private
<1>13. CASE S!Reopen
  BY <1>13 DEF S!Reopen, S!machine, Honest
<1>14. CASE S!Prompted
  <2>1. place = "kauthpass" /\ place' \in {"TICKET", "told"} /\ UNCHANGED <<in, srv>> /\ in = Nothing
    BY <1>14, <1>t DEF S!Prompted, S!Tell, S!UserAnd, S!Verbs
  <2> QED
    BY <2>1 DEF Honest
<1>15. CASE S!Parse
  <2>1. srv'.did = FALSE /\ in' = Nothing /\ place' # "kauthpass"
    BY <1>15, <1>t DEF S!Parse, S!Command, S!Tell, SealTypes, Peer, S!Verbs
  <2> QED
    BY <2>1 DEF Honest
<1>16. CASE S!Serve
  <2>1. out # Nothing /\ out' = Nothing /\ out.verb = place /\ place \in S!Verbs /\ place' = place /\ srv \in Peer
    BY <1>16, <1>t DEF S!Serve, S!machine, OneTurn, SealTypes
  <2>2. CASE place \notin Inside
    BY <2>1, <2>2 DEF Honest, Inside, Private
  <2>3. CASE place \in Inside
    <3>1. place \notin {"AUTH", "ADAT", "USER", "PASS", "ACCT"} /\ ~srv.did
      BY <2>1, <2>3 DEF Honest, Inside, Private
    <3>2. \A code, s : s = [srv EXCEPT !.did = code = 2] => (s.did <=> code = 2)
      BY <2>1 DEF Peer
    <3>3. \A code, s : s = [srv EXCEPT !.did = code = 2 /\ out.verb \notin {"USER", "PASS", "ACCT"}] => (s.did <=> code = 2)
      BY <2>1, <3>1 DEF Peer
    <3>4. S!Codes(out.verb) \subseteq Nat
      BY DEF S!Codes
    <3>5. (srv'.did <=> in'.code = 2) /\ (place = "KAUTH" => ~srv'.did)
      <4>1. CASE srv' = srv /\ in'.code = 5
        BY <3>1, <4>1
      <4>2. CASE ~(srv' = srv /\ in'.code = 5) /\ place \in Private
        <5>1. PICK code \in Nat :
                /\ srv' = [srv EXCEPT !.did = code = 2] /\ in'.code = code
                /\ place = "KAUTH" => code # 2
          BY <1>16, <2>1, <3>1, <4>2 DEF S!Serve, S!Says, Private
        <5>2. srv'.did <=> code = 2
          BY <3>2, <5>1, Zenon
        <5> QED
          BY <5>1, <5>2
      <4>3. CASE ~(srv' = srv /\ in'.code = 5) /\ place \notin Private
        <5>1. \A type, code : S!Says(type, code) => in'.code = code
          BY DEF S!Says
        <5>2. ~(UNCHANGED srv /\ S!Says("plain", 5))
          BY <4>3, <5>1
        <5>3. out.verb \notin {"AUTH", "ADAT", "KAUTH", "TICKET"}
          BY <2>1, <3>1, <4>3 DEF Private
        <5>4. PICK code \in S!Codes(out.verb) :
                /\ srv' = [srv EXCEPT !.did = code = 2 /\ out.verb \notin {"USER", "PASS", "ACCT"}]
                /\ S!Says(out.seal.type, code)
          BY <1>16, <5>2, <5>3, Zenon DEF S!Serve
        <5>5. code \in Nat /\ in'.code = code
          BY <3>4, <5>1, <5>4
        <5>6. place # "KAUTH"
          BY <4>3 DEF Private
        <5>7. srv'.did <=> code = 2
          BY <3>3, <5>4, <5>5, Zenon
        <5> QED
          BY <5>5, <5>6, <5>7
      <4> QED
        BY <4>1, <4>2, <4>3
    <3> QED
      BY <2>1, <3>5 DEF Honest, S!Verbs
  <2> QED
    BY <2>2, <2>3
<1>17. CASE S!LoginFailed
  BY <1>17 DEF S!LoginFailed, S!Goto, Honest, Inside, Private
<1> QED
  BY <1>0, <1>1, <1>2, <1>3, <1>4, <1>5, <1>6, <1>7, <1>8, <1>9, <1>10,
     <1>11, <1>12, <1>13, <1>14, <1>15, <1>16, <1>17 DEF S!Next, S!Machine, S!User

LEMMA ToldStep ==
  S!SecurityAssumption /\ SealInv /\ [S!Next]_S!vars => S!ToldIsTrue'
<1> SUFFICES ASSUME S!SecurityAssumption, SealTypes, OneTurn, Handlers, Exchange, Honest, S!ToldIsTrue, [S!Next]_S!vars
             PROVE  S!ToldIsTrue'
  BY DEF SealInv
<1> DEFINE Able == sealed.willing /\ ~(sealed.afs /\ sealed.foreign)
<1>t. /\ place \notin S!Verbs => out = Nothing /\ in = Nothing
      /\ in # Nothing => out = Nothing
  BY DEF OneTurn
<1>0. CASE UNCHANGED S!vars
  BY <1>0 DEF S!vars, S!machine, S!ToldIsTrue
<1>1. CASE S!Login
  BY <1>1 DEF S!Login, S!Goto, S!Command, S!ToldIsTrue
<1>2. CASE S!GetSecurityHandler
  BY <1>2 DEF S!GetSecurityHandler, S!Goto, S!ToldIsTrue
<1>3. CASE S!MakeAuth
  BY <1>3 DEF S!MakeAuth, S!Goto, S!ToldIsTrue
<1>4. CASE S!Authenticate
  BY <1>4 DEF S!Authenticate, S!ToldIsTrue
<1>5. CASE S!Authenticated
  BY <1>5 DEF S!Authenticated, S!AssignSecurity, S!Goto, S!ToldIsTrue
<1>6. CASE S!Name
  BY <1>6 DEF S!Name, S!Named, S!Command, S!ToldIsTrue
<1>7. CASE S!LoginReplied
  BY <1>7 DEF S!LoginReplied, S!Goto, S!Command, S!ToldIsTrue
<1>8. CASE S!RetryConnection
  BY <1>8 DEF S!RetryConnection, S!Goto, S!ToldIsTrue
<1>9. CASE S!JobReplied
  <2>1. CASE place = "KAUTH"
    <3>1. in # Nothing /\ srv' = srv /\ (place' = "kauthpass" \/ (place' = "told" /\ told' = FALSE))
      BY <1>9, <2>1 DEF S!JobReplied, S!Replied, S!Tell, S!UserAnd
    <3>2. srv.did = FALSE
      BY <2>1, <3>1 DEF Honest, SealTypes, Peer
    <3> QED
      BY <3>1, <3>2 DEF S!ToldIsTrue
  <2>2. CASE place # "KAUTH"
    <3>1. /\ place \in {"TICKET", "KLIST", "KDESTROY", "AFSLOG"} /\ in # Nothing /\ srv' = srv
          /\ place' = "told" /\ told' = (S!n = 2)
      BY <1>9, <2>2, Zenon DEF S!JobReplied, S!Replied, S!Tell, S!UserAnd
    <3>2. S!n = in.code
      BY <3>1, RepliesOpened DEF Exchange, After, Inside, Private
    <3>3. srv.did <=> S!n = 2
      BY <3>1, <3>2 DEF Honest
    <3>4. srv.did \in BOOLEAN
      BY DEF SealTypes, Peer
    <3>5. told' = srv'.did
      BY <3>1, <3>3, <3>4, Zenon
    <3> QED
      BY <3>1, <3>5 DEF S!ToldIsTrue
  <2> QED
    BY <2>1, <2>2
<1>10. CASE S!Told
  BY <1>10 DEF S!Told, S!Goto, S!ToldIsTrue
<1>11. CASE S!Dialog
  BY <1>11 DEF S!Dialog, S!Goto, S!ToldIsTrue
<1>12. CASE S!GetUserPrompt
  BY <1>12 DEF S!GetUserPrompt, S!Named, S!Goto, S!Command, S!ToldIsTrue
<1>13. CASE S!Reopen
  BY <1>13 DEF S!Reopen, S!machine, S!ToldIsTrue
<1>14. CASE S!Prompted
  <2>1. place = "kauthpass" /\ UNCHANGED <<sealed, in, srv>> /\ in = Nothing /\ srv.did = FALSE
    BY <1>14, <1>t DEF S!Prompted, S!UserAnd, Honest, S!Verbs, SealTypes, Peer
  <2>2. CASE place' = "TICKET"
    BY <1>14, <2>1, <2>2, TicketSent DEF S!ToldIsTrue, S!Opens
  <2>3. CASE place' # "TICKET"
    <3>1. place' = "told" /\ told' = FALSE
      BY <1>14, <2>3 DEF S!Prompted, S!Tell
    <3> QED
      BY <2>1, <3>1 DEF S!ToldIsTrue
  <2> QED
    BY <2>2, <2>3
<1>15. CASE S!Parse
  <2>1. place' \in {"KAUTH", "KLIST", "KDESTROY", "AFSLOG"} \/ (place' = "told" /\ told' = FALSE)
    BY <1>15 DEF S!Parse, S!Command, S!Tell
  <2>2. srv'.did = FALSE
    BY <1>15 DEF S!Parse, SealTypes, Peer
  <2> QED
    BY <2>1, <2>2 DEF S!ToldIsTrue
<1>16. CASE S!Serve
  <2>1. out # Nothing /\ out' = Nothing /\ out.verb = place /\ place \in S!Verbs /\ UNCHANGED <<sealed, place, sec, told>>
    BY <1>16, <1>t DEF S!Serve, S!machine, OneTurn
  <2>2. CASE place # "TICKET"
    BY <2>1, <2>2 DEF S!ToldIsTrue, S!Verbs
  <2>3. CASE place = "TICKET"
    <3>1. out.seal = Priv /\ Heard
      BY <2>1, <2>3 DEF Handlers, Exchange, OurSeal, After, Inside, Private
    <3>2. out.seal.type = "private" /\ S!Reads(out.seal)
      BY <3>1, PrivIsHeard DEF Heard, Priv, S!krb_mk_priv
    <3>3. Able => out.data # S!Plain
      BY <2>1, <2>3 DEF S!ToldIsTrue
    <3>4. Able => in'.code = 2
      BY <1>16, <2>1, <2>3, <3>2, <3>3 DEF S!Serve, S!Says
    <3> QED
      BY <2>1, <2>3, <3>4 DEF S!ToldIsTrue
  <2> QED
    BY <2>2, <2>3
<1>17. CASE S!LoginFailed
  BY <1>17 DEF S!LoginFailed, S!Goto, S!ToldIsTrue
<1> QED
  BY <1>0, <1>1, <1>2, <1>3, <1>4, <1>5, <1>6, <1>7, <1>8, <1>9, <1>10,
     <1>11, <1>12, <1>13, <1>14, <1>15, <1>16, <1>17 DEF S!Next, S!Machine, S!User

-----------------------------------------------------------------------------
(* The theorems *)

LEMMA SealInvInit == S!SecurityAssumption /\ S!Init => SealInv
<1> SUFFICES ASSUME S!SecurityAssumption, S!Init PROVE SealInv
  OBVIOUS
<1>1. sealed \in SealedSession /\ place = "login" /\ stream = "own" /\ retry = "abort"
  BY DEF S!Init
<1>2. sec = S!NoHandler /\ ~S!IsAuthenticated(sec) /\ out = Nothing /\ in = Nothing
  BY HandlerType DEF S!Init, S!IsAuthenticated
<1>3. sealed.was \in Nat
  BY <1>1 DEF S!SecurityAssumption
<1>4. tickets \in TicketPair
  BY <1>3 DEF S!Init, TicketPair
<1>5. srv \in Peer
  BY DEF S!Init, Peer
<1>6. SealTypes
  BY <1>1, <1>2, <1>4, <1>5, HandlerType DEF SealTypes, Before
<1>7. OneTurn
  BY <1>1, <1>2 DEF OneTurn, S!Verbs
<1>8. Handlers
  BY <1>1, <1>2 DEF Handlers, After, Inside, Private
<1>9. Exchange /\ Honest /\ S!ToldIsTrue
  BY <1>1, <1>2 DEF Exchange, Honest, S!ToldIsTrue, After, Inside, Private
<1> QED
  BY <1>6, <1>7, <1>8, <1>9 DEF SealInv

LEMMA SealInvStep == S!SecurityAssumption /\ SealInv /\ [S!Next]_S!vars => SealInv'
<1> SUFFICES ASSUME S!SecurityAssumption, SealInv, [S!Next]_S!vars PROVE SealInv'
  OBVIOUS
<1> QED
  BY SealTypesStep, OneTurnStep, HandlersStep, ExchangeStep, HonestStep, ToldStep DEF SealInv

LEMMA SealsUnderstood == S!SecurityAssumption /\ SealInv => S!Understood
<1> SUFFICES ASSUME S!SecurityAssumption, SealTypes, OneTurn, Handlers, Exchange PROVE S!Understood
  BY DEF SealInv
<1>1. stream # "gone" /\ (S!IsAuthenticated(sec) /\ sec.from # sealed.own => passive)
  BY DEF Handlers
<1>2. S!LoggedIn /\ in # Nothing => S!n = in.code
  BY RepliesOpened DEF S!LoggedIn, Exchange, After, Inside, Private
<1>3. ASSUME S!LoggedIn, out # Nothing
      PROVE  IF S!IsAuthenticated(sec)
             THEN /\ S!Reads(out.seal) /\ srv.key = sec.key
                  /\ out.seal.type = IF out.verb \in {"KAUTH", "TICKET"} THEN "private" ELSE "safe"
             ELSE out.seal = S!Plain
  <2>1. place \in Inside /\ place \in After /\ out.verb = place /\ out.seal = OurSeal(place)
    BY <1>3 DEF S!LoggedIn, OneTurn, Exchange, After, Inside, Private
  <2>2. Safe.type = "safe" /\ Priv.type = "private"
    BY DEF Safe, Priv, S!krb_mk_safe, S!krb_mk_priv
  <2>3. S!IsAuthenticated(sec) => S!Reads(Safe) /\ S!Reads(Priv) /\ srv.key = sec.key
    BY <2>1, PrivIsHeard DEF Exchange, Heard, Handlers, Opened
  <2> QED
    BY <2>1, <2>2, <2>3 DEF OurSeal, Private
<1> QED
  BY <1>1, <1>2, <1>3 DEF S!Understood, S!n

\* Everything the invariant is made of holds in every session the ftp client
\* can have: the state of FTPWorker, of its handler and of the server agree.
THEOREM SealInvAlways == S!SecurityAssumption => (S!Spec => []SealInv)
<1> SUFFICES ASSUME S!SecurityAssumption PROVE S!Spec => []SealInv
  OBVIOUS
<1>1. S!Init => SealInv
  BY SealInvInit
<1>2. SealInv /\ [S!Next]_S!vars => SealInv'
  BY SealInvStep
<1> QED
  BY <1>1, <1>2, PTL DEF S!Spec

\* Once FTPWorker::Login has succeeded the program and the server open each
\* other's seals, for any addresses, translator, firewall, krb.equiv and
\* settings, and however often the connection is retried.
THEOREM LoginIsUnderstood == S!SecurityAssumption => (S!Spec => []S!Understood)
<1> SUFFICES ASSUME S!SecurityAssumption PROVE S!Spec => []S!Understood
  OBVIOUS
<1>1. SealInv => S!Understood
  BY SealsUnderstood
<1>2. S!Spec => []SealInv
  BY SealInvAlways
<1> QED
  BY <1>1, <1>2, PTL

\* What the parser tells the user of a command concerning tickets is what
\* became of it at the server, and the right password gets him tickets there.
THEOREM TellsTheTruth == S!SecurityAssumption => (S!Spec => []S!ToldIsTrue)
<1> SUFFICES ASSUME S!SecurityAssumption PROVE S!Spec => []S!ToldIsTrue
  OBVIOUS
<1>1. SealInv => S!ToldIsTrue
  BY DEF SealInv
<1>2. S!Spec => []SealInv
  BY SealInvAlways
<1> QED
  BY <1>1, <1>2, PTL

-----------------------------------------------------------------------------
(* Sessions of transfers and sessions of seals: a session of transfers leaves *)
(* the state of the seals as it is.                                          *)

LEMMA SealsSpec == MCSpec => S!Spec
<1>1. MCInit => S!Init
  BY DEF MCInit
<1>2. [MCNext]_<<grain, fvars, svars>> => [S!Next]_S!vars
  BY Zenon DEF MCNext, svars, S!vars, S!machine
<1> QED
  BY <1>1, <1>2, PTL DEF MCSpec, S!Spec

\* Whatever the sessions that are checked together, once FTPWorker::Login has
\* succeeded with a ticket the ends open each other's seals.
THEOREM SessionsUnderstood == MCSpec => []Understood
<1> QED
  BY SealedAssumption, SealsSpec, LoginIsUnderstood, PTL DEF Understood

\* What the parser tells of a command about tickets is what became of it at the
\* server, whatever the sessions that are checked together.
THEOREM SessionsTellTheTruth == MCSpec => []ToldIsTrue
<1> QED
  BY SealedAssumption, SealsSpec, TellsTheTruth, PTL DEF ToldIsTrue
=============================================================================
