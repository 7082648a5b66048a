------------------------------ MODULE SendPath ------------------------------
(***************************************************************************)
(* The way out: Send, TryResend and SendPossible of a telnet and of a      *)
(* serial connection, with the callers of TerminalEmulator.  What the      *)
(* system did not take at once is kept in UnsentData; as long as it is     *)
(* there nothing new is sent.  Translation and encryption happen once,     *)
(* before the first attempt, so a byte is named by its place among the     *)
(* bytes that were accepted: the peer can decrypt the stream only if it    *)
(* gets exactly these bytes in this order.                                 *)
(*                                                                         *)
(* All callers run on the window's thread; the reading thread only closes  *)
(* the socket.  The system's answer to a write is taken as it comes: all,  *)
(* nothing or a part.  A part of what was left over is not always counted  *)
(* as it should be, and a history variable says when that has happened.    *)
(***************************************************************************)
EXTENDS Integers, Sequences

CONSTANTS
  PasteLength,   \* how many characters the user pastes
  FileLength,    \* how many bytes the file has that the user sends
  FileBlock,     \* how many of them IdleAction reads at once
  Replies,       \* the lengths of keys and option replies
  MaxAccepted    \* bound on the bytes accepted

SendAssumption ==
  /\ PasteLength \in Nat /\ FileLength \in Nat /\ FileBlock \in Nat \ {0}
  /\ Replies \subseteq Nat \ {0}
  /\ MaxAccepted \in Nat /\ PasteLength + FileLength <= MaxAccepted

VARIABLES
  serial,   \* a serial connection, or a telnet one
  open,     \* mSocket, handle: is the connection open
  unsent,   \* UnsentData with UnsentSize and UnsentOffset, at most one
  accepted, \* how many bytes Send has accepted
  wire,     \* the bytes the system has taken
  paste,    \* characters of the paste still to go
  file,     \* bytes of the file still to go
  asked,    \* who was told by SendPossible to go on, and has not sent yet
  refused,  \* has Send refused a block that SendPossible had allowed
  miscounted \* has a part been taken of which UnsentSize is not told right

vars == <<serial, open, unsent, accepted, wire, paste, file, asked, refused, miscounted>>

Init ==
  /\ serial \in BOOLEAN
  /\ open = TRUE
  /\ unsent = {}
  /\ accepted = 0 /\ wire = <<>>
  /\ paste = PasteLength /\ file = FileLength
  /\ asked = "nobody" /\ refused = FALSE /\ miscounted = FALSE

-----------------------------------------------------------------------------
(* The system *)

\* SOCKET_ERROR, or no BytesWritten in the time a serial line gives it.
Fails == IF serial THEN 0 ELSE -1

\* What a write of len bytes may return.
Answers(len) ==
  CASE len < 0 \/ ~open -> {Fails}
    [] len = 0          -> {0}
    [] OTHER            -> {Fails} \cup 1 .. len

Taken(answer) == IF answer < 0 THEN 0 ELSE answer

-----------------------------------------------------------------------------
(* The connection: an attempt maps what is on the wire and unsent to the same *)

Attempt(w, u, m) == [wire |-> w, unsent |-> u, miscounted |-> m]

\* Is the answer a part of len?
Part(answer, len) == answer > 0 /\ answer < len

Left(u) == u.size - u.offset

\* What TryResend keeps when the answer is not all that was left.  A count below
\* zero only sinks further, and is kept as it is to bound it.
LeftAfter(p, u, answer) ==
  IF serial /\ Left(u) < 0 THEN u
  ELSE IF serial
    THEN [u EXCEPT !.size = Left(u) - Taken(answer), !.offset = @ + Taken(answer)]
    ELSE IF answer < 0 THEN u
         ELSE [u EXCEPT !.size = Left(u), !.offset = @ + answer]

\* UnsentSize is the whole block's for a telnet connection, until what is left
\* is taken in part and it is what was left; a serial one takes off both what
\* is left and where it begins.
Miscounts(u, answer) == Part(answer, Left(u)) /\ (serial \/ u.offset > 0)

TryResend(p, answer) ==
  LET u == CHOOSE v \in p.unsent : TRUE
      sent == SubSeq(u.data, u.offset + 1, u.offset + Taken(answer))
  IN Attempt(p.wire \o sent,
             IF answer = Left(u) THEN {} ELSE {LeftAfter(p, u, answer)},
             p.miscounted \/ Miscounts(u, answer))

ResendAnswers(p) ==
  IF p.unsent = {} THEN {}
  ELSE Answers(Left(CHOOSE u \in p.unsent : TRUE))

\* Every attempt that TryResend may end in; none is needed without UnsentData.
AfterTryResend(p) ==
  IF p.unsent = {} THEN {p}
  ELSE {TryResend(p, answer) : answer \in ResendAnswers(p)}

\* A slip: SendPossible only looks.
ResendLook(p) == {p}

\* SendPossible tries to send what is left first; it allows a new block when
\* the connection is open and nothing is left.
Resend(p) == AfterTryResend(p)

\* A slip: what is left does not keep a new block from being sent.
PossibleAlways(p) == open

Possible(p) == open /\ p.unsent = {}

\* What Send keeps of a block of which n bytes were taken.
Kept(block, n) ==
  [data |-> block, size |-> Len(block) - (IF serial THEN n ELSE 0), offset |-> n]

\* Send itself, with nothing unsent.
FirstWrite(p, block) ==
  {Attempt(p.wire \o SubSeq(block, 1, Taken(answer)),
           IF answer = Len(block) THEN {} ELSE {Kept(block, Taken(answer))},
           p.miscounted \/ (serial /\ Part(answer, Len(block))))
   : answer \in Answers(Len(block))}

Now == Attempt(wire, unsent, miscounted)
Become(p) == wire' = p.wire /\ unsent' = p.unsent /\ miscounted' = p.miscounted

\* The bytes of a new block, named by their place.
Fresh(n) == [i \in 1..n |-> accepted + i]

\* A slip: Send does not look whether something is unsent.
RefusesNot(p) == FALSE

Refuses(p) == p.unsent # {}

\* A block is refused, with a beep, while something is unsent or when there is
\* no connection; a serial connection is never without its handle.
SendRefused(p) == Refuses(p) \/ (~serial /\ ~open)

\* Send(str, n): what it leaves behind, given where TryResend ended.
SendFrom(p, n) ==
  IF SendRefused(p)
    THEN Become(p) /\ UNCHANGED accepted
    ELSE /\ \E q \in FirstWrite(p, Fresh(n)) : Become(q)
         /\ accepted' = accepted + n

-----------------------------------------------------------------------------
(* The callers *)

\* A key, or the answer of a telnet option: sent without asking.  The bound on
\* the bytes leaves room for the paste and the file.
SendReply(n) ==
  /\ asked = "nobody"
  /\ accepted + n + paste + file <= MaxAccepted
  /\ \E p \in AfterTryResend(Now) : SendFrom(p, n)
  /\ UNCHANGED <<serial, open, paste, file, asked, refused>>

\* SendPossible, on behalf of who.
Ask(who) ==
  \E p \in Resend(Now) :
    /\ Become(p)
    /\ asked' = IF Possible(p) THEN who ELSE "nobody"
    /\ UNCHANGED <<serial, open, accepted, paste, file, refused>>

\* The Send that follows, which looks again.
SendAsked(n) ==
  /\ \E p \in AfterTryResend(Now) :
       /\ SendFrom(p, n)
       /\ refused' = (refused \/ SendRefused(p))
  /\ asked' = "nobody"
  /\ UNCHANGED <<serial, open>>

\* The loop of CmEditPaste asks, or gives up without a connection.
PasteAsk   == asked = "nobody" /\ paste > 0 /\ open /\ Ask("paste")
PasteGiveUp ==
  /\ asked = "nobody" /\ paste > 0 /\ ~open
  /\ paste' = 0
  /\ UNCHANGED <<serial, open, unsent, accepted, wire, file, asked, refused, miscounted>>
PasteSend ==
  /\ asked = "paste"
  /\ SendAsked(1)
  /\ paste' = paste - 1
  /\ UNCHANGED file

\* IdleAction asks, reads a block of the file and sends it.
FileAsk  == asked = "nobody" /\ file > 0 /\ Ask("file")
FileSend ==
  LET n == IF file < FileBlock THEN file ELSE FileBlock IN
  /\ asked = "file"
  /\ SendAsked(n)
  /\ file' = file - n
  /\ UNCHANGED paste

\* CancelFlag, seen when IdleAction begins.
FileCancel ==
  /\ asked = "nobody" /\ file > 0
  /\ file' = 0
  /\ UNCHANGED <<serial, open, unsent, accepted, wire, paste, asked, refused, miscounted>>

\* The reading thread finds the connection closed, at any time.
PeerCloses ==
  /\ ~serial /\ open
  /\ open' = FALSE
  /\ UNCHANGED <<serial, unsent, accepted, wire, paste, file, asked, refused, miscounted>>

Next ==
  \/ \E n \in Replies : SendReply(n)
  \/ PasteAsk \/ PasteGiveUp \/ PasteSend
  \/ FileAsk \/ FileSend \/ FileCancel
  \/ PeerCloses

\* The loop never pauses, a block that was asked for is sent, and a system that
\* is asked again and again takes all that is left once in a while.
Fairness ==
  /\ WF_vars(PasteAsk) /\ WF_vars(PasteGiveUp)
  /\ WF_vars(PasteSend) /\ WF_vars(FileSend)
  /\ SF_vars(PasteAsk /\ unsent' = {})

Spec     == Init /\ [][Next]_vars
FairSpec == Spec /\ Fairness

-----------------------------------------------------------------------------
(* Properties *)

AcceptedIsKept ==
  /\ \A i \in 1..Len(wire) : wire[i] = i
  /\ IF unsent = {}
       THEN Len(wire) = accepted
       ELSE \A u \in unsent :
              /\ u.offset < Len(u.data) /\ u.data[Len(u.data)] = accepted
              /\ u.data[u.offset + 1] = Len(wire) + 1

AskedIsAccepted == refused => ~open

\* The bytes that were accepted reach the system in their order, none twice;
\* those that have not are exactly the ones kept in UnsentData, unless a part of
\* them was taken that is not counted right.  In any case a block for
\* which SendPossible was asked is refused, and lost with a beep, only when the
\* connection was closed in between.
NothingLost == (~miscounted => AcceptedIsKept) /\ AskedIsAccepted

\* The loop of CmEditPaste comes to an end, unless a part was not counted right.
PasteEnds == <>(paste = 0 \/ miscounted)
=============================================================================
