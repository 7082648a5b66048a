------------------------- MODULE TelnetPathsProofs -------------------------
(***************************************************************************)
(* The way out, for any lengths of pastes, files, blocks and replies.      *)
(*                                                                         *)
(* A block that SendPossible allowed is accepted on any link, as long as   *)
(* it stays open, and the peer gets exactly what was accepted until a part *)
(* of what was left is not counted right.  NothingLost alone is not        *)
(* inductive: it looks at the next and at the last byte kept only.  Kept_  *)
(* says of every byte which one it is, that UnsentSize is the whole        *)
(* block's, and that a serial line has no offset yet.                      *)
(*                                                                         *)
(* The encrypted way in, for any text, any cut of it into blocks, any size *)
(* of the chunks and any moment at which the blocks arrive, until one of   *)
(* the ways of Misses happens.  The invariant says of every byte that has  *)
(* arrived and is still to be shown what form it has (Decoded): up to Deep *)
(* it has been through the engine in its place, wanted or not, and behind  *)
(* Deep it is as it came.  That is enough to take it back at an END, since *)
(* lastIn holds the last of these bytes as they came.                      *)
(*                                                                         *)
(* The ciphers, for any S boxes and permutations, any blocks, keys and     *)
(* cuts of the text into calls.  A round is undone by itself, so the       *)
(* sixteen are undone in the other order, and so are three times sixteen.  *)
(* That the two ends of a chain stay together is inductive only with what  *)
(* each unit met on its way in (Meets): the chain that the unit before it  *)
(* left, or the first one again where nothing is written back.             *)
(***************************************************************************)
EXTENDS MCTelnetPaths, FiniteSetTheorems, SequenceTheorems, TLAPS

-----------------------------------------------------------------------------
(* The way out *)

LEMMA SendGiven ==
  /\ PasteLength \in Nat /\ FileLength \in Nat /\ FileBlock \in Nat \ {0}
  /\ Replies \subseteq Nat \ {0}
  /\ MaxAccepted \in Nat /\ PasteLength + FileLength <= MaxAccepted
BY PathsAssumption DEF O!SendAssumption

-----------------------------------------------------------------------------
(* A block that was allowed *)

AskInv ==
  /\ open \in BOOLEAN /\ refused \in BOOLEAN
  /\ asked \in {"nobody", "paste", "file"}
  /\ asked # "nobody" => unsent = {}
  /\ refused => ~open

LEMMA AskInit == O!Init => AskInv
BY DEF O!Init, AskInv

\* Between SendPossible and the Send that follows nothing can become unsent, so
\* Send refuses only without a socket.
LEMMA AskedStep ==
  ASSUME AskInv, NEW n, asked # "nobody", O!SendAsked(n)
  PROVE  AskInv'
<1>1. O!AfterTryResend(O!Now) = {O!Now} /\ O!Now.unsent = {}
  BY DEF AskInv, O!AfterTryResend, O!Now, O!Attempt
<1>2. refused' = (refused \/ O!SendRefused(O!Now))
  BY <1>1 DEF O!SendAsked
<1>3. O!SendRefused(O!Now) => ~open
  BY <1>1 DEF O!SendRefused, O!Refuses
<1> QED
  BY <1>2, <1>3 DEF AskInv, O!SendAsked

LEMMA AskStep == AskInv /\ [O!Next]_O!vars => AskInv'
<1> SUFFICES ASSUME AskInv, [O!Next]_O!vars PROVE AskInv'
  OBVIOUS
<1>1. ASSUME NEW n \in Replies, O!SendReply(n) PROVE AskInv'
  BY <1>1 DEF AskInv, O!SendReply
<1>2. ASSUME NEW who \in {"paste", "file"}, O!Ask(who) PROVE AskInv'
  BY <1>2 DEF AskInv, O!Ask, O!Become, O!Possible
<1>3. CASE O!PasteSend \/ O!FileSend
  BY <1>3, AskedStep DEF O!PasteSend, O!FileSend
<1>4. CASE O!PasteGiveUp \/ O!FileCancel \/ UNCHANGED O!vars
  <2>1. UNCHANGED <<open, unsent, asked, refused>>
    BY <1>4 DEF O!PasteGiveUp, O!FileCancel, O!vars
  <2> QED
    BY <2>1 DEF AskInv
<1>5. CASE O!PeerCloses
  <2>1. open' = FALSE /\ UNCHANGED <<unsent, asked, refused>>
    BY <1>5 DEF O!PeerCloses
  <2> QED
    BY <2>1 DEF AskInv
<1> QED
  BY <1>1, <1>2, <1>3, <1>4, <1>5 DEF O!Next, O!PasteAsk, O!FileAsk

\* On any link and for any lengths: when Send refuses a block for which
\* SendPossible was asked, the connection was closed in between.
THEOREM AllowedIsAccepted == O!Spec => []O!AskedIsAccepted
<1>1. AskInv => O!AskedIsAccepted
  BY DEF AskInv, O!AskedIsAccepted
<1> QED
  BY <1>1, AskInit, AskStep, PTL DEF O!Spec

-----------------------------------------------------------------------------
(* What is kept *)

\* Consecutive bytes, the first of them behind the given number of others.
Run(bytes, behind) ==
  bytes \in Seq(Nat) /\ \A i \in 1..Len(bytes) : bytes[i] = behind + i

Block(u) ==
  /\ u \in [data : Seq(Nat), size : Nat, offset : Nat]
  /\ u.size = Len(u.data) /\ u.offset < u.size
  /\ serial => u.offset = 0

\* Of a bytes accepted the first are on the wire and the others in the block
\* that is unsent.
Kept_(w, u, a) ==
  /\ Block(u)
  /\ Len(w) = a - u.size + u.offset
  /\ u.size <= a /\ Run(u.data, a - u.size)

AllKept(p, a) ==
  /\ Run(p.wire, 0)
  /\ \/ p.unsent = {} /\ Len(p.wire) = a
     \/ \E u : p.unsent = {u} /\ Kept_(p.wire, u, a)

\* So it is until a part is not counted right.
KeptOrNot(p, a) == p.miscounted \/ AllKept(p, a)

\* A run from the beginning goes on where it ends.
LEMMA RunJoined ==
  ASSUME NEW s, NEW t, Run(s, 0), Run(t, Len(s))
  PROVE  Run(s \o t, 0) /\ Len(s \o t) = Len(s) + Len(t)
BY ConcatProperties, LenProperties DEF Run

\* A piece of a run.
LEMMA RunPiece ==
  ASSUME NEW a \in Nat, NEW s, Run(s, a), NEW from \in Nat, NEW to \in Nat,
         from <= to, to <= Len(s)
  PROVE  /\ Run(SubSeq(s, from + 1, to), a + from)
         /\ Len(SubSeq(s, from + 1, to)) = to - from
<1>1. Len(s) \in Nat /\ \A i \in from + 1 .. to : s[i] \in Nat
  BY LenProperties, ElementOfSeq DEF Run
<1>2. from + 1 \in Int /\ to \in Int
  OBVIOUS
<1>3. /\ SubSeq(s, from + 1, to) \in Seq(Nat)
      /\ Len(SubSeq(s, from + 1, to)) = to - from
      /\ \A i \in 1 .. to - from : SubSeq(s, from + 1, to)[i] = s[from + i]
  <2> DEFINE f == from + 1
  <2>1. /\ SubSeq(s, f, to) \in Seq(Nat)
        /\ Len(SubSeq(s, f, to)) = IF f <= to THEN to - f + 1 ELSE 0
        /\ \A i \in 1 .. to - f + 1 : SubSeq(s, f, to)[i] = s[f + i - 1]
    BY <1>1, <1>2, SubSeqProperties
  <2>2. to - f + 1 = to - from /\ \A i \in Int : f + i - 1 = from + i
    OBVIOUS
  <2> QED
    BY <2>1, <2>2
<1> QED
  BY <1>1, <1>3 DEF Run

LEMMA RunHead ==
  ASSUME NEW a \in Nat, NEW s, Run(s, a), NEW to \in Nat, to <= Len(s)
  PROVE  Run(SubSeq(s, 1, to), a) /\ Len(SubSeq(s, 1, to)) = to
<1>1. PICK from \in Nat : from = 0
  OBVIOUS
<1>2. from <= to
  BY <1>1
<1>3. Run(SubSeq(s, from + 1, to), a + from) /\ Len(SubSeq(s, from + 1, to)) = to - from
  BY <1>2, RunPiece
<1> QED
  BY <1>1, <1>3

LEMMA FreshRun ==
  ASSUME accepted \in Nat, NEW n \in Nat
  PROVE  Run(O!Fresh(n), accepted) /\ Len(O!Fresh(n)) = n
<1>1. \A i \in 1..n : accepted + i \in Nat
  OBVIOUS
<1>2. [i \in 1..n |-> accepted + i] \in Seq(Nat)
  BY <1>1, IsASeq
<1> QED
  BY <1>2 DEF O!Fresh, Run

\* What TryResend may leave: the same bytes, further on or not.
LEMMA ResendKeeps ==
  ASSUME serial \in BOOLEAN, NEW a \in Nat, NEW p, KeptOrNot(p, a),
         NEW q \in O!AfterTryResend(p)
  PROVE  KeptOrNot(q, a)
<1>3. CASE p.miscounted
  <2>1. CASE p.unsent = {}
    BY <2>1, <1>3 DEF O!AfterTryResend, KeptOrNot
  <2>2. CASE p.unsent # {}
    <3>1. PICK answer \in O!ResendAnswers(p) : q = O!TryResend(p, answer)
      BY <2>2 DEF O!AfterTryResend
    <3>2. PICK w, v, m : q = O!Attempt(w, v, p.miscounted \/ m)
      BY <3>1, Zenon DEF O!TryResend
    <3>3. q.miscounted = (p.miscounted \/ m)
      BY <3>2 DEF O!Attempt
    <3> QED
      BY <3>3, <1>3 DEF KeptOrNot
  <2> QED
    BY <2>1, <2>2
<1>4. SUFFICES ASSUME ~p.miscounted, AllKept(p, a), ~q.miscounted PROVE AllKept(q, a)
  BY <1>3 DEF KeptOrNot
<1>1. CASE p.unsent = {}
  BY <1>1, <1>4 DEF O!AfterTryResend
<1>2. CASE p.unsent # {}
  <2>1. PICK u : p.unsent = {u} /\ Kept_(p.wire, u, a)
    BY <1>2, <1>4 DEF AllKept
  <2>2. (CHOOSE v \in p.unsent : TRUE) = u
    BY <2>1
  <2>3. /\ u.data \in Seq(Nat) /\ u.size = Len(u.data) /\ u.offset \in Nat
        /\ u.offset < u.size /\ u.size \in Nat /\ O!Left(u) = u.size - u.offset
        /\ u = [data |-> u.data, size |-> u.size, offset |-> u.offset]
        /\ serial => u.offset = 0
    BY <2>1 DEF Kept_, Block, O!Left
  <2>4. PICK answer \in {O!Fails} \cup 1 .. O!Left(u) : q = O!TryResend(p, answer)
    <3>1. O!Answers(O!Left(u)) \subseteq {O!Fails} \cup 1 .. O!Left(u)
      BY <2>3 DEF O!Answers
    <3> QED
      BY <1>2, <2>2, <3>1 DEF O!AfterTryResend, O!ResendAnswers
  <2>5. q = O!Attempt(p.wire \o SubSeq(u.data, u.offset + 1, u.offset + O!Taken(answer)),
                    IF answer = O!Left(u) THEN {} ELSE {O!LeftAfter(p, u, answer)},
                    p.miscounted \/ O!Miscounts(u, answer))
    BY <2>2, <2>4 DEF O!TryResend
  <2>10. /\ q.wire = p.wire \o SubSeq(u.data, u.offset + 1, u.offset + O!Taken(answer))
         /\ q.unsent = IF answer = O!Left(u) THEN {} ELSE {O!LeftAfter(p, u, answer)}
    BY <2>5 DEF O!Attempt
  <2>9. ~O!Miscounts(u, answer)
    BY <2>5, <1>4 DEF O!Attempt
  <2>6. CASE answer = O!Left(u)
    <3> DEFINE sent == SubSeq(u.data, u.offset + 1, u.size)
    <3>1. O!Taken(answer) = u.size - u.offset /\ u.offset + (u.size - u.offset) = u.size
      BY <2>3, <2>6 DEF O!Taken
    <3>2. q.wire = p.wire \o sent /\ q.unsent = {}
      BY <2>5, <2>6, <3>1 DEF O!Attempt
    <3>3. Run(p.wire, 0) /\ Len(p.wire) = a - u.size + u.offset
      BY <2>1, <1>4 DEF AllKept, Kept_
    <3>4. PICK b \in Nat : b = a - u.size /\ Run(u.data, b)
      BY <2>1, <2>3 DEF Kept_
    <3>5. Run(sent, b + u.offset) /\ Len(sent) = u.size - u.offset
      <4>1. u.offset \in Nat /\ u.size \in Nat /\ u.offset <= u.size /\ u.size <= Len(u.data)
        BY <2>3
      <4> QED
        BY <3>4, <4>1, RunPiece
    <3> HIDE DEF sent
    <3>6. Len(p.wire) = b + u.offset /\ Len(p.wire) + (u.size - u.offset) = a
      BY <2>3, <3>3, <3>4
    <3>7. Run(p.wire \o sent, 0) /\ Len(p.wire \o sent) = a
      BY <3>3, <3>5, <3>6, RunJoined
    <3> QED
      BY <3>2, <3>7 DEF AllKept
  <2>7. CASE answer = O!Fails
    <3>1. O!Taken(answer) = 0 /\ answer # O!Left(u) /\ O!Left(u) > 0
      BY <2>3, <2>7 DEF O!Taken, O!Fails
    <3>2. SubSeq(u.data, u.offset + 1, u.offset + O!Taken(answer)) = <<>>
      BY <2>3, <3>1, SubSeqEmpty
    <3>3. p.wire \o <<>> = p.wire
      BY <1>4, ConcatEmptySeq DEF AllKept, Run
    <3>4. O!LeftAfter(p, u, answer) = u
      <4>1. CASE ~serial
        BY <2>7, <4>1 DEF O!LeftAfter, O!Fails
      <4>2. CASE serial
        <5>1. O!Left(u) - O!Taken(answer) = u.size /\ u.offset + O!Taken(answer) = u.offset
          BY <2>3, <3>1, <4>2
        <5>2. O!LeftAfter(p, u, answer) = [u EXCEPT !.size = u.size, !.offset = u.offset]
          BY <4>2, <5>1, <3>1, <2>3 DEF O!LeftAfter
        <5> QED
          BY <2>3, <5>2
      <4> QED
        BY <4>1, <4>2
    <3>5. q.wire = p.wire /\ q.unsent = {u}
      BY <2>5, <3>1, <3>2, <3>3, <3>4 DEF O!Attempt
    <3> QED
      BY <2>1, <3>5, <1>4 DEF AllKept
  <2>8. CASE answer > 0 /\ answer < O!Left(u)
    <3>1. ~serial /\ u.offset = 0 /\ answer \in Nat /\ O!Left(u) = u.size
      BY <2>3, <2>4, <2>8, <2>9 DEF O!Miscounts, O!Part, O!Fails
    <3> DEFINE sent == SubSeq(u.data, 1, answer)
               v == [data |-> u.data, size |-> u.size, offset |-> answer]
    <3>2. O!LeftAfter(p, u, answer) = v
      <4>1. O!LeftAfter(p, u, answer) = [u EXCEPT !.size = u.size, !.offset = answer]
        <5>1. ~(answer < 0) /\ u.offset + answer = answer
          BY <3>1, <2>8
        <5> QED
          BY <3>1, <5>1 DEF O!LeftAfter
      <4> QED
        BY <4>1, <2>3
    <3>3. q.wire = p.wire \o sent /\ q.unsent = {v}
      <4>1. O!Taken(answer) = answer /\ u.offset + 1 = 1 /\ u.offset + answer = answer
        BY <3>1, <2>8 DEF O!Taken
      <4> QED
        BY <4>1, <2>3, <2>8, <2>10, <3>1, <3>2
    <3>4. PICK b \in Nat : b = a - u.size /\ Run(u.data, b)
      BY <2>1, <2>3 DEF Kept_
    <3>5. Run(p.wire, 0) /\ Len(p.wire) = b
      BY <2>1, <2>3, <1>4, <3>1, <3>4 DEF AllKept, Kept_
    <3>6. Run(sent, b) /\ Len(sent) = answer
      <4>1. answer \in Nat /\ answer <= Len(u.data)
        BY <3>1, <2>3, <2>8
      <4> QED
        BY <4>1, <3>4, RunHead
    <3> HIDE DEF sent
    <3>7. Run(p.wire \o sent, 0) /\ Len(p.wire \o sent) = b + answer
      BY <3>5, <3>6, RunJoined
    <3>8. Kept_(q.wire, v, a)
      BY <3>1, <3>3, <3>4, <3>7, <2>1, <2>3, <2>8 DEF Kept_, Block
    <3> QED
      BY <3>3, <3>7, <3>8 DEF AllKept
  <2> QED
    BY <2>3, <2>4, <2>6, <2>7, <2>8
<1> QED
  BY <1>1, <1>2

\* What the first write of a new block may leave.
LEMMA FirstWriteKeeps ==
  ASSUME serial \in BOOLEAN, accepted \in Nat, NEW n \in Nat \ {0},
         NEW p, KeptOrNot(p, accepted), p.unsent = {},
         NEW q \in O!FirstWrite(p, O!Fresh(n))
  PROVE  KeptOrNot(q, accepted + n)
<1> DEFINE block == O!Fresh(n)
<1>1. Run(block, accepted) /\ Len(block) = n
  BY FreshRun
<1>9. SUFFICES ASSUME ~q.miscounted PROVE AllKept(q, accepted + n)
  BY DEF KeptOrNot
<1> HIDE DEF block
<1>3. PICK answer \in O!Answers(n) :
        q = O!Attempt(p.wire \o SubSeq(block, 1, O!Taken(answer)),
                    IF answer = n THEN {} ELSE {O!Kept(block, O!Taken(answer))},
                    p.miscounted \/ (serial /\ O!Part(answer, n)))
  BY <1>1 DEF O!FirstWrite, block
<1>10. ~p.miscounted /\ ~(serial /\ O!Part(answer, n))
  BY <1>3, <1>9 DEF O!Attempt
<1>2. Run(p.wire, 0) /\ Len(p.wire) = accepted
  BY <1>10 DEF KeptOrNot, AllKept
<1> DEFINE t == O!Taken(answer)
<1>4. /\ t \in 0..n /\ (answer = n => t = n) /\ (answer # n => t < n)
      /\ serial /\ answer # n => t = 0
  BY <1>10 DEF O!Answers, O!Taken, O!Part, O!Fails
<1> HIDE DEF t
<1>5. Run(SubSeq(block, 1, t), accepted) /\ Len(SubSeq(block, 1, t)) = t
  <2>1. t \in Nat /\ t <= Len(block)
    BY <1>1, <1>4
  <2> QED
    BY <1>1, <2>1, RunHead
<1>6. /\ Run(p.wire \o SubSeq(block, 1, t), 0)
      /\ Len(p.wire \o SubSeq(block, 1, t)) = accepted + t
  BY <1>2, <1>5, RunJoined
<1>7. CASE answer = n
  BY <1>3, <1>4, <1>6, <1>7 DEF AllKept, O!Attempt, t
<1>8. CASE answer # n
  <2>1. O!Kept(block, t) = [data |-> block, size |-> n, offset |-> t]
    BY <1>1, <1>4, <1>8 DEF O!Kept
  <2>2. Kept_(p.wire \o SubSeq(block, 1, t), O!Kept(block, t), accepted + n)
    BY <1>1, <1>4, <1>6, <1>8, <2>1 DEF Kept_, Block, Run
  <2> QED
    BY <1>3, <1>6, <1>8, <2>2 DEF AllKept, O!Attempt, t
<1> QED
  BY <1>7, <1>8

-----------------------------------------------------------------------------
(* The bytes that were accepted *)

SendInv ==
  /\ serial \in BOOLEAN
  /\ asked \in {"nobody", "paste", "file"}
  /\ accepted \in Nat
  /\ paste \in Nat /\ file \in Nat
  /\ asked = "paste" => paste > 0
  /\ asked = "file" => file > 0
  /\ accepted + paste + file <= MaxAccepted
  /\ KeptOrNot(O!Now, accepted)

LEMMA SendInit == O!Init => SendInv
<1> SUFFICES ASSUME O!Init PROVE SendInv
  OBVIOUS
<1>1. Run(<<>>, 0) /\ Len(<<>>) = 0
  BY EmptySeq DEF Run
<1>2. KeptOrNot(O!Now, accepted)
  BY <1>1 DEF O!Init, KeptOrNot, AllKept, O!Now, O!Attempt
<1> QED
  BY <1>2, SendGiven DEF O!Init, SendInv

\* A block of n bytes is accepted, or nothing changes in what was accepted.
LEMMA SendFromKeeps ==
  ASSUME SendInv, NEW n \in Nat \ {0},
         NEW p \in O!AfterTryResend(O!Now), O!SendFrom(p, n), UNCHANGED serial
  PROVE  /\ KeptOrNot(O!Now, accepted)'
         /\ accepted' \in {accepted, accepted + n}
<1>1. serial \in BOOLEAN /\ accepted \in Nat /\ KeptOrNot(p, accepted)
  BY SendGiven, ResendKeeps DEF SendInv
<1>2. CASE O!SendRefused(p)
  <2>1. wire' = p.wire /\ unsent' = p.unsent /\ miscounted' = p.miscounted /\ accepted' = accepted
    BY <1>2 DEF O!SendFrom, O!Become
  <2> QED
    BY <1>1, <2>1 DEF KeptOrNot, AllKept, O!Now, O!Attempt, Kept_, Block
<1>3. CASE ~O!SendRefused(p)
  <2>1. PICK q \in O!FirstWrite(p, O!Fresh(n)) :
          wire' = q.wire /\ unsent' = q.unsent /\ miscounted' = q.miscounted /\ accepted' = accepted + n
    BY <1>3 DEF O!SendFrom, O!Become
  <2>2. KeptOrNot(q, accepted + n)
    BY <1>1, <1>3, FirstWriteKeeps DEF O!SendRefused, O!Refuses
  <2> QED
    BY <2>1, <2>2 DEF KeptOrNot, AllKept, O!Now, O!Attempt, Kept_, Block
<1> QED
  BY <1>2, <1>3

LEMMA AskKeeps ==
  ASSUME SendInv, NEW who \in {"paste", "file"},
         asked = "nobody", who = "paste" => paste > 0, who = "file" => file > 0,
         O!Ask(who)
  PROVE  SendInv'
<1>1. PICK p \in O!AfterTryResend(O!Now) :
        /\ wire' = p.wire /\ unsent' = p.unsent /\ miscounted' = p.miscounted
        /\ asked' \in {who, "nobody"}
        /\ UNCHANGED <<serial, accepted, paste, file>>
  BY DEF O!Ask, O!Become, O!Resend
<1>2. KeptOrNot(p, accepted)
  BY ResendKeeps DEF SendInv
<1>3. KeptOrNot(O!Now, accepted)'
  BY <1>1, <1>2 DEF KeptOrNot, AllKept, O!Now, O!Attempt, Kept_, Block
<1> QED
  BY <1>1, <1>3 DEF SendInv

LEMMA SendAskedKeeps ==
  ASSUME SendInv, NEW n \in Nat \ {0}, O!SendAsked(n)
  PROVE  /\ KeptOrNot(O!Now, accepted)'
         /\ accepted' \in {accepted, accepted + n}
         /\ asked' = "nobody" /\ UNCHANGED serial
<1>1. UNCHANGED serial /\ asked' = "nobody"
  BY DEF O!SendAsked
<1>2. PICK p \in O!AfterTryResend(O!Now) : O!SendFrom(p, n)
  BY DEF O!SendAsked
<1> QED
  BY <1>1, <1>2, SendFromKeeps

LEMMA SendStep ==
  ASSUME SendInv, [O!Next]_O!vars
  PROVE  SendInv'
<1>2. ASSUME NEW n \in Replies, O!SendReply(n) PROVE SendInv'
  <2>1. /\ n \in Nat \ {0} /\ accepted + n + paste + file <= MaxAccepted
        /\ UNCHANGED <<serial, paste, file, asked>>
    BY <1>2, SendGiven DEF O!SendReply
  <2>2. PICK p \in O!AfterTryResend(O!Now) : O!SendFrom(p, n)
    BY <1>2 DEF O!SendReply
  <2>3. KeptOrNot(O!Now, accepted)' /\ accepted' \in {accepted, accepted + n}
    BY <2>1, <2>2, SendFromKeeps
  <2> QED
    BY <2>1, <2>3 DEF SendInv
<1>3. CASE O!PasteAsk \/ O!FileAsk
  BY <1>3, AskKeeps DEF O!PasteAsk, O!FileAsk
<1>4. CASE O!PasteSend
  <2>1. asked = "paste" /\ O!SendAsked(1) /\ paste' = paste - 1 /\ file' = file
    BY <1>4 DEF O!PasteSend
  <2>2. /\ KeptOrNot(O!Now, accepted)' /\ accepted' \in {accepted, accepted + 1}
        /\ asked' = "nobody" /\ UNCHANGED serial
    BY <2>1, SendAskedKeeps
  <2>3. /\ paste' \in Nat /\ accepted' \in Nat
        /\ accepted' + paste' + file' <= MaxAccepted
    <3>1. /\ accepted \in Nat /\ paste \in Nat /\ file \in Nat /\ MaxAccepted \in Nat
          /\ accepted + paste + file <= MaxAccepted /\ (asked = "paste" => paste > 0)
      BY SendGiven DEF SendInv
    <3>2. accepted' = accepted \/ accepted' = accepted + 1
      BY <2>2
    <3> QED
      BY <2>1, <3>1, <3>2
  <2> QED
    BY <2>1, <2>2, <2>3 DEF SendInv
<1>5. CASE O!FileSend
  <2>1. PICK n \in Nat \ {0} : /\ n <= file /\ O!SendAsked(n) /\ asked = "file"
                               /\ file' = file - n /\ paste' = paste
    <3>1. asked = "file" /\ file \in Nat /\ file > 0 /\ FileBlock \in Nat \ {0}
      BY <1>5, SendGiven DEF O!FileSend, SendInv
    <3> QED
      BY <1>5, <3>1 DEF O!FileSend
  <2>2. /\ KeptOrNot(O!Now, accepted)' /\ accepted' \in {accepted, accepted + n}
        /\ asked' = "nobody" /\ UNCHANGED serial
    BY <2>1, SendAskedKeeps
  <2>3. /\ file' \in Nat /\ accepted' \in Nat
        /\ accepted' + paste' + file' <= MaxAccepted
    <3>1. /\ accepted \in Nat /\ paste \in Nat /\ file \in Nat /\ MaxAccepted \in Nat
          /\ accepted + paste + file <= MaxAccepted /\ (asked = "paste" => paste > 0)
      BY SendGiven DEF SendInv
    <3>2. accepted' = accepted \/ accepted' = accepted + n
      BY <2>2
    <3> QED
      BY <2>1, <3>1, <3>2
  <2> QED
    BY <2>1, <2>2, <2>3 DEF SendInv
<1>6. CASE O!PasteGiveUp \/ O!FileCancel \/ O!PeerCloses \/ UNCHANGED O!vars
  <2>1. /\ UNCHANGED <<serial, accepted, wire, unsent, miscounted, asked>>
        /\ \/ paste' = 0 /\ asked = "nobody" /\ file' = file
           \/ file' = 0 /\ asked = "nobody" /\ paste' = paste
           \/ paste' = paste /\ file' = file
    BY <1>6 DEF O!PasteGiveUp, O!FileCancel, O!PeerCloses, O!vars
  <2>2. KeptOrNot(O!Now, accepted)'
    BY <2>1 DEF SendInv, KeptOrNot, AllKept, O!Now, O!Attempt, Kept_, Block
  <2>3. /\ paste' \in Nat /\ file' \in Nat
        /\ accepted' + paste' + file' <= MaxAccepted
    BY <2>1, SendGiven DEF SendInv
  <2> QED
    BY <2>1, <2>2, <2>3 DEF SendInv
<1> QED
  BY <1>2, <1>3, <1>4, <1>5, <1>6 DEF O!Next

\* On sockets and serial lines and for any lengths: what reaches the system is
\* what was accepted, in order, none twice, and what has not reached it is kept,
\* until a part is taken that Send or TryResend does not count right; and what was
\* allowed is accepted while the connection is open.
THEOREM NothingIsLost == O!Spec => []NothingLost
<1>1. SendInv /\ ~miscounted => O!AcceptedIsKept
  <2> SUFFICES ASSUME SendInv, ~miscounted PROVE O!AcceptedIsKept
    OBVIOUS
  <2>1. AllKept(O!Now, accepted) /\ O!Now.wire = wire /\ O!Now.unsent = unsent
    BY DEF SendInv, KeptOrNot, O!Now, O!Attempt
  <2>2. \A i \in 1..Len(wire) : wire[i] = i
    BY <2>1, LenProperties DEF KeptOrNot, AllKept, Run
  <2>3. CASE unsent = {}
    BY <2>1, <2>2, <2>3 DEF KeptOrNot, AllKept, O!AcceptedIsKept
  <2>4. CASE unsent # {}
    <3>1. PICK u : unsent = {u} /\ Kept_(wire, u, accepted)
      BY <2>1, <2>4 DEF AllKept
    <3>2. /\ u.offset \in Nat /\ u.size \in Nat /\ u.offset < u.size
          /\ u.size = Len(u.data) /\ accepted \in Nat /\ u.size <= accepted
          /\ Len(wire) = accepted - u.size + u.offset
          /\ \A i \in 1..Len(u.data) : u.data[i] = accepted - u.size + i
      BY <3>1 DEF Kept_, Block, Run, SendInv
    <3>3. u.data[Len(u.data)] = accepted /\ u.data[u.offset + 1] = Len(wire) + 1
      <4>1. Len(u.data) \in 1..Len(u.data) /\ u.offset + 1 \in 1..Len(u.data)
        BY <3>2
      <4>2. /\ u.data[Len(u.data)] = accepted - u.size + Len(u.data)
            /\ u.data[u.offset + 1] = accepted - u.size + (u.offset + 1)
        BY <3>2, <4>1
      <4> QED
        BY <3>2, <4>2
    <3> QED
      BY <2>2, <2>4, <3>1, <3>2, <3>3 DEF O!AcceptedIsKept
  <2> QED
    BY <2>3, <2>4
<1>2. SendInv /\ [O!Next]_O!vars => SendInv'
  BY SendStep
<1>3. (~miscounted => O!AcceptedIsKept) /\ O!AskedIsAccepted => NothingLost
  BY DEF NothingLost, O!NothingLost
<1> QED
  BY <1>1, <1>2, <1>3, SendInit, AllowedIsAccepted, PTL DEF O!Spec

-----------------------------------------------------------------------------
(* What the peer encrypts *)

LEMMA AfterStart == ASSUME NEW i \in Nat \ {0}, input[i] = "START" PROVE IsEncrypted(i + 1)
<1>1. i \in 1 .. (i + 1) - 1 /\ \A e \in i + 1 .. (i + 1) - 1 : input[e] # "END"
  OBVIOUS
<1> QED
  BY <1>1 DEF IsEncrypted

LEMMA AfterEnd == ASSUME NEW i \in Nat \ {0}, input[i] = "END" PROVE ~IsEncrypted(i + 1)
<1> SUFFICES ASSUME NEW s \in 1 .. (i + 1) - 1, input[s] = "START",
                    \A e \in s + 1 .. (i + 1) - 1 : input[e] # "END"
             PROVE  FALSE
  BY DEF IsEncrypted
<1>1. s # i
  OBVIOUS
<1>2. i \in s + 1 .. (i + 1) - 1
  BY <1>1
<1> QED
  BY <1>2

LEMMA AfterText == ASSUME NEW i \in Nat \ {0}, input[i] = "x" PROVE IsEncrypted(i + 1) <=> IsEncrypted(i)
<1>1. ASSUME IsEncrypted(i + 1) PROVE IsEncrypted(i)
  <2>1. PICK s \in 1 .. (i + 1) - 1 : input[s] = "START" /\ \A e \in s + 1 .. (i + 1) - 1 : input[e] # "END"
    BY <1>1 DEF IsEncrypted
  <2>2. s # i
    BY <2>1
  <2>3. s \in 1 .. i - 1 /\ \A e \in s + 1 .. i - 1 : e \in s + 1 .. (i + 1) - 1
    BY <2>2
  <2> QED
    BY <2>1, <2>3 DEF IsEncrypted
<1>2. ASSUME IsEncrypted(i) PROVE IsEncrypted(i + 1)
  <2>1. PICK s \in 1 .. i - 1 : input[s] = "START" /\ \A e \in s + 1 .. i - 1 : input[e] # "END"
    BY <1>2 DEF IsEncrypted
  <2>2. \A e \in s + 1 .. (i + 1) - 1 : e = i \/ e \in s + 1 .. i - 1
    OBVIOUS
  <2>3. s \in 1 .. (i + 1) - 1
    OBVIOUS
  <2> QED
    BY <2>1, <2>2, <2>3 DEF IsEncrypted
<1> QED
  BY <1>1, <1>2

Ciphers(i, j) == {k \in i .. j : IsEncrypted(k)}

LEMMA CiphersFinite == ASSUME NEW i \in Int, NEW j \in Int PROVE IsFiniteSet(Ciphers(i, j))
<1>1. IsFiniteSet(i .. j)
  BY FS_Interval
<1> QED
  BY <1>1, FS_Subset DEF Ciphers

LEMMA SpanSize ==
  ASSUME NEW i \in Nat, NEW j \in Nat, i <= j
  PROVE  IsFiniteSet(i + 1 .. j) /\ Cardinality(i + 1 .. j) = j - i
<1>1. i + 1 \in Int /\ j \in Int
  OBVIOUS
<1>2. IsFiniteSet(i + 1 .. j) /\ Cardinality(i + 1 .. j) = IF i + 1 > j THEN 0 ELSE j - (i + 1) + 1
  BY <1>1, FS_Interval
<1> QED
  BY <1>2

LEMMA EncryptedType == ASSUME NEW i \in Nat PROVE Encrypted(i) \in Nat
<1>1. Encrypted(i) = Cardinality(Ciphers(1, i))
  BY DEF Encrypted, Ciphers
<1> QED
  BY <1>1, CiphersFinite, FS_CardinalityType

\* Between two places of the stream it is what is encrypted between them.
LEMMA EncryptedSplit ==
  ASSUME NEW i \in Nat, NEW j \in Nat, i <= j
  PROVE  Encrypted(j) = Encrypted(i) + Cardinality(Ciphers(i + 1, j))
<1>1. Ciphers(1, j) = Ciphers(1, i) \cup Ciphers(i + 1, j)
  BY DEF Ciphers
<1>2. Ciphers(1, i) \cap Ciphers(i + 1, j) = {}
  BY DEF Ciphers
<1>3. IsFiniteSet(Ciphers(1, i)) /\ IsFiniteSet(Ciphers(i + 1, j))
  BY CiphersFinite
<1>4. Cardinality(Ciphers(1, i) \cup Ciphers(i + 1, j)) = Cardinality(Ciphers(1, i)) + Cardinality(Ciphers(i + 1, j))
  <2>1. Cardinality(Ciphers(1, i) \cup Ciphers(i + 1, j)) =
          Cardinality(Ciphers(1, i)) + Cardinality(Ciphers(i + 1, j)) - Cardinality(Ciphers(1, i) \cap Ciphers(i + 1, j))
    BY <1>3, FS_Union
  <2>2. Cardinality(Ciphers(1, i) \cap Ciphers(i + 1, j)) = 0
    BY <1>2, FS_EmptySet
  <2>3. Cardinality(Ciphers(1, i)) \in Nat /\ Cardinality(Ciphers(i + 1, j)) \in Nat
    BY <1>3, FS_CardinalityType
  <2> QED
    BY <2>1, <2>2, <2>3
<1>5. Encrypted(i) = Cardinality(Ciphers(1, i)) /\ Encrypted(j) = Cardinality(Ciphers(1, j))
  BY DEF Encrypted, Ciphers
<1> QED
  BY <1>1, <1>4, <1>5

LEMMA EncryptedAll ==
  ASSUME NEW i \in Nat, NEW j \in Nat, i <= j, \A k \in i + 1 .. j : IsEncrypted(k)
  PROVE  Encrypted(j) = Encrypted(i) + (j - i)
<1>1. Ciphers(i + 1, j) = i + 1 .. j
  BY DEF Ciphers
<1>2. Cardinality(i + 1 .. j) = j - i
  BY SpanSize
<1> QED
  BY <1>1, <1>2, EncryptedSplit

LEMMA EncryptedNext ==
  ASSUME NEW i \in Nat
  PROVE  Encrypted(i + 1) = IF IsEncrypted(i + 1) THEN Encrypted(i) + 1 ELSE Encrypted(i)
<1>1. CASE IsEncrypted(i + 1)
  BY <1>1, EncryptedAll, \A k \in i + 1 .. i + 1 : k = i + 1, (i + 1) - i = 1
<1>2. CASE ~IsEncrypted(i + 1)
  <2>1. Ciphers(i + 1, i + 1) = {}
    BY <1>2 DEF Ciphers
  <2>2. Cardinality(Ciphers(i + 1, i + 1)) = 0
    BY <2>1, FS_EmptySet
  <2>3. Encrypted(i + 1) = Encrypted(i) + Cardinality(Ciphers(i + 1, i + 1))
    BY EncryptedSplit
  <2> QED
    BY <1>2, <2>2, <2>3, EncryptedType
<1> QED
  BY <1>1, <1>2

-----------------------------------------------------------------------------
(* Chunks *)

At(c) == c * ChunkSize

LEMMA AtNext == ASSUME NEW c \in Nat PROVE At(c) \in Nat /\ At(c + 1) = At(c) + ChunkSize
<1>1. ChunkSize \in Nat
  BY EncryptAssumption
<1>2. c * ChunkSize \in Nat /\ (c + 1) * ChunkSize = c * ChunkSize + ChunkSize
  BY <1>1
<1> QED
  BY <1>2 DEF At

LEMMA AtGrows == ASSUME NEW c \in Nat, NEW d \in Nat, c < d PROVE At(c) + ChunkSize <= At(d)
<1>1. ChunkSize \in Nat
  BY EncryptAssumption
<1>2. PICK k \in Nat : d = c + 1 + k
  <2>1. d - c - 1 \in Nat /\ d = c + 1 + (d - c - 1)
    OBVIOUS
  <2> QED
    BY <2>1
<1>3. (c + 1 + k) * ChunkSize = c * ChunkSize + ChunkSize + k * ChunkSize
  BY <1>1
<1>4. k * ChunkSize \in Nat /\ c * ChunkSize \in Nat
  BY <1>1
<1> QED
  BY <1>1, <1>2, <1>3, <1>4 DEF At

-----------------------------------------------------------------------------
(* The invariant *)

Byte == [id : Nat, form : {"plain", "cipher", "garbage"}]
Taken == Len(shown)
Arrived == put + Len(inHand)
Bytes == cells \o inHand
Place == At(tail) + ptr[tail]

TypeOK ==
  /\ input \in Texts
  /\ cells \in Seq(Byte) /\ inHand \in Seq(Byte)
  /\ decrypt \in BOOLEAN /\ engine \in Int /\ lastIn \in [block : Seq(Byte), engine : Int]
  /\ tail \in Chunk /\ ptr \in [Chunk -> 0 .. ChunkSize] /\ mark \in [chunk : Chunk, index : 0 .. ChunkSize]
  /\ gui \in {"idle", "start", "started", "end", "ended"}
  /\ shown \in Seq(Nat)

\* What was shown was meant, and there is no more of anything than there can be.
InOrder ==
  /\ \A k \in 1 .. Taken : shown[k] = k
  /\ Taken <= put /\ Arrived <= Len(input)

\* The reader is where it has shown the bytes up to, or ahead of it while it
\* decrypts, and its mark is where it goes back to.
InPlace ==
  /\ \A c \in Chunk : c > tail => ptr[c] = 0
  /\ Taken <= Place /\ Place <= put
  /\ gui # "start" => Place = Taken
  /\ gui \in {"start", "end"} => mark.chunk = tail /\ At(tail) + mark.index = Taken

\* Nothing is on its way that the new mDecrypt would not be true of.
Quiet == gui = "started" /\ ~decrypt => inHand = Nothing

\* Up to where the bytes that are still to be shown have been decrypted.
Deep ==
  CASE gui = "ended" -> Taken
    [] gui # "ended" /\ decrypt -> Arrived
    [] ~decrypt /\ gui = "start" -> Place
    [] ~decrypt /\ gui = "started" -> put
    [] ~decrypt /\ gui \in {"idle", "end"} -> Taken

\* A byte is as it was sent, or as the engine leaves it in its place.
Form(i) == IF i <= Deep THEN DecryptCell(Raw(i), Encrypted(Taken) + (i - Taken)) ELSE Raw(i)

\* What the engine remembers is what has come since place b, as it came.
Remembers(b) ==
  /\ b < Deep
  /\ lastIn = [block |-> [i \in 1 .. Deep - b |-> Raw(b + i)], engine |-> Encrypted(Taken) + (b - Taken)]

Decoded ==
  /\ \A i \in Taken + 1 .. Arrived : Bytes[i] = Form(i)
  /\ engine = Encrypted(Taken) + (Deep - Taken)
  /\ Taken < Deep => \E b \in Nat : Remembers(b)

\* Both ends agree on what is encrypted behind what was shown.
InTurn ==
  /\ gui = "idle" => (decrypt <=> IsEncrypted(Taken + 1))
  /\ gui \in {"start", "started"} => IsEncrypted(Taken + 1)
  /\ gui \in {"end", "ended"} => ~IsEncrypted(Taken + 1)

StreamInv == TypeOK /\ InOrder /\ InPlace /\ Quiet /\ Decoded /\ InTurn

-----------------------------------------------------------------------------
(* The reader and its chunks *)

LEMMA Constants == ChunkSize \in Nat \ {0} /\ LastChunk \in Nat /\ MaxBlock \in Nat \ {0} /\ Chunk \subseteq Nat
BY EncryptAssumption DEF Chunk

LEMMA Lengths ==
  ASSUME TypeOK, InOrder, InPlace
  PROVE  /\ Taken \in Nat /\ put \in Nat /\ Len(inHand) \in Nat /\ Arrived \in Nat
         /\ At(tail) \in Nat /\ tail \in Nat /\ ptr[tail] \in 0 .. ChunkSize /\ Place \in Nat
         /\ input \in Seq(Token) /\ Len(input) \in Nat /\ put <= Arrived
<1>1. Taken \in Nat /\ put \in Nat /\ Len(inHand) \in Nat
  BY DEF TypeOK, Taken, put
<1>2. tail \in Nat /\ ptr[tail] \in 0 .. ChunkSize
  BY Constants DEF TypeOK
<1>3. input \in Seq(Token) /\ Len(input) \in Nat
  BY EncryptAssumption DEF TypeOK
<1>4. At(tail) \in Nat
  BY <1>2, AtNext
<1>5. At(tail) + ptr[tail] \in Nat
  BY <1>2, <1>4, Constants
<1>6. put + Len(inHand) \in Nat /\ put <= put + Len(inHand)
  BY <1>1
<1> QED
  BY <1>1, <1>2, <1>3, <1>4, <1>5, <1>6 DEF Arrived, Place

\* _CharExist finds a byte exactly if there is one, and it is the next.
LEMMA LooksRight ==
  ASSUME TypeOK, InOrder, InPlace
  PROVE  /\ CharExist <=> Place < put
         /\ CharExist => /\ TailAfterLook \in {tail, tail + 1} /\ TailAfterLook \in Chunk
                         /\ At(TailAfterLook) + ptr[TailAfterLook] = Place
                         /\ ptr[TailAfterLook] \in 0 .. ChunkSize - 1
                         /\ TailAfterLook = tail \/ ptr[tail + 1] = 0
<1> DEFINE c == tail
<1>1. /\ c \in Nat /\ put \in Nat /\ At(c) \in Nat /\ ChunkSize \in Nat \ {0} /\ ptr[c] \in 0 .. ChunkSize
      /\ Place = At(c) + ptr[c] /\ Place \in Nat /\ Place <= put
  BY Lengths, Constants DEF InPlace, Place
<1>2. /\ At(c + 1) = At(c) + ChunkSize /\ At(c + 1) \in Nat
      /\ At(c + 2) = At(c + 1) + ChunkSize
  BY <1>1, AtNext, c + 1 \in Nat, (c + 1) + 1 = c + 2
<1>3. Size(c) = IF put <= At(c) THEN 0 ELSE IF put < At(c + 1) THEN put - At(c) ELSE ChunkSize
  BY DEF Size, At
<1>4. Size(c + 1) = IF put <= At(c + 1) THEN 0 ELSE IF put < At(c + 2) THEN put - At(c + 1) ELSE ChunkSize
  <2>1. Size(c + 1) = IF put <= At(c + 1) THEN 0 ELSE IF put < At((c + 1) + 1) THEN put - At(c + 1) ELSE ChunkSize
    BY DEF Size, At
  <2>2. (c + 1) + 1 = c + 2
    BY <1>1
  <2> HIDE DEF c
  <2> QED
    BY <2>1, <2>2
<1>5. TailAfterLook = IF ptr[c] >= Size(c) /\ Size(c + 1) > 0 THEN c + 1 ELSE c
  BY DEF TailAfterLook
<1>6. CASE TailAfterLook = c
  <2>1. CharExist <=> ptr[c] < Size(c)
    BY <1>6 DEF CharExist
  <2>2. ptr[c] < Size(c) => Place < put /\ ptr[c] < ChunkSize
    BY <1>1, <1>2, <1>3
  <2>3. Place < put => ptr[c] < Size(c)
    <3>1. CASE ptr[c] = ChunkSize
      <4> HAVE Place < put
      <4>1. put > At(c + 1)
        BY <1>1, <1>2, <3>1
      <4>2. Size(c + 1) > 0 /\ ptr[c] >= Size(c)
        BY <4>1, <1>1, <1>2, <1>3, <1>4, <3>1
      <4> QED
        BY <4>2, <1>5, <1>6, <1>1
    <3>2. CASE ptr[c] # ChunkSize
      BY <3>2, <1>1, <1>2, <1>3
    <3> QED
      BY <3>1, <3>2
  <2>4. c \in Chunk
    BY DEF TypeOK
  <2> QED
    BY <2>1, <2>2, <2>3, <2>4, <1>1, <1>6
<1>7. CASE TailAfterLook # c
  <2>1. TailAfterLook = c + 1 /\ ptr[c] >= Size(c) /\ Size(c + 1) > 0
    BY <1>5, <1>7
  <2>2. put > At(c + 1)
    BY <2>1, <1>4, <1>1, <1>2
  <2>3. ptr[c] = ChunkSize /\ Place = At(c + 1)
    BY <2>1, <2>2, <1>1, <1>2, <1>3
  <2>4. c + 1 \in Chunk
    <3>1. put < LastChunk * ChunkSize
      <4>1. put <= Len(input)
        BY Lengths DEF InOrder
      <4>3. Len(input) < LastChunk * ChunkSize
        BY EncryptAssumption DEF TypeOK
      <4>2. LastChunk * ChunkSize \in Nat
        BY Constants
      <4> QED
        BY <4>1, <4>2, <4>3, <1>1, Lengths
    <3>2. ~(LastChunk < c + 1)
      <4> SUFFICES ASSUME LastChunk < c + 1 PROVE FALSE
        OBVIOUS
      <4>1. At(LastChunk) + ChunkSize <= At(c + 1)
        BY <1>1, Constants, AtGrows, c + 1 \in Nat
      <4>2. At(LastChunk) = LastChunk * ChunkSize /\ At(LastChunk) \in Nat
        BY Constants, AtNext DEF At
      <4> QED
        BY <4>1, <4>2, <3>1, <2>2, <1>1, <1>2
    <3> QED
      BY <3>2, <1>1, Constants DEF Chunk
  <2>5. ptr[c + 1] = 0
    BY <2>4, <1>1 DEF InPlace
  <2>6. CharExist
    BY <2>1, <2>5 DEF CharExist
  <2> QED
    BY <2>1, <2>2, <2>3, <2>4, <2>5, <2>6, <1>1
<1> QED
  BY <1>6, <1>7

-----------------------------------------------------------------------------
(* Steps *)

LEMMA SameText ==
  ASSUME input' = input
  PROVE  /\ \A i : IsEncrypted(i)' <=> IsEncrypted(i)
         /\ \A i : Encrypted(i)' = Encrypted(i)
         /\ \A i : Raw(i)' = Raw(i)
<1>1. \A i : IsEncrypted(i)' <=> IsEncrypted(i)
  BY DEF IsEncrypted
<1>2. ASSUME NEW i PROVE Encrypted(i)' = Encrypted(i)
  <2>1. {k \in 1 .. i : IsEncrypted(k)'} = {k \in 1 .. i : IsEncrypted(k)}
    BY <1>1
  <2> QED
    BY <2>1 DEF Encrypted
<1>3. \A i : Raw(i)' = Raw(i)
  BY <1>1 DEF Raw, Cell
<1> QED
  BY <1>1, <1>2, <1>3

LEMMA RawByte == ASSUME NEW i \in Nat PROVE Raw(i) \in Byte
BY DEF Raw, Cell, Byte

LEMMA ClearByte == ASSUME NEW c \in Byte, NEW k PROVE DecryptCell(c, k) \in Byte
BY DEF DecryptCell, Cell, Byte

LEMMA DecryptType ==
  ASSUME NEW block \in Seq(Byte)
  PROVE  Decrypt(block) \in Seq(Byte) /\ Len(Decrypt(block)) = Len(block)
         /\ \A i \in 1 .. Len(block) : Decrypt(block)[i] = DecryptCell(block[i], engine + i)
<1>1. DOMAIN block = 1 .. Len(block) /\ Len(block) \in Nat
  OBVIOUS
<1>2. Decrypt(block) = [i \in 1 .. Len(block) |-> DecryptCell(block[i], engine + i)]
  BY <1>1 DEF Decrypt
<1>3. \A i \in 1 .. Len(block) : DecryptCell(block[i], engine + i) \in Byte
  BY ClearByte
<1>4. [i \in 1 .. Len(block) |-> DecryptCell(block[i], engine + i)] \in Seq(Byte)
  BY <1>1, <1>3, IsASeq
<1> QED
  BY <1>1, <1>2, <1>4, LenProperties

\* What a byte is decrypted to does not change as long as its place in the engine's
\* count does not.
LEMMA FormSteady ==
  ASSUME NEW i, input' = input, Encrypted(Taken)' + (i - Taken') = Encrypted(Taken) + (i - Taken)
  PROVE  /\ DecryptCell(Raw(i), Encrypted(Taken) + (i - Taken))' = DecryptCell(Raw(i), Encrypted(Taken) + (i - Taken))
         /\ Raw(i)' = Raw(i)
<1> DEFINE c == Raw(i)  k == Encrypted(Taken) + (i - Taken)
<1>1. c' = c /\ k' = k
  BY SameText
<1>2. {j \in 1 .. c'.id : IsEncrypted(j)'} = {j \in 1 .. c.id : IsEncrypted(j)}
  BY <1>1, SameText
<1>3. Encrypted(c.id)' = Encrypted(c.id)
  BY <1>2 DEF Encrypted
<1> HIDE DEF c, k
<1>4. DecryptCell(c, k)' = DecryptCell(c, k)
  BY <1>1, <1>3 DEF DecryptCell, Cell
<1> QED
  BY <1>1, <1>4 DEF c, k

\* Nothing that was missed is forgotten.
LEMMA NoneMissed ==
  ASSUME NEW r, NEW s, NEW o, Misses(r, s, o), missed' = {}
  PROVE  missed = {} /\ ~r /\ ~s /\ ~o
<1>1. missed' = missed \cup (IF r THEN {"raced"} ELSE {}) \cup (IF s THEN {"split"} ELSE {})
                       \cup (IF o THEN {"outran"} ELSE {})
  BY DEF Misses
<1>2. "raced" \notin missed' /\ "split" \notin missed' /\ "outran" \notin missed'
  OBVIOUS
<1>3. ~r
  BY <1>1, <1>2
<1>4. ~s
  BY <1>1, <1>2
<1>5. ~o
  BY <1>1, <1>2
<1>6. missed = {}
  BY <1>1
<1> QED
  BY <1>3, <1>4, <1>5, <1>6

\* A block that arrives: where the engine decrypts it, it does so in its place.
LEMMA ReceiveKeeps == ASSUME StreamInv, Receive, missed' = {} PROVE StreamInv'
<1> USE DEF StreamInv
<1>1. /\ input' = input /\ cells' = cells /\ decrypt' = decrypt /\ tail' = tail /\ ptr' = ptr /\ mark' = mark
      /\ gui' = gui /\ shown' = shown /\ inHand = <<>>
  BY DEF Receive, stream, Nothing
<1>2. ~(gui = "started" /\ ~decrypt) /\ ~(gui = "ended" /\ decrypt)
  BY NoneMissed DEF Receive
<1>3. PICK j \in put + 1 .. put + MaxBlock :
        LET block == [i \in 1 .. j - put |-> Raw(put + i)] IN
        /\ j <= Len(input)
        /\ IF decrypt THEN inHand' = Decrypt(block) /\ Decrypted(block)
                      ELSE inHand' = block /\ UNCHANGED <<engine, lastIn>>
  BY DEF Receive
<1> DEFINE block == [i \in 1 .. j - put |-> Raw(put + i)]
<1>4. /\ Taken \in Nat /\ put \in Nat /\ Arrived = put /\ Place \in Nat /\ Place <= put /\ Taken <= put
      /\ j \in Nat /\ j > put /\ j - put \in Nat
  BY <1>1, Lengths, Constants DEF Arrived, InPlace, InOrder
<1>5. block \in Seq(Byte) /\ Len(block) = j - put
  <2>1. \A i \in 1 .. j - put : Raw(put + i) \in Byte
    BY <1>4, RawByte
  <2> QED
    BY <2>1, <1>4, IsASeq, LenProperties
<1>6. /\ inHand' \in Seq(Byte) /\ Len(inHand') = j - put
      /\ \A i \in 1 .. j - put : inHand'[i] = IF decrypt THEN DecryptCell(Raw(put + i), engine + i) ELSE Raw(put + i)
  BY <1>3, <1>5, DecryptType
<1>7. Taken' = Taken /\ put' = put /\ Arrived' = j /\ Place' = Place /\ j <= Len(input)
  BY <1>1, <1>3, <1>4, <1>6 DEF Taken, put, Arrived, Place, At
<1>8. Deep = (IF decrypt THEN put ELSE IF gui = "start" THEN Place ELSE Taken)
  BY <1>2, <1>4 DEF Deep, TypeOK
<1>9. Deep' = IF decrypt THEN j ELSE Deep
  BY <1>1, <1>2, <1>7, <1>8 DEF Deep, TypeOK
<1>10. engine' = (IF decrypt THEN engine + (j - put) ELSE engine) /\ lastIn' = IF decrypt THEN [block |-> block, engine |-> engine] ELSE lastIn
  BY <1>3, <1>5 DEF Decrypted
<1>11. TypeOK'
  <2>1. engine' \in Int
    BY <1>4, <1>10 DEF TypeOK
  <2>2. lastIn' \in [block : Seq(Byte), engine : Int]
    BY <1>5, <1>10 DEF TypeOK
  <2> QED
    BY <2>1, <2>2, <1>1, <1>6 DEF TypeOK
<1>12. InOrder' /\ InPlace' /\ InTurn' /\ Quiet'
  BY <1>1, <1>2, <1>4, <1>7, SameText DEF InOrder, InPlace, InTurn, Quiet, At
<1>13. \A i \in 1 .. j : Bytes'[i] = IF i <= put THEN Bytes[i] ELSE inHand'[i - put]
  <2>1. Bytes = cells
    BY <1>1, ConcatEmptySeq DEF Bytes, TypeOK
  <2>2. Bytes' = cells \o inHand'
    BY <1>1 DEF Bytes
  <2>3. cells \in Seq(Byte) /\ put = Len(cells) /\ j = put + Len(inHand')
    BY <1>4, <1>6 DEF TypeOK, put
  <2> QED
    BY <2>1, <2>2, <2>3, <1>6, ConcatProperties
<1>14. /\ Encrypted(Taken)' = Encrypted(Taken) /\ Encrypted(Taken) \in Nat /\ Deep \in Nat
       /\ engine = Encrypted(Taken) + (Deep - Taken)
  <2>1. Encrypted(Taken)' = Encrypted(Taken)
    BY <1>1, <1>7, SameText DEF Encrypted
  <2> QED
    BY <2>1, <1>4, <1>8, EncryptedType DEF Decoded
<1>15. \A i : Form(i)' = IF i <= Deep' THEN DecryptCell(Raw(i), Encrypted(Taken) + (i - Taken)) ELSE Raw(i)
  <2> TAKE i
  <2>1. Form(i)' = IF i <= Deep' THEN DecryptCell(Raw(i), Encrypted(Taken) + (i - Taken))' ELSE Raw(i)'
    BY DEF Form
  <2> QED
    BY <2>1, <1>1, <1>7, <1>14, FormSteady
<1>16. ASSUME NEW i \in Taken + 1 .. j PROVE Bytes'[i] = Form(i)'
  <2>1. CASE i <= put
    <3>1. Bytes'[i] = Form(i)
      BY <2>1, <1>4, <1>13 DEF Decoded
    <3>2. i <= Deep' <=> i <= Deep
      BY <2>1, <1>4, <1>8, <1>9
    <3> QED
      BY <3>1, <3>2, <1>15 DEF Form
  <2>2. CASE i > put
    <3>1. put + (i - put) = i /\ i - put \in 1 .. j - put /\ i \in 1 .. j /\ ~(i <= put)
      BY <2>2, <1>4
    <3>2. Bytes'[i] = IF decrypt THEN DecryptCell(Raw(i), engine + (i - put)) ELSE Raw(i)
      BY <3>1, <1>6, <1>13
    <3>3. decrypt => engine + (i - put) = Encrypted(Taken) + (i - Taken) /\ i <= Deep'
      BY <1>4, <1>8, <1>9, <1>14
    <3>4. ~decrypt => ~(i <= Deep')
      BY <2>2, <1>4, <1>8, <1>9
    <3> QED
      BY <3>2, <3>3, <3>4, <1>15
  <2> QED
    BY <2>1, <2>2, <1>4
<1>17. engine' = Encrypted(Taken)' + (Deep' - Taken')
  BY <1>4, <1>7, <1>8, <1>9, <1>10, <1>14
<1>18. ASSUME Taken < Deep' PROVE \E b \in Nat : Remembers(b)'
  <2>1. \A i : Raw(i)' = Raw(i)
    BY <1>1, SameText
  <2>2. CASE decrypt
    <3>1. PICK p \in Nat : p = put
      BY <1>4
    <3>2. lastIn' = [block |-> [i \in 1 .. Deep' - p |-> Raw(p + i)'], engine |-> Encrypted(Taken)' + (p - Taken')]
      <4>1. block = [i \in 1 .. Deep' - p |-> Raw(p + i)]
        BY <3>1, <2>2, <1>9
      <4>2. [i \in 1 .. Deep' - p |-> Raw(p + i)'] = [i \in 1 .. Deep' - p |-> Raw(p + i)]
        BY <2>1
      <4>3. engine = Encrypted(Taken)' + (p - Taken')
        BY <2>2, <3>1, <1>7, <1>8, <1>14
      <4> HIDE DEF block
      <4> QED
        BY <4>1, <4>2, <4>3, <2>2, <1>10
    <3>3. p < Deep'
      BY <2>2, <3>1, <1>4, <1>9
    <3> QED
      BY <3>1, <3>2, <3>3 DEF Remembers
  <2>3. CASE ~decrypt
    <3>1. PICK b \in Nat : Remembers(b)
      BY <1>9, <1>18, <2>3 DEF Decoded
    <3>2. [i \in 1 .. Deep - b |-> Raw(b + i)'] = [i \in 1 .. Deep - b |-> Raw(b + i)]
      BY <2>1
    <3>3. Remembers(b)'
      BY <3>1, <3>2, <2>3, <1>7, <1>9, <1>10, <1>14 DEF Remembers
    <3> QED
      BY <3>3
  <2> QED
    BY <2>2, <2>3 DEF TypeOK
<1>19. Decoded'
  BY <1>7, <1>16, <1>17, <1>18 DEF Decoded
<1> QED
  BY <1>11, <1>12, <1>19

LEMMA DecodedAsBefore ==
  ASSUME Decoded, input' = input, Bytes' = Bytes, Arrived' = Arrived, Taken' = Taken, Deep' = Deep,
         engine' = engine, lastIn' = lastIn
  PROVE  Decoded'
<1>1. /\ \A i : Raw(i)' = Raw(i)
      /\ Encrypted(Taken)' = Encrypted(Taken)
  BY SameText DEF Encrypted
<1>2. \A i : Form(i)' = Form(i)
  <2> TAKE i
  <2>1. Form(i)' = IF i <= Deep' THEN DecryptCell(Raw(i), Encrypted(Taken) + (i - Taken))' ELSE Raw(i)'
    BY DEF Form
  <2> QED
    BY <2>1, <1>1, FormSteady DEF Form
<1>3. \A b : Remembers(b)' <=> Remembers(b)
  <2> TAKE b
  <2>1. [i \in 1 .. Deep - b |-> Raw(b + i)'] = [i \in 1 .. Deep - b |-> Raw(b + i)]
    BY <1>1
  <2> QED
    BY <1>1, <2>1 DEF Remembers
<1> QED
  BY <1>1, <1>2, <1>3 DEF Decoded

LEMMA PutCharsKeeps == ASSUME StreamInv, PutChars PROVE StreamInv'
<1> USE DEF StreamInv
<1>1. /\ input' = input /\ cells' = cells \o inHand /\ inHand' = <<>> /\ inHand # <<>> /\ decrypt' = decrypt /\ engine' = engine
      /\ lastIn' = lastIn /\ tail' = tail /\ ptr' = ptr /\ mark' = mark /\ gui' = gui /\ shown' = shown
  BY DEF PutChars, stream, Nothing
<1>2. /\ Taken \in Nat /\ put \in Nat /\ Arrived \in Nat /\ Place \in Nat /\ put <= Arrived
  BY Lengths
<1>3. put' = Arrived /\ Arrived' = Arrived /\ Bytes' = Bytes /\ Bytes \in Seq(Byte)
  <2>1. cells \o inHand \in Seq(Byte) /\ Len(cells \o inHand) = Len(cells) + Len(inHand)
    BY ConcatProperties DEF TypeOK
  <2>2. (cells \o inHand) \o <<>> = cells \o inHand
    BY <2>1, ConcatEmptySeq
  <2>3. Len(cells') + Len(inHand') = Len(cells) + Len(inHand)
    BY <1>1, <2>1, EmptySeq DEF TypeOK
  <2> QED
    BY <1>1, <2>1, <2>2, <2>3 DEF put, Arrived, Bytes
<1>4. Taken' = Taken /\ Place' = Place
  BY <1>1 DEF Taken, Place, At
<1>5. ~(gui = "started" /\ ~decrypt)
  BY <1>1 DEF Quiet, Nothing
<1>6. Deep' = Deep
  BY <1>1, <1>3, <1>4, <1>5 DEF Deep, TypeOK
<1>7. Decoded'
  BY <1>1, <1>3, <1>4, <1>6, DecodedAsBefore
<1>8. TypeOK'
  BY <1>1, <1>3, EmptySeq DEF TypeOK, Bytes
<1>9. InOrder' /\ InPlace' /\ InTurn' /\ Quiet'
  BY <1>1, <1>2, <1>3, <1>4, <1>5, SameText DEF InOrder, InPlace, InTurn, Quiet, At
<1> QED
  BY <1>7, <1>8, <1>9

\* A byte is shown as it was meant: it has been decrypted in its place exactly if
\* that is what it needs.
LEMMA ReadKeeps == ASSUME StreamInv, Read PROVE StreamInv'
<1> USE DEF StreamInv
<1> DEFINE T == TailAfterLook
           n == Taken + 1
<1>1. /\ input' = input /\ cells' = cells /\ inHand' = inHand /\ decrypt' = decrypt /\ engine' = engine
      /\ lastIn' = lastIn /\ gui = "idle" /\ CharExist
  BY DEF Read, OfWindow
<1>2. /\ Taken \in Nat /\ put \in Nat /\ Arrived \in Nat /\ put <= Arrived /\ tail \in Nat /\ Len(input) \in Nat
      /\ input \in Seq(Token) /\ Arrived <= Len(input) /\ Place = Taken /\ Taken < put
  BY <1>1, Lengths, LooksRight DEF InPlace, InOrder
<1>3. /\ T \in {tail, tail + 1} /\ T \in Chunk /\ T \in Nat /\ At(T) + ptr[T] = Taken /\ ptr[T] \in 0 .. ChunkSize - 1
      /\ At(T) \in Nat /\ ChunkSize \in Nat
  BY <1>1, <1>2, LooksRight, Constants, AtNext
<1>4. Here = n
  BY <1>3, <1>2 DEF Here, At
<1>5. input[n] \in Token /\ n \in Nat \ {0}
  BY <1>2
<1>6. decrypt <=> IsEncrypted(n)
  BY <1>1 DEF InTurn
<1>7. Deep = IF decrypt THEN Arrived ELSE Taken
  BY <1>1 DEF Deep, TypeOK
<1>8. cells[n] = Cell(n, "plain")
  <2>1. Bytes[n] = cells[n]
    BY <1>2, ConcatProperties DEF Bytes, TypeOK, put
  <2>2. Bytes[n] = Form(n)
    BY <1>2 DEF Decoded
  <2>3. CASE decrypt
    <3>1. n <= Deep /\ n - Taken = 1
      BY <2>3, <1>2, <1>7
    <3>2. Encrypted(n) = Encrypted(Taken) + 1
      BY <2>3, <1>2, <1>6, EncryptedNext
    <3>3. Form(n) = DecryptCell(Raw(n), Encrypted(n))
      BY <3>1, <3>2 DEF Form
    <3>4. DecryptCell(Raw(n), Encrypted(n)) = Cell(n, "plain")
      BY <2>3, <1>6 DEF DecryptCell, Raw, Cell
    <3> QED
      BY <3>3, <3>4, <2>1, <2>2
  <2>4. CASE ~decrypt
    <3>1. ~(n <= Deep) /\ ~IsEncrypted(n)
      BY <2>4, <1>2, <1>6, <1>7
    <3> QED
      BY <3>1, <2>1, <2>2 DEF Form, Raw
  <2> QED
    BY <2>3, <2>4 DEF TypeOK
<1>9. /\ shown' = Append(shown, n)
      /\ gui' = IF input[n] = "x" THEN "idle" ELSE IF input[n] = "START" THEN "start" ELSE "end"
  BY <1>4, <1>8 DEF Read, Cell
<1>10. /\ tail' = T /\ ptr' = [ptr EXCEPT ![T] = @ + 1] /\ ptr'[T] = ptr[T] + 1
       /\ mark' = [chunk |-> T, index |-> ptr[T] + 1]
  BY <1>3 DEF Read, TypeOK
<1>11. Taken' = n /\ put' = put /\ Arrived' = Arrived /\ Bytes' = Bytes /\ Place' = n
  <2>1. Len(shown') = Taken + 1
    BY <1>9 DEF Taken, TypeOK
  <2>2. At(tail)' = At(T)
    BY <1>10 DEF At
  <2> QED
    BY <1>1, <1>2, <1>3, <1>10, <2>1, <2>2 DEF Taken, put, Arrived, Bytes, Place
<1>12. TypeOK'
  <2>1. shown' \in Seq(Nat) /\ gui' \in {"idle", "start", "started", "end", "ended"}
    <3>1. shown \in Seq(Nat) /\ n \in Nat
      BY <1>5 DEF TypeOK
    <3> HIDE DEF n, StreamInv
    <3>2. Append(shown, n) \in Seq(Nat)
      BY <3>1, AppendProperties
    <3> QED
      BY <3>2, <1>9
  <2>2. tail' \in Chunk /\ ptr[T] + 1 \in 0 .. ChunkSize
    BY <1>3, <1>10, Constants DEF TypeOK
  <2>3. ptr' \in [Chunk -> 0 .. ChunkSize] /\ mark' \in [chunk : Chunk, index : 0 .. ChunkSize]
    BY <1>10, <2>2 DEF TypeOK
  <2> QED
    BY <2>1, <2>2, <2>3, <1>1, <1>3 DEF TypeOK
<1>13. InOrder'
  BY <1>1, <1>2, <1>9, <1>11 DEF InOrder, TypeOK, Taken
<1>14. InPlace' /\ Quiet'
  <2>1. At(tail)' = At(T)
    BY <1>10 DEF At
  <2>2. \A c \in Chunk : c > T => ptr'[c] = 0
    BY <1>2, <1>3, <1>10, Constants DEF InPlace, TypeOK
  <2> QED
    BY <1>2, <1>3, <1>9, <1>10, <1>11, <2>1, <2>2 DEF InPlace, Quiet
<1>15. Deep' = IF decrypt THEN Arrived ELSE n
  BY <1>1, <1>9, <1>11 DEF Deep, TypeOK
<1>16. Encrypted(Taken)' = (IF decrypt THEN Encrypted(Taken) + 1 ELSE Encrypted(Taken)) /\ Encrypted(Taken) \in Nat
  <2>1. Encrypted(Taken)' = Encrypted(n)
    BY <1>1, <1>11, SameText DEF Encrypted
  <2> QED
    BY <2>1, <1>2, <1>6, EncryptedNext, EncryptedType
<1>17. \A i \in n + 1 .. Arrived : Bytes[i] = Form(i)'
  <2> TAKE i \in n + 1 .. Arrived
  <2>1. Bytes[i] = Form(i)
    BY <1>2 DEF Decoded
  <2>2. i <= Deep <=> i <= Deep'
    BY <1>2, <1>7, <1>15
  <2>3. decrypt => Encrypted(Taken)' + (i - Taken') = Encrypted(Taken) + (i - Taken)
    BY <1>2, <1>11, <1>16
  <2>4. i <= Deep => decrypt
    BY <1>2, <1>7
  <2>5. Form(i)' = IF i <= Deep' THEN DecryptCell(Raw(i), Encrypted(Taken) + (i - Taken))' ELSE Raw(i)'
    BY DEF Form
  <2>6. Raw(i)' = Raw(i)
    BY <1>1, SameText
  <2>7. i <= Deep' => DecryptCell(Raw(i), Encrypted(Taken) + (i - Taken))' = DecryptCell(Raw(i), Encrypted(Taken) + (i - Taken))
    BY <2>2, <2>3, <2>4, <1>1, FormSteady
  <2> QED
    BY <2>1, <2>2, <2>5, <2>6, <2>7 DEF Form
<1>18. engine' = Encrypted(Taken)' + (Deep' - Taken')
  BY <1>1, <1>2, <1>7, <1>11, <1>15, <1>16 DEF Decoded
<1>19. ASSUME Taken' < Deep' PROVE \E b \in Nat : Remembers(b)'
  <2>1. decrypt /\ Deep' = Deep /\ Taken < Deep
    BY <1>2, <1>7, <1>11, <1>15, <1>19
  <2>2. PICK b \in Nat : Remembers(b)
    BY <2>1 DEF Decoded
  <2>3. [i \in 1 .. Deep - b |-> Raw(b + i)'] = [i \in 1 .. Deep - b |-> Raw(b + i)]
    BY <1>1, SameText
  <2>4. Encrypted(Taken)' + (b - Taken') = Encrypted(Taken) + (b - Taken)
    BY <2>1, <1>2, <1>11, <1>16
  <2>5. Remembers(b)'
    BY <2>1, <2>2, <2>3, <2>4, <1>1 DEF Remembers
  <2> QED
    BY <2>5
<1>20. Decoded'
  BY <1>11, <1>17, <1>18, <1>19 DEF Decoded
<1>21. InTurn'
  <2>1. /\ input[n] = "START" => IsEncrypted(n + 1)
        /\ input[n] = "END" => ~IsEncrypted(n + 1)
        /\ input[n] = "x" => (IsEncrypted(n + 1) <=> IsEncrypted(n))
    BY <1>5, AfterStart, AfterEnd, AfterText
  <2>2. IsEncrypted(Taken + 1)' <=> IsEncrypted(n + 1)
    BY <1>1, <1>11, SameText DEF IsEncrypted
  <2> QED
    BY <2>1, <2>2, <1>1, <1>5, <1>6, <1>9 DEF InTurn, Token
<1> QED
  BY <1>12, <1>13, <1>14, <1>20, <1>21

\* What GetBuffer gives the reader in the chunk it is in: the rest of that.
LEMMA BufferIsRest ==
  ASSUME TypeOK, InOrder, InPlace, TailAfterLook = tail
  PROVE  /\ ~CharExist => Buffer = <<>>
         /\ CharExist =>
              /\ Here = Place + 1 /\ Size(tail) \in 0 .. ChunkSize
              /\ \E e \in Nat : /\ e = At(tail) + Size(tail) /\ Place < e /\ e <= put
                                /\ Buffer \in Seq(Byte) /\ Len(Buffer) = e - Place
                                /\ \A i \in 1 .. e - Place : Buffer[i] = cells[Place + i]
<1>1. /\ Place \in Nat /\ put \in Nat /\ At(tail) \in Nat /\ tail \in Nat /\ ptr[tail] \in 0 .. ChunkSize
      /\ ChunkSize \in Nat
  BY Lengths, Constants
<1>2. Here = Place + 1
  BY DEF Here, Place, At
<1>3. Buffer = IF CharExist THEN SubSeq(cells, Here, At(tail) + Size(tail)) ELSE <<>>
  BY DEF Buffer, At
<1>4. CASE CharExist
  <2>1. ptr[tail] < Size(tail)
    BY <1>4 DEF CharExist
  <2>2. At(tail + 1) = At(tail) + ChunkSize
    BY <1>1, AtNext
  <2>3. Size(tail) = IF put <= At(tail) THEN 0 ELSE IF put < At(tail + 1) THEN put - At(tail) ELSE ChunkSize
    BY DEF Size, At
  <2>4. Size(tail) \in 0 .. ChunkSize /\ At(tail) + Size(tail) \in Nat /\ At(tail) + Size(tail) <= put
    BY <1>1, <2>1, <2>2, <2>3
  <2>5. PICK e \in Nat : e = At(tail) + Size(tail) /\ e <= put
    BY <2>4
  <2>6. Place < e
    BY <1>1, <2>1, <2>4, <2>5 DEF Place
  <2>7. Buffer = SubSeq(cells, Place + 1, e)
    BY <1>2, <1>3, <1>4, <2>5
  <2>8. \A i \in Place + 1 .. e : cells[i] \in Byte
    BY <1>1, <2>5 DEF TypeOK, put
  <2>9. /\ SubSeq(cells, Place + 1, e) \in Seq(Byte)
        /\ Len(SubSeq(cells, Place + 1, e)) = e - Place
        /\ \A i \in 1 .. e - Place : SubSeq(cells, Place + 1, e)[i] = cells[Place + i]
    BY <2>8, <2>5, <2>6, <1>1 DEF TypeOK, put
  <2> QED
    BY <1>2, <1>4, <2>4, <2>5, <2>6, <2>7, <2>9
<1>5. CASE ~CharExist
  BY <1>3, <1>5
<1> QED
  BY <1>4, <1>5

LEMMA WriteType ==
  ASSUME TypeOK, NEW block \in Seq(Byte), NEW p \in Nat, NEW e \in Nat, Here = p + 1, p + Len(block) = e, e <= put,
         Write(block)
  PROVE  /\ cells' \in Seq(Byte) /\ put' = put
         /\ \A i \in 1 .. put : cells'[i] = IF i > p /\ i <= e THEN block[i - p] ELSE cells[i]
<1>1. put \in Nat /\ DOMAIN cells = 1 .. put /\ Len(block) \in Nat
  BY DEF TypeOK, put
<1>2. cells' = [i \in 1 .. put |-> IF i \in p + 1 .. e THEN block[i - p] ELSE cells[i]]
  <2>1. cells' = [i \in 1 .. put |-> IF i \in p + 1 .. p + 1 + Len(block) - 1 THEN block[i - (p + 1) + 1] ELSE cells[i]]
    BY <1>1 DEF Write
  <2>2. p + 1 + Len(block) - 1 = e /\ \A i \in Nat : i - (p + 1) + 1 = i - p
    BY <1>1
  <2> QED
    BY <2>1, <2>2, <1>1
<1>3. \A i \in 1 .. put : (IF i \in p + 1 .. e THEN block[i - p] ELSE cells[i]) \in Byte
  <2> TAKE i \in 1 .. put
  <2>1. cells[i] \in Byte
    BY DEF TypeOK, put
  <2>2. i \in p + 1 .. e => i - p \in 1 .. Len(block)
    BY <1>1
  <2> QED
    BY <2>1, <2>2
<1>4. cells' \in Seq(Byte) /\ Len(cells') = put
  <2>1. cells' \in [1 .. put -> Byte]
    BY <1>2, <1>3, Zenon
  <2> QED
    BY <2>1, <1>1
<1>5. \A i \in 1 .. put : cells'[i] = IF i > p /\ i <= e THEN block[i - p] ELSE cells[i]
  BY <1>1, <1>2
<1> QED
  BY <1>4, <1>5 DEF put

\* recievedSTART decrypts what has arrived in the meantime, in its place.
LEMMA DecryptRestKeeps == ASSUME StreamInv, DecryptRest, missed' = {} PROVE StreamInv'
<1> USE DEF StreamInv
<1>1. /\ input' = input /\ inHand' = inHand /\ mark' = mark /\ decrypt' = decrypt /\ gui' = gui /\ shown' = shown
      /\ gui = "start" /\ ~decrypt /\ CharExist
  BY DEF DecryptRest, OfWindow, BufferToDecrypt
<1>2. TailAfterLook = tail
  <2>1. ~(TailAfterLook # mark.chunk)
    BY NoneMissed DEF DecryptRest
  <2> QED
    BY <2>1, <1>1 DEF InPlace
<1>3. /\ Taken \in Nat /\ put \in Nat /\ Arrived \in Nat /\ put <= Arrived /\ tail \in Nat /\ Place \in Nat
      /\ Place < put /\ Taken <= Place /\ At(tail) \in Nat /\ ChunkSize \in Nat
      /\ ptr[tail] \in 0 .. ChunkSize /\ Arrived <= Len(input)
  BY <1>1, Lengths, LooksRight, Constants DEF InPlace, InOrder
<1>4. PICK e \in Nat : /\ e = At(tail) + Size(tail) /\ Place < e /\ e <= put
                       /\ Buffer \in Seq(Byte) /\ Len(Buffer) = e - Place
                       /\ \A i \in 1 .. e - Place : Buffer[i] = cells[Place + i]
  BY <1>1, <1>2, BufferIsRest
<1>5. Here = Place + 1 /\ Size(tail) \in 0 .. ChunkSize
  BY <1>1, <1>2, BufferIsRest
<1>6. /\ Decrypt(Buffer) \in Seq(Byte) /\ Len(Decrypt(Buffer)) = e - Place
      /\ \A i \in 1 .. e - Place : Decrypt(Buffer)[i] = DecryptCell(Buffer[i], engine + i)
  BY <1>4, DecryptType
<1>7. PICK p \in Nat : p = Place
  BY <1>3
<1>8. /\ cells' \in Seq(Byte) /\ put' = put
      /\ \A i \in 1 .. put : cells'[i] = IF i > p /\ i <= e THEN Decrypt(Buffer)[i - p] ELSE cells[i]
  <2>1. Write(Decrypt(Buffer)) /\ Here = p + 1 /\ p + Len(Decrypt(Buffer)) = e
    BY <1>3, <1>4, <1>5, <1>6, <1>7 DEF DecryptRest
  <2> HIDE DEF StreamInv
  <2>2. TypeOK
    BY DEF StreamInv
  <2> QED
    BY <2>1, <2>2, <1>4, <1>6, WriteType
<1>9. tail' = tail /\ ptr' = [ptr EXCEPT ![tail] = Size(tail)]
  BY <1>2 DEF DecryptRest, PtrAfterBuffer
<1>10. engine' = engine + (e - p) /\ lastIn' = [block |-> Buffer, engine |-> engine]
  BY <1>4, <1>7 DEF DecryptRest, Decrypted
<1>11. /\ Taken' = Taken /\ Arrived' = Arrived /\ Place' = e /\ Deep = p /\ Deep' = e
  <2>1. Place' = e
    <3>1. At(tail)' = At(tail) /\ ptr'[tail'] = Size(tail)
      BY <1>9 DEF At, TypeOK
    <3> QED
      BY <3>1, <1>4 DEF Place
  <2>2. Taken' = Taken /\ Arrived' = Arrived
    BY <1>1, <1>8 DEF Taken, Arrived
  <2>3. Deep = Place /\ Deep' = e
    BY <2>1, <1>1 DEF Deep
  <2> QED
    BY <2>1, <2>2, <2>3, <1>7
<1>12. TypeOK'
  <2>1. ptr' \in [Chunk -> 0 .. ChunkSize]
    BY <1>5, <1>9 DEF TypeOK
  <2>2. engine' \in Int /\ lastIn' \in [block : Seq(Byte), engine : Int]
    <3>1. engine \in Int /\ e - p \in Int
      BY <1>4, <1>7 DEF TypeOK
    <3> HIDE DEF StreamInv
    <3> QED
      BY <3>1, <1>4, <1>10
  <2> QED
    BY <2>1, <2>2, <1>1, <1>8, <1>9 DEF TypeOK
<1>13. InOrder' /\ InTurn' /\ Quiet'
  BY <1>1, <1>8, <1>11, SameText DEF InOrder, InTurn, Quiet
<1>14. InPlace'
  <2>1. At(tail)' = At(tail)
    BY <1>9 DEF At
  <2>2. \A c \in Chunk : c > tail' => ptr'[c] = 0
    BY <1>3, <1>9, Constants DEF InPlace, TypeOK
  <2> QED
    BY <1>1, <1>3, <1>4, <1>7, <1>8, <1>9, <1>11, <2>1, <2>2 DEF InPlace
<1>15. /\ Encrypted(Taken)' = Encrypted(Taken) /\ Encrypted(Taken) \in Nat
       /\ engine = Encrypted(Taken) + (p - Taken)
  <2>1. Encrypted(Taken)' = Encrypted(Taken)
    BY <1>1, <1>11, SameText DEF Encrypted
  <2> QED
    BY <2>1, <1>3, <1>11, EncryptedType DEF Decoded
<1>16. ASSUME NEW i \in Taken + 1 .. Arrived PROVE Bytes'[i] = Form(i)'
  <2>1. Bytes[i] = IF i <= put THEN cells[i] ELSE inHand[i - put]
    BY <1>3, ConcatProperties DEF Bytes, TypeOK, put, Arrived
  <2>2. Bytes'[i] = IF i <= put THEN cells'[i] ELSE inHand[i - put]
    <3>1. Bytes' = cells' \o inHand /\ Len(cells') = put
      BY <1>1, <1>8 DEF Bytes, put
    <3>2. cells' \in Seq(Byte) /\ inHand \in Seq(Byte)
      BY <1>8 DEF TypeOK
    <3>3. i \in 1 .. Len(cells') + Len(inHand)
      BY <3>1, <1>3 DEF Arrived
    <3>4. (cells' \o inHand)[i] = IF i <= Len(cells') THEN cells'[i] ELSE inHand[i - Len(cells')]
      BY <3>2, <3>3, ConcatProperties
    <3> QED
      BY <3>1, <3>4
  <2>3. Bytes[i] = IF i <= p THEN DecryptCell(Raw(i), Encrypted(Taken) + (i - Taken)) ELSE Raw(i)
    BY <1>11 DEF Decoded, Form
  <2>4. Form(i)' = IF i <= e THEN DecryptCell(Raw(i), Encrypted(Taken) + (i - Taken)) ELSE Raw(i)
    <3>1. Form(i)' = IF i <= Deep' THEN DecryptCell(Raw(i), Encrypted(Taken) + (i - Taken))' ELSE Raw(i)'
      BY DEF Form
    <3> QED
      BY <3>1, <1>1, <1>11, <1>15, FormSteady
  <2>5. CASE i <= p
    BY <2>1, <2>2, <2>3, <2>4, <2>5, <1>3, <1>4, <1>7, <1>8
  <2>6. CASE i > p /\ i <= e
    <3>1. i - p \in 1 .. e - Place /\ Place + (i - p) = i /\ i \in 1 .. put /\ i <= put
      BY <2>6, <1>3, <1>4, <1>7
    <3>2. cells'[i] = Decrypt(Buffer)[i - p]
      BY <3>1, <2>6, <1>8
    <3>3. Decrypt(Buffer)[i - p] = DecryptCell(cells[i], engine + (i - p))
      BY <3>1, <1>4, <1>6
    <3>4. engine + (i - p) = Encrypted(Taken) + (i - Taken)
      BY <1>3, <1>15
    <3>5. cells[i] = Raw(i)
      BY <2>1, <2>3, <2>6, <3>1
    <3> QED
      BY <3>1, <3>2, <3>3, <3>4, <3>5, <2>2, <2>4, <2>6
  <2>7. CASE i > e
    <3>1. ~(i <= p) /\ ~(i <= e)
      BY <2>7, <1>3, <1>4, <1>7
    <3>2. i <= put => cells'[i] = cells[i]
      BY <3>1, <1>3, <1>8
    <3> QED
      BY <3>1, <3>2, <2>1, <2>2, <2>3, <2>4
  <2> QED
    BY <2>5, <2>6, <2>7
<1>17. engine' = Encrypted(Taken)' + (Deep' - Taken')
  BY <1>3, <1>7, <1>10, <1>11, <1>15
<1>18. Remembers(p)'
  <2>1. \A i \in 1 .. e - p : Buffer[i] = Raw(p + i)
    <3> TAKE i \in 1 .. e - p
    <3>1. p + i \in Taken + 1 .. Arrived /\ p + i <= put /\ ~(p + i <= Deep) /\ p + i \in 1 .. put
      BY <1>3, <1>4, <1>7, <1>11
    <3>2. Bytes[p + i] = cells[p + i]
      BY <3>1, <1>3, ConcatProperties DEF Bytes, TypeOK, put
    <3>3. Bytes[p + i] = Raw(p + i)
      BY <3>1 DEF Decoded, Form
    <3> QED
      BY <3>2, <3>3, <1>4, <1>7
  <2>2. Buffer = [i \in 1 .. e - p |-> Raw(p + i)]
    BY <2>1, <1>4, <1>7
  <2>3. [i \in 1 .. e - p |-> Raw(p + i)'] = [i \in 1 .. e - p |-> Raw(p + i)]
    BY <1>1, SameText
  <2>4. engine = Encrypted(Taken)' + (p - Taken')
    BY <1>11, <1>15
  <2>5. p < Deep'
    BY <1>4, <1>7, <1>11
  <2> QED
    BY <2>2, <2>3, <2>4, <2>5, <1>10, <1>11 DEF Remembers
<1>19. Decoded'
  BY <1>11, <1>16, <1>17, <1>18 DEF Decoded
<1> QED
  BY <1>12, <1>13, <1>14, <1>19

\* The reader goes back to behind the START.
LEMMA StartKeeps == ASSUME StreamInv, Start, missed' = {} PROVE StreamInv'
<1> USE DEF StreamInv
<1>1. /\ input' = input /\ cells' = cells /\ inHand' = inHand /\ mark' = mark /\ decrypt' = decrypt /\ engine' = engine
      /\ lastIn' = lastIn /\ shown' = shown /\ gui = "start" /\ gui' = "started" /\ (decrypt \/ ~CharExist)
      /\ tail' = mark.chunk /\ ptr' = [ptr EXCEPT ![mark.chunk] = mark.index]
  BY DEF Start, OfWindow, BufferToDecrypt, RestoreToMark
<1>2. ~(~decrypt /\ inHand # Nothing)
  BY NoneMissed DEF Start
<1>3. /\ Taken \in Nat /\ put \in Nat /\ tail \in Nat /\ Place \in Nat /\ Taken <= put /\ Place <= put
      /\ (~decrypt => Arrived = put /\ Place = put) /\ At(tail) \in Nat
  BY <1>1, <1>2, Lengths, LooksRight DEF InPlace, InOrder, Arrived, Nothing
<1>4. mark.chunk = tail /\ At(tail) + mark.index = Taken /\ mark.index \in 0 .. ChunkSize
  BY <1>1 DEF InPlace, TypeOK
<1>5. Taken' = Taken /\ put' = put /\ Arrived' = Arrived /\ Bytes' = Bytes /\ Place' = Taken
  <2>1. At(tail)' = At(tail) /\ ptr'[tail'] = mark.index
    BY <1>1, <1>4 DEF At, TypeOK
  <2> QED
    BY <2>1, <1>1, <1>4 DEF Taken, put, Arrived, Bytes, Place
<1>6. Deep' = Deep
  BY <1>1, <1>3, <1>5 DEF Deep, TypeOK
<1>7. Decoded'
  BY <1>1, <1>5, <1>6, DecodedAsBefore
<1>8. TypeOK'
  BY <1>1, <1>4 DEF TypeOK
<1>9. InOrder' /\ InTurn' /\ Quiet'
  BY <1>1, <1>2, <1>5, SameText DEF InOrder, InTurn, Quiet
<1>10. InPlace'
  <2>1. \A c \in Chunk : c > tail' => ptr'[c] = 0
    BY <1>1, <1>3, <1>4, Constants DEF InPlace, TypeOK
  <2> QED
    BY <2>1, <1>1, <1>3, <1>5 DEF InPlace
<1> QED
  BY <1>7, <1>8, <1>9, <1>10

LEMMA StartedKeeps == ASSUME StreamInv, Started PROVE StreamInv'
<1> USE DEF StreamInv
<1>1. /\ input' = input /\ cells' = cells /\ inHand' = inHand /\ mark' = mark /\ decrypt' = TRUE /\ engine' = engine
      /\ lastIn' = lastIn /\ shown' = shown /\ gui = "started" /\ gui' = "idle" /\ tail' = tail /\ ptr' = ptr
  BY DEF Started, OfWindow, stream
<1>2. ~decrypt => inHand = Nothing
  BY <1>1 DEF Quiet
<1>3. /\ Taken \in Nat /\ put \in Nat /\ (~decrypt => Arrived = put)
  BY <1>1, <1>2, Lengths DEF Arrived, Nothing
<1>4. Taken' = Taken /\ put' = put /\ Arrived' = Arrived /\ Bytes' = Bytes /\ Place' = Place
  BY <1>1 DEF Taken, put, Arrived, Bytes, Place, At
<1>5. Deep' = Deep
  BY <1>1, <1>3, <1>4 DEF Deep, TypeOK
<1>6. Decoded'
  BY <1>1, <1>4, <1>5, DecodedAsBefore
<1>7. TypeOK' /\ InOrder' /\ Quiet'
  BY <1>1, <1>4, SameText DEF TypeOK, InOrder, Quiet
<1>8. InTurn'
  BY <1>1, <1>4, SameText DEF InTurn
<1>9. InPlace'
  BY <1>1, <1>4, SameText DEF InPlace, At
<1> QED
  BY <1>6, <1>7, <1>8, <1>9

\* The rest of the last block that was decrypted is as it came, and the engine is
\* where it was at the END.
LEMMA UndoKeeps == ASSUME StreamInv, Undo, missed' = {} PROVE StreamInv'
<1> USE DEF StreamInv
<1>1. /\ input' = input /\ inHand' = inHand /\ mark' = mark /\ decrypt' = decrypt /\ shown' = shown /\ gui = "end"
  BY DEF Undo, OfWindow
<1>2. /\ ~(decrypt /\ inHand # Nothing)
      /\ ~(decrypt /\ CharExist /\ (TailAfterLook # mark.chunk \/ Here + Len(Buffer) <= put))
      /\ ~(decrypt /\ Len(Buffer) > Len(lastIn.block))
  BY NoneMissed DEF Undo
<1>3. /\ Taken \in Nat /\ put \in Nat /\ tail \in Nat /\ Place = Taken /\ Taken <= put /\ At(tail) \in Nat
      /\ ptr[tail] \in 0 .. ChunkSize /\ Arrived \in Nat /\ put <= Arrived /\ (decrypt => Arrived = put)
  BY <1>1, <1>2, Lengths DEF InPlace, InOrder, Arrived, Nothing
<1>4. mark.chunk = tail /\ At(tail) + mark.index = Taken /\ mark.index \in 0 .. ChunkSize
  BY <1>1 DEF InPlace, TypeOK
<1>5. mark.index = ptr[tail]
  BY <1>3, <1>4 DEF Place
<1>6. tail' = tail /\ ptr' = ptr
  <2>1. CASE ~decrypt
    BY <2>1 DEF Undo
  <2>2. CASE decrypt /\ ~CharExist
    BY <2>2, <1>4, <1>5 DEF Undo, RestoreToMark, TypeOK
  <2>3. CASE decrypt /\ CharExist
    <3>1. TailAfterLook = tail
      BY <2>3, <1>2, <1>4
    <3>2. tail' = tail /\ ptr' = [[ptr EXCEPT ![tail] = Size(tail)] EXCEPT ![tail] = ptr[tail]]
      BY <2>3, <3>1, <1>4, <1>5 DEF Undo, RestoreToMark, PtrAfterBuffer
    <3> QED
      BY <3>2 DEF TypeOK
  <2> QED
    BY <2>1, <2>2, <2>3
<1>7. Taken' = Taken /\ Place' = Place
  BY <1>1, <1>6 DEF Taken, Place, At
<1>8. Deep = IF decrypt THEN put ELSE Taken
  BY <1>1, <1>3 DEF Deep, TypeOK
<1>9. Encrypted(Taken)' = Encrypted(Taken) /\ Encrypted(Taken) \in Nat
  BY <1>1, <1>3, <1>7, SameText, EncryptedType DEF Encrypted
<1>10. /\ engine = Encrypted(Taken) + (Deep - Taken)
       /\ ~decrypt => \A i \in Taken + 1 .. Arrived : Bytes[i] = Raw(i)
  BY <1>3, <1>8 DEF Decoded, Form
\* It is enough that the bytes are as they came, and the engine is where it was.
<1>11. /\ gui' = "ended"
       /\ cells' \in Seq(Byte) /\ put' = put /\ \A i \in Taken + 1 .. Arrived : Bytes'[i] = Raw(i)
       /\ engine' = Encrypted(Taken) /\ lastIn' \in [block : Seq(Byte), engine : Int]
  <2>1. CASE ~decrypt
    <3>1. gui' = "ended" /\ cells' = cells /\ engine' = engine /\ lastIn' = lastIn
      BY <2>1 DEF Undo
    <3>2. Bytes' = Bytes /\ put' = put
      BY <3>1, <1>1 DEF Bytes, put
    <3> QED
      BY <3>1, <3>2, <2>1, <1>3, <1>8, <1>9, <1>10 DEF TypeOK
  <2>2. CASE decrypt /\ ~CharExist
    <3>1. put = Taken /\ Arrived = Taken
      BY <2>2, <1>3, LooksRight
    <3>2. Buffer = <<>>
      BY <2>2 DEF Buffer
    <3>3. gui' = "ended" /\ cells' = cells /\ engine' = engine /\ lastIn' = lastIn
      BY <2>2, <3>2 DEF Undo
    <3> QED
      BY <3>1, <3>3, <2>2, <1>3, <1>8, <1>9, <1>10 DEF TypeOK, put
  <2>3. CASE decrypt /\ CharExist
    <3>1. TailAfterLook = tail /\ Here + Len(Buffer) > put /\ Len(Buffer) <= Len(lastIn.block)
      <4>1. TailAfterLook = tail /\ ~(Here + Len(Buffer) <= put) /\ ~(Len(Buffer) > Len(lastIn.block))
        BY <2>3, <1>2, <1>4
      <4>2. Here = Place + 1 /\ Buffer \in Seq(Byte) /\ lastIn.block \in Seq(Byte)
        BY <4>1, <2>3, BufferIsRest DEF TypeOK
      <4>3. Len(Buffer) \in Nat /\ Len(lastIn.block) \in Nat
        BY <4>2, LenProperties
      <4> QED
        BY <4>1, <4>2, <4>3, <1>3
    <3>2. /\ Here = Taken + 1 /\ Buffer \in Seq(Byte) /\ Len(Buffer) = put - Taken /\ Taken < put
      <4>1. PICK e \in Nat : /\ e = At(tail) + Size(tail) /\ Place < e /\ e <= put
                             /\ Buffer \in Seq(Byte) /\ Len(Buffer) = e - Place
        BY <3>1, <2>3, BufferIsRest
      <4>2. Here = Place + 1
        BY <3>1, <2>3, BufferIsRest
      <4>3. e = put
        BY <4>1, <4>2, <3>1, <1>3
      <4> QED
        BY <4>1, <4>2, <4>3, <1>3
    <3>3. PICK b \in Nat : Remembers(b)
      BY <3>2, <2>3, <1>8 DEF Decoded
    <3>4. /\ b < put /\ lastIn.block = [i \in 1 .. put - b |-> Raw(b + i)] /\ lastIn.engine = Encrypted(Taken) + (b - Taken)
      BY <3>3, <2>3, <1>8 DEF Remembers
    <3>5. lastIn.block \in Seq(Byte) /\ Len(lastIn.block) = put - b
      <4>1. put - b \in Nat
        BY <3>4, <1>3
      <4>2. lastIn.block \in Seq(Byte)
        BY DEF TypeOK
      <4>3. [i \in 1 .. put - b |-> Raw(b + i)] \in Seq(Byte)
        BY <4>2, <3>4
      <4>4. Len([i \in 1 .. put - b |-> Raw(b + i)]) = put - b
        BY <4>1
      <4> QED
        BY <4>2, <4>4, <3>4
    <3>6. b <= Taken
      BY <3>1, <3>2, <3>5, <1>3
    <3>7. lastIn # NoLast /\ Buffer # <<>>
      BY <3>2, <3>4, <3>5, <1>3, EmptySeq DEF NoLast
    <3> DEFINE length == Len(Buffer)
               n == Len(lastIn.block) - length
               back == SubSeq(lastIn.block, n + 1, n + length)
    <3>9. length = put - Taken /\ length \in Nat /\ n = Taken - b /\ n \in Nat /\ n + length = put - b
      BY <3>2, <3>5, <3>6, <1>3
    <3>10. gui' = "ended" /\ Write(back) /\ Undone(length)
      <4>1. ~(n < 0)
        BY <3>9
      <4> QED
        BY <4>1, <3>7, <2>3 DEF Undo
    <3>11. back \in Seq(Byte) /\ Len(back) = put - Taken /\ \A i \in 1 .. put - Taken : back[i] = lastIn.block[n + i]
      <4>1. \A i \in n + 1 .. n + length : lastIn.block[i] \in Byte
        BY <3>5, <3>9
      <4>2. /\ back \in Seq(Byte)
            /\ Len(back) = IF n + 1 <= n + length THEN (n + length) - (n + 1) + 1 ELSE 0
            /\ \A i \in 1 .. (n + length) - (n + 1) + 1 : back[i] = lastIn.block[n + 1 + i - 1]
        <5>1. n + 1 \in Int /\ n + length \in Int
          BY <3>9
        <5> HIDE DEF n, length
        <5> QED
          BY <5>1, <4>1, SubSeqProperties
      <4>3. (n + length) - (n + 1) + 1 = put - Taken /\ \A i \in Nat : n + 1 + i - 1 = n + i
        BY <3>9, <1>3
      <4> HIDE DEF back
      <4> QED
        BY <4>2, <4>3, <3>9, <1>3
    <3>12. PICK p \in Nat : p = Taken
      BY <1>3
    <3>13. /\ cells' \in Seq(Byte) /\ put' = put
           /\ \A i \in 1 .. put : cells'[i] = IF i > p /\ i <= put THEN back[i - p] ELSE cells[i]
      <4>1. TypeOK
        OBVIOUS
      <4> HIDE DEF StreamInv, n, length, back
      <4>2. PICK e \in Nat : e = put
        BY <1>3
      <4>3. Len(back) = e - p /\ Here = p + 1
        BY <4>2, <3>2, <3>11, <3>12
      <4>4. p + Len(back) = e /\ e <= put
        BY <4>2, <4>3
      <4>5. back \in Seq(Byte) /\ Write(back)
        BY <3>10, <3>11
      <4>6. /\ cells' \in Seq(Byte) /\ put' = put
            /\ \A i \in 1 .. put : cells'[i] = IF i > p /\ i <= e THEN back[i - p] ELSE cells[i]
        BY <4>1, <4>3, <4>4, <4>5, WriteType
      <4> QED
        BY <4>2, <4>6
    <3>14. \A i \in Taken + 1 .. put : cells'[i] = Raw(i)
      <4> TAKE i \in Taken + 1 .. put
      <4>1. i - p \in 1 .. put - Taken /\ i \in 1 .. put /\ i > p /\ i <= put
        BY <3>12, <1>3
      <4>2. cells'[i] = lastIn.block[n + (i - p)]
        BY <4>1, <3>11, <3>13
      <4>3. n + (i - p) = i - b /\ i - b \in 1 .. put - b /\ b + (i - b) = i
        BY <4>1, <3>6, <3>9, <3>12, <1>3
      <4> QED
        BY <4>2, <4>3, <3>4
    <3>15. engine' = Encrypted(Taken) /\ lastIn' = NoLast
      BY <3>4, <3>5, <3>9, <3>10, <1>3, <1>9 DEF Undone
    <3>16. Bytes' = cells' /\ Arrived = put
      BY <2>3, <1>1, <1>2, <1>3, <3>13, ConcatEmptySeq DEF Bytes, Nothing
    <3> QED
      BY <3>10, <3>13, <3>14, <3>15, <3>16, EmptySeq DEF NoLast
  <2> QED
    BY <2>1, <2>2, <2>3 DEF TypeOK
<1>12. Arrived' = Arrived /\ Deep' = Taken
  BY <1>1, <1>7, <1>11 DEF Arrived, Deep
<1>13. TypeOK'
  BY <1>1, <1>6, <1>9, <1>11 DEF TypeOK
<1>14. InOrder' /\ InPlace' /\ Quiet'
  BY <1>1, <1>3, <1>6, <1>7, <1>11, <1>12, SameText DEF InOrder, InPlace, Quiet, At
<1>15. InTurn'
  BY <1>1, <1>7, <1>11, SameText DEF InTurn
<1>16. Decoded'
  <2>1. \A i \in Taken + 1 .. Arrived : Form(i)' = Raw(i)
    <3> TAKE i \in Taken + 1 .. Arrived
    <3>1. Form(i)' = Raw(i)'
      BY <1>3, <1>12 DEF Form
    <3> QED
      BY <3>1, <1>1, SameText
  <2>2. engine' = Encrypted(Taken)' + (Deep' - Taken')
    BY <1>3, <1>7, <1>9, <1>11, <1>12
  <2> QED
    BY <2>1, <2>2, <1>3, <1>7, <1>11, <1>12 DEF Decoded
<1> QED
  BY <1>13, <1>14, <1>15, <1>16

LEMMA EndedKeeps == ASSUME StreamInv, Ended PROVE StreamInv'
<1> USE DEF StreamInv
<1>1. /\ input' = input /\ cells' = cells /\ inHand' = inHand /\ mark' = mark /\ decrypt' = FALSE /\ engine' = engine
      /\ lastIn' = lastIn /\ shown' = shown /\ gui = "ended" /\ gui' = "idle" /\ tail' = tail /\ ptr' = ptr
  BY DEF Ended, OfWindow, stream
<1>2. Taken' = Taken /\ put' = put /\ Arrived' = Arrived /\ Bytes' = Bytes /\ Place' = Place
  BY <1>1 DEF Taken, put, Arrived, Bytes, Place, At
<1>3. Deep' = Deep
  BY <1>1, <1>2 DEF Deep
<1>4. Decoded'
  BY <1>1, <1>2, <1>3, DecodedAsBefore
<1>5. TypeOK' /\ InOrder' /\ Quiet'
  BY <1>1, <1>2, SameText DEF TypeOK, InOrder, Quiet
<1>6. InTurn'
  BY <1>1, <1>2, SameText DEF InTurn
<1>7. InPlace'
  BY <1>1, <1>2, SameText DEF InPlace, At
<1> QED
  BY <1>4, <1>5, <1>6, <1>7

-----------------------------------------------------------------------------
(* The theorem *)

LEMMA StreamInitially == Init => StreamInv
<1> SUFFICES ASSUME Init PROVE StreamInv
  OBVIOUS
<1>1. /\ input \in Texts /\ cells = <<>> /\ inHand = <<>> /\ decrypt = FALSE /\ engine = 0 /\ lastIn = NoLast
      /\ tail = 0 /\ ptr = [c \in Chunk |-> 0] /\ mark = [chunk |-> 0, index |-> 0] /\ gui = "idle" /\ shown = <<>>
  BY DEF Init, Nothing
<1>2. Len(<<>>) = 0 /\ <<>> \in Seq(Byte) /\ <<>> \in Seq(Nat)
  BY EmptySeq
<1>3. 0 \in Chunk /\ At(0) = 0
  BY Constants DEF Chunk, At
<1>4. Taken = 0 /\ put = 0 /\ Arrived = 0 /\ Deep = 0 /\ Place = 0
  BY <1>1, <1>2, <1>3 DEF Taken, put, Arrived, Deep, Place
<1>5. TypeOK
  <2>1. NoLast \in [block : Seq(Byte), engine : Int]
    <3>1. <<>> \in Seq(Byte)
      BY EmptySeq
    <3>2. -1 \in Int
      OBVIOUS
    <3> QED
      BY <3>1, <3>2 DEF NoLast
  <2>2. 0 \in 0 .. ChunkSize
    BY Constants
  <2>3. tail \in Chunk /\ ptr \in [Chunk -> 0 .. ChunkSize] /\ mark \in [chunk : Chunk, index : 0 .. ChunkSize]
    BY <1>1, <1>3, <2>2
  <2>4. inHand \in Seq(Byte) /\ cells \in Seq(Byte)
    BY <1>1, EmptySeq
  <2>5. shown \in Seq(Nat)
    BY <1>1, EmptySeq
  <2>6. engine \in Int /\ gui \in {"idle", "start", "started", "end", "ended"}
    BY <1>1
  <2>7. decrypt \in BOOLEAN
    BY <1>1, Zenon
  <2> QED
    BY <1>1, <2>1, <2>3, <2>4, <2>5, <2>6, <2>7 DEF TypeOK
<1>6. Len(input) \in Nat
  BY <1>1, EncryptAssumption
<1>7. InOrder
  BY <1>4, <1>6 DEF InOrder
<1>8. InPlace /\ Quiet
  BY <1>1, <1>4, Constants DEF InPlace, Quiet
<1>9. Encrypted(0) = 0
  <2>1. {k \in 1 .. 0 : IsEncrypted(k)} = {}
    OBVIOUS
  <2> QED
    BY <2>1, FS_EmptySet DEF Encrypted
<1>10. Decoded
  BY <1>1, <1>4, <1>9 DEF Decoded
<1>11. ~IsEncrypted(1)
  BY DEF IsEncrypted
<1>12. InTurn
  BY <1>1, <1>4, <1>11 DEF InTurn
<1> QED
  BY <1>5, <1>7, <1>8, <1>10, <1>12 DEF StreamInv

LEMMA StreamStutters == StreamInv /\ UNCHANGED vars => StreamInv'
<1> SUFFICES ASSUME StreamInv, UNCHANGED vars PROVE StreamInv'
  OBVIOUS
<1> USE DEF StreamInv
<1>1. /\ input' = input /\ cells' = cells /\ inHand' = inHand /\ mark' = mark /\ decrypt' = decrypt /\ engine' = engine
      /\ lastIn' = lastIn /\ shown' = shown /\ gui' = gui /\ tail' = tail /\ ptr' = ptr
  BY DEF vars, stream
<1>2. Taken' = Taken /\ put' = put /\ Arrived' = Arrived /\ Bytes' = Bytes /\ Place' = Place
  BY <1>1 DEF Taken, put, Arrived, Bytes, Place, At
<1>3. Deep' = Deep
  BY <1>1, <1>2 DEF Deep
<1>4. Decoded'
  BY <1>1, <1>2, <1>3, DecodedAsBefore
<1>5. TypeOK' /\ InOrder' /\ Quiet'
  BY <1>1, <1>2, SameText DEF TypeOK, InOrder, Quiet
<1>6. InTurn'
  BY <1>1, <1>2, SameText DEF InTurn
<1>7. InPlace'
  BY <1>1, <1>2, SameText DEF InPlace, At
<1> QED
  BY <1>4, <1>5, <1>6, <1>7

\* What was missed before a step is missed after it.
LEMMA MissedStays == ASSUME [Next]_vars, missed' = {} PROVE missed = {}
<1>1. CASE Receive \/ DecryptRest \/ Start \/ Undo
  BY <1>1, NoneMissed DEF Receive, DecryptRest, Start, Undo
<1>2. CASE PutChars \/ Read \/ Started \/ Ended \/ UNCHANGED vars
  BY <1>2 DEF PutChars, Read, Started, Ended, vars
<1> QED
  BY <1>1, <1>2 DEF Next

\* Until something is missed all is as it should be.
StreamIndInv == missed = {} => StreamInv

LEMMA StreamStep == StreamIndInv /\ [Next]_vars => StreamIndInv'
<1> SUFFICES ASSUME StreamIndInv, [Next]_vars, missed' = {} PROVE StreamInv'
  BY DEF StreamIndInv
<1>1. StreamInv
  BY MissedStays DEF StreamIndInv
<1> QED
  BY <1>1, ReceiveKeeps, PutCharsKeeps, ReadKeeps, DecryptRestKeeps, StartKeeps, StartedKeeps, UndoKeeps, EndedKeeps,
     StreamStutters
     DEF Next

LEMMA StreamReads == StreamIndInv => ReadAsSent
<1> SUFFICES ASSUME StreamIndInv, missed = {} PROVE gui # "crashed" /\ InStep /\ \A k \in 1 .. Len(shown) : shown[k] = k
  BY DEF ReadAsSent
<1>5. StreamInv
  BY DEF StreamIndInv
<1> USE DEF StreamInv
<1>1. gui # "crashed"
  BY <1>5 DEF TypeOK
<1>2. \A k \in 1 .. Len(shown) : shown[k] = k
  BY <1>5 DEF InOrder, Taken
<1>3. ASSUME gui = "idle", ~CharExist, inHand = Nothing PROVE Len(shown) = put /\ (decrypt <=> IsEncrypted(put + 1)) /\ engine = Encrypted(put)
  <2>1. Taken = put /\ Taken \in Nat /\ Arrived = put
    BY <1>3, <1>5, Lengths, LooksRight DEF InPlace, Arrived, Nothing
  <2>2. Deep = Taken
    BY <1>3, <1>5, <2>1 DEF Deep, TypeOK
  <2>3. engine = Encrypted(Taken)
    BY <1>5, <2>1, <2>2, EncryptedType DEF Decoded
  <2> QED
    BY <2>1, <2>3, <1>3, <1>5 DEF InTurn, Taken
<1>4. InStep
  BY <1>3 DEF InStep
<1> QED
  BY <1>1, <1>2, <1>4

\* For any text, blocks and chunks, and blocks that arrive at any moment of the
\* work on a START or END: until the reading thread overtakes a change of mDecrypt,
\* GetBuffer gives another chunk or less than there is, or more is behind an END
\* than the last block, each byte is decrypted once, in its turn, and read as it
\* was sent; UndoDecrypt never runs out of its block, and both ends agree on where
\* the engine is.
THEOREM StreamReadAsSent == Spec => []ReadAsSent
<1>1. Init => StreamIndInv
  BY StreamInitially DEF StreamIndInv
<1>2. StreamIndInv /\ [Next]_vars => StreamIndInv'
  BY StreamStep
<1>3. StreamIndInv => ReadAsSent
  BY StreamReads
<1> QED
  BY <1>1, <1>2, <1>3, PTL DEF Spec

-----------------------------------------------------------------------------
(* The cipher itself *)

Num == 0 .. BlockSize - 1
Schedule == [0..15 -> RoundKeys]

LEMMA DesGiven ==
  /\ BlockSize \in Nat \ {0} /\ D!Half \in Nat /\ BlockSize = 2 * D!Half
  /\ Feedback \in 1..BlockSize /\ MaxBytes \in Nat
  /\ Modes \subseteq D!Mode
  /\ \A b \in D!Block : /\ IP(b) \in D!Block /\ FP(b) \in D!Block
                        /\ FP(IP(b)) = b /\ IP(FP(b)) = b
  /\ \A t \in Keys : \A j \in 1..3, i \in 0..28 : Choice(t[j], i) \in RoundKeys
  /\ \A w \in D!Word : \A k \in RoundKeys : Mangle(w, k) \in D!Word
BY CiphersAssumption DEF D!DesAssumption, D!Half

LEMMA ByteXorTwice ==
  ASSUME NEW a \in D!Byte, NEW b \in D!Byte
  PROVE  D!ByteXor(a, b) \in D!Byte /\ D!ByteXor(D!ByteXor(a, b), b) = a
BY DEF D!ByteXor, D!Byte

LEMMA XorType ==
  ASSUME NEW S, NEW a \in [S -> D!Byte], NEW b \in [S -> D!Byte]
  PROVE  /\ D!Xor(a, b) \in [S -> D!Byte]
         /\ \A i \in S : D!Xor(a, b)[i] = D!ByteXor(a[i], b[i])
<1> DEFINE x == [i \in S |-> D!ByteXor(a[i], b[i])]
<1>1. x \in [S -> D!Byte]
  BY ByteXorTwice
<1>2. \E y \in [S -> D!Byte] : \A i \in S : y[i] = D!ByteXor(a[i], b[i])
  BY <1>1
<1>3. DOMAIN a = S
  OBVIOUS
<1> QED
  BY <1>2, <1>3 DEF D!Xor

\* What is added twice is gone.
LEMMA XorTwice ==
  ASSUME NEW S, NEW a \in [S -> D!Byte], NEW b \in [S -> D!Byte]
  PROVE  D!Xor(D!Xor(a, b), b) = a
<1> DEFINE x == D!Xor(a, b)
<1>1. x \in [S -> D!Byte] /\ \A i \in S : x[i] = D!ByteXor(a[i], b[i])
  BY XorType
<1>2. D!Xor(x, b) \in [S -> D!Byte] /\ \A i \in S : D!Xor(x, b)[i] = D!ByteXor(x[i], b[i])
  BY <1>1, XorType
<1>3. \A i \in S : D!Xor(x, b)[i] = a[i]
  BY <1>1, <1>2, ByteXorTwice
<1> HIDE DEF x
<1>4. D!Xor(x, b) = a
  BY <1>2, <1>3
<1> QED
  BY <1>4 DEF x

Pair == D!Word \X D!Word
Flip(d) == <<d[2], d[1]>>

\* A round is undone by the same round, with the halves exchanged before it and
\* after it.
LEMMA RoundBack ==
  ASSUME NEW d \in Pair, NEW k \in RoundKeys
  PROVE  /\ D!DEncrypt(d, k) \in Pair
         /\ D!DEncrypt(Flip(D!DEncrypt(d, k)), k) = Flip(d)
<1>1. PICK v \in D!Word, w \in D!Word : d = <<v, w>>
  BY DEF Pair
<1>2. Mangle(w, k) \in D!Word
  BY DesGiven
<1>3. D!Xor(v, Mangle(w, k)) \in D!Word /\ D!Xor(D!Xor(v, Mangle(w, k)), Mangle(w, k)) = v
  BY <1>2, XorType, XorTwice DEF D!Word
<1> QED
  BY <1>1, <1>3 DEF D!DEncrypt, Pair, Flip

LEMMA Flips == \A d \in Pair : Flip(d) \in Pair /\ Flip(Flip(d)) = d
BY DEF Pair, Flip

\* So are four of them, back from the last one, and forth from the first one.
LEMMA FourBack ==
  ASSUME NEW d \in Pair, NEW s \in Schedule, NEW i \in 0..12
  PROVE  /\ D!Forth(d, s, i) \in Pair /\ D!Back(d, s, i + 3) \in Pair
         /\ D!Back(Flip(D!Forth(d, s, i)), s, i + 3) = Flip(d)
         /\ D!Forth(Flip(D!Back(d, s, i + 3)), s, i) = Flip(d)
<1>1. /\ s[i] \in RoundKeys /\ s[i + 1] \in RoundKeys
      /\ s[i + 2] \in RoundKeys /\ s[i + 3] \in RoundKeys
  BY DEF Schedule
<1>2. i + 3 - 1 = i + 2 /\ i + 3 - 2 = i + 1 /\ i + 3 - 3 = i
  OBVIOUS
<1> DEFINE a == s[i]  b == s[i + 1]  c == s[i + 2]  e == s[i + 3]
<1>3. /\ \A x : D!Forth(x, s, i) = D!DEncrypt(D!DEncrypt(D!DEncrypt(D!DEncrypt(x, a), b), c), e)
      /\ \A x : D!Back(x, s, i + 3) = D!DEncrypt(D!DEncrypt(D!DEncrypt(D!DEncrypt(x, e), c), b), a)
  BY <1>2 DEF D!Forth, D!Back
<1> HIDE DEF a, b, c, e
<1>4. a \in RoundKeys /\ b \in RoundKeys /\ c \in RoundKeys /\ e \in RoundKeys
  BY <1>1 DEF a, b, c, e
<1>5. ASSUME NEW k \in RoundKeys, NEW l \in RoundKeys, NEW m \in RoundKeys, NEW n \in RoundKeys
      PROVE  LET y == D!DEncrypt(D!DEncrypt(D!DEncrypt(D!DEncrypt(d, k), l), m), n) IN
             /\ y \in Pair
             /\ D!DEncrypt(D!DEncrypt(D!DEncrypt(D!DEncrypt(Flip(y), n), m), l), k) = Flip(d)
  <2> DEFINE d1 == D!DEncrypt(d, k)  d2 == D!DEncrypt(d1, l)
             d3 == D!DEncrypt(d2, m)  d4 == D!DEncrypt(d3, n)
  <2>1. d1 \in Pair /\ D!DEncrypt(Flip(d1), k) = Flip(d)
    BY RoundBack
  <2> HIDE DEF d1
  <2>2. d2 \in Pair /\ D!DEncrypt(Flip(d2), l) = Flip(d1)
    BY <2>1, RoundBack
  <2> HIDE DEF d2
  <2>3. d3 \in Pair /\ D!DEncrypt(Flip(d3), m) = Flip(d2)
    BY <2>2, RoundBack
  <2> HIDE DEF d3
  <2>4. d4 \in Pair /\ D!DEncrypt(Flip(d4), n) = Flip(d3)
    BY <2>3, RoundBack
  <2>5. d4 \in Pair /\ D!DEncrypt(D!DEncrypt(D!DEncrypt(D!DEncrypt(Flip(d4), n), m), l), k) = Flip(d)
    BY <2>1, <2>2, <2>3, <2>4
  <2> QED
    BY <2>5 DEF d4, d3, d2, d1
<1> QED
  BY <1>3, <1>4, <1>5

LEMMA LoadStore ==
  /\ \A b \in D!Block : D!Loaded(b) \in Pair /\ D!Stored(Flip(D!Loaded(b))) = b
  /\ \A d \in Pair : D!Stored(d) \in D!Block /\ D!Loaded(D!Stored(d)) = Flip(d)
<1>1. ASSUME NEW b \in D!Block PROVE D!Loaded(b) \in Pair /\ D!Stored(Flip(D!Loaded(b))) = b
  <2>1. D!Word0(b) \in D!Word /\ D!Word1(b) \in D!Word
    BY DesGiven DEF D!Word0, D!Word1, D!Word, D!Block
  <2>2. D!Joined(D!Word0(b), D!Word1(b)) = b
    <3>1. \A i \in 1..BlockSize :
            (IF i <= D!Half THEN D!Word0(b)[i] ELSE D!Word1(b)[i - D!Half]) = b[i]
      BY DesGiven DEF D!Word0, D!Word1
    <3> QED
      BY <3>1 DEF D!Joined, D!Block
  <2> QED
    BY <2>1, <2>2 DEF D!Loaded, D!Stored, Flip, Pair
<1>2. ASSUME NEW v \in D!Word, NEW w \in D!Word
      PROVE  /\ D!Joined(v, w) \in D!Block
             /\ D!Word0(D!Joined(v, w)) = v /\ D!Word1(D!Joined(v, w)) = w
  <2> DEFINE b == D!Joined(v, w)
  <2>1. \A i \in 1..BlockSize : b[i] = IF i <= D!Half THEN v[i] ELSE w[i - D!Half]
    BY DEF D!Joined
  <2>2. \A i \in 1..BlockSize : (i <= D!Half => i \in 1..D!Half) /\ (~(i <= D!Half) => i - D!Half \in 1..D!Half)
    BY DesGiven
  <2>3. b \in D!Block
    BY <2>2 DEF D!Joined, D!Block, D!Word
  <2>4. \A i \in 1..D!Half : b[i] = v[i] /\ b[D!Half + i] = w[i]
    BY <2>1, DesGiven
  <2> HIDE DEF b
  <2>5. D!Word0(b) = v /\ D!Word1(b) = w
    BY <2>4 DEF D!Word0, D!Word1, D!Word
  <2> QED
    BY <2>3, <2>5 DEF b
<1>3. ASSUME NEW d \in Pair PROVE D!Stored(d) \in D!Block /\ D!Loaded(D!Stored(d)) = Flip(d)
  BY <1>2 DEF D!Stored, D!Loaded, Flip, Pair
<1> QED
  BY <1>1, <1>3

\* Both directions of des_encrypt2 undo one another.
LEMMA RoundsBackAndForth ==
  ASSUME NEW b \in D!Block, NEW s \in Schedule
  PROVE  /\ D!Rounds(b, s) \in D!Block /\ D!RoundsBack(b, s) \in D!Block
         /\ D!RoundsBack(D!Rounds(b, s), s) = b
         /\ D!Rounds(D!RoundsBack(b, s), s) = b
<1> DEFINE d == D!Loaded(b)
           f1 == D!Forth(d, s, 0)   f2 == D!Forth(f1, s, 4)
           f3 == D!Forth(f2, s, 8)  f4 == D!Forth(f3, s, 12)
           g1 == D!Back(d, s, 15)   g2 == D!Back(g1, s, 11)
           g3 == D!Back(g2, s, 7)   g4 == D!Back(g3, s, 3)
<1>1. d \in Pair /\ D!Stored(Flip(d)) = b
  BY LoadStore
<1>2. \A x \in Pair, i \in 0..12 :
        /\ D!Forth(x, s, i) \in Pair /\ D!Back(x, s, i + 3) \in Pair
        /\ D!Back(Flip(D!Forth(x, s, i)), s, i + 3) = Flip(x)
        /\ D!Forth(Flip(D!Back(x, s, i + 3)), s, i) = Flip(x)
  BY FourBack
<1>3. /\ 0 \in 0..12 /\ 4 \in 0..12 /\ 8 \in 0..12 /\ 12 \in 0..12
      /\ 0 + 3 = 3 /\ 4 + 3 = 7 /\ 8 + 3 = 11 /\ 12 + 3 = 15
  OBVIOUS
<1>4. \A x \in Pair :
        /\ D!Forth(x, s, 0) \in Pair /\ D!Back(Flip(D!Forth(x, s, 0)), s, 3) = Flip(x)
        /\ D!Forth(x, s, 4) \in Pair /\ D!Back(Flip(D!Forth(x, s, 4)), s, 7) = Flip(x)
        /\ D!Forth(x, s, 8) \in Pair /\ D!Back(Flip(D!Forth(x, s, 8)), s, 11) = Flip(x)
        /\ D!Forth(x, s, 12) \in Pair /\ D!Back(Flip(D!Forth(x, s, 12)), s, 15) = Flip(x)
  BY <1>2, <1>3
<1>5. \A x \in Pair :
        /\ D!Back(x, s, 3) \in Pair /\ D!Forth(Flip(D!Back(x, s, 3)), s, 0) = Flip(x)
        /\ D!Back(x, s, 7) \in Pair /\ D!Forth(Flip(D!Back(x, s, 7)), s, 4) = Flip(x)
        /\ D!Back(x, s, 11) \in Pair /\ D!Forth(Flip(D!Back(x, s, 11)), s, 8) = Flip(x)
        /\ D!Back(x, s, 15) \in Pair /\ D!Forth(Flip(D!Back(x, s, 15)), s, 12) = Flip(x)
  BY <1>2, <1>3
<1>6. D!Rounds(b, s) = D!Stored(f4) /\ D!RoundsBack(b, s) = D!Stored(g4)
  BY DEF D!Rounds, D!RoundsBack
<1> HIDE DEF d
<1>7. f1 \in Pair /\ D!Back(Flip(f1), s, 3) = Flip(d) /\ g1 \in Pair /\ D!Forth(Flip(g1), s, 12) = Flip(d)
  BY <1>1, <1>4, <1>5
<1> HIDE DEF f1, g1
<1>8. f2 \in Pair /\ D!Back(Flip(f2), s, 7) = Flip(f1) /\ g2 \in Pair /\ D!Forth(Flip(g2), s, 8) = Flip(g1)
  BY <1>7, <1>4, <1>5
<1> HIDE DEF f2, g2
<1>9. f3 \in Pair /\ D!Back(Flip(f3), s, 11) = Flip(f2) /\ g3 \in Pair /\ D!Forth(Flip(g3), s, 4) = Flip(g2)
  BY <1>8, <1>4, <1>5
<1> HIDE DEF f3, g3
<1>10. f4 \in Pair /\ D!Back(Flip(f4), s, 15) = Flip(f3) /\ g4 \in Pair /\ D!Forth(Flip(g4), s, 0) = Flip(g3)
  BY <1>9, <1>4, <1>5
<1> HIDE DEF f4, g4
<1>11. D!Stored(f4) \in D!Block /\ D!Loaded(D!Stored(f4)) = Flip(f4)
  BY <1>10, LoadStore
<1>12. D!Stored(g4) \in D!Block /\ D!Loaded(D!Stored(g4)) = Flip(g4)
  BY <1>10, LoadStore
<1>13. D!RoundsBack(D!Stored(f4), s) = D!Stored(Flip(d))
  BY <1>7, <1>8, <1>9, <1>10, <1>11 DEF D!RoundsBack
<1>14. D!Rounds(D!Stored(g4), s) = D!Stored(Flip(d))
  BY <1>7, <1>8, <1>9, <1>10, <1>12 DEF D!Rounds
<1> QED
  BY <1>1, <1>6, <1>11, <1>12, <1>13, <1>14

LEMMA SchedulesTyped ==
  ASSUME keys \in Keys
  PROVE  \A i \in 1..3 : D!schedule[i] \in Schedule
<1>1. \A j \in 0..15 : D!Turned[j + 1] \in 0..28
  BY DEF D!Turned
<1>2. \A i \in 1..3 : \A j \in 0..15 : Choice(keys[i], D!Turned[j + 1]) \in RoundKeys
  BY <1>1, DesGiven
<1> QED
  BY <1>2 DEF D!schedule, D!des_set_key, Schedule

\* What is enciphered with one or three keys is deciphered with the same.
LEMMA CipherUndone ==
  ASSUME keys \in Keys, NEW b \in D!Block
  PROVE  /\ D!Enciphered(b) \in D!Block /\ D!Deciphered(b) \in D!Block
         /\ D!Deciphered(D!Enciphered(b)) = b
<1> DEFINE s1 == D!schedule[1]  s2 == D!schedule[2]  s3 == D!schedule[3]
<1>1. s1 \in Schedule /\ s2 \in Schedule /\ s3 \in Schedule
  BY SchedulesTyped
<1>2. /\ D!Enciphered(b) = IF mode.triple THEN FP(D!Rounds(D!RoundsBack(D!Rounds(IP(b), s1), s2), s3))
                                          ELSE FP(D!Rounds(IP(b), s1))
      /\ \A x : D!Deciphered(x) =
           IF mode.triple THEN FP(D!RoundsBack(D!Rounds(D!RoundsBack(IP(x), s3), s2), s1))
                          ELSE FP(D!RoundsBack(IP(x), s1))
  BY DEF D!Enciphered, D!Deciphered, D!des_encrypt, D!des_encrypt_back, D!des_encrypt3, D!des_decrypt3
<1> HIDE DEF s1, s2, s3
<1>3. \A x \in D!Block : /\ IP(x) \in D!Block /\ FP(x) \in D!Block
                         /\ FP(IP(x)) = x /\ IP(FP(x)) = x
  BY DesGiven
<1>4. \A x \in D!Block, s \in Schedule :
         /\ D!Rounds(x, s) \in D!Block /\ D!RoundsBack(x, s) \in D!Block
         /\ D!RoundsBack(D!Rounds(x, s), s) = x
         /\ D!Rounds(D!RoundsBack(x, s), s) = x
  BY RoundsBackAndForth
<1>5. CASE mode.triple
  <2> DEFINE x == IP(b)  x1 == D!Rounds(x, s1)  x2 == D!RoundsBack(x1, s2)  x3 == D!Rounds(x2, s3)
  <2>1. x1 \in D!Block /\ D!RoundsBack(x1, s1) = IP(b)
    BY <1>1, <1>3, <1>4
  <2>2. x2 \in D!Block /\ D!Rounds(x2, s2) = x1
    BY <2>1, <1>1, <1>4
  <2>3. x3 \in D!Block /\ D!RoundsBack(x3, s3) = x2
    BY <2>2, <1>1, <1>4
  <2>4. D!Enciphered(b) = FP(x3) /\ IP(FP(x3)) = x3 /\ FP(x3) \in D!Block
    BY <1>2, <1>3, <1>5, <2>3
  <2>5. D!Deciphered(b) \in D!Block
    BY <1>1, <1>2, <1>3, <1>4, <1>5
  <2> HIDE DEF x1, x2, x3
  <2>6. D!Deciphered(FP(x3)) = FP(IP(b))
    BY <1>2, <1>5, <2>1, <2>2, <2>3, <2>4
  <2> QED
    BY <1>3, <2>4, <2>5, <2>6
<1>6. CASE ~mode.triple
  BY <1>1, <1>2, <1>3, <1>4, <1>6
<1> QED
  BY <1>5, <1>6

-----------------------------------------------------------------------------
(* A turn of a loop *)

Chains == [reg : D!Block, n : Num]

LEMMA CutTyped ==
  ASSUME NEW b \in D!Block, NEW n \in Nat
  PROVE  D!Cut(b, n) \in D!Block /\ D!Cut(D!Cut(b, n), n) = D!Cut(b, n)
<1>1. {} \in D!Byte
  BY DEF D!Byte
<1>2. D!Cut(b, n) \in D!Block
  BY <1>1 DEF D!Cut, D!Block
<1>3. \A i \in 1..BlockSize :
        (IF i <= n THEN D!Cut(b, n)[i] ELSE {}) = IF i <= n THEN b[i] ELSE {}
  BY DEF D!Cut
<1>4. D!Cut(D!Cut(b, n), n) = D!Cut(b, n)
  BY <1>3 DEF D!Cut
<1> QED
  BY <1>2, <1>4

LEMMA BlockXor ==
  ASSUME NEW a \in D!Block, NEW b \in D!Block
  PROVE  /\ D!Xor(a, b) \in D!Block /\ D!Xor(D!Xor(a, b), b) = a
         /\ \A i \in 1..BlockSize : D!Xor(a, b)[i] = D!ByteXor(a[i], b[i])
<1> DEFINE S == 1..BlockSize
<1>1. a \in [S -> D!Byte] /\ b \in [S -> D!Byte] /\ D!Block = [S -> D!Byte]
  BY DEF D!Block
<1> HIDE DEF S
<1>2. D!Xor(a, b) \in [S -> D!Byte] /\ \A i \in S : D!Xor(a, b)[i] = D!ByteXor(a[i], b[i])
  BY <1>1, XorType
<1>3. D!Xor(D!Xor(a, b), b) = a
  BY <1>1, XorTwice
<1> QED
  BY <1>1, <1>2, <1>3 DEF S

\* A unit of cfb or ofb, to which a key stream is added twice.
LEMMA CutXor ==
  ASSUME NEW b \in D!Block, NEW e \in D!Block, NEW n \in Nat
  PROVE  LET p == D!Cut(b, n)
             x == D!Cut(D!Xor(p, e), n)
         IN x \in D!Block /\ D!Cut(D!Xor(x, e), n) = p
<1> DEFINE p == D!Cut(b, n)  y == D!Xor(p, e)  x == D!Cut(y, n)  z == D!Xor(x, e)
<1>1. p \in D!Block /\ \A i \in 1..BlockSize : p[i] = IF i <= n THEN b[i] ELSE {}
  BY CutTyped DEF D!Cut
<1> HIDE DEF p
<1>2. y \in D!Block /\ \A i \in 1..BlockSize : y[i] = D!ByteXor(p[i], e[i])
  BY <1>1, BlockXor
<1> HIDE DEF y
<1>3. x \in D!Block /\ \A i \in 1..BlockSize : x[i] = IF i <= n THEN y[i] ELSE {}
  BY <1>2, CutTyped DEF D!Cut
<1> HIDE DEF x
<1>4. z \in D!Block /\ \A i \in 1..BlockSize : z[i] = D!ByteXor(x[i], e[i])
  BY <1>3, BlockXor
<1> HIDE DEF z
<1>5. \A i \in 1..BlockSize : (IF i <= n THEN z[i] ELSE {}) = p[i]
  <2> TAKE i \in 1..BlockSize
  <2>1. p[i] \in D!Byte /\ e[i] \in D!Byte
    BY <1>1 DEF D!Block
  <2> QED
    BY <1>1, <1>2, <1>3, <1>4, <2>1, ByteXorTwice
<1>6. D!Cut(z, n) = p
  BY <1>1, <1>5 DEF D!Cut, D!Block
<1> QED
  BY <1>3, <1>6 DEF z, x, y, p

LEMMA ShiftedTyped ==
  ASSUME NEW r \in D!Block, NEW x \in D!Block PROVE D!Shifted(r, x) \in D!Block
<1>1. \A i \in 1..BlockSize :
        /\ i <= BlockSize - Feedback => i + Feedback \in 1..BlockSize
        /\ ~(i <= BlockSize - Feedback) => i - (BlockSize - Feedback) \in 1..BlockSize
  BY DesGiven
<1> QED
  BY <1>1 DEF D!Shifted, D!Block

LEMMA AfterTyped ==
  ASSUME NEW n \in Num PROVE D!After(n) \in Num /\ n + 1 \in 1..BlockSize
BY DesGiven DEF D!After, Num

LEMMA SingleTyped ==
  ASSUME NEW a \in D!Byte
  PROVE  D!Single(a) \in D!Block /\ D!Single(a)[1] = a /\ D!Cut(D!Single(a), 1) = D!Single(a)
<1>1. {} \in D!Byte /\ 1 \in 1..BlockSize
  BY DesGiven DEF D!Byte
<1>2. D!Single(a) \in D!Block /\ D!Single(a)[1] = a
  BY <1>1 DEF D!Single, D!Block
<1>3. \A i \in 1..BlockSize : (IF i <= 1 THEN D!Single(a)[i] ELSE {}) = IF i = 1 THEN a ELSE {}
  BY DEF D!Single
<1>4. D!Cut(D!Single(a), 1) = D!Single(a)
  BY <1>3 DEF D!Cut, D!Single
<1> QED
  BY <1>2, <1>4

LEMMA CutSingle ==
  ASSUME NEW b \in D!Block PROVE D!Cut(b, 1) = D!Single(b[1]) /\ b[1] \in D!Byte
<1>1. \A i \in 1..BlockSize : (IF i <= 1 THEN b[i] ELSE {}) = IF i = 1 THEN b[1] ELSE {}
  OBVIOUS
<1>2. b[1] \in D!Byte
  BY DesGiven DEF D!Block
<1> QED
  BY <1>1, <1>2 DEF D!Cut, D!Single

LEMMA UnitTyped == D!Unit \in 1..BlockSize
BY DesGiven DEF D!Unit

LEMMA LengthsTyped ==
  ASSUME NEW last \in BOOLEAN, NEW n \in D!Lengths(last)
  PROVE  /\ n \in 1..BlockSize
         /\ mode.chain \in {"cfb", "ofb"} => n = Feedback
         /\ mode.chain \in {"cfb64", "ofb64"} => n = 1
BY UnitTyped DEF D!Lengths, D!Unit

LEMMA FreshTyped ==
  ASSUME keys \in Keys, NEW c \in Chains PROVE D!Fresh(c) \in D!Block
BY CipherUndone DEF D!Fresh, Chains

\* Chain by chain: what was sealed from a chain is opened from the same chain, and
\* both go on with the same one.
TurnBack(p, n, c, sealed, opened) ==
  /\ sealed.out \in D!Block /\ sealed.chain \in Chains
  /\ opened.out \in D!Block /\ D!Cut(opened.out, n) = p
  /\ opened.chain = sealed.chain

LEMMA BlocksBack ==
  ASSUME keys \in Keys, NEW b \in D!Block, NEW n \in Nat, NEW c \in Chains
  PROVE  LET p == D!Cut(b, n) IN
         /\ TurnBack(p, n, c, D!EcbSealed(p, c), D!EcbOpened(D!EcbSealed(p, c).out, c))
         /\ TurnBack(p, n, c, D!CbcSealed(p, c), D!CbcOpened(D!CbcSealed(p, c).out, c))
         /\ TurnBack(p, n, c, D!PcbcSealed(p, c), D!PcbcOpened(D!PcbcSealed(p, c).out, c))
<1> DEFINE p == D!Cut(b, n)  y == D!Xor(p, c.reg)  x == D!Enciphered(y)
<1>1. p \in D!Block /\ D!Cut(p, n) = p
  BY CutTyped
<1> HIDE DEF p
<1>2. c.reg \in D!Block /\ c.n \in Num
  BY DEF Chains
<1>3. y \in D!Block /\ D!Xor(y, c.reg) = p
  BY <1>1, <1>2, XorType, XorTwice DEF D!Block
<1> HIDE DEF y
<1>4. x \in D!Block /\ D!Deciphered(x) = y
  BY <1>3, CipherUndone
<1> HIDE DEF x
<1>5. D!Xor(p, x) \in D!Block
  BY <1>1, <1>4, XorType DEF D!Block
<1>6. /\ D!CbcSealed(p, c) = [out |-> x, chain |-> [reg |-> x, n |-> c.n]]
      /\ D!CbcOpened(x, c) = [out |-> p, chain |-> [reg |-> x, n |-> c.n]]
      /\ D!PcbcSealed(p, c) = [out |-> x, chain |-> [reg |-> D!Xor(p, x), n |-> c.n]]
      /\ D!PcbcOpened(x, c) = [out |-> p, chain |-> [reg |-> D!Xor(p, x), n |-> c.n]]
  BY <1>3, <1>4 DEF D!CbcSealed, D!CbcOpened, D!PcbcSealed, D!PcbcOpened, D!Turn, D!Chain, x, y
<1>7. D!Enciphered(p) \in D!Block /\ D!Deciphered(D!Enciphered(p)) = p
  BY <1>1, CipherUndone
<1>8. TurnBack(p, n, c, D!EcbSealed(p, c), D!EcbOpened(D!EcbSealed(p, c).out, c))
  BY <1>1, <1>7 DEF TurnBack, D!EcbSealed, D!EcbOpened, D!Turn
<1>9. TurnBack(p, n, c, D!CbcSealed(p, c), D!CbcOpened(D!CbcSealed(p, c).out, c))
  BY <1>1, <1>2, <1>4, <1>6 DEF TurnBack, Chains
<1>10. TurnBack(p, n, c, D!PcbcSealed(p, c), D!PcbcOpened(D!PcbcSealed(p, c).out, c))
  BY <1>1, <1>2, <1>4, <1>5, <1>6 DEF TurnBack, Chains
<1> QED
  BY <1>8, <1>9, <1>10 DEF p

LEMMA UnitsBack ==
  ASSUME keys \in Keys, NEW b \in D!Block, NEW c \in Chains
  PROVE  LET p == D!Cut(b, Feedback) IN
         /\ TurnBack(p, Feedback, c, D!CfbSealed(p, c), D!CfbOpened(D!CfbSealed(p, c).out, c))
         /\ TurnBack(p, Feedback, c, D!OfbTurned(p, c), D!OfbTurned(D!OfbTurned(p, c).out, c))
<1> DEFINE n == Feedback  p == D!Cut(b, n)  e == D!Enciphered(c.reg)  x == D!Cut(D!Xor(p, e), n)
           z == D!Cut(D!Xor(x, e), n)
<1>1. c.reg \in D!Block /\ c.n \in Num /\ n \in Nat
  BY DesGiven DEF Chains
<1>2. e \in D!Block
  BY <1>1, CipherUndone
<1>3. x \in D!Block /\ z = p
  BY <1>1, <1>2, CutXor
<1>4. p \in D!Block /\ D!Cut(p, n) = p
  BY <1>1, CutTyped
<1>5. D!Shifted(c.reg, x) \in D!Block
  BY <1>1, <1>3, ShiftedTyped
<1>6. /\ D!CfbSealed(p, c) = [out |-> x, chain |-> [reg |-> D!Shifted(c.reg, x), n |-> c.n]]
      /\ D!CfbOpened(x, c) = [out |-> z, chain |-> [reg |-> D!Shifted(c.reg, x), n |-> c.n]]
      /\ D!OfbTurned(p, c) = [out |-> x, chain |-> [reg |-> e, n |-> c.n]]
      /\ D!OfbTurned(x, c) = [out |-> z, chain |-> [reg |-> e, n |-> c.n]]
  BY DEF D!CfbSealed, D!CfbOpened, D!OfbTurned, D!Turn, D!Chain
<1> HIDE DEF p, e, x, z, n
<1>7. TurnBack(p, n, c, D!CfbSealed(p, c), D!CfbOpened(D!CfbSealed(p, c).out, c))
  BY <1>1, <1>3, <1>4, <1>5, <1>6 DEF TurnBack, Chains
<1>8. TurnBack(p, n, c, D!OfbTurned(p, c), D!OfbTurned(D!OfbTurned(p, c).out, c))
  BY <1>1, <1>2, <1>3, <1>4, <1>6 DEF TurnBack, Chains
<1> QED
  BY <1>7, <1>8 DEF p, n

LEMMA BytesBack ==
  ASSUME keys \in Keys, NEW b \in D!Block, NEW c \in Chains
  PROVE  LET p == D!Cut(b, 1) IN
         /\ TurnBack(p, 1, c, D!Cfb64Sealed(p, c), D!Cfb64Opened(D!Cfb64Sealed(p, c).out, c))
         /\ TurnBack(p, 1, c, D!Ofb64Turned(p, c), D!Ofb64Turned(D!Ofb64Turned(p, c).out, c))
<1> DEFINE k == c.n + 1  v == D!Fresh(c)  x == D!ByteXor(b[1], v[k])
           w == [v EXCEPT ![k] = x]  m == D!After(c.n)
<1>1. c.n \in Num /\ m \in Num /\ k \in 1..BlockSize
  BY AfterTyped DEF Chains
<1>2. v \in D!Block /\ v[k] \in D!Byte
  BY <1>1, FreshTyped DEF D!Block
<1>3. D!Cut(b, 1) = D!Single(b[1]) /\ b[1] \in D!Byte
  BY CutSingle
<1>4. x \in D!Byte /\ D!ByteXor(x, v[k]) = b[1]
  BY <1>2, <1>3, ByteXorTwice
<1>5. w \in D!Block
  BY <1>1, <1>2, <1>4 DEF D!Block
<1>6. /\ D!Single(x) \in D!Block /\ D!Single(x)[1] = x
      /\ D!Single(b[1]) \in D!Block /\ D!Single(b[1])[1] = b[1]
      /\ D!Cut(D!Single(b[1]), 1) = D!Single(b[1])
  BY <1>3, <1>4, SingleTyped
<1>7. /\ D!Cfb64Sealed(D!Single(b[1]), c) = [out |-> D!Single(x), chain |-> [reg |-> w, n |-> m]]
      /\ D!Cfb64Opened(D!Single(x), c)
           = [out |-> D!Single(D!ByteXor(x, v[k])), chain |-> [reg |-> w, n |-> m]]
      /\ D!Ofb64Turned(D!Single(b[1]), c) = [out |-> D!Single(x), chain |-> [reg |-> v, n |-> m]]
      /\ D!Ofb64Turned(D!Single(x), c)
           = [out |-> D!Single(D!ByteXor(x, v[k])), chain |-> [reg |-> v, n |-> m]]
  BY <1>6 DEF D!Cfb64Sealed, D!Cfb64Opened, D!Ofb64Turned, D!Turn, D!Chain
<1> DEFINE p == D!Single(b[1])  y == D!Single(x)
<1> HIDE DEF k, v, x, w, m
<1>8. TurnBack(p, 1, c, D!Cfb64Sealed(p, c), D!Cfb64Opened(D!Cfb64Sealed(p, c).out, c))
  BY <1>1, <1>4, <1>5, <1>6, <1>7 DEF TurnBack, Chains
<1>9. TurnBack(p, 1, c, D!Ofb64Turned(p, c), D!Ofb64Turned(D!Ofb64Turned(p, c).out, c))
  BY <1>1, <1>2, <1>4, <1>6, <1>7 DEF TurnBack, Chains
<1> QED
  BY <1>3, <1>8, <1>9

LEMMA TurnedBack ==
  ASSUME mode \in D!Mode, keys \in Keys, NEW c \in Chains, NEW b \in D!Block,
         NEW last \in BOOLEAN, NEW n \in D!Lengths(last)
  PROVE  LET p == D!Cut(b, n)
         IN TurnBack(p, n, c, D!Sealed(p, c), D!Opened(D!Sealed(p, c).out, c))
<1> DEFINE p == D!Cut(b, n)
<1>1. n \in Nat
  BY LengthsTyped, DesGiven
<1>2. mode.chain \in {"ecb", "cbc", "pcbc", "cfb", "ofb", "cfb64", "ofb64"}
  BY DEF D!Mode
<1>3. CASE mode.chain \in {"ecb", "cbc", "pcbc"}
  BY <1>1, <1>3, BlocksBack DEF D!Sealed, D!Opened
<1>4. CASE mode.chain \in {"cfb", "ofb"}
  <2>1. n = Feedback
    BY <1>4, LengthsTyped
  <2> QED
    BY <1>4, <2>1, UnitsBack DEF D!Sealed, D!Opened
<1>5. CASE mode.chain \in {"cfb64", "ofb64"}
  <2>1. n = 1
    BY <1>5, LengthsTyped
  <2> QED
    BY <1>5, <2>1, BytesBack DEF D!Sealed, D!Opened
<1> QED
  BY <1>2, <1>3, <1>4, <1>5

-----------------------------------------------------------------------------
(* Both ends of a cipher *)

\* What a turn makes of a chain does not change from call to call.
LEMMA TurnSteady ==
  ASSUME mode' = mode, keys' = keys, NEW p, NEW c
  PROVE  D!Sealed(p, c)' = D!Sealed(p, c) /\ D!Opened(p, c)' = D!Opened(p, c)
<1>1. D!schedule' = D!schedule
  BY DEF D!schedule
<1>2. \A b : D!Enciphered(b)' = D!Enciphered(b) /\ D!Deciphered(b)' = D!Deciphered(b)
  BY <1>1 DEF D!Enciphered, D!Deciphered
<1>3. /\ D!EcbSealed(p, c)' = D!EcbSealed(p, c) /\ D!EcbOpened(p, c)' = D!EcbOpened(p, c)
      /\ D!CbcSealed(p, c)' = D!CbcSealed(p, c) /\ D!CbcOpened(p, c)' = D!CbcOpened(p, c)
      /\ D!PcbcSealed(p, c)' = D!PcbcSealed(p, c) /\ D!PcbcOpened(p, c)' = D!PcbcOpened(p, c)
      /\ D!CfbSealed(p, c)' = D!CfbSealed(p, c) /\ D!CfbOpened(p, c)' = D!CfbOpened(p, c)
      /\ D!OfbTurned(p, c)' = D!OfbTurned(p, c)
  BY <1>2 DEF D!EcbSealed, D!EcbOpened, D!CbcSealed, D!CbcOpened, D!PcbcSealed, D!PcbcOpened,
              D!CfbSealed, D!CfbOpened, D!OfbTurned
<1>4. D!Fresh(c)' = D!Fresh(c)
  BY <1>2 DEF D!Fresh
<1>5. /\ D!Cfb64Sealed(p, c)' = D!Cfb64Sealed(p, c) /\ D!Cfb64Opened(p, c)' = D!Cfb64Opened(p, c)
      /\ D!Ofb64Turned(p, c)' = D!Ofb64Turned(p, c)
  BY <1>4 DEF D!Cfb64Sealed, D!Cfb64Opened, D!Ofb64Turned
<1> QED
  BY <1>3, <1>5 DEF D!Sealed, D!Opened

Ends  == [iv : D!Block, num : Num, chain : Chains, left : Int]
Units == [text : D!Block, size : 1..BlockSize, code : D!Block, chain : Chains, last : BOOLEAN]

CiphersTyped ==
  /\ mode \in D!Mode /\ keys \in Keys
  /\ sealer \in Ends /\ sealer.left >= 0
  /\ opener \in Ends /\ opener.left >= 0
  /\ trail \in Seq(Units) /\ got \in Seq(D!Block)
  /\ undo \in [at : Nat, end : Ends]

\* The chain behind a unit, where an end without an ivec to write back starts
\* every call with the first one again.
Goes(first, t) ==
  LET c == D!Sealed(t.text, t.chain).chain
  IN IF t.last /\ ~mode.carries THEN [reg |-> first, n |-> c.n] ELSE c

\* The chain that the unit behind the first i of them meets.
Meets(first, i) == IF i = 0 THEN [reg |-> first, n |-> 0] ELSE Goes(first, trail[i])

\* An end that has done i units.
Stands(first, e, i) ==
  /\ e.left = 0 => [reg |-> e.iv, n |-> e.num] = Meets(first, i)
  /\ e.left > 0 => e.chain = Meets(first, i)
  /\ ~mode.carries => e.iv = first

TrailHolds(first) ==
  \A i \in 1..Len(trail) :
    /\ trail[i].chain = Meets(first, i - 1)
    /\ trail[i].code = D!Sealed(trail[i].text, trail[i].chain).out
    /\ \E b \in D!Block : trail[i].text = D!Cut(b, trail[i].size)
    /\ trail[i].size \in D!Lengths(trail[i].last)

OpenerHolds(first) ==
  /\ Stands(first, opener, Len(got))
  /\ Len(got) + opener.left <= Len(trail)
  /\ mode.carries \/ \A i \in Len(got) + 1 .. Len(got) + opener.left :
                       trail[i].last <=> i = Len(got) + opener.left

UndoHolds(first) ==
  undo.end.left >= 0 =>
    /\ undo.at <= Len(got) /\ undo.at + undo.end.left <= Len(trail)
    /\ [reg |-> undo.end.iv, n |-> undo.end.num] = Meets(first, undo.at)
    /\ mode.carries

CipherInv ==
  /\ CiphersTyped /\ D!ReadBack
  /\ \E first \in D!Block : /\ TrailHolds(first) /\ Stands(first, sealer, Len(trail))
                           /\ OpenerHolds(first) /\ UndoHolds(first)

LEMMA MeetsSteady ==
  ASSUME mode' = mode, keys' = keys, NEW first, NEW i \in Nat,
         i > 0 => trail'[i] = trail[i]
  PROVE  Meets(first, i)' = Meets(first, i)
<1>1. ASSUME NEW t PROVE Goes(first, t)' = Goes(first, t)
  BY TurnSteady DEF Goes
<1>2. CASE i = 0
  BY <1>2 DEF Meets
<1>3. CASE i > 0
  BY <1>1, <1>3 DEF Meets
<1> QED
  BY <1>2, <1>3

LEMMA SealTyped ==
  ASSUME mode \in D!Mode, keys \in Keys, NEW c \in Chains, NEW b \in D!Block,
         NEW last \in BOOLEAN, NEW n \in D!Lengths(last)
  PROVE  /\ D!Cut(b, n) \in D!Block /\ n \in 1..BlockSize
         /\ D!Sealed(D!Cut(b, n), c).out \in D!Block
         /\ D!Sealed(D!Cut(b, n), c).chain \in Chains
<1>1. n \in 1..BlockSize
  BY LengthsTyped
<1>2. D!Cut(b, n) \in D!Block
  BY <1>1, CutTyped
<1>3. TurnBack(D!Cut(b, n), n, c, D!Sealed(D!Cut(b, n), c), D!Opened(D!Sealed(D!Cut(b, n), c).out, c))
  BY TurnedBack
<1> QED
  BY <1>1, <1>2, <1>3 DEF TurnBack

\* A call starts with what the last one wrote back.
LEMMA CalledStands ==
  ASSUME NEW first, NEW i, NEW e \in Ends, NEW k \in Nat \ {0},
         [reg |-> e.iv, n |-> e.num] = Meets(first, i), ~mode.carries => e.iv = first
  PROVE  D!Called(e, k) \in Ends /\ D!Called(e, k).left = k /\ Stands(first, D!Called(e, k), i)
BY DEF D!Called, D!End, D!Chain, Ends, Chains, Stands

\* A turn takes an end from one unit to the next, if the call ends with the unit
\* where it must.
LEMMA TurnStands ==
  ASSUME mode \in D!Mode, keys \in Keys, NEW first, NEW i \in 1..Len(trail), NEW e \in Ends,
         e.left > 0, ~mode.carries => e.iv = first, NEW c \in Chains,
         c = D!Sealed(trail[i].text, trail[i].chain).chain,
         mode.carries \/ (trail[i].last <=> e.left = 1)
  PROVE  /\ D!TurnedTo(e, c) \in Ends /\ D!TurnedTo(e, c).left = e.left - 1
         /\ Stands(first, D!TurnedTo(e, c), i)
<1>1. mode.carries \in BOOLEAN /\ e.left \in Int /\ e.iv \in D!Block /\ e.num \in Num
  BY DEF D!Mode, Ends
<1>2. c = [reg |-> c.reg, n |-> c.n] /\ c.reg \in D!Block /\ c.n \in Num
  BY DEF Chains
<1>3. Meets(first, i) = IF trail[i].last /\ ~mode.carries THEN [reg |-> first, n |-> c.n] ELSE c
  BY DEF Meets, Goes
<1>4. CASE e.left > 1
  <2>1. D!TurnedTo(e, c) = [iv |-> e.iv, num |-> e.num, chain |-> c, left |-> e.left - 1]
    BY <1>4 DEF D!TurnedTo, D!End
  <2>2. Meets(first, i) = c
    BY <1>1, <1>3, <1>4
  <2> QED
    BY <1>1, <1>4, <2>1, <2>2 DEF Ends, Stands
<1>5. CASE ~(e.left > 1)
  <2> DEFINE iv == IF mode.carries THEN c.reg ELSE e.iv
  <2>1. D!TurnedTo(e, c) = [iv |-> iv, num |-> c.n, chain |-> c, left |-> 0] /\ e.left = 1
    BY <1>1, <1>5 DEF D!TurnedTo, D!End
  <2>2. iv \in D!Block /\ (~mode.carries => iv = first)
    BY <1>1, <1>2
  <2>3. [reg |-> iv, n |-> c.n] = Meets(first, i)
    BY <1>1, <1>2, <1>3, <2>1
  <2> HIDE DEF iv
  <2> QED
    BY <1>1, <1>2, <2>1, <2>2, <2>3 DEF Ends, Stands
<1> QED
  BY <1>4, <1>5

\* What is behind the first i units meets what it met, whatever follows.
LEMMA TrailSteady ==
  ASSUME mode' = mode, keys' = keys, trail' = trail, NEW first, TrailHolds(first)
  PROVE  TrailHolds(first)'
<1> SUFFICES ASSUME NEW i \in 1..Len(trail)
             PROVE  /\ trail[i].chain = Meets(first, i - 1)'
                    /\ trail[i].code = D!Sealed(trail[i].text, trail[i].chain)'.out
                    /\ \E b \in D!Block : trail[i].text = D!Cut(b, trail[i].size)
                    /\ trail[i].size \in D!Lengths(trail[i].last)'
  BY DEF TrailHolds
<1>1. Meets(first, i - 1)' = Meets(first, i - 1)
  BY MeetsSteady
<1>2. D!Sealed(trail[i].text, trail[i].chain)' = D!Sealed(trail[i].text, trail[i].chain)
  BY TurnSteady
<1>3. D!Lengths(trail[i].last)' = D!Lengths(trail[i].last)
  BY DEF D!Lengths, D!Unit
<1> QED
  BY <1>1, <1>2, <1>3 DEF TrailHolds

LEMMA CipherInit == D!Init => CipherInv
<1> SUFFICES ASSUME D!Init PROVE CipherInv
  OBVIOUS
<1>1. PICK iv \in D!Block : sealer = [iv |-> iv, num |-> 0, chain |-> [reg |-> iv, n |-> 0], left |-> 0]
  BY DEF D!Init, D!End, D!Chain
<1>2. 0 \in Num /\ D!Zero \in D!Block
  BY DesGiven DEF Num, D!Zero, D!Block, D!Byte
<1>3. sealer \in Ends /\ opener = sealer /\ D!NoUndo \in Ends /\ D!NoUndo.left = -1
  BY <1>1, <1>2 DEF D!Init, Ends, Chains, D!NoUndo, D!End, D!Chain
<1>4. trail = <<>> /\ got = <<>> /\ Len(trail) = 0 /\ Len(got) = 0
  BY DEF D!Init
<1>5. CiphersTyped
  <2>1. mode \in D!Mode /\ keys \in Keys
    BY DesGiven DEF D!Init
  <2>2. sealer.left >= 0 /\ opener.left >= 0
    BY <1>1, <1>3
  <2>3. undo \in [at : Nat, end : Ends]
    BY <1>3 DEF D!Init
  <2> QED
    BY <1>3, <1>4, <2>1, <2>2, <2>3 DEF CiphersTyped
<1>6. Stands(iv, sealer, 0)
  BY <1>1 DEF Stands, Meets
<1>7. TrailHolds(iv) /\ OpenerHolds(iv) /\ UndoHolds(iv)
  BY <1>1, <1>3, <1>4, <1>6 DEF TrailHolds, OpenerHolds, UndoHolds, D!Init
<1> QED
  BY <1>4, <1>5, <1>6, <1>7 DEF CipherInv, D!ReadBack, D!at

\* The end that decrypts stays where it is while the trail grows.
LEMMA OpenerSteady ==
  ASSUME CiphersTyped, UNCHANGED <<mode, keys, opener, got, undo>>, NEW first,
         Len(trail') \in Nat, Len(trail) <= Len(trail'),
         \A i \in 1..Len(trail) : trail'[i] = trail[i],
         OpenerHolds(first), UndoHolds(first)
  PROVE  OpenerHolds(first)' /\ UndoHolds(first)'
<1>1. /\ Len(got) \in Nat /\ Len(trail) \in Nat /\ opener.left \in Nat
      /\ undo.at \in Nat /\ undo.end.left \in Int
  BY DEF CiphersTyped, Ends
<1>2. \A i \in 0..Len(trail) : Meets(first, i)' = Meets(first, i)
  BY MeetsSteady
<1>3. Len(got) \in 0..Len(trail)
  BY <1>1 DEF OpenerHolds
<1>4. Stands(first, opener, Len(got))'
  BY <1>2, <1>3 DEF Stands, OpenerHolds
<1>5. \A i \in Len(got) + 1 .. Len(got) + opener.left : trail'[i] = trail[i]
  BY <1>1 DEF OpenerHolds
<1>6. OpenerHolds(first)'
  BY <1>1, <1>4, <1>5 DEF OpenerHolds
<1>7. UndoHolds(first)'
  <2>1. undo.end.left >= 0 => undo.at \in 0..Len(trail)
    BY <1>1 DEF UndoHolds
  <2> QED
    BY <1>1, <1>2, <2>1 DEF UndoHolds
<1> QED
  BY <1>6, <1>7

LEMMA CallSealKeeps ==
  ASSUME CipherInv, NEW k \in 1..MaxBytes, D!CallSeal(k)
  PROVE  CipherInv'
<1> USE DEF D!CallSeal
<1>1. CiphersTyped /\ Len(trail) \in Nat /\ k \in Nat \ {0}
  <2>1. MaxBytes \in Nat
    BY DesGiven
  <2> QED
    BY <2>1 DEF CipherInv, CiphersTyped
<1>2. PICK first \in D!Block : TrailHolds(first) /\ Stands(first, sealer, Len(trail))
                             /\ OpenerHolds(first) /\ UndoHolds(first)
  BY DEF CipherInv
<1>3. sealer' \in Ends /\ sealer'.left = k /\ Stands(first, sealer', Len(trail))
  BY <1>1, <1>2, CalledStands DEF CiphersTyped, Stands
<1>4. CiphersTyped' /\ D!ReadBack'
  BY <1>1, <1>3 DEF CipherInv, CiphersTyped, D!ReadBack, D!at
<1>5. TrailHolds(first)'
  BY <1>2, TrailSteady
<1>6. Stands(first, sealer, Len(trail))'
  <2>1. Meets(first, Len(trail))' = Meets(first, Len(trail))
    BY <1>1, MeetsSteady
  <2> QED
    BY <1>3, <2>1 DEF Stands
<1>7. OpenerHolds(first)' /\ UndoHolds(first)'
  BY <1>1, <1>2, OpenerSteady
<1> QED
  BY <1>4, <1>5, <1>6, <1>7 DEF CipherInv

LEMMA SealUnitKeeps ==
  ASSUME CipherInv, D!SealUnit
  PROVE  CipherInv'
<1>1. CiphersTyped /\ Len(trail) \in Nat /\ sealer.left \in Nat \ {0} /\ sealer.chain \in Chains
  BY DEF CipherInv, CiphersTyped, D!SealUnit, Ends
<1>2. PICK first \in D!Block : TrailHolds(first) /\ Stands(first, sealer, Len(trail))
                             /\ OpenerHolds(first) /\ UndoHolds(first)
  BY DEF CipherInv
<1> DEFINE last == sealer.left = 1
<1>3. PICK n \in D!Lengths(last), b \in D!Block :
        LET text == D!Cut(b, n)  turn == D!Sealed(text, sealer.chain) IN
        /\ trail' = Append(trail, [text |-> text, size |-> n, code |-> turn.out,
                                  chain |-> sealer.chain, last |-> last])
        /\ sealer' = D!TurnedTo(sealer, turn.chain)
  BY DEF D!SealUnit
<1> DEFINE text == D!Cut(b, n)  turn == D!Sealed(text, sealer.chain)
           t == [text |-> text, size |-> n, code |-> turn.out,
                 chain |-> sealer.chain, last |-> last]
<1>4. UNCHANGED <<mode, keys, opener, got, undo>>
  BY DEF D!SealUnit
<1>5. text \in D!Block /\ n \in 1..BlockSize /\ turn.out \in D!Block /\ turn.chain \in Chains
  BY <1>1, SealTyped DEF CiphersTyped
<1>6. t \in Units
  BY <1>1, <1>5 DEF Units
<1> HIDE DEF last
<1>7. /\ trail' \in Seq(Units) /\ Len(trail') = Len(trail) + 1 /\ trail'[Len(trail) + 1] = t
      /\ \A i \in 1..Len(trail) : trail'[i] = trail[i]
  BY <1>1, <1>3, <1>6 DEF CiphersTyped
<1>8. \A i \in 0..Len(trail) : Meets(first, i)' = Meets(first, i)
  BY <1>1, <1>4, <1>7, MeetsSteady
<1>9. sealer.chain = Meets(first, Len(trail)) /\ (~mode.carries => sealer.iv = first)
  BY <1>1, <1>2 DEF Stands
<1>10. TrailHolds(first)'
  <2> SUFFICES ASSUME NEW i \in 1..Len(trail')
               PROVE  /\ trail'[i].chain = Meets(first, i - 1)'
                      /\ trail'[i].code = D!Sealed(trail[i].text, trail[i].chain)'.out
                      /\ \E x \in D!Block : trail'[i].text = D!Cut(x, trail'[i].size)
                      /\ trail'[i].size \in D!Lengths(trail[i].last)'
    BY DEF TrailHolds
  <2>1. \A p, c : D!Sealed(p, c)' = D!Sealed(p, c)
    BY <1>4, TurnSteady
  <2>2. \A l : D!Lengths(l)' = D!Lengths(l)
    BY <1>4 DEF D!Lengths, D!Unit
  <2>3. CASE i \in 1..Len(trail)
    BY <1>1, <1>2, <1>7, <1>8, <2>1, <2>2, <2>3 DEF TrailHolds
  <2>4. CASE i = Len(trail) + 1
    BY <1>1, <1>7, <1>8, <1>9, <2>1, <2>2, <2>4
  <2> QED
    BY <1>1, <1>7, <2>3, <2>4
<1>11. /\ sealer' \in Ends /\ sealer'.left >= 0 /\ Stands(first, sealer, Len(trail))'
  <2>1. mode' = mode /\ keys' = keys /\ sealer' = D!TurnedTo(sealer, turn.chain)
    BY <1>3, <1>4
  <2>2. ASSUME NEW u PROVE Goes(first, u)' = Goes(first, u)
    BY <2>1, TurnSteady DEF Goes
  <2>3. Goes(first, t) = IF last /\ ~mode.carries THEN [reg |-> first, n |-> turn.chain.n] ELSE turn.chain
    BY DEF Goes
  <2>4. Meets(first, Len(trail))' = Goes(first, t)
    BY <1>1, <1>7, <2>2 DEF Meets
  <2> HIDE DEF t, turn, text
  <2>5. /\ turn.chain = [reg |-> turn.chain.reg, n |-> turn.chain.n]
        /\ turn.chain.reg \in D!Block /\ turn.chain.n \in Num
    BY <1>5 DEF Chains
  <2>6. sealer.iv \in D!Block /\ sealer.num \in Num /\ sealer.left \in Nat \ {0} /\ mode.carries \in BOOLEAN
    BY <1>1 DEF CiphersTyped, Ends, D!Mode
  <2>7. CASE sealer.left > 1
    <3>1. sealer' = [iv |-> sealer.iv, num |-> sealer.num, chain |-> turn.chain, left |-> sealer.left - 1]
      BY <2>1, <2>7 DEF D!TurnedTo, D!End
    <3>2. Meets(first, Len(trail))' = turn.chain
      BY <2>3, <2>4, <2>7 DEF last
    <3>3. sealer' \in Ends /\ sealer'.left >= 0 /\ sealer'.left # 0 /\ sealer'.chain = turn.chain /\ sealer'.iv = sealer.iv
      BY <1>5, <2>6, <2>7, <3>1 DEF Ends
    <3> QED
      BY <1>9, <2>1, <3>2, <3>3 DEF Stands
  <2>8. CASE sealer.left = 1
    <3> DEFINE iv == IF mode.carries THEN turn.chain.reg ELSE sealer.iv
    <3>1. sealer' = [iv |-> iv, num |-> turn.chain.n, chain |-> turn.chain, left |-> 0]
      BY <2>1, <2>8 DEF D!TurnedTo, D!End
    <3>2. iv \in D!Block /\ (~mode.carries => iv = first)
      BY <1>9, <2>5, <2>6
    <3>3. Meets(first, Len(trail))' = [reg |-> iv, n |-> turn.chain.n]
      BY <1>9, <2>3, <2>4, <2>5, <2>6, <2>8 DEF last
    <3> HIDE DEF iv
    <3>4. sealer' \in Ends /\ sealer'.left = 0 /\ sealer'.iv = iv /\ sealer'.num = turn.chain.n
      BY <1>5, <2>5, <3>1, <3>2 DEF Ends
    <3> QED
      BY <2>1, <3>2, <3>3, <3>4 DEF Stands
  <2> QED
    BY <2>6, <2>7, <2>8
<1>12. OpenerHolds(first)' /\ UndoHolds(first)'
  BY <1>1, <1>2, <1>4, <1>7, OpenerSteady
<1>13. CiphersTyped'
  BY <1>1, <1>4, <1>7, <1>11 DEF CiphersTyped
<1>14. D!ReadBack'
  <2>1. Len(got) \in Nat /\ Len(got) <= Len(trail) /\ \A i \in 1..Len(got) : got[i] = trail[i].text
    BY <1>1 DEF CipherInv, D!ReadBack, D!at, CiphersTyped
  <2> QED
    BY <1>1, <1>4, <1>7, <2>1 DEF D!ReadBack, D!at
<1> QED
  BY <1>10, <1>11, <1>12, <1>13, <1>14 DEF CipherInv

LEMMA CallOpenKeeps ==
  ASSUME CipherInv, NEW k \in 1..MaxBytes, D!CallOpen(k)
  PROVE  CipherInv'
<1>1. /\ CiphersTyped /\ Len(trail) \in Nat /\ Len(got) \in Nat /\ k \in Nat \ {0}
      /\ opener.left = 0 /\ opener' = D!Called(opener, k)
      /\ UNCHANGED <<mode, keys, sealer, trail, got>>
  <2>1. MaxBytes \in Nat
    BY DesGiven
  <2> QED
    BY <2>1 DEF CipherInv, CiphersTyped, D!CallOpen
<1>2. PICK first \in D!Block : TrailHolds(first) /\ Stands(first, sealer, Len(trail))
                             /\ OpenerHolds(first) /\ UndoHolds(first)
  BY DEF CipherInv
<1>3. /\ Len(got) + k <= Len(trail)
      /\ mode.carries \/ \A i \in Len(got) + 1 .. Len(got) + k : trail[i].last <=> i = Len(got) + k
  BY <1>1 DEF D!CallOpen, D!Arrived, D!at
<1>4. /\ Stands(first, opener, Len(got)) /\ (~mode.carries => opener.iv = first)
      /\ [reg |-> opener.iv, n |-> opener.num] = Meets(first, Len(got))
  BY <1>1, <1>2 DEF OpenerHolds, Stands
<1>5. opener' \in Ends /\ opener'.left = k /\ Stands(first, opener', Len(got))
  BY <1>1, <1>4, CalledStands DEF CiphersTyped
<1>6. \A i \in 0..Len(trail) : Meets(first, i)' = Meets(first, i)
  BY <1>1, MeetsSteady
<1>7. Len(got) \in 0..Len(trail) /\ Len(got') = Len(got) /\ Len(trail') = Len(trail)
  BY <1>1, <1>3
<1>8. TrailHolds(first)'
  BY <1>1, <1>2, TrailSteady
<1>9. Stands(first, sealer, Len(trail))'
  BY <1>1, <1>2, <1>6 DEF Stands
<1>10. OpenerHolds(first)'
  <2>1. Stands(first, opener, Len(got))'
    BY <1>1, <1>5, <1>6, <1>7 DEF Stands
  <2> QED
    BY <1>1, <1>3, <1>5, <2>1 DEF OpenerHolds
<1>11. undo' \in [at : Nat, end : Ends] /\ UndoHolds(first)'
  <2>1. CASE mode = D!des_cfb64_encrypt
    <3>1. undo' = [at |-> Len(got), end |-> [iv |-> opener.iv, num |-> opener.num,
                                            chain |-> [reg |-> D!Zero, n |-> 0], left |-> k]]
      BY <2>1 DEF D!CallOpen, D!at, D!End, D!Chain
    <3>2. 0 \in Num /\ D!Zero \in D!Block
      BY DesGiven DEF Num, D!Zero, D!Block, D!Byte
    <3>3. mode.carries
      BY <2>1 DEF D!des_cfb64_encrypt
    <3>4. opener.iv \in D!Block /\ opener.num \in Num
      BY <1>1 DEF CiphersTyped, Ends
    <3>5. undo' \in [at : Nat, end : Ends]
      BY <1>1, <3>1, <3>2, <3>4 DEF Ends, Chains
    <3>6. UndoHolds(first)'
      BY <1>1, <1>3, <1>4, <1>6, <1>7, <3>1, <3>3 DEF UndoHolds
    <3> QED
      BY <3>5, <3>6
  <2>2. CASE mode # D!des_cfb64_encrypt
    <3>1. undo' = undo
      BY <2>2 DEF D!CallOpen
    <3>2. undo.at \in Nat /\ undo.end.left \in Int /\ undo \in [at : Nat, end : Ends]
      BY <1>1 DEF CiphersTyped, Ends
    <3>3. undo.end.left >= 0 => undo.at \in 0..Len(trail)
      BY <1>1, <1>2, <3>2 DEF UndoHolds
    <3>4. UndoHolds(first)'
      BY <1>1, <1>2, <1>6, <3>1, <3>3 DEF UndoHolds
    <3> QED
      BY <3>1, <3>2, <3>4
  <2> QED
    BY <2>1, <2>2
<1>12. CiphersTyped' /\ D!ReadBack'
  BY <1>1, <1>5, <1>11 DEF CipherInv, CiphersTyped, D!ReadBack, D!at
<1> QED
  BY <1>8, <1>9, <1>10, <1>11, <1>12 DEF CipherInv

LEMMA OpenUnitKeeps ==
  ASSUME CipherInv, D!OpenUnit
  PROVE  CipherInv'
<1>1. /\ CiphersTyped /\ Len(trail) \in Nat /\ Len(got) \in Nat
      /\ opener \in Ends /\ opener.left \in Nat \ {0}
      /\ mode \in D!Mode /\ keys \in Keys
      /\ UNCHANGED <<mode, keys, sealer, trail, undo>>
  BY DEF CipherInv, CiphersTyped, D!OpenUnit, Ends
<1>2. PICK first \in D!Block : TrailHolds(first) /\ Stands(first, sealer, Len(trail))
                             /\ OpenerHolds(first) /\ UndoHolds(first)
  BY DEF CipherInv
<1> DEFINE j == Len(got) + 1  t == trail[j]  turn == D!Opened(t.code, opener.chain)
<1>3. got' = Append(got, D!Cut(turn.out, t.size)) /\ opener' = D!TurnedTo(opener, turn.chain)
  BY DEF D!OpenUnit, D!at
<1>4. j \in 1..Len(trail) /\ j - 1 = Len(got) /\ Len(got) \in 0..Len(trail) /\ j \in 0..Len(trail)
  BY <1>1, <1>2 DEF OpenerHolds
<1>5. /\ opener.chain = Meets(first, Len(got)) /\ (~mode.carries => opener.iv = first)
      /\ mode.carries \/ (t.last <=> opener.left = 1)
  <2>1. /\ opener.chain = Meets(first, Len(got)) /\ (~mode.carries => opener.iv = first)
    BY <1>1, <1>2 DEF OpenerHolds, Stands
  <2>2. mode.carries \/ (t.last <=> j = Len(got) + opener.left)
    BY <1>1, <1>2 DEF OpenerHolds
  <2> QED
    BY <1>1, <2>1, <2>2
<1>6. t \in Units
  BY <1>1, <1>4 DEF CiphersTyped
<1>7. /\ t.chain = opener.chain /\ t.code = D!Sealed(t.text, t.chain).out
      /\ (\E b \in D!Block : t.text = D!Cut(b, t.size)) /\ t.size \in D!Lengths(t.last)
  BY <1>2, <1>4, <1>5 DEF TrailHolds
<1>8. /\ turn.out \in D!Block /\ D!Cut(turn.out, t.size) = t.text
      /\ turn.chain = D!Sealed(t.text, t.chain).chain /\ turn.chain \in Chains
  <2> HIDE DEF t
  <2>1. PICK b \in D!Block : t.text = D!Cut(b, t.size)
    BY <1>7
  <2>2. t.chain \in Chains /\ t.last \in BOOLEAN
    BY <1>6 DEF Units
  <2>3. TurnBack(t.text, t.size, t.chain, D!Sealed(t.text, t.chain),
                 D!Opened(D!Sealed(t.text, t.chain).out, t.chain))
    BY <1>1, <1>7, <2>1, <2>2, TurnedBack
  <2> QED
    BY <1>7, <2>3 DEF TurnBack
<1>9. opener' \in Ends /\ opener'.left = opener.left - 1 /\ Stands(first, opener', j)
  <2> DEFINE c == turn.chain
  <2>1. c \in Chains /\ c = D!Sealed(trail[j].text, trail[j].chain).chain
    BY <1>8
  <2> HIDE DEF turn, c
  <2>2. opener.left > 0 /\ (mode.carries \/ (trail[j].last <=> opener.left = 1))
    BY <1>1, <1>5
  <2> HIDE DEF j, t
  <2>3. D!TurnedTo(opener, c) \in Ends /\ D!TurnedTo(opener, c).left = opener.left - 1
        /\ Stands(first, D!TurnedTo(opener, c), j)
    BY <1>1, <1>4, <1>5, <2>1, <2>2, TurnStands
  <2> QED
    BY <1>3, <2>3 DEF c
<1>10. /\ got' \in Seq(D!Block) /\ Len(got') = j /\ got'[j] = t.text
       /\ \A i \in 1..Len(got) : got'[i] = got[i]
  <2>1. t.text \in D!Block
    BY <1>6 DEF Units
  <2> HIDE DEF turn, t
  <2> QED
    BY <1>1, <1>3, <1>8, <2>1 DEF CiphersTyped
<1> HIDE DEF turn, t
<1>11. \A i \in 0..Len(trail) : Meets(first, i)' = Meets(first, i)
  BY <1>1, MeetsSteady
<1>12. TrailHolds(first)'
  BY <1>1, <1>2, TrailSteady
<1>13. Stands(first, sealer, Len(trail))'
  BY <1>1, <1>2, <1>11 DEF Stands
<1>14. OpenerHolds(first)'
  <2>1. Stands(first, opener, Len(got))'
    BY <1>1, <1>4, <1>9, <1>10, <1>11 DEF Stands
  <2>2. Len(got') + opener'.left = Len(got) + opener.left /\ Len(got') = Len(got) + 1
    <3>1. opener'.left = opener.left - 1 /\ Len(got') = Len(got) + 1
      BY <1>9, <1>10
    <3> QED
      BY <1>1, <3>1
  <2>3. \/ mode.carries
        \/ \A i \in Len(got) + 1 .. Len(got) + opener.left :
             trail[i].last <=> i = Len(got) + opener.left
    BY <1>2 DEF OpenerHolds
  <2>4. \/ mode.carries
        \/ \A i \in Len(got') + 1 .. Len(got') + opener'.left :
             trail[i].last <=> i = Len(got') + opener'.left
    <3>1. Len(got') + 1 .. Len(got') + opener'.left \subseteq Len(got) + 1 .. Len(got) + opener.left
      BY <1>1, <2>2
    <3> QED
      BY <2>2, <2>3, <3>1
  <2>5. Len(got') + opener'.left <= Len(trail)
    BY <1>2, <2>2 DEF OpenerHolds
  <2> QED
    BY <1>1, <2>1, <2>4, <2>5 DEF OpenerHolds
<1>15. UndoHolds(first)'
  <2>1. undo.at \in Nat /\ undo.end.left \in Int
    BY <1>1 DEF CiphersTyped, Ends
  <2>2. undo.end.left >= 0 => undo.at \in 0..Len(trail)
    BY <1>1, <1>2, <2>1 DEF UndoHolds
  <2> QED
    BY <1>1, <1>2, <1>10, <1>11, <2>1, <2>2 DEF UndoHolds
<1>16. CiphersTyped'
  BY <1>1, <1>9, <1>10 DEF CiphersTyped
<1>17. D!ReadBack'
  <2>1. \A i \in 1..Len(got) : got[i] = trail[i].text
    BY DEF CipherInv, D!ReadBack, D!at
  <2> QED
    BY <1>1, <1>4, <1>10, <2>1 DEF D!ReadBack, D!at, t
<1> QED
  BY <1>12, <1>13, <1>14, <1>15, <1>16, <1>17 DEF CipherInv

LEMMA UndoDecryptKeeps ==
  ASSUME CipherInv, NEW k \in 0..MaxBytes, D!UndoDecrypt(k)
  PROVE  CipherInv'
<1>1. /\ CiphersTyped /\ Len(trail) \in Nat /\ Len(got) \in Nat /\ k \in Nat
      /\ k <= undo.end.left
      /\ UNCHANGED <<mode, keys, sealer, trail>>
  <2>1. k \in Nat
    BY DesGiven
  <2>2. k <= undo.end.left /\ UNCHANGED <<mode, keys, sealer, trail>>
    BY DEF D!UndoDecrypt
  <2> QED
    BY <2>1, <2>2 DEF CipherInv, CiphersTyped
<1>2. PICK first \in D!Block : TrailHolds(first) /\ Stands(first, sealer, Len(trail))
                             /\ OpenerHolds(first) /\ UndoHolds(first)
  BY DEF CipherInv
<1> DEFINE e == undo.end  a == undo.at
<1>3. e \in Ends /\ a \in Nat /\ e.left \in Nat
  BY <1>1 DEF CiphersTyped, Ends
<1>4. /\ a <= Len(got) /\ a + e.left <= Len(trail) /\ mode.carries
      /\ [reg |-> e.iv, n |-> e.num] = Meets(first, a)
  BY <1>2, <1>3 DEF UndoHolds
<1>5. /\ opener' = IF k = 0 THEN [e EXCEPT !.left = 0] ELSE D!Called(e, k)
      /\ got' = SubSeq(got, 1, a) /\ undo' = [at |-> 0, end |-> D!NoUndo]
  BY DEF D!UndoDecrypt
<1>6. D!NoUndo \in Ends /\ D!NoUndo.left = -1
  <2>1. 0 \in Num /\ D!Zero \in D!Block
    BY DesGiven DEF Num, D!Zero, D!Block, D!Byte
  <2> QED
    BY <2>1 DEF Ends, Chains, D!NoUndo, D!End, D!Chain
<1> HIDE DEF e, a
<1>7. opener' \in Ends /\ opener'.left = k /\ Stands(first, opener', a)
  <2>1. CASE k = 0
    <3>1. opener' = [e EXCEPT !.left = 0]
      BY <1>5, <2>1
    <3>2. /\ opener'.iv = e.iv /\ opener'.num = e.num /\ opener'.left = 0 /\ opener' \in Ends
      BY <1>3, <3>1 DEF Ends
    <3> QED
      BY <1>4, <2>1, <3>2 DEF Stands
  <2>2. CASE k # 0
    BY <1>1, <1>3, <1>4, <1>5, <2>2, CalledStands
  <2> QED
    BY <2>1, <2>2
<1>8. got' \in Seq(D!Block) /\ Len(got') = a /\ \A i \in 1..a : got'[i] = got[i]
  BY <1>1, <1>3, <1>4, <1>5 DEF CiphersTyped
<1>9. \A i \in 0..Len(trail) : Meets(first, i)' = Meets(first, i)
  BY <1>1, MeetsSteady
<1>10. TrailHolds(first)'
  BY <1>1, <1>2, TrailSteady
<1>11. Stands(first, sealer, Len(trail))'
  BY <1>1, <1>2, <1>9 DEF Stands
<1>12. a \in 0..Len(trail) /\ a + k <= Len(trail)
  BY <1>1, <1>3, <1>4 DEF e
<1>13. OpenerHolds(first)'
  <2>1. Stands(first, opener, Len(got))'
    BY <1>1, <1>7, <1>8, <1>9, <1>12 DEF Stands
  <2> QED
    BY <1>1, <1>4, <1>7, <1>8, <1>12, <2>1 DEF OpenerHolds
<1>14. UndoHolds(first)'
  BY <1>5, <1>6 DEF UndoHolds
<1>15. CiphersTyped'
  BY <1>1, <1>5, <1>6, <1>7, <1>8 DEF CiphersTyped
<1>16. D!ReadBack'
  <2>1. \A i \in 1..Len(got) : got[i] = trail[i].text
    BY DEF CipherInv, D!ReadBack, D!at
  <2> QED
    BY <1>1, <1>3, <1>4, <1>8, <1>12, <2>1 DEF D!ReadBack, D!at
<1> QED
  BY <1>10, <1>11, <1>13, <1>14, <1>15, <1>16 DEF CipherInv

LEMMA CipherStutters ==
  ASSUME CipherInv, UNCHANGED D!vars
  PROVE  CipherInv'
<1>1. UNCHANGED <<mode, keys, sealer, opener, trail, got, undo>>
  BY DEF D!vars
<1>2. CiphersTyped /\ Len(trail) \in Nat
  BY DEF CipherInv, CiphersTyped
<1>3. PICK first \in D!Block : TrailHolds(first) /\ Stands(first, sealer, Len(trail))
                             /\ OpenerHolds(first) /\ UndoHolds(first)
  BY DEF CipherInv
<1>4. CiphersTyped' /\ D!ReadBack'
  BY <1>1 DEF CipherInv, CiphersTyped, D!ReadBack, D!at
<1>5. TrailHolds(first)'
  BY <1>1, <1>3, TrailSteady
<1>6. Stands(first, sealer, Len(trail))'
  <2>1. Meets(first, Len(trail))' = Meets(first, Len(trail))
    BY <1>1, <1>2, MeetsSteady
  <2> QED
    BY <1>1, <1>3, <2>1 DEF Stands
<1>7. OpenerHolds(first)' /\ UndoHolds(first)'
  BY <1>1, <1>2, <1>3, OpenerSteady
<1> QED
  BY <1>4, <1>5, <1>6, <1>7 DEF CipherInv

LEMMA CipherStep == CipherInv /\ [D!Next]_D!vars => CipherInv'
BY CallSealKeeps, SealUnitKeeps, CallOpenKeeps, OpenUnitKeeps, UndoDecryptKeeps, CipherStutters
   DEF D!Next

\* For any S boxes, any permutation and its inverse, any choice of bits for the
\* keys of the rounds, any block and any three keys: every function of the
\* library gives back what it was given, however the calls of the two ends divide
\* the text, and UndoDecrypt leads back to where the last call began.
THEOREM CiphersReadBack == D!Spec => []D!ReadBack
<1>1. D!Init => CipherInv
  BY CipherInit
<1>2. CipherInv /\ [D!Next]_D!vars => CipherInv'
  BY CipherStep
<1>3. CipherInv => D!ReadBack
  BY DEF CipherInv
<1> QED
  BY <1>1, <1>2, <1>3, PTL DEF D!Spec

-----------------------------------------------------------------------------
(* One way or the other *)

LEMMA WaysSpec == MCSpec => O!Spec /\ Spec /\ D!Spec
<1>1. MCInit => O!Init /\ Init /\ D!Init
  BY DEF MCInit
<1>2. [MCNext]_<<way, vars, ovars, dvars>> => [O!Next]_O!vars /\ [Next]_vars
  BY Zenon DEF MCNext, Out, In, Cipher, ovars, O!vars
<1>3. [MCNext]_<<way, vars, ovars, dvars>> => [D!Next]_D!vars
  BY Zenon DEF MCNext, Out, In, Cipher, dvars, D!vars
<1> QED
  BY <1>1, <1>2, <1>3, PTL DEF MCSpec, O!Spec, Spec, D!Spec

\* Whichever way is taken, Send, TryResend and CryptoEngine lose, double and
\* reorder nothing, except where a part is not counted right or one of the ways of
\* Misses has happened, and the functions of the DES library give back what they
\* were given.
THEOREM AllWays == MCSpec => [](NothingLost /\ ReadAsSent /\ ReadBack)
<1>1. O!Spec => []NothingLost
  BY NothingIsLost
<1>2. Spec => []ReadAsSent
  BY StreamReadAsSent
<1>3. D!Spec => []ReadBack
  BY CiphersReadBack DEF ReadBack
<1> QED
  BY <1>1, <1>2, <1>3, WaysSpec, PTL
=============================================================================
