---------------------------- MODULE PopProxyProofs ----------------------------
(***************************************************************************)
(* For any lengths of what is relayed, any numbers of clients and any       *)
(* blocks: what the relay passes on is what was sent, in its order, and     *)
(* each command of a client is answered as often as it should be.           *)
(*                                                                         *)
(* Neither is inductive.  Place says for every place of the thread how many *)
(* answers the client has had and that nothing is left over where a relay   *)
(* will begin; Flowing says of each of the three parts of a direction (sent *)
(* on, held, not yet read) which numbers it holds.                          *)
(***************************************************************************)
EXTENDS PopProxy, SequenceTheorems, TLAPS

\* Consecutive items, the first of them behind the given number of others.
Run(items, behind) ==
  items \in Seq(Nat) /\ \A i \in 1..Len(items) : items[i] = behind + i

Flow(out, held, unread, n) ==
  /\ Run(out, 0) /\ Run(held, Len(out)) /\ Run(unread, Len(out) + Len(held))
  /\ n = Len(out) + Len(held) + Len(unread)

Single(q) == q = <<>> \/ q = <<q[1]>>

Types ==
  /\ sent \in [Side -> Nat] /\ open \in [Side -> BOOLEAN] /\ ended \in [Side -> BOOLEAN]
  /\ broken \in [Side -> BOOLEAN]
  /\ DOMAIN input = Side
  /\ terminate \in BOOLEAN /\ replies \in Nat

Flowing ==
  Relaying => /\ ~asked
              /\ Flow(upOut, up, input["client"], sent["client"])
              /\ Flow(downOut, down, input["server"], sent["server"])

\* Nothing of a relay is there yet.
Unused ==
  /\ up = <<>> /\ down = <<>> /\ upOut = <<>> /\ downOut = <<>>
  /\ sent["client"] = 0 /\ sent["server"] = 0

Hearing == at \in {"getc", "recv", "reset"}

Before == at \in {"open", "accept", "refuse", "greet"}

PlaceOf ==
  /\ at \in {"open", "accept", "refuse", "greet", "getc", "recv", "reset", "eof", "connect",
             "box", "relay", "upRecv", "upSend", "downRecv", "downSend", "close", "ended"}
  /\ Before => /\ Unused /\ replies = 0 /\ stage = "greet" /\ state = "user" /\ ~asked
               /\ input["client"] = <<>> /\ input["server"] = <<>>
  /\ at \in {"open", "accept"} => ~open["client"]
  /\ Hearing /\ chan = "client" =>
       /\ Unused /\ replies = 1 /\ stage = "greet" /\ state \in {"user", "pass"} /\ ~asked
       /\ Single(input["client"]) /\ input["server"] = <<>>
  /\ Hearing /\ chan # "client" =>
       /\ Unused /\ replies = 0 /\ stage \in {"greet", "user", "pass"} /\ state = "cross"
       /\ chan = "server" /\ input["client"] = <<>> /\ Single(input["server"])
       /\ asked => input["server"] = <<>>
  /\ at \in {"connect", "box"} =>
       /\ Unused /\ replies = 0 /\ stage = "greet" /\ state = "cross" /\ ~asked
       /\ input["client"] = <<>> /\ input["server"] = <<>>
  /\ at = "eof" =>
       /\ stage # "refused"
       /\ IF chan = "server" THEN replies = 0 ELSE replies = 1 /\ ~open["client"]
  /\ Relaying => replies = 1 /\ stage = "relay"
  /\ at = "close" /\ open["client"] => replies = IF stage = "refused" THEN 2 ELSE 1

Place == ~terminate => PlaceOf

Inv == Types /\ Place /\ Flowing

-----------------------------------------------------------------------------
(* Runs *)

LEMMA EmptyRun ==
  ASSUME NEW a
  PROVE  Run(<<>>, a) /\ Len(<<>>) = 0
BY EmptySeq DEF Run

\* A run from the beginning goes on where it ends.
LEMMA RunJoined ==
  ASSUME NEW a \in Nat, NEW s, NEW t, Run(s, a), Run(t, a + Len(s))
  PROVE  Run(s \o t, a) /\ Len(s \o t) = Len(s) + Len(t)
BY ConcatProperties, LenProperties DEF Run

\* A piece of a run.
LEMMA RunPiece ==
  ASSUME NEW a \in Nat, NEW s, Run(s, a), NEW from \in Nat, NEW to \in Nat,
         from <= to, to <= Len(s)
  PROVE  /\ Run(SubSeq(s, from + 1, to), a + from)
         /\ Len(SubSeq(s, from + 1, to)) = to - from
<1> DEFINE f == from + 1
           piece == SubSeq(s, f, to)
<1>1. /\ Len(s) \in Nat /\ f \in Int /\ to \in Int
      /\ \A i \in f .. to : s[i] \in Nat /\ s[i] = a + i
  BY LenProperties, ElementOfSeq DEF Run
<1>2. /\ piece \in Seq(Nat) /\ Len(piece) = IF f <= to THEN to - f + 1 ELSE 0
      /\ \A i \in 1 .. to - f + 1 : piece[i] = s[f + i - 1]
  BY <1>1, SubSeqProperties
<1>3. Len(piece) = to - from /\ \A i \in 1 .. to - from : piece[i] = s[from + i]
  BY <1>2
<1>4. \A i \in 1 .. to - from : from + i \in f .. to
  OBVIOUS
<1>5. \A i \in 1 .. to - from : piece[i] = a + from + i
  BY <1>1, <1>3, <1>4
<1> HIDE DEF piece
<1>6. Run(piece, a + from)
  BY <1>2, <1>3, <1>5 DEF Run
<1> QED
  BY <1>3, <1>6 DEF piece

\* A run is cut into two.
LEMMA RunCut ==
  ASSUME NEW a \in Nat, NEW s, Run(s, a), NEW n \in 0..Len(s)
  PROVE  /\ Run(SubSeq(s, 1, n), a) /\ Len(SubSeq(s, 1, n)) = n
         /\ Run(SubSeq(s, n + 1, Len(s)), a + n)
         /\ Len(SubSeq(s, n + 1, Len(s))) = Len(s) - n
<1>1. Len(s) \in Nat /\ n \in Nat /\ n <= Len(s) /\ 0 \in Nat /\ 0 <= n
  BY LenProperties DEF Run
<1>2. Run(SubSeq(s, 0 + 1, n), a + 0) /\ Len(SubSeq(s, 0 + 1, n)) = n - 0
  BY <1>1, RunPiece
<1>3. 0 + 1 = 1 /\ a + 0 = a /\ n - 0 = n
  BY <1>1
<1>4. Run(SubSeq(s, n + 1, Len(s)), a + n) /\ Len(SubSeq(s, n + 1, Len(s))) = Len(s) - n
  BY <1>1, RunPiece
<1> QED
  BY <1>2, <1>3, <1>4

LEMMA RunAppended ==
  ASSUME NEW a \in Nat, NEW s, Run(s, a)
  PROVE  Run(Append(s, a + Len(s) + 1), a) /\ Len(Append(s, a + Len(s) + 1)) = Len(s) + 1
<1>1. Len(s) \in Nat
  BY LenProperties DEF Run
<1> DEFINE x == a + Len(s) + 1
<1>2. x \in Nat /\ s \in Seq(Nat) /\ \A i \in 1..Len(s) : s[i] = a + i
  BY <1>1 DEF Run
<1>3. /\ Append(s, x) \in Seq(Nat) /\ Len(Append(s, x)) = Len(s) + 1
      /\ \A i \in 1..Len(s) : Append(s, x)[i] = s[i]
      /\ Append(s, x)[Len(s) + 1] = x
  BY <1>2, AppendProperties
<1>4. \A i \in 1..(Len(s) + 1) : Append(s, x)[i] = a + i
  <2> SUFFICES ASSUME NEW i \in 1..(Len(s) + 1) PROVE Append(s, x)[i] = a + i
    OBVIOUS
  <2>1. CASE i = Len(s) + 1
    BY <1>1, <1>3, <2>1
  <2>2. CASE i # Len(s) + 1
    <3>1. i \in 1..Len(s)
      BY <1>1, <2>2
    <3> QED
      BY <1>2, <1>3, <3>1
  <2> QED
    BY <2>1, <2>2
<1> QED
  BY <1>3, <1>4 DEF Run

\* A run from the beginning is determined by its length.
LEMMA RunIsUpTo ==
  ASSUME NEW s, Run(s, 0)
  PROVE  s = UpTo(Len(s))
BY LenProperties DEF Run, UpTo

LEMMA FlowIsUpTo ==
  ASSUME NEW out, NEW held, NEW unread, NEW n, Flow(out, held, unread, n)
  PROVE  out \o held \o unread = UpTo(n)
<1>0. Len(out) \in Nat /\ Len(held) \in Nat
  BY LenProperties DEF Flow, Run
<1>1. Run(out \o held, 0) /\ Len(out \o held) = Len(out) + Len(held)
  BY <1>0, RunJoined DEF Flow
<1>2. /\ Run((out \o held) \o unread, 0)
      /\ Len((out \o held) \o unread) = Len(out) + Len(held) + Len(unread)
  <2>1. 0 + Len(out \o held) = Len(out) + Len(held) /\ 0 \in Nat
    BY <1>0, <1>1
  <2>2. Run(unread, 0 + Len(out \o held))
    BY <2>1 DEF Flow
  <2> QED
    BY <1>1, <2>1, <2>2, RunJoined
<1> DEFINE all == (out \o held) \o unread
<1>3. all = UpTo(Len(all))
  BY <1>2, RunIsUpTo
<1>4. Len(all) = n
  BY <1>2 DEF Flow
<1>5. UpTo(Len(all)) = UpTo(n)
  BY <1>4
<1> QED
  BY <1>3, <1>5, Zenon

-----------------------------------------------------------------------------
(* How the three parts of a direction change *)

LEMMA FlowEmpty == Flow(<<>>, <<>>, <<>>, 0)
BY EmptyRun DEF Flow

LEMMA FlowArrival ==
  ASSUME NEW out, NEW held, NEW unread, NEW n \in Nat, Flow(out, held, unread, n)
  PROVE  Flow(out, held, Append(unread, n + 1), n + 1)
<1>1. Len(out) \in Nat /\ Len(held) \in Nat /\ Len(unread) \in Nat
  BY LenProperties DEF Flow, Run
<1> QED
  BY <1>1, RunAppended DEF Flow

LEMMA FlowRead ==
  ASSUME NEW out, NEW unread, NEW n, Flow(out, <<>>, unread, n), NEW k \in 1..Len(unread)
  PROVE  Flow(out, SubSeq(unread, 1, k), SubSeq(unread, k + 1, Len(unread)), n)
<1>1. Len(out) \in Nat /\ Len(unread) \in Nat /\ Len(<<>>) = 0 /\ k \in Nat /\ k \in 0..Len(unread)
  BY LenProperties, EmptyRun DEF Flow, Run
<1>2. Run(unread, Len(out)) /\ n = Len(out) + Len(unread)
  BY <1>1 DEF Flow
<1>3. /\ Run(SubSeq(unread, 1, k), Len(out)) /\ Len(SubSeq(unread, 1, k)) = k
      /\ Run(SubSeq(unread, k + 1, Len(unread)), Len(out) + k)
      /\ Len(SubSeq(unread, k + 1, Len(unread))) = Len(unread) - k
  BY <1>1, <1>2, RunCut
<1>4. n = Len(out) + k + (Len(unread) - k)
  BY <1>1, <1>2
<1>5. Run(out, 0)
  BY DEF Flow
<1> QED
  BY <1>3, <1>4, <1>5 DEF Flow

LEMMA FlowSent ==
  ASSUME NEW out, NEW held, NEW unread, NEW n, Flow(out, held, unread, n), NEW k \in 0..Len(held)
  PROVE  Flow(out \o SubSeq(held, 1, k), SubSeq(held, k + 1, Len(held)), unread, n)
<1>1. Len(out) \in Nat /\ Len(held) \in Nat /\ Len(unread) \in Nat
  BY LenProperties DEF Flow, Run
<1>2. /\ Run(SubSeq(held, 1, k), Len(out)) /\ Len(SubSeq(held, 1, k)) = k
      /\ Run(SubSeq(held, k + 1, Len(held)), Len(out) + k)
      /\ Len(SubSeq(held, k + 1, Len(held))) = Len(held) - k
  BY <1>1, RunCut DEF Flow
<1>3. Run(out \o SubSeq(held, 1, k), 0) /\ Len(out \o SubSeq(held, 1, k)) = Len(out) + k
  BY <1>1, <1>2, RunJoined DEF Flow
<1>4. /\ Len(out) + k + (Len(held) - k) = Len(out) + Len(held)
      /\ n = Len(out) + Len(held) + Len(unread)
  BY <1>1 DEF Flow
<1>5. Run(unread, Len(out) + Len(held))
  BY DEF Flow
<1> QED
  BY <1>2, <1>3, <1>4, <1>5 DEF Flow

-----------------------------------------------------------------------------
(* Types *)

LEMMA InitInv == Init => Inv
<1> SUFFICES ASSUME Init PROVE Inv
  OBVIOUS
<1>1. Types
  BY DEF Init, Types, None, No, Side
<1>2. Place
  BY DEF Init, Place, PlaceOf, Before, Hearing, Relaying, Unused, None, No, Side
<1>3. Flowing
  BY DEF Init, Flowing, Relaying
<1> QED
  BY <1>1, <1>2, <1>3 DEF Inv

LEMMA TypesStep == Types /\ [Next]_vars => Types'
<1> SUFFICES ASSUME Types, [Next]_vars PROVE Types'
  OBVIOUS
<1> USE DEF Types, Goto
<1>1. CASE UNCHANGED vars
  BY <1>1 DEF vars, peers, relay
<1>2. CASE EvProxyNote
  BY <1>2 DEF EvProxyNote, peers, relay
<1>3. CASE Terminate
  BY <1>3 DEF Terminate, peers, relay
<1>4. CASE Refuse
  BY <1>4 DEF Refuse, peers, relay
<1>5. CASE Greet
  BY <1>5 DEF Greet, peers, relay
<1>6. CASE ResetEvent
  BY <1>6 DEF ResetEvent, peers, relay
<1>7. CASE OpenForListen
  BY <1>7 DEF OpenForListen, peers, relay
<1>8. CASE AcceptSocket
  BY <1>8 DEF AcceptSocket, Side, peers, relay
<1>9. CASE CloseSocket
  BY <1>9 DEF CloseSocket, None, No, Side, peers, relay
<1>10. CASE SockGetc
  BY <1>10 DEF SockGetc, peers, relay
<1>11. CASE RecvNothing
  BY <1>11 DEF RecvNothing, Side, peers, relay
<1>12. CASE EndOfLine
  BY <1>12 DEF EndOfLine, Reply, peers, relay
<1>13. CASE ProcessSocket
  BY <1>13 DEF ProcessSocket, Answer, Reads, Take, relay
<1>14. CASE ServerSays
  BY <1>14 DEF ServerSays, Reads, Take, Reply, relay
<1>15. CASE ServerConnect
  <2>1. UNCHANGED <<sent, ended, broken, input, terminate>>
    BY <1>15 DEF ServerConnect
  <2>2. open' \in [Side -> BOOLEAN]
    BY <1>15 DEF ServerConnect, Side
  <2>3. replies' \in Nat
    BY <1>15 DEF ServerConnect, Reply
  <2> QED
    BY <2>1, <2>2, <2>3
<1>16. CASE TicketError
  BY <1>16 DEF TicketError, Reply, Side, relay, signal
<1>17. CASE RelayWait
  BY <1>17 DEF RelayWait, RelayOnly, relay
<1>18. CASE UpRecv
  BY <1>18 DEF UpRecv, RelayOnly, Take
<1>19. CASE UpSend
  BY <1>19 DEF UpSend, RelayOnly
<1>20. CASE DownRecv
  BY <1>20 DEF DownRecv, RelayOnly, Take
<1>21. CASE DownSend
  BY <1>21 DEF DownSend, RelayOnly
<1>22. CASE Connect
  BY <1>22 DEF Connect, Others
<1>23. CASE ClientLine
  BY <1>23 DEF ClientLine, Others, Arrival
<1>24. CASE ServerLine
  BY <1>24 DEF ServerLine, Others, Arrival
<1>25. ASSUME NEW s \in Side, Item(s) PROVE Types'
  BY <1>25 DEF Item, Others, Arrival
<1>26. ASSUME NEW s \in Side, PeerCloses(s) PROVE Types'
  BY <1>26 DEF PeerCloses
<1>27. ASSUME NEW s \in Side, Breaks(s) PROVE Types'
  BY <1>27 DEF Breaks
<1> QED
  BY <1>1, <1>2, <1>3, <1>4, <1>5, <1>6, <1>7, <1>8, <1>9, <1>10, <1>11, <1>12, <1>13, <1>14, <1>15, <1>16, <1>17, <1>18, <1>19, <1>20, <1>21, <1>22, <1>23, <1>24, <1>25, <1>26, <1>27 DEF Next, Thread, Peers
-----------------------------------------------------------------------------
(* Answers *)

LEMMA SingleRest ==
  ASSUME NEW q, Single(q), q # <<>>
  PROVE  SubSeq(q, 1 + 1, Len(q)) = <<>>
<1>1. Len(q) = 1
  BY DEF Single
<1> QED
  BY <1>1, SubSeqEmpty

LEMMA SingleAppended ==
  ASSUME NEW x
  PROVE  Single(Append(<<>>, x))
BY DEF Single

LEMMA PlaceStep == Types /\ Place /\ [Next]_vars => Place'
<1> SUFFICES ASSUME Types, Place, [Next]_vars, ~terminate' PROVE PlaceOf'
  BY DEF Place
<1> USE DEF Types, Goto
<1>0. ~terminate /\ PlaceOf
  <2>1. terminate => terminate'
    <3>1. CASE UNCHANGED vars
      BY <3>1 DEF vars
    <3>2. CASE Thread
      BY <3>2 DEF Thread, EvProxyNote, Refuse, Greet, ResetEvent, OpenForListen, AcceptSocket,
                  CloseSocket, SockGetc, RecvNothing, EndOfLine, ProcessSocket, ServerSays, Reads,
                  ServerConnect, TicketError, RelayWait, UpRecv, UpSend, DownRecv, DownSend,
                  RelayOnly
    <3>3. CASE EvProxyNote \/ Terminate \/ Peers
      BY <3>3 DEF EvProxyNote, Terminate, Peers, Connect, ClientLine, ServerLine, Item,
                  PeerCloses, Breaks, Others
    <3> QED
      BY <3>1, <3>2, <3>3 DEF Next
  <2> QED
    BY <2>1 DEF Place
<1>1. CASE UNCHANGED vars
  BY <1>0, <1>1 DEF vars, peers, relay, PlaceOf, Before, Hearing, Relaying, Unused
<1>2. CASE EvProxyNote
  BY <1>0, <1>2 DEF EvProxyNote, peers, relay, PlaceOf, Before, Hearing, Relaying, Unused
<1>3. CASE Terminate
  BY <1>0, <1>3 DEF Terminate, peers, relay, PlaceOf, Before, Hearing, Relaying, Unused
<1>4. CASE Refuse
  BY <1>0, <1>4 DEF Refuse, peers, relay, PlaceOf, Before, Hearing, Relaying, Unused
<1>5. CASE Greet
  BY <1>0, <1>5 DEF Greet, peers, relay, PlaceOf, Before, Hearing, Relaying, Unused, Single
<1>6. CASE ResetEvent
  BY <1>0, <1>6 DEF ResetEvent, peers, relay, PlaceOf, Before, Hearing, Relaying, Unused
<1>7. CASE OpenForListen
  BY <1>0, <1>7 DEF OpenForListen, peers, relay, PlaceOf, Before, Hearing, Relaying, Unused
<1>8. CASE AcceptSocket
  BY <1>0, <1>8 DEF AcceptSocket, peers, relay, PlaceOf, Before, Hearing, Relaying, Unused
<1>9. CASE CloseSocket
  BY <1>0, <1>9 DEF CloseSocket, None, No, Side, peers, relay, PlaceOf, Before, Hearing, Relaying, Unused, Single
<1>10. CASE SockGetc
  BY <1>0, <1>10 DEF SockGetc, peers, relay, PlaceOf, Before, Hearing, Relaying, Unused
<1>11. CASE RecvNothing
  BY <1>0, <1>11 DEF RecvNothing, Side, peers, relay, PlaceOf, Before, Hearing, Relaying, Unused
<1>12. CASE EndOfLine
  BY <1>0, <1>12 DEF EndOfLine, Reply, peers, relay, PlaceOf, Before, Hearing, Relaying, Unused
<1>13. CASE ProcessSocket
  BY <1>0, <1>13, SingleRest DEF ProcessSocket, Answer, Reads, Take, Side, relay, PlaceOf, Before, Hearing, Relaying, Unused, Single
<1>14. CASE ServerSays
  BY <1>0, <1>14, SingleRest DEF ServerSays, Reads, Take, Reply, Side, relay, PlaceOf, Before, Hearing, Relaying, Unused, Single
<1>15. CASE ServerConnect
  BY <1>0, <1>15 DEF ServerConnect, Reply, Side, relay, signal, PlaceOf, Before, Hearing, Relaying, Unused, Single
<1>16. CASE TicketError
  BY <1>0, <1>16 DEF TicketError, Reply, Side, relay, signal, PlaceOf, Before, Hearing, Relaying, Unused, Single
<1>17. CASE RelayWait
  BY <1>0, <1>17 DEF RelayWait, RelayOnly, PlaceOf, Before, Hearing, Relaying, Unused
<1>18. CASE UpRecv
  BY <1>0, <1>18 DEF UpRecv, RelayOnly, PlaceOf, Before, Hearing, Relaying, Unused
<1>19. CASE UpSend
  BY <1>0, <1>19 DEF UpSend, RelayOnly, PlaceOf, Before, Hearing, Relaying, Unused
<1>20. CASE DownRecv
  BY <1>0, <1>20 DEF DownRecv, RelayOnly, PlaceOf, Before, Hearing, Relaying, Unused
<1>21. CASE DownSend
  BY <1>0, <1>21 DEF DownSend, RelayOnly, PlaceOf, Before, Hearing, Relaying, Unused
<1>22. CASE Connect
  BY <1>0, <1>22 DEF Connect, Others, relay, PlaceOf, Before, Hearing, Relaying, Unused
<1>23. CASE ClientLine
  BY <1>0, <1>23, SingleAppended DEF ClientLine, Others, Arrival, Side, relay, PlaceOf, Before, Hearing, Relaying, Unused
<1>24. CASE ServerLine
  <2>1. PICK l : Arrival("server", l) /\ asked /\ ~asked'
    BY <1>24 DEF ServerLine
  <2>2. /\ input'["client"] = input["client"]
        /\ input'["server"] = Append(input["server"], l)
    BY <2>1 DEF Arrival, Side
  <2>3. UNCHANGED <<at, chan, stage, state, open, relay, replies, sent>>
    BY <1>24 DEF ServerLine, Others
  <2>4. Hearing /\ chan # "client" => Single(input'["server"])
    BY <1>0, <2>1, <2>2, SingleAppended DEF PlaceOf
  <2> QED
    BY <1>0, <2>1, <2>2, <2>3, <2>4 DEF PlaceOf, Before, Hearing, Relaying, Unused, relay
<1>25. ASSUME NEW s \in Side, Item(s) PROVE PlaceOf'
  BY <1>0, <1>25 DEF Item, Others, Arrival, relay, PlaceOf, Before, Hearing, Relaying, Unused
<1>26. ASSUME NEW s \in Side, PeerCloses(s) PROVE PlaceOf'
  BY <1>0, <1>26 DEF PeerCloses, relay, PlaceOf, Before, Hearing, Relaying, Unused
<1>27. ASSUME NEW s \in Side, Breaks(s) PROVE PlaceOf'
  BY <1>0, <1>27 DEF Breaks, relay, PlaceOf, Before, Hearing, Relaying, Unused
<1> QED
  BY <1>1, <1>2, <1>3, <1>4, <1>5, <1>6, <1>7, <1>8, <1>9, <1>10, <1>11, <1>12, <1>13, <1>14, <1>15, <1>16, <1>17, <1>18, <1>19, <1>20, <1>21, <1>22, <1>23, <1>24, <1>25, <1>26, <1>27 DEF Next, Thread, Peers
-----------------------------------------------------------------------------
(* What is relayed *)

\* The steps that touch no item
FlowVars == <<relay, input, sent, asked>>

LEMMA FlowKept ==
  ASSUME Flowing, UNCHANGED FlowVars, Relaying' => Relaying
  PROVE  Flowing'
BY DEF Flowing, FlowVars, relay

LEMMA FlowingStep == Types /\ Place /\ Flowing /\ [Next]_vars => Flowing'
<1> SUFFICES ASSUME Types, Place, Flowing, [Next]_vars PROVE Flowing'
  OBVIOUS
<1> USE DEF Types, Goto
<1>1. CASE UNCHANGED vars
  BY <1>1, FlowKept DEF vars, peers, relay, FlowVars, Relaying
<1>2. CASE EvProxyNote \/ Terminate \/ Refuse \/ Greet \/ ResetEvent \/ OpenForListen
  BY <1>2, FlowKept DEF EvProxyNote, Terminate, Refuse, Greet, ResetEvent, OpenForListen, peers,
                        relay, FlowVars, Relaying
<1>3. CASE AcceptSocket \/ SockGetc \/ RecvNothing \/ EndOfLine
  BY <1>3, FlowKept DEF AcceptSocket, SockGetc, RecvNothing, EndOfLine, peers, relay, FlowVars,
                        Relaying
<1>4. CASE CloseSocket \/ ServerConnect \/ TicketError \/ ProcessSocket
  <2>1. ~Relaying'
    BY <1>4 DEF CloseSocket, ServerConnect, TicketError, ProcessSocket, Answer, Relaying
  <2> QED
    BY <2>1 DEF Flowing
<1>5. CASE ServerSays
  <2>1. CASE Relaying'
    <3>1. /\ at = "recv" /\ chan = "server" /\ ~terminate /\ stage = "pass"
          /\ input["server"] # <<>>
      BY <1>5, <2>1 DEF ServerSays, Reads, Relaying, Place, PlaceOf, Hearing
    <3>2. Unused /\ input["client"] = <<>> /\ Single(input["server"])
      BY <3>1 DEF Place, PlaceOf, Hearing
    <3>3. input'["server"] = <<>> /\ input'["client"] = <<>>
      BY <1>5, <3>1, <3>2, SingleRest DEF ServerSays, Reads, Take, Side
    <3>4. ~asked' /\ UNCHANGED <<relay, sent>>
      BY <1>5, <3>1 DEF ServerSays, Reads
    <3> QED
      BY <3>2, <3>3, <3>4, FlowEmpty DEF Unused, Flowing, relay
  <2>2. CASE ~Relaying'
    BY <2>2 DEF Flowing
  <2> QED
    BY <2>1, <2>2
<1>6. CASE RelayWait
  BY <1>6, FlowKept DEF RelayWait, RelayOnly, FlowVars, Relaying
<1>7. CASE UpRecv
  <2>1. Relaying /\ UNCHANGED <<down, downOut, upOut, sent, asked>>
    BY <1>7 DEF UpRecv, RelayOnly, Relaying
  <2>2. CASE up = <<>> /\ ~broken["client"] /\ input["client"] # <<>>
    <3>1. PICK n \in 1..Len(input["client"]) :
            up' = SubSeq(input["client"], 1, n) /\ Take("client", n)
      BY <1>7, <2>2 DEF UpRecv
    <3>2. /\ input'["client"] = SubSeq(input["client"], n + 1, Len(input["client"]))
          /\ input'["server"] = input["server"]
      BY <3>1 DEF Take, Side
    <3>3. Flow(upOut, up', input'["client"], sent["client"])
      BY <2>1, <2>2, <3>1, <3>2, FlowRead DEF Flowing
    <3> QED
      BY <2>1, <3>2, <3>3 DEF Flowing
  <2>3. CASE ~(up = <<>> /\ ~broken["client"] /\ input["client"] # <<>>)
    BY <1>7, <2>1, <2>3, FlowKept DEF UpRecv, FlowVars, relay
  <2> QED
    BY <2>2, <2>3
<1>8. CASE DownRecv
  <2>1. Relaying /\ UNCHANGED <<up, downOut, upOut, sent, asked>>
    BY <1>8 DEF DownRecv, RelayOnly, Relaying
  <2>2. CASE down = <<>> /\ ~broken["server"] /\ input["server"] # <<>>
    <3>1. PICK n \in 1..Len(input["server"]) :
            down' = SubSeq(input["server"], 1, n) /\ Take("server", n)
      BY <1>8, <2>2 DEF DownRecv
    <3>2. /\ input'["server"] = SubSeq(input["server"], n + 1, Len(input["server"]))
          /\ input'["client"] = input["client"]
      BY <3>1 DEF Take, Side
    <3>3. Flow(downOut, down', input'["server"], sent["server"])
      BY <2>1, <2>2, <3>1, <3>2, FlowRead DEF Flowing
    <3> QED
      BY <2>1, <3>2, <3>3 DEF Flowing
  <2>3. CASE ~(down = <<>> /\ ~broken["server"] /\ input["server"] # <<>>)
    BY <1>8, <2>1, <2>3, FlowKept DEF DownRecv, FlowVars, relay
  <2> QED
    BY <2>2, <2>3
<1>9. CASE UpSend
  <2>1. Relaying /\ UNCHANGED <<down, downOut, input, sent, asked>>
    BY <1>9 DEF UpSend, RelayOnly, Relaying
  <2>2. CASE up # <<>> /\ broken["server"]
    BY <1>9, <2>1, <2>2, FlowKept DEF UpSend, FlowVars, relay
  <2>3. CASE up = <<>> \/ ~broken["server"]
    <3>1. PICK n \in 0..Len(up) : /\ upOut' = upOut \o SubSeq(up, 1, n)
                                  /\ up' = SubSeq(up, n + 1, Len(up))
      BY <1>9, <2>3 DEF UpSend
    <3>2. Flow(upOut', up', input["client"], sent["client"])
      BY <2>1, <3>1, FlowSent DEF Flowing
    <3> QED
      BY <2>1, <3>2 DEF Flowing
  <2> QED
    BY <2>2, <2>3
<1>10. CASE DownSend
  <2>1. Relaying /\ UNCHANGED <<up, upOut, input, sent, asked>>
    BY <1>10 DEF DownSend, RelayOnly, Relaying
  <2>2. CASE down # <<>> /\ broken["client"]
    BY <1>10, <2>1, <2>2, FlowKept DEF DownSend, FlowVars, relay
  <2>3. CASE down = <<>> \/ ~broken["client"]
    <3>1. PICK n \in 0..Len(down) : /\ downOut' = downOut \o SubSeq(down, 1, n)
                                  /\ down' = SubSeq(down, n + 1, Len(down))
      BY <1>10, <2>3 DEF DownSend
    <3>2. Flow(downOut', down', input["server"], sent["server"])
      BY <2>1, <3>1, FlowSent DEF Flowing
    <3> QED
      BY <2>1, <3>2 DEF Flowing
  <2> QED
    BY <2>2, <2>3
<1>11. CASE Connect \/ ClientLine \/ ServerLine
  <2>1. Relaying => UNCHANGED FlowVars
    BY <1>11 DEF Connect, ClientLine, ServerLine, Others, Flowing, FlowVars, Relaying
  <2>2. Relaying' <=> Relaying
    BY <1>11 DEF Connect, ClientLine, ServerLine, Others, Relaying
  <2> QED
    BY <2>1, <2>2, FlowKept DEF Flowing
<1>12. ASSUME NEW s \in Side, Item(s) PROVE Flowing'
  <2>1. Relaying /\ UNCHANGED <<relay, asked>>
    BY <1>12 DEF Item, Others, relay
  <2>2. /\ input' = [input EXCEPT ![s] = Append(@, sent[s] + 1)]
        /\ sent' = [sent EXCEPT ![s] = @ + 1]
    BY <1>12 DEF Item, Arrival
  <2>3. CASE s = "client"
    <3>1. /\ input'["client"] = Append(input["client"], sent["client"] + 1)
          /\ sent'["client"] = sent["client"] + 1 /\ sent["client"] \in Nat
          /\ input'["server"] = input["server"] /\ sent'["server"] = sent["server"]
      BY <2>2, <2>3 DEF Side
    <3> QED
      BY <2>1, <3>1, FlowArrival DEF Flowing, relay
  <2>4. CASE s = "server"
    <3>1. /\ input'["server"] = Append(input["server"], sent["server"] + 1)
          /\ sent'["server"] = sent["server"] + 1 /\ sent["server"] \in Nat
          /\ input'["client"] = input["client"] /\ sent'["client"] = sent["client"]
      BY <2>2, <2>4 DEF Side
    <3> QED
      BY <2>1, <3>1, FlowArrival DEF Flowing, relay
  <2> QED
    BY <2>3, <2>4 DEF Side
<1>13. ASSUME NEW s \in Side, PeerCloses(s) PROVE Flowing'
  BY <1>13, FlowKept DEF PeerCloses, FlowVars, Relaying
<1>14. ASSUME NEW s \in Side, Breaks(s) PROVE Flowing'
  BY <1>14, FlowKept DEF Breaks, FlowVars, Relaying
<1> QED
  BY <1>1, <1>2, <1>3, <1>4, <1>5, <1>6, <1>7, <1>8, <1>9, <1>10, <1>11, <1>12, <1>13, <1>14
     DEF Next, Thread, Peers

-----------------------------------------------------------------------------
(* The theorem *)

LEMMA AnswersFollow == Inv => AnsweredOnce
BY DEF Inv, Place, PlaceOf, Hearing, AnsweredOnce

LEMMA OrderFollows == Inv => PassedOn
BY FlowIsUpTo DEF Inv, Flowing, PassedOn

\* Without a broken connection the loop ends on its own only where nothing is held
\* and nothing unread.
LEMMA DrainedStep == Inv /\ [Next]_vars => [Drained]_vars
<1> SUFFICES ASSUME Inv, Next, Relaying, at' = "close", ~terminate,
                    ~ \E s \in Side : broken[s]
             PROVE  \/ ended["client"] /\ Len(upOut) = sent["client"]
                    \/ ended["server"] /\ Len(downOut) = sent["server"]
  BY DEF Drained
<1>1. /\ Flow(upOut, up, input["client"], sent["client"])
      /\ Flow(downOut, down, input["server"], sent["server"])
  BY DEF Inv, Flowing
<1>2. Len(<<>>) = 0
  BY EmptySeq
<1>3. Len(upOut) \in Nat /\ Len(downOut) \in Nat
  BY <1>1, LenProperties DEF Flow, Run
<1>4. \/ up = <<>> /\ input["client"] = <<>> /\ ended["client"]
      \/ down = <<>> /\ input["server"] = <<>> /\ ended["server"]
  <2>1. UpRecv \/ DownRecv
    BY DEF Next, Thread, Peers, Relaying, Goto, EvProxyNote, Terminate, Refuse, Greet, ResetEvent,
           OpenForListen, AcceptSocket, CloseSocket, SockGetc, RecvNothing, EndOfLine,
           ProcessSocket, ServerSays, Reads, ServerConnect, TicketError, RelayWait, UpSend,
           DownSend, Connect, ClientLine, ServerLine, Item, PeerCloses, Breaks, Others, Side
  <2> QED
    BY <2>1 DEF UpRecv, DownRecv, Goto, Side
<1>5. CASE up = <<>> /\ input["client"] = <<>> /\ ended["client"]
  <2>1. sent["client"] = Len(upOut) + Len(up) + Len(input["client"])
    BY <1>1 DEF Flow
  <2>2. Len(up) = 0 /\ Len(input["client"]) = 0
    BY <1>2, <1>5
  <2> QED
    BY <2>1, <2>2, <1>3, <1>5
<1>6. CASE down = <<>> /\ input["server"] = <<>> /\ ended["server"]
  <2>1. sent["server"] = Len(downOut) + Len(down) + Len(input["server"])
    BY <1>1 DEF Flow
  <2>2. Len(down) = 0 /\ Len(input["server"]) = 0
    BY <1>2, <1>6
  <2> QED
    BY <2>1, <2>2, <1>3, <1>6
<1> QED
  BY <1>4, <1>5, <1>6

\* For any lengths, blocks and numbers of clients: what the proxy relays is
\* what was sent, in its order; unless a connection breaks, to the end of a side
\* that has closed; and each command is answered as often as it should be
\* (POPPROXY.CPP 490-564).
THEOREM RelayConserves == Spec => Conserved
<1>1. Inv /\ [Next]_vars => Inv'
  BY TypesStep, PlaceStep, FlowingStep DEF Inv
<1>2. Spec => []Inv
  BY InitInv, <1>1, PTL DEF Spec
<1>3. Spec => [][Drained]_vars
  BY InitInv, <1>1, DrainedStep, PTL DEF Spec
<1> QED
  BY <1>2, <1>3, AnswersFollow, OrderFollows, PTL DEF Conserved
=============================================================================
