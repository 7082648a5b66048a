------------------------------ MODULE PopProxy ------------------------------
(***************************************************************************)
(* The POP proxy: its thread, which serves one client at a time, logs in to *)
(* the server with a ticket and then relays in both directions, and the     *)
(* window (PPMsgWindow), which turns the notes of both sockets into one     *)
(* event.                                                                   *)
(*                                                                         *)
(* A note is posted when something arrives on a socket that has nothing to  *)
(* be read, and again by a recv that leaves something.  The window sets the *)
(* event for every note, also for those of sockets that were closed since.  *)
(* Before the relay a line is one item; the relay moves numbered items.     *)
(***************************************************************************)
EXTENDS Integers, Sequences

CONSTANTS
  Session,    \* what client and server do, and what may happen
  MaxNotes,   \* bound: notes in the queue when something arrives
  MaxRetries  \* bound: how often the user has the tickets destroyed

Lines == {"USER", "USERbad", "PASS", "PASSbad", "QUIT", "other"}

\* items and clients are bounds: items each side sends through the relay, and
\* clients that connect, one after the other.
\* calm: nothing arrives between a recv that found nothing and the Reset
\* breaks: connections may break
ASSUME ProxyAssumption ==
  /\ MaxNotes \in Nat \ {0} /\ MaxRetries \in Nat
  /\ \A s \in Session :
       /\ DOMAIN s = {"lines", "items", "clients", "calm", "fails", "refuses", "stops",
                      "remote", "breaks"}
       /\ s.items \in Nat /\ s.clients \in Nat
       /\ s.lines \subseteq Lines
       /\ {s.calm, s.fails, s.refuses, s.stops, s.remote, s.breaks} \subseteq BOOLEAN

Side == {"client", "server"}

VARIABLES
  session,
  at,        \* where the thread is
  chan,      \* the side SockGets reads from
  stage,     \* the line of the server that is read: "greet", "user", "pass"
  state,     \* State: "user", "pass", "cross"
  input,     \* per side: what has arrived and is unread
  open,      \* per side: the socket
  ended,     \* per side: the peer has closed
  broken,    \* per side: the connection is lost, every call on its socket fails
  notes,     \* notes in the window's queue
  event,     \* the event both channels share
  backlog,   \* a client waits to be accepted
  clients,   \* clients that have connected
  up,        \* ToServer: read from the client, not yet sent
  down,      \* BigBuf: read from the server, not yet sent
  upOut,     \* sent to the server by the relay
  downOut,   \* sent to the client by the relay
  sent,      \* per side: items the peer has sent into the relay
  replies,   \* answers to the client's last command, or greetings
  asked,     \* the server owes a line
  retries,
  terminate

peers  == <<input, ended, broken, sent, asked>>
signal == <<notes, event>>
relay  == <<up, down, upOut, downOut>>
vars == <<session, at, chan, stage, state, peers, open, signal, backlog, clients, relay,
          replies, retries, terminate>>

None == [s \in Side |-> <<>>]
No   == [s \in Side |-> FALSE]

Init ==
  /\ session \in Session
  /\ at = "open" /\ chan = "client" /\ stage = "greet" /\ state = "user"
  /\ input = None /\ open = No /\ ended = No /\ broken = No /\ notes = 0 /\ event = FALSE
  /\ backlog = FALSE /\ clients = 0
  /\ up = <<>> /\ down = <<>> /\ upOut = <<>> /\ downOut = <<>>
  /\ sent = [s \in Side |-> 0] /\ replies = 0 /\ asked = FALSE
  /\ retries = 0 /\ terminate = FALSE

Relaying == at \in {"relay", "upRecv", "upSend", "downRecv", "downSend"}

-----------------------------------------------------------------------------
(* The window and the peers *)

\* EvProxyNote
EvProxyNote ==
  /\ notes > 0 /\ notes' = notes - 1 /\ event' = TRUE
  /\ UNCHANGED <<session, at, chan, stage, state, peers, open, backlog, clients, relay,
                 replies, retries, terminate>>

\* The note of an arrival; no other is posted until the next recv.
Noted(s) == IF input[s] = <<>> THEN notes + 1 ELSE notes

Arrival(s, item) ==
  /\ open[s] /\ ~ended[s] /\ ~broken[s] /\ notes < MaxNotes
  /\ session.calm => at # "reset"
  /\ input' = [input EXCEPT ![s] = Append(@, item)]
  /\ notes' = Noted(s)

Others == UNCHANGED <<session, at, chan, stage, state, open, ended, broken, event, clients,
                      relay, replies, retries, terminate>>

\* A client connects while the proxy listens.
Connect ==
  /\ at = "accept" /\ ~backlog /\ clients < session.clients
  /\ backlog' = TRUE /\ notes' = notes + 1
  /\ UNCHANGED <<input, sent, asked>> /\ Others

\* The client sends a command when the last one has been answered.
ClientLine ==
  /\ ~Relaying /\ state # "cross" /\ input["client"] = <<>> /\ replies = 1
  /\ \E l \in session.lines : Arrival("client", l)
  /\ UNCHANGED <<sent, asked, backlog>> /\ Others

\* The server answers what it was sent.
ServerLine ==
  /\ asked /\ asked' = FALSE
  /\ \E l \in {"+", "-"} : (l = "-" => session.refuses) /\ Arrival("server", l)
  /\ UNCHANGED <<sent, backlog>> /\ Others

Item(s) ==
  /\ Relaying /\ sent[s] < session.items
  /\ Arrival(s, sent[s] + 1)
  /\ sent' = [sent EXCEPT ![s] = @ + 1]
  /\ UNCHANGED <<asked, backlog>> /\ Others

PeerCloses(s) ==
  /\ open[s] /\ ~ended[s] /\ ~broken[s] /\ (session.calm => at # "reset")
  /\ s = "server" => Relaying \/ session.fails
  /\ ended' = [ended EXCEPT ![s] = TRUE] /\ notes' = notes + 1
  /\ UNCHANGED <<session, at, chan, stage, state, input, sent, asked, broken, open, event,
                 backlog, clients, relay, replies, retries, terminate>>

\* The connection is reset, aborted or times out, also one whose peer has closed.
\* What arrived and is unread goes with it.
Breaks(s) ==
  /\ session.breaks /\ open[s] /\ ~broken[s] /\ (session.calm => at # "reset")
  /\ broken' = [broken EXCEPT ![s] = TRUE] /\ notes' = notes + 1
  /\ UNCHANGED <<session, at, chan, stage, state, input, sent, asked, ended, open, event,
                 backlog, clients, relay, replies, retries, terminate>>

\* PopProxy::Terminate, from the window's thread
Terminate ==
  /\ session.stops /\ ~terminate /\ terminate' = TRUE
  /\ UNCHANGED <<session, at, chan, stage, state, peers, open, signal, backlog, clients,
                 relay, replies, retries>>

-----------------------------------------------------------------------------
(* Run: listen, accept, close *)

Goto(p) == at' = p

OpenForListen ==
  /\ at = "open"
  /\ \/ terminate /\ Goto("ended") /\ UNCHANGED event
     \/ ~terminate /\ Goto("accept") /\ event' = FALSE
     \/ ~terminate /\ session.fails /\ event' = FALSE
          /\ Goto(IF clients = 0 THEN "ended" ELSE "close")
  /\ UNCHANGED <<session, chan, stage, state, peers, open, notes, backlog, clients, relay,
                 replies, retries, terminate>>

\* An event without a client, left by an older socket, makes accept fail.  The
\* listening socket is closed in any case, with a client that still waits.
\* WSAAsyncSelect posts a note for the new socket, which is writable.
AcceptSocket ==
  /\ at = "accept"
  /\ \/ terminate /\ Goto("close") /\ UNCHANGED <<clients, open, notes, event, backlog>>
     \/ /\ event /\ ~terminate /\ event' = FALSE /\ backlog' = FALSE
        /\ IF backlog
           THEN /\ clients' = clients + 1 /\ notes' = notes + 1
                /\ open' = [open EXCEPT !["client"] = TRUE]
                /\ Goto("greet") \/ (session.remote /\ Goto("refuse"))
           ELSE Goto("close") /\ UNCHANGED <<clients, open, notes>>
  /\ UNCHANGED <<session, chan, stage, state, peers, relay, replies, retries, terminate>>

\* The client is not on this machine.
Refuse ==
  /\ at = "refuse" /\ Goto("close") /\ replies' = replies + 1
  /\ UNCHANGED <<session, chan, stage, state, peers, open, signal, backlog, clients, relay,
                 retries, terminate>>

Greet ==
  /\ at = "greet" /\ Goto("getc") /\ chan' = "client" /\ replies' = replies + 1
  /\ UNCHANGED <<session, stage, state, peers, open, signal, backlog, clients, relay,
                 retries, terminate>>

CloseSocket ==
  /\ at = "close" /\ Goto("open")
  /\ open' = No /\ input' = None /\ ended' = No /\ broken' = No /\ event' = FALSE
  /\ state' = "user"
  /\ sent' = [s \in Side |-> 0] /\ asked' = FALSE /\ replies' = 0
  /\ up' = <<>> /\ down' = <<>> /\ upOut' = <<>> /\ downOut' = <<>> /\ stage' = "greet"
  /\ UNCHANGED <<session, chan, notes, backlog, clients, retries, terminate>>

-----------------------------------------------------------------------------
(* SockGets and SockGetc *)

\* A slip: the wait does not know of the program's end.
SockGetcDeaf ==
  /\ at = "getc" /\ event /\ Goto("recv")
  /\ UNCHANGED <<session, chan, stage, state, peers, open, signal, backlog, clients, relay,
                 replies, retries, terminate>>

\* Without a socket, or when the program ends, the end of the stream is read.
SockGetc ==
  /\ at = "getc"
  /\ terminate \/ event
  /\ Goto(IF terminate THEN "eof" ELSE "recv")
  /\ UNCHANGED <<session, chan, stage, state, peers, open, signal, backlog, clients, relay,
                 replies, retries, terminate>>

\* recv found nothing, the event is reset.
ResetEvent ==
  /\ at = "reset" /\ event' = FALSE /\ Goto("getc")
  /\ UNCHANGED <<session, chan, stage, state, peers, open, notes, backlog, clients, relay,
                 replies, retries, terminate>>

\* Nothing was there, recv failed, or the program ends: SockGets looks after every
\* byte.  A failed write closes the socket too; here the next recv finds it so.
RecvNothing ==
  /\ at = "recv" /\ (input[chan] = <<>> \/ broken[chan] \/ terminate)
  /\ Goto(IF ended[chan] \/ broken[chan] \/ terminate THEN "eof" ELSE "reset")
  /\ open' = IF broken[chan] \/ (ended[chan] /\ input[chan] = <<>>)
             THEN [open EXCEPT ![chan] = FALSE] ELSE open
  /\ UNCHANGED <<session, chan, stage, state, peers, signal, backlog, clients, relay, replies,
                 retries, terminate>>

\* What is left behind in the socket is noted again.
Take(s, n) ==
  /\ input' = [input EXCEPT ![s] = SubSeq(@, n + 1, Len(@))]
  /\ notes' = IF Len(input[s]) > n THEN notes + 1 ELSE notes

Reads(s) ==
  /\ at = "recv" /\ ~terminate /\ chan = s /\ ~broken[s] /\ input[s] # <<>> /\ Take(s, 1)
  /\ UNCHANGED <<session, chan, ended, broken, sent, open, event, backlog, clients, relay,
                 retries, terminate>>

Reply(n) == replies' = replies + n

\* The commands of ProcessSocket.  The one that lets the proxy connect is
\* answered by ServerConnect.
Answer(l) ==
  CASE l = "USER" /\ state = "user"    -> state' = "pass" /\ Goto("getc") /\ replies' = 1
    [] l = "PASS" /\ state = "pass"    -> state' = "cross" /\ Goto("connect") /\ replies' = 0
    [] l = "QUIT"                      -> Goto("close") /\ replies' = 1 /\ UNCHANGED state
    [] OTHER                           -> Goto("getc") /\ replies' = 1 /\ UNCHANGED state

ProcessSocket ==
  /\ Reads("client")
  /\ Answer(Head(input["client"]))
  /\ UNCHANGED <<stage, asked>>

\* The client's end of the stream, or the server's before the relay
EndOfLine ==
  /\ at = "eof" /\ Goto("close")
  /\ Reply(IF chan = "server" \/ open["client"] THEN 1 ELSE 0)
  /\ UNCHANGED <<session, chan, stage, state, peers, open, signal, backlog, clients, relay,
                 retries, terminate>>

-----------------------------------------------------------------------------
(* ServerConnect *)

\* The host, the connection, the ticket and krb_sendauth.  WSAAsyncSelect
\* posts a note.  Each failure is told to the client.
ServerConnect ==
  /\ at = "connect"
  /\ \/ /\ Goto("getc") /\ chan' = "server" /\ stage' = "greet" /\ asked' = TRUE
        /\ open' = [open EXCEPT !["server"] = TRUE] /\ notes' = notes + 1
        /\ UNCHANGED replies
     \/ /\ session.fails /\ Goto("close") /\ Reply(1)
        /\ UNCHANGED <<chan, stage, asked, open, notes>>
     \/ /\ session.fails /\ Goto("box")
        /\ UNCHANGED <<chan, stage, asked, open, notes, replies>>
  /\ UNCHANGED <<session, state, input, ended, broken, sent, event, backlog, clients,
                 relay, retries, terminate>>

\* TicketError: the box, and `goto again' with the connection closed
TicketError ==
  /\ at = "box"
  /\ \/ retries < MaxRetries /\ retries' = retries + 1 /\ Goto("connect") /\ Reply(0)
     \/ Goto("close") /\ Reply(1) /\ UNCHANGED retries
  /\ open' = [open EXCEPT !["server"] = FALSE]
  /\ input' = [input EXCEPT !["server"] = <<>>]
  /\ ended' = [ended EXCEPT !["server"] = FALSE] /\ asked' = FALSE
  /\ broken' = [broken EXCEPT !["server"] = FALSE]
  /\ UNCHANGED <<session, chan, stage, state, sent, signal, backlog, clients, relay,
                 terminate>>

\* A line of the server while the proxy logs in.  A refused password is told
\* to the client twice.
ServerSays ==
  /\ Reads("server")
  /\ LET good == Head(input["server"]) = "+" IN
     CASE stage = "greet" ->
            /\ Goto(IF good THEN "getc" ELSE "box") /\ asked' = good /\ Reply(0)
            /\ stage' = IF good THEN "user" ELSE stage
       [] stage = "user" ->
            /\ Goto(IF good THEN "getc" ELSE "close") /\ asked' = good
            /\ stage' = IF good THEN "pass" ELSE stage
            /\ Reply(IF good THEN 0 ELSE 1)
       [] OTHER ->
            /\ Goto(IF good THEN "relay" ELSE "close") /\ asked' = FALSE
            /\ stage' = IF good THEN "relay" ELSE "refused"
            /\ Reply(IF good THEN 1 ELSE 2)
  /\ UNCHANGED state

-----------------------------------------------------------------------------
(* The relay *)

RelayOnly == UNCHANGED <<session, chan, stage, state, ended, broken, sent, asked, open,
                         backlog, clients, replies, retries, terminate>>

\* A slip: the loop waits for the event without a limit.
RelayWaitLong ==
  /\ at = "relay"
  /\ \/ event /\ ~terminate /\ Goto("upRecv")
     \/ terminate /\ Goto("close")
  /\ event' = FALSE
  /\ UNCHANGED <<input, notes, relay>> /\ RelayOnly

\* The event or 250 ms, then Reset
RelayWait ==
  /\ at = "relay"
  /\ IF terminate THEN Goto("close") /\ UNCHANGED event
                  ELSE Goto("upRecv") /\ event' = FALSE
  /\ UNCHANGED <<input, notes, relay>> /\ RelayOnly

\* A slip: what is left of the last block is overwritten.
UpRecvOver ==
  /\ at = "upRecv" /\ UNCHANGED <<down, upOut, downOut, event>>
  /\ \/ /\ ~broken["client"] /\ input["client"] # <<>> /\ Goto("upSend")
        /\ \E n \in 1..Len(input["client"]) :
             up' = SubSeq(input["client"], 1, n) /\ Take("client", n)
     \/ /\ broken["client"] \/ input["client"] = <<>>
        /\ Goto(IF broken["client"] \/ ended["client"] THEN "close" ELSE "upSend")
        /\ UNCHANGED <<up, input, notes>>
  /\ RelayOnly

\* recv, when nothing is held: the end of the stream and any error other than
\* WOULDBLOCK end the relay, with whatever the other direction holds.
UpRecv ==
  /\ at = "upRecv" /\ UNCHANGED <<down, upOut, downOut, event>>
  /\ \/ up # <<>> /\ Goto("upSend") /\ UNCHANGED <<up, input, notes>>
     \/ up = <<>> /\ broken["client"] /\ Goto("close") /\ UNCHANGED <<up, input, notes>>
     \/ /\ up = <<>> /\ ~broken["client"] /\ input["client"] # <<>> /\ Goto("upSend")
        /\ \E n \in 1..Len(input["client"]) :
             up' = SubSeq(input["client"], 1, n) /\ Take("client", n)
     \/ /\ up = <<>> /\ ~broken["client"] /\ input["client"] = <<>>
        /\ Goto(IF ended["client"] THEN "close" ELSE "upSend")
        /\ UNCHANGED <<up, input, notes>>
  /\ RelayOnly

\* send takes any part of the block, or fails for good.
UpSend ==
  /\ at = "upSend" /\ UNCHANGED <<input, signal, down, downOut>>
  /\ \/ /\ up # <<>> /\ broken["server"] /\ Goto("close") /\ UNCHANGED <<up, upOut>>
     \/ /\ up = <<>> \/ ~broken["server"]
        /\ Goto("downRecv")
        /\ \E n \in 0..Len(up) : /\ upOut' = upOut \o SubSeq(up, 1, n)
                                 /\ up' = SubSeq(up, n + 1, Len(up))
  /\ RelayOnly

DownRecv ==
  /\ at = "downRecv" /\ UNCHANGED <<up, upOut, downOut, event>>
  /\ \/ down # <<>> /\ Goto("downSend") /\ UNCHANGED <<down, input, notes>>
     \/ down = <<>> /\ broken["server"] /\ Goto("close") /\ UNCHANGED <<down, input, notes>>
     \/ /\ down = <<>> /\ ~broken["server"] /\ input["server"] # <<>> /\ Goto("downSend")
        /\ \E n \in 1..Len(input["server"]) :
             down' = SubSeq(input["server"], 1, n) /\ Take("server", n)
     \/ /\ down = <<>> /\ ~broken["server"] /\ input["server"] = <<>>
        /\ Goto(IF ended["server"] THEN "close" ELSE "downSend")
        /\ UNCHANGED <<down, input, notes>>
  /\ RelayOnly

DownSend ==
  /\ at = "downSend" /\ UNCHANGED <<input, signal, up, upOut>>
  /\ \/ /\ down # <<>> /\ broken["client"] /\ Goto("close") /\ UNCHANGED <<down, downOut>>
     \/ /\ down = <<>> \/ ~broken["client"]
        /\ Goto("relay")
        /\ \E n \in 0..Len(down) : /\ downOut' = downOut \o SubSeq(down, 1, n)
                                   /\ down' = SubSeq(down, n + 1, Len(down))
  /\ RelayOnly

Thread == OpenForListen \/ AcceptSocket \/ Refuse \/ Greet \/ CloseSocket \/ SockGetc
            \/ ResetEvent \/ RecvNothing \/ ProcessSocket \/ EndOfLine \/ ServerConnect
            \/ TicketError \/ ServerSays \/ RelayWait \/ UpRecv \/ UpSend \/ DownRecv
            \/ DownSend

Peers == Connect \/ ClientLine \/ ServerLine
           \/ \E s \in Side : Item(s) \/ PeerCloses(s) \/ Breaks(s)

Next == Thread \/ EvProxyNote \/ Peers \/ Terminate

Spec == Init /\ [][Next]_vars

\* Both threads run, boxes are answered, a server that was asked answers, and a
\* send that is tried again and again takes something in the end.
FairSpec == /\ Spec /\ WF_vars(Thread) /\ WF_vars(EvProxyNote) /\ WF_vars(ServerLine)
            /\ SF_vars(UpSend /\ upOut' # upOut) /\ SF_vars(DownSend /\ downOut' # downOut)

-----------------------------------------------------------------------------
(* Properties *)

UpTo(n) == [i \in 1..n |-> i]

\* A command of the client is answered once, whichever part of the proxy does
\* it and whatever fails; but a password the server refuses twice.
AnsweredOnce ==
  ~terminate /\ open["client"] /\ (at = "close" \/ (at = "getc" /\ chan = "client"))
    => replies = (IF stage = "refused" THEN 2 ELSE 1)

PassedOn ==
  Relaying => /\ upOut \o up \o input["client"] = UpTo(sent["client"])
              /\ downOut \o down \o input["server"] = UpTo(sent["server"])

Drained ==
  Relaying /\ at' = "close" /\ ~terminate =>
    \/ ended["client"] /\ Len(upOut) = sent["client"]
    \/ ended["server"] /\ Len(downOut) = sent["server"]
    \/ \E s \in Side : broken[s]

\* Nothing is lost, doubled or put out of order by the relay, however the
\* blocks fall and whatever the system takes of them (POPPROXY.CPP 490-564); and
\* the relay ends because a side has closed only when all that side had sent has been
\* passed on.  Only a connection that broke ends it before: then what is held for
\* either side is lost, also what a side sent that closed in good order.
Conserved == []AnsweredOnce /\ []PassedOn /\ [][Drained]_vars

\* What has arrived for the relay is read: a note lost between recv and Reset
\* delays it by a quarter of a second.  What the client says before that is read,
\* and that it has gone is seen, if nothing arrives between a recv that found
\* nothing and the Reset.  And the thread ends when it is told to, wherever it waits.
RelayGoesOn ==
  LET Hears == chan = "client" /\ at \in {"getc", "recv", "reset"} IN
  /\ \A s \in Side : Relaying /\ input[s] # <<>> ~> ~Relaying \/ input[s] = <<>>
  /\ session.calm /\ Hears /\ input["client"] # <<>> ~> ~Hears \/ input["client"] = <<>>
  /\ session.calm /\ Hears /\ (ended["client"] \/ broken["client"]) ~> ~Hears
  /\ terminate ~> at = "ended"
=============================================================================
