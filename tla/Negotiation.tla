----------------------------- MODULE Negotiation -----------------------------
(***************************************************************************)
(* The telnet options of a connection against a server: Negotiator and its *)
(* options (NEGOT, TOPTIONS, AUTHOPT, ENCROPT) at one end, a server that   *)
(* follows RFC 1143 and the telnet encryption option at the other, and the *)
(* bytes between them in order.  Kerberos decides the key, the key and the *)
(* vectors sent decide whether one end can read what the other encrypts.   *)
(*                                                                         *)
(* A command is a record and arrives as a whole (TerminalInput has the cut *)
(* ones).  What EncryptStream says of one direction byte by byte is here a *)
(* cipher: the key and the vector a command was encrypted with, or Plain.  *)
(* YesNoOption answers every command, also one that confirms what it has   *)
(* said; it is the server's rule not to answer that ends the exchange.     *)
(* The server sends no suboption that is out of turn, so that the branches *)
(* for other ciphers, keys and stages are not there.                       *)
(***************************************************************************)
EXTENDS Integers, Sequences

CONSTANTS
  Sessions,  \* what the user and the server are like, see Session
  MaxAsks,   \* bound: how often the server changes an option
  MaxResizes \* bound: how often the window changes its size

YesNo  == {"ECHO", "SGA", "TTYPE", "NAWS"}
Option == YesNo \cup {"AUTH", "ENCRYPT", "OTHER"}

Session ==
  [asks    : SUBSET ({"WILL", "WONT", "DO", "DONT"} \X Option), \* what it may ask
   crypt   : BOOLEAN,                      \* the host name has no backslash before it
   pairs   : {"mutual", "mixed", "oneway", "none"}, \* the pairs of its SEND, see Fitting
   ticket  : {"got", "cancelled", "failed"},
   user    : BOOLEAN,                      \* is there a name for the user
   accepts : BOOLEAN,                      \* does it accept the ticket
   support : BOOLEAN,                      \* does it decrypt DES_CFB64
   jam     : BOOLEAN,                      \* may a block of the user's be unsent
   stops   : BOOLEAN,                      \* may it end the encryption and start it again
   memory  : BOOLEAN]                      \* what was where will and doo are

NegotiationAssumption ==
  Sessions \subseteq Session /\ MaxAsks \in Nat /\ MaxResizes \in Nat

VARIABLES
  session,
  open,       \* IsOpen
  refused,    \* has Send refused a reply because a block was unsent
  eaten,      \* the options of which a command lost its IAC
  in, out,    \* the commands on their way to the program and to the server
  will, doo,  \* of YesNoOption: no constructor sets them
  negotiated, \* of WinSizeOption
  enckey,     \* the key made for the last challenge, 0 for none yet
  authenticated, engine, encIV, decIV, encrypt, decrypt,
  us, him,    \* the server's RFC 1143 states
  server,     \* what it keeps of authentication and encryption
  asks, resizes

options  == <<will, doo, negotiated>>
crypto   == <<authenticated, enckey, engine, encIV, decIV, encrypt, decrypt>>
program  == <<open, options, crypto>>
peer     == <<us, him, server>>
vars     == <<session, in, out, refused, eaten, program, peer, asks, resizes>>

Plain == <<0, 0>>
NoEngine == -1
ServerIV == 2
OurIV    == 1

Init ==
  /\ session \in Sessions
  /\ open = TRUE /\ refused = FALSE /\ eaten = {} /\ in = <<>> /\ out = <<>>
  /\ will = [o \in YesNo |-> session.memory] /\ doo = [o \in YesNo |-> session.memory]
  /\ negotiated = FALSE
  /\ authenticated = TRUE \* so says the constructor
  /\ enckey = 0 /\ engine = NoEngine /\ encIV = 0 /\ decIV = 0
  /\ encrypt = FALSE /\ decrypt = FALSE
  /\ us = [o \in Option |-> "no"] /\ him = [o \in Option |-> "no"]
  /\ server = [key |-> 0, encIV |-> 0, decIV |-> 0, encrypt |-> FALSE,
               decrypt |-> FALSE, ready |-> FALSE, stage |-> "fresh"]
  /\ asks = 0 /\ resizes = 0

Cmd(c, o)       == [cmd |-> c, opt |-> o, kind |-> "", arg |-> 0]
Sub(o, k, a)    == [cmd |-> "SB", opt |-> o, kind |-> k, arg |-> a]
OurCipher       == IF encrypt THEN <<engine, encIV>> ELSE Plain
OurReading      == IF decrypt THEN <<engine, decIV>> ELSE Plain
ServerCipher    == IF server.encrypt THEN <<server.key, server.encIV>> ELSE Plain
ServerReading   == IF server.decrypt THEN <<server.key, server.decIV>> ELSE Plain

-----------------------------------------------------------------------------
(* The options of the program *)

\* SendReply: Send gives nothing to a socket that is closed.  While a block of
\* the user's is unsent it refuses, and whoever has called it goes on as if the
\* reply had been sent; from one reply to the next the block may have gone out,
\* or the reply be what is unsent.
Sent(msgs) == out \o [i \in DOMAIN msgs |-> [m |-> msgs[i], cipher |-> OurCipher]]
Without(msgs, i, j) == SubSeq(msgs, 1, i - 1) \o SubSeq(msgs, j + 1, Len(msgs))

SendReply(msgs) ==
  \/ out' = (IF open THEN Sent(msgs) ELSE out) /\ UNCHANGED refused
  \/ /\ session.jam /\ open /\ ~refused
     /\ \E i \in DOMAIN msgs : \E j \in i .. Len(msgs) : out' = Sent(Without(msgs, i, j))
     /\ refused' = TRUE

NoReply == UNCHANGED <<out, refused>>

\* TelnetNegotiate finds a command, and Negotiate hands it to its option; a
\* connection without encryption has not registered two of them.
Receives(o) ==
  /\ in # <<>> /\ Head(in).m.opt = o
  /\ in' = Tail(in)
  /\ UNCHANGED <<session, eaten, peer, asks, resizes>>
Command == Head(in).m
Registered == YesNo \cup (IF session.crypt THEN {"AUTH", "ENCRYPT"} ELSE {})

Answer(cmd) == CASE cmd = "DO"   -> "WILL"
                 [] cmd = "DONT" -> "WONT"
                 [] cmd = "WILL" -> "DO"
                 [] cmd = "WONT" -> "DONT"
                 [] cmd = "SB"   -> "WONT"

\* A slip: a refusal is answered and not taken down.
StateAfterDeaf(o, cmd) ==
  /\ will' = IF cmd = "DO" THEN [will EXCEPT ![o] = TRUE] ELSE will
  /\ doo'  = IF cmd = "WILL" THEN [doo EXCEPT ![o] = TRUE] ELSE doo

StateAfter(o, cmd) ==
  /\ will' = IF cmd \in {"DO", "DONT"} THEN [will EXCEPT ![o] = cmd = "DO"] ELSE will
  /\ doo'  = IF cmd \in {"WILL", "WONT"} THEN [doo EXCEPT ![o] = cmd = "WILL"] ELSE doo

\* ECHO and SGA, and what the other two do with all that is not their own.
YesNoOption(o) ==
  /\ Receives(o) /\ o \in {"ECHO", "SGA"}
  /\ StateAfter(o, Command.cmd)
  /\ SendReply(<<Cmd(Answer(Command.cmd), o)>>)
  /\ UNCHANGED <<open, negotiated, crypto>>

TTOption ==
  /\ Receives("TTYPE")
  /\ IF Command.cmd = "SB"
       THEN /\ SendReply(IF Command.kind = "SEND" THEN <<Sub("TTYPE", "IS", 0)>> ELSE <<>>)
            /\ UNCHANGED <<will, doo>>
       ELSE /\ StateAfter("TTYPE", Command.cmd)
            /\ SendReply(<<Cmd(Answer(Command.cmd), "TTYPE")>>)
  /\ UNCHANGED <<open, negotiated, crypto>>

\* The size follows the answer, whatever that was.
WinSizeOption ==
  /\ Receives("NAWS")
  /\ StateAfter("NAWS", Command.cmd)
  /\ negotiated' = TRUE
  /\ SendReply(<<Cmd(Answer(Command.cmd), "NAWS"), Sub("NAWS", "SIZE", 0)>>)
  /\ UNCHANGED <<open, crypto>>

\* The window has another size: ExecOption.
Resize ==
  /\ open /\ resizes < MaxResizes
  /\ resizes' = resizes + 1
  /\ SendReply(IF negotiated THEN <<Sub("NAWS", "SIZE", 0)>> ELSE <<>>)
  /\ UNCHANGED <<session, in, eaten, program, peer, asks>>

DenyAllOption(o) ==
  /\ Receives(o) /\ o \notin Registered
  /\ SendReply(<<Cmd(IF Command.cmd = "DO" THEN "WONT" ELSE "DONT", o)>>)
  /\ UNCHANGED program

-----------------------------------------------------------------------------
(* AuthOption *)

Auth(cmd, kind) ==
  /\ "AUTH" \in Registered /\ Receives("AUTH")
  /\ Command.cmd = cmd /\ Command.kind = kind
  /\ UNCHANGED <<options, engine, encIV, decIV, encrypt, decrypt>>

AuthDo ==
  /\ Auth("DO", "")
  /\ SendReply(<<Cmd("WILL", "AUTH")>>)
  /\ UNCHANGED <<open, authenticated, enckey>>

\* WILL, WONT and DONT get no answer.
AuthIgnores ==
  /\ \E c \in {"WILL", "WONT", "DONT"} : Auth(c, "")
  /\ NoReply /\ UNCHANGED <<open, authenticated, enckey>>

\* SendRetryConnection closes the connection and has the window ask for another.
SendRetryConnection == open' = FALSE

NoKerb4 == Sub("AUTH", "IS NULL", 0)

\* What the pairs lead to: "mixed" has a one-way pair of Kerberos 4 with one of
\* another type behind it, which ends the search in time for ReadToIACSE.
\* Without a pair that ends it the loop takes IAC SE for one.
Fitting  == session.pairs = "mutual"
Overread == session.pairs \in {"oneway", "none"}

\* A ticket for the pair and the name to go with it.  When IAC SE was taken for a
\* pair and nothing has arrived behind it, nothing is answered; text that has
\* loses its first character.
NegotiateSend ==
  /\ Auth("SB", "SEND")
  /\ IF Overread THEN (NoReply \/ SendReply(<<NoKerb4>>)) /\ UNCHANGED open
     ELSE IF ~Fitting \/ session.ticket = "cancelled"
       THEN SendReply(<<NoKerb4>>) /\ UNCHANGED open
     ELSE IF session.ticket = "failed" THEN SendRetryConnection /\ NoReply
     ELSE IF ~session.user THEN SendReply(<<NoKerb4>>) /\ UNCHANGED open
     ELSE /\ SendReply(<<Sub("AUTH", "NAME", 0), Sub("AUTH", "IS AUTH", 0)>>)
          /\ UNCHANGED open
  /\ UNCHANGED <<authenticated, enckey>>

\* Of a command that has arrived behind it, "Get SE" takes the IAC, and the rest
\* is shown as text.
NegotiateSendOn ==
  /\ "AUTH" \in Registered /\ Overread
  /\ Len(in) > 1 /\ Command = Sub("AUTH", "SEND", 0)
  /\ in' = Tail(Tail(in))
  /\ eaten' = eaten \cup {Head(Tail(in)).m.opt}
  /\ SendReply(<<NoKerb4>>)
  /\ UNCHANGED <<session, program, peer, asks, resizes>>

Rejected ==
  /\ Auth("SB", "REJECT")
  /\ SendRetryConnection
  /\ NoReply /\ UNCHANGED <<authenticated, enckey>>

\* SendChallenge makes a new key and sends it under the session key.
Accepted ==
  /\ Auth("SB", "ACCEPT")
  /\ enckey' = enckey + 1
  /\ SendReply(<<Sub("AUTH", "CHALLENGE", enckey + 1)>>)
  /\ UNCHANGED <<open, authenticated>>

\* A slip: encryption is asked of one direction only.
ResponseOneWay ==
  /\ Auth("SB", "RESPONSE")
  /\ authenticated' = TRUE
  /\ SendReply(<<Cmd("WILL", "ENCRYPT")>>)
  /\ UNCHANGED <<open, enckey>>

\* The answer is compared and taken for right either way.
Response ==
  /\ Auth("SB", "RESPONSE")
  /\ authenticated' = TRUE
  /\ SendReply(<<Cmd("DO", "ENCRYPT"), Cmd("WILL", "ENCRYPT")>>)
  /\ UNCHANGED <<open, enckey>>

AuthOption == \/ AuthDo \/ AuthIgnores \/ NegotiateSend \/ NegotiateSendOn
              \/ Rejected \/ Accepted \/ Response

-----------------------------------------------------------------------------
(* EncryptOption *)

Encrypt(cmd, kind) ==
  /\ "ENCRYPT" \in Registered /\ Receives("ENCRYPT")
  /\ Command.cmd = cmd /\ Command.kind = kind
  /\ UNCHANGED <<open, options, authenticated, enckey>>

\* What the senders of EncryptOption put together.
sendEncrypt(c) == Cmd(c, "ENCRYPT")
sendSUPPORT    == Sub("ENCRYPT", "SUPPORT", 1)
sendREPLY      == Sub("ENCRYPT", "REPLY", 0)
sendREQSTART   == Sub("ENCRYPT", "REQUEST_START", 0)
sendDEC_KEYID  == Sub("ENCRYPT", "DEC_KEYID", 0)
sendENC_KEYID  == Sub("ENCRYPT", "ENC_KEYID", 0)
sendIS_NULL    == Sub("ENCRYPT", "IS NULL", 0)

\* The engine is made once, with the key there is then.
MakeEngine == engine' = IF engine = NoEngine THEN enckey ELSE engine

\* mAuthenticated is set in the constructor and never cleared, so that nothing is
\* refused.
EncryptDo ==
  /\ Encrypt("DO", "")
  /\ IF authenticated
       THEN MakeEngine /\ SendReply(<<sendEncrypt("WILL")>>)
       ELSE UNCHANGED engine /\ SendReply(<<sendEncrypt("WONT")>>)
  /\ UNCHANGED <<encIV, decIV, encrypt, decrypt>>

EncryptWill ==
  /\ Encrypt("WILL", "")
  /\ IF authenticated
       THEN MakeEngine /\ SendReply(<<sendEncrypt("DO"), sendREQSTART, sendSUPPORT>>)
       ELSE UNCHANGED engine /\ SendReply(<<sendEncrypt("DONT")>>)
  /\ UNCHANGED <<encIV, decIV, encrypt, decrypt>>

EncryptRefused ==
  /\ \E c \in {"WONT", "DONT"} : Encrypt(c, "") /\ SendReply(<<sendEncrypt(Answer(c))>>)
  /\ UNCHANGED <<engine, encIV, decIV, encrypt, decrypt>>

\* sendIS makes a vector and keeps it.
sendIS ==
  /\ encIV' = OurIV
  /\ SendReply(<<Sub("ENCRYPT", "IS", OurIV)>>)

\* The server may know no cipher of ours.
Support ==
  /\ Encrypt("SB", "SUPPORT")
  /\ IF Command.arg = 1
       THEN sendIS
       ELSE /\ SendReply(<<sendIS_NULL, sendEncrypt("WONT")>>)
            /\ UNCHANGED encIV
  /\ UNCHANGED <<engine, decIV, encrypt, decrypt>>

Is ==
  /\ Encrypt("SB", "IS")
  /\ decIV' = Command.arg
  /\ SendReply(<<sendREPLY>>)
  /\ UNCHANGED <<engine, encIV, encrypt, decrypt>>

Reply ==
  /\ Encrypt("SB", "REPLY")
  /\ SendReply(<<sendENC_KEYID>>)
  /\ UNCHANGED <<engine, encIV, decIV, encrypt, decrypt>>

EncKeyId ==
  /\ Encrypt("SB", "ENC_KEYID")
  /\ SendReply(<<sendDEC_KEYID, sendREQSTART>>)
  /\ UNCHANGED <<engine, encIV, decIV, encrypt, decrypt>>

sendSTART ==
  /\ SendReply(<<Sub("ENCRYPT", "START", 0)>>)
  /\ encrypt' = TRUE

DecKeyId ==
  /\ Encrypt("SB", "DEC_KEYID")
  /\ sendSTART
  /\ UNCHANGED <<engine, encIV, decIV, decrypt>>

\* REQUEST_START is read and nothing done about it.
RequestStart ==
  /\ Encrypt("SB", "REQUEST_START")
  /\ NoReply /\ UNCHANGED <<engine, encIV, decIV, encrypt, decrypt>>

sendEND ==
  /\ SendReply(<<Sub("ENCRYPT", "END", 0)>>)
  /\ encrypt' = FALSE

RequestEnd ==
  /\ Encrypt("SB", "REQUEST_END")
  /\ sendEND
  /\ UNCHANGED <<engine, encIV, decIV, decrypt>>

\* The server's START is answered with one of ours, each time.
Start ==
  /\ Encrypt("SB", "START")
  /\ decrypt' = TRUE
  /\ sendSTART
  /\ UNCHANGED <<engine, encIV, decIV>>

End ==
  /\ Encrypt("SB", "END")
  /\ decrypt' = FALSE
  /\ NoReply /\ UNCHANGED <<engine, encIV, decIV, encrypt>>

EncryptOption == \/ EncryptDo \/ EncryptWill \/ EncryptRefused \/ Support \/ Is
                 \/ Reply \/ EncKeyId \/ DecKeyId \/ RequestStart \/ RequestEnd
                 \/ Start \/ End

Program == \/ \E o \in Option : YesNoOption(o) \/ DenyAllOption(o)
           \/ TTOption \/ WinSizeOption \/ AuthOption \/ EncryptOption

-----------------------------------------------------------------------------
(* The server *)

OfServer == UNCHANGED <<session, program, refused, eaten, resizes>>
Says(msgs) ==
  in' = in \o [i \in DOMAIN msgs |-> [m |-> msgs[i], cipher |-> ServerCipher]]

\* It takes an option that it has had to ask for itself, and the encryption.
Acceptable(o) == o \in {"ECHO", "SGA"} \/ (o = "ENCRYPT" /\ session.crypt)

\* RFC 1143, without the queue: the state after a command that says yes or no,
\* and whether it is answered.
After(state, yes, o) ==
  CASE state = "no"      -> IF yes /\ Acceptable(o) THEN "yes" ELSE "no"
    [] state = "yes"     -> IF yes THEN "yes" ELSE "no"
    [] state = "wantno"  -> "no"
    [] state = "wantyes" -> IF yes THEN "yes" ELSE "no"
Answered(state, yes) == \/ state = "no" /\ yes
                        \/ state = "yes" /\ ~yes

\* Asking for a change of an option that nothing is pending about.
ServerAsks ==
  /\ open /\ asks < MaxAsks
  /\ asks' = asks + 1
  /\ \E ask \in session.asks :
       LET c == ask[1]  o == ask[2]
       IN /\ Says(<<Cmd(c, o)>>)
          /\ \/ /\ c \in {"WILL", "WONT"} /\ us[o] = IF c = "WILL" THEN "no" ELSE "yes"
                /\ us' = [us EXCEPT ![o] = IF c = "WILL" THEN "wantyes" ELSE "wantno"]
                /\ UNCHANGED him
             \/ /\ c \in {"DO", "DONT"} /\ him[o] = IF c = "DO" THEN "no" ELSE "yes"
                /\ him' = [him EXCEPT ![o] = IF c = "DO" THEN "wantyes" ELSE "wantno"]
                /\ UNCHANGED us
  /\ UNCHANGED <<out, server>> /\ OfServer

Hears ==
  /\ out # <<>>
  /\ out' = Tail(out)
  /\ OfServer /\ UNCHANGED asks
Heard == Head(out).m

\* An option it is glad of makes it go on: with the terminal's type, the pairs
\* of authentication, the ciphers it decrypts.
GoesOn(o, was, now) ==
  IF was = "yes" \/ now # "yes" THEN <<>>
  ELSE CASE o = "TTYPE"   -> <<Sub("TTYPE", "SEND", 0)>>
         [] o = "AUTH"    -> <<Sub("AUTH", "SEND", 0)>>
         [] o = "ENCRYPT" -> <<Sub("ENCRYPT", "SUPPORT", IF session.support THEN 1 ELSE 0)>>
         [] OTHER         -> <<>>

ServerAnswers ==
  /\ Hears /\ Heard.cmd # "SB"
  /\ LET o    == Heard.opt
         yes  == Heard.cmd \in {"WILL", "DO"}
         his  == Heard.cmd \in {"WILL", "WONT"}
         was  == IF his THEN him[o] ELSE us[o]
         now  == After(was, yes, o)
         reply == IF ~Answered(was, yes) THEN <<>>
                  ELSE <<Cmd(IF his THEN IF now = "yes" THEN "DO" ELSE "DONT"
                                    ELSE IF now = "yes" THEN "WILL" ELSE "WONT", o)>>
     IN /\ him' = IF his THEN [him EXCEPT ![o] = now] ELSE him
        /\ us'  = IF his THEN us ELSE [us EXCEPT ![o] = now]
        /\ Says(reply \o (IF his THEN GoesOn(o, was, now) ELSE <<>>))
  /\ UNCHANGED server

HearsSub(o, kind) ==
  /\ Hears
  /\ Heard.cmd = "SB" /\ Heard.opt = o /\ Heard.kind = kind
  /\ UNCHANGED <<us, him>>

HearsData ==
  /\ \/ HearsSub("TTYPE", "IS") \/ HearsSub("NAWS", "SIZE")
     \/ HearsSub("AUTH", "NAME") \/ HearsSub("ENCRYPT", "IS NULL")
  /\ UNCHANGED <<in, server>>

\* Authentication, up to the answer to the challenge.
HearsAuth ==
  \/ /\ HearsSub("AUTH", "IS NULL")
     /\ server' = [server EXCEPT !.stage = "refused"] /\ UNCHANGED in
  \/ /\ HearsSub("AUTH", "IS AUTH")
     /\ Says(<<Sub("AUTH", IF session.accepts THEN "ACCEPT" ELSE "REJECT", 0)>>)
     /\ server' = [server EXCEPT !.stage = IF session.accepts THEN "accepted" ELSE "refused"]
  \/ /\ HearsSub("AUTH", "CHALLENGE")
     /\ Says(<<Sub("AUTH", "RESPONSE", 0)>>)
     /\ server' = [server EXCEPT !.key = Heard.arg, !.stage = "keyed"]

\* The encryption of the two directions, each asked for by who decrypts it.
HearsEncrypt ==
  \/ /\ HearsSub("ENCRYPT", "SUPPORT")
     /\ Says(<<Sub("ENCRYPT", "IS", ServerIV)>>)
     /\ server' = [server EXCEPT !.encIV = ServerIV]
  \/ /\ HearsSub("ENCRYPT", "IS")
     /\ Says(<<Sub("ENCRYPT", "REPLY", 0)>>)
     /\ server' = [server EXCEPT !.decIV = Heard.arg]
  \/ /\ HearsSub("ENCRYPT", "REPLY")
     /\ Says(<<Sub("ENCRYPT", "ENC_KEYID", 0)>>) /\ UNCHANGED server
  \/ /\ HearsSub("ENCRYPT", "ENC_KEYID")
     /\ Says(<<Sub("ENCRYPT", "DEC_KEYID", 0)>>) /\ UNCHANGED server
  \/ /\ HearsSub("ENCRYPT", "DEC_KEYID")
     /\ Says(<<Sub("ENCRYPT", "START", 0)>>)
     /\ server' = [server EXCEPT !.ready = TRUE, !.encrypt = TRUE]
  \/ /\ HearsSub("ENCRYPT", "REQUEST_START")
     /\ Says(IF server.ready THEN <<Sub("ENCRYPT", "START", 0)>> ELSE <<>>)
     /\ server' = [server EXCEPT !.encrypt = server.ready]
  \/ /\ HearsSub("ENCRYPT", "START")
     /\ server' = [server EXCEPT !.decrypt = TRUE] /\ UNCHANGED in
  \/ /\ HearsSub("ENCRYPT", "END")
     /\ server' = [server EXCEPT !.decrypt = FALSE] /\ UNCHANGED in

\* It ends the encryption of both directions, and begins it again.
ServerStops ==
  /\ open /\ session.stops /\ server.encrypt /\ server.decrypt /\ server.stage = "keyed"
  /\ Says(<<Sub("ENCRYPT", "REQUEST_END", 0), Sub("ENCRYPT", "END", 0)>>)
  /\ server' = [server EXCEPT !.encrypt = FALSE, !.stage = "stopped"]
  /\ UNCHANGED <<out, us, him, asks>> /\ OfServer

ServerRestarts ==
  /\ open /\ server.stage = "stopped" /\ ~server.decrypt
  /\ Says(<<Sub("ENCRYPT", "REQUEST_START", 0), Sub("ENCRYPT", "START", 0)>>)
  /\ server' = [server EXCEPT !.encrypt = TRUE, !.stage = "restarted"]
  /\ UNCHANGED <<out, us, him, asks>> /\ OfServer

Server == \/ ServerAnswers \/ HearsData \/ HearsAuth \/ HearsEncrypt
          \/ ServerRestarts

Next == Program \/ Server \/ ServerAsks \/ ServerStops \/ Resize

Spec == Init /\ [][Next]_vars

\* Both ends take what has arrived, and a server that has stopped starts again.
Fairness == WF_vars(Program) /\ WF_vars(Server)
FairSpec == Spec /\ Fairness

-----------------------------------------------------------------------------
(* Properties *)

Quiet == in = <<>> /\ out = <<>>

\* While no reply has been refused, neither end takes noise for text: what the
\* program sends is encrypted exactly when the server decrypts it, with the same
\* key and vector, and what the server sends likewise, through START and END of
\* both directions.
BothReadable ==
  ~refused =>
    /\ out # <<>> => Head(out).cipher = ServerReading
    /\ open /\ in # <<>> => Head(in).cipher = OurReading

\* When nothing is on its way and was refused before, both ends hold the same of
\* every option that has been talked about, and nothing waits for an answer
\* (AuthOption alone leaves WILL, WONT and DONT without one), unless a command
\* of that option lost its IAC: even then what is on for the server is on for the
\* program.
OptionsAgree ==
  Quiet /\ open /\ ~refused =>
    \A o \in Option :
      /\ o \notin {"AUTH"} \cup eaten => us[o] \in {"yes", "no"} /\ him[o] \in {"yes", "no"}
      /\ o \in YesNo => /\ us[o]  = "yes" => doo[o]
                        /\ him[o] = "yes" => will[o]
                        /\ ~session.memory /\ o \notin eaten => /\ doo[o]  => us[o]  = "yes"
                                                                /\ will[o] => him[o] = "yes"

\* Both ends agree on how to read each other.
EndsAgree == BothReadable /\ OptionsAgree

Willing == /\ session.crypt /\ Fitting /\ session.ticket = "got"
           /\ session.user /\ session.accepts /\ session.support

Answers == ~refused /\ ~Overread /\ session.crypt

\* The exchange comes to an end, refused replies or not: the server is not left
\* waiting for an answer to its pairs, and where the user has a ticket and the
\* server is willing, both directions are encrypted, unless a reply was refused.
\* It is left waiting if no pair fits and none of another type follows.
Settles ==
  <>[](/\ Quiet
       /\ open /\ Answers /\ him["AUTH"] = "yes" => server.stage # "fresh"
       /\ Willing /\ ~refused /\ him["AUTH"] = "yes" =>
            encrypt /\ decrypt /\ server.encrypt /\ server.decrypt)

\* "Cannot do kerb4, one-way -> Send NULL authpair" (AUTHOPT.CPP:172): a server
\* is told when none of the pairs fits, unless a reply was refused.
NullIsSent ==
  open /\ ~Fitting /\ ~session.jam /\ him["AUTH"] = "yes" ~> server.stage = "refused"
=============================================================================
