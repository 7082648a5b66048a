----------------------------- MODULE FtpSecurity -----------------------------
(***************************************************************************)
(* The protection of an FTP session with Kerberos tickets: FTPWorker::Login *)
(* with the security handlers (FTPSecure, FTPSecureKRB4), the commands that *)
(* concern tickets at the server, and the sealing of commands and replies   *)
(* by krb_mk_safe, krb_mk_priv and their counterparts.                      *)
(*                                                                         *)
(* A seal names its sender's address and carries the direction in the sign  *)
(* of its time, which either end works out by comparing the two addresses   *)
(* it knows; behind a translator (NAT) the ends know different ones.        *)
(* Addresses stand by their rank in the order lsb_time compares them in.    *)
(* Replies come one by one; aborts and lost connections are FtpMachine's.   *)
(***************************************************************************)
EXTENDS Integers, Sequences

CONSTANTS
  Session,   \* addresses, settings, what the server does and the user wants
  MaxLogins, \* bound: how often the user has the tickets renewed
  None

\* What a command, a reply and the tickets in them are sealed with
Seals    == [type : {"plain", "safe", "private"}, key : Nat, from : Nat, dir : {-1, 0, 1}]
Verbs    == {"AUTH", "ADAT", "USER", "PASS", "ACCT", "KAUTH", "TICKET", "KLIST", "KDESTROY", "AFSLOG"}
Commands == [verb : Verbs, seal : Seals, data : Seals]
Replies  == [code : Nat, seal : Seals, data : Seals]

\* own, seen: the address of this machine, here and at the server; was: the one it
\* had when it got the tickets old tells of.  speaks: the address the server seals
\* with.  equiv: the lines of krb.equiv, each the addresses it covers.  lenient: the
\* server ignores addresses.  afs, foreign: the user's key is made the AFS way, in a
\* realm not the host's.  willing: passwords are right, boxes are answered yes, the
\* server lets in.
SecurityAssumption ==
  /\ MaxLogins \in Nat /\ None \notin Commands \cup Replies
  /\ \A s \in Session :
       /\ {s.own, s.seen, s.was, s.server, s.speaks} \subseteq Nat \ {0} /\ s.was # s.seen
       /\ {s.server, s.speaks} \cap {s.own, s.seen, s.was} = {}
       /\ s.equiv \subseteq SUBSET Nat
       /\ s.old \in {"none", "tgt", "service"} /\ s.service \in {"ftp", "rcmd"}
       /\ s.user \in {"named", "unnamed", "anonymous"}
       /\ s.jobs \in Seq({"kauth", "klist", "kdestroy", "afslog"})
       /\ {s.nat, s.reverse, s.lenient, s.mech, s.afs, s.foreign, s.willing} \subseteq BOOLEAN
       /\ s.firewall \in Nat

VARIABLES
  session,
  at,       \* where the machine is; a verb while its reply is due
  sec,      \* the handler of the worker
  stream,   \* which handler the stream uses: its "own", the worker's, one "gone"
  service,  \* the service a ticket is wanted for
  tickets,  \* addresses of the tickets and of the table per realm, and the last key
  passive,  \* PassiveMode
  retryOp,
  retries,
  jobs,     \* commands left
  told,     \* what the user was told of the last one
  out, in,  \* the command and the reply under way
  srv       \* the server: mechanism agreed, session key, what it did last

machine == <<at, sec, stream, service, passive, told>>
vars == <<session, machine, tickets, retryOp, retries, jobs, out, in, srv>>

-----------------------------------------------------------------------------
(* Seals *)

\* The order of addresses, compared from their last byte.  (Those of one machine
\* are told apart by their ports; the ends here are on two.)
krb_lsb_antinet_ulong_less(a, b) == a < b

\* The sign of the time.  A firewall reverses it when it lies
\* outside of the interval from src to dst.
lsb_time(src, dst, reverse, firewall) ==
  LET less(a, b) == krb_lsb_antinet_ulong_less(a, b)
      dir == IF less(src, dst) THEN -1 ELSE 1
      outside == firewall # 0 /\ less(src, dst) /\ (less(firewall, src) \/ less(dst, firewall))
  IN IF reverse \/ outside THEN -dir ELSE dir

Signed(src, dst) == lsb_time(src, dst, session.reverse, session.firewall)

\* A line ends at its newline only, a continued one goes on.
krb_equiv(a, b) == a = b \/ \E line \in session.equiv : {a, b} \subseteq line

Plain == [type |-> "plain", key |-> 0, from |-> 0, dir |-> 0]
krb_mk_safe(key, from, dir) == [type |-> "safe", key |-> key, from |-> from, dir |-> dir]
krb_mk_priv(key, from, dir) == [type |-> "private", key |-> key, from |-> from, dir |-> dir]

krb_rd_safe(seal, key, from, dir) ==
  seal.type = "safe" /\ krb_equiv(seal.from, from) /\ seal.dir = dir /\ seal.key = key

\* Under another key what is opened is noise.
krb_rd_priv(seal, key, from, dir) ==
  seal.type = "private" /\ seal.key = key /\ krb_equiv(seal.from, from) /\ seal.dir = dir

-----------------------------------------------------------------------------
(* Security handlers *)

NoHandler == [kind |-> "none", level |-> "none", key |-> 0, from |-> 0]
FTPSecure == [NoHandler EXCEPT !.kind = "plain"]
FTPSecureKRB4 == [NoHandler EXCEPT !.kind = "krb4"]

SetSecureLevel(h, sl) == [h EXCEPT !.level = sl]

IsAuthenticated(h) == h.level # "none"

\* The handler the control stream uses
security == IF stream = "worker" THEN sec ELSE FTPSecure

\* FTPSecure knows no levels, its commands are never sealed.
Encode(verb, sl) ==
  LET level == IF security.kind = "plain" THEN "none"
               ELSE IF sl = "default" THEN security.level ELSE sl
      dir == Signed(security.from, session.server)
  IN [verb |-> verb, data |-> Plain,
      seal |-> CASE level = "none"    -> Plain
                 [] level = "safe"    -> krb_mk_safe(security.key, security.from, dir)
                 [] level = "private" -> krb_mk_priv(security.key, security.from, dir)]

\* What Command returns for a reply.  One that cannot be opened keeps the code
\* of its seal, 631 or 632.
Decode(reply) ==
  LET dir == Signed(session.server, security.from) IN
  IF \/ reply.seal.type = "plain"
     \/ /\ security.kind = "krb4"
        /\ \/ krb_rd_safe(reply.seal, security.key, session.server, dir)
           \/ krb_rd_priv(reply.seal, security.key, session.server, dir)
  THEN reply.code ELSE 6

-----------------------------------------------------------------------------
(* Commands and replies *)

Init ==
  /\ session \in Session
  /\ at = "login" /\ sec = NoHandler /\ stream = "own" /\ service = "ftp"
  /\ tickets = [tgt |-> IF session.old = "none" THEN 0 ELSE session.was,
                svc |-> IF session.old = "service" THEN session.was ELSE 0,
                nat |-> IF session.nat /\ session.old # "none" THEN session.was ELSE 0,
                key |-> 1]
  /\ passive \in BOOLEAN \* SetupData->FTPUsePassive
  /\ retryOp = "abort" /\ retries = 0
  /\ jobs = session.jobs /\ told = FALSE
  /\ out = None /\ in = None
  /\ srv = [mech |-> FALSE, key |-> 0, did |-> FALSE]

Command(verb, sl) == at' = verb /\ out' = Encode(verb, sl)

Goto(place) == at' = place /\ UNCHANGED out

\* GetReply after the command; n is its result.
Replied(verb) == at = verb /\ in # None /\ in' = None
n == Decode(in)

UserAnd == UNCHANGED <<session, retryOp, retries, srv>>

-----------------------------------------------------------------------------
(* Login *)

\* The old handler is deleted.  Anonymous users need none; else the server is
\* asked for its mechanism.
Login ==
  /\ at = "login"
  /\ IF session.user = "anonymous"
     THEN sec' = FTPSecure /\ stream' = "worker" /\ Goto("name")
     ELSE /\ stream' = IF stream = "worker" THEN "gone" ELSE stream
          /\ sec' = NoHandler /\ Command("AUTH", "default")
  /\ service' = "ftp"
  /\ UNCHANGED <<session, tickets, passive, retryOp, retries, jobs, told, in, srv>>

\* GetSecurityHandler.  Without protection Authenticate succeeds.
GetSecurityHandler ==
  /\ Replied("AUTH")
  /\ IF n = 3 THEN sec' = FTPSecureKRB4 /\ Goto("ticket") /\ UNCHANGED stream
              ELSE sec' = FTPSecure /\ stream' = "worker" /\ Goto("name")
  /\ UserAnd /\ UNCHANGED <<tickets, service, passive, jobs, told>>

\* MakeAuth: a ticket from the file or the server, which refuses one that was
\* got with another address and does not know every service.
MakeAuth ==
  LET held == tickets.svc # 0 /\ service = session.service
      got  == held \/ (tickets.tgt = session.seen /\ service = session.service)
      unknown == ~got /\ tickets.tgt = session.seen
  IN /\ at = "ticket"
     /\ IF tickets.tgt = 0 THEN Goto("dialog") /\ UNCHANGED <<service, tickets>>
        ELSE IF got THEN /\ Goto("have") /\ UNCHANGED service
                         /\ tickets' = IF held THEN tickets ELSE
                              [tickets EXCEPT !.svc = session.seen, !.key = @ + 1]
        ELSE IF unknown /\ service = "ftp" THEN Goto("ticket") /\ service' = "rcmd" /\ UNCHANGED tickets
        ELSE Goto("sorry") /\ UNCHANGED <<service, tickets>>
     /\ UserAnd /\ UNCHANGED <<sec, stream, passive, jobs, told, in>>

\* The address others see, when the realm has none yet: it stands in the user's
\* ticket for himself, which the DES key of the password opens.
wkrb_add_our_ip_for_realm(nat) == IF ~session.afs /\ nat = 0 THEN session.seen ELSE nat

\* The login dialog: cancelled, a wrong password, or a right one
Dialog ==
  /\ at = "dialog"
  /\ \/ ~session.willing /\ Goto("refused") /\ UNCHANGED tickets
     \/ ~session.willing /\ Goto("sorry") /\ UNCHANGED tickets
     \/ /\ Goto("ticket")
        /\ tickets' = [tickets EXCEPT !.tgt = session.seen,
             !.nat = IF session.nat THEN wkrb_add_our_ip_for_realm(@) ELSE @]
  /\ UserAnd /\ UNCHANGED <<sec, stream, service, passive, jobs, told, in>>

\* Authenticate, with the address the server is thought to see.
Authenticate ==
  LET known == session.nat /\ tickets.nat # 0 IN
  /\ at = "have"
  /\ sec' = [sec EXCEPT !.key = tickets.key,
                        !.from = IF known THEN tickets.nat ELSE session.own]
  /\ passive' = (passive \/ (known /\ tickets.nat # session.own))
  /\ at' = "ADAT"
  /\ out' = [Encode("ADAT", "default") EXCEPT
               !.data = [Plain EXCEPT !.key = tickets.key, !.from = tickets.svc]]
  /\ UserAnd /\ UNCHANGED <<stream, service, tickets, jobs, told, in>>

\* A slip: the stream goes on with the handler it was made with.
AssignNothing(reply) ==
  IF krb_rd_safe(reply.data, sec.key, session.server, Signed(session.server, sec.from))
  THEN sec' = SetSecureLevel(sec, "safe") /\ UNCHANGED stream /\ Goto("name")
  ELSE UNCHANGED <<sec, stream>> /\ Goto("refused")

\* The server's half of the exchange is checked, which offers no retry;
\* then the stream gets the handler.
AssignSecurity(reply) ==
  IF krb_rd_safe(reply.data, sec.key, session.server, Signed(session.server, sec.from))
  THEN sec' = SetSecureLevel(sec, "safe") /\ stream' = "worker" /\ Goto("name")
  ELSE UNCHANGED <<sec, stream>> /\ Goto("refused")

Authenticated ==
  /\ Replied("ADAT")
  /\ IF n = 2 THEN AssignSecurity(in) ELSE Goto("sorry") /\ UNCHANGED <<sec, stream>>
  /\ UserAnd /\ UNCHANGED <<service, tickets, passive, jobs, told>>

OnlyAt == UNCHANGED <<session, sec, stream, service, tickets, passive, jobs, told, srv>>

\* The name comes with the connection or from the ticket, else it is asked for.
Named == session.user # "unnamed" \/ IsAuthenticated(sec)

Name ==
  /\ at = "name" /\ Named
  /\ Command("USER", "default") /\ OnlyAt /\ UNCHANGED <<retryOp, retries, in>>

\* What is asked for with a box: answered, or cancelled
GetUserPrompt ==
  /\ \/ at = "name" /\ ~Named /\ Command("USER", "default")
     \/ at = "password" /\ Command("PASS", "default")
     \/ at = "account" /\ Command("ACCT", "default")
     \/ /\ at \in {"password", "account"} \/ (at = "name" /\ ~Named)
        /\ ~session.willing /\ Goto("refused")
  /\ OnlyAt /\ UNCHANGED <<retryOp, retries, in>>

\* Who has authenticated needs no password.
LoginReplied ==
  /\ \/ /\ Replied("USER")
        /\ IF n = 3 /\ IsAuthenticated(sec) THEN Command("PASS", "default")
           ELSE Goto(CASE n = 3 -> "password" [] n = 2 -> "in" [] OTHER -> "refused")
     \/ /\ Replied("PASS")
        /\ Goto(CASE n = 3 -> "account" [] n = 2 -> "in" [] OTHER -> "refused")
     \/ Replied("ACCT") /\ Goto(IF n = 2 THEN "in" ELSE "refused")
  /\ OnlyAt /\ UNCHANGED <<retryOp, retries>>

RetryConnection ==
  /\ at = "sorry" /\ retryOp' = "wait" /\ Goto("refused")
  /\ OnlyAt /\ UNCHANGED <<retries, in>>

\* Run waits for the user's answer when Login has failed.
LoginFailed ==
  /\ at = "refused"
  /\ \/ retryOp = "retry" /\ retryOp' = "abort" /\ Goto("login")
     \/ retryOp = "abort" /\ UNCHANGED retryOp /\ Goto("closed")
  /\ OnlyAt /\ UNCHANGED <<retries, in>>

\* A slip: the table of addresses keeps what it has.
DestroyedOnly == [tickets EXCEPT !.tgt = 0, !.svc = 0]

\* wkrb_dest_tkt_realm
Destroyed == [tickets EXCEPT !.tgt = 0, !.svc = 0, !.nat = 0]

\* The box of Reopen
Reopen ==
  /\ retryOp = "wait"
  /\ \/ /\ retries < MaxLogins /\ retryOp' = "retry" /\ retries' = retries + 1
        /\ tickets' = Destroyed
     \/ /\ ~session.willing \/ retries = MaxLogins
        /\ retryOp' = "abort" /\ UNCHANGED <<retries, tickets>>
  /\ UNCHANGED <<session, machine, jobs, out, in, srv>>

-----------------------------------------------------------------------------
(* Tickets at the server *)

Tell(ok) == at' = "told" /\ told' = ok

\* A command of the parser.  Only afslog is sent without protection.
Parse ==
  /\ at = "in" /\ jobs # <<>> /\ jobs' = Tail(jobs)
  /\ LET protected == sec.kind = "krb4" IN
     CASE Head(jobs) = "afslog"             -> Command("AFSLOG", "default") /\ UNCHANGED told
       [] ~protected                        -> Tell(FALSE) /\ UNCHANGED out
       [] protected /\ Head(jobs) = "kauth" -> Command("KAUTH", "private") /\ UNCHANGED told
       [] protected /\ Head(jobs) = "klist" -> Command("KLIST", "default") /\ UNCHANGED told
       [] OTHER                             -> Command("KDESTROY", "default") /\ UNCHANGED told
  /\ srv' = [srv EXCEPT !.did = FALSE]
  /\ UNCHANGED <<session, sec, stream, service, tickets, passive, retryOp, retries, in>>

\* A slip: only the key of the first kind is tried.
OpensDes == ~session.afs

\* RemoteKauth: what the server has sent is opened with the DES key of the
\* password, then with the AFS key for the host's realm.
Opens == ~session.afs \/ ~session.foreign

Prompted ==
  /\ at = "kauthpass"
  /\ \/ /\ at' = "TICKET"
        /\ \E right \in {TRUE, session.willing} :
             out' = [Encode("TICKET", "private") EXCEPT
                       !.data = IF right /\ Opens THEN [Plain EXCEPT !.key = 1] ELSE Plain]
        /\ UNCHANGED told
     \/ ~session.willing /\ Tell(FALSE) /\ UNCHANGED out
  /\ UserAnd /\ UNCHANGED <<sec, stream, service, tickets, passive, jobs, in>>

\* What a command returns is what the parser tells.
JobReplied ==
  /\ \/ Replied("KAUTH") /\ IF n = 3 THEN at' = "kauthpass" /\ UNCHANGED told ELSE Tell(FALSE)
     \/ \E verb \in {"TICKET", "KLIST", "KDESTROY", "AFSLOG"} : Replied(verb) /\ Tell(n = 2)
  /\ UserAnd /\ UNCHANGED <<sec, stream, service, tickets, passive, jobs, out>>

Told ==
  /\ at = "told" /\ Goto("in")
  /\ OnlyAt /\ UNCHANGED <<retryOp, retries, in>>

-----------------------------------------------------------------------------
(* The server *)

\* Its side of a seal
Reads(seal) ==
  LET from == IF session.lenient THEN seal.from ELSE session.seen
      dir == lsb_time(session.seen, session.speaks, FALSE, 0)
  IN srv.key # 0 /\ seal.from = from /\ (krb_rd_safe(seal, srv.key, from, dir) \/ krb_rd_priv(seal, srv.key, from, dir))

Seal(type, key) ==
  LET dir == lsb_time(session.speaks, session.seen, FALSE, 0) IN
  CASE type = "plain"   -> Plain
    [] type = "safe"    -> krb_mk_safe(key, session.speaks, dir)
    [] type = "private" -> krb_mk_priv(key, session.speaks, dir)

Says(type, code) == in' = [code |-> code, seal |-> Seal(type, srv.key), data |-> Plain]

Codes(verb) ==
  CASE verb = "USER" -> IF session.willing THEN {2, 3} ELSE {2, 3, 5}
    [] verb = "PASS" -> IF session.willing THEN {2, 3} ELSE {2, 3, 5}
    [] verb = "ACCT" -> IF session.willing THEN {2} ELSE {2, 5}
    [] verb = "AFSLOG" -> {2, 5}
    [] OTHER -> {2}

\* Its tickets are for those who have authenticated and ask in private.
Serve ==
  /\ out # None /\ out' = None
  /\ LET verb == out.verb type == out.seal.type IN
     \/ /\ verb = "AUTH"
        /\ srv' = [srv EXCEPT !.mech = session.mech, !.key = 0]
        /\ Says("plain", IF session.mech THEN 3 ELSE 5)
     \/ /\ verb = "ADAT"
        /\ IF srv.mech /\ (session.lenient \/ out.data.from = session.seen)
           THEN /\ srv' = [srv EXCEPT !.key = out.data.key]
                /\ in' = [code |-> 2, seal |-> Plain, data |-> Seal("safe", out.data.key)]
           ELSE UNCHANGED srv /\ Says("plain", 5)
     \/ /\ verb \notin {"AUTH", "ADAT"}
        /\ type # "plain" /\ ~Reads(out.seal) /\ UNCHANGED srv /\ Says("plain", 5)
     \/ /\ verb \in {"KAUTH", "TICKET"} /\ (type = "plain" \/ Reads(out.seal))
        /\ LET code == IF type # "private" \/ (verb = "TICKET" /\ out.data = Plain) THEN 5
                       ELSE IF verb = "KAUTH" THEN 3 ELSE 2
           IN srv' = [srv EXCEPT !.did = code = 2] /\ Says(type, code)
     \/ /\ verb \notin {"AUTH", "ADAT", "KAUTH", "TICKET"} /\ (type = "plain" \/ Reads(out.seal))
        /\ \E code \in Codes(verb) :
             srv' = [srv EXCEPT !.did = code = 2 /\ verb \notin {"USER", "PASS", "ACCT"}] /\ Says(type, code)
  /\ UNCHANGED <<session, machine, tickets, retryOp, retries, jobs>>

-----------------------------------------------------------------------------

Machine == \/ Login \/ GetSecurityHandler \/ MakeAuth \/ Authenticate \/ Authenticated
           \/ Name \/ LoginReplied \/ RetryConnection \/ LoginFailed \/ JobReplied \/ Told

User == Dialog \/ GetUserPrompt \/ Reopen \/ Prompted

Next == Machine \/ User \/ Parse \/ Serve

Spec == Init /\ [][Next]_vars

\* The machine's thread runs, boxes are answered and the server answers.
Fairness == WF_vars(Machine) /\ WF_vars(User) /\ WF_vars(Serve)

-----------------------------------------------------------------------------
(* Properties *)

LoggedIn == at \in {"in", "told", "kauthpass", "KAUTH", "TICKET", "KLIST", "KDESTROY", "AFSLOG"}

\* Once Login has succeeded the ends understand each other, whatever lies
\* between them: they hold one key and open each other's seals, a command is
\* sealed as its handler and its kind require, and no command or reply ever
\* goes through a handler that is deleted.  Who has found out that others see
\* another address of his leaves connecting to the server.
Understood ==
  /\ LoggedIn /\ out # None =>
       IF IsAuthenticated(sec)
       THEN /\ Reads(out.seal) /\ srv.key = sec.key
            /\ out.seal.type = IF out.verb \in {"KAUTH", "TICKET"} THEN "private" ELSE "safe"
       ELSE out.seal = Plain
  /\ LoggedIn /\ in # None => Decode(in) = in.code
  /\ stream # "gone"
  /\ IsAuthenticated(sec) /\ sec.from # session.own => passive

\* The user is told of a command what became of it at the server, and the right
\* password gets him tickets there, however his key is made; but not a key made
\* the AFS way in another realm than the host's, which RemoteKauth never tries.
ToldIsTrue ==
  /\ at = "told" => told = srv.did
  /\ at = "TICKET" /\ session.willing /\ ~(session.afs /\ session.foreign) =>
       /\ out # None => out.data # Plain
       /\ in # None => in.code = 2

\* The addresses can be made to agree: there is no translator, or it is told of
\* and the address was found.  (A lenient server takes an old ticket, and the
\* old address that goes with it is noticed too late for a retry.)
Agreeable == /\ session.mech /\ session.user # "anonymous" /\ session.willing
             /\ ~session.reverse /\ session.firewall = 0
             /\ krb_equiv(session.speaks, session.server)
             /\ session.speaks < session.seen <=> session.server < session.seen
             /\ session.own = session.seen \/ (session.nat /\ ~session.afs)
             /\ ~(session.lenient /\ session.nat /\ session.old = "service")

\* Every login ends, and tickets that were got elsewhere do not stand in the
\* way of one: renewing them once is enough to be let in, authenticated.
LoginEnds ==
  /\ <>(LoggedIn \/ at = "closed")
  /\ Agreeable => <>(LoggedIn /\ IsAuthenticated(sec))
=============================================================================
