---------------------------- MODULE KdcExchange -----------------------------
(***************************************************************************)
(* A program and the key servers of a realm: the list of hosts, a request    *)
(* that goes round them, the initial ticket under the three ways to make a   *)
(* key of a password, and the dialog that changes a password through the     *)
(* administration server.                                                    *)
(***************************************************************************)
EXTENDS Integers, Sequences, SequencesExt, FiniteSets

CONSTANTS
  CLIENT_KRB_RETRY,  \* rounds after the first
  KRB_PORT,
  MaxRequests,       \* bound: logins and attempts to change the password
  None,              \* nothing: a value of its own
  Session

Passwords == {"old", "new", "weak"}

\* registry, srv: what is set up and what the name servers know of a realm.
\* guess: kerberos.REALM and kerberos-1.REALM and so on.  net: the addresses of
\* a name.  proxy, nat, timesync, skewed: settings, and a clock that is wrong.
\* fates: what may happen to a request.  realms: those logged in to, change:
\* whether the password is changed.  dns: whether names are found at first.
KdcAssumption ==
  /\ CLIENT_KRB_RETRY \in Nat /\ KRB_PORT \in Nat /\ MaxRequests \in Nat
  /\ None \notin {"changed", "lost", "noconn"} /\ None \notin [old : Passwords, new : Passwords]
  /\ \A s \in Session :
       /\ DOMAIN s = {"registry", "srv", "guess", "net", "proxy", "nat", "timesync", "skewed", "fates", "realms",
                      "change", "dns", "kind"}
       /\ s.kind \in {"des", "afs", "v5"}

VARIABLES
  session,
  dns,          \* names can be looked up
  orealm, hosts,\* the list of hosts and the realm it is of
  at,           \* where the program is
  req,          \* the request that is under way
  dialog,       \* what the user has typed: the old password, the new one, and it again
  link,         \* the connection to the administration server, its buffers and secrets
  wild,         \* variables that were read without a value
  db,           \* the password as the servers have it, and how its key was made
  told, count

vars == <<session, dns, orealm, hosts, at, req, dialog, link, wild, db, told, count>>

-----------------------------------------------------------------------------
(* The hosts of a realm *)

Resolves(name) == dns /\ session.net[name] # <<>>

parse_address(h) ==
  [name |-> h.name, proto |-> h.proto, admin |-> h.admin,
   port |-> IF h.port # None THEN h.port ELSE IF h.proto = "http" THEN 80 ELSE KRB_PORT]

Known(list, h) == \E i \in 1..Len(list) : list[i].name = h.name /\ list[i].proto = h.proto /\ list[i].port = h.port

add_host(list, h, validate) ==
  IF Known(list, parse_address(h)) \/ (validate /\ ~Resolves(h.name)) THEN list ELSE Append(list, parse_address(h))

Guess(realm, i) == [name |-> session.guess[realm][i], proto |-> "udp", port |-> None, admin |-> i = 1]

\* The numbered names, up to the first that is not there.
Numbered(list, realm) ==
  LET f[i \in 2..(Len(session.guess[realm]) + 1)] ==
        IF i > Len(session.guess[realm]) \/ \E j \in 2..i : ~Resolves(session.guess[realm][j]) THEN <<>>
        ELSE <<Guess(realm, i)>> \o f[i + 1]
  IN list \o SelectSeq(f[2], LAMBDA h : ~Known(list, parse_address(h)))

All(list, more) == FoldLeft(LAMBDA l, h : add_host(l, h, FALSE), list, more)

HostsOf(realm) ==
  LET set == All(<<>>, session.registry[realm])
      found == IF dns THEN All(set, session.srv[realm]) ELSE set
      guessed == add_host(found, Guess(realm, 1), TRUE)
      rest == Numbered(guessed, realm)
  IN [i \in 1..Len(rest) |-> parse_address(rest[i])]

\* The list is made when another realm is asked for, and then kept.
Lookup(realm) ==
  /\ orealm' = realm
  /\ hosts' = IF realm = orealm THEN hosts ELSE HostsOf(realm)

krb_get_host(list, nth, admin) ==
  LET fit == IF admin THEN SelectSeq(list, LAMBDA h : h.admin) ELSE list
  IN IF nth <= Len(fit) THEN fit[nth] ELSE None

-----------------------------------------------------------------------------
(* A request.  n: the addresses collected so far, asked: how often each was  *)
(* asked, addrs: those of the present host that are left.                    *)

Request(realm, service, pw) ==
  [realm |-> realm, service |-> service, pw |-> pw, i |-> 1, addrs |-> <<>>, n |-> <<>>, asked |-> <<>>,
   nohost |-> TRUE, round |-> 0, j |-> 0, form |-> None, key |-> None, result |-> None]

Target(addr, h) == [addr |-> addr, proto |-> h.proto, port |-> h.port]

Collect(r, t) == [r EXCEPT !.n = Append(@, t), !.asked = Append(@, 0), !.j = Len(r.n) + 1]

Proxied(h) == h.proto = "http" /\ session.proxy

\* The next host is taken from the list.  A name a proxy is to look up counts
\* as no host found.
NextHost ==
  /\ at = "host" /\ req.addrs = <<>>
  /\ Lookup(req.realm)
  /\ LET h == krb_get_host(hosts', req.i, FALSE)
     IN CASE h = None /\ req.nohost -> req' = [req EXCEPT !.result = "cant"] /\ at' = "result"
          [] h = None /\ ~req.nohost -> req' = [req EXCEPT !.round = 1, !.j = 1] /\ at' = "send"
          [] h # None /\ Proxied(h) -> req' = [Collect(req, Target(h.name, h)) EXCEPT !.i = @ + 1] /\ at' = "send"
          [] h # None /\ ~Proxied(h) ->
               /\ req' = [req EXCEPT !.i = @ + 1, !.nohost = @ /\ ~Resolves(h.name),
                                     !.addrs = IF Resolves(h.name)
                                       THEN [k \in 1..Len(session.net[h.name]) |-> Target(session.net[h.name][k], h)] ELSE <<>>]
               /\ at' = "host"
  /\ UNCHANGED <<session, dns, dialog, link, wild, db, told, count>>

NextAddress ==
  /\ at = "host" /\ req.addrs # <<>>
  /\ req' = [Collect(req, Head(req.addrs)) EXCEPT !.addrs = Tail(@)]
  /\ at' = "send"
  /\ UNCHANGED <<session, dns, orealm, hosts, dialog, link, wild, db, told, count>>

\* A slip: the last host is left out of the rounds.
AfterSilenceShort(r) ==
  IF r.round = 0 THEN [req |-> r, at |-> "host"]
  ELSE IF r.j + 1 < Len(r.n) THEN [req |-> [r EXCEPT !.j = @ + 1], at |-> "send"]
  ELSE IF r.round < CLIENT_KRB_RETRY THEN [req |-> [r EXCEPT !.j = 1, !.round = @ + 1], at |-> "send"]
  ELSE [req |-> [r EXCEPT !.result = "retry"], at |-> "result"]

AfterSilence(r) ==
  IF r.round = 0 THEN [req |-> r, at |-> "host"]
  ELSE IF r.j < Len(r.n) THEN [req |-> [r EXCEPT !.j = @ + 1], at |-> "send"]
  ELSE IF r.round < CLIENT_KRB_RETRY THEN [req |-> [r EXCEPT !.j = 1, !.round = @ + 1], at |-> "send"]
  ELSE [req |-> [r EXCEPT !.result = "retry"], at |-> "result"]

Asked == [req EXCEPT !.asked[req.j] = @ + 1]

\* Refused, not sent, or no answer in time.  An http answer that ends in its
\* header is no answer.
NoAnswer ==
  /\ at = "send"
  /\ LET next == AfterSilence(Asked) IN req' = next.req /\ at' = next.at
  /\ UNCHANGED <<session, dns, orealm, hosts, dialog, link, wild, db, told, count>>

\* form: an answer or an error of the server, one cut short, none but the end
\* of the connection, or a page a proxy made.
Answer(form) ==
  /\ at = "send" /\ form \in session.fates
  /\ CASE form \in {"whole", "error"} -> TRUE
       [] form = "cut" -> req.n[req.j].proto # "udp"
       [] form = "empty" -> req.n[req.j].proto = "tcp"
       [] form = "page" -> req.n[req.j].proto = "http"
  /\ req' = [Asked EXCEPT !.form = form, !.key = db]
  /\ at' = "decode"
  /\ UNCHANGED <<session, dns, orealm, hosts, dialog, link, wild, db, told, count>>

-----------------------------------------------------------------------------
(* The initial ticket *)

\* What the decoding under one kind of key may say.  A wrong key makes noise of
\* it, most often too long a string; the tail of a cut answer is noise.
Fits(kind) == req.key = [pw |-> req.pw, kind |-> kind]

krb_decode_as_rep(kind) ==
  CASE req.form = "whole" /\ Fits(kind) -> IF session.skewed /\ ~session.timesync THEN {"time"} ELSE {"ok"}
    [] req.form = "cut" /\ Fits(kind) -> {"badpw", "err"} \cup IF session.timesync THEN {"ok"} ELSE {"time"}
    [] OTHER -> {"badpw", "err"}

\* The last verdict that is not a bad password wins.
Verdict(codes) ==
  IF \E i \in 1..3 : codes[i] = "ok" THEN "ok"
  ELSE LET told3 == {i \in 1..3 : codes[i] # "badpw"}
       IN IF told3 = {} THEN "badpw" ELSE codes[CHOOSE i \in told3 : \A j \in told3 : j <= i]

\* An empty answer leaves the packet as the stack was.
Cipher == CASE req.form = "error" -> {"kerror"} [] req.form = "page" -> {"prot"}
            [] req.form = "empty" -> {"prot", "kerror", "ok"} [] req.form \in {"whole", "cut"} -> {"ok"}

GetPwInTkt ==
  /\ at = "decode"
  /\ at' = "result"
  /\ \/ \E code \in Cipher \ {"ok"} : req' = [req EXCEPT !.result = code]
     \/ /\ "ok" \in Cipher
        /\ \E a \in krb_decode_as_rep("des"), b \in krb_decode_as_rep("afs"), c \in krb_decode_as_rep("v5") :
             req' = [req EXCEPT !.result = Verdict(<<a, b, c>>)]
  /\ wild' = IF req.form = "empty" THEN wild \cup {"reply"} ELSE wild
  /\ UNCHANGED <<session, dns, orealm, hosts, dialog, link, db, told, count>>

-----------------------------------------------------------------------------
(* The user *)

NoLink == [fd |-> FALSE, secrets |-> FALSE, act |-> 0, priv |-> 0, ret |-> 0]

Counted == count < MaxRequests /\ count' = count + 1 /\ UNCHANGED session

\* The network is dialled up.
NetworkUp == at = "idle" /\ ~dns /\ dns' = TRUE /\ UNCHANGED <<session, orealm, hosts, at, req, dialog, link, wild, db, told, count>>

Login(realm, pw) ==
  /\ at = "idle" /\ realm \in session.realms /\ Counted
  /\ req' = Request(realm, "krbtgt", pw) /\ at' = "host" /\ told' = None
  /\ UNCHANGED <<dns, orealm, hosts, dialog, link, wild, db>>

CmCPW == at = "idle" /\ session.change /\ at' = "dialog" /\ told' = None
         /\ UNCHANGED <<session, dns, orealm, hosts, req, dialog, link, wild, db, count>>

Weak(pw) == pw = "weak"

Realm == CHOOSE r \in session.realms : TRUE

\* OK in the dialog.
CloseWindow(old, new, ver) ==
  /\ at = "dialog" /\ Counted
  /\ IF Weak(new) \/ new # ver
     THEN told' = (IF Weak(new) THEN "weak" ELSE "differ") /\ dialog' = None /\ UNCHANGED <<at, req>>
     ELSE /\ dialog' = [old |-> old, new |-> new] /\ told' = None
          /\ req' = Request(Realm, IF session.nat THEN "krbtgt" ELSE "changepw", old) /\ at' = "host"
  /\ UNCHANGED <<dns, orealm, hosts, link, wild, db>>

CancelDialog == at = "dialog" /\ at' = "idle" /\ UNCHANGED <<session, dns, orealm, hosts, req, dialog, link, wild, db, told, count>>

\* The end of a request.
LoggedIn ==
  /\ at = "result" /\ dialog = None
  /\ at' = "idle" /\ told' = req.result
  /\ UNCHANGED <<session, dns, orealm, hosts, req, dialog, link, wild, db, count>>

Error(what) == told' = what /\ at' = "dialog" /\ dialog' = None

Requested ==
  /\ at = "result" /\ dialog # None
  /\ CASE req.result # "ok" -> Error(req.result) /\ UNCHANGED req
       [] req.result = "ok" /\ req.service = "krbtgt" ->
            req' = Request(req.realm, "changepw", dialog.old) /\ at' = "host" /\ UNCHANGED <<told, dialog>>
       [] req.result = "ok" /\ req.service = "changepw" -> at' = "link" /\ UNCHANGED <<req, told, dialog>>
  /\ UNCHANGED <<session, dns, orealm, hosts, link, wild, db, count>>

-----------------------------------------------------------------------------
(* The administration server *)

\* Only the first host that is marked is ever tried.
kadm_init_link ==
  /\ at = "link"
  /\ Lookup(req.realm)
  /\ LET h == krb_get_host(hosts', 1, TRUE)
     IN IF h = None \/ (h # None /\ ~Resolves(h.name)) THEN Error("init") ELSE at' = "conn" /\ UNCHANGED <<told, dialog>>
  /\ UNCHANGED <<session, dns, req, link, wild, db, count>>

\* pw_msg has no value when the connection fails, and Error looks at it.
kadm_cli_conn ==
  /\ at = "conn"
  /\ \/ link' = [link EXCEPT !.fd = TRUE] /\ at' = "send_pw" /\ UNCHANGED <<told, dialog, wild>>
     \/ Error("noconn") /\ wild' = wild \cup {"pw_msg"} /\ UNCHANGED link
  /\ UNCHANGED <<session, dns, orealm, hosts, req, db, count>>

\* Keys and buffers; priv_pak is freed once it is copied.
kadm_cli_send ==
  /\ at = "send_pw"
  /\ link' = [link EXCEPT !.secrets = TRUE, !.act = 1]
  /\ at' = "out"
  /\ UNCHANGED <<session, dns, orealm, hosts, req, dialog, wild, db, told, count>>

\* The buffer of the answer is freed, the keys are cleared, the socket closed.
Cleared(l, fate) == [l EXCEPT !.secrets = FALSE, !.ret = 0, !.fd = FALSE]

Change == db' = [pw |-> dialog.new, kind |-> "des"]

\* The connection is lost, before the server has the request, or behind: then
\* priv_pak is freed a second time, and the length of the answer has no value.
Lost ==
  /\ at = "out"
  /\ Change \/ UNCHANGED db
  /\ link' = [Cleared(link, "lost") EXCEPT !.act = 0, !.priv = @ - 1]
  /\ wild' = wild \cup {"ret_sz"}
  /\ Error("lost")
  /\ UNCHANGED <<session, dns, orealm, hosts, req, count>>

\* A slip: a packet that is not encrypted is taken for the answer.
ReplyHasty(fate) ==
  /\ at = "out"
  /\ IF fate \in {"refused", "ulose"} THEN UNCHANGED db
     ELSE IF fate = "done" THEN Change ELSE Change \/ UNCHANGED db
  /\ link' = Cleared([link EXCEPT !.act = 0, !.ret = 1], fate)
  /\ IF fate \in {"done", "ulose"} THEN told' = "changed" /\ at' = "idle" /\ dialog' = None ELSE Error(fate)
  /\ UNCHANGED <<session, dns, orealm, hosts, req, wild, count>>

\* fate: done, refused by the server with a text, refused by a packet that is
\* not encrypted, or an answer krb_rd_priv does not take.
Reply(fate) ==
  /\ at = "out"
  /\ IF fate \in {"refused", "ulose"} THEN UNCHANGED db
     ELSE IF fate = "done" THEN Change ELSE Change \/ UNCHANGED db
  /\ link' = Cleared([link EXCEPT !.act = 0, !.ret = 1], fate)
  /\ IF fate = "done" THEN told' = "changed" /\ at' = "idle" /\ dialog' = None ELSE Error(fate)
  /\ UNCHANGED <<session, dns, orealm, hosts, req, wild, count>>

-----------------------------------------------------------------------------

Init ==
  /\ session \in Session
  /\ dns = session.dns /\ orealm = None /\ hosts = <<>>
  /\ at = "idle" /\ req = None /\ dialog = None /\ link = NoLink /\ wild = {}
  /\ db = [pw |-> "old", kind |-> session.kind] /\ told = None /\ count = 0

Ask == NextHost \/ NextAddress \/ NoAnswer \/ GetPwInTkt \/ \E f \in {"whole", "error", "cut", "empty", "page"} : Answer(f)

Administer ==
  kadm_init_link \/ kadm_cli_conn \/ kadm_cli_send \/ Lost \/ \E f \in {"done", "refused", "ulose", "garbled"} : Reply(f)

Next ==
  \/ Ask \/ LoggedIn \/ Requested \/ Administer
  \/ NetworkUp \/ CmCPW \/ CancelDialog
  \/ \E r \in session.realms, pw \in {"old", "new"} : Login(r, pw)
  \/ \E old, ver \in {"old", "new"}, new \in Passwords : CloseWindow(old, new, ver)

Spec == Init /\ [][Next]_vars

-----------------------------------------------------------------------------
(* Properties *)

Ended(result) == at = "result" /\ req.result = result

\* Where a request is to go: every address of every host in the list, or the
\* name itself if a proxy looks it up.
Reachable ==
  FlattenSeq([i \in 1..Len(hosts) |->
    LET h == hosts[i]
    IN IF Proxied(h) THEN <<Target(h.name, h)>>
       ELSE IF ~Resolves(h.name) THEN <<>>
       ELSE [k \in 1..Len(session.net[h.name]) |-> Target(session.net[h.name][k], h)]])

\* A request is given up only when every address of every host of the realm has
\* been asked, in the order of the list, once and in each of the rounds; and
\* "cannot" is said only where no host was found but those behind a proxy, which
\* are not counted.  What those get is the exception (TriedAgain).
AskedEnough ==
  /\ Ended("retry") => req.n = Reachable /\ \A x \in DOMAIN req.asked : req.asked[x] = 1 + CLIENT_KRB_RETRY
  /\ Ended("cant") => \A x \in DOMAIN Reachable : Reachable[x].proto = "http" /\ session.proxy
  /\ (req # None /\ req.form # None) => orealm = req.realm

\* Several attempts are made for each server before a request is given up (the
\* comment at SEND_TO_KDC.C:58).
TriedAgain ==
  Ended("retry") \/ Ended("cant") => \A x \in DOMAIN req.asked : req.asked[x] = 1 + CLIENT_KRB_RETRY

\* A ticket is taken only from an answer under the password that was given, and
\* a bad password is told only of one that is, whichever way the server made its
\* key.  An answer that was cut short or empty may be taken for anything, and the
\* noise under a wrong key may hide that the clock is wrong.
VerdictIsRight ==
  /\ (Ended("ok") /\ req.form = "whole") => req.key.pw = req.pw
  /\ Ended("ok") => req.form # "error" /\ req.form # "page"
  /\ (Ended("badpw") \/ Ended("err")) => req.form \in {"cut", "empty"} \/ req.key.pw # req.pw \/ (Ended("err") /\ session.skewed)
  /\ Ended("time") => session.skewed \/ req.form = "cut"

\* When the user is back, the connection to the administration server is
\* closed, no key of it is left, every buffer is freed once, and nothing without
\* a value was looked at; but a lost connection frees one a second time, and
\* reads the length of the answer, and a refused one the text of the answer.
LeftClean ==
  at \in {"idle", "dialog"} =>
    /\ ~link.fd /\ ~link.secrets /\ link.act = 0 /\ link.ret = 0
    /\ (link.priv # 0 <=> "ret_sz" \in wild) /\ (told = "lost" => link.priv < 0)
    /\ (told = "noconn" => "pw_msg" \in wild)

\* When the user is told that the password is changed it is what was typed; when
\* told that it was refused it is what it was; and nothing of it stays behind.
ChangeIsTold ==
  /\ []LeftClean
  /\ [][/\ (told # "changed" /\ told' = "changed") => db'.pw = dialog.new
        /\ (at = "out" /\ told' \in {"refused", "ulose"}) => db' = db
        /\ db' # db => at = "out" /\ dialog.old = db.pw]_vars
=============================================================================
