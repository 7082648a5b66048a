------------------------------ MODULE Tickets -------------------------------
(***************************************************************************)
(* The tickets in the memory that all programs share, which nobody locks:   *)
(* the functions of TICKET_MEMORY.C at the grain of the accesses other       *)
(* processes can fall between, and the requests that use them.  A client    *)
(* (ktelnet, Kftp, KpopProxy) asks KClient for the ticket of a service,     *)
(* shows it to the server and, when that fails, lets the user have the      *)
(* tickets of the realm destroyed and tries again.  The ticket manager logs *)
(* in, clears the tickets, changes passwords in a file of its own, and      *)
(* shows the list.                                                          *)
(***************************************************************************)
EXTENDS Integers, Sequences, FiniteSets, Functions

CONSTANTS
  Client, Mgr,   \* processes
  Realm, User, None,
  CRED_VEC_SZ,
  MaxTries,      \* bound: destructions of a realm's tickets in one request
  Session

Proc == Client \cup {Mgr}

\* apart: bound: no process touches the memory, or lists it, while another is in
\* one of its functions; nothing in the program sees to that.  willing: the user
\* goes on, knows the password, and the KDC and the servers answer.
ASSUME TicketsAssumption ==
  /\ CRED_VEC_SZ \in Nat \ {0} /\ MaxTries \in Nat /\ Mgr \notin Client
  /\ None \notin User \cup Realm /\ IsFiniteSet(Client)
  /\ \A s \in Session :
       /\ DOMAIN s = {"first", "asks", "user", "apart", "willing", "clears", "changes"}
       /\ s.user \in [Realm -> User]
       /\ {s.apart, s.willing} \subseteq BOOLEAN /\ {s.clears, s.changes} \subseteq Nat
       /\ s.first \in Seq([service : {"krbtgt", "rcmd"}, realm : Realm, pname : User,
                            owner : User, good : BOOLEAN, epoch : {0}])
       /\ Len(s.first) <= CRED_VEC_SZ
       /\ \A n \in 1..Len(s.first) :
            s.first[n].owner = s.user[s.first[n].realm] /\ s.first[n].pname = s.first[n].owner
       /\ \A p \in Proc : s.asks[p] \in Seq([service : {"krbtgt", "rcmd"}, realm : Realm])

VARIABLES
  session,
  cred,     \* cred_vec and, from CRED_VEC_SZ, what lies behind it
  count,    \* last_cred_no
  pname,
  at, req, asked,   \* per process: where it is, the request, how many so far
  i,                \* CredIndex, the index a save was given, or i of the sweep
  j,                \* j of wkrb_dest_tkt_realm
  look,             \* per process: what krb_get_cred looks for
  ret,              \* per process: where it goes on after a search
  got, sent, new,   \* per process: record found, ticket shown, ticket to save
  tries, from,      \* per process: destructions, epoch of the start
  result,
  posted, listing, shown,   \* the manager's list
  private,          \* the manager has the file of a password change
  clears, changes,
  epoch,            \* how often the tickets of a realm were destroyed
  sweeps,           \* how often a process has written the number of what it kept
  crossed           \* of the model: a process has touched the memory while
                    \* another was in the middle of one of its functions

memory == <<cred, count, pname>>
local  == <<at, req, asked, i, j, look, ret, got, sent, new, tries, from, result>>
list   == <<posted, listing, shown>>
rest   == <<private, clears, changes, epoch, sweeps>>
vars == <<session, memory, local, list, rest, crossed>>

Rec(service, realm, name, owner, good, ep) ==
  [service |-> service, realm |-> realm, pname |-> name, owner |-> owner, good |-> good,
   epoch |-> ep]

\* owner: whom the ticket was issued to.  A zeroed record and a half-filled one
\* have none.
Zero == Rec(None, None, None, None, FALSE, 0)

Whole(r) == r.owner # None

\* bound: how far behind the vector the sessions come.
Index == 0..(CRED_VEC_SZ + Cardinality(Proc))

Init ==
  /\ session \in Session
  /\ cred = [n \in Index |->
               IF n < Len(session.first) THEN session.first[n + 1] ELSE Zero]
  /\ count = Len(session.first)
  /\ pname = IF count = 0 THEN None ELSE cred[0].pname
  /\ at = [p \in Proc |-> "idle"] /\ asked = [p \in Proc |-> 0]
  /\ req = [p \in Proc |-> [service |-> None, realm |-> None]]
  /\ i = [p \in Proc |-> 0] /\ j = [p \in Proc |-> 0]
  /\ look = [p \in Proc |-> None] /\ ret = [p \in Proc |-> None]
  /\ got = [p \in Proc |-> Zero] /\ sent = [p \in Proc |-> Zero]
  /\ new = [p \in Proc |-> Zero] /\ tries = [p \in Proc |-> 0]
  /\ from = [p \in Proc |-> 0] /\ result = [p \in Proc |-> None]
  /\ posted = TRUE /\ listing = -1 /\ shown = <<>>
  /\ private = FALSE /\ clears = 0 /\ changes = 0
  /\ epoch = [r \in Realm |-> 0] /\ sweeps = 0 /\ crossed = FALSE

\* p is in the middle of a function that touches the memory.
Inside(p) == \/ at[p] \in {"look", "sweep"} /\ i[p] > 0
             \/ at[p] \in {"take", "fill", "rest", "swept", "zero", "wipe"}

\* p touches the memory.  No function of TICKET_MEMORY.C takes a lock.
Turn(p) ==
  LET others == \E q \in Proc \ {p} : Inside(q)
  IN /\ session.apart => listing = -1 /\ ~others
     /\ crossed' = (crossed \/ others)

\* The list is made in the manager's thread.
Thread(p) == p = Mgr => listing = -1 /\ ~private

Goto(p, l)   == at' = [at EXCEPT ![p] = l]
PostUpdateMessage == posted' = TRUE

-----------------------------------------------------------------------------
(* krb_get_cred: tf_init and tf_get_cred until the record is found.  With a  *)
(* ticket granting ticket its principal becomes that of the memory.          *)

Search(p, service, label) ==
  /\ look' = [look EXCEPT ![p] = service] /\ ret' = [ret EXCEPT ![p] = label]
  /\ i' = [i EXCEPT ![p] = 0] /\ Goto(p, "look")

\* A slip: the search leaves the principal of the memory as it is.
LookPlain(p) ==
  LET c == cred[i[p]]
      hit == c.service = look[p] /\ c.realm = req[p].realm
  IN
  /\ at[p] = "look" /\ Turn(p) /\ Thread(p)
  /\ IF i[p] < count
     THEN /\ i' = [i EXCEPT ![p] = @ + 1]
          /\ got' = [got EXCEPT ![p] = IF hit THEN c ELSE Zero]
          /\ IF hit THEN Goto(p, ret[p]) ELSE UNCHANGED at
     ELSE /\ got' = [got EXCEPT ![p] = Zero] /\ Goto(p, ret[p]) /\ UNCHANGED i
  /\ UNCHANGED <<session, cred, count, pname, req, asked, j, look, ret, sent, new, tries, from,
                 result, list, rest>>

Look(p) ==
  LET c == cred[i[p]]
      hit == c.service = look[p] /\ c.realm = req[p].realm
  IN
  /\ at[p] = "look" /\ Turn(p) /\ Thread(p)
  /\ IF i[p] < count
     THEN /\ i' = [i EXCEPT ![p] = @ + 1]
          /\ got' = [got EXCEPT ![p] = IF hit THEN c ELSE Zero]
          /\ pname' = IF hit /\ look[p] = "krbtgt" THEN c.pname ELSE pname
          /\ IF hit THEN Goto(p, ret[p]) ELSE UNCHANGED at
     ELSE /\ got' = [got EXCEPT ![p] = Zero] /\ Goto(p, ret[p]) /\ UNCHANGED <<i, pname>>
  /\ UNCHANGED <<session, cred, count, req, asked, j, look, ret, sent, new, tries, from, result,
                 list, rest>>

Found(p) == got[p].service # None

-----------------------------------------------------------------------------
(* tf_save_cred *)

\* nextFreeIndex gives out the index behind the vector, too.
Check(p) ==
  /\ at[p] = "check" /\ Turn(p) /\ Thread(p)
  /\ IF count > CRED_VEC_SZ
     THEN Goto(p, "end") /\ result' = [result EXCEPT ![p] = "KFAILURE"]
     ELSE Goto(p, "take") /\ UNCHANGED result
  /\ UNCHANGED <<session, memory, req, asked, i, j, look, ret, got, sent, new, tries, from, list,
                 rest>>

\* The number goes up before the record is filled.
TakeIndex(p) ==
  /\ at[p] = "take" /\ Turn(p) /\ Thread(p)
  /\ i' = [i EXCEPT ![p] = count] /\ count' = count + 1 /\ Goto(p, "fill")
  /\ UNCHANGED <<session, cred, pname, req, asked, j, look, ret, got, sent, new, tries, from,
                 result, list, rest>>

Write(p, r) == cred' = [cred EXCEPT ![i[p]] = r]

\* The names come first: the rest is what the place held before.
Fill(p) ==
  /\ at[p] = "fill" /\ Turn(p) /\ Thread(p) /\ Goto(p, "rest")
  /\ Write(p, [cred[i[p]] EXCEPT !.service = new[p].service, !.realm = new[p].realm])
  /\ UNCHANGED <<session, count, pname, req, asked, i, j, look, ret, got, sent, new, tries,
                 from, result, list, rest>>

\* krb_get_cred follows, of Login or of krb_mk_req.
FillRest(p) ==
  /\ at[p] = "rest" /\ Turn(p) /\ Thread(p)
  /\ Write(p, [new[p] EXCEPT !.pname = pname, !.epoch = epoch[req[p].realm]])
  /\ PostUpdateMessage
  /\ Search(p, new[p].service, IF new[p].service = "krbtgt" THEN "logged" ELSE "have2")
  /\ new' = [new EXCEPT ![p] = Zero]
  /\ UNCHANGED <<session, count, pname, req, asked, j, got, sent, tries, from, result,
                 listing, shown, rest>>

-----------------------------------------------------------------------------
(* KClient::GetTicketForService *)

End(p, r) == Goto(p, "end") /\ result' = [result EXCEPT ![p] = r]

\* A request of the user.  Those of the manager are CmLogin: the dialog at once.
Ask(p) ==
  LET n == asked[p] + 1 IN
  /\ at[p] = "idle" /\ Thread(p) /\ n <= Len(session.asks[p])
  /\ asked' = [asked EXCEPT ![p] = n]
  /\ req' = [req EXCEPT ![p] = session.asks[p][n]]
  /\ from' = [from EXCEPT ![p] = epoch[session.asks[p][n].realm]]
  /\ tries' = [tries EXCEPT ![p] = 0] /\ result' = [result EXCEPT ![p] = None]
  /\ IF p = Mgr THEN Goto(p, "box") /\ UNCHANGED <<look, ret, i>>
                ELSE Search(p, "krbtgt", "status")
  /\ UNCHANGED <<session, memory, j, got, sent, new, list, rest, crossed>>

Quiet(p) == UNCHANGED <<session, memory, req, asked, j, got, new, tries, from, list, rest>>

Status(p) ==
  /\ at[p] = "status"
  /\ IF Found(p) THEN Search(p, req[p].service, "have")
                 ELSE Goto(p, "box") /\ UNCHANGED <<look, ret, i>>
  /\ UNCHANGED <<sent, result, crossed>> /\ Quiet(p)

\* The dialog of Login, and Status again: somebody else may have logged in.
Box(p) ==
  /\ at[p] = "box" /\ Thread(p)
  /\ \/ Search(p, "krbtgt", "again") /\ UNCHANGED result
     \/ ~session.willing /\ End(p, "KFAILURE") /\ UNCHANGED <<look, ret, i>>
  /\ UNCHANGED <<sent, crossed>> /\ Quiet(p)

Again(p) ==
  /\ at[p] = "again" /\ Thread(p)
  /\ IF Found(p) THEN Search(p, "krbtgt", "logged")
                 ELSE Goto(p, "as") /\ UNCHANGED <<look, ret, i>>
  /\ UNCHANGED <<sent, result, crossed>> /\ Quiet(p)

\* krb_get_pw_in_tkt: the answer of the KDC and tf_setup up to the save
InitialTicket(p) ==
  LET r == req[p].realm  u == session.user[r] IN
  /\ at[p] = "as" /\ Thread(p) /\ Turn(p)
  /\ \/ /\ Goto(p, "check") /\ pname' = u /\ UNCHANGED result
        /\ new' = [new EXCEPT ![p] = Rec("krbtgt", r, u, u, TRUE, 0)]
     \/ ~session.willing /\ End(p, "error") /\ UNCHANGED <<pname, new>>
  /\ UNCHANGED <<session, cred, count, req, asked, i, j, look, ret, got, sent, tries, from, list,
                 rest>>

Logged(p) ==
  /\ at[p] = "logged" /\ Thread(p)
  /\ CASE ~Found(p) -> End(p, "error") /\ UNCHANGED <<look, ret, i>>
       [] Found(p) /\ p = Mgr -> End(p, "ok") /\ UNCHANGED <<look, ret, i>>
       [] OTHER -> Search(p, req[p].service, "have") /\ UNCHANGED result
  /\ UNCHANGED <<sent, crossed>> /\ Quiet(p)

\* krb_mk_req: the ticket, or that of get_ad_tkt, then whose it is
Have(p) ==
  /\ at[p] \in {"have", "have2"}
  /\ CASE Found(p) -> /\ Search(p, "krbtgt", "mine") /\ UNCHANGED result
                      /\ sent' = [sent EXCEPT ![p] = got[p]]
       [] ~Found(p) /\ at[p] = "have" -> Search(p, "krbtgt", "tgt") /\ UNCHANGED <<sent, result>>
       [] OTHER -> End(p, "error") /\ UNCHANGED <<look, ret, i, sent>>
  /\ Quiet(p) /\ UNCHANGED crossed

\* krb_get_tf_realm without a ticket is KFAILURE, the code of a cancelled dialog.
NoRealm == pname = None \/ count = 0

\* get_ad_tkt without a ticket granting ticket of the realm; realms do not
\* know each other.
Granting(p) ==
  /\ at[p] = "tgt" /\ Turn(p)
  /\ IF Found(p) THEN Goto(p, "tgs") /\ UNCHANGED result
                 ELSE End(p, IF NoRealm THEN "KFAILURE" ELSE "error")
  /\ UNCHANGED <<look, ret, i, sent>> /\ Quiet(p)

\* The KDC looks at the ticket and at the name in the authenticator.
Accepted(r) == Whole(r) /\ r.good /\ r.pname = r.owner

ServiceTicket(p) ==
  LET t == got[p] IN
  /\ at[p] = "tgs"
  /\ \/ /\ Accepted(t) /\ Goto(p, "check") /\ UNCHANGED result
        /\ new' = [new EXCEPT ![p] = Rec(req[p].service, req[p].realm, None, t.owner, TRUE, 0)]
     \/ (~Accepted(t) \/ ~session.willing) /\ End(p, "error") /\ UNCHANGED new
  /\ UNCHANGED <<session, memory, req, asked, i, j, look, ret, got, sent, tries, from, list,
                 rest, crossed>>

\* The realm of the authenticator is that of the first record without a ticket
\* granting ticket; such a request is refused by the server.
Mine(p) ==
  /\ at[p] = "mine" /\ Turn(p)
  /\ IF ~Found(p) /\ NoRealm
     THEN End(p, "KFAILURE") /\ UNCHANGED <<look, ret, i, sent>>
     ELSE /\ Search(p, req[p].service, "final") /\ UNCHANGED result
          /\ sent' = [sent EXCEPT ![p].good = @ /\ Found(p)]
  /\ Quiet(p)

\* The second krb_get_cred gives the session key and the name of the user.
Final(p) ==
  /\ at[p] = "final"
  /\ IF Found(p) THEN Goto(p, "server") /\ UNCHANGED result ELSE End(p, "error")
  /\ UNCHANGED <<look, ret, i, sent, crossed>> /\ Quiet(p)

Server(p) ==
  /\ at[p] = "server"
  /\ \/ Accepted(sent[p]) /\ got[p] = sent[p] /\ End(p, "ok")
     \/ (~session.willing \/ ~Accepted(sent[p]) \/ got[p] # sent[p]) /\ End(p, "error")
  /\ UNCHANGED <<look, ret, i, sent, crossed>> /\ Quiet(p)

-----------------------------------------------------------------------------
(* Reopen, TicketError, FTPClientWindow::Login: the realm's tickets are       *)
(* destroyed when the user says so, and the request begins again              *)

Finish(p) ==
  /\ at[p] = "end"
  /\ IF result[p] = "error" /\ p # Mgr /\ tries[p] < MaxTries
     THEN \/ Goto(p, "sweep") /\ tries' = [tries EXCEPT ![p] = @ + 1]
          \/ ~session.willing /\ Goto(p, "idle") /\ UNCHANGED tries
     ELSE Goto(p, "idle") /\ UNCHANGED tries
  /\ i' = [i EXCEPT ![p] = 0] /\ j' = [j EXCEPT ![p] = 0]
  /\ got' = [got EXCEPT ![p] = Zero] /\ sent' = [sent EXCEPT ![p] = Zero]
  /\ new' = [new EXCEPT ![p] = Zero]
  /\ look' = [look EXCEPT ![p] = None] /\ ret' = [ret EXCEPT ![p] = None]
  /\ UNCHANGED <<session, memory, req, asked, from, result, list, rest, crossed>>

\* A slip: the tickets of the realm are the ones that are kept.
SweepOthers(p) ==
  /\ at[p] = "sweep" /\ Turn(p)
  /\ IF i[p] < count
     THEN /\ i' = [i EXCEPT ![p] = @ + 1] /\ UNCHANGED at
          /\ IF cred[i[p]].realm = req[p].realm
             THEN cred' = [cred EXCEPT ![j[p]] = cred[i[p]]] /\ j' = [j EXCEPT ![p] = @ + 1]
             ELSE UNCHANGED <<cred, j>>
     ELSE Goto(p, "swept") /\ UNCHANGED <<cred, i, j>>
  /\ UNCHANGED <<session, count, pname, req, asked, look, ret, got, sent, new, tries, from,
                 result, list, rest>>

\* wkrb_dest_tkt_realm, one record: those of other realms move to the front.
Sweep(p) ==
  /\ at[p] = "sweep" /\ Turn(p)
  /\ IF i[p] < count
     THEN /\ i' = [i EXCEPT ![p] = @ + 1] /\ UNCHANGED at
          /\ IF cred[i[p]].realm # req[p].realm
             THEN cred' = [cred EXCEPT ![j[p]] = cred[i[p]]] /\ j' = [j EXCEPT ![p] = @ + 1]
             ELSE UNCHANGED <<cred, j>>
     ELSE Goto(p, "swept") /\ UNCHANGED <<cred, i, j>>
  /\ UNCHANGED <<session, count, pname, req, asked, look, ret, got, sent, new, tries, from,
                 result, list, rest>>

Swept(p) ==
  /\ at[p] = "swept" /\ Turn(p) /\ count' = j[p] /\ Goto(p, "zero")
  /\ epoch' = [epoch EXCEPT ![req[p].realm] = @ + 1] /\ sweeps' = sweeps + 1
  /\ UNCHANGED <<session, cred, pname, req, asked, i, j, look, ret, got, sent, new, tries,
                 from, result, list, private, clears, changes>>

\* The memset leaves what lies behind the vector.
ZeroRest(p) ==
  /\ at[p] = "zero" /\ Turn(p)
  /\ cred' = [n \in Index |-> IF n \in j[p]..(CRED_VEC_SZ - 1) THEN Zero ELSE cred[n]]
  /\ PostUpdateMessage
  /\ from' = [from EXCEPT ![p] = epoch[req[p].realm]]
  /\ result' = [result EXCEPT ![p] = None]
  /\ Search(p, "krbtgt", "status")
  /\ UNCHANGED <<session, count, pname, req, asked, j, got, sent, new, tries, listing, shown,
                 rest>>

-----------------------------------------------------------------------------
(* The ticket manager *)

\* CmClear: dest_tkt zeroes the number first, then the records.
DestTkt ==
  /\ at[Mgr] = "idle" /\ Thread(Mgr) /\ Turn(Mgr) /\ clears < session.clears
  /\ clears' = clears + 1 /\ count' = 0 /\ pname' = None /\ Goto(Mgr, "wipe")
  /\ epoch' = [r \in Realm |-> epoch[r] + 1]
  /\ UNCHANGED <<session, cred, req, asked, i, j, look, ret, got, sent, new, tries, from,
                 result, list, private, changes, sweeps>>

\* CmClear calls UpdateCache itself.
Wipe ==
  /\ at[Mgr] = "wipe" /\ Turn(Mgr) /\ cred' = [n \in Index |-> Zero] /\ Goto(Mgr, "idle")
  /\ listing' = 0 /\ shown' = <<>>
  /\ UNCHANGED <<session, count, pname, req, asked, i, j, look, ret, got, sent, new, tries,
                 from, result, posted, rest>>

\* wkrb_new_tktfile: the dialog of the password change has tickets of its own.
ChangePassword ==
  /\ at[Mgr] = "idle" /\ Thread(Mgr) /\ changes < session.changes
  /\ changes' = changes + 1 /\ private' = TRUE
  /\ UNCHANGED <<session, memory, local, list, clears, epoch, sweeps, crossed>>

Restore ==
  /\ private /\ listing = -1 /\ private' = FALSE /\ PostUpdateMessage
  /\ UNCHANGED <<session, memory, local, listing, shown, clears, changes, epoch,
                 sweeps, crossed>>

\* Where the manager's thread takes messages
Pumps == at[Mgr] \in {"idle", "box"} /\ listing = -1

\* What the file of a password change may hold
Private == {<<>>, <<<<"changepw", None, None>>>>}

\* EvUpdateCache.  Without a principal the list stays empty.
EvUpdateCache ==
  /\ posted /\ Pumps /\ (session.apart => \A q \in Client : ~Inside(q))
  /\ posted' = FALSE /\ shown' \in IF private THEN Private ELSE {<<>>}
  /\ listing' = IF private \/ pname = None THEN -1 ELSE 0
  /\ UNCHANGED <<session, memory, local, rest, crossed>>

Names(c) == <<c.service, c.realm, c.pname>>

ListNext ==
  /\ listing >= 0 /\ (session.apart => \A q \in Client : ~Inside(q))
  /\ IF listing < count
     THEN shown' = Append(shown, Names(cred[listing])) /\ listing' = listing + 1
     ELSE listing' = -1 /\ UNCHANGED shown
  /\ UNCHANGED <<session, memory, local, posted, rest, crossed>>

Step(p) == Look(p) \/ Check(p) \/ TakeIndex(p) \/ Fill(p) \/ FillRest(p) \/ Status(p) \/ Box(p)
             \/ Again(p) \/ InitialTicket(p) \/ Logged(p) \/ Have(p) \/ Granting(p)
             \/ ServiceTicket(p) \/ Mine(p) \/ Final(p) \/ Server(p) \/ Finish(p) \/ Sweep(p)
             \/ Swept(p) \/ ZeroRest(p)

Lists == EvUpdateCache \/ ListNext

Next == \/ \E p \in Proc : Step(p) \/ Ask(p)
        \/ DestTkt \/ Wipe \/ ChangePassword \/ Restore \/ Lists

Spec == Init /\ [][Next]_vars

\* Every process runs, and dialogs are closed.
FairSpec == /\ Spec /\ \A p \in Proc : WF_vars(Step(p))
            /\ WF_vars(Wipe) /\ WF_vars(Restore) /\ WF_vars(Lists)

-----------------------------------------------------------------------------
(* Properties *)

Asking == {p \in Proc : session.asks[p] # <<>>}

\* So far nobody has cleared the tickets, and there is one user, or one process
\* that asks.
Calm ==
  /\ clears = 0
  /\ \/ \A r, s \in Realm : session.user[r] = session.user[s]
     \/ Cardinality(Asking) <= 1

\* As long as no process has fallen into another's accesses (tf_init locks
\* nothing, whatever its comment says), the ticket and the name a client uses are
\* complete and are those of the principal the ticket was issued to
\* (GET_CRED.C:77, TICKET_MEMORY.C:524), and none is of before the last time the
\* tickets of its realm were destroyed.
HandsOut ==
  \A p \in Client : at[p] = "server" /\ ~crossed =>
    /\ Calm => \A r \in {sent[p], got[p]} : Whole(r) /\ r.pname = r.owner
    /\ sent[p].epoch >= from[p] /\ got[p].epoch >= from[p]

\* The vector has CRED_VEC_SZ records (TICKET_MEMORY.H:64), and no other is
\* written.
InVector == \A p \in Proc : at[p] \in {"fill", "rest"} => i[p] < CRED_VEC_SZ

\* How far the number of records passes the vector: by one, and once processes
\* have come between comparison and increment, by one for each (TICKET_MEMORY.C
\* 256).  Then a sweep can put back the number it has counted after another
\* process has destroyed tickets (95), and those that have compared meanwhile go
\* on from there: each sweep allows for as many more.
InReach ==
  count <= CRED_VEC_SZ + (IF crossed THEN Cardinality(Asking) * (1 + sweeps) ELSE 1)

\* Tickets that have expired do not keep a user who goes on from the service
\* (TELNET.CPP:522).  Two clients may go on destroying each other's tickets,
\* and tickets cleared under a request end it like a cancelled dialog: this is
\* about one client that is left alone.  And the list comes to show the tickets,
\* once nobody works on them.  After tickets were cleared in the middle of a
\* request it may not: a later search brings back a principal, or none, and
\* nobody tells the list.
Recovers ==
  LET Rests == session.clears = 0 /\ ~private /\ \A p \in Proc : at[p] = "idle"
      Records == IF pname = None THEN <<>> ELSE [n \in 1..count |-> Names(cred[n - 1])]
  IN /\ \A p \in Client :
          session.willing /\ session.apart /\ session.clears = 0 /\ Asking = {p} /\ at[p] # "idle"
            ~> at[p] = "end" /\ result[p] = "ok"
     /\ Rests ~> ~Rests \/ shown = Records
=============================================================================
