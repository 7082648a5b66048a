---------------------------- MODULE TicketsProofs ----------------------------
(***************************************************************************)
(* What is handed out is complete and of the time it was asked for, and the *)
(* number of records stays in reach, for any clients, realms, users, size   *)
(* of the vector and behaviour of those who ask.                            *)
(*                                                                         *)
(* While no process has fallen into another's accesses at most one is        *)
(* Inside (Alone), so that all records up to the number are Right but the   *)
(* one that is being filled (Current).  A request keeps what it has found   *)
(* while others destroy it, so that got and sent are compared with the      *)
(* epoch of the request's own start (Fetched, Shown).  The principal of the *)
(* memory, which any search may change, is still the one the next record    *)
(* needs when there is one user or one process that asks (Named).  The       *)
(* bound on the number holds after they have fallen into each other, too.   *)
(***************************************************************************)
EXTENDS Tickets, FiniteSetTheorems, TLAPS

Services == {"krbtgt", "rcmd"}
Returns == {"status", "have", "have2", "again", "logged", "tgt", "mine", "final"}
Saving  == {"check", "take", "fill", "rest"}
Clearing == {"sweep", "swept"}
Places == Returns \cup Saving \cup Clearing
            \cup {"idle", "look", "box", "as", "tgs", "server", "end", "zero", "wipe"}
Away == {"idle", "wipe"}

Record == [service : Services \cup {None}, realm : Realm \cup {None}, pname : User \cup {None},
           owner : User \cup {None}, good : BOOLEAN, epoch : Nat]
Request == [service : Services \cup {None}, realm : Realm \cup {None}]

-----------------------------------------------------------------------------
(* The number of records *)

Counters ==
  /\ session \in Session /\ count \in Nat /\ sweeps \in Nat /\ clears \in Nat
  /\ at \in [Proc -> Places] /\ asked \in [Proc -> Nat]
  /\ i \in [Proc -> Nat] /\ j \in [Proc -> Nat]
  /\ ret \in [Proc -> Returns \cup {None}]
  /\ \A p \in Proc : at[p] = "look" => ret[p] \in Returns
  /\ req \in [Proc -> Request]
  /\ crossed \in BOOLEAN

\* Who does something was asked to, and knows for which ticket.
Busy ==
  \A p \in Proc : at[p] \notin Away =>
    p \in Asking /\ req[p].service \in Services /\ req[p].realm \in Realm

Taking == {p \in Proc : at[p] = "take"}
Most == CRED_VEC_SZ + Cardinality(Asking) * (1 + sweeps)

\* A sweep has counted no more than there were, and each process that has
\* compared adds one.
Overlapping ==
  /\ count + Cardinality(Taking) <= Most
  /\ \A p \in Proc : at[p] \in Clearing => j[p] <= i[p] /\ i[p] <= Most

Alone == \A p, q \in Proc : Inside(p) /\ Inside(q) => p = q

Apart ==
  /\ Alone /\ count <= CRED_VEC_SZ + 1
  /\ \A p \in Proc :
       /\ at[p] = "take" => count <= CRED_VEC_SZ
       /\ at[p] \in {"fill", "rest"} => i[p] + 1 = count
       /\ at[p] \in Clearing => j[p] <= i[p] /\ i[p] <= count
       /\ at[p] = "zero" => count = j[p]
       /\ at[p] = "wipe" => count = 0

CInv == Counters /\ Busy /\ Overlapping /\ (~crossed => Apart)

-----------------------------------------------------------------------------
(* What the records are *)

Contents ==
  /\ cred \in [Index -> Record] /\ pname \in User \cup {None}
  /\ look \in [Proc -> Services \cup {None}]
  /\ epoch \in [Realm -> Nat] /\ from \in [Proc -> Nat]
  /\ got \in [Proc -> Record] /\ sent \in [Proc -> Record] /\ new \in [Proc -> Record]

UserOf(r) == session.user[r]

Rightful(c) == c.owner = UserOf(c.realm) /\ c.pname = c.owner

\* A record that was saved since its realm's tickets were destroyed
Right(c) ==
  /\ c.realm \in Realm /\ c.epoch = epoch[c.realm]
  /\ Calm => Rightful(c)

BeingFilled(n) == \E p \in Proc : at[p] \in {"fill", "rest"} /\ i[p] = n

Current == \A n \in 0..(count - 1) : BeingFilled(n) \/ Right(cred[n])

\* What a sweep keeps is of other realms.
Kept ==
  \A p \in Proc : at[p] \in Clearing =>
    \A n \in 0..(j[p] - 1) : cred[n].realm # req[p].realm

\* p has seen this record in this request.
Seen(p, c) ==
  /\ c.realm = req[p].realm /\ c.realm \in Realm /\ from[p] <= c.epoch
  /\ Calm => Rightful(c)

Begun(p) == at[p] \notin Away => from[p] <= epoch[req[p].realm]

Fetched(p) == Found(p) => at[p] \notin Away \cup Clearing \cup {"zero"} /\ Seen(p, got[p])

Showing(p) == \/ at[p] \in {"mine", "final", "server"}
              \/ at[p] = "look" /\ ret[p] \in {"mine", "final"}

Shown(p) == Showing(p) => Seen(p, sent[p])

Serving(p) == at[p] \in {"tgs", "server"} => Found(p)

\* The record p is about to save is the one it was asked for.
Wanted(p) == at[p] \in Saving =>
  /\ new[p].service \in Services /\ new[p].realm = req[p].realm
  /\ Calm => new[p].owner = UserOf(req[p].realm)

\* p has set the principal of the memory for that record.
Naming(p) == at[p] \in Saving \cup {"tgs"} \/ (at[p] = "tgt" /\ Found(p))

Named(p) == Calm /\ Naming(p) => pname = UserOf(req[p].realm)

Granted(p) == at[p] = "look" /\ ret[p] = "tgt" => look[p] = "krbtgt"

Own(p) == Begun(p) /\ Fetched(p) /\ Shown(p) /\ Serving(p) /\ Wanted(p) /\ Granted(p)

HInv == /\ Contents /\ Current /\ Kept
        /\ \A p \in Proc : Own(p) /\ Named(p)

TInv == CInv /\ (~crossed => HInv)

-----------------------------------------------------------------------------
(* Facts about sessions *)

\* What the assumption says of the session.
LEMMA SessionFacts ==
  ASSUME session \in Session
  PROVE  /\ CRED_VEC_SZ \in Nat /\ CRED_VEC_SZ > 0 /\ IsFiniteSet(Proc)
         /\ None \notin User /\ None \notin Realm
         /\ session.user \in [Realm -> User] /\ session.apart \in BOOLEAN
         /\ session.first \in Seq(Record) /\ Len(session.first) <= CRED_VEC_SZ
         /\ \A n \in 1..Len(session.first) :
              LET r == session.first[n] IN
                /\ r.realm \in Realm /\ r.epoch = 0 /\ Rightful(r)
<1> DEFINE First == [service : {"krbtgt", "rcmd"}, realm : Realm, pname : User,
                     owner : User, good : BOOLEAN, epoch : {0}]
<1>1. IsFiniteSet(Proc)
  BY TicketsAssumption, FS_AddElement DEF Proc
<1>2. session.first \in Seq(First)
  BY TicketsAssumption
<1>3. First \subseteq Record
  BY DEF Record, Services
<1>4. session.first \in Seq(Record)
  <2> HIDE DEF First
  <2> QED
    BY <1>2, <1>3
<1>5. \A n \in 1..Len(session.first) :
        LET r == session.first[n] IN r.realm \in Realm /\ r.epoch = 0 /\ Rightful(r)
  <2> TAKE n \in 1..Len(session.first)
  <2>1. session.first[n] \in First
    <3> HIDE DEF First
    <3> QED
      BY <1>2
  <2>2. session.first[n].owner = session.user[session.first[n].realm]
        /\ session.first[n].pname = session.first[n].owner
    BY TicketsAssumption
  <2> QED
    BY <2>1, <2>2 DEF Rightful, UserOf
<1> QED
  BY <1>1, <1>4, <1>5, TicketsAssumption

\* Those who ask are finitely many, and so are those who take an index.
LEMMA Crowds ==
  ASSUME session \in Session
  PROVE  /\ IsFiniteSet(Asking) /\ Cardinality(Asking) \in Nat
         /\ IsFiniteSet(Taking) /\ Cardinality(Taking) \in Nat
<1>1. IsFiniteSet(Proc)
  BY SessionFacts
<1>2. Asking \subseteq Proc /\ Taking \subseteq Proc
  BY DEF Asking, Taking
<1> QED
  BY <1>1, <1>2, FS_Subset, FS_CardinalityType

\* While it is calm two processes that ask act for one user.
LEMMA OneUser ==
  ASSUME session \in Session, Calm,
         NEW p \in Asking, NEW q \in Asking, NEW r \in Realm, NEW s \in Realm, p # q
  PROVE  UserOf(r) = UserOf(s)
<1>1. ~(Cardinality(Asking) <= 1)
  <2>1. {p, q} \subseteq Asking /\ IsFiniteSet(Asking)
    BY Crowds
  <2>2. Cardinality({p, q}) = 2
    <3>1. IsFiniteSet({p}) /\ Cardinality({p}) = 1 /\ q \notin {p}
      BY FS_Singleton
    <3>2. Cardinality({p} \cup {q}) = Cardinality({p}) + 1
      BY <3>1, FS_AddElement
    <3>3. {p} \cup {q} = {p, q}
      OBVIOUS
    <3> QED
      BY <3>1, <3>2, <3>3
  <2> QED
    BY <2>1, <2>2, FS_Subset, FS_CardinalityType
<1> QED
  BY <1>1 DEF Calm, UserOf

-----------------------------------------------------------------------------
(* Most steps only go on: with a search or to another place *)

Elsewhere == Places \ ({"idle", "look", "zero", "wipe", "take", "fill", "rest"} \cup Clearing)

GoesOn(p) ==
  \/ \E service : \E label \in Returns : Search(p, service, label)
  \/ \E l \in Elsewhere : Goto(p, l) /\ UNCHANGED <<look, ret, i>>

Turns(p) ==
  /\ at[p] \notin Away /\ GoesOn(p)
  /\ UNCHANGED <<session, count, sweeps, clears, asked, j, req>>
  /\ crossed' \in BOOLEAN /\ (crossed => crossed')

\* Until processes fall into each other's accesses, who touches the memory is
\* alone in it.
LEMMA TurnFacts ==
  ASSUME Counters, NEW p \in Proc, Turn(p)
  PROVE  /\ crossed' \in BOOLEAN /\ (crossed => crossed')
         /\ ~crossed' => \A q \in Proc \ {p} : ~Inside(q)
BY DEF Turn, Counters

\* Where p goes on to, and that the others stay.
LEMMA GoesOnFacts ==
  ASSUME Counters, NEW p \in Proc, GoesOn(p)
  PROVE  /\ at' \in [Proc -> Places] /\ i' \in [Proc -> Nat]
         /\ ret' \in [Proc -> Returns \cup {None}]
         /\ at'[p] \in Elsewhere \cup {"look"}
         /\ at'[p] = "look" => ret'[p] \in Returns /\ i'[p] = 0
         /\ \A q \in Proc \ {p} :
              at'[q] = at[q] /\ i'[q] = i[q] /\ ret'[q] = ret[q]
<1>1. CASE \E service : \E label \in Returns : Search(p, service, label)
  <2> PICK service, label : label \in Returns /\ Search(p, service, label)
    BY <1>1
  <2>1. /\ at' = [at EXCEPT ![p] = "look"] /\ i' = [i EXCEPT ![p] = 0]
        /\ ret' = [ret EXCEPT ![p] = label]
    BY DEF Search, Goto
  <2> QED
    BY <2>1 DEF Counters, Places, Elsewhere
<1>2. CASE \E l \in Elsewhere : Goto(p, l) /\ UNCHANGED <<look, ret, i>>
  <2> PICK l \in Elsewhere : Goto(p, l) /\ UNCHANGED <<look, ret, i>>
    BY <1>2
  <2>1. at' = [at EXCEPT ![p] = l] /\ UNCHANGED <<look, ret, i>> /\ l \in Places /\ l # "look"
    BY DEF Goto, Elsewhere
  <2> QED
    BY <2>1 DEF Counters
<1> QED
  BY <1>1, <1>2 DEF GoesOn

LEMMA SmallSteps ==
  ASSUME Counters, Busy, NEW p \in Proc,
         \/ Status(p) \/ Box(p) \/ Again(p) \/ InitialTicket(p) \/ Logged(p) \/ Have(p)
         \/ Granting(p) \/ ServiceTicket(p) \/ Mine(p) \/ Final(p) \/ Server(p) \/ FillRest(p)
  PROVE  Turns(p)
<1>0. crossed' \in BOOLEAN /\ (crossed => crossed')
  BY TurnFacts DEF Counters, Status, Box, Again, InitialTicket, Logged, Have, Granting,
     ServiceTicket, Mine, Final, Server, FillRest
<1> USE DEF Turns, GoesOn, Quiet, Services, Returns, Elsewhere, Places, Away, Saving, Clearing,
            End, memory, list, rest
<1>1. CASE Status(p)
  BY <1>0, <1>1 DEF Status, Busy
<1>2. CASE Box(p)
  BY <1>0, <1>2 DEF Box
<1>3. CASE Again(p)
  BY <1>0, <1>3 DEF Again
<1>4. CASE InitialTicket(p)
  BY <1>0, <1>4 DEF InitialTicket
<1>5. CASE Logged(p)
  BY <1>0, <1>5 DEF Logged, Busy
<1>6. CASE Have(p)
  BY <1>0, <1>6 DEF Have
<1>7. CASE Granting(p)
  BY <1>0, <1>7 DEF Granting
<1>8. CASE ServiceTicket(p)
  BY <1>0, <1>8 DEF ServiceTicket
<1>9. CASE Mine(p)
  BY <1>0, <1>9 DEF Mine, Busy
<1>10. CASE Final(p)
  BY <1>0, <1>10 DEF Final
<1>11. CASE Server(p)
  BY <1>0, <1>11 DEF Server
<1>12. CASE FillRest(p)
  BY <1>0, <1>12 DEF FillRest
<1> QED
  BY <1>1, <1>2, <1>3, <1>4, <1>5, <1>6, <1>7, <1>8, <1>9, <1>10, <1>11, <1>12

LEMMA MostIsNat ==
  ASSUME Counters
  PROVE  Most \in Nat /\ Most >= CRED_VEC_SZ /\ Most >= CRED_VEC_SZ + Cardinality(Asking)
<1>1. Cardinality(Asking) \in Nat /\ CRED_VEC_SZ \in Nat /\ sweeps \in Nat
  BY Crowds, SessionFacts DEF Counters
<1>2. Cardinality(Asking) * sweeps \in Nat
  BY <1>1
<1>3. Most = CRED_VEC_SZ + Cardinality(Asking) + Cardinality(Asking) * sweeps
  BY <1>1 DEF Most
<1> QED
  BY <1>1, <1>2, <1>3

\* A step that goes on disturbs no counter.
LEMMA TurnsKeep ==
  ASSUME CInv, NEW p \in Proc, Turns(p)
  PROVE  CInv'
<1> USE DEF Turns, CInv
<1>1. Counters'
  BY GoesOnFacts DEF Counters
<1>2. Busy'
  BY GoesOnFacts DEF Busy, Asking, Counters
<1>3. \A q \in Proc : Inside(q)' => Inside(q)
  BY GoesOnFacts DEF Inside, Elsewhere, Clearing
<1>4. ASSUME ~crossed'
      PROVE  Apart'
  <2>1. \A q \in Proc : at'[q] \in {"take", "fill", "rest", "zero", "wipe"} \cup Clearing
                           => at'[q] = at[q] /\ i'[q] = i[q] /\ j'[q] = j[q]
    BY GoesOnFacts DEF Elsewhere, Clearing
  <2> QED
    BY <1>1, <1>2, <1>3, <1>4, <2>1 DEF Apart, Alone, Clearing
<1>5. Overlapping'
  <2>1. Taking' \subseteq Taking
    BY GoesOnFacts DEF Taking, Elsewhere
  <2>2. Cardinality(Taking') <= Cardinality(Taking) /\ Cardinality(Taking') \in Nat
    <3>1. IsFiniteSet(Taking)
      BY Crowds DEF Counters
    <3>2. IsFiniteSet(Taking') /\ Cardinality(Taking') <= Cardinality(Taking)
      BY <2>1, <3>1, FS_Subset
    <3> QED
      BY <3>2, FS_CardinalityType
  <2>3. Most' = Most
    BY DEF Most, Asking
  <2>4. \A q \in Proc : at'[q] \in Clearing => at'[q] = at[q] /\ i'[q] = i[q] /\ j'[q] = j[q]
    BY GoesOnFacts DEF Elsewhere, Clearing
  <2>5. Most \in Nat
    BY MostIsNat
  <2> QED
    BY <1>1, <1>2, <2>2, <2>3, <2>4, <2>5, Crowds DEF Overlapping, Counters
<1> QED
  BY <1>1, <1>2, <1>4, <1>5

-----------------------------------------------------------------------------
(* The number of records stays in reach *)

\* As long as nobody begins to take an index and the number does not rise.
LEMMA OverlapKeeps ==
  ASSUME Counters, Counters', Overlapping, session' = session, count' <= count, sweeps' = sweeps,
         Taking' \subseteq Taking,
         \A q \in Proc : at'[q] \in Clearing => j'[q] <= i'[q] /\ i'[q] <= Most
  PROVE  Overlapping'
<1>1. Cardinality(Taking') <= Cardinality(Taking) /\ Cardinality(Taking') \in Nat
  BY Crowds, FS_Subset, FS_CardinalityType DEF Counters
<1>2. Most' = Most
  BY DEF Most, Asking
<1> QED
  BY <1>1, <1>2, MostIsNat, Crowds DEF Overlapping, Counters

LEMMA GotoFacts ==
  ASSUME Counters, NEW p \in Proc, NEW l \in Places, Goto(p, l)
  PROVE  at' \in [Proc -> Places] /\ at'[p] = l /\ \A q \in Proc \ {p} : at'[q] = at[q]
BY DEF Goto, Counters

LEMMA LookCounts ==
  ASSUME CInv, NEW p \in Proc, Look(p)
  PROVE  CInv'
<1> USE DEF CInv
<1>1. /\ UNCHANGED <<session, count, sweeps, clears, asked, j, ret, req>>
      /\ at[p] = "look" /\ Turn(p) /\ ret[p] \in Returns
  BY DEF Look, list, rest, Counters
<1>t. /\ crossed' \in BOOLEAN /\ (crossed => crossed')
      /\ ~crossed' => \A q \in Proc \ {p} : ~Inside(q)
  BY <1>1, TurnFacts
<1>2. /\ at' \in [Proc -> Places] /\ i' \in [Proc -> Nat]
      /\ at'[p] \in {"look", ret[p]} /\ \A q \in Proc \ {p} : at'[q] = at[q] /\ i'[q] = i[q]
  <2>1. CASE i[p] < count
    <3>1. i' = [i EXCEPT ![p] = @ + 1] /\ (Goto(p, ret[p]) \/ at' = at)
      BY <2>1 DEF Look
    <3>2. ret[p] \in Places
      BY <1>1 DEF Places
    <3> QED
      BY <1>1, <3>1, <3>2, GotoFacts DEF Counters
  <2>2. CASE ~(i[p] < count)
    <3>1. Goto(p, ret[p]) /\ i' = i
      BY <2>2 DEF Look
    <3>2. ret[p] \in Places
      BY <1>1 DEF Places
    <3> QED
      BY <1>1, <3>1, <3>2, GotoFacts DEF Counters
  <2> QED
    BY <2>1, <2>2
<1>3. Counters'
  BY <1>t, <1>1, <1>2 DEF Counters, Returns
<1>4. Busy'
  BY <1>1, <1>2 DEF Busy, Asking, Away
<1>5. at'[p] \notin {"take", "fill", "rest", "zero", "wipe"} \cup Clearing
  BY <1>1, <1>2 DEF Clearing, Returns
<1>6. ASSUME ~crossed'
      PROVE  Apart'
  <2>1. \A q \in Proc : Inside(q)' => q = p \/ Inside(q)
    BY <1>t, <1>1, <1>2 DEF Inside
  <2> QED
    BY <1>t, <1>1, <1>2, <1>3, <1>4, <1>5, <1>6, <2>1 DEF Apart, Alone
<1>7. Overlapping'
  <2>1. Taking' \subseteq Taking
    BY <1>2, <1>5 DEF Taking
  <2> QED
    BY <1>1, <1>2, <1>3, <1>4, <1>5, <2>1, OverlapKeeps DEF Overlapping, Counters
<1> QED
  BY <1>3, <1>4, <1>6, <1>7

LEMMA CheckCounts ==
  ASSUME CInv, NEW p \in Proc, Check(p)
  PROVE  CInv'
<1> USE DEF CInv
<1>1. /\ UNCHANGED <<session, count, sweeps, clears, asked, i, j, ret, req>>
      /\ at[p] = "check" /\ Turn(p)
  BY DEF Check, memory, list, rest
<1>t. /\ crossed' \in BOOLEAN /\ (crossed => crossed')
      /\ ~crossed' => \A q \in Proc \ {p} : ~Inside(q)
  BY <1>1, TurnFacts
<1>2. CASE count > CRED_VEC_SZ
  <2>1. Turns(p)
    BY <1>1, <1>t, <1>2 DEF Check, Turns, GoesOn, Elsewhere, Places, Away, Clearing, memory, list,
       rest
  <2> QED
    BY <2>1, TurnsKeep
<1>3. CASE ~(count > CRED_VEC_SZ)
  <2>1. /\ at' \in [Proc -> Places] /\ at'[p] = "take"
        /\ \A q \in Proc \ {p} : at'[q] = at[q]
    BY <1>3, GotoFacts DEF Check, Places, Saving
  <2>2. Counters' /\ Busy'
    BY <1>t, <1>1, <2>1 DEF Counters, Busy, Asking, Away
  <2>3. count <= CRED_VEC_SZ
    BY <1>3, SessionFacts DEF Counters
  <2>4. ASSUME ~crossed'
        PROVE  Apart'
    BY <1>t, <1>1, <2>1, <2>2, <2>3, <2>4 DEF Apart, Alone, Inside, Clearing
  <2>5. Overlapping'
    <3>1. Taking' \subseteq Asking
      BY <1>1, <2>1 DEF Taking, Busy, Away, Asking
    <3>2. Cardinality(Taking') <= Cardinality(Asking) /\ Cardinality(Taking') \in Nat
      <4>1. IsFiniteSet(Asking)
        BY Crowds DEF Counters
      <4>2. IsFiniteSet(Taking') /\ Cardinality(Taking') <= Cardinality(Asking)
        BY <3>1, <4>1, FS_Subset
      <4> QED
        BY <4>2, FS_CardinalityType
    <3>3. Most' = Most
      BY <1>1 DEF Most, Asking
    <3> QED
      BY <1>1, <2>1, <2>2, <2>3, <3>2, <3>3, MostIsNat, Crowds, SessionFacts
         DEF Overlapping, Counters, Clearing
  <2> QED
    BY <2>2, <2>4, <2>5
<1> QED
  BY <1>2, <1>3

LEMMA TakeCounts ==
  ASSUME CInv, NEW p \in Proc, TakeIndex(p)
  PROVE  CInv'
<1> USE DEF CInv
<1>1. /\ UNCHANGED <<session, sweeps, clears, asked, j, ret, req>>
      /\ at[p] = "take" /\ Turn(p) /\ i' = [i EXCEPT ![p] = count] /\ count' = count + 1
  BY DEF TakeIndex, list, rest
<1>t. /\ crossed' \in BOOLEAN /\ (crossed => crossed')
      /\ ~crossed' => \A q \in Proc \ {p} : ~Inside(q)
  BY <1>1, TurnFacts
<1>2. at' \in [Proc -> Places] /\ at'[p] = "fill" /\ \A q \in Proc \ {p} : at'[q] = at[q]
  BY GotoFacts DEF TakeIndex, Places, Saving
<1>3. Counters' /\ Busy'
  <2>1. Counters'
    <3>1. i' \in [Proc -> Nat] /\ count' \in Nat
      BY <1>t, <1>1 DEF Counters
    <3>2. \A q \in Proc : at'[q] = "look" => ret'[q] \in Returns
      BY <1>t, <1>1, <1>2 DEF Counters
    <3> QED
      BY <1>t, <1>1, <1>2, <3>1, <3>2 DEF Counters
  <2>2. Busy'
    BY <1>1, <1>2 DEF Busy, Asking, Away
  <2> QED
    BY <2>1, <2>2
<1>4. ASSUME ~crossed'
      PROVE  Apart'
  <2>1. \A q \in Proc \ {p} : ~Inside(q) /\ ~Inside(q)'
    BY <1>t, <1>1, <1>2, <1>4 DEF Inside, Counters
  <2>2. count <= CRED_VEC_SZ
    BY <1>t, <1>1, <1>4 DEF Apart
  <2>3. Alone'
    BY <1>t, <2>1 DEF Alone
  <2>4. \A q \in Proc \ {p} : at'[q] \in Clearing => j'[q] <= i'[q] /\ i'[q] <= count'
    BY <1>t, <1>1, <1>2, <1>4 DEF Apart, Counters
  <2> QED
    BY <1>t, <1>1, <1>2, <1>3, <1>4, <2>1, <2>2, <2>3, <2>4, SessionFacts
       DEF Apart, Inside, Clearing, Counters
<1>5. Overlapping'
  <2>1. Taking' = Taking \ {p} /\ p \in Taking
    BY <1>1, <1>2 DEF Taking
  <2>2. Cardinality(Taking') = Cardinality(Taking) - 1
    BY <2>1, Crowds, FS_RemoveElement DEF Counters
  <2>3. Most' = Most
    BY <1>1 DEF Most, Asking
  <2> QED
    BY <1>1, <1>2, <1>3, <2>2, <2>3, MostIsNat, Crowds
       DEF Overlapping, Counters, Clearing
<1> QED
  BY <1>3, <1>4, <1>5

LEMMA FillCounts ==
  ASSUME CInv, NEW p \in Proc, Fill(p)
  PROVE  CInv'
<1> USE DEF CInv
<1>1. /\ UNCHANGED <<session, count, sweeps, clears, asked, i, j, ret, req>>
      /\ at[p] = "fill" /\ Turn(p)
  BY DEF Fill, list, rest
<1>t. /\ crossed' \in BOOLEAN /\ (crossed => crossed')
      /\ ~crossed' => \A q \in Proc \ {p} : ~Inside(q)
  BY <1>1, TurnFacts
<1>2. at' \in [Proc -> Places] /\ at'[p] = "rest" /\ \A q \in Proc \ {p} : at'[q] = at[q]
  BY GotoFacts DEF Fill, Places, Saving
<1>3. Counters' /\ Busy'
  BY <1>t, <1>1, <1>2 DEF Counters, Busy, Asking, Away
<1>4. ASSUME ~crossed'
      PROVE  Apart'
  BY <1>t, <1>1, <1>2, <1>3, <1>4 DEF Apart, Alone, Inside, Clearing
<1>5. Overlapping'
  <2>1. Taking' \subseteq Taking
    BY <1>2 DEF Taking
  <2> QED
    BY <1>1, <1>2, <1>3, <2>1, OverlapKeeps DEF Overlapping, Clearing, Counters
<1> QED
  BY <1>3, <1>4, <1>5

LEMMA FinishCounts ==
  ASSUME CInv, NEW p \in Proc, Finish(p)
  PROVE  CInv'
<1> USE DEF CInv
<1>1. /\ UNCHANGED <<session, count, sweeps, clears, asked, req>> /\ at[p] = "end"
      /\ i' = [i EXCEPT ![p] = 0] /\ j' = [j EXCEPT ![p] = 0] /\ ret' = [ret EXCEPT ![p] = None]
  BY DEF Finish, memory, list, rest
<1>t. crossed' \in BOOLEAN /\ (crossed => crossed')
  BY DEF Finish, Counters
<1>2. /\ at' \in [Proc -> Places] /\ at'[p] \in {"sweep", "idle"}
      /\ \A q \in Proc \ {p} : at'[q] = at[q]
  <2>1. Goto(p, "sweep") \/ Goto(p, "idle")
    BY DEF Finish
  <2> QED
    BY <2>1, GotoFacts DEF Places, Clearing
<1>3. Counters' /\ Busy'
  <2>1. Counters'
    BY <1>t, <1>1, <1>2 DEF Counters
  <2>2. Busy'
    BY <1>1, <1>2 DEF Busy, Asking, Away
  <2> QED
    BY <2>1, <2>2
<1>4. ASSUME ~crossed'
      PROVE  Apart'
  <2>1. \A q \in Proc : Inside(q)' => Inside(q)
    BY <1>t, <1>1, <1>2 DEF Inside, Counters
  <2>2. \A q \in Proc \ {p} : i'[q] = i[q] /\ j'[q] = j[q]
    BY <1>t, <1>1 DEF Counters
  <2>3. i'[p] = 0 /\ j'[p] = 0
    BY <1>t, <1>1 DEF Counters
  <2> QED
    BY <1>t, <1>1, <1>2, <1>3, <1>4, <2>1, <2>2, <2>3 DEF Apart, Alone, Clearing, Counters
<1>5. Overlapping'
  <2>1. Taking' \subseteq Taking
    BY <1>2 DEF Taking
  <2> QED
    BY <1>1, <1>2, <1>3, <2>1, OverlapKeeps, MostIsNat DEF Overlapping, Counters
<1> QED
  BY <1>3, <1>4, <1>5

LEMMA SweepCounts ==
  ASSUME CInv, NEW p \in Proc, Sweep(p)
  PROVE  CInv'
<1> USE DEF CInv
<1>1. /\ UNCHANGED <<session, count, sweeps, clears, asked, ret, req>>
      /\ at[p] = "sweep" /\ Turn(p)
  BY DEF Sweep, list, rest
<1>t. /\ crossed' \in BOOLEAN /\ (crossed => crossed')
      /\ ~crossed' => \A q \in Proc \ {p} : ~Inside(q)
  BY <1>1, TurnFacts
<1>2. CASE i[p] < count
  <2>1. at' = at /\ i' = [i EXCEPT ![p] = @ + 1] /\ (j' = j \/ j' = [j EXCEPT ![p] = @ + 1])
    BY <1>2 DEF Sweep
  <2>2. /\ \A q \in Proc \ {p} : i'[q] = i[q] /\ j'[q] = j[q]
        /\ i'[p] = i[p] + 1 /\ j'[p] <= j[p] + 1
        /\ i' \in [Proc -> Nat] /\ j' \in [Proc -> Nat]
    BY <2>1 DEF Counters
  <2>3. Counters' /\ Busy'
    BY <1>t, <1>1, <2>1, <2>2 DEF Counters, Busy, Asking
  <2>4. ASSUME ~crossed'
        PROVE  Apart'
    <3>1. \A q \in Proc : Inside(q)' => q = p \/ Inside(q)
      BY <1>t, <2>1, <2>2 DEF Inside
    <3> QED
      BY <1>t, <1>1, <1>2, <2>1, <2>2, <2>3, <2>4, <3>1 DEF Apart, Alone, Clearing, Counters
  <2>5. Overlapping'
    <3>1. Taking' \subseteq Taking
      BY <2>1 DEF Taking
    <3>2. i[p] + 1 <= Most
      BY <1>2, MostIsNat, Crowds DEF Overlapping, Counters
    <3> QED
      BY <1>1, <2>1, <2>2, <2>3, <3>1, <3>2, OverlapKeeps
         DEF Overlapping, Counters, Clearing
  <2> QED
    BY <2>3, <2>4, <2>5
<1>3. CASE ~(i[p] < count)
  <2>1. /\ UNCHANGED <<i, j>> /\ at' \in [Proc -> Places] /\ at'[p] = "swept"
        /\ \A q \in Proc \ {p} : at'[q] = at[q]
    BY <1>3, GotoFacts DEF Sweep, Places, Clearing
  <2>2. Counters' /\ Busy'
    BY <1>t, <1>1, <2>1 DEF Counters, Busy, Asking, Away
  <2>3. ASSUME ~crossed'
        PROVE  Apart'
    <3>1. \A q \in Proc : Inside(q)' => q = p \/ Inside(q)
      BY <1>t, <2>1 DEF Inside
    <3> QED
      BY <1>t, <1>1, <2>1, <2>2, <2>3, <3>1 DEF Apart, Alone, Clearing
  <2>4. Overlapping'
    <3>1. Taking' \subseteq Taking
      BY <2>1 DEF Taking
    <3> QED
      BY <1>1, <2>1, <2>2, <3>1, OverlapKeeps DEF Overlapping, Counters, Clearing
  <2> QED
    BY <2>2, <2>3, <2>4
<1> QED
  BY <1>2, <1>3

\* What others did meanwhile may have lowered the number: it becomes what this
\* sweep has counted.
LEMMA SweptCounts ==
  ASSUME CInv, NEW p \in Proc, Swept(p)
  PROVE  CInv'
<1> USE DEF CInv
<1>1. /\ UNCHANGED <<session, clears, asked, i, j, ret, req>>
      /\ at[p] = "swept" /\ Turn(p) /\ count' = j[p] /\ sweeps' = sweeps + 1
  BY DEF Swept, list
<1>t. /\ crossed' \in BOOLEAN /\ (crossed => crossed')
      /\ ~crossed' => \A q \in Proc \ {p} : ~Inside(q)
  BY <1>1, TurnFacts
<1>2. at' \in [Proc -> Places] /\ at'[p] = "zero" /\ \A q \in Proc \ {p} : at'[q] = at[q]
  BY GotoFacts DEF Swept, Places
<1>3. Counters' /\ Busy'
  <2>1. Counters'
    BY <1>t, <1>1, <1>2 DEF Counters
  <2>2. Busy'
    BY <1>1, <1>2 DEF Busy, Asking, Away
  <2> QED
    BY <2>1, <2>2
<1>4. ASSUME ~crossed'
      PROVE  Apart'
  <2>1. \A q \in Proc \ {p} : ~Inside(q) /\ ~Inside(q)'
    BY <1>t, <1>1, <1>2, <1>4 DEF Inside
  <2>2. j[p] <= i[p] /\ i[p] <= count
    BY <1>t, <1>1, <1>4 DEF Apart, Clearing
  <2>3. \A q \in Proc \ {p} : at[q] \in Clearing => i[q] = 0 /\ j[q] = 0
    BY <1>t, <1>4, <2>1 DEF Apart, Inside, Clearing, Counters
  <2>4. Alone'
    BY <1>t, <2>1 DEF Alone
  <2>5. j[p] \in Nat /\ i[p] \in Nat /\ count \in Nat /\ CRED_VEC_SZ \in Nat
    BY SessionFacts DEF Counters
  <2>6. count' <= CRED_VEC_SZ + 1
    BY <1>t, <1>1, <1>4, <2>2, <2>5 DEF Apart
  <2>7. \A q \in Proc \ {p} : at'[q] \notin {"take", "fill", "rest", "zero", "wipe"}
    BY <1>t, <2>1 DEF Inside
  <2>8. \A q \in Proc \ {p} : at'[q] \in Clearing => j'[q] <= i'[q] /\ i'[q] <= count'
    BY <1>t, <1>1, <1>2, <2>3, <2>5
  <2> QED
    BY <1>t, <1>1, <1>2, <1>3, <1>4, <2>4, <2>6, <2>7, <2>8 DEF Apart, Clearing
<1>5. Overlapping'
  <2>1. Taking' \subseteq Taking
    BY <1>2 DEF Taking
  <2>2. Cardinality(Taking') <= Cardinality(Asking) /\ Cardinality(Taking') \in Nat
    <3>1. Taking \subseteq Asking
      BY DEF Taking, Busy, Away, Asking
    <3> QED
      BY <2>1, <3>1, Crowds, FS_Subset, FS_CardinalityType DEF Counters
  <2>3. Most' = Most + Cardinality(Asking)
    <3>1. Cardinality(Asking) \in Nat /\ CRED_VEC_SZ \in Nat /\ sweeps \in Nat
      BY Crowds, SessionFacts DEF Counters
    <3>2. Cardinality(Asking) * (1 + (sweeps + 1))
            = Cardinality(Asking) * (1 + sweeps) + Cardinality(Asking)
      BY <3>1
    <3>3. Cardinality(Asking) * (1 + sweeps) \in Nat
      BY <3>1
    <3> QED
      BY <1>1, <3>1, <3>2, <3>3 DEF Most, Asking
  <2>4. j[p] <= Most /\ \A q \in Proc : at[q] \in Clearing => i[q] <= Most
    BY <1>1, MostIsNat DEF Overlapping, Counters, Clearing
  <2> QED
    BY <1>1, <1>2, <1>3, <2>2, <2>3, <2>4, MostIsNat, Crowds
       DEF Overlapping, Counters, Clearing
<1> QED
  BY <1>3, <1>4, <1>5

LEMMA ZeroCounts ==
  ASSUME CInv, NEW p \in Proc, ZeroRest(p)
  PROVE  CInv'
<1>1. Turns(p)
  BY TurnFacts DEF ZeroRest, Turns, GoesOn, Returns, Away, rest, CInv
<1> QED
  BY <1>1, TurnsKeep

LEMMA AskCounts ==
  ASSUME CInv, NEW p \in Proc, Ask(p)
  PROVE  CInv'
<1> USE DEF CInv
<1>1. /\ UNCHANGED <<session, count, sweeps, clears, j>> /\ at[p] = "idle"
      /\ asked' = [asked EXCEPT ![p] = asked[p] + 1]
      /\ req' = [req EXCEPT ![p] = session.asks[p][asked[p] + 1]]
      /\ asked[p] + 1 <= Len(session.asks[p])
  BY DEF Ask, memory, list, rest
<1>t. crossed' \in BOOLEAN /\ (crossed => crossed')
  BY DEF Ask, Counters
<1>2. /\ session.asks[p] # <<>> /\ session.asks[p][asked[p] + 1] \in Request
      /\ session.asks[p][asked[p] + 1].service \in Services
      /\ session.asks[p][asked[p] + 1].realm \in Realm
  <2> DEFINE Wish == [service : {"krbtgt", "rcmd"}, realm : Realm]
  <2>1. session.asks[p] \in Seq(Wish)
    BY TicketsAssumption DEF Counters
  <2>2. \A r \in Wish : r \in Request /\ r.service \in Services /\ r.realm \in Realm
    BY DEF Request, Services
  <2>3. asked[p] \in Nat
    BY DEF Counters
  <2> HIDE DEF Wish
  <2>4. session.asks[p] # <<>> /\ session.asks[p][asked[p] + 1] \in Wish
    BY <1>1, <2>1, <2>3
  <2> QED
    BY <2>2, <2>4
<1>3. /\ at' \in [Proc -> Places] /\ ret' \in [Proc -> Returns \cup {None}]
      /\ i' \in [Proc -> Nat] /\ at'[p] \in {"look", "box"}
      /\ at'[p] = "look" => ret'[p] \in Returns /\ i'[p] = 0
      /\ \A q \in Proc \ {p} : at'[q] = at[q] /\ i'[q] = i[q] /\ ret'[q] = ret[q]
  <2>1. CASE p = Mgr
    <3>1. at' = [at EXCEPT ![p] = "box"] /\ UNCHANGED <<ret, i>>
      BY <2>1 DEF Ask, Goto
    <3> QED
      BY <3>1 DEF Counters, Places
  <2>2. CASE p # Mgr
    <3>1. GoesOn(p)
      BY <2>2 DEF Ask, GoesOn, Returns
    <3>2. at'[p] = "look"
      BY <2>2 DEF Ask, Search, Goto, Counters
    <3> QED
      BY <3>1, <3>2, GoesOnFacts
  <2> QED
    BY <2>1, <2>2
<1>4. Counters'
  <2>1. req' \in [Proc -> Request] /\ asked' \in [Proc -> Nat]
    BY <1>t, <1>1, <1>2 DEF Counters
  <2>2. \A q \in Proc : at'[q] = "look" => ret'[q] \in Returns
    BY <1>t, <1>3 DEF Counters
  <2> QED
    BY <1>t, <1>1, <1>3, <2>1, <2>2 DEF Counters
<1>5. Busy'
  <2>1. \A q \in Proc \ {p} : req'[q] = req[q]
    BY <1>1 DEF Counters
  <2>2. req'[p] = session.asks[p][asked[p] + 1]
    BY <1>1 DEF Counters
  <2> QED
    BY <1>1, <1>2, <1>3, <2>1, <2>2 DEF Busy, Asking
<1>6. ASSUME ~crossed'
      PROVE  Apart'
  <2>1. \A q \in Proc : Inside(q)' => Inside(q)
    BY <1>t, <1>1, <1>3 DEF Inside
  <2> QED
    BY <1>t, <1>1, <1>3, <1>4, <1>5, <1>6, <2>1 DEF Apart, Alone, Clearing
<1>7. Overlapping'
  <2>1. Taking' \subseteq Taking
    BY <1>3 DEF Taking
  <2> QED
    <3>1. at'[p] \notin Clearing /\ \A q \in Proc \ {p} : at'[q] = at[q] /\ i'[q] = i[q]
      BY <1>3 DEF Clearing
    <3>2. Counters /\ Overlapping /\ j' = j /\ count \in Nat
      BY <1>1 DEF Counters
    <3>3. \A q \in Proc : at'[q] \in Clearing => j'[q] <= i'[q] /\ i'[q] <= Most
      BY <3>1, <3>2 DEF Overlapping
    <3>4. Overlapping'
      BY <1>1, <1>4, <2>1, <3>2, <3>3, OverlapKeeps
    <3> QED
      BY <1>1, <1>4, <1>5, <3>4
<1> QED
  BY <1>4, <1>5, <1>6, <1>7

LEMMA ManagerCounts ==
  ASSUME CInv, DestTkt \/ Wipe
  PROVE  CInv'
<1> USE DEF CInv
<1> DEFINE l == IF at[Mgr] = "idle" THEN "wipe" ELSE "idle"
<1>1. /\ UNCHANGED <<session, sweeps, asked, i, j, ret, req>> /\ at[Mgr] \in Away
      /\ Turn(Mgr) /\ clears' \in Nat /\ count' \in {0, count} /\ Goto(Mgr, l)
      /\ l = "wipe" => count' = 0
  BY DEF DestTkt, Wipe, rest, Counters, Away
<1>t. /\ crossed' \in BOOLEAN /\ (crossed => crossed')
      /\ ~crossed' => \A q \in Proc \ {Mgr} : ~Inside(q)
  BY <1>1, TurnFacts DEF Proc
<1>2. /\ at' \in [Proc -> Places] /\ at'[Mgr] = l /\ l \in Away
      /\ \A q \in Proc \ {Mgr} : at'[q] = at[q]
  BY <1>1, GotoFacts DEF Places, Away, Proc
<1>3. Counters' /\ Busy'
  <2>1. Counters'
    BY <1>t, <1>1, <1>2 DEF Counters, Away
  <2>2. Busy'
    BY <1>1, <1>2 DEF Busy, Asking
  <2> QED
    BY <2>1, <2>2
<1>4. ASSUME ~crossed'
      PROVE  Apart'
  <2>1. \A q \in Proc \ {Mgr} : ~Inside(q) /\ ~Inside(q)'
    BY <1>t, <1>1, <1>2, <1>4 DEF Inside
  <2>2. Alone'
    BY <1>t, <2>1 DEF Alone
  <2>3. \A q \in Proc \ {Mgr} : at'[q] \in Clearing => i[q] = 0 /\ j[q] = 0
    BY <1>t, <1>2, <1>4, <2>1 DEF Apart, Inside, Clearing, Counters
  <2>4. \A q \in Proc \ {Mgr} : at'[q] \notin {"take", "fill", "rest", "zero", "wipe"}
    BY <1>t, <2>1 DEF Inside
  <2>5. count' \in Nat /\ count' <= count /\ CRED_VEC_SZ \in Nat
    BY <1>t, <1>1, SessionFacts DEF Counters
  <2>6. at'[Mgr] \notin {"take", "fill", "rest", "zero"} \cup Clearing
    BY <1>t, <1>2 DEF Away, Clearing
  <2> QED
    BY <1>t, <1>1, <1>2, <1>3, <1>4, <2>2, <2>3, <2>4, <2>5, <2>6 DEF Apart, Counters
<1>5. Overlapping'
  <2>1. Taking' \subseteq Taking
    BY <1>2 DEF Taking, Away
  <2>2. count' <= count
    BY <1>1 DEF Counters
  <2>3. \A q \in Proc : at'[q] \in Clearing => at[q] \in Clearing
    BY <1>2 DEF Away, Clearing
  <2> QED
    BY <1>1, <1>3, <2>1, <2>2, <2>3, OverlapKeeps DEF Overlapping, Counters
<1> QED
  BY <1>3, <1>4, <1>5

LEMMA OthersCount ==
  ASSUME CInv, ChangePassword \/ Restore \/ Lists \/ UNCHANGED vars
  PROVE  CInv'
<1>1. UNCHANGED <<session, count, sweeps, clears, at, asked, i, j, ret, req, crossed>>
  BY DEF ChangePassword, Restore, Lists, EvUpdateCache, ListNext, vars, memory, local, list, rest
<1> QED
  BY <1>1 DEF CInv, Counters, Busy, Apart, Alone, Inside, Overlapping, Taking, Most, Asking

LEMMA InitCounts == Init => CInv
<1> SUFFICES ASSUME Init PROVE CInv
  OBVIOUS
<1>1. count \in Nat /\ count <= CRED_VEC_SZ
  BY SessionFacts DEF Init
<1>2. Counters
  BY <1>1 DEF Init, Counters, Places, Request
<1>3. \A p \in Proc : at[p] = "idle"
  BY DEF Init
<1>4. Busy
  BY <1>3 DEF Busy, Away
<1>5. Apart
  BY <1>1, <1>2, <1>3, SessionFacts DEF Apart, Counters, Alone, Inside, Clearing
<1>6. Overlapping
  <2>1. Taking = {}
    BY <1>3 DEF Taking
  <2>2. Cardinality(Taking) = 0
    BY <2>1, FS_EmptySet
  <2> QED
    BY <1>1, <1>2, <1>3, <2>2, MostIsNat, SessionFacts DEF Overlapping, Clearing, Counters
<1> QED
  BY <1>2, <1>4, <1>5, <1>6 DEF CInv

LEMMA NextCounts ==
  ASSUME CInv, [Next]_vars
  PROVE  CInv'
<1>1. ASSUME NEW p \in Proc, Step(p)
      PROVE  CInv'
  <2>1. CASE Look(p) \/ Check(p) \/ TakeIndex(p) \/ Fill(p) \/ Finish(p) \/ Sweep(p)
             \/ Swept(p) \/ ZeroRest(p)
    BY <2>1, LookCounts, CheckCounts, TakeCounts, FillCounts, FinishCounts, SweepCounts,
       SweptCounts, ZeroCounts
  <2>2. CASE \/ Status(p) \/ Box(p) \/ Again(p) \/ InitialTicket(p) \/ Logged(p) \/ Have(p)
             \/ Granting(p) \/ ServiceTicket(p) \/ Mine(p) \/ Final(p) \/ Server(p)
             \/ FillRest(p)
    BY <2>2, SmallSteps, TurnsKeep DEF CInv
  <2> QED
    BY <1>1, <2>1, <2>2 DEF Step
<1>2. ASSUME NEW p \in Proc, Ask(p)
      PROVE  CInv'
  BY <1>2, AskCounts
<1> QED
  BY <1>1, <1>2, ManagerCounts, OthersCount DEF Next

\* The numbers are those of CInv whatever happens.

THEOREM CInvAlways == Spec => []CInv
<1>1. Init => CInv
  BY InitCounts
<1>2. CInv /\ [Next]_vars => CInv'
  BY NextCounts
<1> QED
  BY <1>1, <1>2, PTL DEF Spec

\* One record more than the vector has, or one for each process that asks and
\* each sweep, is the most there is (nextFreeIndex, wkrb_dest_tkt_realm).

THEOREM StaysInReach == Spec => []InReach
<1>1. CInv => InReach
  <2> SUFFICES ASSUME CInv PROVE InReach
    OBVIOUS
  <2>1. CASE ~crossed
    BY <2>1 DEF CInv, Apart, InReach
  <2>2. CASE crossed
    BY <2>2, Crowds, MostIsNat DEF CInv, Counters, Overlapping, InReach, Most
  <2> QED
    BY <2>1, <2>2
<1> QED
  BY <1>1, CInvAlways, PTL

-----------------------------------------------------------------------------
(* What p does leaves what the others hold *)

Frame(p) ==
  /\ session' = session /\ (clears' = 0 => clears = 0)
  /\ \A q \in Proc \ {p} :
       /\ at'[q] = at[q] /\ i'[q] = i[q] /\ j'[q] = j[q] /\ look'[q] = look[q]
       /\ ret'[q] = ret[q] /\ req'[q] = req[q] /\ got'[q] = got[q] /\ sent'[q] = sent[q]
       /\ new'[q] = new[q] /\ from'[q] = from[q]

LEMMA Framed ==
  ASSUME Counters, Contents, NEW p \in Proc, Step(p) \/ Ask(p)
  PROVE  Frame(p)
<1> USE DEF Counters, Contents, Frame, Goto, Search, End, Quiet, memory, list, rest
<1>1. CASE Look(p)
  BY <1>1 DEF Look
<1>2. CASE Check(p)
  BY <1>2 DEF Check
<1>3. CASE TakeIndex(p)
  BY <1>3 DEF TakeIndex
<1>4. CASE Fill(p)
  BY <1>4 DEF Fill
<1>5. CASE FillRest(p)
  BY <1>5 DEF FillRest
<1>6. CASE Status(p)
  BY <1>6 DEF Status
<1>7. CASE Box(p)
  BY <1>7 DEF Box
<1>8. CASE Again(p)
  BY <1>8 DEF Again
<1>9. CASE InitialTicket(p)
  BY <1>9 DEF InitialTicket
<1>10. CASE Logged(p)
  BY <1>10 DEF Logged
<1>11. CASE Have(p)
  BY <1>11 DEF Have
<1>12. CASE Granting(p)
  BY <1>12 DEF Granting
<1>13. CASE ServiceTicket(p)
  BY <1>13 DEF ServiceTicket
<1>14. CASE Mine(p)
  BY <1>14 DEF Mine
<1>15. CASE Final(p)
  BY <1>15 DEF Final
<1>16. CASE Server(p)
  BY <1>16 DEF Server
<1>17. CASE Finish(p)
  BY <1>17 DEF Finish
<1>18. CASE Sweep(p)
  BY <1>18 DEF Sweep
<1>19. CASE Swept(p)
  BY <1>19 DEF Swept
<1>20. CASE ZeroRest(p)
  BY <1>20 DEF ZeroRest
<1>21. CASE Ask(p)
  BY <1>21 DEF Ask
<1> QED
  BY <1>1, <1>2, <1>3, <1>4, <1>5, <1>6, <1>7, <1>8, <1>9, <1>10, <1>11,
     <1>12, <1>13, <1>14, <1>15, <1>16, <1>17, <1>18, <1>19, <1>20, <1>21 DEF Step

-----------------------------------------------------------------------------
(* What is left to show of a step of p *)

LEMMA CalmBefore ==
  ASSUME session' = session, clears' = 0 => clears = 0
  PROVE  (Calm' => Calm) /\ Asking' = Asking /\ \A r : UserOf(r)' = UserOf(r)
BY DEF Calm, Asking, UserOf

LEMMA OthersOwn ==
  ASSUME CInv, CInv', Contents, Contents', NEW p \in Proc, Frame(p), NEW q \in Proc \ {p}, Own(q),
         \A r \in Realm : epoch[r] <= epoch'[r]
  PROVE  Own(q)'
<1>1. session' = session /\ (clears' = 0 => clears = 0)
      /\ at'[q] = at[q] /\ look'[q] = look[q] /\ ret'[q] = ret[q]
      /\ req'[q] = req[q] /\ got'[q] = got[q] /\ sent'[q] = sent[q] /\ new'[q] = new[q]
      /\ from'[q] = from[q]
  BY DEF Frame
<1>2. \A c : Seen(q, c) => Seen(q, c)'
  BY <1>1, CalmBefore DEF Seen, Rightful
<1>3. Begun(q)'
  <2>1. at[q] \notin Away => req[q].realm \in Realm
    BY DEF CInv, Busy
  <2>2. at[q] \notin Away => epoch[req[q].realm] \in Nat /\ epoch'[req[q].realm] \in Nat
                              /\ from[q] \in Nat
    BY <2>1 DEF Contents
  <2> QED
    BY <1>1, <2>1, <2>2 DEF Own, Begun
<1>4. Fetched(q)' /\ Shown(q)' /\ Serving(q)'
  BY <1>1, <1>2 DEF Own, Fetched, Found, Shown, Showing, Serving
<1>5. Wanted(q)' /\ Granted(q)'
  BY <1>1, CalmBefore DEF Own, Wanted, Granted
<1> QED
  BY <1>3, <1>4, <1>5 DEF Own

\* p gives the memory the principal of its own realm, or none.
Renames(p) ==
  \/ pname' = pname
  \/ p \in Asking /\ req[p].realm \in Realm /\ (Calm => pname' = UserOf(req[p].realm))

LEMMA OthersNamed ==
  ASSUME CInv, NEW p \in Proc, Frame(p), NEW q \in Proc \ {p}, Named(q), Renames(p)
  PROVE  Named(q)'
<1>1. session' = session /\ (clears' = 0 => clears = 0)
      /\ at'[q] = at[q] /\ req'[q] = req[q] /\ got'[q] = got[q]
  BY DEF Frame
<1>2. Naming(q)' <=> Naming(q)
  BY <1>1 DEF Naming, Found
<1>3. CASE pname' = pname
  BY <1>1, <1>2, <1>3, CalmBefore DEF Named
<1>4. CASE p \in Asking /\ req[p].realm \in Realm /\ (Calm => pname' = UserOf(req[p].realm))
  <2>1. Naming(q) => q \in Asking /\ req[q].realm \in Realm
    BY DEF Naming, CInv, Busy, Away, Saving
  <2>2. Calm /\ Naming(q) => UserOf(req[p].realm) = UserOf(req[q].realm)
    BY <1>4, <2>1, OneUser DEF CInv, Counters
  <2> QED
    BY <1>1, <1>2, <1>4, <2>2, CalmBefore DEF Named
<1> QED
  BY <1>3, <1>4 DEF Renames

LEMMA Together ==
  ASSUME CInv, CInv', HInv, NEW p \in Proc, Frame(p), Contents', Current', Kept',
         \A r \in Realm : epoch[r] <= epoch'[r], Renames(p), Own(p)', Named(p)'
  PROVE  HInv'
<1>1. \A q \in Proc \ {p} : Own(q)' /\ Named(q)'
  BY OthersOwn, OthersNamed DEF HInv
<1> QED
  BY <1>1 DEF HInv

LEMMA EpochStays ==
  ASSUME Contents, epoch' = epoch
  PROVE  \A r \in Realm : epoch[r] <= epoch'[r]
BY DEF Contents

\* p leaves the records alone.
LEMMA ShelfKept ==
  ASSUME CInv, Current, Kept, NEW p \in Proc, Frame(p), UNCHANGED <<cred, count, epoch>>,
         at[p] \notin {"fill", "rest"}, at'[p] \notin {"fill", "rest"},
         at'[p] \in Clearing =>
           j'[p] = 0 \/ (at[p] \in Clearing /\ j'[p] = j[p] /\ req'[p] = req[p])
  PROVE  Current' /\ Kept'
<1>1. \A n : BeingFilled(n)' <=> BeingFilled(n)
  BY DEF Frame, BeingFilled
<1>2. \A n : Right(cred[n]) => Right(cred[n])'
  BY CalmBefore DEF Frame, Right, Rightful
<1>3. Current'
  BY <1>1, <1>2 DEF Current
<1>4. Kept'
  BY DEF Kept, Frame
<1> QED
  BY <1>3, <1>4

-----------------------------------------------------------------------------
(* Steps that leave the memory alone *)

\* Of a step that goes on, only what it goes on with and to is left to look at.
LEMMA Leaves ==
  ASSUME CInv, CInv', HInv, NEW p \in Proc, Frame(p), Contents',
         UNCHANGED <<cred, count, pname, epoch>>,
         at[p] \notin {"fill", "rest"}, at'[p] \notin {"fill", "rest"} \cup Clearing,
         Own(p)', Named(p)'
  PROVE  HInv'
<1>1. Current' /\ Kept'
  BY ShelfKept DEF HInv
<1> QED
  BY <1>1, EpochStays, Together DEF HInv, Renames

\* Working: p is in a request and has not found that it must begin again.
Working(p) == at[p] \notin Away \cup Clearing \cup {"zero"}

LEMMA SearchOwn ==
  ASSUME CInv, HInv, NEW p \in Proc, Working(p), NEW service \in Services, NEW label \in Returns,
         Search(p, service, label), UNCHANGED <<session, clears, req, got, from, epoch>>,
         label \in {"mine", "final"} => Seen(p, sent'[p]),
         label = "tgt" => service = "krbtgt"
  PROVE  Own(p)' /\ Named(p)' /\ look' \in [Proc -> Services \cup {None}] /\ at'[p] = "look"
<1>1. /\ at'[p] = "look" /\ look'[p] = service /\ ret'[p] = label
      /\ look' \in [Proc -> Services \cup {None}]
  BY DEF Search, Goto, CInv, Counters, HInv, Contents
<1>2. \A c : Seen(p, c) => Seen(p, c)'
  BY CalmBefore DEF Seen, Rightful
<1>3. Begun(p)' /\ Fetched(p)'
  BY <1>1, <1>2 DEF HInv, Own, Begun, Fetched, Found, Working, Clearing, Away
<1>4. Shown(p)'
  <2>1. sent'[p] = sent[p] \/ sent'[p] # sent[p]
    OBVIOUS
  <2> QED
    BY <1>1, <1>2 DEF Shown, Showing
<1>5. Serving(p)' /\ Wanted(p)' /\ Granted(p)' /\ Named(p)'
  BY <1>1 DEF Serving, Wanted, Granted, Named, Naming, Saving
<1> QED
  BY <1>1, <1>3, <1>4, <1>5 DEF Own

LEMMA GotoOwn ==
  ASSUME CInv, HInv, NEW p \in Proc, Working(p), NEW l \in Elsewhere,
         Goto(p, l), UNCHANGED <<session, clears, req, got, from, epoch>>,
         l \in {"mine", "final", "server"} => Seen(p, sent'[p]),
         l \in {"tgs", "server"} => Found(p),
         l \in Saving => /\ new'[p].service \in Services /\ new'[p].realm = req[p].realm
                         /\ Calm => new'[p].owner = UserOf(req[p].realm),
         Calm /\ (l \in Saving \cup {"tgs"} \/ (l = "tgt" /\ Found(p)))
           => pname' = UserOf(req[p].realm)
  PROVE  Own(p)' /\ Named(p)' /\ at'[p] = l
<1>1. at'[p] = l
  BY DEF Goto, CInv, Counters
<1>2. \A c : Seen(p, c) => Seen(p, c)'
  BY CalmBefore DEF Seen, Rightful
<1>3. l \notin Away \cup Clearing \cup {"zero", "look"}
  BY DEF Elsewhere, Away, Clearing
<1>4. Begun(p)' /\ Fetched(p)' /\ Granted(p)'
  BY <1>1, <1>2, <1>3 DEF HInv, Own, Begun, Fetched, Found, Working, Granted
<1>5. Shown(p)' /\ Serving(p)'
  BY <1>1, <1>2, <1>3 DEF Shown, Showing, Serving, Found
<1>6. Wanted(p)' /\ Named(p)'
  BY <1>1, CalmBefore DEF Wanted, Named, Naming, Found
<1> QED
  BY <1>1, <1>4, <1>5, <1>6 DEF Own

\* What the places of these steps have in common.
LEMMA AtWork ==
  ASSUME HInv, NEW p \in Proc,
         at[p] \in Returns \cup {"box", "as", "tgs", "server", "check", "look", "rest"}
  PROVE  Working(p)
BY DEF Working, Returns, Away, Clearing

Records ==
  UNCHANGED <<cred, count, pname, epoch>>

LEMMA QuietOwn ==
  ASSUME CInv, HInv, NEW p \in Proc,
         \/ Status(p) \/ Box(p) \/ Again(p) \/ Logged(p) \/ Have(p) \/ Granting(p)
         \/ ServiceTicket(p) \/ Mine(p) \/ Final(p) \/ Server(p) \/ Check(p)
  PROVE  /\ Records /\ Contents'
         /\ at[p] \notin {"fill", "rest"} /\ at'[p] \notin {"fill", "rest"} \cup Clearing
         /\ Own(p)' /\ Named(p)'
<1> DEFINE Goal == /\ Records /\ Contents'
                   /\ at[p] \notin {"fill", "rest"} /\ at'[p] \notin {"fill", "rest"} \cup Clearing
                   /\ Own(p)' /\ Named(p)'
<1>w. Working(p)
  BY AtWork DEF Returns, Status, Box, Again, Logged, Have, Granting, ServiceTicket, Mine, Final,
     Server, Check
<1>q. req[p].service \in Services /\ req[p].realm \in Realm
  BY <1>w DEF Working, CInv, Busy
<1>e. Elsewhere \cap ({"fill", "rest"} \cup Clearing) = {}
  BY DEF Elsewhere
<1>o. Own(p) /\ Named(p)
  BY DEF HInv
<1>s. ASSUME NEW service \in Services, NEW label \in Returns, Search(p, service, label),
             Records, UNCHANGED <<session, clears, req, got, from, new>>,
             at[p] \notin {"fill", "rest"},
             sent' \in [Proc -> Record],
             label \in {"mine", "final"} => Seen(p, sent'[p]),
             label = "tgt" => service = "krbtgt"
      PROVE  Goal
  <2>1. Own(p)' /\ Named(p)' /\ look' \in [Proc -> Services \cup {None}] /\ at'[p] = "look"
    BY <1>w, <1>s, SearchOwn DEF Records
  <2> QED
    BY <1>s, <2>1 DEF Records, HInv, Contents, Clearing
<1>g. ASSUME NEW l \in Elsewhere, Goto(p, l), look' = look,
             Records, UNCHANGED <<session, clears, req, got, from, sent>>,
             at[p] \notin {"fill", "rest"},
             new' \in [Proc -> Record],
             l \in {"mine", "final", "server"} => Seen(p, sent[p]),
             l \in {"tgs", "server"} => Found(p),
             l \in Saving => /\ new'[p].service \in Services /\ new'[p].realm = req[p].realm
                             /\ Calm => new'[p].owner = UserOf(req[p].realm),
             Calm /\ (l \in Saving \cup {"tgs"} \/ (l = "tgt" /\ Found(p)))
               => pname = UserOf(req[p].realm)
      PROVE  Goal
  <2>1. Own(p)' /\ Named(p)' /\ at'[p] = l
    BY <1>w, <1>g, GotoOwn DEF Records
  <2> QED
    BY <1>e, <1>g, <2>1 DEF Records, HInv, Contents
<1>p. {"box", "as", "check", "tgs", "server", "end"} \subseteq Elsewhere
  BY DEF Elsewhere, Places, Returns, Saving, Clearing
<1>t. new \in [Proc -> Record] /\ sent \in [Proc -> Record] /\ got[p] \in Record
  BY DEF HInv, Contents
<1> SUFFICES Goal
  OBVIOUS
<1> HIDE DEF Goal
<1> USE DEF Quiet, Records, memory, list, rest
<1>1. CASE Status(p)
  <2>1. CASE Found(p)
    BY <1>1, <1>q, <1>s, <1>t, <2>1 DEF Status, Returns
  <2>2. CASE ~Found(p)
    BY <1>1, <1>g, <1>p, <1>t, <2>2 DEF Status, Saving
  <2> QED
    BY <2>1, <2>2
<1>2. CASE Box(p)
  <2>1. CASE Search(p, "krbtgt", "again")
    BY <1>2, <1>s, <1>t, <2>1 DEF Box, Returns, Services
  <2>2. CASE End(p, "KFAILURE") /\ UNCHANGED <<look, ret, i>>
    BY <1>2, <1>g, <1>p, <1>t, <2>2 DEF Box, End, Saving
  <2> QED
    BY <1>2, <2>1, <2>2 DEF Box
<1>3. CASE Again(p)
  <2>1. CASE Found(p)
    BY <1>3, <1>s, <1>t, <2>1 DEF Again, Returns, Services
  <2>2. CASE ~Found(p)
    BY <1>3, <1>g, <1>p, <1>t, <2>2 DEF Again, Saving
  <2> QED
    BY <2>1, <2>2
<1>4. CASE Logged(p)
  <2>1. CASE Found(p) /\ p # Mgr
    BY <1>4, <1>q, <1>s, <1>t, <2>1 DEF Logged, Returns
  <2>2. CASE ~Found(p) \/ p = Mgr
    <3>1. Goto(p, "end") /\ UNCHANGED <<look, ret, i>>
      BY <1>4, <2>2 DEF Logged, End
    <3> QED
      BY <1>4, <1>g, <1>p, <1>t, <3>1 DEF Logged, Saving
  <2> QED
    BY <2>1, <2>2
<1>5. CASE Have(p)
  <2>1. CASE Found(p)
    <3>1. Seen(p, got[p])
      BY <1>o, <2>1 DEF Own, Fetched
    <3>2. Search(p, "krbtgt", "mine") /\ sent' = [sent EXCEPT ![p] = got[p]]
      BY <1>5, <2>1 DEF Have
    <3>3. sent' \in [Proc -> Record] /\ sent'[p] = got[p]
      BY <1>t, <3>2
    <3> QED
      BY <1>5, <1>s, <3>1, <3>2, <3>3 DEF Have, Returns, Services
  <2>2. CASE ~Found(p) /\ at[p] = "have"
    BY <1>5, <1>s, <1>t, <2>2 DEF Have, Returns, Services
  <2>3. CASE ~Found(p) /\ at[p] # "have"
    BY <1>5, <1>g, <1>p, <1>t, <2>3 DEF Have, End, Saving
  <2> QED
    BY <2>1, <2>2, <2>3
<1>6. CASE Granting(p)
  <2>1. CASE Found(p)
    BY <1>6, <1>g, <1>o, <1>p, <1>t, <2>1 DEF Granting, Named, Naming, Saving
  <2>2. CASE ~Found(p)
    BY <1>6, <1>g, <1>p, <1>t, <2>2 DEF Granting, End, Saving
  <2> QED
    BY <2>1, <2>2
<1>7. CASE ServiceTicket(p)
  <2>1. CASE Goto(p, "check") /\ Accepted(got[p])
              /\ new' = [new EXCEPT ![p] = Rec(req[p].service, req[p].realm, None, got[p].owner,
                                               TRUE, 0)]
    <3>1. Calm => pname = UserOf(req[p].realm)
      BY <1>7, <1>o DEF ServiceTicket, Named, Naming
    <3>2. Found(p) /\ Seen(p, got[p])
      BY <1>7, <1>o DEF ServiceTicket, Own, Serving, Fetched
    <3>3. Calm => got[p].owner = UserOf(req[p].realm)
      BY <3>2 DEF Seen, Rightful
    <3> DEFINE ticket == Rec(req[p].service, req[p].realm, None, got[p].owner, TRUE, 0)
    <3>4. /\ ticket \in Record /\ ticket.service = req[p].service
          /\ ticket.realm = req[p].realm /\ ticket.owner = got[p].owner
      BY <1>q, <1>t DEF Rec, Record
    <3>5. new' \in [Proc -> Record] /\ new'[p] = ticket
      BY <1>t, <2>1, <3>4
    <3>6. Goal
      <4> HIDE DEF ticket
      <4> QED
        BY <1>7, <1>g, <1>p, <1>q, <1>t, <2>1, <3>1, <3>3, <3>4, <3>5 DEF ServiceTicket
    <3> QED
      BY <3>6
  <2>2. CASE End(p, "error") /\ new' = new
    BY <1>7, <1>g, <1>p, <1>t, <2>2 DEF ServiceTicket, End, Saving
  <2> QED
    BY <1>7, <2>1, <2>2 DEF ServiceTicket
<1>8. CASE Mine(p)
  <2>1. CASE ~Found(p) /\ NoRealm
    BY <1>8, <1>g, <1>p, <1>t, <2>1 DEF Mine, End, Saving
  <2>2. CASE ~(~Found(p) /\ NoRealm)
    <3>1. /\ Search(p, req[p].service, "final")
          /\ sent' = [sent EXCEPT ![p].good = @ /\ Found(p)]
      BY <1>8, <2>2 DEF Mine
    <3>2. sent[p].good \in BOOLEAN /\ sent[p] \in Record
      BY <1>t DEF Record
    <3>3. /\ sent' \in [Proc -> Record]
          /\ sent'[p].realm = sent[p].realm /\ sent'[p].epoch = sent[p].epoch
          /\ sent'[p].owner = sent[p].owner /\ sent'[p].pname = sent[p].pname
      BY <1>t, <3>1, <3>2 DEF Record
    <3>4. Seen(p, sent[p])
      BY <1>8, <1>o DEF Mine, Own, Shown, Showing
    <3>5. Seen(p, sent'[p])
      BY <3>3, <3>4 DEF Seen, Rightful
    <3> QED
      BY <1>8, <1>q, <1>s, <3>1, <3>3, <3>5 DEF Mine, Returns
  <2> QED
    BY <2>1, <2>2
<1>9. CASE Final(p)
  <2>1. CASE Found(p)
    <3>1. Seen(p, sent[p])
      BY <1>9, <1>o DEF Final, Own, Shown, Showing
    <3> QED
      BY <1>9, <1>g, <1>p, <1>t, <2>1, <3>1 DEF Final, Saving
  <2>2. CASE ~Found(p)
    BY <1>9, <1>g, <1>p, <1>t, <2>2 DEF Final, End, Saving
  <2> QED
    BY <2>1, <2>2
<1>10. CASE Server(p)
  BY <1>10, <1>g, <1>p, <1>t DEF Server, End, Saving
<1>11. CASE Check(p)
  <2>1. CASE count > CRED_VEC_SZ
    BY <1>11, <1>g, <1>p, <1>t, <2>1 DEF Check, Saving
  <2>2. CASE ~(count > CRED_VEC_SZ)
    <3>1. /\ Records /\ UNCHANGED <<session, clears, req, got, from, sent, new, look, ret>>
          /\ at[p] = "check" /\ at'[p] = "take"
      BY <1>11, <2>2 DEF Check, Goto, CInv, Counters
    <3>2. Contents'
      BY <3>1 DEF HInv, Contents
    <3>3. Own(p)'
      BY <1>o, <3>1, CalmBefore
         DEF Own, Begun, Fetched, Found, Shown, Showing, Serving, Wanted, Granted, Seen, Rightful,
             Away, Clearing, Saving
    <3>4. Named(p)'
      BY <1>o, <3>1, CalmBefore DEF Named, Naming, Saving
    <3> QED
      BY <3>1, <3>2, <3>3, <3>4 DEF Goal, Clearing
  <2> QED
    BY <2>1, <2>2
<1> QED
  BY <1>1, <1>2, <1>3, <1>4, <1>5, <1>6, <1>7, <1>8, <1>9, <1>10, <1>11

LEMMA QuietStep ==
  ASSUME CInv, HInv, NEW p \in Proc,
         \/ Status(p) \/ Box(p) \/ Again(p) \/ Logged(p) \/ Have(p) \/ Granting(p)
         \/ ServiceTicket(p) \/ Mine(p) \/ Final(p) \/ Server(p) \/ Check(p)
  PROVE  HInv'
<1>1. CInv'
  BY SmallSteps, TurnsKeep, CheckCounts DEF CInv
<1>2. Frame(p)
  BY Framed DEF CInv, HInv, Step
<1> QED
  BY <1>1, <1>2, QuietOwn, Leaves DEF Records

LEMMA FinishStep ==
  ASSUME CInv, HInv, NEW p \in Proc, Finish(p)
  PROVE  HInv'
<1>1. CInv' /\ Frame(p)
  BY FinishCounts, Framed DEF CInv, HInv, Step
<1>2. /\ UNCHANGED <<session, clears, cred, count, pname, epoch, req, from>> /\ at[p] = "end"
      /\ at'[p] \in {"sweep", "idle"}
      /\ got' = [got EXCEPT ![p] = Zero] /\ sent' = [sent EXCEPT ![p] = Zero]
      /\ new' = [new EXCEPT ![p] = Zero]
      /\ look' = [look EXCEPT ![p] = None] /\ j' = [j EXCEPT ![p] = 0]
  BY DEF Finish, Goto, CInv, Counters, memory, list, rest
<1>3. Zero \in Record /\ Zero.service = None
  BY DEF Zero, Rec, Record
<1>4. Contents' /\ got'[p] = Zero
  BY <1>2, <1>3 DEF HInv, Contents
<1>5. Current' /\ Kept'
  <2>1. j'[p] = 0
    BY <1>2 DEF CInv, Counters
  <2> QED
    BY <1>1, <1>2, <2>1, ShelfKept DEF HInv
<1>6. Own(p)'
  <2>1. Begun(p)'
    BY <1>2 DEF HInv, Own, Begun, Away
  <2> QED
    BY <1>2, <1>3, <1>4, <2>1
       DEF Own, Fetched, Found, Shown, Showing, Serving, Wanted, Granted, Saving
<1>7. Named(p)'
  BY <1>2 DEF Named, Naming, Saving
<1> QED
  BY <1>1, <1>2, <1>4, <1>5, <1>6, <1>7, EpochStays, Together DEF HInv, Renames

\* A request begins with what its realm's epoch is then.
LEMMA AskStep ==
  ASSUME CInv, HInv, NEW p \in Proc, Ask(p)
  PROVE  HInv'
<1>1. CInv' /\ Frame(p)
  BY AskCounts, Framed DEF CInv, HInv
<1> DEFINE wish == session.asks[p][asked[p] + 1]
<1>2. /\ UNCHANGED <<session, clears, cred, count, pname, epoch, got, sent, new>> /\ at[p] = "idle"
      /\ req' = [req EXCEPT ![p] = wish] /\ from' = [from EXCEPT ![p] = epoch[wish.realm]]
  BY DEF Ask, memory, list, rest
<1>3. /\ at'[p] \in {"look", "box"} /\ look' \in [Proc -> Services \cup {None}]
      /\ at'[p] = "look" => ret'[p] = "status"
  <2>1. CASE p = Mgr
    BY <2>1 DEF Ask, Goto, CInv, Counters, HInv, Contents
  <2>2. CASE p # Mgr
    <3>1. /\ look' = [look EXCEPT ![p] = "krbtgt"] /\ ret' = [ret EXCEPT ![p] = "status"]
          /\ at' = [at EXCEPT ![p] = "look"]
      BY <2>2 DEF Ask, Search, Goto
    <3> QED
      BY <3>1 DEF CInv, Counters, HInv, Contents, Services
  <2> QED
    BY <2>1, <2>2
<1>4. req'[p] = wish /\ wish.realm \in Realm
  <2>1. req'[p] = wish
    BY <1>2 DEF CInv, Counters
  <2> QED
    BY <1>1, <1>3, <2>1 DEF CInv, Busy, Away
<1>5. Contents' /\ from'[p] = epoch[wish.realm]
  BY <1>2, <1>3, <1>4 DEF HInv, Contents
<1>6. Current' /\ Kept'
  BY <1>1, <1>2, <1>3, ShelfKept DEF HInv, Clearing
<1>7. Own(p)'
  <2>1. ~Found(p)
    BY <1>2 DEF HInv, Own, Fetched, Away
  <2>2. Begun(p)'
    BY <1>2, <1>4, <1>5 DEF Begun, HInv, Contents
  <2> QED
    BY <1>2, <1>3, <2>1, <2>2
       DEF Own, Fetched, Found, Shown, Showing, Serving, Wanted, Granted, Saving
<1>8. Named(p)'
  BY <1>3 DEF Named, Naming, Saving
<1> QED
  BY <1>1, <1>2, <1>5, <1>6, <1>7, <1>8, EpochStays, Together DEF HInv, Renames

-----------------------------------------------------------------------------
(* Searches, and the principal *)

LEMMA InitialStep ==
  ASSUME CInv, HInv, NEW p \in Proc, InitialTicket(p)
  PROVE  HInv'
<1>1. CInv' /\ Frame(p)
  BY SmallSteps, TurnsKeep, Framed DEF CInv, HInv, Step
<1>2. UNCHANGED <<session, clears, cred, count, epoch, req, look, got, sent, from>> /\ at[p] = "as"
  BY DEF InitialTicket, list, rest
<1>3. req[p].realm \in Realm /\ p \in Asking
  BY <1>2 DEF CInv, Busy, Away
<1>4. UserOf(req[p].realm) \in User
  BY <1>3, SessionFacts DEF UserOf, CInv, Counters
<1>5. Working(p)
  BY <1>2 DEF Working, Away, Clearing
<1>6. {"check", "end"} \subseteq Elsewhere
  BY DEF Elsewhere, Places, Saving, Clearing
<1>7. CASE Goto(p, "check") /\ pname' = UserOf(req[p].realm)
           /\ new' = [new EXCEPT ![p] = Rec("krbtgt", req[p].realm, UserOf(req[p].realm),
                                            UserOf(req[p].realm), TRUE, 0)]
  <2> DEFINE ticket == Rec("krbtgt", req[p].realm, UserOf(req[p].realm),
                           UserOf(req[p].realm), TRUE, 0)
  <2>1. /\ ticket \in Record /\ ticket.service \in Services
        /\ ticket.realm = req[p].realm /\ ticket.owner = UserOf(req[p].realm)
    BY <1>3, <1>4 DEF Rec, Record, Services
  <2> HIDE DEF ticket
  <2>2. new' = [new EXCEPT ![p] = ticket]
    BY <1>7 DEF ticket
  <2>3. new' \in [Proc -> Record] /\ new'[p] = ticket
    BY <2>1, <2>2 DEF HInv, Contents
  <2>4. Contents'
    BY <1>2, <1>4, <1>7, <2>3 DEF HInv, Contents
  <2>5. Own(p)' /\ Named(p)' /\ at'[p] = "check"
    <3>1. "check" \notin {"mine", "final", "server", "tgs", "tgt"}
      OBVIOUS
    <3> QED
      BY <1>2, <1>5, <1>6, <1>7, <2>1, <2>3, <3>1, GotoOwn
  <2>6. Current' /\ Kept'
    BY <1>1, <1>2, <2>5, ShelfKept DEF HInv, Clearing
  <2> QED
    BY <1>1, <1>2, <1>3, <1>7, <2>4, <2>5, <2>6, EpochStays, Together DEF HInv, Renames
<1>8. CASE End(p, "error") /\ UNCHANGED <<pname, new>>
  <2>1. Contents'
    BY <1>2, <1>8 DEF HInv, Contents
  <2>2. Own(p)' /\ Named(p)' /\ at'[p] = "end"
    BY <1>2, <1>5, <1>6, <1>8, GotoOwn DEF End, Saving
  <2>3. Current' /\ Kept'
    BY <1>1, <1>2, <2>2, ShelfKept DEF HInv, Clearing
  <2> QED
    BY <1>1, <1>2, <1>8, <2>1, <2>2, <2>3, EpochStays, Together DEF HInv, Renames
<1> QED
  BY <1>7, <1>8 DEF InitialTicket, UserOf

LEMMA InTurn ==
  ASSUME CInv, NEW p \in Proc, Turn(p), ~crossed'
  PROVE  Counters /\ Apart /\ \A q \in Proc \ {p} : ~Inside(q)
<1>1. ~crossed
  BY TurnFacts DEF CInv
<1> QED
  BY <1>1, TurnFacts DEF CInv

\* While p has its turn all records are Right.
LEMMA AllRight ==
  ASSUME CInv, ~crossed', HInv, NEW p \in Proc, Turn(p), at[p] \notin {"fill", "rest"}
  PROVE  \A n \in 0..(count - 1) : n \in Index /\ cred[n] \in Record /\ Right(cred[n])
<1>1. \A n : ~BeingFilled(n)
  BY InTurn DEF Inside, BeingFilled
<1>2. count <= CRED_VEC_SZ + 1 /\ count \in Nat
  BY InTurn DEF Apart, Counters
<1>3. Cardinality(Proc) \in Nat /\ CRED_VEC_SZ \in Nat
  BY SessionFacts, FS_CardinalityType DEF CInv, Counters
<1>4. \A n \in 0..(count - 1) : n \in Index
  BY <1>2, <1>3 DEF Index
<1>5. \A n \in 0..(count - 1) : cred[n] \in Record
  BY <1>4 DEF HInv, Contents
<1> QED
  BY <1>1, <1>4, <1>5 DEF HInv, Current

LEMMA LookStep ==
  ASSUME CInv, ~crossed', HInv, NEW p \in Proc, Look(p)
  PROVE  HInv'
<1> DEFINE c == cred[i[p]]
           hit == c.service = look[p] /\ c.realm = req[p].realm
<1>1. CInv' /\ Frame(p)
  BY LookCounts, Framed DEF CInv, HInv, Step
<1>2. /\ UNCHANGED <<session, clears, cred, count, epoch, req, j, look, ret, sent, new, from>>
      /\ at[p] = "look" /\ Turn(p) /\ ret[p] \in Returns
  BY DEF Look, list, rest, CInv, Counters
<1>3. req[p].realm \in Realm /\ p \in Asking
  BY <1>2 DEF CInv, Busy, Away
<1>4. Zero \in Record /\ Zero.service = None
  BY DEF Zero, Rec, Record
<1>5. Own(p)
  BY DEF HInv
<1>6. \A r : Seen(p, r) => Seen(p, r)'
  BY <1>2, CalmBefore DEF Seen, Rightful
<1>7. ret[p] \notin {"look", "tgs", "server", "fill", "rest", "zero"}
                      \cup Saving \cup Clearing \cup Away
  BY <1>2 DEF Returns, Saving, Clearing, Away
<1>8. at'[p] \in {"look", ret[p]}
  BY <1>2 DEF Look, Goto, CInv, Counters
\* What is left to show when p has found r, which may be none.
<1>9. ASSUME NEW r \in Record, got' = [got EXCEPT ![p] = r], at'[p] = ret[p] \/ r = Zero,
             r.service # None => Seen(p, r),
             pname' \in User \cup {None}, Renames(p),
             Calm /\ r.service # None /\ ret[p] = "tgt" => pname' = UserOf(req[p].realm)
      PROVE  HInv'
  <2>1. got' \in [Proc -> Record] /\ got'[p] = r
    BY <1>9 DEF HInv, Contents
  <2>2. Contents'
    BY <1>2, <1>9, <2>1 DEF HInv, Contents
  <2>3. Current' /\ Kept'
    <3>1. at'[p] \notin {"fill", "rest"} \cup Clearing
      BY <1>7, <1>8 DEF Clearing
    <3> QED
      BY <1>1, <1>2, <3>1, ShelfKept DEF HInv
  <2>4. Own(p)'
    <3>1. Begun(p)'
      BY <1>2, <1>5 DEF Own, Begun, Away
    <3>2. Fetched(p)'
      BY <1>6, <1>7, <1>8, <1>9, <2>1 DEF Fetched, Found, Away, Clearing
    <3>3. Shown(p)'
      BY <1>2, <1>5, <1>6, <1>7, <1>8 DEF Own, Shown, Showing
    <3>4. Serving(p)' /\ Wanted(p)' /\ Granted(p)'
      BY <1>2, <1>5, <1>7, <1>8 DEF Own, Serving, Wanted, Granted, Saving
    <3> QED
      BY <3>1, <3>2, <3>3, <3>4 DEF Own
  <2>5. Named(p)'
    BY <1>2, <1>7, <1>8, <1>9, <2>1, CalmBefore DEF Named, Naming, Found, Saving
  <2> QED
    BY <1>1, <1>2, <1>9, <2>2, <2>3, <2>4, <2>5, EpochStays, Together DEF HInv
<1>10. CASE i[p] < count /\ hit
  <2>1. got' = [got EXCEPT ![p] = c] /\ at'[p] = ret[p]
        /\ pname' = IF look[p] = "krbtgt" THEN c.pname ELSE pname
    BY <1>2, <1>10 DEF Look, Goto, CInv, Counters
  <2>2. c \in Record /\ Right(c)
    <3>1. i[p] \in 0..(count - 1)
      BY <1>10 DEF CInv, Counters
    <3> QED
      BY <1>2, <3>1, AllRight
  <2>3. Seen(p, c)
    BY <1>2, <1>3, <1>5, <1>10, <2>2 DEF Seen, Right, Own, Begun, Away
  <2>4. c.pname \in User \cup {None} /\ (Calm => c.pname = UserOf(req[p].realm))
    BY <2>2, <2>3 DEF Record, Seen, Rightful
  <2>5. ret[p] = "tgt" => look[p] = "krbtgt"
    BY <1>2, <1>5 DEF Own, Granted
  <2>6. Renames(p)
    BY <1>3, <2>1, <2>4 DEF Renames
  <2>7. pname' \in User \cup {None}
    BY <2>1, <2>4 DEF HInv, Contents
  <2> HIDE DEF c
  <2> QED
    BY <1>9, <2>1, <2>2, <2>3, <2>4, <2>5, <2>6, <2>7
<1>11. CASE ~(i[p] < count /\ hit)
  <2>1. got' = [got EXCEPT ![p] = Zero] /\ pname' = pname
    BY <1>11 DEF Look
  <2>2. pname' \in User \cup {None} /\ Renames(p)
    BY <2>1 DEF HInv, Contents, Renames
  <2> QED
    BY <1>4, <1>9, <2>1, <2>2
<1> QED
  BY <1>10, <1>11

-----------------------------------------------------------------------------
(* Steps that write to the memory *)

LEMMA TakeStep ==
  ASSUME CInv, ~crossed', HInv, NEW p \in Proc, TakeIndex(p)
  PROVE  HInv'
<1>1. CInv' /\ Frame(p)
  BY TakeCounts, Framed DEF CInv, HInv, Step
<1>2. /\ UNCHANGED <<session, clears, cred, pname, epoch, req, j, look, ret, got, sent, new, from>>
      /\ at[p] = "take" /\ Turn(p) /\ at'[p] = "fill" /\ count' = count + 1 /\ i'[p] = count
  BY DEF TakeIndex, Goto, list, rest, CInv, Counters
<1>3. Contents'
  BY <1>2 DEF HInv, Contents
<1>4. Current'
  <2>1. \A n \in 0..(count - 1) : Right(cred[n])'
    BY <1>2, AllRight, CalmBefore DEF Right, Rightful
  <2>2. \E q \in Proc : at'[q] \in {"fill", "rest"} /\ i'[q] = count
    BY <1>2
  <2>3. \A n \in 0..(count' - 1) : n = count \/ n \in 0..(count - 1)
    BY <1>2 DEF CInv, Counters
  <2> QED
    BY <1>2, <2>1, <2>2, <2>3 DEF Current, BeingFilled
<1>5. Kept'
  BY <1>1, <1>2 DEF HInv, Kept, Frame, Clearing
<1>6. Own(p)' /\ Named(p)'
  <2>1. Own(p) /\ Named(p)
    BY DEF HInv
  <2> QED
    BY <1>2, <2>1, CalmBefore
       DEF Own, Begun, Fetched, Found, Shown, Showing, Serving, Wanted, Granted, Seen, Rightful,
           Named, Naming, Away, Clearing, Saving
<1> QED
  BY <1>1, <1>2, <1>3, <1>4, <1>5, <1>6, EpochStays, Together DEF HInv, Renames

\* While p fills its record all others are Right.
LEMMA FillingOne ==
  ASSUME CInv, ~crossed', HInv, NEW p \in Proc, Turn(p), at[p] \in {"fill", "rest"}
  PROVE  /\ i[p] + 1 = count /\ i[p] \in Index /\ count \in Nat
         /\ \A n \in 0..(count - 1) : n = i[p] \/ (n < i[p] /\ Right(cred[n]))
         /\ \A q \in Proc \ {p} : at[q] \in Clearing => j[q] = 0
<1>1. i[p] + 1 = count /\ count <= CRED_VEC_SZ + 1 /\ count \in Nat /\ i[p] \in Nat
  BY InTurn DEF Apart, Counters
<1>2. Cardinality(Proc) \in Nat /\ CRED_VEC_SZ \in Nat
  BY SessionFacts, FS_CardinalityType DEF CInv, Counters
<1>3. i[p] \in Index
  BY <1>1, <1>2 DEF Index
<1>4. \A q \in Proc \ {p} : ~Inside(q)
  BY InTurn
<1>5. \A n : BeingFilled(n) => n = i[p]
  BY <1>4 DEF BeingFilled, Inside
<1>6. \A n \in 0..(count - 1) : n = i[p] \/ (n < i[p] /\ Right(cred[n]))
  BY <1>1, <1>5 DEF HInv, Current
<1>7. \A q \in Proc \ {p} : at[q] \in Clearing => j[q] = 0
  BY <1>4, InTurn DEF Apart, Counters, Inside, Clearing
<1> QED
  BY <1>1, <1>3, <1>6, <1>7

LEMMA FillStep ==
  ASSUME CInv, ~crossed', HInv, NEW p \in Proc, Fill(p)
  PROVE  HInv'
<1>1. CInv' /\ Frame(p)
  BY FillCounts, Framed DEF CInv, HInv, Step
<1> DEFINE half == [cred[i[p]] EXCEPT !.service = new[p].service, !.realm = new[p].realm]
<1>2. /\ UNCHANGED <<session, clears, count, pname, epoch, req, i, j, look, ret, got, sent, new, from>>
      /\ at[p] = "fill" /\ Turn(p) /\ at'[p] = "rest" /\ cred' = [cred EXCEPT ![i[p]] = half]
  BY DEF Fill, Write, Goto, list, rest, CInv, Counters
<1>3. half \in Record
  <2>1. cred[i[p]] \in Record /\ new[p] \in Record
    BY <1>2, FillingOne DEF HInv, Contents
  <2> QED
    BY <2>1 DEF Record
<1> HIDE DEF half
<1>4. cred' \in [Index -> Record] /\ \A n \in Index : n # i[p] => cred'[n] = cred[n]
  BY <1>2, <1>3 DEF HInv, Contents
<1>5. Contents'
  BY <1>2, <1>4 DEF HInv, Contents
<1>6. Current'
  <2>1. BeingFilled(i[p])'
    BY <1>2 DEF BeingFilled
  <2>2. ASSUME NEW n \in 0..(count - 1), n < i[p], Right(cred[n])
        PROVE  Right(cred[n])'
    <3>1. cred'[n] = cred[n]
      BY <1>2, <2>2 DEF CInv, Counters
    <3> QED
      BY <1>2, <2>2, <3>1, CalmBefore DEF Right, Rightful
  <2> QED
    BY <1>2, <2>1, <2>2, FillingOne DEF Current
<1>7. Kept'
  BY <1>1, <1>2, FillingOne DEF Kept, Frame, Clearing
<1>8. Own(p)' /\ Named(p)'
  <2>1. Own(p) /\ Named(p)
    BY DEF HInv
  <2> QED
    BY <1>2, <2>1, CalmBefore
       DEF Own, Begun, Fetched, Found, Shown, Showing, Serving, Wanted, Granted, Seen, Rightful,
           Named, Naming, Away, Clearing, Saving
<1> QED
  BY <1>1, <1>2, <1>5, <1>6, <1>7, <1>8, EpochStays, Together DEF HInv, Renames

Relabelled(r, name, n) == [r EXCEPT !.pname = name, !.epoch = n]

LEMMA RelabelledFacts ==
  ASSUME NEW r \in Record, NEW name \in User \cup {None}, NEW n \in Nat
  PROVE  /\ Relabelled(r, name, n) \in Record
         /\ Relabelled(r, name, n).realm = r.realm /\ Relabelled(r, name, n).owner = r.owner
         /\ Relabelled(r, name, n).pname = name /\ Relabelled(r, name, n).epoch = n
BY DEF Record, Relabelled

\* The record is complete, of now, and of the principal of the memory.
LEMMA FillRestStep ==
  ASSUME CInv, ~crossed', HInv, NEW p \in Proc, FillRest(p)
  PROVE  HInv'
<1>1. CInv' /\ Frame(p)
  BY SmallSteps, TurnsKeep, Framed DEF CInv, HInv, Step
<1> DEFINE saved == Relabelled(new[p], pname, epoch[req[p].realm])
           label == IF new[p].service = "krbtgt" THEN "logged" ELSE "have2"
<1>2. /\ UNCHANGED <<session, clears, count, pname, epoch, req, j, got, sent, from>>
      /\ at[p] = "rest" /\ Turn(p) /\ Search(p, new[p].service, label)
      /\ cred' = [cred EXCEPT ![i[p]] = saved] /\ new' = [new EXCEPT ![p] = Zero]
  BY DEF FillRest, Write, Relabelled, rest
<1>3. req[p].realm \in Realm /\ Own(p) /\ Named(p) /\ new[p] \in Record
  BY <1>2 DEF CInv, Busy, Away, HInv, Contents
<1>4. /\ saved \in Record /\ saved.realm = req[p].realm /\ saved.epoch = epoch[req[p].realm]
      /\ saved.owner = new[p].owner /\ saved.pname = pname
  <2>1. pname \in User \cup {None} /\ epoch[req[p].realm] \in Nat
    BY <1>3 DEF HInv, Contents
  <2>2. new[p].realm = req[p].realm
    BY <1>2, <1>3 DEF Own, Wanted, Saving
  <2> QED
    BY <1>3, <2>1, <2>2, RelabelledFacts
<1>5. new[p].service \in Services /\ label \in Returns
      /\ label \notin {"mine", "final", "tgt"}
  BY <1>2, <1>3 DEF Own, Wanted, Saving, Returns
<1>6. Right(saved)
  <2>1. Calm => saved.owner = UserOf(req[p].realm) /\ pname = UserOf(req[p].realm)
    BY <1>2, <1>3, <1>4 DEF Own, Wanted, Named, Naming, Saving
  <2> QED
    BY <1>3, <1>4, <2>1 DEF Right, Rightful
<1> HIDE DEF saved, label
<1>7. /\ Own(p)' /\ Named(p)' /\ look' \in [Proc -> Services \cup {None}] /\ at'[p] = "look"
  <2>1. Working(p)
    BY <1>2 DEF Working, Away, Clearing
  <2> QED
    BY <1>2, <1>5, <2>1, SearchOwn
<1>8. Contents'
  <2>1. Zero \in Record
    BY DEF Zero, Rec, Record
  <2> QED
    BY <1>2, <1>4, <1>7, <2>1 DEF HInv, Contents
<1>9. Current'
  <2>1. cred'[i[p]] = saved
    BY <1>2, FillingOne DEF HInv, Contents
  <2>2. ASSUME NEW n \in 0..(count - 1)
        PROVE  Right(cred[n])'
    <3>1. CASE n = i[p]
      BY <1>2, <1>6, <2>1, <3>1, CalmBefore DEF Right, Rightful
    <3>2. CASE n # i[p]
      <4>1. cred'[n] = cred[n] /\ Right(cred[n])
        <5>1. Right(cred[n])
          BY <1>2, <3>2, FillingOne
        <5> QED
          BY <1>2, <3>2, <5>1
      <4> QED
        BY <1>2, <4>1, CalmBefore DEF Right, Rightful
    <3> QED
      BY <3>1, <3>2
  <2> QED
    BY <1>2, <2>2 DEF Current
<1>10. Kept'
  BY <1>1, <1>2, <1>7, FillingOne DEF Kept, Frame, Clearing
<1> QED
  BY <1>1, <1>2, <1>7, <1>8, <1>9, <1>10, EpochStays, Together DEF HInv, Renames

\* The others are not in the middle of a sweep, and fill nothing.
LEMMA OthersOutside ==
  ASSUME CInv, ~crossed', NEW p \in Proc, Turn(p), NEW q \in Proc, q # p
  PROVE  /\ at[q] \notin {"fill", "rest", "swept", "zero", "wipe"}
         /\ at[q] \in Clearing => (i[q] = 0 /\ j[q] = 0)
BY InTurn DEF Inside, Apart, Counters, Clearing

LEMMA OthersKept ==
  ASSUME CInv, ~crossed', NEW p \in Proc, Turn(p), Frame(p), at'[p] \notin Clearing
  PROVE  Kept'
<1> SUFFICES ASSUME NEW q \in Proc, at'[q] \in Clearing
             PROVE  j'[q] = 0
  BY DEF Kept
<1>1. q # p /\ at'[q] = at[q] /\ j'[q] = j[q]
  BY DEF Frame
<1> QED
  BY <1>1, OthersOutside

LEMMA SweepStep ==
  ASSUME CInv, ~crossed', HInv, NEW p \in Proc, Sweep(p)
  PROVE  HInv'
<1>1. CInv' /\ Frame(p)
  BY SweepCounts, Framed DEF CInv, HInv, Step
<1>2. /\ UNCHANGED <<session, clears, count, pname, epoch, req, look, ret, got, sent, new, from>>
      /\ at[p] = "sweep" /\ Turn(p)
  BY DEF Sweep, list, rest
<1>3. at'[p] \in Clearing
  BY <1>2 DEF Sweep, Goto, CInv, Counters, Clearing
<1>4. Own(p)' /\ Named(p)'
  <2>1. Own(p)
    BY DEF HInv
  <2>2. ~Found(p) /\ ~Found(p)'
    BY <1>2, <2>1 DEF Own, Fetched, Found, Clearing
  <2> QED
    BY <1>2, <1>3, <2>1, <2>2
       DEF Own, Begun, Fetched, Shown, Showing, Serving, Wanted, Granted, Named, Naming,
           Away, Clearing, Saving
<1>5. CASE cred' = cred /\ j' = j
  <2>1. Contents'
    BY <1>2, <1>5 DEF HInv, Contents
  <2>2. Current'
    BY <1>2, <1>5, AllRight, CalmBefore DEF Current, Right, Rightful
  <2>3. Kept'
    BY <1>1, <1>2, <1>5, OthersOutside DEF HInv, Kept, Frame, Clearing
  <2> QED
    BY <1>1, <1>2, <1>4, <2>1, <2>2, <2>3, EpochStays, Together DEF HInv, Renames
<1>6. CASE ~(cred' = cred /\ j' = j)
  <2>1. /\ i[p] < count /\ cred[i[p]].realm # req[p].realm
        /\ cred' = [cred EXCEPT ![j[p]] = cred[i[p]]] /\ j'[p] = j[p] + 1
    BY <1>6 DEF Sweep, CInv, Counters
  <2>2. /\ i[p] \in 0..(count - 1) /\ j[p] \in 0..(count - 1)
        /\ i[p] \in Index /\ j[p] \in Index /\ cred[i[p]] \in Record /\ Right(cred[i[p]])
        /\ count \in Nat
    <3>1. j[p] <= i[p] /\ i[p] \in Nat /\ j[p] \in Nat /\ count \in Nat
      BY <1>2, InTurn DEF Apart, Counters, Clearing
    <3>2. i[p] \in 0..(count - 1) /\ j[p] \in 0..(count - 1)
      BY <2>1, <3>1
    <3> QED
      BY <1>2, <3>1, <3>2, AllRight
  <2>3. cred' \in [Index -> Record] /\ cred'[j[p]] = cred[i[p]]
        /\ \A n \in Index : n # j[p] => cred'[n] = cred[n]
    BY <2>1, <2>2 DEF HInv, Contents
  <2>4. Contents'
    BY <1>2, <2>3 DEF HInv, Contents
  <2>5. Current'
    <3>1. ASSUME NEW n \in 0..(count - 1)
          PROVE  Right(cred[n])'
      <4>1. \E m \in 0..(count - 1) : cred'[n] = cred[m]
        BY <1>2, <2>2, <2>3, AllRight
      <4>2. PICK m \in 0..(count - 1) : cred'[n] = cred[m]
        BY <4>1
      <4>3. Right(cred[m])
        BY <1>2, AllRight
      <4> QED
        BY <1>2, <4>2, <4>3, CalmBefore DEF Right, Rightful
    <3> QED
      BY <1>2, <3>1 DEF Current
  <2>6. Kept'
    <3>1. ASSUME NEW n \in 0..(j'[p] - 1)
          PROVE  cred'[n].realm # req[p].realm
      <4>1. n = j[p] \/ n \in 0..(j[p] - 1)
        BY <2>1, <2>2
      <4>2. CASE n = j[p]
        BY <2>1, <2>3, <4>2
      <4>3. CASE n \in 0..(j[p] - 1)
        <5>1. cred[n].realm # req[p].realm
          BY <1>2, <4>3 DEF HInv, Kept, Clearing
        <5>2. n \in 0..(count - 1) /\ n # j[p]
          BY <2>2, <4>3
        <5>3. n \in Index
          BY <1>2, <5>2, AllRight
        <5> QED
          BY <2>3, <5>1, <5>2, <5>3
      <4> QED
        BY <4>1, <4>2, <4>3
    <3>2. \A q \in Proc \ {p} : at'[q] \in Clearing => j'[q] = 0
      <4> SUFFICES ASSUME NEW q \in Proc \ {p}, at'[q] \in Clearing
                   PROVE  j'[q] = 0
        OBVIOUS
      <4>1. at'[q] = at[q] /\ j'[q] = j[q]
        BY <1>1 DEF Frame
      <4> QED
        BY <1>2, <4>1, OthersOutside
    <3> QED
      BY <1>1, <1>2, <3>1, <3>2 DEF Kept
  <2> QED
    BY <1>1, <1>2, <1>4, <2>4, <2>5, <2>6, EpochStays, Together DEF HInv, Renames
<1> QED
  BY <1>5, <1>6

LEMMA SweptStep ==
  ASSUME CInv, ~crossed', HInv, NEW p \in Proc, Swept(p)
  PROVE  HInv'
<1>1. CInv' /\ Frame(p)
  BY SweptCounts, Framed DEF CInv, HInv, Step
<1> DEFINE realm == req[p].realm
<1>2. /\ UNCHANGED <<session, clears, cred, pname, req, j, look, ret, got, sent, new, from>>
      /\ at[p] = "swept" /\ Turn(p) /\ at'[p] = "zero" /\ count' = j[p]
      /\ epoch' = [epoch EXCEPT ![realm] = @ + 1]
  BY DEF Swept, Goto, list, CInv, Counters
<1>3. realm \in Realm /\ j[p] <= count /\ count \in Nat /\ j[p] \in Nat
  BY <1>2, InTurn DEF CInv, Busy, Away, Apart, Clearing, Counters
<1>4. /\ epoch' \in [Realm -> Nat] /\ \A r \in Realm : epoch[r] <= epoch'[r]
      /\ \A r \in Realm : r # realm => epoch'[r] = epoch[r]
  BY <1>2, <1>3 DEF HInv, Contents
<1>5. Contents'
  BY <1>2, <1>4 DEF HInv, Contents
<1>6. Current'
  <2>1. ASSUME NEW n \in 0..(j[p] - 1)
        PROVE  Right(cred[n])'
    <3>1. cred[n].realm # realm
      BY <1>2 DEF HInv, Kept, Clearing
    <3>2. Right(cred[n])
      BY <1>2, <1>3, AllRight
    <3> QED
      BY <1>2, <1>4, <3>1, <3>2, CalmBefore DEF Right, Rightful
  <2> QED
    BY <1>2, <2>1 DEF Current
<1>7. Kept'
  BY <1>1, <1>2, OthersKept DEF Clearing
<1>8. Own(p)' /\ Named(p)'
  <2>1. Own(p)
    BY DEF HInv
  <2>2. ~Found(p) /\ ~Found(p)'
    BY <1>2, <2>1 DEF Own, Fetched, Found, Clearing
  <2>3. Begun(p)'
    <3>1. from[p] <= epoch[realm] /\ epoch[realm] <= epoch'[realm]
      BY <1>2, <1>3, <1>4, <2>1 DEF Own, Begun, Away
    <3>2. from[p] \in Nat /\ epoch[realm] \in Nat /\ epoch'[realm] \in Nat
      BY <1>3, <1>4 DEF HInv, Contents
    <3> QED
      BY <1>2, <3>1, <3>2 DEF Begun
  <2> QED
    BY <1>2, <2>2, <2>3
       DEF Own, Fetched, Shown, Showing, Serving, Wanted, Granted, Named, Naming, Saving
<1> QED
  BY <1>1, <1>2, <1>4, <1>5, <1>6, <1>7, <1>8, Together DEF HInv, Renames

LEMMA ZeroStep ==
  ASSUME CInv, ~crossed', HInv, NEW p \in Proc, ZeroRest(p)
  PROVE  HInv'
<1>1. CInv' /\ Frame(p)
  BY ZeroCounts, Framed DEF CInv, HInv, Step
<1>2. /\ UNCHANGED <<session, clears, count, pname, epoch, req, j, got, sent, new>>
      /\ at[p] = "zero" /\ Turn(p) /\ at'[p] = "look" /\ ret'[p] = "status"
      /\ look' = [look EXCEPT ![p] = "krbtgt"]
      /\ from' = [from EXCEPT ![p] = epoch[req[p].realm]]
      /\ cred' = [n \in Index |-> IF n \in j[p]..(CRED_VEC_SZ - 1) THEN Zero ELSE cred[n]]
  BY DEF ZeroRest, Search, Goto, rest, CInv, Counters
<1>3. req[p].realm \in Realm /\ count = j[p] /\ count \in Nat
  BY <1>2, InTurn DEF CInv, Busy, Away, Apart, Counters
<1>4. Zero \in Record
  BY DEF Zero, Rec, Record
<1>5. /\ cred' \in [Index -> Record] /\ \A n \in 0..(count - 1) : cred'[n] = cred[n]
      /\ from' \in [Proc -> Nat] /\ from'[p] = epoch[req[p].realm]
  <2>1. \A n \in 0..(count - 1) : n \in Index /\ n \notin j[p]..(CRED_VEC_SZ - 1)
    BY <1>2, <1>3, AllRight
  <2> QED
    BY <1>2, <1>3, <1>4, <2>1 DEF HInv, Contents
<1>6. Contents'
  <2>1. look' \in [Proc -> Services \cup {None}]
    BY <1>2 DEF HInv, Contents, Services
  <2> QED
    BY <1>2, <1>5, <2>1 DEF HInv, Contents
<1>7. Current'
  <2>1. \A n \in 0..(count - 1) : Right(cred[n])
    BY <1>2, AllRight
  <2>2. \A n \in 0..(count - 1) : Right(cred[n])'
    <3> TAKE n \in 0..(count - 1)
    <3>1. cred'[n] = cred[n] /\ Right(cred[n])
      BY <1>5, <2>1
    <3> QED
      BY <1>2, <3>1, CalmBefore DEF Right, Rightful
  <2> QED
    BY <1>2, <2>2 DEF Current
<1>8. Kept'
  BY <1>1, <1>2, OthersKept DEF Clearing
<1>9. Own(p)' /\ Named(p)'
  <2>1. Own(p)
    BY DEF HInv
  <2>2. ~Found(p) /\ ~Found(p)'
    BY <1>2, <2>1 DEF Own, Fetched, Found
  <2>3. Begun(p)'
    BY <1>2, <1>3, <1>5 DEF Begun, HInv, Contents
  <2> QED
    BY <1>2, <2>2, <2>3
       DEF Own, Fetched, Shown, Showing, Serving, Wanted, Granted, Named, Naming, Saving
<1> QED
  BY <1>1, <1>2, <1>6, <1>7, <1>8, <1>9, EpochStays, Together DEF HInv, Renames

-----------------------------------------------------------------------------
(* The manager, and the result *)

\* Own(q) says nothing of epochs but that they do not fall behind.
LEMMA DestTktStep ==
  ASSUME CInv, ~crossed', HInv, DestTkt
  PROVE  HInv'
<1>1. CInv' /\ Mgr \in Proc
  BY ManagerCounts DEF Proc
<1>2. /\ UNCHANGED <<session, cred, req, j, i, look, ret, got, sent, new, from>>
      /\ at[Mgr] = "idle" /\ Turn(Mgr) /\ at'[Mgr] = "wipe" /\ count' = 0 /\ pname' = None
      /\ epoch' = [r \in Realm |-> epoch[r] + 1] /\ clears' # 0
      /\ \A q \in Proc \ {Mgr} : at'[q] = at[q]
  BY <1>1 DEF DestTkt, Goto, list, CInv, Counters
<1>3. epoch' \in [Realm -> Nat] /\ \A r \in Realm : epoch[r] <= epoch'[r]
  BY <1>2 DEF HInv, Contents
<1>4. Frame(Mgr)
  BY <1>2 DEF Frame
<1>5. Contents'
  BY <1>2, <1>3 DEF HInv, Contents
<1>6. Current'
  BY <1>2 DEF Current
<1>7. Kept'
  BY <1>1, <1>2, <1>4, OthersKept DEF Clearing
<1>8. ~Calm'
  BY <1>2 DEF Calm
<1>9. Own(Mgr)'
  <2>1. ~Found(Mgr) /\ ~Found(Mgr)'
    BY <1>1, <1>2 DEF HInv, Own, Fetched, Found, Away
  <2> QED
    BY <1>2, <2>1
       DEF Own, Begun, Fetched, Shown, Showing, Serving, Wanted, Granted, Saving, Away
<1>10. \A q \in Proc \ {Mgr} : Own(q)'
  BY <1>1, <1>3, <1>4, <1>5, OthersOwn DEF HInv
<1>11. \A q \in Proc : Named(q)'
  BY <1>8 DEF Named
<1> QED
  BY <1>5, <1>6, <1>7, <1>9, <1>10, <1>11 DEF HInv

LEMMA WipeStep ==
  ASSUME CInv, ~crossed', HInv, Wipe
  PROVE  HInv'
<1>1. CInv' /\ Mgr \in Proc
  BY ManagerCounts DEF Proc
<1>2. /\ UNCHANGED <<session, clears, count, pname, epoch, req, j, i, look, ret, got, sent, new, from>>
      /\ at[Mgr] = "wipe" /\ Turn(Mgr) /\ at'[Mgr] = "idle" /\ cred' = [n \in Index |-> Zero]
      /\ \A q \in Proc \ {Mgr} : at'[q] = at[q]
  BY <1>1 DEF Wipe, Goto, rest, CInv, Counters
<1>3. Frame(Mgr)
  BY <1>2 DEF Frame
<1>4. Contents'
  <2>1. Zero \in Record
    BY DEF Zero, Rec, Record
  <2> QED
    BY <1>2, <2>1 DEF HInv, Contents
<1>5. Current'
  <2>1. count = 0
    BY <1>1, <1>2, InTurn DEF Apart
  <2> QED
    BY <1>2, <2>1 DEF Current
<1>6. Kept'
  BY <1>1, <1>2, <1>3, OthersKept DEF Clearing
<1>7. Own(Mgr)' /\ Named(Mgr)'
  <2>1. ~Found(Mgr) /\ ~Found(Mgr)'
    BY <1>1, <1>2 DEF HInv, Own, Fetched, Found, Away
  <2> QED
    BY <1>2, <2>1
       DEF Own, Begun, Fetched, Shown, Showing, Serving, Wanted, Granted, Named, Naming, Saving,
           Away
<1> QED
  BY <1>1, <1>2, <1>3, <1>4, <1>5, <1>6, <1>7, EpochStays, Together DEF HInv, Renames

LEMMA OtherStep ==
  ASSUME CInv, HInv, ChangePassword \/ Restore \/ Lists \/ UNCHANGED vars
  PROVE  HInv'
<1>1. UNCHANGED <<session, clears, cred, count, pname, epoch, at, req, i, j, look, ret, got, sent, new,
                  from>>
  BY DEF ChangePassword, Restore, Lists, EvUpdateCache, ListNext, vars, memory, local, list, rest
<1>2. (Calm' => Calm) /\ \A r : UserOf(r)' = UserOf(r)
  BY <1>1, CalmBefore
<1>3. Contents' /\ Kept'
  BY <1>1 DEF HInv, Contents, Kept
<1>4. Current'
  BY <1>1, <1>2 DEF HInv, Current, BeingFilled, Right, Rightful
<1>5. ASSUME NEW p \in Proc
      PROVE  Own(p)' /\ Named(p)'
  <2>1. \A c : Seen(p, c) => Seen(p, c)'
    BY <1>1, <1>2 DEF Seen, Rightful
  <2>2. Own(p) /\ Named(p)
    BY DEF HInv
  <2> QED
    BY <1>1, <1>2, <2>1, <2>2
       DEF Own, Begun, Fetched, Found, Shown, Showing, Serving, Wanted, Granted, Named, Naming
<1> QED
  BY <1>3, <1>4, <1>5 DEF HInv

LEMMA InitHolds == Init => HInv
<1> SUFFICES ASSUME Init PROVE HInv
  OBVIOUS
<1>1. session \in Session
  BY DEF Init
<1>2. Zero \in Record /\ Zero.service = None
  BY DEF Zero, Rec, Record
<1>3. \A n \in 0..(count - 1) : n \in Index /\ cred[n] = session.first[n + 1]
                                  /\ n + 1 \in 1..Len(session.first)
  <2>1. count = Len(session.first) /\ count \in Nat /\ count <= CRED_VEC_SZ
    BY <1>1, SessionFacts DEF Init
  <2>2. Cardinality(Proc) \in Nat /\ CRED_VEC_SZ \in Nat
    BY <1>1, SessionFacts, FS_CardinalityType
  <2>3. \A n \in 0..(count - 1) : n \in Index
    BY <2>1, <2>2 DEF Index
  <2> QED
    BY <2>1, <2>3 DEF Init
<1>4. cred \in [Index -> Record]
  <2>1. \A n \in Nat : n < Len(session.first) => session.first[n + 1] \in Record
    BY <1>1, SessionFacts
  <2>2. Index \subseteq Nat
    BY DEF Index
  <2> QED
    BY <1>2, <2>1, <2>2 DEF Init
<1>5. pname \in User \cup {None}
  <2>1. CASE count = 0
    BY <2>1 DEF Init
  <2>2. CASE count # 0
    <3>1. count \in Nat
      BY <1>1, SessionFacts DEF Init
    <3>2. cred[0] \in Record
      BY <1>3, <1>4, <2>2, <3>1
    <3> QED
      BY <2>2, <3>2 DEF Init, Record
  <2> QED
    BY <2>1, <2>2
<1>6. Contents
  BY <1>2, <1>4, <1>5 DEF Init, Contents
<1>7. Current
  <2> SUFFICES ASSUME NEW n \in 0..(count - 1)
               PROVE  Right(cred[n])
    BY DEF Current
  <2>1. cred[n].realm \in Realm /\ cred[n].epoch = 0 /\ Rightful(cred[n])
    BY <1>1, <1>3, SessionFacts
  <2> QED
    BY <2>1 DEF Init, Right
<1>8. \A p \in Proc : at[p] = "idle" /\ got[p] = Zero
  BY DEF Init
<1>9. Kept
  BY <1>8 DEF Kept, Clearing
<1>10. \A p \in Proc : Own(p) /\ Named(p)
  BY <1>2, <1>8
     DEF Own, Begun, Fetched, Found, Shown, Showing, Serving, Wanted, Granted, Named, Naming,
         Away, Saving
<1> QED
  BY <1>6, <1>7, <1>9, <1>10 DEF HInv

\* What has crossed has crossed.
LEMMA StaysCrossed ==
  ASSUME CInv, [Next]_vars
  PROVE  crossed => crossed'
<1>1. Counters
  BY DEF CInv
<1>2. ASSUME NEW p \in Proc, Step(p) \/ Ask(p)
      PROVE  crossed => crossed'
  BY <1>1, <1>2, TurnFacts DEF Step, Ask, Look, Check, TakeIndex, Fill, FillRest, Status, Box,
     Again, InitialTicket, Logged, Have, Granting, ServiceTicket, Mine, Final, Server, Finish,
     Sweep, Swept, ZeroRest
<1>3. CASE DestTkt \/ Wipe
  BY <1>1, <1>3, TurnFacts DEF DestTkt, Wipe, Proc
<1> QED
  BY <1>2, <1>3 DEF Next, ChangePassword, Restore, Lists, EvUpdateCache, ListNext, vars

\* What the records and those who use them are, as long as nobody falls into
\* another's accesses.

THEOREM TInvAlways == Spec => []TInv
<1>1. Init => TInv
  BY InitCounts, InitHolds DEF TInv
<1>2. TInv /\ [Next]_vars => TInv'
  <2> SUFFICES ASSUME TInv, [Next]_vars
               PROVE  TInv'
    OBVIOUS
  <2>1. CInv /\ CInv'
    BY NextCounts DEF TInv
  <2>2. crossed => crossed'
    BY <2>1, StaysCrossed
  <2>3. ASSUME ~crossed'
        PROVE  HInv'
    <3>1. HInv
      BY <2>2, <2>3 DEF TInv
    <3>2. ASSUME NEW p \in Proc, Step(p)
          PROVE  HInv'
      BY <2>1, <2>3, <3>1, <3>2, QuietStep, FinishStep, InitialStep, LookStep, TakeStep,
         FillStep, FillRestStep, SweepStep, SweptStep, ZeroStep DEF Step
    <3>3. ASSUME NEW p \in Proc, Ask(p)
          PROVE  HInv'
      BY <2>1, <2>3, <3>1, <3>3, AskStep
    <3> QED
      BY <2>1, <2>3, <3>1, <3>2, <3>3, DestTktStep, WipeStep, OtherStep DEF Next
  <2> QED
    BY <2>1, <2>3 DEF TInv
<1> QED
  BY <1>1, <1>2, PTL DEF Spec

\* As long as no process has fallen into another's accesses, what is shown to a
\* server is of no older time than the request, and while nobody has cleared the
\* tickets and there is one user, or one process that asks, it is complete and of
\* the principal it was issued to (krb_mk_req, tf_save_cred).

THEOREM HandedOutWell == Spec => []HandsOut
<1>1. TInv => HandsOut
  <2> SUFFICES ASSUME TInv, NEW p \in Client, at[p] = "server", ~crossed
               PROVE  /\ Calm => \A r \in {sent[p], got[p]} : Whole(r) /\ r.pname = r.owner
                      /\ sent[p].epoch >= from[p] /\ got[p].epoch >= from[p]
    BY DEF HandsOut
  <2>1. p \in Proc /\ Own(p)
    BY DEF TInv, HInv, Proc
  <2>2. Seen(p, sent[p]) /\ Seen(p, got[p])
    BY <2>1 DEF Own, Shown, Showing, Serving, Fetched
  <2>3. sent[p].epoch \in Nat /\ got[p].epoch \in Nat /\ from[p] \in Nat
    BY <2>1 DEF TInv, HInv, Contents, Record
  <2>4. \A r \in Realm : UserOf(r) # None
    BY SessionFacts DEF UserOf, TInv, CInv, Counters
  <2> QED
    BY <2>2, <2>3, <2>4 DEF Seen, Rightful, Whole
<1> QED
  BY <1>1, TInvAlways, PTL
=============================================================================
