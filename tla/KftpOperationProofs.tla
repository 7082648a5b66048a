-------------------------- MODULE KftpOperationProofs --------------------------
(***************************************************************************)
(* Kftp uses nothing that is freed, and takes no other command's result,    *)
(* for any sessions of a patient user, commands and files.                  *)
(*                                                                         *)
(* What is left of a command says what it is to find: the order of its      *)
(* steps is never lost (Known).  A command the machine has not seen waits   *)
(* for it (Pending).  A patient user begins no command inside another one,  *)
(* so that only the last command on the stack has anything to do with the   *)
(* server; a close can come on top of it (Rested).  While the server keeps  *)
(* the connection, the last command has the handler as long as it has a use *)
(* for it (Linked), and the machine runs as long as there is one (Alive),   *)
(* but for a close that is made at the remote authentication of the open    *)
(* inside which it was asked for (Cut), the one case ClosedInOpen leaves    *)
(* out; so the entries a deletion has collected are those of the list       *)
(* (Spared).                                                                *)
(* The machine and the command that waits know each other: cb is its place, *)
(* and job its operation (Serving).  The abort of a download lies before    *)
(* the step that clears it (Stopped).                                       *)
(***************************************************************************)
EXTENDS KftpOperation, SequenceTheorems, WellFoundedInduction, TLAPS

Commands  == Locking \cup Unlocked \cup {"close"}
Own       == {"renew", "again", "auth", "dialog", "read", "clear", "unlock", "load", "refresh",
              "close"}
StepNames == Operations \cup Own
Phases    == {"next", "wait", "read", "abor", "delete"}
Jobs      == Operations \cup {"none"}

Idle    == {"greeting", "drain", "check", "ended"}
Working == {"exec", "prompt", "answer", "second", "failed", "reset"}
Told    == {"second", "failed", "reset"}      \* a result is set

Frames == [cmd : Commands, todo : Seq(StepNames), phase : Phases, op : Jobs, done : BOOLEAN,
           ok : BOOLEAN, note : BOOLEAN, by : Jobs, asks : BOOLEAN, client : Nat, infos : Nat]

Types ==
  /\ session \in Session /\ stack \in Seq(Frames)
  /\ client \in Nat /\ infos \in Nat /\ posted \in Nat /\ given \in Nat /\ cb \in Nat
  /\ at \in Idle \cup Working /\ job \in Jobs
  /\ lock \in BOOLEAN /\ cancel \in BOOLEAN /\ closing \in BOOLEAN /\ crashed \in BOOLEAN
  /\ newCommand \in BOOLEAN /\ abort \in BOOLEAN /\ terminate \in BOOLEAN /\ up \in BOOLEAN

Followed(todo, k, step) == k + 1 \in 1..Len(todo) /\ todo[k + 1] = step

\* A step that is in the todo of a command, and what it has before and behind it
Fits(c, todo, k) ==
  /\ todo[k] = "renew" => k = 1
  /\ todo[k] \in {"renew", "again", "close"} => c = "open"
  /\ todo[k] = "auth" => c = "open" /\ Followed(todo, k, "dialog")
  /\ todo[k] = "dialog" => c = "open" /\ Followed(todo, k, "kauth")
  /\ todo[k] = "kauth" => c = "open" /\ Followed(todo, k, "unlock")
  /\ todo[k] = "unlock" =>
       IF c = "open" THEN Followed(todo, k, "getcwd")
       ELSE c \in Locking /\ \A m \in (k + 1)..Len(todo) : todo[m] = "refresh"
  /\ todo[k] = "delete" => c = "delete"
  /\ c = "delete" => todo[k] \in {"cwd", "delete", "unlock"}
  /\ c = "get" => todo[k] \in {"getmode", "binary", "get", "clear", "unlock"}
  /\ c \in {"get", "put"} /\ todo[k] \in Operations => \E m \in (k + 1)..Len(todo) : todo[m] = "clear"
  /\ todo[k] = "clear" => \E m \in (k + 1)..Len(todo) : todo[m] = "unlock"
  /\ todo[k] \in {"load", "refresh"} => k = Len(todo)

Ordered(c, todo) == \A k \in 1..Len(todo) : Fits(c, todo, k)

Known(f) ==
  /\ Ordered(f.cmd, f.todo)
  /\ f.phase = "wait" => f.todo # <<>> /\ f.op = f.todo[1] /\ f.op \in Operations
  /\ f.phase = "read" => f.todo # <<>> /\ f.todo[1] = "read"
  /\ f.phase = "abor" => f.todo # <<>> /\ f.todo[1] = "clear"
  /\ f.cmd = "close" <=> f.phase = "delete"
  /\ f.cmd = "close" => f.todo = <<>>

Sound == \A n \in 1..Len(stack) : Known(stack[n])

Base == Types /\ Sound

\* A command the machine has not seen yet waits for it.
Serves == cb \in 1..Len(stack) /\ stack[cb].phase = "wait"

Pending == at \in {"greeting", "drain", "check"} /\ newCommand => Serves /\ ~stack[cb].done

-----------------------------------------------------------------------------
(* One command at a time *)

Has(f, step) == \E k \in 1..Len(f.todo) : f.todo[k] = step

\* A command that may have the lock: the opening only while it authenticates
Holds(f) == Has(f, "unlock") /\ (f.cmd = "open" => f.todo[1] \in {"dialog", "kauth", "unlock"})

\* Nothing of a command is left but a new list.
Over(f) == f.phase = "next" /\ \A k \in 1..Len(f.todo) : f.todo[k] = "refresh"

\* The last command, or the one below a close
Live(n) == n = Len(stack) \/ (n + 1 = Len(stack) /\ Top.cmd = "close")

Rested ==
  \A n \in 1..Len(stack) :
    /\ stack[n].cmd = "close" => n = Len(stack)
    /\ ~Live(n) => Over(stack[n])

-----------------------------------------------------------------------------
(* While the server keeps the connection *)

\* What a command needs of the handler
Linked(f) ==
  /\ \A k \in 1..Len(f.todo) :
       f.todo[k] \in Operations \cup {"clear", "again", "auth", "dialog"} =>
         client # 0 \/ f.todo[1] = "renew"
  /\ f.todo # <<>> /\ f.todo[1] = "renew" => client = 0 /\ posted = 0 /\ given # 0
  /\ f.phase = "wait" => client # 0 /\ f.client = client

Alive ==
  /\ client # 0 => up /\ ~terminate /\ posted = 0
  /\ client = 0 /\ (stack = <<>> \/ Top.cmd # "close") => at = "ended"
  /\ \A n \in 1..Len(stack) : stack[n].cmd = "close" => client = 0
  /\ \A n \in 1..Len(stack) : n # Len(stack) => Over(stack[n])
  /\ stack # <<>> => Linked(Top)

\* The close that waited for the opening's lock has deleted the handler the
\* opening goes on with.
Cut ==
  /\ client = 0 /\ (crashed => Top.cmd # "close")
  /\ \E n \in 1..Len(stack) :
       /\ Live(n) /\ stack[n].cmd = "open" /\ stack[n].phase = "next"
       /\ stack[n].todo # <<>> /\ stack[n].todo[1] = "getcwd"

\* The files to be deleted are those of the list.
Spared ==
  /\ ~crashed
  /\ stack # <<>> /\ Has(Top, "delete") => Top.infos = infos /\ "delete" \in session.commands

Kept == session.patient /\ ~session.drops

-----------------------------------------------------------------------------
(* The machine and the command it serves *)

Serving ==
  /\ at \in Working =>
       /\ Serves /\ stack[cb].op = job /\ newCommand
       /\ IF at \in Told THEN stack[cb].done ELSE ~stack[cb].done
  /\ at \in {"prompt", "answer", "failed"} => job = "login"
  /\ \A n \in 1..Len(stack) : stack[n].phase = "wait" /\ stack[n].done =>
       stack[n].by = stack[n].op /\ (stack[n].op \in Local => stack[n].ok)

\* Whom a stop has met, if it can only meet a download
Stopped ==
  /\ ~closing
  /\ lock => stack # <<>> /\ Holds(Top)
  /\ abort \/ cancel => stack # <<>> /\ Top.cmd = "get" /\ Has(Top, "clear")
  /\ stack # <<>> /\ Top.phase = "abor" => ~abort
  /\ \A n \in 1..Len(stack) : n # Len(stack) => stack[n].cmd # "get"

StopsAreOfGet == Calm /\ session.stops \subseteq {"get"} /\ ~session.closes /\ ~session.drops

KInv ==
  /\ Base /\ Pending
  /\ session.patient => Rested
  /\ Kept => Alive \/ Cut
  /\ Kept /\ ~({"refresh", "delete"} \subseteq session.commands) => Spared \/ Cut
  /\ Calm /\ ~crashed => Serving
  /\ StopsAreOfGet => Alive /\ Stopped

-----------------------------------------------------------------------------
(* What is left of a command *)

LEMMA FirstOf == ASSUME NEW T, T \subseteq Nat, T # {} PROVE \E x \in T : \A y \in T : ~(y < x)
<1>1. \E x \in T : \A y \in T : ~(<<y, x>> \in OpToRel(<, Nat))
  BY NatLessThanWellFounded, WFMin, Zenon
<1> QED BY <1>1 DEF OpToRel

\* The end of an ordered todo is ordered.
LEMMA Suffix ==
  ASSUME NEW c, NEW t \in Seq(StepNames), NEW d \in Nat, NEW u \in Seq(StepNames),
         Ordered(c, t), Len(u) = Len(t) - d, \A k \in 1..Len(u) : u[k] = t[k + d]
  PROVE  Ordered(c, u)
<1>1. SUFFICES ASSUME NEW k \in 1..Len(u) PROVE Fits(c, u, k) BY DEF Ordered
<1>2. /\ Len(u) \in Nat /\ Len(t) \in Nat /\ k + d \in 1..Len(t) /\ u[k] = t[k + d] /\ Fits(c, t, k + d)
  BY <1>1 DEF Ordered
<1>3. \A m \in (k + 1)..Len(u) : u[m] = t[m + d] /\ m + d \in (k + d + 1)..Len(t) BY <1>2
<1>4. \A m \in (k + d + 1)..Len(t) : m - d \in (k + 1)..Len(u) /\ u[m - d] = t[m] BY <1>2
<1>5. u[k] = "renew" => k = 1 BY <1>2 DEF Fits
<1>f. \A step : Followed(t, k + d, step) => Followed(u, k, step)
  <2> SUFFICES ASSUME NEW step, Followed(t, k + d, step) PROVE Followed(u, k, step) OBVIOUS
  <2>1. k + d + 1 \in (k + d + 1)..Len(t) /\ t[k + d + 1] = step /\ k \in Nat /\ k + d + 1 - d = k + 1
    BY <1>2 DEF Followed
  <2>2. k + 1 \in (k + 1)..Len(u) /\ u[k + 1] = step BY <1>4, <2>1
  <2> QED BY <1>2, <2>1, <2>2 DEF Followed
<1>6. u[k] = "unlock" => IF c = "open" THEN Followed(u, k, "getcwd")
                         ELSE c \in Locking /\ \A m \in (k + 1)..Len(u) : u[m] = "refresh"
  BY <1>2, <1>3, <1>f DEF Fits
<1>a. /\ u[k] = "auth" => c = "open" /\ Followed(u, k, "dialog")
      /\ u[k] = "dialog" => c = "open" /\ Followed(u, k, "kauth")
      /\ u[k] = "kauth" => c = "open" /\ Followed(u, k, "unlock")
  BY <1>2, <1>f DEF Fits
<1>7. c \in {"get", "put"} /\ u[k] \in Operations => \E m \in (k + 1)..Len(u) : u[m] = "clear"
  <2>1. SUFFICES ASSUME c \in {"get", "put"}, u[k] \in Operations
                 PROVE  \E m \in (k + 1)..Len(u) : u[m] = "clear" OBVIOUS
  <2>2. PICK m \in (k + d + 1)..Len(t) : t[m] = "clear" BY <1>2, <2>1 DEF Fits
  <2> QED BY <2>2, <1>4
<1>8. u[k] = "clear" => \E m \in (k + 1)..Len(u) : u[m] = "unlock"
  <2>1. SUFFICES ASSUME u[k] = "clear" PROVE \E m \in (k + 1)..Len(u) : u[m] = "unlock" OBVIOUS
  <2>2. PICK m \in (k + d + 1)..Len(t) : t[m] = "unlock" BY <1>2, <2>1 DEF Fits
  <2> QED BY <2>2, <1>4
<1>9. u[k] \in {"load", "refresh"} => k = Len(u) BY <1>2 DEF Fits
<1>10. /\ u[k] \in {"renew", "again", "close"} => c = "open"
       /\ u[k] = "delete" => c = "delete"
       /\ c = "delete" => u[k] \in {"cwd", "delete", "unlock"}
       /\ c = "get" => u[k] \in {"getmode", "binary", "get", "clear", "unlock"}
  BY <1>2 DEF Fits
<1> QED BY <1>5, <1>6, <1>7, <1>8, <1>9, <1>10, <1>a DEF Fits

\* A step of the rest that is not the first
LEMMA TailFacts ==
  ASSUME NEW c, NEW t \in Seq(StepNames), t # <<>>, Ordered(c, t)
  PROVE  /\ Tail(t) \in Seq(StepNames) /\ Len(Tail(t)) = Len(t) - 1 /\ Len(t) \in Nat \ {0}
         /\ \A k \in 1..Len(Tail(t)) : Tail(t)[k] = t[k + 1] /\ Tail(t)[k] # "renew"
         /\ Ordered(c, Tail(t)) /\ t[1] \in StepNames /\ Head(t) = t[1] /\ Fits(c, t, 1)
         /\ \A k \in 2..Len(t) : Tail(t)[k - 1] = t[k] /\ k - 1 \in 1..Len(Tail(t))
<1>1. /\ Tail(t) \in Seq(StepNames) /\ Len(Tail(t)) = Len(t) - 1 /\ Len(t) \in Nat \ {0}
      /\ \A k \in 1..Len(Tail(t)) : Tail(t)[k] = t[k + 1]
  BY HeadTailProperties, EmptySeq
<1>2. Ordered(c, Tail(t))
  <2> DEFINE u == Tail(t)
  <2>1. u \in Seq(StepNames) /\ Len(u) = Len(t) - 1 /\ \A k \in 1..Len(u) : u[k] = t[k + 1]
    BY <1>1
  <2> HIDE DEF u
  <2> Ordered(c, u) BY <2>1, Suffix, 1 \in Nat
  <2> QED BY DEF u
<1>3. t[1] \in StepNames /\ Head(t) = t[1] /\ Fits(c, t, 1) BY <1>1, ElementOfSeq DEF Ordered
<1>4. ASSUME NEW k \in 1..Len(Tail(t)) PROVE Tail(t)[k] # "renew"
  <2>1. k + 1 \in 1..Len(t) /\ k + 1 # 1 /\ Tail(t)[k] = t[k + 1] BY <1>1
  <2> QED BY <2>1 DEF Ordered, Fits
<1>5. \A k \in 2..Len(t) : Tail(t)[k - 1] = t[k] /\ k - 1 \in 1..Len(Tail(t)) BY <1>1
<1> QED BY <1>1, <1>2, <1>3, <1>4, <1>5

\* A new first step for the rest, when the user has answered
LEMMA LoginAgain ==
  ASSUME NEW s \in {"login", "again"}, NEW t \in Seq(StepNames), Ordered("open", t),
         \A k \in 1..Len(t) : t[k] # "renew"
  PROVE  /\ <<s>> \o t \in Seq(StepNames) /\ Ordered("open", <<s>> \o t)
         /\ Len(<<s>> \o t) = Len(t) + 1 /\ (<<s>> \o t)[1] = s
         /\ \A k \in 1..Len(<<s>> \o t) : (<<s>> \o t)[k] # "renew"
<1> DEFINE u == <<s>> \o t
<1>1. s \in StepNames BY DEF StepNames, Own, Operations, Asked
<1>2. /\ u \in Seq(StepNames) /\ Len(t) \in Nat /\ Len(u) = Len(t) + 1 /\ u[1] = s
      /\ \A k \in 2..Len(u) : u[k] = t[k - 1] /\ k - 1 \in 1..Len(t)
  BY <1>1
<1> HIDE DEF u
<1>3. \A k \in 1..Len(u) : u[k] # "renew" BY <1>2
<1>4. ASSUME NEW k \in 1..Len(u) PROVE Fits("open", u, k)
  <2>1. CASE k = 1 BY <1>2, <2>1 DEF Fits
  <2>2. CASE k # 1
    <3>1. /\ k - 1 \in 1..Len(t) /\ u[k] = t[k - 1] /\ Fits("open", t, k - 1) /\ k \in Nat /\ Len(t) \in Nat /\ Len(u) = Len(t) + 1
      BY <1>2, <2>2 DEF Ordered
    <3>2. \A m \in k..Len(t) : u[m + 1] = t[m] /\ m + 1 \in (k + 1)..Len(u)
      BY <3>1, <1>2
    <3>f. \A step : Followed(t, k - 1, step) => Followed(u, k, step)
      <4> SUFFICES ASSUME NEW step, Followed(t, k - 1, step) PROVE Followed(u, k, step) OBVIOUS
      <4>1. k \in 1..Len(t) /\ t[k] = step BY <3>1 DEF Followed
      <4>2. k \in k..Len(t) BY <3>1, <4>1
      <4>3. u[k + 1] = step /\ k + 1 \in (k + 1)..Len(u) BY <3>2, <4>1, <4>2
      <4> QED BY <3>1, <4>3 DEF Followed
    <3>3. u[k] = "unlock" => Followed(u, k, "getcwd") BY <3>1, <3>f DEF Fits
    <3>a. /\ u[k] = "auth" => Followed(u, k, "dialog")
          /\ u[k] = "dialog" => Followed(u, k, "kauth")
          /\ u[k] = "kauth" => Followed(u, k, "unlock")
      BY <3>1, <3>f DEF Fits
    <3>4. u[k] = "clear" => \E m \in (k + 1)..Len(u) : u[m] = "unlock"
      <4>1. SUFFICES ASSUME u[k] = "clear" PROVE \E m \in (k + 1)..Len(u) : u[m] = "unlock" OBVIOUS
      <4>2. PICK m \in k..Len(t) : t[m] = "unlock" BY <3>1, <4>1 DEF Fits
      <4> QED BY <4>2, <3>2
    <3>5. u[k] \in {"load", "refresh"} => k = Len(u) BY <3>1 DEF Fits
    <3>6. u[k] # "renew" /\ u[k] # "delete" BY <3>1, <1>3 DEF Fits
    <3> QED BY <3>3, <3>4, <3>5, <3>6, <3>a DEF Fits
  <2> QED BY <2>1, <2>2
<1>5. Ordered("open", u) BY <1>4 DEF Ordered
<1> QED BY <1>2, <1>3, <1>5 DEF u

LEMMA ShortTodos ==
  /\ <<>> \in Seq(StepNames) /\ \A c : Ordered(c, <<>>)
  /\ <<"close">> \in Seq(StepNames) /\ Ordered("open", <<"close">>)
  /\ <<"unlock">> \in Seq(StepNames) /\ \A c \in Locking : Ordered(c, <<"unlock">>)
  /\ <<"getcwd", "load">> \in Seq(StepNames) /\ Ordered("open", <<"getcwd", "load">>)
  /\ <<"unlock", "getcwd", "load">> \in Seq(StepNames)
  /\ Ordered("open", <<"unlock", "getcwd", "load">>)
<1>1. {"close", "unlock", "getcwd", "load"} \subseteq StepNames
  BY DEF StepNames, Own, Operations, Asked
<1>2. Len(<<>>) = 0 /\ Len(<<"close">>) = 1 /\ Len(<<"unlock">>) = 1
      /\ <<"close">>[1] = "close" /\ <<"unlock">>[1] = "unlock" OBVIOUS
<1>3. \A c : Ordered(c, <<>>) BY <1>2 DEF Ordered
<1>4. Ordered("open", <<"close">>)
  <2> Fits("open", <<"close">>, 1) BY <1>2 DEF Fits, Operations, Local, Asked, Twice
  <2> QED BY <1>2 DEF Ordered
<1>5. ASSUME NEW c \in Locking PROVE Ordered(c, <<"unlock">>)
  <2> Fits(c, <<"unlock">>, 1) BY <1>2 DEF Fits, Locking, Operations, Local, Asked, Twice
  <2> QED BY <1>2 DEF Ordered
<1>6. Ordered("open", <<"getcwd", "load">>)
  <2> DEFINE u == <<"getcwd", "load">>
  <2>1. Len(u) = 2 /\ u[1] = "getcwd" /\ u[2] = "load" OBVIOUS
  <2> HIDE DEF u
  <2>2. ASSUME NEW k \in 1..Len(u) PROVE Fits("open", u, k) BY <2>1 DEF Fits
  <2> QED BY <2>2 DEF Ordered, u
<1>7. Ordered("open", <<"unlock", "getcwd", "load">>)
  <2> DEFINE u == <<"unlock", "getcwd", "load">>
  <2>1. Len(u) = 3 /\ u[1] = "unlock" /\ u[2] = "getcwd" /\ u[3] = "load" OBVIOUS
  <2> HIDE DEF u
  <2>2. ASSUME NEW k \in 1..Len(u) PROVE Fits("open", u, k) BY <2>1 DEF Fits, Followed
  <2> QED BY <2>2 DEF Ordered, u
<1> QED BY <1>1, <1>3, <1>4, <1>5, <1>6, <1>7

\* The steps from the clearing on: one of them frees the lock.
LEMMA FromClear ==
  ASSUME NEW c, NEW t \in Seq(StepNames), Ordered(c, t), \E k \in 1..Len(t) : t[k] = "clear",
         \A k \in 1..Len(t) : t[k] # "renew"
  PROVE  LET u == From(t, "clear") IN
         /\ u \in Seq(StepNames) /\ Ordered(c, u)
         /\ \A k \in 1..Len(u) : u[k] # "renew" /\ \E m \in 1..Len(t) : u[k] = t[m]
         /\ \E k \in 1..Len(u) : u[k] = "unlock"
<1> DEFINE P(k) == t[k] = "clear" /\ \A j \in 1..(k-1) : t[j] # "clear"
           i == CHOOSE k \in 1..Len(t) : P(k)
           u == SubSeq(t, i, Len(t))
<1>1. \E k \in 1..Len(t) : P(k)
  <2> DEFINE T == {k \in 1..Len(t) : t[k] = "clear"}
  <2>1. T \subseteq Nat /\ T # {} OBVIOUS
  <2> HIDE DEF T
  <2>2. PICK x \in T : \A y \in T : ~(y < x) BY <2>1, FirstOf
  <2>3. x \in 1..Len(t) /\ t[x] = "clear" /\ \A y \in 1..Len(t) : t[y] = "clear" => ~(y < x)
    BY <2>2 DEF T
  <2>4. \A j \in 1..(x-1) : t[j] # "clear" BY <2>3
  <2> QED BY <2>3, <2>4
<1>2. i \in 1..Len(t) /\ t[i] = "clear" BY <1>1
<1>3. From(t, "clear") = u BY DEF From
<1> HIDE DEF i, P
<1>4. Len(t) \in Nat /\ i \in Int /\ Len(t) \in Int /\ \A j \in i..Len(t) : t[j] \in StepNames
  BY <1>2
<1>5. /\ u \in Seq(StepNames) /\ Len(u) = Len(t) - (i - 1)
      /\ \A k \in 1..(Len(t) - i + 1) : u[k] = t[i + k - 1]
  BY <1>2, <1>4, SubSeqProperties
<1> HIDE DEF u
<1>6. i - 1 \in Nat /\ \A k \in 1..Len(u) : k + (i - 1) \in 1..Len(t) /\ u[k] = t[k + (i - 1)]
  BY <1>2, <1>4, <1>5
<1>7. Ordered(c, u) BY <1>5, <1>6, Suffix
<1>8. u[1] = "clear" /\ Len(u) \in Nat \ {0} BY <1>2, <1>4, <1>5
<1>9. PICK m \in 2..Len(u) : u[m] = "unlock"
  <2> Fits(c, u, 1) /\ 1 + 1 = 2 BY <1>7, <1>8 DEF Ordered
  <2> QED BY <1>8 DEF Fits
<1>10. \A k \in 1..Len(u) : u[k] # "renew" /\ \E j \in 1..Len(t) : u[k] = t[j]
  <2> SUFFICES ASSUME NEW k \in 1..Len(u) PROVE u[k] # "renew" /\ \E j \in 1..Len(t) : u[k] = t[j]
    OBVIOUS
  <2> k + (i - 1) \in 1..Len(t) /\ u[k] = t[k + (i - 1)] BY <1>6
  <2> QED OBVIOUS
<1>11. \E k \in 1..Len(u) : u[k] = "unlock" BY <1>9, <1>8
<1> QED BY <1>3, <1>5, <1>7, <1>10, <1>11, Zenon

\* Where a command goes on, its operation being the first step
LEMMA OnwardFacts ==
  ASSUME NEW f \in Frames, Known(f), f.phase = "wait"
  PROVE  LET u == Onward(f) IN
         /\ u \in Seq(StepNames) /\ Ordered(f.cmd, u)
         /\ \A k \in 1..Len(u) : u[k] # "renew"
         /\ \A k \in 1..Len(u) : u[k] = "delete" => Has(f, "delete") /\ f.op \in {"cwd", "delete"}
         /\ Holds(f) => /\ \E k \in 1..Len(u) : u[k] = "unlock"
                        /\ f.cmd = "open" => u[1] = "unlock"
         /\ f.cmd = "get" /\ (f.op \in Local => f.ok) => \E k \in 1..Len(u) : u[k] = "clear"
<1> DEFINE t == f.todo
           r == Tail(t)
           u == Onward(f)
<1>1. /\ t \in Seq(StepNames) /\ t # <<>> /\ Ordered(f.cmd, t) /\ f.op = t[1] /\ f.op \in Operations
      /\ f.cmd \in Commands /\ f.ok \in BOOLEAN
  BY DEF Known, Frames
<1>2. /\ r \in Seq(StepNames) /\ Len(r) = Len(t) - 1 /\ Len(t) \in Nat \ {0}
      /\ \A k \in 1..Len(r) : r[k] = t[k + 1] /\ r[k] # "renew"
      /\ Ordered(f.cmd, r) /\ Head(t) = t[1] /\ Fits(f.cmd, t, 1)
      /\ \A k \in 2..Len(t) : r[k - 1] = t[k] /\ k - 1 \in 1..Len(r)
  BY <1>1, TailFacts
<1> HIDE DEF r
<1>3. t[1] # "unlock" /\ t[1] # "clear" /\ t[1] # "renew"
  BY <1>1 DEF Operations, Local, Asked, Twice
<1>4. Has(f, "unlock") => \E k \in 1..Len(r) : r[k] = "unlock"
  <2> SUFFICES ASSUME NEW k \in 1..Len(t), t[k] = "unlock" PROVE \E m \in 1..Len(r) : r[m] = "unlock"
    BY DEF Has
  <2>1. k \in 2..Len(t) BY <1>3, <1>2
  <2> QED BY <2>1, <1>2
<1>5. f.cmd \in {"get", "put"} => \E k \in 1..Len(r) : r[k] = "clear"
  <2> SUFFICES ASSUME f.cmd \in {"get", "put"} PROVE \E m \in 1..Len(r) : r[m] = "clear" OBVIOUS
  <2>1. PICK k \in 2..Len(t) : t[k] = "clear" BY <1>1, <1>2 DEF Fits
  <2> QED BY <2>1, <1>2
<1>6. \A k \in 1..Len(r) : r[k] = "delete" => Has(f, "delete") /\ f.op \in {"cwd", "delete"}
  <2> SUFFICES ASSUME NEW k \in 1..Len(r), r[k] = "delete"
               PROVE  Has(f, "delete") /\ f.op \in {"cwd", "delete"} OBVIOUS
  <2>1. k + 1 \in 1..Len(t) /\ t[k + 1] = "delete" BY <1>2
  <2>2. f.cmd = "delete" BY <2>1, <1>1 DEF Ordered, Fits
  <2>3. t[1] \in {"cwd", "delete", "unlock"} BY <2>2, <1>2 DEF Fits
  <2> QED BY <2>1, <2>3, <1>1, <1>3 DEF Has
<1> DEFINE Good(v) ==
         /\ v \in Seq(StepNames) /\ Ordered(f.cmd, v)
         /\ \A k \in 1..Len(v) : v[k] # "renew"
         /\ \A k \in 1..Len(v) : v[k] = "delete" => Has(f, "delete") /\ f.op \in {"cwd", "delete"}
         /\ Holds(f) => /\ \E k \in 1..Len(v) : v[k] = "unlock"
                        /\ f.cmd = "open" => v[1] = "unlock"
         /\ f.cmd = "get" /\ (f.op \in Local => f.ok) => \E k \in 1..Len(v) : v[k] = "clear"
<1>h. Holds(f) => Has(f, "unlock") /\ (f.cmd = "open" => f.op = "kauth")
  BY <1>1 DEF Holds, Operations, Local, Asked, Twice
<1>o. Holds(f) /\ f.cmd = "open" => r[1] = "unlock"
  <2>1. f.op = "kauth" => 2 \in 1..Len(t) /\ t[2] = "unlock" BY <1>1, <1>2 DEF Fits, Followed
  <2>2. 2 \in 1..Len(t) => 2 \in 2..Len(t) /\ 2 - 1 = 1 BY <1>2
  <2> QED BY <1>2, <1>h, <2>1, <2>2
<1>7. Good(r) BY <1>2, <1>4, <1>5, <1>6, <1>h, <1>o
<1>8. ASSUME f.cmd \notin Locking, f.cmd # "open" PROVE ~Holds(f)
  BY <1>1, <1>8 DEF Holds, Has, Ordered, Fits
<1>9. CASE f.cmd = "open" /\ ~f.ok /\ f.op # "kauth"
  <2>1. ~Holds(f) BY <1>h, <1>9
  <2>2. u \in {<<"again">> \o r, <<"close">>} BY <1>1, <1>2, <1>9 DEF Onward, r
  <2>3. CASE u = <<"close">>
    <3>1. Len(<<"close">>) = 1 /\ <<"close">>[1] = "close" OBVIOUS
    <3> QED BY <2>1, <2>3, <3>1, <1>9, ShortTodos
  <2>4. CASE u = <<"again">> \o r
    <3>1. /\ u \in Seq(StepNames) /\ Ordered("open", u) /\ \A k \in 1..Len(u) : u[k] # "renew"
      BY <2>4, <1>2, <1>9, LoginAgain
    <3>2. \A k \in 1..Len(u) : u[k] # "delete" BY <3>1 DEF Ordered, Fits
    <3> QED BY <3>1, <3>2, <2>1, <1>9
  <2> QED BY <2>2, <2>3, <2>4
<1>10. ASSUME f.cmd \in Locking
       PROVE  /\ <<"unlock">> \in Seq(StepNames) /\ Ordered(f.cmd, <<"unlock">>)
              /\ \A k \in 1..Len(<<"unlock">>) : <<"unlock">>[k] = "unlock"
              /\ \E k \in 1..Len(<<"unlock">>) : <<"unlock">>[k] = "unlock"
              /\ f.cmd # "open"
  <2>1. Len(<<"unlock">>) = 1 /\ <<"unlock">>[1] = "unlock" OBVIOUS
  <2> QED BY <1>10, <2>1, ShortTodos DEF Locking
<1>11. CASE f.cmd \in {"list", "refresh"} /\ ~f.ok
  <2>1. u = <<"unlock">> BY <1>11 DEF Onward
  <2> QED BY <2>1, <1>10, <1>11 DEF Locking
<1>12. CASE f.cmd \in {"get", "put"} /\ f.op # f.cmd /\ ~f.ok
  <2>1. u = <<"unlock">> BY <1>12, <1>1, <1>2 DEF Onward
  <2>2. f.cmd = "get" => f.op \in Local
    BY <1>1, <1>2, <1>3, <1>12 DEF Fits, Local
  <2> QED BY <2>1, <2>2, <1>10, <1>12 DEF Locking
<1>13. CASE f.cmd = "put" /\ f.op = "put" /\ (~f.ok \/ cancel)
  <2>1. u = From(r, "clear") BY <1>13, <1>1, <1>2 DEF Onward, r
  <2>2. /\ u \in Seq(StepNames) /\ Ordered(f.cmd, u)
        /\ \A k \in 1..Len(u) : u[k] # "renew" /\ \E m \in 1..Len(r) : u[k] = r[m]
        /\ \E k \in 1..Len(u) : u[k] = "unlock"
    <3>1. (\E k \in 1..Len(r) : r[k] = "clear") /\ \A k \in 1..Len(r) : r[k] # "renew"
      BY <1>2, <1>5, <1>13
    <3>2. r \in Seq(StepNames) /\ Ordered(f.cmd, r) BY <1>2
    <3> DEFINE w == From(r, "clear")
    <3>3. /\ w \in Seq(StepNames) /\ Ordered(f.cmd, w)
          /\ \A k \in 1..Len(w) : w[k] # "renew" /\ \E m \in 1..Len(r) : w[k] = r[m]
          /\ \E k \in 1..Len(w) : w[k] = "unlock"
      BY <3>1, <3>2, FromClear
    <3> HIDE DEF w
    <3>4. u = w BY <2>1 DEF w
    <3> QED BY <3>3, <3>4
  <2> QED BY <2>2, <1>6, <1>13
<1>14. CASE f.cmd = "delete" /\ f.op = "cwd" /\ ~f.ok
  <2>1. u = <<"unlock">> BY <1>14, <1>1, <1>2 DEF Onward
  <2> QED BY <2>1, <1>10, <1>14 DEF Locking
<1>15. CASE f.cmd \in {"mkdir", "rename"} /\ ~f.ok
  <2>1. u = <<>> BY <1>15 DEF Onward
  <2>2. ~Holds(f) BY <1>8, <1>15 DEF Locking
  <2> QED BY <2>1, <2>2, <1>15, ShortTodos
<1>16. CASE /\ ~(f.cmd = "open" /\ ~f.ok /\ f.op # "kauth") /\ ~(f.cmd \in {"list", "refresh"} /\ ~f.ok)
            /\ ~(f.cmd \in {"get", "put"} /\ f.op # f.cmd /\ ~f.ok)
            /\ ~(f.cmd = "put" /\ f.op = "put" /\ (~f.ok \/ cancel))
            /\ ~(f.cmd = "delete" /\ f.op = "cwd" /\ ~f.ok)
            /\ ~(f.cmd \in {"mkdir", "rename"} /\ ~f.ok)
  <2>1. u = r BY <1>16, <1>1, <1>2 DEF Onward, r
  <2> QED BY <2>1, <1>7
<1> QED BY <1>9, <1>11, <1>12, <1>13, <1>14, <1>15, <1>16

\* A step once for each file, with others before and behind
ForEach(a, n, op, b) == a \o Times(n, op) \o b

ListedAs(w, a, n, op, b) ==
  /\ w \in Seq(StepNames) /\ Len(w) = Len(a) + n + Len(b)
  /\ \A k \in 1..Len(a) : w[k] = a[k]
  /\ \A k \in (Len(a) + 1)..(Len(a) + n) : w[k] = op
  /\ \A k \in (Len(a) + n + 1)..Len(w) : w[k] = b[k - (Len(a) + n)]

LEMMA Around ==
  ASSUME NEW a \in Seq(StepNames), NEW b \in Seq(StepNames), NEW n \in Nat, NEW op \in StepNames
  PROVE  ListedAs(ForEach(a, n, op, b), a, n, op, b)
<1> DEFINE m == Times(n, op)
<1>1. m \in Seq(StepNames) /\ Len(m) = n /\ \A k \in 1..n : m[k] = op BY DEF Times
<1> HIDE DEF m
<1> DEFINE v == a \o m
<1>2. /\ v \in Seq(StepNames) /\ Len(v) = Len(a) + n
      /\ \A k \in 1..(Len(a) + n) : v[k] = IF k <= Len(a) THEN a[k] ELSE m[k - Len(a)]
  BY <1>1, ConcatProperties
<1> HIDE DEF v
<1> DEFINE u == v \o b
<1>3. /\ u \in Seq(StepNames) /\ Len(u) = Len(v) + Len(b)
      /\ \A k \in 1..(Len(v) + Len(b)) : u[k] = IF k <= Len(v) THEN v[k] ELSE b[k - Len(v)]
  BY <1>2, ConcatProperties
<1> HIDE DEF u
<1>4. Len(a) \in Nat /\ Len(b) \in Nat OBVIOUS
<1>5. \A k \in 1..Len(a) : u[k] = a[k] BY <1>2, <1>3, <1>4
<1>6. \A k \in (Len(a) + 1)..(Len(a) + n) : u[k] = op BY <1>1, <1>2, <1>3, <1>4
<1>7. \A k \in (Len(a) + n + 1)..Len(u) : u[k] = b[k - (Len(a) + n)]
  BY <1>2, <1>3, <1>4
<1>8. Len(u) = Len(a) + n + Len(b) BY <1>2, <1>3
<1>9. u = ForEach(a, n, op, b) BY DEF u, v, m, ForEach
<1> QED BY <1>3, <1>5, <1>6, <1>7, <1>8, <1>9 DEF ListedAs

\* What a command has to do is in order, and starts with no more than it needs.
LEMMA StepsFacts ==
  ASSUME NEW c \in Commands, NEW n \in Nat
  PROVE  LET u == Steps(c, n) IN
         /\ u \in Seq(StepNames) /\ Ordered(c, u)
         /\ c = "open" => u # <<>> /\ u[1] = "renew"
         /\ c # "open" => \A k \in 1..Len(u) : u[k] # "renew"
         /\ c \in Locking => \E k \in 1..Len(u) : u[k] = "unlock"
         /\ c = "close" => u = <<>>
<1> DEFINE u == Steps(c, n)
<1> USE DEF Operations, Local, Asked, Twice
<1>1. CASE c = "open"
  <2>1. u = <<"renew", "login", "cmd", "auth", "dialog", "kauth", "unlock", "getcwd", "load">>
    BY <1>1 DEF Steps
  <2>2. /\ u \in Seq(StepNames) /\ Len(u) = 9 /\ u[1] = "renew" /\ u[2] = "login"
        /\ u[3] = "cmd" /\ u[4] = "auth" /\ u[5] = "dialog" /\ u[6] = "kauth"
        /\ u[7] = "unlock" /\ u[8] = "getcwd" /\ u[9] = "load"
    BY <2>1 DEF StepNames, Own
  <2> HIDE DEF u
  <2>3. ASSUME NEW k \in 1..Len(u) PROVE Fits(c, u, k)
    <3>1. k \in 1..3 => Fits(c, u, k) BY <2>2, <1>1 DEF Fits
    <3>2. k \in 4..7 => Fits(c, u, k) BY <2>2, <1>1 DEF Fits, Followed
    <3>3. k \in 8..9 => Fits(c, u, k) BY <2>2, <1>1 DEF Fits
    <3> QED BY <2>2, <3>1, <3>2, <3>3
  <2>4. u # <<>> BY <2>2
  <2> QED BY <1>1, <2>2, <2>3, <2>4 DEF Ordered, Locking, u
<1>2. CASE c \in {"list", "refresh"}
  <2>1. u = <<"getlist", "read", "clear", "unlock">> BY <1>2 DEF Steps
  <2>2. /\ u \in Seq(StepNames) /\ Len(u) = 4 /\ u[1] = "getlist" /\ u[2] = "read"
        /\ u[3] = "clear" /\ u[4] = "unlock"
    BY <2>1 DEF StepNames, Own
  <2> HIDE DEF u
  <2>3. ASSUME NEW k \in 1..Len(u) PROVE Fits(c, u, k)
    BY <2>2, <1>2 DEF Fits, Locking
  <2> QED BY <1>2, <2>2, <2>3 DEF Ordered, Locking, u
<1>3. CASE c = "get"
  <2> DEFINE a == <<"getmode", "binary">>
             b == <<"clear", "unlock">>
  <2>1. u = ForEach(a, n, "get", b) BY <1>3 DEF Steps, ForEach
  <2>2. /\ a \in Seq(StepNames) /\ b \in Seq(StepNames) /\ "get" \in StepNames
        /\ Len(a) = 2 /\ Len(b) = 2 /\ a[1] = "getmode" /\ a[2] = "binary" /\ b[1] = "clear" /\ b[2] = "unlock"
    BY DEF StepNames, Own
  <2> HIDE DEF a, b, u
  <2>3. ListedAs(u, a, n, "get", b) BY <2>1, <2>2, Around
  <2>4. Len(u) = n + 4 /\ u[1] = "getmode" /\ u[2] = "binary" /\ u[n + 3] = "clear" /\ u[n + 4] = "unlock"
        /\ \A k \in 3..(n + 2) : u[k] = "get"
    BY <2>2, <2>3 DEF ListedAs
  <2>5. ASSUME NEW k \in 1..Len(u) PROVE Fits(c, u, k)
    <3>1. CASE k = n + 4 BY <2>4, <3>1, <1>3 DEF Fits, Locking
    <3>2. CASE k = n + 3 BY <2>4, <3>2, <1>3 DEF Fits
    <3>3. CASE k < n + 3
      <4>1. u[k] \in {"getmode", "binary", "get"} /\ n + 3 \in (k + 1)..Len(u) BY <2>4, <3>3
      <4> QED BY <4>1, <2>4, <1>3 DEF Fits
    <3> QED BY <2>4, <3>1, <3>2, <3>3
  <2>6. \A k \in 1..Len(u) : u[k] # "renew" BY <2>5, <1>3 DEF Fits
  <2>7. \E k \in 1..Len(u) : u[k] = "unlock" BY <2>4
  <2> QED BY <1>3, <2>3, <2>5, <2>6, <2>7 DEF Ordered, u, ListedAs
<1>4. CASE c = "put"
  <2> DEFINE a == <<"getmode", "binary", "cwd">>
             b == <<"clear", "unlock", "refresh">>
  <2>1. u = ForEach(a, n, "put", b) BY <1>4 DEF Steps, ForEach
  <2>2. /\ a \in Seq(StepNames) /\ b \in Seq(StepNames) /\ "put" \in StepNames
        /\ Len(a) = 3 /\ Len(b) = 3 /\ a[1] = "getmode" /\ a[2] = "binary" /\ a[3] = "cwd"
        /\ b[1] = "clear" /\ b[2] = "unlock" /\ b[3] = "refresh"
    BY DEF StepNames, Own
  <2> HIDE DEF a, b, u
  <2>3. ListedAs(u, a, n, "put", b) BY <2>1, <2>2, Around
  <2>4. Len(u) = n + 6 /\ u[1] = "getmode" /\ u[2] = "binary" /\ u[3] = "cwd" /\ u[n + 4] = "clear"
        /\ u[n + 5] = "unlock" /\ u[n + 6] = "refresh" /\ \A k \in 4..(n + 3) : u[k] = "put"
    BY <2>2, <2>3 DEF ListedAs
  <2>5. ASSUME NEW k \in 1..Len(u) PROVE Fits(c, u, k) /\ u[k] # "renew"
    <3>1. CASE k = n + 6 BY <2>4, <3>1, <1>4 DEF Fits
    <3>2. CASE k = n + 5 BY <2>4, <3>2, <1>4 DEF Fits, Locking
    <3>3. CASE k = n + 4 BY <2>4, <3>3, <1>4 DEF Fits
    <3>4. CASE k < n + 4
      <4>1. u[k] \in {"getmode", "binary", "cwd", "put"} /\ n + 4 \in (k + 1)..Len(u)
        BY <2>4, <3>4
      <4> QED BY <4>1, <2>4, <1>4 DEF Fits
    <3> QED BY <2>4, <3>1, <3>2, <3>3, <3>4
  <2>6. \E k \in 1..Len(u) : u[k] = "unlock" BY <2>4
  <2> QED BY <1>4, <2>3, <2>5, <2>6 DEF Ordered, u, ListedAs
<1>5. CASE c = "delete"
  <2> DEFINE a == <<"cwd">>
             b == <<"unlock">>
  <2>1. u = ForEach(a, n, "delete", b) BY <1>5 DEF Steps, ForEach
  <2>2. /\ a \in Seq(StepNames) /\ b \in Seq(StepNames) /\ "delete" \in StepNames
        /\ Len(a) = 1 /\ Len(b) = 1 /\ a[1] = "cwd" /\ b[1] = "unlock"
    BY DEF StepNames, Own
  <2> HIDE DEF a, b, u
  <2>3. ListedAs(u, a, n, "delete", b) BY <2>1, <2>2, Around
  <2>4. Len(u) = n + 2 /\ u[1] = "cwd" /\ u[n + 2] = "unlock" /\ \A k \in 2..(n + 1) : u[k] = "delete"
    BY <2>2, <2>3 DEF ListedAs
  <2>5. ASSUME NEW k \in 1..Len(u) PROVE Fits(c, u, k) /\ u[k] # "renew"
    <3>1. CASE k = n + 2 BY <2>4, <3>1, <1>5 DEF Fits, Locking
    <3>2. CASE k < n + 2
      <4>1. u[k] \in {"cwd", "delete"} BY <2>4, <3>2
      <4> QED BY <4>1, <1>5 DEF Fits
    <3> QED BY <2>4, <3>1, <3>2
  <2>6. \E k \in 1..Len(u) : u[k] = "unlock" BY <2>4
  <2> QED BY <1>5, <2>3, <2>5, <2>6 DEF Ordered, u, ListedAs
<1>6. CASE c = "mkdir"
  <2>1. u = <<"cwd", "mkdir", "refresh">> BY <1>6 DEF Steps
  <2>2. u \in Seq(StepNames) /\ Len(u) = 3 /\ u[1] = "cwd" /\ u[2] = "mkdir" /\ u[3] = "refresh"
    BY <2>1 DEF StepNames, Own
  <2> HIDE DEF u
  <2>3. ASSUME NEW k \in 1..Len(u) PROVE Fits(c, u, k) /\ u[k] # "renew"
    BY <2>2, <1>6 DEF Fits
  <2> QED BY <1>6, <2>2, <2>3 DEF Ordered, Locking, u
<1>7. CASE c = "rename"
  <2>1. u = <<"cwd", "rename">> BY <1>7 DEF Steps
  <2>2. u \in Seq(StepNames) /\ Len(u) = 2 /\ u[1] = "cwd" /\ u[2] = "rename"
    BY <2>1 DEF StepNames, Own
  <2> HIDE DEF u
  <2>3. ASSUME NEW k \in 1..Len(u) PROVE Fits(c, u, k) /\ u[k] # "renew"
    BY <2>2, <1>7 DEF Fits
  <2> QED BY <1>7, <2>2, <2>3 DEF Ordered, Locking, u
<1>8. CASE c = "remote"
  <2>1. u = <<"klist", "unlock">> BY <1>8 DEF Steps
  <2>2. u \in Seq(StepNames) /\ Len(u) = 2 /\ u[1] = "klist" /\ u[2] = "unlock"
    BY <2>1 DEF StepNames, Own
  <2> HIDE DEF u
  <2>3. ASSUME NEW k \in 1..Len(u) PROVE Fits(c, u, k) /\ u[k] # "renew"
    BY <2>2, <1>8 DEF Fits, Locking
  <2> QED BY <1>8, <2>2, <2>3 DEF Ordered, Locking, u
<1>9. CASE c = "close"
  <2>1. u = <<>> BY <1>9 DEF Steps
  <2> HIDE DEF u
  <2>2. u \in Seq(StepNames) /\ Ordered(c, u) /\ Len(u) = 0 BY <2>1, ShortTodos
  <2> QED BY <1>9, <2>1, <2>2 DEF Locking, u
<1> QED BY <1>1, <1>2, <1>3, <1>4, <1>5, <1>6, <1>7, <1>8, <1>9 DEF Commands, Locking, Unlocked

-----------------------------------------------------------------------------
(* The stack and its last frame *)

LEMMA TopFacts ==
  ASSUME Base, stack # <<>>
  PROVE  Top \in Frames /\ Known(Top) /\ Len(stack) \in Nat \ {0} /\ Len(stack) \in 1..Len(stack)
<1>1. stack \in Seq(Frames) BY DEF Base, Types
<1>2. Len(stack) \in Nat \ {0} BY <1>1, EmptySeq
<1>3. Top \in Frames BY <1>1, <1>2, ElementOfSeq DEF Top
<1> QED BY <1>2, <1>3 DEF Base, Sound, Top

\* The last frame is replaced, one is pushed, or it is popped; or results and
\* answers are written, which nothing but Serving is about.
Turn(g) ==
  /\ stack' \in Seq(Frames) /\ Len(stack) \in Nat \ {0} /\ Len(stack') = Len(stack)
  /\ Top' = g /\ \A n \in 1..(Len(stack) - 1) : stack'[n] = stack[n]

Push(g) ==
  /\ stack' \in Seq(Frames) /\ Len(stack) \in Nat /\ Len(stack') = Len(stack) + 1
  /\ Top' = g /\ \A n \in 1..Len(stack) : stack'[n] = stack[n]

TurnAndPush(g, h) ==
  /\ stack' \in Seq(Frames) /\ Len(stack) \in Nat \ {0} /\ Len(stack') = Len(stack) + 1
  /\ Top' = h /\ stack'[Len(stack)] = g /\ \A n \in 1..(Len(stack) - 1) : stack'[n] = stack[n]

Pop ==
  /\ stack' \in Seq(Frames) /\ Len(stack) \in Nat \ {0} /\ Len(stack') = Len(stack) - 1
  /\ \A n \in 1..(Len(stack) - 1) : stack'[n] = stack[n]

Mark ==
  /\ stack' \in Seq(Frames) /\ Len(stack) \in Nat /\ Len(stack') = Len(stack)
  /\ \A n \in 1..Len(stack) :
       /\ stack'[n].cmd = stack[n].cmd /\ stack'[n].todo = stack[n].todo
       /\ stack'[n].phase = stack[n].phase /\ stack'[n].op = stack[n].op
       /\ stack'[n].client = stack[n].client /\ stack'[n].infos = stack[n].infos

\* The same of sequences
LEMMA ReplaceTop ==
  ASSUME NEW S, NEW s \in Seq(S), s # <<>>, NEW g \in S
  PROVE  LET u == [s EXCEPT ![Len(s)] = g] IN
         /\ u \in Seq(S) /\ Len(s) \in Nat \ {0} /\ Len(u) = Len(s) /\ u # <<>>
         /\ u[Len(s)] = g /\ \A n \in 1..(Len(s) - 1) : u[n] = s[n]
<1>1. Len(s) \in Nat \ {0} /\ Len(s) \in 1..Len(s) BY EmptySeq
<1> QED BY <1>1, ExceptSeq, EmptySeq

LEMMA PushTop ==
  ASSUME NEW S, NEW s \in Seq(S), NEW g \in S, NEW u, u = Append(s, g)
  PROVE  /\ u \in Seq(S) /\ Len(s) \in Nat /\ Len(u) = Len(s) + 1
         /\ u[Len(s) + 1] = g /\ \A n \in 1..Len(s) : u[n] = s[n]
OBVIOUS

LEMMA ReplaceAndPush ==
  ASSUME NEW S, NEW s \in Seq(S), s # <<>>, NEW g \in S, NEW h \in S,
         NEW v, v = Append([s EXCEPT ![Len(s)] = g], h)
  PROVE  /\ v \in Seq(S) /\ Len(s) \in Nat \ {0} /\ Len(v) = Len(s) + 1
         /\ v[Len(s) + 1] = h /\ v[Len(s)] = g /\ \A n \in 1..(Len(s) - 1) : v[n] = s[n]
<1> DEFINE u == [s EXCEPT ![Len(s)] = g]
<1>1. /\ u \in Seq(S) /\ Len(s) \in Nat \ {0} /\ Len(u) = Len(s)
      /\ u[Len(s)] = g /\ \A n \in 1..(Len(s) - 1) : u[n] = s[n]
  BY ReplaceTop
<1>2. v = Append(u, h) OBVIOUS
<1> HIDE DEF u
<1>3. /\ v \in Seq(S) /\ Len(v) = Len(u) + 1
      /\ v[Len(u) + 1] = h /\ \A n \in 1..Len(u) : v[n] = u[n]
  BY <1>1, <1>2
<1> QED BY <1>1, <1>3

LEMMA PopTop ==
  ASSUME NEW S, NEW s \in Seq(S), s # <<>>
  PROVE  LET u == Front(s) IN
         /\ u \in Seq(S) /\ Len(s) \in Nat \ {0} /\ Len(u) = Len(s) - 1
         /\ \A n \in 1..(Len(s) - 1) : u[n] = s[n]
<1>1. Len(s) \in Nat \ {0} BY EmptySeq
<1>2. \A i \in 1..(Len(s) - 1) : s[i] \in S BY <1>1, ElementOfSeq
<1>3. /\ SubSeq(s, 1, Len(s) - 1) \in Seq(S)
      /\ Len(SubSeq(s, 1, Len(s) - 1)) = IF 1 <= Len(s) - 1 THEN (Len(s) - 1) - 1 + 1 ELSE 0
      /\ \A i \in 1..((Len(s) - 1) - 1 + 1) : SubSeq(s, 1, Len(s) - 1)[i] = s[1 + i - 1]
  BY <1>1, <1>2, SubSeqProperties
<1> DEFINE u == SubSeq(s, 1, Len(s) - 1)
<1>4. u = Front(s) BY DEF Front
<1>5. Len(u) = Len(s) - 1
  <2>1. Len(u) = IF 1 <= Len(s) - 1 THEN (Len(s) - 1) - 1 + 1 ELSE 0 BY <1>3
  <2> HIDE DEF u
  <2>2. \A n \in Nat \ {0} : (IF 1 <= n - 1 THEN (n - 1) - 1 + 1 ELSE 0) = n - 1 OBVIOUS
  <2> QED BY <1>1, <2>1, <2>2, Zenon
<1>6. (Len(s) - 1) - 1 + 1 = Len(s) - 1 /\ \A i \in Int : 1 + i - 1 = i BY <1>1
<1>7. u \in Seq(S) /\ \A i \in 1..(Len(s) - 1) : u[i] = s[i] BY <1>1, <1>3, <1>6
<1> HIDE DEF u
<1> QED BY <1>1, <1>4, <1>5, <1>7

LEMMA TurnIs ==
  ASSUME Base, stack # <<>>, NEW g \in Frames, SetTop(g)
  PROVE  Turn(g)
<1>1. stack \in Seq(Frames) BY DEF Base, Types
<1> DEFINE u == [stack EXCEPT ![Len(stack)] = g]
<1>2. /\ u \in Seq(Frames) /\ Len(stack) \in Nat \ {0} /\ Len(u) = Len(stack)
      /\ u[Len(stack)] = g /\ \A n \in 1..(Len(stack) - 1) : u[n] = stack[n]
  BY <1>1, ReplaceTop
<1>3. stack' = u BY DEF SetTop
<1> HIDE DEF u
<1> QED BY <1>2, <1>3 DEF Turn, Top

LEMMA PushIs ==
  ASSUME Base, NEW g \in Frames, stack' = Append(stack, g)
  PROVE  Push(g)
<1>1. stack \in Seq(Frames) BY DEF Base, Types
<1>2. /\ stack' \in Seq(Frames) /\ Len(stack) \in Nat /\ Len(stack') = Len(stack) + 1
      /\ stack'[Len(stack) + 1] = g /\ \A n \in 1..Len(stack) : stack'[n] = stack[n]
  BY <1>1, PushTop
<1> QED BY <1>2 DEF Push, Top

LEMMA TurnAndPushIs ==
  ASSUME Base, stack # <<>>, NEW g \in Frames, NEW h \in Frames,
         stack' = Append([stack EXCEPT ![Len(stack)] = g], h)
  PROVE  TurnAndPush(g, h)
<1>1. stack \in Seq(Frames) BY DEF Base, Types
<1> QED BY <1>1, ReplaceAndPush DEF TurnAndPush, Top

LEMMA PopIs ==
  ASSUME Base, stack # <<>>, stack' = Front(stack)
  PROVE  Pop
<1>1. stack \in Seq(Frames) BY DEF Base, Types
<1> QED BY <1>1, PopTop DEF Pop

-----------------------------------------------------------------------------
(* Frames *)

LEMMA FrameFacts ==
  ASSUME NEW c \in Commands, NEW n \in Nat, infos \in Nat, NEW i \in Nat, NEW g,
         g = [Frame(c, n) EXCEPT !.infos = i]
  PROVE  /\ g \in Frames /\ g.cmd = c /\ g.todo = Steps(c, n) /\ g.phase = "next" /\ g.infos = i
         /\ c # "close" => Known(g)
<1>1. Steps(c, n) \in Seq(StepNames) /\ Ordered(c, Steps(c, n)) BY StepsFacts
<1>2. /\ Frame(c, n) \in Frames /\ Frame(c, n).cmd = c /\ Frame(c, n).todo = Steps(c, n)
      /\ Frame(c, n).phase = "next"
  BY <1>1 DEF Frame, Frames, Phases, Jobs
<1>3. g \in Frames /\ g.cmd = c /\ g.todo = Steps(c, n) /\ g.phase = "next" /\ g.infos = i
  BY <1>2 DEF Frames
<1> QED BY <1>1, <1>3 DEF Known

LEMMA CloseFrameFacts ==
  ASSUME infos \in Nat
  PROVE  /\ CloseFrame \in Frames /\ CloseFrame.cmd = "close" /\ CloseFrame.todo = <<>>
         /\ CloseFrame.phase = "delete" /\ Known(CloseFrame)
<1>1. Steps("close", 0) = <<>> BY DEF Steps
<1>2. /\ Frame("close", 0) \in Frames /\ Frame("close", 0).cmd = "close" /\ Frame("close", 0).todo = <<>>
  BY <1>1, ShortTodos DEF Frame, Frames, Phases, Jobs, Commands
<1>3. CloseFrame \in Frames /\ CloseFrame.cmd = "close" /\ CloseFrame.todo = <<>> /\ CloseFrame.phase = "delete"
  BY <1>2 DEF CloseFrame, Frames, Phases
<1> QED BY <1>3, ShortTodos DEF Known

LEMMA GotoFacts ==
  ASSUME Top \in Frames, NEW t \in Seq(StepNames), NEW g, g = Goto(t)
  PROVE  /\ g \in Frames /\ g.cmd = Top.cmd /\ g.todo = t /\ g.phase = "next" /\ g.infos = Top.infos
         /\ Ordered(Top.cmd, t) /\ Top.cmd # "close" => Known(g)
<1>1. g \in Frames /\ g.cmd = Top.cmd /\ g.todo = t /\ g.phase = "next" /\ g.infos = Top.infos
  BY DEF Goto, Frames, Phases, Jobs
<1> QED BY <1>1 DEF Known

LEMMA StartedFacts ==
  ASSUME Top \in Frames, NEW op \in Operations, client \in Nat, NEW g,
         g = [Top EXCEPT !.phase = "wait", !.op = op, !.done = FALSE, !.ok = FALSE,
                         !.note = FALSE, !.by = "none", !.client = client]
  PROVE  /\ g \in Frames /\ g.cmd = Top.cmd /\ g.todo = Top.todo /\ g.phase = "wait" /\ g.op = op
         /\ ~g.done /\ g.client = client /\ g.infos = Top.infos
<1>1. g \in Frames BY DEF Frames, Phases, Jobs
<1>2. /\ g.cmd = Top.cmd /\ g.todo = Top.todo /\ g.phase = "wait" /\ g.op = op
      /\ ~g.done /\ g.client = client /\ g.infos = Top.infos
  BY DEF Frames
<1> QED BY <1>1, <1>2

LEMMA InPhaseFacts ==
  ASSUME Top \in Frames, NEW p \in Phases, NEW g, g = [Top EXCEPT !.phase = p]
  PROVE  /\ g \in Frames /\ g.cmd = Top.cmd /\ g.todo = Top.todo /\ g.phase = p
         /\ g.infos = Top.infos
BY DEF Frames

-----------------------------------------------------------------------------
(* What the actions do with the stack *)

\* Frame g goes on behind the first step of f.
After(g, f) ==
  /\ g.cmd = f.cmd /\ g.phase = "next" /\ g.infos = f.infos
  /\ Len(g.todo) \in Nat /\ Len(g.todo) + 1 = Len(f.todo)
  /\ \A k \in 1..Len(g.todo) : g.todo[k] = f.todo[k + 1] /\ g.todo[k] # "renew"
  /\ \A k \in 2..Len(f.todo) : g.todo[k - 1] = f.todo[k] /\ k - 1 \in 1..Len(g.todo)

LEMMA DoingFacts ==
  ASSUME Base, NEW step, Doing(step)
  PROVE  /\ stack # <<>> /\ ~crashed /\ Top \in Frames /\ Known(Top) /\ Len(stack) \in Nat \ {0}
         /\ Top.phase = "next" /\ Top.cmd # "close" /\ Top.todo # <<>> /\ Top.todo[1] = step
         /\ Top.todo \in Seq(StepNames) /\ 1 \in 1..Len(Top.todo) /\ Fits(Top.cmd, Top.todo, 1)
<1>1. stack # <<>> /\ ~crashed /\ Top.phase = "next" /\ Top.todo # <<>> /\ Head(Top.todo) = step
  BY DEF Doing
<1>2. Top \in Frames /\ Known(Top) /\ Len(stack) \in Nat \ {0} BY <1>1, TopFacts
<1>3. Top.todo \in Seq(StepNames) /\ Ordered(Top.cmd, Top.todo) BY <1>2 DEF Frames, Known
<1>4. Head(Top.todo) = Top.todo[1] /\ Len(Top.todo) \in Nat \ {0} /\ Fits(Top.cmd, Top.todo, 1)
  BY <1>1, <1>3, TailFacts
<1>5. Top.cmd # "close" BY <1>1, <1>2 DEF Known
<1> QED BY <1>1, <1>2, <1>3, <1>4, <1>5

LEMMA GoesOn ==
  ASSUME Base, stack # <<>>, Top.todo # <<>>, Top.cmd # "close", NEW g, g = Goto(Tail(Top.todo))
  PROVE  g \in Frames /\ Known(g) /\ After(g, Top)
<1>1. Top \in Frames /\ Known(Top) BY TopFacts
<1>2. Top.todo \in Seq(StepNames) /\ Ordered(Top.cmd, Top.todo) BY <1>1 DEF Frames, Known
<1> DEFINE t == Tail(Top.todo)
<1>3. /\ t \in Seq(StepNames) /\ Len(t) = Len(Top.todo) - 1 /\ Len(Top.todo) \in Nat \ {0}
      /\ \A k \in 1..Len(t) : t[k] = Top.todo[k + 1] /\ t[k] # "renew"
      /\ Ordered(Top.cmd, t)
      /\ \A k \in 2..Len(Top.todo) : t[k - 1] = Top.todo[k] /\ k - 1 \in 1..Len(t)
  BY <1>2, TailFacts
<1>4. g = Goto(t) OBVIOUS
<1> HIDE DEF t
<1>5. g \in Frames /\ g.cmd = Top.cmd /\ g.todo = t /\ g.phase = "next" /\ g.infos = Top.infos /\ Known(g)
  BY <1>1, <1>3, <1>4, GotoFacts
<1>6. Len(g.todo) \in Nat /\ Len(g.todo) + 1 = Len(Top.todo) BY <1>3, <1>5
<1> QED BY <1>3, <1>5, <1>6 DEF After

LEMMA Emptied ==
  ASSUME Base, stack # <<>>, Top.cmd # "close", NEW g, g = Goto(<<>>)
  PROVE  g \in Frames /\ Known(g) /\ g.cmd = Top.cmd /\ g.phase = "next" /\ g.infos = Top.infos
         /\ Len(g.todo) = 0 /\ g.todo = <<>>
<1>1. Top \in Frames BY TopFacts
<1> DEFINE t == <<>>
<1>2. t \in Seq(StepNames) /\ Ordered(Top.cmd, t) /\ Len(t) = 0 BY ShortTodos
<1>3. g = Goto(t) OBVIOUS
<1>4. t = <<>> OBVIOUS
<1> HIDE DEF t
<1>5. g \in Frames /\ g.cmd = Top.cmd /\ g.todo = t /\ g.phase = "next" /\ g.infos = Top.infos /\ Known(g)
  BY <1>1, <1>2, <1>3, GotoFacts
<1> QED BY <1>2, <1>4, <1>5

LEMMA StartOpDoes ==
  ASSUME Base, StartOp
  PROVE  /\ stack # <<>> /\ ~crashed /\ Top.phase = "next" /\ Top.cmd # "close"
         /\ 1 \in 1..Len(Top.todo) /\ Top.todo[1] \in Operations
         /\ \/ Crash /\ (client = 0 \/ (Top.todo[1] = "delete" /\ Top.infos # infos))
            \/ /\ \E g \in Frames :
                    /\ Turn(g) /\ Known(g) /\ g.cmd = Top.cmd /\ g.todo = Top.todo
                    /\ g.phase = "wait" /\ g.op = Top.todo[1] /\ ~g.done /\ g.client = client
                    /\ g.infos = Top.infos
               /\ client # 0 /\ cb' = Len(stack) /\ newCommand' = TRUE
               /\ UNCHANGED <<session, client, lock, cancel, closing, infos, given, crashed,
                              posted, at, job, terminate, abort, wire>>
<1>1. PICK op \in Operations :
        /\ Doing(op)
        /\ IF client = 0 \/ (op = "delete" /\ Top.infos # infos) THEN Crash
           ELSE /\ SetTop([Top EXCEPT !.phase = "wait", !.op = op, !.done = FALSE, !.ok = FALSE,
                            !.note = FALSE, !.by = "none", !.client = client])
                /\ cb' = Len(stack) /\ newCommand' = TRUE
                /\ UNCHANGED <<session, client, lock, cancel, closing, infos, given, crashed,
                               posted, at, job, terminate, abort, wire>>
  BY Zenon DEF StartOp
<1>2. /\ stack # <<>> /\ ~crashed /\ Top \in Frames /\ Known(Top) /\ Top.phase = "next"
      /\ Top.cmd # "close" /\ Top.todo # <<>> /\ Top.todo[1] = op /\ 1 \in 1..Len(Top.todo)
  BY <1>1, DoingFacts
<1>3. CASE client = 0 \/ (op = "delete" /\ Top.infos # infos)
  BY <1>1, <1>2, <1>3, Zenon
<1>4. CASE ~(client = 0 \/ (op = "delete" /\ Top.infos # infos))
  <2> DEFINE g == [Top EXCEPT !.phase = "wait", !.op = op, !.done = FALSE, !.ok = FALSE,
                              !.note = FALSE, !.by = "none", !.client = client]
  <2>1. /\ SetTop(g) /\ cb' = Len(stack) /\ newCommand' = TRUE
        /\ UNCHANGED <<session, client, lock, cancel, closing, infos, given, crashed,
                       posted, at, job, terminate, abort, wire>>
    BY <1>1, <1>4, Zenon
  <2>2. client \in Nat BY DEF Base, Types
  <2> op \in Operations OBVIOUS
  <2>0. g = [Top EXCEPT !.phase = "wait", !.op = op, !.done = FALSE, !.ok = FALSE,
                        !.note = FALSE, !.by = "none", !.client = client] OBVIOUS
  <2> HIDE DEF g
  <2>3. /\ g \in Frames /\ g.cmd = Top.cmd /\ g.todo = Top.todo /\ g.phase = "wait" /\ g.op = op
        /\ ~g.done /\ g.client = client /\ g.infos = Top.infos
    BY <1>2, <2>0, <2>2, StartedFacts, ZenonT(40)
  <2>4. Turn(g) BY <1>2, <2>1, <2>3, TurnIs
  <2>5. Known(g) BY <1>2, <2>3 DEF Known
  <2>6. g \in Frames /\ Turn(g) /\ Known(g) /\ g.cmd = Top.cmd /\ g.todo = Top.todo /\ g.phase = "wait"
        /\ g.op = Top.todo[1] /\ ~g.done /\ g.client = client /\ g.infos = Top.infos
    BY <1>2, <2>3, <2>4, <2>5
  <2>7. client # 0 BY <1>4
  <2> QED BY <1>2, <2>1, <2>6, <2>7, Zenon
<1> QED BY <1>3, <1>4

LEMMA ReturnDoes ==
  ASSUME Base, Return
  PROVE  /\ stack # <<>> /\ ~crashed /\ Top \in Frames /\ Known(Top) /\ Top.phase = "wait" /\ Top.done
         /\ session.calm => at \notin {"second", "failed", "reset"}
         /\ \E g \in Frames :
              /\ Turn(g) /\ Known(g) /\ g.cmd = Top.cmd /\ g.phase = "next" /\ g.infos = Top.infos
              /\ \A k \in 1..Len(g.todo) : g.todo[k] # "renew"
              /\ Has(g, "delete") => Has(Top, "delete") /\ Top.op \in {"cwd", "delete"}
              /\ Holds(Top) => Holds(g)
              /\ Top.cmd = "get" /\ (Top.op \in Local => Top.ok) => Has(g, "clear")
         /\ infos' = IF Top.op = "getlist" /\ Top.ok THEN infos + 1 ELSE infos
         /\ UNCHANGED <<session, client, lock, cancel, closing, given, crashed, posted,
                        machine, abort, wire>>
<1>1. /\ stack # <<>> /\ ~crashed /\ Top.phase = "wait" /\ Top.done
      /\ session.calm => at \notin {"second", "failed", "reset"}
      /\ SetTop(Goto(Onward(Top)))
      /\ infos' = IF Top.op = "getlist" /\ Top.ok THEN infos + 1 ELSE infos
      /\ UNCHANGED <<session, client, lock, cancel, closing, given, crashed, posted,
                     machine, abort, wire>>
  BY Zenon DEF Return
<1>2. Top \in Frames /\ Known(Top) BY <1>1, TopFacts
<1> DEFINE u == Onward(Top)
           g == Goto(u)
<1>3. /\ u \in Seq(StepNames) /\ Ordered(Top.cmd, u)
      /\ \A k \in 1..Len(u) : u[k] # "renew"
      /\ \A k \in 1..Len(u) : u[k] = "delete" => Has(Top, "delete") /\ Top.op \in {"cwd", "delete"}
      /\ Holds(Top) => /\ \E k \in 1..Len(u) : u[k] = "unlock"
                       /\ Top.cmd = "open" => u[1] = "unlock"
      /\ Top.cmd = "get" /\ (Top.op \in Local => Top.ok) => \E k \in 1..Len(u) : u[k] = "clear"
  BY <1>1, <1>2, OnwardFacts
<1>4. SetTop(g) /\ g = Goto(u) BY <1>1
<1> HIDE DEF u, g
<1>5. Top.cmd # "close" BY <1>1, <1>2 DEF Known
<1>6. g \in Frames /\ g.cmd = Top.cmd /\ g.todo = u /\ g.phase = "next" /\ g.infos = Top.infos /\ Known(g)
  BY <1>2, <1>3, <1>4, <1>5, GotoFacts
<1>7. Turn(g) BY <1>1, <1>4, <1>6, TurnIs
<1>8. /\ g \in Frames /\ Turn(g) /\ Known(g) /\ g.cmd = Top.cmd /\ g.phase = "next" /\ g.infos = Top.infos
      /\ \A k \in 1..Len(g.todo) : g.todo[k] # "renew"
      /\ Has(g, "delete") => Has(Top, "delete") /\ Top.op \in {"cwd", "delete"}
      /\ Holds(Top) => Holds(g)
      /\ Top.cmd = "get" /\ (Top.op \in Local => Top.ok) => Has(g, "clear")
  <2>1. Holds(Top) => Holds(g)
    <3>1. Holds(g) <=> (\E k \in 1..Len(u) : u[k] = "unlock")
                         /\ (Top.cmd = "open" => u[1] \in {"dialog", "kauth", "unlock"})
      BY <1>6 DEF Holds, Has
    <3> QED BY <1>3, <3>1
  <2> QED BY <1>3, <1>6, <1>7, <2>1 DEF Has
<1> QED BY <1>1, <1>2, <1>8, Zenon

LEMMA AnswerDoes ==
  ASSUME Base, Answer
  PROVE  /\ Mark /\ stack # <<>> /\ ~crashed
         /\ \A n \in 1..Len(stack) : /\ stack'[n].done = stack[n].done /\ stack'[n].ok = stack[n].ok
                                     /\ stack'[n].by = stack[n].by
         /\ UNCHANGED <<session, client, lock, cancel, closing, infos, given, crashed, posted,
                        machine, abort, wire>>
<1> DEFINE g == [Top EXCEPT !.asks = FALSE]
<1>1. /\ stack # <<>> /\ ~crashed /\ SetTop(g)
      /\ UNCHANGED <<session, client, lock, cancel, closing, infos, given, crashed, posted,
                     machine, abort, wire>>
  BY Zenon DEF Answer
<1>2. Top \in Frames /\ Len(stack) \in Nat \ {0} BY <1>1, TopFacts
<1>3. /\ g \in Frames /\ g.cmd = Top.cmd /\ g.todo = Top.todo /\ g.phase = Top.phase /\ g.op = Top.op
      /\ g.client = Top.client /\ g.infos = Top.infos
      /\ g.done = Top.done /\ g.ok = Top.ok /\ g.by = Top.by
  BY <1>2 DEF Frames
<1> HIDE DEF g
<1>4. Turn(g) BY <1>1, <1>3, TurnIs
<1>5. \A n \in 1..Len(stack) : \/ stack'[n] = stack[n]
                               \/ stack'[n] = g /\ stack[n] = Top
  BY <1>2, <1>4 DEF Turn, Top
<1>6. Mark BY <1>2, <1>3, <1>4, <1>5 DEF Mark, Turn
<1>7. ASSUME NEW n \in 1..Len(stack)
      PROVE  stack'[n].done = stack[n].done /\ stack'[n].ok = stack[n].ok /\ stack'[n].by = stack[n].by
  <2>1. CASE stack'[n] = stack[n] BY <2>1, Zenon
  <2>2. CASE stack'[n] = g /\ stack[n] = Top BY <2>2, <1>3, Zenon
  <2> QED BY <2>1, <2>2, <1>5
<1> QED BY <1>1, <1>6, <1>7, Zenon

LEMMA AgainDoes ==
  ASSUME Base, Again
  PROVE  /\ stack # <<>> /\ ~crashed /\ Top.cmd = "open" /\ given' \in Nat /\ Top.phase = "next"
         /\ 1 \in 1..Len(Top.todo) /\ Top.todo[1] = "again"
         /\ \E g \in Frames :
              /\ Turn(g) /\ Known(g) /\ g.cmd = Top.cmd /\ g.phase = "next" /\ g.infos = Top.infos
              /\ \A k \in 1..Len(g.todo) : g.todo[k] # "renew"
         /\ UNCHANGED <<session, client, lock, cancel, closing, infos, crashed, posted, machine,
                        abort, wire>>
<1>1. Doing("again")
      /\ UNCHANGED <<session, client, lock, cancel, closing, infos, crashed, posted, machine,
                     abort, wire>>
  BY Zenon DEF Again
<1>2. PICK todo \in {<<"login">> \o Tail(Top.todo), <<"close">>} :
        /\ given' = IF todo = <<"close">> THEN given ELSE given + 1
        /\ SetTop(Goto(todo))
  BY Zenon DEF Again
<1>3. /\ stack # <<>> /\ ~crashed /\ Top \in Frames /\ Known(Top) /\ Top.phase = "next"
      /\ Top.cmd # "close" /\ Top.todo # <<>> /\ Top.todo[1] = "again" /\ 1 \in 1..Len(Top.todo)
      /\ Top.todo \in Seq(StepNames) /\ Fits(Top.cmd, Top.todo, 1)
  BY <1>1, DoingFacts
<1>4. Top.cmd = "open" BY <1>3 DEF Fits
<1>5. given' \in Nat BY <1>2 DEF Base, Types
<1>6. todo \in Seq(StepNames) /\ Ordered("open", todo) /\ \A k \in 1..Len(todo) : todo[k] # "renew"
  <2>1. CASE todo = <<"close">>
    <3>1. todo \in Seq(StepNames) /\ Ordered("open", todo) BY <2>1, ShortTodos
    <3>2. Len(todo) = 1 /\ todo[1] = "close" BY <2>1
    <3> QED BY <3>1, <3>2
  <2>2. CASE todo = <<"login">> \o Tail(Top.todo)
    <3> DEFINE t == Tail(Top.todo)
    <3>1. t \in Seq(StepNames) /\ Ordered("open", t) /\ \A k \in 1..Len(t) : t[k] # "renew"
      BY <1>3, <1>4, TailFacts DEF Known
    <3>2. todo = <<"login">> \o t BY <2>2
    <3> HIDE DEF t
    <3> QED BY <3>1, <3>2, LoginAgain
  <2> QED BY <2>1, <2>2
<1> DEFINE g == Goto(todo)
<1>7. SetTop(g) /\ g = Goto(todo) BY <1>2
<1> HIDE DEF g
<1>8. g \in Frames /\ g.cmd = Top.cmd /\ g.todo = todo /\ g.phase = "next" /\ g.infos = Top.infos /\ Known(g)
  BY <1>3, <1>4, <1>6, <1>7, GotoFacts
<1>9. Turn(g) BY <1>3, <1>7, <1>8, TurnIs
<1>10. \A k \in 1..Len(g.todo) : g.todo[k] # "renew" BY <1>6, <1>8
<1> QED BY <1>1, <1>3, <1>4, <1>5, <1>8, <1>9, <1>10, Zenon

LEMMA RemAuthDoes ==
  ASSUME Base, RemAuth
  PROVE  /\ stack # <<>> /\ ~crashed /\ Top.cmd = "open" /\ Top.phase = "next"
         /\ 1 \in 1..Len(Top.todo) /\ Top.todo[1] = "auth"
         /\ \/ client = 0 /\ crashed' = TRUE /\ UNCHANGED <<stack, lock>>
            \/ /\ UNCHANGED crashed
               /\ \E g \in Frames :
                    /\ Turn(g) /\ Known(g) /\ g.cmd = Top.cmd /\ g.phase = "next" /\ g.infos = Top.infos
                    /\ \A k \in 1..Len(g.todo) : g.todo[k] # "renew"
                    /\ UNCHANGED lock \/ (lock' = TRUE /\ Holds(g))
         /\ UNCHANGED <<session, client, cancel, closing, infos, given, posted, machine, abort, wire>>
<1>1. /\ Doing("auth")
      /\ UNCHANGED <<session, client, cancel, closing, infos, given, posted, machine, abort, wire>>
      /\ \/ SetTop(Goto(<<"getcwd", "load">>)) /\ UNCHANGED <<lock, crashed>>
         \/ client = 0 /\ crashed' = TRUE /\ UNCHANGED <<stack, lock>>
         \/ lock' = TRUE /\ SetTop(Goto(Tail(Top.todo))) /\ UNCHANGED crashed
  BY Zenon DEF RemAuth
<1>2. /\ stack # <<>> /\ ~crashed /\ Top \in Frames /\ Known(Top) /\ Top.phase = "next"
      /\ Top.cmd # "close" /\ Top.todo # <<>> /\ Top.todo[1] = "auth" /\ 1 \in 1..Len(Top.todo)
      /\ Fits(Top.cmd, Top.todo, 1) /\ Ordered(Top.cmd, Top.todo)
  BY <1>1, DoingFacts DEF Known
<1>3. Top.cmd = "open" BY <1>2 DEF Fits
<1>4. CASE SetTop(Goto(<<"getcwd", "load">>)) /\ UNCHANGED <<lock, crashed>>
  <2> DEFINE t == <<"getcwd", "load">>
             g == Goto(t)
  <2>1. t \in Seq(StepNames) /\ Ordered("open", t) BY ShortTodos
  <2>2. \A k \in 1..Len(t) : t[k] # "renew" OBVIOUS
  <2>3. SetTop(g) /\ g = Goto(t) BY <1>4
  <2> HIDE DEF g, t
  <2>4. g \in Frames /\ g.cmd = Top.cmd /\ g.todo = t /\ g.phase = "next" /\ g.infos = Top.infos /\ Known(g)
    BY <1>2, <1>3, <2>1, <2>3, GotoFacts
  <2>5. Turn(g) BY <1>2, <2>3, <2>4, TurnIs
  <2>6. \A k \in 1..Len(g.todo) : g.todo[k] # "renew" BY <2>2, <2>4
  <2> QED BY <1>1, <1>2, <1>3, <1>4, <2>4, <2>5, <2>6, Zenon
<1>5. CASE client = 0 /\ crashed' = TRUE /\ UNCHANGED <<stack, lock>>
  BY <1>1, <1>2, <1>3, <1>5, Zenon
<1>6. CASE lock' = TRUE /\ SetTop(Goto(Tail(Top.todo))) /\ UNCHANGED crashed
  <2> DEFINE g == Goto(Tail(Top.todo))
  <2>1. SetTop(g) /\ g = Goto(Tail(Top.todo)) BY <1>6
  <2> HIDE DEF g
  <2>2. g \in Frames /\ Known(g) /\ After(g, Top) BY <1>2, <2>1, GoesOn
  <2>3. Turn(g) BY <1>2, <2>1, <2>2, TurnIs
  <2>4. /\ g.cmd = Top.cmd /\ g.phase = "next" /\ g.infos = Top.infos
        /\ \A k \in 1..Len(g.todo) : g.todo[k] # "renew"
    BY <2>2 DEF After
  <2>5. Holds(g)
    <3>1. Followed(Top.todo, 1, "dialog") BY <1>2 DEF Fits
    <3>2. 2 \in 1..Len(Top.todo) /\ Top.todo[2] = "dialog" BY <3>1 DEF Followed
    <3>3. Followed(Top.todo, 2, "kauth") BY <1>2, <3>2 DEF Ordered, Fits
    <3>4. 3 \in 1..Len(Top.todo) /\ Top.todo[3] = "kauth" BY <3>3 DEF Followed
    <3>5. Followed(Top.todo, 3, "unlock") BY <1>2, <3>4 DEF Ordered, Fits
    <3>6. 4 \in 1..Len(Top.todo) /\ Top.todo[4] = "unlock" BY <3>5 DEF Followed
    <3>7. Len(Top.todo) \in Nat BY <2>2 DEF After
    <3>8. 2 \in 2..Len(Top.todo) /\ 4 \in 2..Len(Top.todo) /\ 2 - 1 = 1 /\ 4 - 1 = 3
      BY <3>2, <3>6, <3>7
    <3>9. g.todo[1] = "dialog" /\ g.todo[3] = "unlock" /\ 3 \in 1..Len(g.todo)
      BY <2>2, <3>2, <3>6, <3>8 DEF After
    <3> QED BY <3>9 DEF Holds, Has
  <2> QED BY <1>1, <1>2, <1>3, <1>6, <2>2, <2>3, <2>4, <2>5, Zenon
<1> QED BY <1>1, <1>4, <1>5, <1>6

LEMMA DialogDoes ==
  ASSUME Base, Dialog
  PROVE  /\ stack # <<>> /\ ~crashed /\ Top.cmd = "open" /\ Top.phase = "next"
         /\ 1 \in 1..Len(Top.todo) /\ Top.todo[1] = "dialog"
         /\ \E g \in Frames :
              /\ Turn(g) /\ Known(g) /\ g.cmd = Top.cmd /\ g.phase = "next" /\ g.infos = Top.infos
              /\ \A k \in 1..Len(g.todo) : g.todo[k] # "renew"
              /\ Holds(g)
         /\ UNCHANGED <<session, client, lock, cancel, closing, infos, given, crashed, posted,
                        machine, abort, wire>>
<1>1. /\ Doing("dialog")
      /\ UNCHANGED <<session, client, lock, cancel, closing, infos, given, crashed, posted,
                     machine, abort, wire>>
      /\ SetTop(Goto(Tail(Top.todo))) \/ SetTop(Goto(<<"unlock", "getcwd", "load">>))
  BY Zenon DEF Dialog
<1>2. /\ stack # <<>> /\ ~crashed /\ Top \in Frames /\ Known(Top) /\ Top.phase = "next"
      /\ Top.cmd # "close" /\ Top.todo # <<>> /\ Top.todo[1] = "dialog" /\ 1 \in 1..Len(Top.todo)
      /\ Fits(Top.cmd, Top.todo, 1) /\ Ordered(Top.cmd, Top.todo)
  BY <1>1, DoingFacts DEF Known
<1>3. Top.cmd = "open" BY <1>2 DEF Fits
<1>4. CASE SetTop(Goto(<<"unlock", "getcwd", "load">>))
  <2> DEFINE t == <<"unlock", "getcwd", "load">>
             g == Goto(t)
  <2>1. t \in Seq(StepNames) /\ Ordered("open", t) BY ShortTodos
  <2>2. (\A k \in 1..Len(t) : t[k] # "renew") /\ t[1] = "unlock" /\ 1 \in 1..Len(t) OBVIOUS
  <2>3. SetTop(g) /\ g = Goto(t) BY <1>4
  <2> HIDE DEF g, t
  <2>4. g \in Frames /\ g.cmd = Top.cmd /\ g.todo = t /\ g.phase = "next" /\ g.infos = Top.infos /\ Known(g)
    BY <1>2, <1>3, <2>1, <2>3, GotoFacts
  <2>5. Turn(g) BY <1>2, <2>3, <2>4, TurnIs
  <2>6. (\A k \in 1..Len(g.todo) : g.todo[k] # "renew") /\ Holds(g) BY <2>2, <2>4 DEF Holds, Has
  <2> QED BY <1>1, <1>2, <1>3, <2>4, <2>5, <2>6, Zenon
<1>5. CASE SetTop(Goto(Tail(Top.todo)))
  <2> DEFINE g == Goto(Tail(Top.todo))
  <2>1. SetTop(g) /\ g = Goto(Tail(Top.todo)) BY <1>5
  <2> HIDE DEF g
  <2>2. g \in Frames /\ Known(g) /\ After(g, Top) BY <1>2, <2>1, GoesOn
  <2>3. Turn(g) BY <1>2, <2>1, <2>2, TurnIs
  <2>4. /\ g.cmd = Top.cmd /\ g.phase = "next" /\ g.infos = Top.infos
        /\ \A k \in 1..Len(g.todo) : g.todo[k] # "renew"
    BY <2>2 DEF After
  <2>5. Holds(g)
    <3>1. Followed(Top.todo, 1, "kauth") BY <1>2 DEF Fits
    <3>2. 2 \in 1..Len(Top.todo) /\ Top.todo[2] = "kauth" BY <3>1 DEF Followed
    <3>3. Followed(Top.todo, 2, "unlock") BY <1>2, <3>2 DEF Ordered, Fits
    <3>4. 3 \in 1..Len(Top.todo) /\ Top.todo[3] = "unlock" BY <3>3 DEF Followed
    <3>5. Len(Top.todo) \in Nat BY <2>2 DEF After
    <3>6. 2 \in 2..Len(Top.todo) /\ 3 \in 2..Len(Top.todo) /\ 2 - 1 = 1 /\ 3 - 1 = 2
      BY <3>2, <3>4, <3>5
    <3>7. g.todo[1] = "kauth" /\ g.todo[2] = "unlock" /\ 2 \in 1..Len(g.todo)
      BY <2>2, <3>2, <3>4, <3>6 DEF After
    <3> QED BY <3>7 DEF Holds, Has
  <2> QED BY <1>1, <1>2, <1>3, <2>2, <2>3, <2>4, <2>5, Zenon
<1> QED BY <1>1, <1>4, <1>5

LEMMA ReadListDoes ==
  ASSUME Base, ReadList
  PROVE  /\ stack # <<>> /\ ~crashed /\ Top.cmd # "close" /\ Top.cmd # "get"
         /\ Top.todo # <<>> /\ Top.todo[1] = "read" /\ Top.phase \in {"next", "read"}
         /\ \E g \in Frames :
              /\ Turn(g) /\ Known(g)
              /\ \/ /\ g.cmd = Top.cmd /\ g.todo = Top.todo /\ g.phase = "read" /\ g.infos = Top.infos
                    /\ UNCHANGED abort
                 \/ After(g, Top) /\ abort' = (abort \/ cancel)
         /\ UNCHANGED <<session, client, lock, cancel, closing, infos, given, crashed, posted, machine,
                        wire>>
<1>1. /\ \/ Doing("read") /\ SetTop([Top EXCEPT !.phase = "read"]) /\ UNCHANGED abort
         \/ /\ stack # <<>> /\ ~crashed /\ Top.phase = "read"
            /\ abort' = (abort \/ cancel) /\ SetTop(Goto(Tail(Top.todo)))
      /\ UNCHANGED <<session, client, lock, cancel, closing, infos, given, crashed, posted, machine,
                     wire>>
  BY Zenon DEF ReadList
<1>2. CASE Doing("read") /\ SetTop([Top EXCEPT !.phase = "read"]) /\ UNCHANGED abort
  <2>1. /\ stack # <<>> /\ ~crashed /\ Top \in Frames /\ Known(Top) /\ Top.phase = "next"
        /\ Top.cmd # "close" /\ Top.todo # <<>> /\ Top.todo[1] = "read"
        /\ Fits(Top.cmd, Top.todo, 1)
    BY <1>2, DoingFacts
  <2> DEFINE g == [Top EXCEPT !.phase = "read"]
  <2>2. g \in Frames /\ g.cmd = Top.cmd /\ g.todo = Top.todo /\ g.phase = "read" /\ g.infos = Top.infos
    BY <2>1, InPhaseFacts DEF Phases
  <2>3. SetTop(g) BY <1>2
  <2> HIDE DEF g
  <2>4. Turn(g) BY <2>1, <2>2, <2>3, TurnIs
  <2>5. Known(g) BY <2>1, <2>2 DEF Known
  <2>6. Top.cmd # "get" BY <2>1 DEF Fits
  <2> QED BY <1>1, <1>2, <2>1, <2>2, <2>4, <2>5, <2>6
<1>3. CASE /\ stack # <<>> /\ ~crashed /\ Top.phase = "read"
           /\ abort' = (abort \/ cancel) /\ SetTop(Goto(Tail(Top.todo)))
  <2>1. Top \in Frames /\ Known(Top) BY <1>3, TopFacts
  <2>2. Top.todo # <<>> /\ Top.todo[1] = "read" /\ Top.cmd # "close" BY <2>1, <1>3 DEF Known
  <2>3. Top.cmd # "get"
    <3>1. Fits(Top.cmd, Top.todo, 1) BY <2>1, <2>2, TailFacts DEF Known, Frames
    <3> QED BY <3>1, <2>2 DEF Fits
  <2> DEFINE g == Goto(Tail(Top.todo))
  <2>4. SetTop(g) /\ g = Goto(Tail(Top.todo)) BY <1>3
  <2> HIDE DEF g
  <2>5. g \in Frames /\ Known(g) /\ After(g, Top) BY <1>3, <2>2, <2>4, GoesOn
  <2>6. Turn(g) BY <1>3, <2>4, <2>5, TurnIs
  <2> QED BY <1>1, <1>3, <2>2, <2>3, <2>5, <2>6
<1> QED BY <1>1, <1>2, <1>3

LEMMA ClearAbortDoes ==
  ASSUME Base, ClearAbort
  PROVE  /\ stack # <<>> /\ ~crashed /\ Top.cmd # "close" /\ Top.phase = "next"
         /\ 1 \in 1..Len(Top.todo) /\ Top.todo[1] = "clear"
         /\ \/ client = 0 /\ Crash
            \/ /\ client # 0 /\ abort' = FALSE
               /\ \E g \in Frames :
                    /\ Turn(g) /\ Known(g)
                    /\ \/ /\ g.cmd = Top.cmd /\ g.todo = Top.todo /\ g.phase = "abor" /\ g.infos = Top.infos
                          /\ UNCHANGED cancel
                       \/ After(g, Top) /\ cancel' = FALSE
               /\ UNCHANGED <<session, client, lock, closing, infos, given, crashed, posted, machine, up>>
<1>1. Doing("clear") BY DEF ClearAbort
<1>2. /\ stack # <<>> /\ ~crashed /\ Top \in Frames /\ Known(Top) /\ Top.phase = "next"
      /\ Top.cmd # "close" /\ Top.todo # <<>> /\ Top.todo[1] = "clear" /\ 1 \in 1..Len(Top.todo)
  BY <1>1, DoingFacts
<1>3. CASE client = 0 BY <1>2, <1>3, Zenon DEF ClearAbort
<1>4. CASE client # 0
  <2>1. /\ abort' = FALSE
        /\ UNCHANGED <<session, client, lock, closing, infos, given, crashed, posted, machine, up>>
        /\ \/ SetTop([Top EXCEPT !.phase = "abor"]) /\ UNCHANGED cancel
           \/ cancel' = FALSE /\ SetTop(Goto(Tail(Top.todo)))
    BY <1>4, Zenon DEF ClearAbort
  <2>2. CASE SetTop([Top EXCEPT !.phase = "abor"]) /\ UNCHANGED cancel
    <3> DEFINE g == [Top EXCEPT !.phase = "abor"]
    <3>1. g \in Frames /\ g.cmd = Top.cmd /\ g.todo = Top.todo /\ g.phase = "abor" /\ g.infos = Top.infos
      BY <1>2, InPhaseFacts DEF Phases
    <3>2. SetTop(g) BY <2>2
    <3> HIDE DEF g
    <3>3. Turn(g) BY <1>2, <3>1, <3>2, TurnIs
    <3>4. Known(g) BY <1>2, <3>1 DEF Known
    <3> QED BY <1>2, <1>4, <2>1, <2>2, <3>1, <3>3, <3>4
  <2>3. CASE cancel' = FALSE /\ SetTop(Goto(Tail(Top.todo)))
    <3> DEFINE g == Goto(Tail(Top.todo))
    <3>1. SetTop(g) /\ g = Goto(Tail(Top.todo)) BY <2>3
    <3> HIDE DEF g
    <3>2. g \in Frames /\ Known(g) /\ After(g, Top) BY <1>2, <3>1, GoesOn
    <3>3. Turn(g) BY <1>2, <3>1, <3>2, TurnIs
    <3> QED BY <1>2, <1>4, <2>1, <2>3, <3>2, <3>3
  <2> QED BY <2>1, <2>2, <2>3
<1> QED BY <1>3, <1>4

LEMMA AborReplyDoes ==
  ASSUME Base, AborReply
  PROVE  /\ stack # <<>> /\ ~crashed /\ Top.cmd # "close" /\ Top.phase = "abor"
         /\ Top.todo # <<>> /\ Top.todo[1] = "clear"
         /\ cancel' = FALSE /\ \E g \in Frames : Turn(g) /\ Known(g) /\ After(g, Top)
         /\ UNCHANGED <<session, client, lock, closing, infos, given, crashed, posted, machine,
                        abort, up>>
<1>1. /\ stack # <<>> /\ ~crashed /\ Top.phase = "abor" /\ cancel' = FALSE
      /\ SetTop(Goto(Tail(Top.todo)))
      /\ UNCHANGED <<session, client, lock, closing, infos, given, crashed, posted, machine,
                     abort, up>>
  BY Zenon DEF AborReply
<1>2. Top \in Frames /\ Known(Top) BY <1>1, TopFacts
<1>3. Top.todo # <<>> /\ Top.todo[1] = "clear" /\ Top.cmd # "close" BY <1>2, <1>1 DEF Known
<1> DEFINE g == Goto(Tail(Top.todo))
<1>4. SetTop(g) /\ g = Goto(Tail(Top.todo)) BY <1>1
<1> HIDE DEF g
<1>5. g \in Frames /\ Known(g) /\ After(g, Top) BY <1>1, <1>3, <1>4, GoesOn
<1>6. Turn(g) BY <1>1, <1>4, <1>5, TurnIs
<1> QED BY <1>1, <1>3, <1>5, <1>6

LEMMA UnlockDoes ==
  ASSUME Base, Unlock
  PROVE  /\ stack # <<>> /\ ~crashed /\ Top.cmd # "close" /\ Top.phase = "next"
         /\ 1 \in 1..Len(Top.todo) /\ Top.todo[1] = "unlock"
         /\ Top.cmd # "open" => \A k \in 2..Len(Top.todo) : Top.todo[k] = "refresh"
         /\ Top.cmd = "open" => Followed(Top.todo, 1, "getcwd")
         /\ lock' = FALSE
         /\ \E g \in Frames :
              /\ Known(g) /\ After(g, Top)
              /\ \/ /\ closing /\ client # 0 /\ client' = 0 /\ terminate' = TRUE /\ UNCHANGED closing
                    /\ TurnAndPush(g, CloseFrame)
                 \/ closing' = FALSE /\ Turn(g) /\ UNCHANGED <<client, terminate>>
         /\ UNCHANGED <<session, cancel, infos, given, crashed, posted, at, cb, newCommand, job,
                        abort, wire>>
<1> DEFINE g == Goto(Tail(Top.todo))
           s == [stack EXCEPT ![Len(stack)] = g]
<1>1. /\ Doing("unlock") /\ lock' = FALSE
      /\ UNCHANGED <<session, cancel, infos, given, crashed, posted, at, cb, newCommand, job,
                     abort, wire>>
      /\ \/ /\ closing /\ client # 0 /\ client' = 0 /\ terminate' = TRUE
            /\ stack' = Append(s, CloseFrame) /\ UNCHANGED closing
         \/ closing' = FALSE /\ stack' = s /\ UNCHANGED <<client, terminate>>
  BY Zenon DEF Unlock
<1>2. /\ stack # <<>> /\ ~crashed /\ Top \in Frames /\ Known(Top) /\ Top.phase = "next"
      /\ Top.cmd # "close" /\ Top.todo # <<>> /\ Top.todo[1] = "unlock" /\ 1 \in 1..Len(Top.todo)
      /\ Fits(Top.cmd, Top.todo, 1)
  BY <1>1, DoingFacts
<1>3. /\ Top.cmd # "open" => \A k \in 2..Len(Top.todo) : Top.todo[k] = "refresh"
      /\ Top.cmd = "open" => Followed(Top.todo, 1, "getcwd")
  BY <1>2 DEF Fits
<1>4. g = Goto(Tail(Top.todo)) OBVIOUS
<1>5. stack' = s => SetTop(g) BY DEF SetTop
<1>6. stack' = Append(s, CloseFrame) => stack' = Append([stack EXCEPT ![Len(stack)] = g], CloseFrame) OBVIOUS
<1> HIDE DEF g, s
<1>7. g \in Frames /\ Known(g) /\ After(g, Top) BY <1>2, <1>4, GoesOn
<1>8. CloseFrame \in Frames BY CloseFrameFacts DEF Base, Types
<1>9. CASE /\ closing /\ client # 0 /\ client' = 0 /\ terminate' = TRUE
           /\ stack' = Append(s, CloseFrame) /\ UNCHANGED closing
  <2>1. TurnAndPush(g, CloseFrame) BY <1>2, <1>6, <1>7, <1>8, <1>9, TurnAndPushIs
  <2> QED BY <1>1, <1>2, <1>3, <1>7, <1>9, <2>1, Zenon
<1>10. CASE closing' = FALSE /\ stack' = s /\ UNCHANGED <<client, terminate>>
  <2>1. Turn(g) BY <1>2, <1>5, <1>7, <1>10, TurnIs
  <2> QED BY <1>1, <1>2, <1>3, <1>7, <1>10, <2>1, Zenon
<1> QED BY <1>1, <1>9, <1>10

LEMMA LoadDoes ==
  ASSUME Base, Load
  PROVE  /\ stack # <<>> /\ ~crashed /\ Top.cmd # "close" /\ Top.cmd # "get" /\ Top.phase = "next"
         /\ Len(Top.todo) = 1 /\ Top.todo[1] \in {"load", "refresh"}
         /\ infos' = infos + 1
         /\ \E g \in Frames :
              /\ Known(g) /\ g.cmd = Top.cmd /\ g.phase = "next" /\ Len(g.todo) = 0 /\ g.todo = <<>>
              /\ \/ (lock \/ client = 0) /\ Turn(g) /\ UNCHANGED lock
                 \/ /\ ~lock /\ client # 0 /\ lock' = TRUE
                    /\ \E h \in Frames :
                         /\ TurnAndPush(g, h) /\ Known(h) /\ h.cmd = "list" /\ h.phase = "next"
                         /\ Has(h, "unlock") /\ ~Has(h, "delete")
                         /\ \A k \in 1..Len(h.todo) : h.todo[k] # "renew"
         /\ UNCHANGED <<session, client, cancel, closing, given, crashed, posted, machine, abort,
                        wire>>
<1> DEFINE g == Goto(<<>>)
           s == [stack EXCEPT ![Len(stack)] = g]
           h == [Frame("list", 1) EXCEPT !.infos = infos']
<1>1. /\ \E step \in {"load", "refresh"} : Doing(step)
      /\ infos' = infos + 1
      /\ \/ (lock \/ client = 0) /\ stack' = s /\ UNCHANGED lock
         \/ ~lock /\ client # 0 /\ stack' = Append(s, h) /\ lock' = TRUE
      /\ UNCHANGED <<session, client, cancel, closing, given, crashed, posted, machine, abort,
                     wire>>
  BY Zenon DEF Load
<1>2. PICK step \in {"load", "refresh"} : Doing(step) BY <1>1
<1>3. /\ stack # <<>> /\ ~crashed /\ Top \in Frames /\ Known(Top) /\ Top.phase = "next"
      /\ Top.cmd # "close" /\ Top.todo # <<>> /\ Top.todo[1] = step /\ 1 \in 1..Len(Top.todo)
      /\ Fits(Top.cmd, Top.todo, 1)
  BY <1>2, DoingFacts
<1>4. Len(Top.todo) = 1 /\ Top.cmd # "get" BY <1>3 DEF Fits
<1>5. g = Goto(<<>>) OBVIOUS
<1>6. stack' = s => SetTop(g) BY DEF SetTop
<1>7. stack' = Append(s, h) => stack' = Append([stack EXCEPT ![Len(stack)] = g], h) OBVIOUS
<1>8. infos \in Nat /\ infos' \in Nat BY <1>1 DEF Base, Types
<1>9. h = [Frame("list", 1) EXCEPT !.infos = infos'] OBVIOUS
<1> HIDE DEF g, s, h
<1>10. g \in Frames /\ Known(g) /\ g.cmd = Top.cmd /\ g.phase = "next" /\ Len(g.todo) = 0 /\ g.todo = <<>>
  BY <1>3, <1>5, Emptied
<1>11. h \in Frames /\ h.cmd = "list" /\ h.todo = Steps("list", 1) /\ h.phase = "next" /\ Known(h)
  <2>1. "list" \in Commands /\ 1 \in Nat BY DEF Commands, Locking
  <2>2. Steps("list", 1) \in Seq(StepNames) /\ Ordered("list", Steps("list", 1))
    BY <2>1, StepsFacts
  <2> DEFINE f == Frame("list", 1)
  <2>3. f \in Frames /\ f.cmd = "list" /\ f.todo = Steps("list", 1) /\ f.phase = "next"
    BY <1>8, <2>1, <2>2 DEF Frame, Frames, Phases, Jobs
  <2> HIDE DEF f
  <2>4. h = [f EXCEPT !.infos = infos'] BY <1>9 DEF f
  <2>5. h \in Frames /\ h.cmd = "list" /\ h.todo = Steps("list", 1) /\ h.phase = "next"
    BY <1>8, <2>3, <2>4 DEF Frames
  <2> QED BY <2>2, <2>5 DEF Known
<1>12. Has(h, "unlock") /\ ~Has(h, "delete") /\ \A k \in 1..Len(h.todo) : h.todo[k] # "renew"
  <2>1. "list" \in Commands /\ 1 \in Nat /\ "list" \in Locking BY DEF Commands, Locking
  <2> DEFINE u == Steps("list", 1)
  <2>2. /\ Ordered("list", u) /\ \A k \in 1..Len(u) : u[k] # "renew"
        /\ \E k \in 1..Len(u) : u[k] = "unlock"
    BY <2>1, StepsFacts
  <2>3. h.todo = u BY <1>11
  <2> HIDE DEF u
  <2> QED BY <2>2, <2>3 DEF Has, Ordered, Fits
<1>13. CASE (lock \/ client = 0) /\ stack' = s /\ UNCHANGED lock
  <2>1. Turn(g) BY <1>3, <1>6, <1>10, <1>13, TurnIs
  <2> QED BY <1>1, <1>3, <1>4, <1>10, <1>13, <2>1, Zenon
<1>14. CASE ~lock /\ client # 0 /\ stack' = Append(s, h) /\ lock' = TRUE
  <2>1. TurnAndPush(g, h) BY <1>3, <1>7, <1>10, <1>11, <1>14, TurnAndPushIs
  <2>2. h \in Frames /\ TurnAndPush(g, h) /\ Known(h) /\ h.cmd = "list" /\ h.phase = "next"
        /\ Has(h, "unlock") /\ ~Has(h, "delete") /\ \A k \in 1..Len(h.todo) : h.todo[k] # "renew"
    BY <2>1, <1>11, <1>12
  <2> QED BY <1>1, <1>3, <1>4, <1>10, <1>14, <2>2, Zenon
<1> QED BY <1>1, <1>13, <1>14

LEMMA GiveUpDoes ==
  ASSUME Base, GiveUp
  PROVE  /\ stack # <<>> /\ ~crashed /\ Top.cmd = "open" /\ Top.phase = "next"
         /\ 1 \in 1..Len(Top.todo) /\ Top.todo[1] = "close"
         /\ \E g \in Frames :
              /\ Known(g) /\ g.cmd = Top.cmd /\ g.phase = "next" /\ Len(g.todo) = 0 /\ g.todo = <<>>
              /\ g.infos = Top.infos
              /\ \/ /\ client = 0 /\ closing' = FALSE /\ Turn(g)
                    /\ UNCHANGED <<client, cancel, abort, terminate>>
                 \/ /\ client # 0 /\ lock /\ closing' = TRUE /\ cancel' = TRUE /\ abort' = TRUE /\ Turn(g)
                    /\ UNCHANGED <<client, terminate>>
                 \/ /\ client # 0 /\ ~lock /\ client' = 0 /\ terminate' = TRUE
                    /\ TurnAndPush(g, CloseFrame) /\ UNCHANGED <<closing, cancel, abort>>
         /\ UNCHANGED <<session, lock, infos, given, crashed, posted, at, cb, newCommand, job, wire>>
<1> DEFINE g == Goto(<<>>)
           s == [stack EXCEPT ![Len(stack)] = g]
<1>1. /\ Doing("close")
      /\ UNCHANGED <<session, lock, infos, given, crashed, posted, at, cb, newCommand, job, wire>>
      /\ \/ /\ client = 0 /\ closing' = FALSE /\ stack' = s
            /\ UNCHANGED <<client, cancel, abort, terminate>>
         \/ /\ client # 0 /\ lock /\ closing' = TRUE /\ cancel' = TRUE /\ abort' = TRUE /\ stack' = s
            /\ UNCHANGED <<client, terminate>>
         \/ /\ client # 0 /\ ~lock /\ client' = 0 /\ terminate' = TRUE
            /\ stack' = Append(s, CloseFrame) /\ UNCHANGED <<closing, cancel, abort>>
  BY Zenon DEF GiveUp, CmCloseConnection
<1>2. /\ stack # <<>> /\ ~crashed /\ Top \in Frames /\ Known(Top) /\ Top.phase = "next"
      /\ Top.cmd # "close" /\ Top.todo # <<>> /\ Top.todo[1] = "close" /\ 1 \in 1..Len(Top.todo)
      /\ Fits(Top.cmd, Top.todo, 1)
  BY <1>1, DoingFacts
<1>3. Top.cmd = "open" BY <1>2 DEF Fits
<1>4. g = Goto(<<>>) OBVIOUS
<1>5. stack' = s => SetTop(g) BY DEF SetTop
<1>6. stack' = Append(s, CloseFrame) => stack' = Append([stack EXCEPT ![Len(stack)] = g], CloseFrame) OBVIOUS
<1> HIDE DEF g, s
<1>7. g \in Frames /\ Known(g) /\ g.cmd = Top.cmd /\ g.phase = "next" /\ Len(g.todo) = 0 /\ g.todo = <<>>
      /\ g.infos = Top.infos
  BY <1>2, <1>4, Emptied
<1>8. CloseFrame \in Frames BY CloseFrameFacts DEF Base, Types
<1>9. CASE stack' = s
  <2>1. Turn(g) BY <1>2, <1>5, <1>7, <1>9, TurnIs
  <2>2. Len(stack') = Len(stack) /\ Len(stack) \in Nat BY <2>1 DEF Turn
  <2>3. stack' # Append(s, CloseFrame)
    <3>1. s \in Seq(Frames) BY <1>9, <2>1 DEF Turn
    <3>2. Len(Append(s, CloseFrame)) = Len(s) + 1 /\ Len(s) = Len(stack)
      BY <3>1, <1>8, <1>9, <2>2
    <3> QED BY <3>2, <2>2
  <2> QED BY <1>1, <1>2, <1>3, <1>7, <2>1, <2>3, Zenon
<1>10. CASE /\ client # 0 /\ ~lock /\ client' = 0 /\ terminate' = TRUE
            /\ stack' = Append(s, CloseFrame) /\ UNCHANGED <<closing, cancel, abort>>
  <2>1. TurnAndPush(g, CloseFrame) BY <1>2, <1>6, <1>7, <1>8, <1>10, TurnAndPushIs
  <2> QED BY <1>1, <1>2, <1>3, <1>7, <1>10, <2>1, Zenon
<1> QED BY <1>1, <1>9, <1>10, Zenon

LEMMA DeletedDoes ==
  ASSUME Base, Deleted
  PROVE  /\ stack # <<>> /\ ~crashed /\ Top.cmd = "close" /\ Top.todo = <<>> /\ at = "ended" /\ Pop
         /\ infos' = infos + 1 /\ closing' = FALSE /\ up' = FALSE /\ abort' = FALSE
         /\ UNCHANGED <<session, client, lock, cancel, given, crashed, posted, machine>>
<1>1. /\ stack # <<>> /\ ~crashed /\ Top.phase = "delete" /\ at = "ended"
      /\ stack' = Front(stack) /\ infos' = infos + 1 /\ closing' = FALSE
      /\ up' = FALSE /\ abort' = FALSE
      /\ UNCHANGED <<session, client, lock, cancel, given, crashed, posted, machine>>
  BY DEF Deleted
<1>2. Top \in Frames /\ Known(Top) BY <1>1, TopFacts
<1> QED BY <1>1, <1>2, PopIs DEF Known

LEMMA LeaveDoes ==
  ASSUME Base, Leave
  PROVE  /\ stack # <<>> /\ ~crashed /\ Top.cmd # "close" /\ Top.phase = "next" /\ Top.todo = <<>> /\ Pop
         /\ UNCHANGED <<session, client, lock, cancel, closing, infos, given, crashed, posted,
                        machine, abort, wire>>
<1>1. /\ stack # <<>> /\ ~crashed /\ Top.phase = "next" /\ Top.todo = <<>> /\ stack' = Front(stack)
      /\ UNCHANGED <<session, client, lock, cancel, closing, infos, given, crashed, posted,
                     machine, abort, wire>>
  BY DEF Leave
<1>2. Top \in Frames /\ Known(Top) BY <1>1, TopFacts
<1> QED BY <1>1, <1>2, PopIs DEF Known

LEMMA RenewDoes ==
  ASSUME Base, Renew
  PROVE  /\ stack # <<>> /\ ~crashed /\ Top.cmd = "open" /\ Top.phase = "next"
         /\ Top.todo # <<>> /\ Top.todo[1] = "renew"
         /\ \/ /\ at # "ended" /\ terminate' = TRUE
               /\ UNCHANGED <<stack, client, at, newCommand, job, abort, up>>
            \/ /\ at = "ended" /\ client' = given
               /\ \E g \in Frames : Turn(g) /\ Known(g) /\ After(g, Top)
               /\ at' = "greeting" /\ newCommand' = FALSE /\ job' = "none" /\ abort' = FALSE
               /\ terminate' = FALSE /\ up' = TRUE
         /\ UNCHANGED <<session, lock, cancel, closing, infos, given, crashed, posted, cb>>
<1> DEFINE g == Goto(Tail(Top.todo))
<1>1. /\ Doing("renew")
      /\ \/ /\ at # "ended" /\ terminate' = TRUE
            /\ UNCHANGED <<stack, client, at, newCommand, job, abort, up>>
         \/ /\ at = "ended" /\ client' = given /\ SetTop(g)
            /\ at' = "greeting" /\ newCommand' = FALSE /\ job' = "none" /\ abort' = FALSE
            /\ terminate' = FALSE /\ up' = TRUE
      /\ UNCHANGED <<session, lock, cancel, closing, infos, given, crashed, posted, cb>>
  BY Zenon DEF Renew, wire
<1>2. /\ stack # <<>> /\ ~crashed /\ Top \in Frames /\ Known(Top) /\ Top.phase = "next"
      /\ Top.cmd # "close" /\ Top.todo # <<>> /\ Top.todo[1] = "renew"
      /\ Fits(Top.cmd, Top.todo, 1)
  BY <1>1, DoingFacts
<1>3. Top.cmd = "open" BY <1>2 DEF Fits
<1>4. g = Goto(Tail(Top.todo)) OBVIOUS
<1> HIDE DEF g
<1>5. g \in Frames /\ Known(g) /\ After(g, Top) BY <1>2, <1>4, GoesOn
<1>6. SetTop(g) => Turn(g) BY <1>2, <1>5, TurnIs
<1> QED BY <1>1, <1>2, <1>3, <1>5, <1>6, Zenon

LEMMA GiveDoes ==
  ASSUME Base, NEW c \in Locking \cup Unlocked, Give(c)
  PROVE  /\ Pumping /\ posted = 0 /\ c \in session.commands /\ given' = given + 1
         /\ \/ /\ lock /\ c = "refresh" /\ infos' = infos + 1 /\ UNCHANGED <<stack, lock>>
               /\ client # 0
            \/ /\ session.patient => stack = <<>>
               /\ c = "open" => client = 0 \/ ~up
               /\ c # "open" => client # 0
               /\ infos' \in Nat /\ lock' = (lock \/ c \in Locking)
               /\ \E h \in Frames :
                    /\ Push(h) /\ Known(h) /\ h.cmd = c /\ h.phase = "next" /\ h.infos = infos'
                    /\ c = "open" => h.todo # <<>> /\ h.todo[1] = "renew"
                    /\ c # "open" => \A k \in 1..Len(h.todo) : h.todo[k] # "renew"
                    /\ c \in Locking => Has(h, "unlock")
         /\ UNCHANGED <<session, client, cancel, closing, posted, crashed, machine, abort, wire>>
<1>1. /\ Pumping /\ posted = 0 /\ c \in session.commands /\ given' = given + 1
      /\ session.patient /\ stack # <<>> => lock /\ c \notin {"open", "rename"}
      /\ IF c = "open" THEN client = 0 \/ ~up ELSE client # 0
      /\ infos' = IF c = "refresh" \/ c = "list" THEN infos + 1 ELSE infos
      /\ IF Allowed(c)
         THEN /\ \E n \in 1..MaxFiles :
                   /\ n = 1 \/ c \in {"get", "put", "delete"}
                   /\ stack' = Append(stack, [Frame(c, n) EXCEPT !.infos = infos'])
              /\ lock' = (lock \/ c \in Locking)
         ELSE UNCHANGED <<stack, lock>>
      /\ Allowed(c) \/ c = "refresh"
      /\ UNCHANGED <<session, client, cancel, closing, posted, crashed, machine, abort, wire>>
  BY Zenon DEF Give
<1>2. infos \in Nat /\ infos' \in Nat /\ lock \in BOOLEAN BY <1>1 DEF Base, Types
<1>3. CASE ~Allowed(c)
  <2>1. lock /\ c = "refresh" BY <1>1, <1>3 DEF Allowed
  <2> QED BY <1>1, <1>3, <2>1
<1>4. CASE Allowed(c)
  <2>1. PICK n \in 1..MaxFiles : stack' = Append(stack, [Frame(c, n) EXCEPT !.infos = infos'])
    BY <1>1, <1>4, Zenon
  <2>2. n \in Nat /\ c \in Commands /\ c # "close"
    BY KftpAssumption DEF Commands, Locking, Unlocked
  <2>3. Steps(c, n) \in Seq(StepNames) /\ Ordered(c, Steps(c, n)) BY <2>2, StepsFacts
  <2> DEFINE f == Frame(c, n)
             h == [f EXCEPT !.infos = infos']
  <2>4. f \in Frames /\ f.cmd = c /\ f.todo = Steps(c, n) /\ f.phase = "next"
    BY <1>2, <2>2, <2>3 DEF Frame, Frames, Phases, Jobs
  <2>5. stack' = Append(stack, h) BY <2>1
  <2> HIDE DEF f
  <2>6. h \in Frames /\ h.cmd = c /\ h.todo = Steps(c, n) /\ h.phase = "next" /\ h.infos = infos'
    BY <1>2, <2>4 DEF Frames
  <2> HIDE DEF h
  <2>7. Known(h) BY <2>2, <2>3, <2>6 DEF Known
  <2>8. Push(h) BY <2>5, <2>6, PushIs
  <2> DEFINE u == Steps(c, n)
  <2>9. /\ c = "open" => u # <<>> /\ u[1] = "renew"
        /\ c # "open" => \A k \in 1..Len(u) : u[k] # "renew"
        /\ c \in Locking => \E k \in 1..Len(u) : u[k] = "unlock"
    BY <2>2, StepsFacts
  <2>10. h.todo = u BY <2>6
  <2> HIDE DEF u
  <2>11. /\ h \in Frames /\ Push(h) /\ Known(h) /\ h.cmd = c /\ h.phase = "next" /\ h.infos = infos'
         /\ c = "open" => h.todo # <<>> /\ h.todo[1] = "renew"
         /\ c # "open" => \A k \in 1..Len(h.todo) : h.todo[k] # "renew"
         /\ c \in Locking => Has(h, "unlock")
    BY <2>6, <2>7, <2>8, <2>9, <2>10 DEF Has
  <2>12. session.patient => stack = <<>>
    <3>1. c \in Locking \cup {"mkdir"} => ~lock BY <1>4 DEF Allowed
    <3>2. c \notin {"open", "rename"} => c \in Locking \cup {"mkdir"} BY DEF Unlocked
    <3> QED BY <1>1, <3>1, <3>2
  <2>13. /\ c = "open" => client = 0 \/ ~up
         /\ c # "open" => client # 0
    BY <1>1
  <2>14. lock' = (lock \/ c \in Locking) BY <1>1, <1>4, Zenon
  <2> QED BY <1>1, <1>2, <2>11, <2>12, <2>13, <2>14, Zenon
<1> QED BY <1>3, <1>4

LEMMA ClosesDoes ==
  ASSUME Base, CmCloseConnection(stack)
  PROVE  \/ client = 0 /\ closing' = FALSE /\ UNCHANGED <<stack, client, cancel, abort, terminate>>
         \/ /\ client # 0 /\ lock /\ closing' = TRUE /\ cancel' = TRUE /\ abort' = TRUE
            /\ UNCHANGED <<stack, client, terminate>>
         \/ /\ client # 0 /\ ~lock /\ client' = 0 /\ terminate' = TRUE /\ Push(CloseFrame)
            /\ UNCHANGED <<closing, cancel, abort>>
<1>1. CloseFrame \in Frames BY CloseFrameFacts DEF Base, Types
<1>2. stack' = Append(stack, CloseFrame) => Push(CloseFrame) BY <1>1, PushIs
<1> QED BY <1>2, Zenon DEF CmCloseConnection

\* A result: what of it Serving is about
Result(ok) ==
  /\ Mark
  /\ \A n \in 1..Len(stack) : n # cb => stack'[n] = stack[n]
  /\ Serves => stack'[cb].done /\ (stack'[cb].ok <=> ok) /\ stack'[cb].by = job

LEMMA SetResultDoes ==
  ASSUME Base, NEW ok \in BOOLEAN, NEW note \in BOOLEAN, SetResult(ok, note)
  PROVE  Result(ok)
<1>1. stack \in Seq(Frames) /\ job \in Jobs BY DEF Base, Types
<1>2. DOMAIN stack = 1..Len(stack) /\ Len(stack) \in Nat BY <1>1
<1>3. CASE Serves
  <2>1. cb \in 1..Len(stack) /\ cb \in DOMAIN stack /\ stack[cb].phase = "wait"
    BY <1>2, <1>3 DEF Serves
  <2> DEFINE f == stack[cb]
             g == [f EXCEPT !.done = TRUE, !.ok = ok, !.note = note, !.by = job]
  <2>2. stack' = [stack EXCEPT ![cb].done = TRUE, ![cb].ok = ok, ![cb].note = note, ![cb].by = job]
    BY <2>1, Zenon DEF SetResult
  <2>3. \A T : [stack EXCEPT ![cb].done = T, ![cb].ok = ok, ![cb].note = note, ![cb].by = job]
               = [stack EXCEPT ![cb] = [f EXCEPT !.done = T, !.ok = ok, !.note = note, !.by = job]]
    BY <2>1
  <2>4. stack' = [stack EXCEPT ![cb] = g] BY <2>2, <2>3, Zenon
  <2>5. f \in Frames BY <1>1, <2>1, ElementOfSeq
  <2> HIDE DEF f
  <2>6. g.cmd = f.cmd /\ g.todo = f.todo /\ g.phase = f.phase /\ g.op = f.op /\ g.client = f.client
        /\ g.infos = f.infos /\ g.by = job
    BY <2>5 DEF Frames
  <2>7. g.done = TRUE BY <2>5 DEF Frames
  <2>8. g.ok = ok BY <2>5 DEF Frames
  <2>9. g \in Frames BY <1>1, <2>5 DEF Frames
  <2> HIDE DEF g
  <2>10. /\ stack' \in Seq(Frames) /\ Len(stack') = Len(stack)
         /\ \A n \in 1..Len(stack) : stack'[n] = IF n = cb THEN g ELSE stack[n]
    BY <1>1, <2>1, <2>4, <2>9, ExceptSeq
  <2>11. \A n \in 1..Len(stack) : n # cb => stack'[n] = stack[n] BY <2>10
  <2>12. stack'[cb] = g BY <2>1, <2>10
  <2>13. f = stack[cb] BY DEF f
  <2>14. ASSUME NEW n \in 1..Len(stack)
         PROVE  /\ stack'[n].cmd = stack[n].cmd /\ stack'[n].todo = stack[n].todo
                /\ stack'[n].phase = stack[n].phase /\ stack'[n].op = stack[n].op
                /\ stack'[n].client = stack[n].client /\ stack'[n].infos = stack[n].infos
    <3>1. CASE n = cb BY <3>1, <2>6, <2>12, <2>13
    <3>2. CASE n # cb BY <3>2, <2>11
    <3> QED BY <3>1, <3>2
  <2>15. Mark BY <1>2, <2>10, <2>14 DEF Mark
  <2>16. stack'[cb].done /\ (stack'[cb].ok <=> ok) /\ stack'[cb].by = job
    BY <2>6, <2>7, <2>8, <2>12
  <2> QED BY <2>11, <2>15, <2>16 DEF Result
<1>4. CASE ~Serves
  <2>1. stack' = stack
    <3>1. ~(cb \in DOMAIN stack /\ stack[cb].phase = "wait") BY <1>2, <1>4 DEF Serves
    <3> QED BY <3>1, Zenon DEF SetResult
  <2> QED BY <1>1, <1>2, <1>4, <2>1 DEF Result, Mark
<1> QED BY <1>3, <1>4

LEMMA SecondDoes ==
  ASSUME Base, Second
  PROVE  /\ Mark /\ at = "second" /\ ~crashed /\ at' = "reset"
         /\ \A n \in 1..Len(stack) : stack'[n].ok = stack[n].ok /\ stack'[n].by = stack[n].by
         /\ \A n \in 1..Len(stack) : n # cb => stack'[n] = stack[n]
         /\ UNCHANGED <<session, client, lock, cancel, closing, infos, given, crashed, posted, cb,
                        newCommand, job, terminate, abort, wire>>
<1>1. stack \in Seq(Frames) BY DEF Base, Types
<1>2. DOMAIN stack = 1..Len(stack) /\ Len(stack) \in Nat BY <1>1
<1>3. /\ at = "second" /\ ~crashed /\ at' = "reset"
      /\ UNCHANGED <<session, client, lock, cancel, closing, infos, given, crashed, posted, cb,
                     newCommand, job, terminate, abort, wire>>
      /\ \/ cb \in DOMAIN stack /\ stack' = [stack EXCEPT ![cb].done = TRUE]
         \/ stack' = stack
  BY Zenon DEF Second
<1>4. CASE stack' = stack BY <1>1, <1>2, <1>3, <1>4 DEF Mark
<1>5. CASE cb \in DOMAIN stack /\ stack' = [stack EXCEPT ![cb].done = TRUE]
  <2> DEFINE f == stack[cb]
             g == [f EXCEPT !.done = TRUE]
  <2>1. stack' = [stack EXCEPT ![cb] = g] BY <1>5, Zenon
  <2>2. cb \in 1..Len(stack) BY <1>2, <1>5
  <2>3. f \in Frames BY <1>1, <2>2, ElementOfSeq
  <2> HIDE DEF f
  <2>4. g.cmd = f.cmd /\ g.todo = f.todo /\ g.phase = f.phase /\ g.op = f.op /\ g.client = f.client
        /\ g.infos = f.infos /\ g.by = f.by /\ g.ok = f.ok
    BY <2>3 DEF Frames
  <2>5. g \in Frames BY <2>3 DEF Frames
  <2> HIDE DEF g
  <2>6. /\ stack' \in Seq(Frames) /\ Len(stack') = Len(stack)
        /\ \A n \in 1..Len(stack) : stack'[n] = IF n = cb THEN g ELSE stack[n]
    BY <1>1, <2>1, <2>2, <2>5, ExceptSeq
  <2>7. f = stack[cb] BY DEF f
  <2>8. ASSUME NEW n \in 1..Len(stack)
        PROVE  /\ stack'[n].cmd = stack[n].cmd /\ stack'[n].todo = stack[n].todo
               /\ stack'[n].phase = stack[n].phase /\ stack'[n].op = stack[n].op
               /\ stack'[n].client = stack[n].client /\ stack'[n].infos = stack[n].infos
               /\ stack'[n].by = stack[n].by
    <3>1. CASE n = cb BY <3>1, <2>4, <2>6, <2>7
    <3>2. CASE n # cb BY <3>2, <2>6
    <3> QED BY <3>1, <3>2
  <2>9. ASSUME NEW n \in 1..Len(stack) PROVE stack'[n].ok = stack[n].ok
    <3>1. (stack'[n] = g /\ stack[n] = f) \/ stack'[n] = stack[n] BY <2>6, <2>7
    <3> QED BY <3>1, <2>4, Zenon
  <2>10. Mark BY <1>2, <2>6, <2>8 DEF Mark
  <2>11. \A n \in 1..Len(stack) : n # cb => stack'[n] = stack[n] BY <2>6
  <2> QED BY <1>3, <2>8, <2>9, <2>10, <2>11, Zenon
<1> QED BY <1>3, <1>4, <1>5

LEMMA PromptDoes ==
  ASSUME Base, Prompt
  PROVE  /\ Mark /\ at = "exec" /\ job = "login" /\ ~crashed /\ at' = "prompt"
         /\ \A n \in 1..Len(stack) : /\ stack'[n].done = stack[n].done /\ stack'[n].ok = stack[n].ok
                                     /\ stack'[n].by = stack[n].by
         /\ UNCHANGED <<session, client, lock, cancel, closing, infos, given, crashed, posted, cb,
                        newCommand, job, terminate, abort, wire>>
<1>1. stack \in Seq(Frames) BY DEF Base, Types
<1>2. DOMAIN stack = 1..Len(stack) /\ Len(stack) \in Nat BY <1>1
<1>3. /\ at = "exec" /\ job = "login" /\ ~crashed /\ at' = "prompt"
      /\ UNCHANGED <<session, client, lock, cancel, closing, infos, given, crashed, posted, cb,
                     newCommand, job, terminate, abort, wire>>
      /\ cb \in DOMAIN stack /\ stack' = [stack EXCEPT ![cb].asks = TRUE]
  BY Zenon DEF Prompt
<1> DEFINE f == stack[cb]
           g == [f EXCEPT !.asks = TRUE]
<1>4. stack' = [stack EXCEPT ![cb] = g] BY <1>3, Zenon
<1>5. cb \in 1..Len(stack) BY <1>2, <1>3
<1>6. f \in Frames BY <1>1, <1>5, ElementOfSeq
<1> HIDE DEF f
<1>7. g.cmd = f.cmd /\ g.todo = f.todo /\ g.phase = f.phase /\ g.op = f.op /\ g.client = f.client
      /\ g.infos = f.infos /\ g.by = f.by /\ g.ok = f.ok /\ g.done = f.done
  BY <1>6 DEF Frames
<1>8. g \in Frames BY <1>6 DEF Frames
<1> HIDE DEF g
<1>9. /\ stack' \in Seq(Frames) /\ Len(stack') = Len(stack)
      /\ \A n \in 1..Len(stack) : stack'[n] = IF n = cb THEN g ELSE stack[n]
  BY <1>1, <1>4, <1>5, <1>8, ExceptSeq
<1>10. \A n \in 1..Len(stack) : (stack'[n] = g /\ stack[n] = f) \/ stack'[n] = stack[n]
  BY <1>9 DEF f
<1>11. ASSUME NEW n \in 1..Len(stack)
       PROVE  /\ stack'[n].cmd = stack[n].cmd /\ stack'[n].todo = stack[n].todo
              /\ stack'[n].phase = stack[n].phase /\ stack'[n].op = stack[n].op
              /\ stack'[n].client = stack[n].client /\ stack'[n].infos = stack[n].infos
              /\ stack'[n].done = stack[n].done /\ stack'[n].ok = stack[n].ok
              /\ stack'[n].by = stack[n].by
  BY <1>10, <1>7, Zenon
<1>12. Mark BY <1>2, <1>9, <1>11 DEF Mark
<1> QED BY <1>3, <1>11, <1>12, Zenon

LEMMA TellsDoes ==
  ASSUME Base, Ask \/ Transfer \/ Retry \/ Failed
  PROVE  /\ ~crashed /\ at \in {"exec", "answer", "failed"} /\ at' \in Told
         /\ at' = "failed" => job = "login"
         /\ \E ok \in BOOLEAN : Result(ok) /\ (job \in Local => ok \/ at = "failed")
         /\ abort' \in BOOLEAN /\ (abort' => abort)
         /\ UNCHANGED <<session, client, lock, cancel, closing, infos, given, crashed, posted, cb,
                        newCommand, job, terminate, up>>
<1>1. abort \in BOOLEAN BY DEF Base, Types
<1>2. CASE Ask
  <2>1. PICK ok \in BOOLEAN : (job \in Local => ok) /\ Finish(ok) BY <1>2, Zenon DEF Ask
  <2>2. at' \in {"second", "reset"} /\ SetResult(ok, FALSE) BY <2>1 DEF Finish
  <2>3. Result(ok) BY <2>2, SetResultDoes
  <2>4. /\ ~crashed /\ at \in {"exec", "answer"}
        /\ UNCHANGED <<session, client, lock, cancel, closing, infos, given, crashed, posted, cb,
                       newCommand, job, terminate, abort, up>>
    BY <1>2 DEF Ask
  <2> QED BY <1>1, <2>1, <2>2, <2>3, <2>4 DEF Told
<1>3. CASE Transfer
  <2>1. /\ ~crashed /\ at = "exec" /\ job \in {"get", "put"}
        /\ UNCHANGED <<session, client, lock, cancel, closing, infos, given, crashed, posted, cb,
                       newCommand, job, terminate, up>>
    BY <1>3 DEF Transfer
  <2>2. \E ok \in BOOLEAN : Finish(ok)
    BY <1>3, Zenon DEF Transfer
  <2>3. abort' = abort \/ abort' = FALSE BY <1>3, Zenon DEF Transfer
  <2>4. PICK ok \in BOOLEAN : Finish(ok) BY <2>2
  <2>5. at' \in {"second", "reset"} /\ SetResult(ok, FALSE) BY <2>4 DEF Finish
  <2>6. Result(ok) BY <2>5, SetResultDoes
  <2>7. job \notin Local BY <2>1 DEF Local
  <2>8. abort' \in BOOLEAN /\ (abort' => abort)
    <3>1. CASE abort' = abort BY <1>1, <3>1, Zenon
    <3>2. CASE abort' = FALSE BY <3>2, Zenon
    <3> QED BY <2>3, <3>1, <3>2
  <2>9. at' \in Told BY <2>5 DEF Told
  <2> QED BY <2>1, <2>4, <2>5, <2>6, <2>7, <2>8, <2>9
<1>4. CASE Retry
  <2>1. /\ ~crashed /\ at = "exec" /\ job = "login" /\ SetResult(TRUE, TRUE) /\ at' = "failed"
        /\ UNCHANGED <<session, client, lock, cancel, closing, infos, given, crashed, posted, cb,
                       newCommand, job, terminate, abort, up>>
    BY <1>4 DEF Retry, wire
  <2>2. Result(TRUE) BY <2>1, SetResultDoes, Zenon
  <2> QED BY <1>1, <2>1, <2>2 DEF Told
<1>5. CASE Failed
  <2>1. /\ ~crashed /\ at = "failed" /\ SetResult(FALSE, TRUE) /\ at' = "reset"
        /\ UNCHANGED <<session, client, lock, cancel, closing, infos, given, crashed, posted, cb,
                       newCommand, job, terminate, abort, up>>
    BY <1>5 DEF Failed, wire
  <2>2. Result(FALSE) BY <2>1, SetResultDoes, Zenon
  <2> QED BY <1>1, <2>1, <2>2 DEF Told
<1> QED BY <1>2, <1>3, <1>4, <1>5

-----------------------------------------------------------------------------
(* Types, and the order of what is left *)

LEMMA SoundTurn ==
  ASSUME Base, NEW g, Turn(g), Known(g)
  PROVE  Sound'
<1> SUFFICES ASSUME NEW n \in 1..Len(stack') PROVE Known(stack'[n]) BY DEF Sound
<1>1. CASE n = Len(stack') BY <1>1 DEF Turn, Top
<1>2. CASE n # Len(stack')
  <2>1. n \in 1..(Len(stack) - 1) /\ n \in 1..Len(stack) BY <1>2 DEF Turn
  <2> QED BY <2>1 DEF Turn, Base, Sound
<1> QED BY <1>1, <1>2

LEMMA SoundPush ==
  ASSUME Base, NEW g, Push(g), Known(g)
  PROVE  Sound'
<1> SUFFICES ASSUME NEW n \in 1..Len(stack') PROVE Known(stack'[n]) BY DEF Sound
<1>1. CASE n = Len(stack') BY <1>1 DEF Push, Top
<1>2. CASE n # Len(stack')
  <2>1. n \in 1..Len(stack) BY <1>2 DEF Push
  <2> QED BY <2>1 DEF Push, Base, Sound
<1> QED BY <1>1, <1>2

LEMMA SoundTurnAndPush ==
  ASSUME Base, NEW g, NEW h, TurnAndPush(g, h), Known(g), Known(h)
  PROVE  Sound'
<1> SUFFICES ASSUME NEW n \in 1..Len(stack') PROVE Known(stack'[n]) BY DEF Sound
<1>1. CASE n = Len(stack') BY <1>1 DEF TurnAndPush, Top
<1>2. CASE n = Len(stack) BY <1>2 DEF TurnAndPush
<1>3. CASE n # Len(stack') /\ n # Len(stack)
  <2>1. n \in 1..(Len(stack) - 1) /\ n \in 1..Len(stack) BY <1>3 DEF TurnAndPush
  <2> QED BY <2>1 DEF TurnAndPush, Base, Sound
<1> QED BY <1>1, <1>2, <1>3

LEMMA SoundPop ==
  ASSUME Base, Pop
  PROVE  Sound'
<1> SUFFICES ASSUME NEW n \in 1..Len(stack') PROVE Known(stack'[n]) BY DEF Sound
<1>1. n \in 1..(Len(stack) - 1) /\ n \in 1..Len(stack) BY DEF Pop
<1> QED BY <1>1 DEF Pop, Base, Sound

LEMMA SoundMark ==
  ASSUME Base, Mark
  PROVE  Sound'
<1> SUFFICES ASSUME NEW n \in 1..Len(stack') PROVE Known(stack'[n]) BY DEF Sound
<1>1. n \in 1..Len(stack) BY DEF Mark
<1>2. Known(stack[n]) BY <1>1 DEF Base, Sound
<1> QED BY <1>1, <1>2 DEF Mark, Known

\* What is left to show when only the stack is still to be looked at
ScalarsNext ==
  /\ session' = session
  /\ client' \in Nat /\ infos' \in Nat /\ posted' \in Nat /\ given' \in Nat /\ cb' \in Nat
  /\ at' \in Idle \cup Working /\ job' \in Jobs
  /\ lock' \in BOOLEAN /\ cancel' \in BOOLEAN /\ closing' \in BOOLEAN /\ crashed' \in BOOLEAN
  /\ newCommand' \in BOOLEAN /\ abort' \in BOOLEAN /\ terminate' \in BOOLEAN /\ up' \in BOOLEAN

LEMMA BaseOf ==
  ASSUME Base, ScalarsNext
  PROVE  /\ \A g : Turn(g) /\ Known(g) => Base'
         /\ \A g : Push(g) /\ Known(g) => Base'
         /\ \A g, h : TurnAndPush(g, h) /\ Known(g) /\ Known(h) => Base'
         /\ Pop => Base'
         /\ Mark => Base'
         /\ UNCHANGED stack => Base'
<1>1. stack' \in Seq(Frames) /\ Sound' => Base' BY DEF Base, Types, ScalarsNext
<1>2. ASSUME NEW g, Turn(g), Known(g) PROVE Base' BY <1>1, <1>2, SoundTurn DEF Turn
<1>3. ASSUME NEW g, Push(g), Known(g) PROVE Base' BY <1>1, <1>3, SoundPush DEF Push
<1>4. ASSUME NEW g, NEW h, TurnAndPush(g, h), Known(g), Known(h) PROVE Base'
  BY <1>1, <1>4, SoundTurnAndPush DEF TurnAndPush
<1>5. Pop => Base' BY <1>1, SoundPop DEF Pop
<1>6. Mark => Base' BY <1>1, SoundMark DEF Mark
<1>7. UNCHANGED stack => Base' BY <1>1 DEF Base, Types, Sound
<1> QED BY <1>2, <1>3, <1>4, <1>5, <1>6, <1>7

LEMMA BaseNext ==
  ASSUME Base, Pending, Next
  PROVE  Base'
<1> USE DEF Idle, Working, Told, machine, wire
<1>0. /\ session \in Session /\ stack \in Seq(Frames)
      /\ client \in Nat /\ infos \in Nat /\ posted \in Nat /\ given \in Nat /\ cb \in Nat
      /\ at \in Idle \cup Working /\ job \in Jobs
      /\ lock \in BOOLEAN /\ cancel \in BOOLEAN /\ closing \in BOOLEAN /\ crashed \in BOOLEAN
      /\ newCommand \in BOOLEAN /\ abort \in BOOLEAN /\ terminate \in BOOLEAN /\ up \in BOOLEAN
  BY DEF Base, Types
<1>c. CloseFrame \in Frames /\ Known(CloseFrame) BY <1>0, CloseFrameFacts
<1>s. Len(stack) \in Nat BY <1>0
<1>1. ASSUME Crash PROVE Base'
  <2>1. ScalarsNext /\ UNCHANGED stack BY <1>0, <1>1 DEF Crash, ScalarsNext
  <2> QED BY <2>1, BaseOf
<1>2. CASE StartOp
  <2>1. CASE Crash BY <1>1, <2>1
  <2>2. CASE ~Crash
    <3>1. PICK g \in Frames : Turn(g) /\ Known(g) BY <1>2, <2>2, StartOpDoes
    <3>2. ScalarsNext BY <1>0, <1>s, <1>2, <2>2, StartOpDoes DEF ScalarsNext
    <3> QED BY <3>1, <3>2, BaseOf
  <2> QED BY <2>1, <2>2
<1>3. CASE Orphan BY <1>1, <1>3 DEF Orphan
<1>4. CASE Answer
  <2>1. Mark /\ ScalarsNext BY <1>0, <1>4, AnswerDoes DEF ScalarsNext
  <2> QED BY <2>1, BaseOf
<1>5. CASE Return
  <2>1. PICK g \in Frames : Turn(g) /\ Known(g) BY <1>5, ReturnDoes
  <2>2. infos' \in Nat BY <1>0, <1>5, ReturnDoes
  <2>3. ScalarsNext BY <1>0, <1>5, <2>2, ReturnDoes DEF ScalarsNext
  <2> QED BY <2>1, <2>3, BaseOf
<1>6. CASE Again
  <2>1. PICK g \in Frames : Turn(g) /\ Known(g) BY <1>6, AgainDoes
  <2>2. ScalarsNext BY <1>0, <1>6, AgainDoes DEF ScalarsNext
  <2> QED BY <2>1, <2>2, BaseOf
<1>a. CASE RemAuth
  <2>1. CASE crashed' = TRUE /\ UNCHANGED <<stack, lock>>
    <3>1. ScalarsNext /\ UNCHANGED stack BY <1>0, <1>a, <2>1, RemAuthDoes DEF ScalarsNext
    <3> QED BY <3>1, BaseOf
  <2>2. CASE ~(crashed' = TRUE /\ UNCHANGED <<stack, lock>>)
    <3>1. PICK g \in Frames : Turn(g) /\ Known(g) /\ (UNCHANGED lock \/ lock' = TRUE)
      BY <1>a, <2>2, RemAuthDoes
    <3>2. lock' \in BOOLEAN /\ crashed' = crashed BY <1>0, <1>a, <2>2, <3>1, RemAuthDoes
    <3>3. ScalarsNext BY <1>0, <1>a, <3>2, RemAuthDoes DEF ScalarsNext
    <3> QED BY <3>1, <3>3, BaseOf
  <2> QED BY <2>1, <2>2
<1>d. CASE Dialog
  <2>1. PICK g \in Frames : Turn(g) /\ Known(g) BY <1>d, DialogDoes
  <2>2. ScalarsNext BY <1>0, <1>d, DialogDoes DEF ScalarsNext
  <2> QED BY <2>1, <2>2, BaseOf
<1>7. CASE ReadList
  <2>1. PICK g \in Frames : Turn(g) /\ Known(g) /\ (UNCHANGED abort \/ abort' = (abort \/ cancel))
    BY <1>7, ReadListDoes
  <2>2. abort' \in BOOLEAN BY <1>0, <2>1
  <2>3. ScalarsNext BY <1>0, <1>7, <2>2, ReadListDoes DEF ScalarsNext
  <2> QED BY <2>1, <2>3, BaseOf
<1>8. CASE ClearAbort
  <2>1. CASE Crash BY <1>1, <2>1
  <2>2. CASE ~Crash
    <3>1. PICK g \in Frames : Turn(g) /\ Known(g) /\ (UNCHANGED cancel \/ cancel' = FALSE)
      BY <1>8, <2>2, ClearAbortDoes
    <3>2. cancel' \in BOOLEAN BY <1>0, <3>1
    <3>3. ScalarsNext BY <1>0, <1>8, <2>2, <3>2, ClearAbortDoes DEF ScalarsNext
    <3> QED BY <3>1, <3>3, BaseOf
  <2> QED BY <2>1, <2>2
<1>9. CASE AborReply
  <2>1. PICK g \in Frames : Turn(g) /\ Known(g) BY <1>9, AborReplyDoes
  <2>2. ScalarsNext BY <1>0, <1>9, AborReplyDoes DEF ScalarsNext
  <2> QED BY <2>1, <2>2, BaseOf
<1>10. CASE Unlock
  <2>1. PICK g \in Frames :
          /\ Known(g)
          /\ \/ /\ client' = 0 /\ terminate' = TRUE /\ UNCHANGED closing
                /\ TurnAndPush(g, CloseFrame)
             \/ closing' = FALSE /\ Turn(g) /\ UNCHANGED <<client, terminate>>
    BY <1>10, UnlockDoes
  <2>2. client' \in Nat /\ terminate' \in BOOLEAN /\ closing' \in BOOLEAN
    <3>1. client' \in Nat BY <1>0, <2>1
    <3>2. terminate' \in BOOLEAN /\ closing' \in BOOLEAN BY <1>0, <2>1, Zenon
    <3> QED BY <3>1, <3>2
  <2>3. ScalarsNext BY <1>0, <1>10, <2>2, UnlockDoes DEF ScalarsNext
  <2> QED BY <1>c, <2>1, <2>3, BaseOf
<1>11. CASE Load
  <2>1. PICK g \in Frames :
          /\ Known(g)
          /\ \/ Turn(g) /\ UNCHANGED lock
             \/ lock' = TRUE /\ \E h \in Frames : TurnAndPush(g, h) /\ Known(h)
    BY <1>11, LoadDoes
  <2>2. lock' \in BOOLEAN BY <1>0, <2>1
  <2>3. infos' \in Nat BY <1>0, <1>11, LoadDoes
  <2>4. ScalarsNext BY <1>0, <1>11, <2>2, <2>3, LoadDoes DEF ScalarsNext
  <2> QED BY <2>1, <2>4, BaseOf
<1>12. CASE GiveUp
  <2>1. PICK g \in Frames :
          /\ Known(g)
          /\ \/ /\ closing' = FALSE /\ Turn(g)
                /\ UNCHANGED <<client, cancel, abort, terminate>>
             \/ /\ closing' = TRUE /\ cancel' = TRUE /\ abort' = TRUE /\ Turn(g)
                /\ UNCHANGED <<client, terminate>>
             \/ /\ client' = 0 /\ terminate' = TRUE
                /\ TurnAndPush(g, CloseFrame) /\ UNCHANGED <<closing, cancel, abort>>
    BY <1>12, GiveUpDoes
  <2>2. client' \in Nat /\ terminate' \in BOOLEAN /\ closing' \in BOOLEAN /\ cancel' \in BOOLEAN
        /\ abort' \in BOOLEAN
    <3>1. client' \in Nat BY <1>0, <2>1
    <3>2. terminate' \in BOOLEAN /\ closing' \in BOOLEAN /\ cancel' \in BOOLEAN /\ abort' \in BOOLEAN
      BY <1>0, <2>1, Zenon
    <3> QED BY <3>1, <3>2
  <2>3. ScalarsNext BY <1>0, <1>12, <2>2, GiveUpDoes DEF ScalarsNext
  <2> QED BY <1>c, <2>1, <2>3, BaseOf
<1>13. CASE Deleted
  <2>1. Pop /\ ScalarsNext BY <1>0, <1>13, DeletedDoes DEF ScalarsNext
  <2> QED BY <2>1, BaseOf
<1>14. CASE Renew
  <2>1. CASE at # "ended"
    <3>1. ScalarsNext /\ UNCHANGED stack BY <1>0, <1>14, <2>1, RenewDoes DEF ScalarsNext
    <3> QED BY <3>1, BaseOf
  <2>2. CASE at = "ended"
    <3>1. PICK g \in Frames : Turn(g) /\ Known(g) BY <1>14, <2>2, RenewDoes
    <3>2. ScalarsNext BY <1>0, <1>14, <2>2, RenewDoes DEF ScalarsNext, Jobs
    <3> QED BY <3>1, <3>2, BaseOf
  <2> QED BY <2>1, <2>2
<1>15. CASE Leave
  <2>1. Pop /\ ScalarsNext BY <1>0, <1>15, LeaveDoes DEF ScalarsNext
  <2> QED BY <2>1, BaseOf
<1>16. ASSUME CmCloseConnection(stack),
              UNCHANGED <<session, lock, infos, given, crashed, at, cb, newCommand, job, wire>>,
              posted' \in Nat
       PROVE  Base'
  <2>1. \/ closing' = FALSE /\ UNCHANGED <<stack, client, cancel, abort, terminate>>
        \/ /\ closing' = TRUE /\ cancel' = TRUE /\ abort' = TRUE
           /\ UNCHANGED <<stack, client, terminate>>
        \/ /\ client' = 0 /\ terminate' = TRUE /\ Push(CloseFrame)
           /\ UNCHANGED <<closing, cancel, abort>>
    BY <1>16, ClosesDoes
  <2>2. client' \in Nat /\ terminate' \in BOOLEAN /\ closing' \in BOOLEAN /\ cancel' \in BOOLEAN
        /\ abort' \in BOOLEAN
    <3>1. client' \in Nat BY <1>0, <2>1
    <3>2. terminate' \in BOOLEAN /\ closing' \in BOOLEAN /\ cancel' \in BOOLEAN /\ abort' \in BOOLEAN
      BY <1>0, <2>1, Zenon
    <3> QED BY <3>1, <3>2
  <2>3. ScalarsNext BY <1>0, <1>16, <2>2 DEF ScalarsNext
  <2> QED BY <1>c, <2>1, <2>3, BaseOf
<1>17. CASE MachineCloses
  <2>1. posted' \in Nat BY <1>0, <1>17 DEF MachineCloses
  <2> QED BY <2>1, <1>16, <1>17 DEF MachineCloses
<1>18. CASE UserCloses BY <1>0, <1>16, <1>18 DEF UserCloses
<1>19. ASSUME NEW c \in Locking \cup Unlocked, Give(c) PROVE Base'
  <2>1. /\ infos' \in Nat /\ lock' \in BOOLEAN
        /\ UNCHANGED stack \/ \E h \in Frames : Push(h) /\ Known(h)
    <3>1. \/ infos' = infos + 1 /\ UNCHANGED <<stack, lock>>
          \/ /\ infos' \in Nat /\ lock' = (lock \/ c \in Locking)
             /\ \E h \in Frames : Push(h) /\ Known(h)
      BY <1>19, GiveDoes
    <3>2. infos' \in Nat BY <1>0, <3>1
    <3>3. lock' \in BOOLEAN
      <4>1. lock' = lock \/ lock' = (lock \/ c \in Locking) BY <3>1
      <4>2. CASE lock' = lock BY <1>0, <4>2, Zenon
      <4>3. CASE lock' = (lock \/ c \in Locking) BY <4>3
      <4> QED BY <4>1, <4>2, <4>3
    <3>4. UNCHANGED stack \/ \E h \in Frames : Push(h) /\ Known(h) BY <3>1
    <3> QED BY <3>2, <3>3, <3>4
  <2>2. given' \in Nat
        /\ UNCHANGED <<session, client, cancel, closing, posted, crashed, machine, abort, wire>>
    BY <1>0, <1>19, GiveDoes
  <2>3. ScalarsNext BY <1>0, <2>1, <2>2 DEF ScalarsNext
  <2> QED BY <2>1, <2>3, BaseOf
<1>20. CASE Stop
  <2>1. cancel' = TRUE /\ abort' = (abort \/ client # 0)
        /\ UNCHANGED <<session, stack, client, lock, closing, infos, given, crashed, posted,
                       machine, wire>>
    BY <1>20 DEF Stop
  <2>2. abort' \in BOOLEAN BY <1>0, <2>1
  <2>3. ScalarsNext /\ UNCHANGED stack BY <1>0, <2>1, <2>2 DEF ScalarsNext
  <2> QED BY <2>3, BaseOf
<1>21. CASE Prompt
  <2>1. Mark /\ ScalarsNext BY <1>0, <1>21, PromptDoes DEF ScalarsNext
  <2> QED BY <2>1, BaseOf
<1>22. CASE Second
  <2>1. Mark /\ ScalarsNext BY <1>0, <1>22, SecondDoes DEF ScalarsNext
  <2> QED BY <2>1, BaseOf
<1>23. CASE Ask \/ Transfer \/ Retry \/ Failed
  <2>1. Mark BY <1>23, TellsDoes DEF Result
  <2>2. ScalarsNext BY <1>0, <1>23, TellsDoes DEF ScalarsNext
  <2> QED BY <2>1, <2>2, BaseOf
<1>24. CASE Check
  <2>1. job' \in Jobs
    <3>1. CASE newCommand
      <4>1. job' = stack[cb].op /\ cb \in 1..Len(stack)
        BY <1>24, <3>1 DEF Check, Pending, Serves
      <4>2. stack[cb] \in Frames BY <1>0, <4>1, ElementOfSeq
      <4> QED BY <4>1, <4>2 DEF Frames
    <3>2. CASE ~newCommand BY <1>0, <1>24, <3>2 DEF Check
    <3> QED BY <3>1, <3>2
  <2>2. ScalarsNext /\ UNCHANGED stack BY <1>0, <1>24, <2>1 DEF Check, window, ScalarsNext
  <2> QED BY <2>2, BaseOf
<1>25. CASE Greeting \/ Drain
  <2>1. posted' \in Nat BY <1>0, <1>25 DEF Greeting, Drain, EndRun
  <2>2. at' \in Idle BY <1>25 DEF Greeting, Drain, EndRun
  <2>3. ScalarsNext /\ UNCHANGED stack
    BY <1>0, <1>25, <2>1, <2>2 DEF Greeting, Drain, window, ScalarsNext
  <2> QED BY <2>3, BaseOf
<1>26. CASE Prompted
  <2>1. ScalarsNext /\ UNCHANGED stack BY <1>0, <1>26 DEF Prompted, window, ScalarsNext, Jobs
  <2> QED BY <2>1, BaseOf
<1>27. CASE Reset
  <2>1. ScalarsNext /\ UNCHANGED stack BY <1>0, <1>27 DEF Reset, window, ScalarsNext, Jobs
  <2> QED BY <2>1, BaseOf
<1>28. CASE Arrive \/ Drop
  <2>1. ScalarsNext /\ UNCHANGED stack
    BY <1>0, <1>28 DEF Arrive, Drop, window, ScalarsNext, Jobs
  <2> QED BY <2>1, BaseOf
<1> QED
  BY <1>2, <1>3, <1>4, <1>5, <1>6, <1>7, <1>8, <1>9, <1>10, <1>11, <1>12, <1>13, <1>14, <1>15, <1>17,
     <1>18, <1>19, <1>20, <1>21, <1>22, <1>23, <1>24, <1>25, <1>26, <1>27, <1>28, <1>a, <1>d
  DEF Next, Windows, Machines, Users

-----------------------------------------------------------------------------
(* A command the machine has not seen yet waits for it *)

LEMMA PendingOf ==
  ASSUME Base, Pending, UNCHANGED <<at, cb, newCommand>>
  PROVE  /\ stack # <<>> /\ (Top.phase # "wait" \/ Top.done)
            /\ (\/ \E g : Turn(g)
                \/ \E g, h : TurnAndPush(g, h)
                \/ Pop) => Pending'
         /\ (\E g : Push(g)) => Pending'
         /\ Mark /\ (\A n \in 1..Len(stack) : stack'[n].done = stack[n].done) => Pending'
         /\ UNCHANGED stack => Pending'
<1>1. SUFFICES ASSUME at \in {"greeting", "drain", "check"} /\ newCommand,
                      cb \in 1..Len(stack), stack[cb].phase = "wait", ~stack[cb].done
               PROVE  /\ stack # <<>> /\ (Top.phase # "wait" \/ Top.done)
                         /\ (\/ \E g : Turn(g)
                             \/ \E g, h : TurnAndPush(g, h)
                             \/ Pop) => Serves' /\ ~stack'[cb].done
                      /\ (\E g : Push(g)) => Serves' /\ ~stack'[cb].done
                      /\ Mark /\ (\A n \in 1..Len(stack) : stack'[n].done = stack[n].done) =>
                           Serves' /\ ~stack'[cb].done
                      /\ UNCHANGED stack => Serves' /\ ~stack'[cb].done
  <2>1. ~(at \in {"greeting", "drain", "check"} /\ newCommand) => Pending' BY DEF Pending
  <2>2. cb' = cb OBVIOUS
  <2>3. Serves' /\ ~stack'[cb].done => Pending' BY <2>2 DEF Pending
  <2>4. at \in {"greeting", "drain", "check"} /\ newCommand =>
          cb \in 1..Len(stack) /\ stack[cb].phase = "wait" /\ ~stack[cb].done
    BY DEF Pending, Serves
  <2> QED BY <2>1, <2>3, <2>4
<1>2. Len(stack) \in Nat /\ cb' = cb BY DEF Base, Types
<1>3. ASSUME stack'[cb] = stack[cb], cb \in 1..Len(stack') PROVE Serves' /\ ~stack'[cb].done
  BY <1>1, <1>2, <1>3 DEF Serves
<1>4. ASSUME Top.phase # "wait" \/ Top.done, (\E g : Turn(g)) \/ (\E g, h : TurnAndPush(g, h)) \/ Pop
      PROVE  Serves' /\ ~stack'[cb].done
  <2>1. cb # Len(stack) BY <1>1, <1>4 DEF Top
  <2>2. cb \in 1..(Len(stack) - 1) BY <1>1, <1>2, <2>1
  <2>3. stack'[cb] = stack[cb] /\ cb \in 1..Len(stack')
    BY <1>2, <1>4, <2>2 DEF Turn, TurnAndPush, Pop
  <2> QED BY <1>3, <2>3
<1>5. ASSUME \E g : Push(g) PROVE Serves' /\ ~stack'[cb].done
  <2>1. stack'[cb] = stack[cb] /\ cb \in 1..Len(stack') BY <1>1, <1>2, <1>5 DEF Push
  <2> QED BY <1>3, <2>1
<1>6. ASSUME Mark, \A n \in 1..Len(stack) : stack'[n].done = stack[n].done PROVE Serves' /\ ~stack'[cb].done
  <2>1. stack'[cb].done = stack[cb].done BY <1>1, <1>6
  <2>2. ~stack'[cb].done BY <1>1, <2>1, Zenon
  <2> QED BY <1>1, <1>2, <1>6, <2>2 DEF Mark, Serves
<1>7. ASSUME UNCHANGED stack PROVE Serves' /\ ~stack'[cb].done
  <2>1. stack'[cb] = stack[cb] /\ cb \in 1..Len(stack') BY <1>1, <1>7
  <2> QED BY <1>3, <2>1
<1> QED BY <1>4, <1>5, <1>6, <1>7

LEMMA PendingNext ==
  ASSUME Base, Pending, Next
  PROVE  Pending'
<1> USE DEF machine
<1>1. ASSUME Crash PROVE Pending'
  <2>1. UNCHANGED <<at, cb, newCommand>> /\ UNCHANGED stack BY <1>1 DEF Crash
  <2> QED BY <2>1, PendingOf
<1>2. CASE StartOp
  <2>1. CASE Crash BY <1>1, <2>1
  <2>2. CASE ~Crash
    <3>1. PICK g \in Frames : Turn(g) /\ g.phase = "wait" /\ ~g.done BY <1>2, <2>2, StartOpDoes
    <3>2. cb' = Len(stack) BY <1>2, <2>2, StartOpDoes
    <3>3. Serves' /\ ~stack'[cb'].done BY <3>1, <3>2 DEF Serves, Turn, Top
    <3> QED BY <3>3 DEF Pending
  <2> QED BY <2>1, <2>2
<1>3. CASE Orphan BY <1>1, <1>3 DEF Orphan
<1>4. CASE Answer
  <2>1. Mark /\ (\A n \in 1..Len(stack) : stack'[n].done = stack[n].done) /\ UNCHANGED <<at, cb, newCommand>>
    BY <1>4, AnswerDoes
  <2> QED BY <2>1, PendingOf
<1>5. CASE Return
  <2>1. stack # <<>> /\ Top.done /\ (\E g : Turn(g)) /\ UNCHANGED <<at, cb, newCommand>>
    BY <1>5, ReturnDoes
  <2> QED BY <2>1, PendingOf
<1>6. CASE Again
  <2>1. stack # <<>> /\ Top.phase # "wait" /\ (\E g : Turn(g)) /\ UNCHANGED <<at, cb, newCommand>>
    BY <1>6, AgainDoes
  <2> QED BY <2>1, PendingOf
<1>a. CASE RemAuth
  <2>1. stack # <<>> /\ Top.phase # "wait" /\ (UNCHANGED stack \/ \E g : Turn(g))
        /\ UNCHANGED <<at, cb, newCommand>>
    BY <1>a, RemAuthDoes
  <2> QED BY <2>1, PendingOf
<1>d. CASE Dialog
  <2>1. stack # <<>> /\ Top.phase # "wait" /\ (\E g : Turn(g)) /\ UNCHANGED <<at, cb, newCommand>>
    BY <1>d, DialogDoes
  <2> QED BY <2>1, PendingOf
<1>7. CASE ReadList
  <2>1. stack # <<>> /\ Top.phase # "wait" /\ (\E g : Turn(g)) /\ UNCHANGED <<at, cb, newCommand>>
    BY <1>7, ReadListDoes
  <2> QED BY <2>1, PendingOf
<1>8. CASE ClearAbort
  <2>1. CASE Crash BY <1>1, <2>1
  <2>2. CASE ~Crash
    <3>1. stack # <<>> /\ Top.phase # "wait" /\ (\E g : Turn(g)) /\ UNCHANGED <<at, cb, newCommand>>
      BY <1>8, <2>2, ClearAbortDoes
    <3> QED BY <3>1, PendingOf
  <2> QED BY <2>1, <2>2
<1>9. CASE AborReply
  <2>1. stack # <<>> /\ Top.phase # "wait" /\ (\E g : Turn(g)) /\ UNCHANGED <<at, cb, newCommand>>
    BY <1>9, AborReplyDoes
  <2> QED BY <2>1, PendingOf
<1>10. CASE Unlock
  <2>1. stack # <<>> /\ Top.phase # "wait" /\ ((\E g : Turn(g)) \/ \E g, h : TurnAndPush(g, h))
        /\ UNCHANGED <<at, cb, newCommand>>
    BY <1>10, UnlockDoes
  <2> QED BY <2>1, PendingOf
<1>11. CASE Load
  <2>1. stack # <<>> /\ Top.phase # "wait" /\ ((\E g : Turn(g)) \/ \E g, h : TurnAndPush(g, h))
        /\ UNCHANGED <<at, cb, newCommand>>
    BY <1>11, LoadDoes
  <2> QED BY <2>1, PendingOf
<1>12. CASE GiveUp
  <2>1. stack # <<>> /\ Top.phase # "wait" /\ ((\E g : Turn(g)) \/ \E g, h : TurnAndPush(g, h))
        /\ UNCHANGED <<at, cb, newCommand>>
    BY <1>12, GiveUpDoes
  <2> QED BY <2>1, PendingOf
<1>13. CASE Deleted
  <2>1. stack # <<>> /\ Top.cmd = "close" /\ Pop /\ UNCHANGED <<at, cb, newCommand>>
    BY <1>13, DeletedDoes
  <2>2. Top.phase # "wait" BY <2>1, TopFacts DEF Known
  <2> QED BY <2>1, <2>2, PendingOf
<1>14. CASE Renew
  <2>1. CASE at # "ended"
    <3>1. UNCHANGED <<at, cb, newCommand>> /\ UNCHANGED stack BY <1>14, <2>1, RenewDoes
    <3> QED BY <3>1, PendingOf
  <2>2. CASE at = "ended"
    <3>1. newCommand' = FALSE BY <1>14, <2>2, RenewDoes
    <3> QED BY <3>1 DEF Pending
  <2> QED BY <2>1, <2>2
<1>15. CASE Leave
  <2>1. stack # <<>> /\ Top.phase # "wait" /\ Pop /\ UNCHANGED <<at, cb, newCommand>>
    BY <1>15, LeaveDoes
  <2> QED BY <2>1, PendingOf
<1>16. CASE MachineCloses \/ UserCloses
  <2>1. CmCloseConnection(stack) /\ UNCHANGED <<at, cb, newCommand>>
    BY <1>16 DEF MachineCloses, UserCloses
  <2>2. UNCHANGED stack \/ \E g : Push(g) BY <2>1, ClosesDoes
  <2> QED BY <2>1, <2>2, PendingOf
<1>17. ASSUME NEW c \in Locking \cup Unlocked, Give(c) PROVE Pending'
  <2>1. (UNCHANGED stack \/ \E g : Push(g)) /\ UNCHANGED <<at, cb, newCommand>>
    BY <1>17, GiveDoes
  <2> QED BY <2>1, PendingOf
<1>18. CASE Stop \/ Arrive \/ Drop
  <2>1. UNCHANGED <<at, cb, newCommand>> /\ UNCHANGED stack
    BY <1>18 DEF Stop, Arrive, Drop, window
  <2> QED BY <2>1, PendingOf
<1>19. CASE Prompt \/ Second \/ Prompted
  <2>1. at' \in {"prompt", "reset", "answer"} BY <1>19, PromptDoes, SecondDoes DEF Prompted
  <2> QED BY <2>1 DEF Pending
<1>20. CASE Ask \/ Transfer \/ Retry \/ Failed
  <2>1. at' \in Told BY <1>20, TellsDoes
  <2> QED BY <2>1 DEF Pending, Told
<1>21. CASE Greeting \/ Drain
  <2>1. /\ at \in {"greeting", "drain"} /\ UNCHANGED <<stack, cb, newCommand>>
    BY <1>21 DEF Greeting, Drain, window
  <2> QED BY <2>1 DEF Pending, Serves
<1>22. CASE Check
  <2>1. at = "check" /\ UNCHANGED <<stack, cb, newCommand>> BY <1>22 DEF Check, window
  <2> QED BY <2>1 DEF Pending, Serves
<1>23. CASE Reset BY <1>23 DEF Reset, Pending
<1> QED
  BY <1>2, <1>3, <1>4, <1>5, <1>6, <1>7, <1>8, <1>9, <1>10, <1>11, <1>12, <1>13, <1>14, <1>15, <1>16, <1>17,
     <1>18, <1>19, <1>20, <1>21, <1>22, <1>23, <1>a, <1>d
  DEF Next, Windows, Machines, Users

-----------------------------------------------------------------------------
(* One command at a time *)

LEMMA RestedOf ==
  ASSUME Base, Rested
  PROVE  /\ \A g : Turn(g) /\ Top.cmd # "close" /\ g.cmd # "close" => Rested'
         /\ \A h : Push(h) /\ (stack = <<>> \/ (h.cmd = "close" /\ Top.cmd # "close")) => Rested'
         /\ \A g, h : TurnAndPush(g, h) /\ Top.cmd # "close" /\ g.cmd # "close"
                        /\ (h.cmd = "close" \/ (h.cmd # "close" /\ Over(g))) => Rested'
         /\ Pop => Rested'
         /\ Mark => Rested'
         /\ UNCHANGED stack => Rested'
<1>1. Len(stack) \in Nat BY DEF Base, Types
<1>2. \A n \in 1..Len(stack) :
        /\ stack[n].cmd = "close" => n = Len(stack)
        /\ ~Live(n) => Over(stack[n])
  BY DEF Rested
<1>3. \A n \in 1..Len(stack) : n + 1 # Len(stack) /\ n # Len(stack) => Over(stack[n])
  BY <1>1, <1>2 DEF Live
<1>4. stack # <<>> /\ Top.cmd # "close" => \A n \in 1..Len(stack) : n # Len(stack) => Over(stack[n])
  BY <1>1, <1>2 DEF Live
<1>5. ASSUME \A n \in 1..Len(stack') :
               /\ stack'[n].cmd = "close" => n = Len(stack')
               /\ n # Len(stack') /\ ~(n + 1 = Len(stack') /\ Top'.cmd = "close") => Over(stack'[n])
      PROVE  Rested'
  BY <1>5 DEF Rested, Live, Over
<1>6. ASSUME NEW g, Turn(g), Top.cmd # "close", g.cmd # "close" PROVE Rested'
  <2>1. stack # <<>> BY <1>6 DEF Turn
  <2>2. ASSUME NEW n \in 1..Len(stack'), n # Len(stack')
        PROVE  stack'[n].cmd # "close" /\ Over(stack'[n])
    <3>1. n \in 1..(Len(stack) - 1) /\ n \in 1..Len(stack) /\ n # Len(stack)
      BY <1>6, <2>2 DEF Turn
    <3>2. stack'[n] = stack[n] BY <1>6, <3>1 DEF Turn
    <3> QED BY <1>2, <1>4, <1>6, <2>1, <3>1, <3>2
  <2> QED BY <1>5, <2>2
<1>7. ASSUME NEW h, Push(h), stack = <<>> PROVE Rested'
  <2>1. Len(stack') = 1 BY <1>7 DEF Push
  <2> QED BY <1>5, <2>1
<1>8. ASSUME NEW h, Push(h), stack # <<>>, h.cmd = "close", Top.cmd # "close" PROVE Rested'
  <2>1. ASSUME NEW n \in 1..Len(stack'), n # Len(stack')
        PROVE  stack'[n].cmd # "close" /\ (n + 1 # Len(stack') => Over(stack'[n]))
    <3>1. n \in 1..Len(stack) /\ stack'[n] = stack[n] /\ Len(stack') = Len(stack) + 1
      BY <1>8, <2>1 DEF Push
    <3>2. stack[n].cmd # "close" BY <1>2, <1>8, <3>1 DEF Top
    <3>3. n + 1 # Len(stack') => n # Len(stack) BY <3>1
    <3> QED BY <1>4, <1>8, <3>1, <3>2, <3>3
  <2>2. Top'.cmd = "close" BY <1>8 DEF Push
  <2> QED BY <1>5, <2>1, <2>2
<1>9. ASSUME NEW g, NEW h, TurnAndPush(g, h), Top.cmd # "close", g.cmd # "close",
             h.cmd = "close" \/ (h.cmd # "close" /\ Over(g))
      PROVE  Rested'
  <2>1. stack # <<>> /\ Len(stack') = Len(stack) + 1 /\ Top' = h BY <1>9 DEF TurnAndPush
  <2>2. ASSUME NEW n \in 1..Len(stack'), n # Len(stack')
        PROVE  /\ stack'[n].cmd # "close"
               /\ ~(n + 1 = Len(stack') /\ Top'.cmd = "close") => Over(stack'[n])
    <3>1. CASE n = Len(stack)
      <4>1. stack'[n] = g BY <1>9, <3>1 DEF TurnAndPush
      <4> QED BY <1>1, <1>9, <2>1, <3>1, <4>1
    <3>2. CASE n # Len(stack)
      <4>1. n \in 1..(Len(stack) - 1) /\ n \in 1..Len(stack) BY <1>1, <2>1, <2>2, <3>2
      <4>2. stack'[n] = stack[n] BY <1>9, <4>1 DEF TurnAndPush
      <4> QED BY <1>2, <1>4, <1>9, <2>1, <3>2, <4>1, <4>2
    <3> QED BY <3>1, <3>2
  <2> QED BY <1>5, <2>2
<1>10. ASSUME Pop PROVE Rested'
  <2>1. ASSUME NEW n \in 1..Len(stack'), n # Len(stack')
        PROVE  stack'[n].cmd # "close" /\ Over(stack'[n])
    <3>1. n \in 1..(Len(stack) - 1) /\ n \in 1..Len(stack) /\ n # Len(stack) /\ n + 1 # Len(stack)
      BY <1>10, <2>1 DEF Pop
    <3>2. stack'[n] = stack[n] BY <1>10, <3>1 DEF Pop
    <3> QED BY <1>2, <1>3, <3>1, <3>2
  <2> QED BY <1>5, <2>1
<1>11. ASSUME \A n \in 1..Len(stack) :
                /\ stack'[n].cmd = stack[n].cmd /\ stack'[n].todo = stack[n].todo
                /\ stack'[n].phase = stack[n].phase,
              Len(stack') = Len(stack)
       PROVE  Rested'
  <2>1. stack # <<>> => Top'.cmd = Top.cmd
    <3>1. stack # <<>> => Len(stack) \in 1..Len(stack) BY TopFacts
    <3> QED BY <1>11, <3>1 DEF Top
  <2>2. ASSUME NEW n \in 1..Len(stack')
        PROVE  /\ stack'[n].cmd = "close" => n = Len(stack')
               /\ n # Len(stack') /\ ~(n + 1 = Len(stack') /\ Top'.cmd = "close") => Over(stack'[n])
    <3>1. n \in 1..Len(stack) /\ stack # <<>> BY <1>1, <1>11
    <3>2. Over(stack'[n]) <=> Over(stack[n]) BY <1>11, <3>1 DEF Over
    <3>3. n # Len(stack) /\ ~(n + 1 = Len(stack) /\ Top.cmd = "close") => ~Live(n) BY DEF Live
    <3> QED BY <1>2, <1>11, <2>1, <3>1, <3>2, <3>3
  <2> QED BY <1>5, <2>2
<1>12. Mark => Rested' BY <1>11 DEF Mark
<1>13. UNCHANGED stack => Rested' BY <1>11
<1> QED BY <1>6, <1>7, <1>8, <1>9, <1>10, <1>12, <1>13

LEMMA PumpingFacts ==
  ASSUME Base, Pumping
  PROVE  /\ ~crashed
         /\ stack # <<>> => /\ Top \in Frames /\ Known(Top) /\ Top.phase \in {"wait", "read"}
                            /\ Top.cmd # "close"
<1>1. ~crashed /\ (stack # <<>> => Top.phase \in {"wait", "read"}) BY DEF Pumping
<1> QED BY <1>1, TopFacts DEF Known

LEMMA RestedNext ==
  ASSUME Base, session.patient, Rested, Next
  PROVE  Rested'
<1>1. ASSUME Crash PROVE Rested' BY <1>1, RestedOf DEF Crash
<1>c. CloseFrame.cmd = "close" BY CloseFrameFacts DEF Base, Types
<1>2. CASE StartOp
  <2>1. CASE Crash BY <1>1, <2>1
  <2>2. CASE ~Crash
    <3>1. Top.cmd # "close" /\ \E g : Turn(g) /\ g.cmd # "close" BY <1>2, <2>2, StartOpDoes
    <3> QED BY <3>1, RestedOf
  <2> QED BY <2>1, <2>2
<1>3. CASE Orphan BY <1>1, <1>3 DEF Orphan
<1>4. CASE Answer BY <1>4, AnswerDoes, RestedOf
<1>5. CASE Return
  <2>1. Top.cmd # "close" BY <1>5, ReturnDoes DEF Known
  <2>2. \E g : Turn(g) /\ g.cmd # "close" BY <1>5, <2>1, ReturnDoes
  <2> QED BY <2>1, <2>2, RestedOf
<1>6. CASE Again
  <2>1. Top.cmd # "close" /\ \E g : Turn(g) /\ g.cmd # "close" BY <1>6, AgainDoes
  <2> QED BY <2>1, RestedOf
<1>a. CASE RemAuth
  <2>1. Top.cmd # "close" /\ (UNCHANGED stack \/ \E g : Turn(g) /\ g.cmd # "close") BY <1>a, RemAuthDoes
  <2> QED BY <2>1, RestedOf
<1>d. CASE Dialog
  <2>1. Top.cmd # "close" /\ \E g : Turn(g) /\ g.cmd # "close" BY <1>d, DialogDoes
  <2> QED BY <2>1, RestedOf
<1>7. CASE ReadList
  <2>1. Top.cmd # "close" /\ \E g : Turn(g) /\ g.cmd # "close" BY <1>7, ReadListDoes DEF After
  <2> QED BY <2>1, RestedOf
<1>8. CASE ClearAbort
  <2>1. CASE Crash BY <1>1, <2>1
  <2>2. CASE ~Crash
    <3>1. Top.cmd # "close" /\ \E g : Turn(g) /\ g.cmd # "close"
      BY <1>8, <2>2, ClearAbortDoes DEF After
    <3> QED BY <3>1, RestedOf
  <2> QED BY <2>1, <2>2
<1>9. CASE AborReply
  <2>1. Top.cmd # "close" /\ \E g : Turn(g) /\ g.cmd # "close" BY <1>9, AborReplyDoes DEF After
  <2> QED BY <2>1, RestedOf
<1>10. CASE Unlock
  <2>1. Top.cmd # "close"
        /\ \E g : g.cmd # "close" /\ (Turn(g) \/ TurnAndPush(g, CloseFrame))
    BY <1>10, UnlockDoes DEF After
  <2> QED BY <1>c, <2>1, RestedOf
<1>11. CASE Load
  <2>1. PICK g \in Frames :
          /\ g.cmd = Top.cmd /\ g.phase = "next" /\ Len(g.todo) = 0
          /\ Turn(g) \/ \E h \in Frames : TurnAndPush(g, h) /\ h.cmd = "list"
    BY <1>11, LoadDoes
  <2>2. Top.cmd # "close" BY <1>11, LoadDoes
  <2>3. Over(g) BY <2>1 DEF Over
  <2> QED BY <2>1, <2>2, <2>3, RestedOf
<1>12. CASE GiveUp
  <2>1. Top.cmd # "close"
        /\ \E g : g.cmd # "close" /\ (Turn(g) \/ TurnAndPush(g, CloseFrame))
    BY <1>12, GiveUpDoes
  <2> QED BY <1>c, <2>1, RestedOf
<1>13. CASE Deleted BY <1>13, DeletedDoes, RestedOf
<1>14. CASE Renew
  <2>1. CASE at # "ended" BY <1>14, <2>1, RenewDoes, RestedOf
  <2>2. CASE at = "ended"
    <3>1. Top.cmd # "close" /\ \E g : Turn(g) /\ g.cmd # "close"
      BY <1>14, <2>2, RenewDoes DEF After
    <3> QED BY <3>1, RestedOf
  <2> QED BY <2>1, <2>2
<1>15. CASE Leave BY <1>15, LeaveDoes, RestedOf
<1>16. CASE MachineCloses \/ UserCloses
  <2>1. CmCloseConnection(stack) /\ (Pumping \/ Doing("dialog")) BY <1>16 DEF MachineCloses, UserCloses
  <2>2. UNCHANGED stack \/ Push(CloseFrame) BY <2>1, ClosesDoes
  <2>3. stack = <<>> \/ Top.cmd # "close" BY <2>1, PumpingFacts, DoingFacts
  <2> QED BY <1>c, <2>2, <2>3, RestedOf
<1>17. ASSUME NEW c \in Locking \cup Unlocked, Give(c) PROVE Rested'
  <2>1. UNCHANGED stack \/ (stack = <<>> /\ \E h : Push(h)) BY <1>17, GiveDoes
  <2> QED BY <2>1, RestedOf
<1>18. CASE Stop \/ Arrive \/ Drop
  <2>1. UNCHANGED stack BY <1>18 DEF Stop, Arrive, Drop, window
  <2> QED BY <2>1, RestedOf
<1>19. CASE Prompt \/ Second BY <1>19, PromptDoes, SecondDoes, RestedOf
<1>20. CASE Ask \/ Transfer \/ Retry \/ Failed
  <2>1. Mark BY <1>20, TellsDoes DEF Result
  <2> QED BY <2>1, RestedOf
<1>21. CASE Greeting \/ Drain \/ Check \/ Prompted \/ Reset
  <2>1. UNCHANGED stack BY <1>21 DEF Greeting, Drain, Check, Prompted, Reset, window
  <2> QED BY <2>1, RestedOf
<1> QED
  BY <1>2, <1>3, <1>4, <1>5, <1>6, <1>7, <1>8, <1>9, <1>10, <1>11, <1>12, <1>13, <1>14, <1>15, <1>16, <1>17,
     <1>18, <1>19, <1>20, <1>21, <1>a, <1>d
  DEF Next, Windows, Machines, Users

-----------------------------------------------------------------------------
(* While the server keeps the connection *)

\* Linked in the next state, of a frame that is given
LinkedNext(f) ==
  /\ \A k \in 1..Len(f.todo) :
       f.todo[k] \in Operations \cup {"clear", "again", "auth", "dialog"} =>
         client' # 0 \/ f.todo[1] = "renew"
  /\ f.todo # <<>> /\ f.todo[1] = "renew" => client' = 0 /\ posted' = 0 /\ given' # 0
  /\ f.phase = "wait" => client' # 0 /\ f.client = client'

LEMMA LinkedFacts ==
  ASSUME Base, stack # <<>>, Linked(Top), NEW g \in Frames
  PROVE  /\ /\ g.todo = Top.todo /\ g.phase # "wait" /\ UNCHANGED <<client, posted, given>>
            => LinkedNext(g)
         /\ After(g, Top) /\ Top.todo[1] # "renew" /\ UNCHANGED client => LinkedNext(g)
         /\ client' # 0 /\ (\A k \in 1..Len(g.todo) : g.todo[k] # "renew") /\ g.phase # "wait"
            => LinkedNext(g)
         /\ Len(g.todo) = 0 /\ g.phase # "wait" => LinkedNext(g)
<1>1. Top.todo \in Seq(StepNames) /\ g.todo \in Seq(StepNames) BY TopFacts DEF Frames
<1>2. g.todo # <<>> => 1 \in 1..Len(g.todo) BY <1>1, EmptySeq
<1>3. ASSUME g.todo = Top.todo, g.phase # "wait", UNCHANGED <<client, posted, given>>
      PROVE  LinkedNext(g)
  BY <1>3 DEF Linked, LinkedNext
<1>4. ASSUME After(g, Top), Top.todo[1] # "renew", UNCHANGED client PROVE LinkedNext(g)
  <2>1. g.phase = "next" /\ (g.todo # <<>> => g.todo[1] # "renew") BY <1>2, <1>4 DEF After
  <2>2. ASSUME NEW k \in 1..Len(g.todo), g.todo[k] \in Operations \cup {"clear", "again", "auth", "dialog"}
        PROVE  client' # 0
    <3>1. k + 1 \in 1..Len(Top.todo) /\ Top.todo[k + 1] = g.todo[k] BY <1>4, <2>2 DEF After
    <3> QED BY <1>4, <2>2, <3>1 DEF Linked
  <2> QED BY <2>1, <2>2 DEF LinkedNext
<1>5. ASSUME client' # 0, \A k \in 1..Len(g.todo) : g.todo[k] # "renew", g.phase # "wait"
      PROVE  LinkedNext(g)
  BY <1>2, <1>5 DEF LinkedNext
<1>6. ASSUME Len(g.todo) = 0, g.phase # "wait" PROVE LinkedNext(g)
  BY <1>2, <1>6 DEF LinkedNext
<1> QED BY <1>3, <1>4, <1>5, <1>6

\* What is to be shown of the next state but for the stack
Running(f) ==
  /\ client' # 0 => up' /\ ~terminate' /\ posted' = 0
  /\ client' = 0 /\ f.cmd # "close" => at' = "ended"
  /\ f.cmd = "close" => client' = 0
  /\ LinkedNext(f)

LEMMA AliveOf ==
  ASSUME Base, Rested, Alive
  PROVE  /\ \A g \in Frames : Turn(g) /\ Top.cmd # "close" /\ g.cmd # "close" /\ Running(g) => Alive'
         /\ \A h \in Frames : Push(h) /\ stack = <<>> /\ Running(h) => Alive'
         /\ \A g \in Frames, h \in Frames :
              TurnAndPush(g, h) /\ Top.cmd # "close" /\ g.cmd # "close" /\ Over(g) /\ Running(h) => Alive'
         /\ /\ Pop /\ (client' # 0 => up' /\ ~terminate' /\ posted' = 0)
            /\ client' = 0 => at' = "ended"
            => Alive'
<1>1. Len(stack) \in Nat BY DEF Base, Types
<1>2. \A n \in 1..Len(stack) : n # Len(stack) => Over(stack[n]) /\ stack[n].cmd # "close"
  BY DEF Alive, Rested
<1>3. ASSUME NEW h \in Frames, Len(stack') \in Nat \ {0}, Top' = h, Running(h),
             \A n \in 1..Len(stack') : n # Len(stack') => Over(stack'[n]) /\ stack'[n].cmd # "close"
      PROVE  Alive'
  <2>1. \A n \in 1..Len(stack') : stack'[n].cmd = "close" => client' = 0
    <3>1. stack'[Len(stack')] = h BY <1>3 DEF Top
    <3> QED BY <1>3, <3>1 DEF Running
  <2>2. Linked(Top)' BY <1>3 DEF Linked, LinkedNext, Running
  <2>3. \A n \in 1..Len(stack') : n # Len(stack') => Over(stack[n])' BY <1>3 DEF Over
  <2>4. (client' # 0 => up' /\ ~terminate' /\ posted' = 0)
        /\ (client' = 0 /\ (stack' = <<>> \/ Top'.cmd # "close") => at' = "ended")
    <3>1. stack' # <<>> BY <1>3
    <3> QED BY <1>3, <3>1 DEF Running
  <2> QED BY <2>1, <2>2, <2>3, <2>4 DEF Alive
<1>4. ASSUME NEW g \in Frames, Turn(g), Top.cmd # "close", g.cmd # "close", Running(g) PROVE Alive'
  <2>1. ASSUME NEW n \in 1..Len(stack'), n # Len(stack')
        PROVE  Over(stack'[n]) /\ stack'[n].cmd # "close"
    <3>1. n \in 1..(Len(stack) - 1) /\ n \in 1..Len(stack) /\ n # Len(stack)
      BY <1>4, <2>1 DEF Turn
    <3> QED BY <1>2, <1>4, <3>1 DEF Turn
  <2>2. Len(stack') \in Nat \ {0} /\ Top' = g BY <1>4 DEF Turn
  <2> QED BY <1>3, <1>4, <2>1, <2>2
<1>5. ASSUME NEW h \in Frames, Push(h), stack = <<>>, Running(h) PROVE Alive'
  <2>1. Len(stack') = 1 /\ Top' = h BY <1>5 DEF Push
  <2>2. \A n \in 1..Len(stack') : n = Len(stack') BY <2>1
  <2>3. Len(stack') \in Nat \ {0} BY <2>1
  <2> QED BY <1>3, <1>5, <2>1, <2>2, <2>3
<1>6. ASSUME NEW g \in Frames, NEW h \in Frames, TurnAndPush(g, h), Top.cmd # "close",
             g.cmd # "close", Over(g), Running(h)
      PROVE  Alive'
  <2>1. Len(stack') \in Nat \ {0} /\ Len(stack') = Len(stack) + 1 /\ Top' = h
    BY <1>6 DEF TurnAndPush
  <2>2. ASSUME NEW n \in 1..Len(stack'), n # Len(stack')
        PROVE  Over(stack'[n]) /\ stack'[n].cmd # "close"
    <3>1. CASE n = Len(stack) BY <1>6, <3>1 DEF TurnAndPush
    <3>2. CASE n # Len(stack)
      <4>1. n \in 1..(Len(stack) - 1) /\ n \in 1..Len(stack) BY <1>1, <2>1, <2>2, <3>2
      <4> QED BY <1>2, <1>6, <3>2, <4>1 DEF TurnAndPush
    <3> QED BY <3>1, <3>2
  <2> QED BY <1>3, <1>6, <2>1, <2>2
<1>7. ASSUME Pop, client' # 0 => up' /\ ~terminate' /\ posted' = 0, client' = 0 => at' = "ended"
      PROVE  Alive'
  <2>1. stack' \in Seq(Frames) /\ Len(stack') \in Nat BY <1>7 DEF Pop
  <2>2. ASSUME NEW n \in 1..Len(stack') PROVE Over(stack'[n]) /\ stack'[n].cmd # "close" /\ stack'[n] \in Frames
    <3>1. n \in 1..(Len(stack) - 1) /\ n \in 1..Len(stack) /\ n # Len(stack) BY <1>7 DEF Pop
    <3>2. stack'[n] \in Frames BY <2>1, ElementOfSeq
    <3> QED BY <1>2, <1>7, <3>1, <3>2 DEF Pop
  <2>3. CASE stack' # <<>>
    <3>1. Len(stack') \in Nat \ {0} BY <2>1, <2>3, EmptySeq
    <3>2. PICK f \in Frames : f = Top' BY <2>2, <3>1 DEF Top
    <3>3. Over(f) /\ f.cmd # "close" BY <2>2, <3>1, <3>2 DEF Top
    <3>4. f.todo # <<>> => 1 \in 1..Len(f.todo)
      <4>1. f.todo \in Seq(StepNames) BY DEF Frames
      <4> QED BY <4>1, EmptySeq
    <3>5. LinkedNext(f) BY <3>3, <3>4 DEF LinkedNext, Over, Operations, Local, Asked, Twice
    <3>6. Running(f) BY <1>7, <3>3, <3>5 DEF Running
    <3> QED BY <1>3, <2>2, <3>1, <3>2, <3>6
  <2>4. CASE stack' = <<>>
    <3>1. Len(stack') = 0 BY <2>4
    <3> QED BY <1>7, <2>4, <3>1 DEF Alive
  <2> QED BY <2>3, <2>4
<1> QED BY <1>4, <1>5, <1>6, <1>7

\* The stack is the same, or only results are written.
LEMMA AliveSame ==
  ASSUME Base, Rested, Alive, Mark \/ UNCHANGED stack, UNCHANGED client,
         client' # 0 => up' /\ ~terminate' /\ posted' = 0,
         at = "ended" => at' = "ended" /\ (posted = 0 => posted' = 0),
         given # 0 => given' # 0
  PROVE  Alive'
<1>1. Len(stack) \in Nat BY DEF Base, Types
<1>2. Len(stack') = Len(stack) BY DEF Mark
<1>3. \A n \in 1..Len(stack) :
        /\ stack'[n].cmd = stack[n].cmd /\ stack'[n].todo = stack[n].todo
        /\ stack'[n].phase = stack[n].phase /\ stack'[n].client = stack[n].client
  BY DEF Mark
<1>4. stack' = <<>> => stack = <<>>
  <2>1. stack \in Seq(Frames) BY DEF Base, Types
  <2>2. stack' = <<>> => Len(stack) = 0 BY <1>2
  <2> QED BY <2>1, <2>2, EmptySeq
<1>5. \A n \in 1..Len(stack') : n # Len(stack') => Over(stack[n])'
  <2> SUFFICES ASSUME NEW n \in 1..Len(stack'), n # Len(stack') PROVE Over(stack[n])' OBVIOUS
  <2>1. n \in 1..Len(stack) /\ n # Len(stack) BY <1>2
  <2>2. Over(stack[n]) BY <2>1 DEF Alive
  <2> QED BY <1>3, <2>1, <2>2 DEF Over
<1>6. \A n \in 1..Len(stack') : stack'[n].cmd = "close" => client' = 0
  BY <1>2, <1>3 DEF Alive
<1>7. CASE stack' = <<>>
  <2>1. client' = 0 => at' = "ended" BY <1>4, <1>7 DEF Alive
  <2> QED BY <1>5, <1>6, <1>7, <2>1 DEF Alive
<1>8. CASE stack' # <<>>
  <2>1. stack # <<>> /\ Len(stack) \in 1..Len(stack)
    <3>1. stack # <<>>
      <4>1. UNCHANGED stack => stack # <<>> BY <1>8
      <4>2. Mark => stack # <<>>
        <5>1. Mark => stack' \in Seq(Frames) BY DEF Mark
        <5>2. stack' \in Seq(Frames) => Len(stack') # 0 BY <1>8, EmptySeq
        <5>3. Len(<<>>) = 0 OBVIOUS
        <5> QED BY <1>2, <5>1, <5>2, <5>3
      <4> QED BY <4>1, <4>2
    <3> QED BY <3>1, TopFacts
  <2>2. Top'.cmd = Top.cmd /\ Top'.todo = Top.todo /\ Top'.phase = Top.phase /\ Top'.client = Top.client
    BY <1>2, <1>3, <2>1 DEF Top
  <2>3. client = 0 /\ Top.cmd # "close" => at = "ended" BY <2>1 DEF Alive
  <2>4. Linked(Top) BY <2>1 DEF Alive
  <2>5. Top.todo # <<>> /\ Top.todo[1] = "renew" => Top.cmd # "close"
    BY <2>1, TopFacts DEF Known
  <2>6. Linked(Top)' BY <2>2, <2>3, <2>4, <2>5 DEF Linked
  <2> QED BY <1>5, <1>6, <1>8, <2>2, <2>3, <2>6 DEF Alive
<1> QED BY <1>7, <1>8


LEMMA AliveNext ==
  ASSUME Base, Rested, Alive, Kept, Next
  PROVE  Alive' \/ (closing /\ Cut')
<1> USE DEF machine, wire
<1>0. client \in Nat /\ posted \in Nat /\ given \in Nat /\ Len(stack) \in Nat BY DEF Base, Types
<1>a. /\ client # 0 => up /\ ~terminate /\ posted = 0
      /\ client = 0 /\ (stack = <<>> \/ Top.cmd # "close") => at = "ended"
      /\ stack # <<>> => Linked(Top)
  BY DEF Alive
<1>b. stack # <<>> /\ Top.cmd = "close" => client = 0
  BY TopFacts DEF Alive, Top
<1>c. /\ CloseFrame \in Frames /\ CloseFrame.cmd = "close" /\ CloseFrame.phase = "delete"
      /\ Len(CloseFrame.todo) = 0
  BY CloseFrameFacts DEF Base, Types
<1>p. session.patient /\ ~session.drops BY DEF Kept
<1>1. ASSUME Crash PROVE Alive'
  <2>1. UNCHANGED <<stack, client, given, posted, at, terminate, up>> BY <1>1 DEF Crash
  <2> QED BY <1>a, <2>1, AliveSame
\* The last command goes on, and everything about the machine is as it was.
<1>2. ASSUME NEW g \in Frames, Turn(g), stack # <<>>, Top.cmd # "close", g.cmd = Top.cmd, LinkedNext(g),
             UNCHANGED <<client, at, terminate, up, posted>>
      PROVE  Alive'
  <2>1. Running(g) BY <1>a, <1>2 DEF Running
  <2> QED BY <1>2, <2>1, AliveOf
\* A close comes on top of it.
<1>3. client' = 0 => Running(CloseFrame)
  <2>1. client' = 0 => LinkedNext(CloseFrame)
    <3>1. CloseFrame.todo = <<>> BY CloseFrameFacts DEF Base, Types
    <3> QED BY <1>c, <3>1 DEF LinkedNext
  <2> QED BY <1>c, <2>1 DEF Running
<1>4. CASE StartOp
  <2>1. CASE Crash BY <1>1, <2>1
  <2>2. CASE ~Crash
    <3>1. PICK g \in Frames :
            /\ Turn(g) /\ g.cmd = Top.cmd /\ g.todo = Top.todo /\ g.phase = "wait" /\ g.client = client
      BY <1>4, <2>2, StartOpDoes
    <3>2. /\ stack # <<>> /\ Top.cmd # "close" /\ Top.todo[1] \in Operations /\ client # 0
          /\ UNCHANGED <<client, at, terminate, up, posted>>
      BY <1>4, <2>2, StartOpDoes
    <3>3. Top.todo[1] # "renew" BY <3>2 DEF Operations, Local, Asked, Twice
    <3>4. LinkedNext(g) BY <3>1, <3>2, <3>3 DEF LinkedNext
    <3> QED BY <1>2, <3>1, <3>2, <3>4
  <2> QED BY <2>1, <2>2
<1>5. CASE Orphan BY <1>1, <1>5 DEF Orphan
<1>6. CASE Answer
  <2>1. Mark /\ UNCHANGED <<client, given, posted, at, terminate, up>> BY <1>6, AnswerDoes
  <2> QED BY <1>a, <2>1, AliveSame
<1>7. CASE Return
  <2>1. PICK g \in Frames :
          /\ Turn(g) /\ g.cmd = Top.cmd /\ g.phase = "next" /\ \A k \in 1..Len(g.todo) : g.todo[k] # "renew"
    BY <1>7, ReturnDoes
  <2>2. /\ stack # <<>> /\ Known(Top) /\ Top.phase = "wait"
        /\ UNCHANGED <<client, at, terminate, up, posted>>
    BY <1>7, ReturnDoes
  <2>3. Linked(Top) /\ client # 0 /\ Top.cmd # "close" BY <1>a, <2>2 DEF Linked, Known
  <2>4. LinkedNext(g) BY <2>1, <2>2, <2>3, LinkedFacts
  <2> QED BY <1>2, <2>1, <2>2, <2>3, <2>4
<1>8. CASE Again
  <2>1. PICK g \in Frames :
          /\ Turn(g) /\ g.cmd = Top.cmd /\ g.phase = "next" /\ \A k \in 1..Len(g.todo) : g.todo[k] # "renew"
    BY <1>8, AgainDoes
  <2>2. /\ stack # <<>> /\ Top.cmd # "close" /\ 1 \in 1..Len(Top.todo) /\ Top.todo[1] = "again"
        /\ UNCHANGED <<client, at, terminate, up, posted>>
    BY <1>8, AgainDoes
  <2>3. Linked(Top) /\ client # 0 BY <1>a, <2>2 DEF Linked
  <2>4. LinkedNext(g) BY <2>1, <2>2, <2>3, LinkedFacts
  <2> QED BY <1>2, <2>1, <2>2, <2>4
<1>m. CASE RemAuth
  <2>1. /\ stack # <<>> /\ Top.cmd # "close" /\ 1 \in 1..Len(Top.todo) /\ Top.todo[1] = "auth"
        /\ UNCHANGED <<client, at, terminate, up, posted>>
    BY <1>m, RemAuthDoes
  <2>2. Linked(Top) /\ client # 0 BY <1>a, <2>1 DEF Linked
  <2>3. PICK g \in Frames :
          /\ Turn(g) /\ g.cmd = Top.cmd /\ g.phase = "next" /\ \A k \in 1..Len(g.todo) : g.todo[k] # "renew"
    BY <1>m, <2>2, RemAuthDoes
  <2>4. LinkedNext(g) BY <2>1, <2>2, <2>3, LinkedFacts
  <2> QED BY <1>2, <2>1, <2>3, <2>4
<1>d. CASE Dialog
  <2>1. PICK g \in Frames :
          /\ Turn(g) /\ g.cmd = Top.cmd /\ g.phase = "next" /\ \A k \in 1..Len(g.todo) : g.todo[k] # "renew"
    BY <1>d, DialogDoes
  <2>2. /\ stack # <<>> /\ Top.cmd # "close" /\ 1 \in 1..Len(Top.todo) /\ Top.todo[1] = "dialog"
        /\ UNCHANGED <<client, at, terminate, up, posted>>
    BY <1>d, DialogDoes
  <2>3. Linked(Top) /\ client # 0 BY <1>a, <2>2 DEF Linked
  <2>4. LinkedNext(g) BY <2>1, <2>2, <2>3, LinkedFacts
  <2> QED BY <1>2, <2>1, <2>2, <2>4
<1>9. CASE ReadList
  <2>1. PICK g \in Frames :
          /\ Turn(g)
          /\ (g.cmd = Top.cmd /\ g.todo = Top.todo /\ g.phase = "read") \/ After(g, Top)
    BY <1>9, ReadListDoes
  <2>2. /\ stack # <<>> /\ Top.cmd # "close" /\ Top.todo[1] = "read"
        /\ UNCHANGED <<client, at, terminate, up, posted, given>>
    BY <1>9, ReadListDoes
  <2>3. g.cmd = Top.cmd /\ LinkedNext(g) BY <1>a, <2>1, <2>2, LinkedFacts DEF After
  <2> QED BY <1>2, <2>1, <2>2, <2>3
<1>10. CASE ClearAbort
  <2>1. CASE Crash BY <1>1, <2>1
  <2>2. CASE ~Crash
    <3>1. PICK g \in Frames :
            /\ Turn(g)
            /\ (g.cmd = Top.cmd /\ g.todo = Top.todo /\ g.phase = "abor") \/ After(g, Top)
      BY <1>10, <2>2, ClearAbortDoes
    <3>2. /\ stack # <<>> /\ Top.cmd # "close" /\ Top.todo[1] = "clear"
          /\ UNCHANGED <<client, at, terminate, up, posted, given>>
      BY <1>10, <2>2, ClearAbortDoes
    <3>3. g.cmd = Top.cmd /\ LinkedNext(g) BY <1>a, <3>1, <3>2, LinkedFacts DEF After
    <3> QED BY <1>2, <3>1, <3>2, <3>3
  <2> QED BY <2>1, <2>2
<1>11. CASE AborReply
  <2>1. PICK g \in Frames : Turn(g) /\ After(g, Top) BY <1>11, AborReplyDoes
  <2>2. /\ stack # <<>> /\ Top.cmd # "close" /\ Top.todo[1] = "clear"
        /\ UNCHANGED <<client, at, terminate, up, posted>>
    BY <1>11, AborReplyDoes
  <2>3. g.cmd = Top.cmd /\ LinkedNext(g) BY <1>a, <2>1, <2>2, LinkedFacts DEF After
  <2> QED BY <1>2, <2>1, <2>2, <2>3
<1>12. CASE Unlock
  <2>1. PICK g \in Frames :
          /\ After(g, Top)
          /\ \/ closing /\ client' = 0 /\ TurnAndPush(g, CloseFrame)
             \/ Turn(g) /\ UNCHANGED <<client, terminate>>
    BY <1>12, UnlockDoes
  <2>2. /\ stack # <<>> /\ Top.cmd # "close" /\ Top.todo[1] = "unlock"
        /\ Top.cmd # "open" => \A k \in 2..Len(Top.todo) : Top.todo[k] = "refresh"
        /\ Top.cmd = "open" => Followed(Top.todo, 1, "getcwd")
        /\ ~crashed /\ UNCHANGED <<at, up, posted, crashed>>
    BY <1>12, UnlockDoes
  <2>3. g.cmd = Top.cmd BY <2>1 DEF After
  <2>6. CASE closing /\ client' = 0 /\ TurnAndPush(g, CloseFrame) /\ Top.cmd = "open"
    <3>1. 2 \in 1..Len(Top.todo) /\ Top.todo[2] = "getcwd" /\ Len(Top.todo) \in Nat
      BY <2>1, <2>2, <2>6 DEF Followed, After
    <3>2. 2 \in 2..Len(Top.todo) /\ 2 - 1 = 1 BY <3>1
    <3>3. g.todo[1] = "getcwd" /\ 1 \in 1..Len(g.todo) /\ g.phase = "next" BY <2>1, <3>1, <3>2 DEF After
    <3>4. g.todo # <<>>
      <4>1. Len(<<>>) = 0 OBVIOUS
      <4> QED BY <3>3, <4>1
    <3>5. /\ Len(stack) \in 1..Len(stack') /\ Len(stack) + 1 = Len(stack') /\ Top'.cmd = "close"
          /\ stack'[Len(stack)] = g
      BY <1>0, <1>c, <2>6 DEF TurnAndPush
    <3>6. \E n \in 1..Len(stack') :
             /\ n = Len(stack') \/ (n + 1 = Len(stack') /\ Top'.cmd = "close")
             /\ stack'[n].cmd = "open" /\ stack'[n].phase = "next"
             /\ stack'[n].todo # <<>> /\ stack'[n].todo[1] = "getcwd"
      BY <2>3, <2>6, <3>3, <3>4, <3>5
    <3>7. Cut' BY <2>2, <2>6, <3>6 DEF Cut, Live
    <3> QED BY <2>6, <3>7
  <2>4. CASE closing /\ client' = 0 /\ TurnAndPush(g, CloseFrame) /\ Top.cmd # "open"
    <3>1. Over(g)
      <4>1. ASSUME NEW k \in 1..Len(g.todo) PROVE g.todo[k] = "refresh"
        <5>1. k + 1 \in 2..Len(Top.todo) /\ g.todo[k] = Top.todo[k + 1] BY <2>1, <4>1 DEF After
        <5> QED BY <2>2, <2>4, <5>1
      <4> QED BY <2>1, <4>1 DEF Over, After
    <3> QED BY <1>c, <1>3, <2>2, <2>3, <2>4, <3>1, AliveOf
  <2>5. CASE Turn(g) /\ UNCHANGED <<client, terminate>>
    <3>1. LinkedNext(g) BY <1>a, <2>1, <2>2, <2>5, LinkedFacts
    <3> QED BY <1>2, <2>2, <2>3, <2>5, <3>1
  <2> QED BY <2>1, <2>4, <2>5, <2>6
<1>13. CASE Load
  <2>1. PICK g \in Frames :
          /\ g.cmd = Top.cmd /\ g.phase = "next" /\ Len(g.todo) = 0
          /\ \/ Turn(g)
             \/ /\ client # 0
                /\ \E h \in Frames :
                     /\ TurnAndPush(g, h) /\ h.cmd = "list" /\ h.phase = "next"
                     /\ \A k \in 1..Len(h.todo) : h.todo[k] # "renew"
    BY <1>13, LoadDoes
  <2>2. stack # <<>> /\ Top.cmd # "close" /\ UNCHANGED <<client, at, terminate, up, posted>>
    BY <1>13, LoadDoes
  <2>3. CASE Turn(g)
    <3>1. LinkedNext(g) BY <1>a, <2>1, <2>2, LinkedFacts
    <3> QED BY <1>2, <2>1, <2>2, <2>3, <3>1
  <2>4. CASE ~Turn(g)
    <3>1. PICK h \in Frames :
            /\ TurnAndPush(g, h) /\ h.cmd = "list" /\ h.phase = "next"
            /\ \A k \in 1..Len(h.todo) : h.todo[k] # "renew"
      BY <2>1, <2>4
    <3>2. client # 0 BY <2>1, <2>4
    <3>3. LinkedNext(h) BY <1>a, <2>2, <3>1, <3>2, LinkedFacts
    <3>4. Running(h) BY <1>a, <2>2, <3>1, <3>2, <3>3 DEF Running
    <3>5. Over(g) BY <2>1 DEF Over
    <3>6. g.cmd # "close" BY <2>1, <2>2
    <3> QED BY <2>2, <3>1, <3>4, <3>5, <3>6, AliveOf
  <2> QED BY <2>3, <2>4
<1>14. CASE GiveUp
  <2>1. PICK g \in Frames :
          /\ g.cmd = Top.cmd /\ g.phase = "next" /\ Len(g.todo) = 0
          /\ \/ Turn(g) /\ UNCHANGED <<client, terminate>>
             \/ client' = 0 /\ TurnAndPush(g, CloseFrame)
    BY <1>14, GiveUpDoes
  <2>2. stack # <<>> /\ Top.cmd # "close" /\ UNCHANGED <<at, up, posted>> BY <1>14, GiveUpDoes
  <2>3. CASE Turn(g) /\ UNCHANGED <<client, terminate>>
    <3>1. LinkedNext(g) BY <1>a, <2>1, <2>2, LinkedFacts
    <3> QED BY <1>2, <2>1, <2>2, <2>3, <3>1
  <2>4. CASE client' = 0 /\ TurnAndPush(g, CloseFrame)
    <3>1. Over(g) /\ g.cmd # "close" BY <2>1, <2>2 DEF Over
    <3> QED BY <1>c, <1>3, <2>2, <2>4, <3>1, AliveOf
  <2> QED BY <2>1, <2>3, <2>4
<1>15. CASE Deleted
  <2>1. stack # <<>> /\ Top.cmd = "close" /\ at = "ended" /\ Pop /\ UNCHANGED <<client, at>>
    BY <1>15, DeletedDoes
  <2> QED BY <1>b, <2>1, AliveOf
<1>16. CASE Leave
  <2>1. stack # <<>> /\ Top.cmd # "close" /\ Pop /\ UNCHANGED <<client, at, up, terminate, posted>>
    BY <1>16, LeaveDoes
  <2> QED BY <1>a, <2>1, AliveOf
<1>17. CASE Renew
  <2>1. stack # <<>> /\ Top.cmd = "open" /\ Top.todo # <<>> /\ Top.todo[1] = "renew"
    BY <1>17, RenewDoes
  <2>2. client = 0 /\ posted = 0 /\ given # 0 /\ at = "ended" BY <1>a, <2>1 DEF Linked
  <2>3. PICK g \in Frames : Turn(g) /\ After(g, Top) BY <1>17, <2>2, RenewDoes
  <2>4. client' = given /\ ~terminate' /\ up' /\ UNCHANGED posted
    BY <1>17, <2>2, RenewDoes
  <2>5. g.cmd = "open" /\ LinkedNext(g)
    <3>1. \A k \in 1..Len(g.todo) : g.todo[k] # "renew" BY <2>3 DEF After
    <3>2. g.phase # "wait" /\ g.cmd = "open" BY <2>1, <2>3 DEF After
    <3> QED BY <1>a, <2>1, <2>2, <2>4, <3>1, <3>2, LinkedFacts
  <2>6. Running(g) BY <2>2, <2>4, <2>5 DEF Running
  <2>7. Top.cmd # "close" /\ g.cmd # "close" BY <2>1, <2>5
  <2> QED BY <2>3, <2>6, <2>7, AliveOf
<1>18. CASE MachineCloses
  <2>1. client = 0 /\ posted # 0 /\ CmCloseConnection(stack)
        /\ UNCHANGED <<given, at, up>>
    BY <1>0, <1>a, <1>18 DEF MachineCloses
  <2>2. UNCHANGED <<stack, client>> BY <2>1, ClosesDoes
  <2> QED BY <2>1, <2>2, AliveSame
<1>19. CASE UserCloses
  <2>1. /\ client # 0 /\ CmCloseConnection(stack) /\ (stack # <<>> => lock)
        /\ UNCHANGED <<given, posted, at, up>>
    BY <1>p, <1>19 DEF UserCloses
  <2>2. CASE UNCHANGED <<stack, client, terminate>>
    <3> QED BY <1>a, <2>1, <2>2, AliveSame
  <2>3. CASE ~UNCHANGED <<stack, client, terminate>>
    <3>1. stack = <<>> /\ client' = 0 /\ Push(CloseFrame) BY <2>1, <2>3, ClosesDoes
    <3> QED BY <1>c, <1>3, <3>1, AliveOf
  <2> QED BY <2>2, <2>3
<1>20. ASSUME NEW c \in Locking \cup Unlocked, Give(c) PROVE Alive'
  <2>1. /\ posted = 0 /\ given' # 0
        /\ UNCHANGED <<client, at, terminate, up, posted>>
    BY <1>0, <1>20, GiveDoes
  <2>2. CASE UNCHANGED stack BY <1>a, <2>1, <2>2, AliveSame
  <2>3. CASE ~UNCHANGED stack
    <3>1. stack = <<>> /\ (c = "open" => client = 0 \/ ~up) /\ (c # "open" => client # 0)
      BY <1>p, <1>20, <2>3, GiveDoes
    <3>2. PICK h \in Frames :
            /\ Push(h) /\ h.cmd = c /\ h.phase = "next"
            /\ c = "open" => h.todo # <<>> /\ h.todo[1] = "renew"
            /\ c # "open" => \A k \in 1..Len(h.todo) : h.todo[k] # "renew"
      BY <1>20, <2>3, GiveDoes
    <3>3. h.todo # <<>> => 1 \in 1..Len(h.todo)
      <4>1. h.todo \in Seq(StepNames) BY DEF Frames
      <4> QED BY <4>1, EmptySeq
    <3>4. c = "open" => client = 0 BY <1>a, <3>1
    <3>5. LinkedNext(h) BY <2>1, <3>1, <3>2, <3>3, <3>4 DEF LinkedNext
    <3>6. c # "close" BY DEF Locking, Unlocked
    <3>7. Running(h) BY <1>a, <2>1, <3>1, <3>2, <3>5, <3>6 DEF Running
    <3> QED BY <3>1, <3>2, <3>7, AliveOf
  <2> QED BY <2>2, <2>3
<1>21. CASE Stop \/ Arrive \/ Drop
  <2>1. UNCHANGED <<stack, client, given, posted, at, terminate, up>>
    BY <1>p, <1>21 DEF Stop, Arrive, Drop, window
  <2> QED BY <1>a, <2>1, AliveSame
<1>22. CASE Prompt \/ Second
  <2>1. Mark /\ at # "ended" /\ UNCHANGED <<client, given, posted, terminate, up>>
    BY <1>22, PromptDoes, SecondDoes
  <2> QED BY <1>a, <2>1, AliveSame
<1>23. CASE Ask \/ Transfer \/ Retry \/ Failed
  <2>1. Mark /\ at # "ended" /\ UNCHANGED <<client, given, posted, terminate, up>>
    BY <1>23, TellsDoes DEF Result
  <2> QED BY <1>a, <2>1, AliveSame
<1>24. CASE Check \/ Prompted \/ Reset
  <2>1. UNCHANGED <<stack, client, given, posted, terminate, up>> /\ at # "ended"
    BY <1>24 DEF Check, Prompted, Reset, window
  <2> QED BY <1>a, <2>1, AliveSame
<1>25. CASE Greeting \/ Drain
  <2>1. UNCHANGED <<stack, client, given, terminate, up>> /\ at # "ended"
    BY <1>25 DEF Greeting, Drain, window
  <2>2. client # 0 => UNCHANGED posted
    BY <1>a, <1>p, <1>25 DEF Greeting, Drain, EndRun
  <2> QED BY <1>a, <2>1, <2>2, AliveSame
<1> QED
  BY <1>4, <1>5, <1>6, <1>7, <1>8, <1>9, <1>10, <1>11, <1>12, <1>13, <1>14, <1>15, <1>16, <1>17, <1>18,
     <1>19, <1>20, <1>21, <1>22, <1>23, <1>24, <1>25, <1>m, <1>d
  DEF Next, Windows, Machines, Users

------------------------------------------------------------\* Nothing comes of an opening whose handler is gone but the close that is
\* under way, and its next operation.
LEMMA CutNext ==
  ASSUME Base, Rested, Cut, Next
  PROVE  Cut'
<1> USE DEF machine, wire
<1>0. Len(stack) \in Nat BY DEF Base, Types
<1>1. PICK n \in 1..Len(stack) :
        /\ n = Len(stack) \/ (n + 1 = Len(stack) /\ Top.cmd = "close")
        /\ stack[n].cmd = "open" /\ stack[n].phase = "next"
        /\ stack[n].todo # <<>> /\ stack[n].todo[1] = "getcwd"
  BY DEF Cut, Live
<1>2. client = 0 /\ stack # <<>> /\ Top \in Frames /\ Known(Top) BY <1>1, TopFacts DEF Cut
\* The last command is the opening at its operation, or the close.
<1>3. \/ n = Len(stack) /\ Top.cmd = "open" /\ Top.phase = "next" /\ Top.todo # <<>> /\ Top.todo[1] = "getcwd"
      \/ n + 1 = Len(stack) /\ Top.cmd = "close" /\ Top.phase = "delete"
  BY <1>1, <1>2 DEF Top, Known
<1>4. \A step : Doing(step) => step = "getcwd"
  <2> SUFFICES ASSUME NEW step, Doing(step) PROVE step = "getcwd" OBVIOUS
  <2>1. Top.phase = "next" /\ Top.todo[1] = step BY DoingFacts
  <2> QED BY <1>3, <2>1
<1>5. Top.phase \in {"next", "delete"} /\ ~Pumping /\ (Top.phase = "next" => Top.todo # <<>>)
  BY <1>2, <1>3 DEF Pumping
<1>6. ASSUME Mark \/ UNCHANGED stack, UNCHANGED client, crashed' => crashed \/ n = Len(stack)
      PROVE  Cut'
  <2>1. /\ Len(stack') = Len(stack)
        /\ \A i \in 1..Len(stack) : /\ stack'[i].cmd = stack[i].cmd /\ stack'[i].todo = stack[i].todo
                                    /\ stack'[i].phase = stack[i].phase
    BY <1>6 DEF Mark
  <2>2. Len(stack) \in 1..Len(stack) /\ Top'.cmd = Top.cmd BY <1>2, <2>1, TopFacts DEF Top
  <2>3. \E i \in 1..Len(stack') :
          /\ i = Len(stack') \/ (i + 1 = Len(stack') /\ Top'.cmd = "close")
          /\ stack'[i].cmd = "open" /\ stack'[i].phase = "next"
          /\ stack'[i].todo # <<>> /\ stack'[i].todo[1] = "getcwd"
    BY <1>1, <2>1, <2>2
  <2>4. crashed' => Top'.cmd # "close"
    <3>1. crashed => Top.cmd # "close" BY DEF Cut
    <3>2. n = Len(stack) => Top.cmd # "close" BY <1>1 DEF Top
    <3> QED BY <1>6, <2>2, <3>1, <3>2
  <2> QED BY <1>2, <1>6, <2>3, <2>4 DEF Cut, Live
<1>7. CASE StartOp
  <2>1. Crash /\ Top.phase = "next" BY <1>2, <1>7, StartOpDoes
  <2>2. n = Len(stack) BY <1>3, <2>1
  <2> QED BY <1>6, <2>1, <2>2 DEF Crash
<1>8. CASE Deleted
  <2>1. Top.cmd = "close" /\ Pop /\ UNCHANGED <<client, crashed>> /\ ~crashed BY <1>8, DeletedDoes
  <2>2. n + 1 = Len(stack) BY <1>3, <2>1
  <2>3. Len(stack') = n /\ n \in 1..Len(stack') /\ stack'[n] = stack[n] BY <1>0, <2>1, <2>2 DEF Pop
  <2>4. \E i \in 1..Len(stack') :
          /\ i = Len(stack') \/ (i + 1 = Len(stack') /\ Top'.cmd = "close")
          /\ stack'[i].cmd = "open" /\ stack'[i].phase = "next"
          /\ stack'[i].todo # <<>> /\ stack'[i].todo[1] = "getcwd"
    BY <1>1, <2>3
  <2> QED BY <1>2, <2>1, <2>4 DEF Cut, Live
<1>9. CASE \/ Orphan \/ Answer \/ Return \/ AborReply \/ Leave \/ MachineCloses \/ Stop \/ UserCloses
           \/ \E c \in Locking \cup Unlocked : Give(c)
  BY <1>4, <1>5, <1>9 DEF Orphan, Answer, Return, AborReply, Leave, MachineCloses, Stop, UserCloses, Give
<1>10. CASE Again \/ RemAuth \/ Dialog \/ ReadList \/ ClearAbort \/ Unlock \/ Load \/ GiveUp \/ Renew
  BY <1>4, <1>5, <1>10 DEF Again, RemAuth, Dialog, ReadList, ClearAbort, Unlock, Load, GiveUp, Renew
<1>11. CASE Prompt \/ Second \/ Ask \/ Transfer \/ Retry \/ Failed
  <2>1. Mark /\ UNCHANGED <<client, crashed>>
    BY <1>11, PromptDoes, SecondDoes, TellsDoes DEF Result
  <2> QED BY <1>6, <2>1
<1>12. CASE Check \/ Prompted \/ Reset \/ Greeting \/ Drain \/ Arrive \/ Drop
  <2>1. UNCHANGED <<stack, client, crashed>>
    BY <1>12 DEF Check, Prompted, Reset, Greeting, Drain, Arrive, Drop, window
  <2> QED BY <1>6, <2>1
<1> QED BY <1>7, <1>8, <1>9, <1>10, <1>11, <1>12 DEF Next, Windows, Machines, Users

-----------------
(* The entries of the list that are to be deleted *)

LEMMA SparedOf ==
  ASSUME Base, Alive, Spared, ~crashed', session' = session
  PROVE  /\ \A g : /\ Turn(g) /\ stack # <<>> /\ g.infos = Top.infos
                   /\ Has(g, "delete") => Has(Top, "delete") /\ infos' = infos
                   => Spared'
         /\ \A g : Top' = g /\ ~Has(g, "delete") => Spared'
         /\ Pop => Spared'
         /\ (Mark \/ UNCHANGED stack) /\ (stack # <<>> /\ Has(Top, "delete") => infos' = infos) => Spared'
<1>1. Len(stack) \in Nat BY DEF Base, Types
<1>2. ASSUME NEW g, Top' = g,
             Has(g, "delete") => g.infos = infos' /\ "delete" \in session.commands
      PROVE  Spared'
  <2>1. Has(Top, "delete")' <=> Has(g, "delete") BY <1>2 DEF Has
  <2> QED BY <1>2, <2>1 DEF Spared
<1>3. ASSUME NEW g, Turn(g), stack # <<>>, g.infos = Top.infos,
             Has(g, "delete") => Has(Top, "delete") /\ infos' = infos
      PROVE  Spared'
  <2>1. Top' = g BY <1>3 DEF Turn
  <2> QED BY <1>2, <1>3, <2>1 DEF Spared
<1>4. ASSUME NEW g, Top' = g, ~Has(g, "delete") PROVE Spared' BY <1>2, <1>4
<1>5. ASSUME Pop PROVE Spared'
  <2>1. CASE stack' = <<>> BY <2>1 DEF Spared
  <2>2. CASE stack' # <<>>
    <3>1. stack' \in Seq(Frames) /\ Len(stack') = Len(stack) - 1 BY <1>5 DEF Pop
    <3>2. Len(stack') # 0 BY <2>2, <3>1, EmptySeq
    <3>3. Len(stack') \in 1..(Len(stack) - 1) /\ Len(stack') \in 1..Len(stack) /\ Len(stack') # Len(stack)
      BY <1>1, <3>1, <3>2
    <3>4. Top' = stack[Len(stack')] BY <1>5, <3>3 DEF Pop, Top
    <3> DEFINE g == stack[Len(stack')]
    <3>5. Over(g) BY <3>3 DEF Alive
    <3>6. Top' = g BY <3>4
    <3> HIDE DEF g
    <3>7. ~Has(g, "delete") BY <3>5 DEF Over, Has
    <3> QED BY <1>4, <3>6, <3>7
  <2> QED BY <2>1, <2>2
<1>6. ASSUME Mark \/ UNCHANGED stack, stack # <<>> /\ Has(Top, "delete") => infos' = infos PROVE Spared'
  <2>1. Len(stack') = Len(stack) BY <1>6 DEF Mark
  <2>2. CASE stack' = <<>> BY <2>2 DEF Spared
  <2>3. CASE stack = <<>>
    <3>1. stack' = <<>>
      <4>1. CASE UNCHANGED stack BY <2>3, <4>1
      <4>2. CASE Mark
        <5>1. stack' \in Seq(Frames) /\ Len(stack') = 0 BY <2>1, <2>3, <4>2 DEF Mark
        <5> QED BY <5>1, EmptySeq
      <4> QED BY <1>6, <4>1, <4>2
    <3> QED BY <2>2, <3>1
  <2>4. CASE stack # <<>>
    <3>1. Len(stack) \in 1..Len(stack) BY <2>4, TopFacts
    <3>2. Top'.todo = Top.todo /\ Top'.infos = Top.infos BY <1>6, <2>1, <3>1 DEF Mark, Top
    <3> DEFINE g == Top'
    <3>3. g.todo = Top.todo /\ g.infos = Top.infos /\ Top' = g BY <3>2
    <3> HIDE DEF g
    <3>4. Has(g, "delete") => Has(Top, "delete") BY <3>3 DEF Has
    <3> QED BY <1>2, <1>6, <2>4, <3>3, <3>4 DEF Spared
  <2> QED BY <2>3, <2>4
<1> QED BY <1>3, <1>4, <1>5, <1>6

LEMMA SparedNext ==
  ASSUME Base, Rested, Alive, Kept, ~({"refresh", "delete"} \subseteq session.commands), Spared, Next
  PROVE  Spared'
<1> USE DEF machine, wire
<1>a. stack # <<>> => Linked(Top) BY DEF Alive
<1>c. ~Has(CloseFrame, "delete") BY CloseFrameFacts DEF Base, Types, Has
<1>n. ~crashed BY DEF Spared
\* The last command goes on behind its first step.
<1>1. ASSUME NEW g, After(g, Top), stack # <<>>
      PROVE  g.infos = Top.infos /\ (Has(g, "delete") => Has(Top, "delete"))
  <2>1. ASSUME NEW k \in 1..Len(g.todo), g.todo[k] = "delete"
        PROVE  k + 1 \in 1..Len(Top.todo) /\ Top.todo[k + 1] = "delete"
    BY <1>1, <2>1 DEF After
  <2>2. Has(g, "delete") => Has(Top, "delete") BY <2>1 DEF Has
  <2> QED BY <1>1, <2>2 DEF After
<1>2. CASE StartOp
  <2>1. ~Crash
    <3>1. /\ stack # <<>> /\ 1 \in 1..Len(Top.todo) /\ Top.todo[1] \in Operations
          /\ Crash => client = 0 \/ (Top.todo[1] = "delete" /\ Top.infos # infos)
      <4>1. Crash => crashed' = TRUE BY DEF Crash
      <4>2. /\ stack # <<>> /\ 1 \in 1..Len(Top.todo) /\ Top.todo[1] \in Operations
            /\ \/ Crash /\ (client = 0 \/ (Top.todo[1] = "delete" /\ Top.infos # infos))
               \/ crashed' = crashed
        BY <1>2, StartOpDoes
      <4> QED BY <1>n, <4>1, <4>2
    <3>2. Linked(Top) /\ Top.todo[1] # "renew" BY <1>a, <3>1 DEF Operations, Local, Asked, Twice
    <3>3. client # 0 BY <3>1, <3>2 DEF Linked
    <3>4. Top.todo[1] = "delete" => Top.infos = infos BY <3>1 DEF Spared, Has
    <3> QED BY <3>1, <3>3, <3>4
  <2>2. PICK g \in Frames : Turn(g) /\ g.todo = Top.todo /\ g.infos = Top.infos
    BY <1>2, <2>1, StartOpDoes
  <2>3. stack # <<>> /\ UNCHANGED <<session, crashed, infos>> BY <1>2, <2>1, StartOpDoes
  <2>4. Has(g, "delete") => Has(Top, "delete") BY <2>2 DEF Has
  <2> QED BY <1>n, <2>2, <2>3, <2>4, SparedOf
<1>3. CASE Orphan
  <2>1. stack # <<>> /\ Top.phase = "wait" /\ Top.client # client BY <1>3 DEF Orphan
  <2> QED BY <1>a, <2>1 DEF Linked
<1>4. CASE Answer
  <2>1. Mark /\ UNCHANGED <<session, crashed, infos>> BY <1>4, AnswerDoes
  <2> QED BY <1>n, <2>1, SparedOf
<1>5. CASE Return
  <2>1. PICK g \in Frames :
          /\ Turn(g) /\ g.infos = Top.infos
          /\ Has(g, "delete") => Has(Top, "delete") /\ Top.op \in {"cwd", "delete"}
    BY <1>5, ReturnDoes
  <2>2. /\ stack # <<>> /\ UNCHANGED <<session, crashed>>
        /\ infos' = IF Top.op = "getlist" /\ Top.ok THEN infos + 1 ELSE infos
    BY <1>5, ReturnDoes
  <2>3. Has(g, "delete") => Has(Top, "delete") /\ infos' = infos BY <2>1, <2>2
  <2> QED BY <1>n, <2>1, <2>2, <2>3, SparedOf
<1>6. CASE Again
  <2>1. PICK g \in Frames : Turn(g) /\ Known(g) /\ g.cmd = Top.cmd BY <1>6, AgainDoes
  <2>2. Top.cmd = "open" /\ UNCHANGED <<session, crashed>> BY <1>6, AgainDoes
  <2>3. Top' = g BY <2>1 DEF Turn
  <2>4. ~Has(g, "delete") BY <2>1, <2>2 DEF Has, Known, Ordered, Fits
  <2> QED BY <1>n, <2>2, <2>3, <2>4, SparedOf
<1>m. CASE RemAuth
  <2>1. 1 \in 1..Len(Top.todo) /\ Top.todo[1] = "auth" /\ stack # <<>> BY <1>m, RemAuthDoes
  <2>2. client # 0 BY <1>a, <2>1 DEF Linked
  <2>3. PICK g \in Frames : Turn(g) /\ Known(g) /\ g.cmd = "open" BY <1>m, <2>2, RemAuthDoes
  <2>4. UNCHANGED <<session, crashed>> BY <1>m, <2>2, RemAuthDoes
  <2>5. Top' = g BY <2>3 DEF Turn
  <2>6. ~Has(g, "delete") BY <2>3 DEF Has, Known, Ordered, Fits
  <2> QED BY <1>n, <2>4, <2>5, <2>6, SparedOf
<1>d. CASE Dialog
  <2>1. PICK g \in Frames : Turn(g) /\ Known(g) /\ g.cmd = "open" BY <1>d, DialogDoes
  <2>2. UNCHANGED <<session, crashed>> BY <1>d, DialogDoes
  <2>3. Top' = g BY <2>1 DEF Turn
  <2>4. ~Has(g, "delete") BY <2>1 DEF Has, Known, Ordered, Fits
  <2> QED BY <1>n, <2>2, <2>3, <2>4, SparedOf
<1>7. CASE ReadList
  <2>1. PICK g \in Frames : Turn(g) /\ ((g.todo = Top.todo /\ g.infos = Top.infos) \/ After(g, Top))
    BY <1>7, ReadListDoes
  <2>2. stack # <<>> /\ UNCHANGED <<session, crashed, infos>> BY <1>7, ReadListDoes
  <2>3. g.infos = Top.infos /\ (Has(g, "delete") => Has(Top, "delete"))
    BY <1>1, <2>1, <2>2 DEF Has
  <2> QED BY <1>n, <2>1, <2>2, <2>3, SparedOf
<1>8. CASE ClearAbort
  <2>1. /\ stack # <<>> /\ 1 \in 1..Len(Top.todo) /\ Top.todo[1] = "clear"
    BY <1>8, ClearAbortDoes
  <2>2. client # 0 BY <1>a, <2>1 DEF Linked
  <2>3. PICK g \in Frames : Turn(g) /\ ((g.todo = Top.todo /\ g.infos = Top.infos) \/ After(g, Top))
    BY <1>8, <2>2, ClearAbortDoes
  <2>4. UNCHANGED <<session, crashed, infos>> BY <1>8, <2>2, ClearAbortDoes
  <2>5. g.infos = Top.infos /\ (Has(g, "delete") => Has(Top, "delete"))
    BY <1>1, <2>1, <2>3 DEF Has
  <2> QED BY <1>n, <2>1, <2>3, <2>4, <2>5, SparedOf
<1>9. CASE AborReply
  <2>1. PICK g \in Frames : Turn(g) /\ After(g, Top) BY <1>9, AborReplyDoes
  <2>2. stack # <<>> /\ UNCHANGED <<session, crashed, infos>> BY <1>9, AborReplyDoes
  <2> QED BY <1>1, <1>n, <2>1, <2>2, SparedOf
<1>10. CASE Unlock
  <2>1. PICK g \in Frames : After(g, Top) /\ (TurnAndPush(g, CloseFrame) \/ Turn(g))
    BY <1>10, UnlockDoes
  <2>2. stack # <<>> /\ UNCHANGED <<session, crashed, infos>> BY <1>10, UnlockDoes
  <2>3. CASE TurnAndPush(g, CloseFrame)
    <3>1. Top' = CloseFrame BY <2>3 DEF TurnAndPush
    <3> QED BY <1>c, <1>n, <2>2, <3>1, SparedOf
  <2>4. CASE Turn(g) BY <1>1, <1>n, <2>1, <2>2, <2>4, SparedOf
  <2> QED BY <2>1, <2>3, <2>4
<1>11. CASE Load
  <2>1. PICK g \in Frames :
          /\ Len(g.todo) = 0
          /\ Turn(g) \/ \E h \in Frames : TurnAndPush(g, h) /\ ~Has(h, "delete")
    BY <1>11, LoadDoes
  <2>2. UNCHANGED <<session, crashed>> BY <1>11, LoadDoes
  <2>3. \E h : Top' = h /\ ~Has(h, "delete")
    <3>1. ~Has(g, "delete") BY <2>1 DEF Has
    <3> QED BY <2>1, <3>1 DEF Turn, TurnAndPush
  <2> QED BY <1>n, <2>2, <2>3, SparedOf
<1>12. CASE GiveUp
  <2>1. PICK g \in Frames : Len(g.todo) = 0 /\ (Turn(g) \/ TurnAndPush(g, CloseFrame))
    BY <1>12, GiveUpDoes
  <2>2. UNCHANGED <<session, crashed>> BY <1>12, GiveUpDoes
  <2>3. \E h : Top' = h /\ ~Has(h, "delete")
    <3>1. ~Has(g, "delete") BY <2>1 DEF Has
    <3> QED BY <1>c, <2>1, <3>1 DEF Turn, TurnAndPush
  <2> QED BY <1>n, <2>2, <2>3, SparedOf
<1>13. CASE Deleted \/ Leave
  <2>1. Pop /\ UNCHANGED <<session, crashed>> BY <1>13, DeletedDoes, LeaveDoes
  <2> QED BY <1>n, <2>1, SparedOf
<1>14. CASE Renew
  <2>1. UNCHANGED <<session, crashed, infos>> /\ stack # <<>> BY <1>14, RenewDoes
  <2>2. CASE UNCHANGED stack BY <1>n, <2>1, <2>2, SparedOf
  <2>3. CASE ~UNCHANGED stack
    <3>1. PICK g \in Frames : Turn(g) /\ After(g, Top) BY <1>14, <2>3, RenewDoes
    <3> QED BY <1>1, <1>n, <2>1, <3>1, SparedOf
  <2> QED BY <2>2, <2>3
<1>15. CASE MachineCloses \/ UserCloses
  <2>1. CmCloseConnection(stack) /\ UNCHANGED <<session, crashed, infos>>
    BY <1>15 DEF MachineCloses, UserCloses
  <2>2. UNCHANGED stack \/ Push(CloseFrame) BY <2>1, ClosesDoes
  <2>3. CASE UNCHANGED stack BY <1>n, <2>1, <2>3, SparedOf
  <2>4. CASE Push(CloseFrame)
    <3>1. Top' = CloseFrame BY <2>4 DEF Push
    <3> QED BY <1>c, <1>n, <2>1, <3>1, SparedOf
  <2> QED BY <2>2, <2>3, <2>4
<1>16. ASSUME NEW c \in Locking \cup Unlocked, Give(c) PROVE Spared'
  <2>1. c \in session.commands /\ UNCHANGED <<session, crashed>> BY <1>16, GiveDoes
  <2>2. CASE UNCHANGED stack /\ c = "refresh"
    <3>1. ~(stack # <<>> /\ Has(Top, "delete")) BY <2>1, <2>2 DEF Spared
    <3> QED BY <1>n, <2>1, <2>2, <3>1, SparedOf
  <2>3. CASE ~(UNCHANGED stack /\ c = "refresh")
    <3>1. PICK h \in Frames : Push(h) /\ Known(h) /\ h.cmd = c /\ h.infos = infos'
      BY <1>16, <2>3, GiveDoes
    <3>2. Top' = h BY <3>1 DEF Push
    <3>3. CASE c = "delete"
      <4>1. Top'.infos = infos' /\ "delete" \in session'.commands BY <2>1, <3>1, <3>2, <3>3
      <4> QED BY <1>n, <2>1, <4>1 DEF Spared
    <3>4. CASE c # "delete"
      <4>1. ~Has(h, "delete") BY <3>1, <3>4 DEF Has, Known, Ordered, Fits
      <4> QED BY <1>n, <2>1, <3>2, <4>1, SparedOf
    <3> QED BY <3>3, <3>4
  <2> QED BY <2>2, <2>3
<1>17. CASE Stop \/ Arrive \/ Drop
  <2>1. UNCHANGED <<session, stack, crashed, infos>> BY <1>17 DEF Stop, Arrive, Drop, window
  <2> QED BY <1>n, <2>1, SparedOf
<1>18. CASE Prompt \/ Second \/ Ask \/ Transfer \/ Retry \/ Failed
  <2>1. Mark /\ UNCHANGED <<session, crashed, infos>>
    BY <1>18, PromptDoes, SecondDoes, TellsDoes DEF Result
  <2> QED BY <1>n, <2>1, SparedOf
<1>19. CASE Check \/ Prompted \/ Reset \/ Greeting \/ Drain
  <2>1. UNCHANGED <<session, stack, crashed, infos>>
    BY <1>19 DEF Check, Prompted, Reset, Greeting, Drain, window
  <2> QED BY <1>n, <2>1, SparedOf
<1> QED
  BY <1>2, <1>3, <1>4, <1>5, <1>6, <1>7, <1>8, <1>9, <1>10, <1>11, <1>12, <1>13, <1>14, <1>15, <1>16, <1>17,
     <1>18, <1>19, <1>m, <1>d
  DEF Next, Windows, Machines, Users

-----------------------------------------------------------------------------
(* The machine and the command it serves *)

\* A result that is set is the operation's own, and never bad news of a local one.
Sure(f) ==
  f.phase = "wait" /\ f.done => f.by = f.op /\ (f.op \in Local => f.ok)

\* The command that waits is the last one, or the one below a close.
LEMMA WaitsLast ==
  ASSUME Rested, NEW n \in 1..Len(stack), stack[n].phase = "wait", n # Len(stack)
  PROVE  Top.cmd = "close"
<1>1. ~Over(stack[n]) BY DEF Over
<1> QED BY <1>1 DEF Rested, Live

LEMMA ServingOf ==
  ASSUME Base, Serving, at' \notin Working \/ UNCHANGED <<at, cb, newCommand, job>>
  PROVE  /\ \A g : /\ Turn(g) /\ Sure(g)
                   /\ at' \in Working => Top.phase # "wait"
                   => Serving'
         /\ \A h : Push(h) /\ h.phase # "wait" => Serving'
         /\ \A g, h : TurnAndPush(g, h) /\ g.phase # "wait" /\ h.phase # "wait" /\ Top.phase # "wait" => Serving'
         /\ Pop /\ stack # <<>> /\ Top.phase # "wait" => Serving'
         /\ /\ Mark
            /\ \A n \in 1..Len(stack) : /\ stack'[n].done = stack[n].done /\ stack'[n].ok = stack[n].ok
                                        /\ stack'[n].by = stack[n].by
            => Serving'
         /\ UNCHANGED stack => Serving'
<1>0. Len(stack) \in Nat /\ \A n \in 1..Len(stack) : Sure(stack[n])
  BY DEF Base, Types, Serving, Sure
\* It is enough that the command served is the same.
<1>1. ASSUME at' \in Working => cb \in 1..Len(stack') /\ stack'[cb] = stack[cb],
             \A n \in 1..Len(stack') : Sure(stack'[n])
      PROVE  Serving'
  <2>1. CASE at' \notin Working BY <1>1, <2>1 DEF Serving, Sure, Working
  <2>2. CASE at' \in Working
    <3>1. UNCHANGED <<at, cb, newCommand, job>> BY <2>2
    <3>2. /\ Serves /\ stack[cb].op = job /\ newCommand
          /\ IF at \in Told THEN stack[cb].done ELSE ~stack[cb].done
          /\ at \in {"prompt", "answer", "failed"} => job = "login"
      BY <2>2, <3>1 DEF Serving
    <3>3. Serves' BY <1>1, <2>2, <3>1, <3>2 DEF Serves
    <3>4. /\ stack'[cb'].op = job' /\ newCommand'
          /\ at' \in {"prompt", "answer", "failed"} => job' = "login"
      BY <1>1, <2>2, <3>1, <3>2
    <3>5. IF at' \in Told THEN stack'[cb'].done ELSE ~stack'[cb'].done
      <4>1. at' = at /\ stack'[cb'] = stack[cb] BY <1>1, <2>2, <3>1
      <4> QED BY <3>2, <4>1, Zenon
    <3> QED BY <1>1, <3>3, <3>4, <3>5 DEF Serving, Sure
  <2> QED BY <2>1, <2>2
<1>2. at' \in Working => cb \in 1..Len(stack) /\ stack[cb].phase = "wait" BY DEF Serving, Serves
<1>3. ASSUME NEW g, Turn(g), Sure(g), at' \in Working => Top.phase # "wait" PROVE Serving'
  <2>1. at' \in Working => cb \in 1..(Len(stack) - 1)
    <3>1. at' \in Working => cb # Len(stack) BY <1>2, <1>3 DEF Top
    <3> QED BY <1>0, <1>2, <3>1
  <2>2. ASSUME NEW n \in 1..Len(stack') PROVE Sure(stack'[n])
    <3>1. CASE n = Len(stack') BY <1>3, <3>1 DEF Turn, Top
    <3>2. CASE n # Len(stack')
      <4>1. n \in 1..(Len(stack) - 1) /\ n \in 1..Len(stack) BY <1>3, <3>2 DEF Turn
      <4> QED BY <1>0, <1>3, <4>1 DEF Turn
    <3> QED BY <3>1, <3>2
  <2>3. at' \in Working => cb \in 1..Len(stack') /\ stack'[cb] = stack[cb]
    BY <1>3, <2>1 DEF Turn
  <2> QED BY <1>1, <2>2, <2>3
<1>4. ASSUME NEW h, Push(h), h.phase # "wait" PROVE Serving'
  <2>1. ASSUME NEW n \in 1..Len(stack') PROVE Sure(stack'[n])
    <3>1. CASE n = Len(stack') BY <1>4, <3>1 DEF Push, Top, Sure
    <3>2. CASE n # Len(stack')
      <4>1. n \in 1..Len(stack) BY <1>4, <3>2 DEF Push
      <4> QED BY <1>0, <1>4, <4>1 DEF Push
    <3> QED BY <3>1, <3>2
  <2>2. at' \in Working => cb \in 1..Len(stack') /\ stack'[cb] = stack[cb]
    BY <1>2, <1>4 DEF Push
  <2> QED BY <1>1, <2>1, <2>2
<1>5. ASSUME NEW g, NEW h, TurnAndPush(g, h), g.phase # "wait", h.phase # "wait", Top.phase # "wait"
      PROVE  Serving'
  <2>1. at' \in Working => cb \in 1..(Len(stack) - 1)
    <3>1. at' \in Working => cb # Len(stack) BY <1>2, <1>5 DEF Top
    <3> QED BY <1>0, <1>2, <3>1
  <2>2. ASSUME NEW n \in 1..Len(stack') PROVE Sure(stack'[n])
    <3>1. CASE n = Len(stack') BY <1>5, <3>1 DEF TurnAndPush, Top, Sure
    <3>2. CASE n = Len(stack) BY <1>5, <3>2 DEF TurnAndPush, Sure
    <3>3. CASE n # Len(stack') /\ n # Len(stack)
      <4>1. n \in 1..(Len(stack) - 1) /\ n \in 1..Len(stack) BY <1>5, <3>3 DEF TurnAndPush
      <4> QED BY <1>0, <1>5, <4>1 DEF TurnAndPush
    <3> QED BY <3>1, <3>2, <3>3
  <2>3. at' \in Working => cb \in 1..Len(stack') /\ stack'[cb] = stack[cb]
    BY <1>5, <2>1 DEF TurnAndPush
  <2> QED BY <1>1, <2>2, <2>3
<1>6. ASSUME Pop, stack # <<>>, Top.phase # "wait" PROVE Serving'
  <2>1. at' \in Working => cb \in 1..(Len(stack) - 1)
    <3>1. at' \in Working => cb # Len(stack) BY <1>2, <1>6 DEF Top
    <3> QED BY <1>0, <1>2, <3>1
  <2>2. ASSUME NEW n \in 1..Len(stack') PROVE Sure(stack'[n])
    <3>1. n \in 1..(Len(stack) - 1) /\ n \in 1..Len(stack) BY <1>6 DEF Pop
    <3> QED BY <1>0, <1>6, <3>1 DEF Pop
  <2>3. at' \in Working => cb \in 1..Len(stack') /\ stack'[cb] = stack[cb] BY <1>6, <2>1 DEF Pop
  <2> QED BY <1>1, <2>2, <2>3
<1>7. ASSUME Mark,
             \A n \in 1..Len(stack) : /\ stack'[n].done = stack[n].done /\ stack'[n].ok = stack[n].ok
                                      /\ stack'[n].by = stack[n].by
      PROVE  Serving'
  <2>1. ASSUME NEW n \in 1..Len(stack') PROVE Sure(stack'[n])
    <3>1. n \in 1..Len(stack) BY <1>7 DEF Mark
    <3>2. stack'[n].phase = stack[n].phase /\ stack'[n].op = stack[n].op BY <1>7, <3>1 DEF Mark
    <3>3. /\ stack'[n].done = stack[n].done /\ stack'[n].ok = stack[n].ok
          /\ stack'[n].by = stack[n].by /\ Sure(stack[n])
      BY <1>0, <1>7, <3>1
    <3> QED BY <3>2, <3>3, Zenon DEF Sure
  <2>2. CASE at' \notin Working BY <2>1, <2>2 DEF Serving, Sure, Working
  <2>3. CASE at' \in Working
    <3>1. UNCHANGED <<at, cb, newCommand, job>> BY <2>3
    <3>2. /\ Serves /\ stack[cb].op = job /\ newCommand
          /\ IF at \in Told THEN stack[cb].done ELSE ~stack[cb].done
          /\ at \in {"prompt", "answer", "failed"} => job = "login"
      BY <2>3, <3>1 DEF Serving
    <3>3. cb \in 1..Len(stack) BY <1>2, <2>3
    <3>4. Serves' /\ stack'[cb'].op = job' BY <1>7, <3>1, <3>2, <3>3 DEF Serves, Mark
    <3>5. newCommand' /\ (at' \in {"prompt", "answer", "failed"} => job' = "login")
      BY <3>1, <3>2
    <3>6. stack'[cb].done = stack[cb].done BY <1>7, <3>3
    <3>7. IF at' \in Told THEN stack'[cb'].done ELSE ~stack'[cb'].done
      <4>1. at' = at /\ cb' = cb BY <3>1
      <4> QED BY <3>2, <3>6, <4>1, Zenon
    <3> QED BY <2>1, <3>4, <3>5, <3>7 DEF Serving, Sure
  <2> QED BY <2>2, <2>3
<1>8. ASSUME UNCHANGED stack PROVE Serving'
  <2>1. Len(stack') = Len(stack) /\ \A n \in 1..Len(stack) : stack'[n] = stack[n] BY <1>8
  <2>2. \A n \in 1..Len(stack') : Sure(stack'[n]) BY <1>0, <2>1
  <2>3. at' \in Working => cb \in 1..Len(stack') /\ stack'[cb] = stack[cb] BY <1>2, <2>1
  <2> QED BY <1>1, <2>2, <2>3
<1> QED BY <1>3, <1>4, <1>5, <1>6, <1>7, <1>8

LEMMA ServingNext ==
  ASSUME Base, Pending, Rested, Calm, ~crashed, Serving, Next, ~crashed'
  PROVE  Serving'
<1> USE DEF machine
<1>0. /\ Len(stack) \in Nat /\ \A n \in 1..Len(stack) : Sure(stack[n])
      /\ session.patient /\ session.calm
  BY DEF Base, Types, Serving, Sure, Calm
<1>1. \A g : g.phase # "wait" => Sure(g) BY DEF Sure
\* While the machine works, the last command waits, or it is a close.
<1>2. at \in Working => cb \in 1..Len(stack) /\ (cb # Len(stack) => Top.cmd = "close")
                        /\ (cb = Len(stack) => Top.phase = "wait")
  BY WaitsLast DEF Serving, Serves, Top
<1>3. CloseFrame.phase # "wait" BY CloseFrameFacts DEF Base, Types
<1>4. CASE StartOp
  <2>1. ~Crash BY DEF Crash
  <2>2. PICK g \in Frames : Turn(g) /\ g.phase = "wait" /\ ~g.done BY <1>4, <2>1, StartOpDoes
  <2>3. Top.phase = "next" /\ Top.cmd # "close" /\ at' = at BY <1>4, <2>1, StartOpDoes
  <2>4. at' \notin Working BY <1>2, <2>3
  <2>5. Sure(g) BY <2>2 DEF Sure
  <2> QED BY <2>2, <2>4, <2>5, ServingOf
<1>5. CASE Orphan BY <1>5 DEF Orphan, Crash
<1>6. CASE Answer BY <1>6, AnswerDoes, ServingOf
<1>7. CASE Return
  <2>1. PICK g \in Frames : Turn(g) /\ g.phase = "next" BY <1>7, ReturnDoes
  <2>2. /\ Known(Top) /\ Top.phase = "wait" /\ Top.done /\ at \notin Told
        /\ UNCHANGED <<at, cb, newCommand, job>>
    BY <1>0, <1>7, ReturnDoes DEF Told
  <2>3. at \notin Working
    <3>1. ASSUME at \in Working PROVE FALSE
      <4>1. Top.cmd # "close" BY <2>2 DEF Known
      <4>2. cb = Len(stack) BY <1>2, <3>1, <4>1
      <4>3. ~stack[cb].done BY <2>2, <3>1 DEF Serving
      <4>4. Top = stack[cb] BY <4>2 DEF Top
      <4> QED BY <2>2, <4>3, <4>4, Zenon
    <3> QED BY <3>1
  <2>4. Sure(g) BY <1>1, <2>1
  <2> QED BY <2>1, <2>2, <2>3, <2>4, ServingOf
\* The last command goes on, and has not waited.
<1>8. ASSUME NEW g, Turn(g), g.phase # "wait", Top.phase # "wait",
             at' \notin Working \/ UNCHANGED <<at, cb, newCommand, job>>
      PROVE  Serving'
  <2>1. Sure(g) BY <1>1, <1>8
  <2> QED BY <1>8, <2>1, ServingOf
<1>9. CASE Again
  <2>1. \E g \in Frames : Turn(g) /\ g.phase # "wait" BY <1>9, AgainDoes
  <2>2. Top.phase # "wait" /\ UNCHANGED <<at, cb, newCommand, job>> BY <1>9, AgainDoes
  <2> QED BY <1>8, <2>1, <2>2
<1>m. CASE RemAuth
  <2>1. UNCHANGED stack \/ \E g \in Frames : Turn(g) /\ g.phase # "wait" BY <1>m, RemAuthDoes
  <2>2. Top.phase # "wait" /\ UNCHANGED <<at, cb, newCommand, job>> BY <1>m, RemAuthDoes
  <2>3. UNCHANGED stack => Serving' BY <2>2, ServingOf
  <2> QED BY <1>8, <2>1, <2>2, <2>3
<1>d. CASE Dialog
  <2>1. \E g \in Frames : Turn(g) /\ g.phase # "wait" BY <1>d, DialogDoes
  <2>2. Top.phase # "wait" /\ UNCHANGED <<at, cb, newCommand, job>> BY <1>d, DialogDoes
  <2> QED BY <1>8, <2>1, <2>2
<1>10. CASE ReadList
  <2>1. \E g \in Frames : Turn(g) /\ g.phase # "wait" BY <1>10, ReadListDoes DEF After
  <2>2. Top.phase # "wait" /\ UNCHANGED <<at, cb, newCommand, job>> BY <1>10, ReadListDoes
  <2> QED BY <1>8, <2>1, <2>2
<1>11. CASE ClearAbort
  <2>1. ~Crash BY DEF Crash
  <2>2. \E g \in Frames : Turn(g) /\ g.phase # "wait" BY <1>11, <2>1, ClearAbortDoes DEF After
  <2>3. Top.phase # "wait" /\ UNCHANGED <<at, cb, newCommand, job>>
    BY <1>11, <2>1, ClearAbortDoes
  <2> QED BY <1>8, <2>2, <2>3
<1>12. CASE AborReply
  <2>1. \E g \in Frames : Turn(g) /\ g.phase # "wait" BY <1>12, AborReplyDoes DEF After
  <2>2. Top.phase # "wait" /\ UNCHANGED <<at, cb, newCommand, job>> BY <1>12, AborReplyDoes
  <2> QED BY <1>8, <2>1, <2>2
<1>13. CASE Unlock
  <2>1. PICK g \in Frames : After(g, Top) /\ (TurnAndPush(g, CloseFrame) \/ Turn(g))
    BY <1>13, UnlockDoes
  <2>2. Top.phase # "wait" /\ UNCHANGED <<at, cb, newCommand, job>> BY <1>13, UnlockDoes
  <2>3. g.phase # "wait" BY <2>1 DEF After
  <2>4. TurnAndPush(g, CloseFrame) => Serving' BY <1>3, <2>2, <2>3, ServingOf
  <2> QED BY <1>8, <2>1, <2>2, <2>3, <2>4
<1>14. CASE Load
  <2>1. PICK g \in Frames :
          g.phase # "wait" /\ (Turn(g) \/ \E h \in Frames : TurnAndPush(g, h) /\ h.phase # "wait")
    BY <1>14, LoadDoes
  <2>2. Top.phase # "wait" /\ UNCHANGED <<at, cb, newCommand, job>> BY <1>14, LoadDoes
  <2>3. (\E h \in Frames : TurnAndPush(g, h) /\ h.phase # "wait") => Serving'
    BY <2>1, <2>2, ServingOf
  <2> QED BY <1>8, <2>1, <2>2, <2>3
<1>15. CASE GiveUp
  <2>1. PICK g \in Frames : g.phase # "wait" /\ (Turn(g) \/ TurnAndPush(g, CloseFrame))
    BY <1>15, GiveUpDoes
  <2>2. Top.phase # "wait" /\ UNCHANGED <<at, cb, newCommand, job>> BY <1>15, GiveUpDoes
  <2>3. TurnAndPush(g, CloseFrame) => Serving' BY <1>3, <2>1, <2>2, ServingOf
  <2> QED BY <1>8, <2>1, <2>2, <2>3
<1>16. CASE Deleted
  <2>1. stack # <<>> /\ Pop /\ UNCHANGED <<at, cb, newCommand, job>> BY <1>16, DeletedDoes
  <2>2. Top.phase # "wait" BY <1>16 DEF Deleted
  <2> QED BY <2>1, <2>2, ServingOf
<1>17. CASE Leave
  <2>1. stack # <<>> /\ Top.phase # "wait" /\ Pop /\ UNCHANGED <<at, cb, newCommand, job>>
    BY <1>17, LeaveDoes
  <2> QED BY <2>1, ServingOf
<1>18. CASE Renew
  <2>1. Top.phase # "wait" BY <1>18, RenewDoes
  <2>2. CASE at # "ended"
    <3>1. UNCHANGED <<stack, at, cb, newCommand, job>> BY <1>18, <2>2, RenewDoes
    <3> QED BY <3>1, ServingOf
  <2>3. CASE at = "ended"
    <3>1. at' \notin Working BY <1>18, <2>3, RenewDoes DEF Working
    <3>2. \E g \in Frames : Turn(g) /\ g.phase # "wait" BY <1>18, <2>3, RenewDoes DEF After
    <3> QED BY <1>8, <2>1, <3>1, <3>2
  <2> QED BY <2>2, <2>3
<1>19. CASE MachineCloses \/ UserCloses
  <2>1. CmCloseConnection(stack) /\ UNCHANGED <<at, cb, newCommand, job>>
    BY <1>19 DEF MachineCloses, UserCloses
  <2>2. UNCHANGED stack \/ Push(CloseFrame) BY <2>1, ClosesDoes
  <2> QED BY <1>3, <2>1, <2>2, ServingOf
<1>20. ASSUME NEW c \in Locking \cup Unlocked, Give(c) PROVE Serving'
  <2>1. UNCHANGED stack \/ \E h \in Frames : Push(h) /\ h.phase # "wait" BY <1>20, GiveDoes
  <2>2. UNCHANGED <<at, cb, newCommand, job>> BY <1>20, GiveDoes
  <2> QED BY <2>1, <2>2, ServingOf
<1>21. CASE Stop \/ Arrive \/ Drop
  <2>1. UNCHANGED <<stack, at, cb, newCommand, job>> BY <1>21 DEF Stop, Arrive, Drop, window
  <2> QED BY <2>1, ServingOf
<1>22. CASE Greeting \/ Drain \/ Reset
  <2>1. UNCHANGED stack /\ at' \notin Working
    BY <1>22 DEF Greeting, Drain, Reset, EndRun, window, Working
  <2> QED BY <2>1, ServingOf
<1>23. CASE Check
  <2>1. UNCHANGED <<stack, cb, newCommand>> BY <1>23 DEF Check, window
  <2>2. \A n \in 1..Len(stack') : Sure(stack'[n]) BY <1>0, <2>1
  <2>3. CASE ~newCommand
    <3>1. at' \notin Working BY <1>23, <2>3 DEF Check, Working
    <3> QED BY <2>1, <3>1, ServingOf
  <2>4. CASE newCommand
    <3>1. at = "check" /\ at' = "exec" /\ job' = stack[cb].op BY <1>23, <2>4 DEF Check
    <3>2. Serves /\ ~stack[cb].done BY <2>4, <3>1 DEF Pending
    <3>3. Serves' /\ ~stack'[cb'].done BY <2>1, <3>2 DEF Serves
    <3> QED BY <2>1, <2>2, <2>4, <3>1, <3>3 DEF Serving, Sure, Told
  <2> QED BY <2>3, <2>4
\* The machine goes on, and its command is only marked.
<1>24. CASE Prompt
  <2>1. /\ Mark /\ at = "exec" /\ job = "login" /\ at' = "prompt"
        /\ \A n \in 1..Len(stack) : /\ stack'[n].done = stack[n].done /\ stack'[n].ok = stack[n].ok
                                    /\ stack'[n].by = stack[n].by
        /\ UNCHANGED <<cb, newCommand, job>>
    BY <1>24, PromptDoes
  <2>2. Serves /\ stack[cb].op = job /\ newCommand /\ ~stack[cb].done
    BY <2>1 DEF Serving, Working, Told
  <2>3. cb \in 1..Len(stack) BY <2>2 DEF Serves
  <2>4. Serves' /\ stack'[cb'].op = job' BY <2>1, <2>2, <2>3 DEF Serves, Mark
  <2>5. ~stack'[cb'].done
    <3>1. stack'[cb].done = stack[cb].done /\ cb' = cb BY <2>1, <2>3
    <3> QED BY <2>2, <3>1, Zenon
  <2>6. ASSUME NEW n \in 1..Len(stack') PROVE Sure(stack'[n])
    <3>1. n \in 1..Len(stack) BY <2>1 DEF Mark
    <3>2. stack'[n].phase = stack[n].phase /\ stack'[n].op = stack[n].op BY <2>1, <3>1 DEF Mark
    <3>3. /\ stack'[n].done = stack[n].done /\ stack'[n].ok = stack[n].ok
          /\ stack'[n].by = stack[n].by /\ Sure(stack[n])
      BY <1>0, <2>1, <3>1
    <3> QED BY <3>2, <3>3, Zenon DEF Sure
  <2> QED BY <2>1, <2>2, <2>4, <2>5, <2>6 DEF Serving, Sure, Told
<1>25. CASE Prompted
  <2>1. at = "prompt" /\ at' = "answer" /\ UNCHANGED <<stack, cb, newCommand, job>>
    BY <1>25 DEF Prompted, window
  <2>2. Serves /\ stack[cb].op = job /\ newCommand /\ ~stack[cb].done /\ job = "login"
    BY <2>1 DEF Serving, Working, Told
  <2>3. Serves' /\ ~stack'[cb'].done BY <2>1, <2>2 DEF Serves
  <2>4. \A n \in 1..Len(stack') : Sure(stack'[n]) BY <1>0, <2>1
  <2> QED BY <2>1, <2>2, <2>3, <2>4 DEF Serving, Sure, Told
<1>26. CASE Ask \/ Transfer \/ Retry \/ Failed
  <2>1. /\ at \in Working /\ at' \in Told /\ (at' = "failed" => job = "login")
        /\ UNCHANGED <<cb, newCommand, job>>
    BY <1>26, TellsDoes DEF Working, Told
  <2>2. PICK ok \in BOOLEAN : Result(ok) /\ (job \in Local => ok \/ at = "failed")
    BY <1>26, TellsDoes
  <2>3. /\ Serves /\ stack[cb].op = job /\ newCommand
        /\ at = "failed" => job = "login"
    BY <2>1 DEF Serving
  <2>4. cb \in 1..Len(stack) BY <2>3 DEF Serves
  <2>5. Serves' /\ stack'[cb].op = job /\ Len(stack') = Len(stack)
    BY <2>1, <2>2, <2>3, <2>4 DEF Serves, Result, Mark
  <2>6. stack'[cb].done /\ (stack'[cb].ok <=> ok) /\ stack'[cb].by = job
    BY <2>2, <2>3 DEF Result
  <2>7. job \in Local => ok
    <3>1. "login" \notin Local BY DEF Local
    <3> QED BY <2>2, <2>3, <3>1
  <2>8. Sure(stack'[cb]) BY <2>5, <2>6, <2>7 DEF Sure
  <2>9. ASSUME NEW n \in 1..Len(stack') PROVE Sure(stack'[n])
    <3>1. CASE n = cb BY <2>8, <3>1
    <3>2. CASE n # cb BY <1>0, <2>2, <2>5, <3>2 DEF Result
    <3> QED BY <3>1, <3>2
  <2>10. at' \in Working /\ at' \notin {"prompt", "answer"} BY <2>1 DEF Told, Working
  <2>11. IF at' \in Told THEN stack'[cb'].done ELSE ~stack'[cb'].done
    <3>1. cb' = cb BY <2>1
    <3> QED BY <2>1, <2>6, <3>1, Zenon
  <2>12. newCommand' /\ stack'[cb'].op = job' BY <2>1, <2>3, <2>5
  <2> QED BY <2>1, <2>5, <2>9, <2>10, <2>11, <2>12 DEF Serving, Sure
<1>27. CASE Second
  <2>1. /\ Mark /\ at = "second" /\ at' = "reset"
        /\ \A n \in 1..Len(stack) : stack'[n].ok = stack[n].ok /\ stack'[n].by = stack[n].by
        /\ \A n \in 1..Len(stack) : n # cb => stack'[n] = stack[n]
        /\ UNCHANGED <<cb, newCommand, job>>
        /\ stack' = [stack EXCEPT ![cb].done = TRUE] \/ stack' = stack
    <3>1. stack' = [stack EXCEPT ![cb].done = TRUE] \/ stack' = stack BY <1>27, Zenon DEF Second
    <3> QED BY <1>27, <3>1, SecondDoes
  <2>2. Serves /\ stack[cb].op = job /\ newCommand /\ stack[cb].done
    BY <2>1 DEF Serving, Working, Told
  <2>3. cb \in 1..Len(stack) BY <2>2 DEF Serves
  <2>4. Serves' /\ stack'[cb].op = job /\ Len(stack') = Len(stack)
    BY <2>1, <2>2, <2>3 DEF Serves, Mark
  <2>5. stack'[cb].done
    <3>1. CASE stack' = stack BY <2>2, <3>1, Zenon
    <3>2. CASE stack' = [stack EXCEPT ![cb].done = TRUE]
      <4>1. \A T : [stack EXCEPT ![cb].done = T][cb].done = T
        <5>1. stack[cb] \in Frames BY <2>3, ElementOfSeq DEF Base, Types
        <5>2. stack \in Seq(Frames) BY DEF Base, Types
        <5> QED BY <2>3, <5>1, <5>2 DEF Frames
      <4> QED BY <3>2, <4>1, Zenon
    <3> QED BY <2>1, <3>1, <3>2
  <2>6. ASSUME NEW n \in 1..Len(stack') PROVE Sure(stack'[n])
    <3>1. CASE n = cb
      <4>1. stack[cb].by = stack[cb].op /\ (stack[cb].op \in Local => stack[cb].ok)
        BY <1>0, <2>2, <2>3 DEF Sure, Serves
      <4>2. stack'[cb].ok = stack[cb].ok /\ stack'[cb].by = stack[cb].by BY <2>1, <2>3
      <4>3. stack'[cb].op = stack[cb].op BY <2>2, <2>4
      <4> QED BY <3>1, <4>1, <4>2, <4>3, Zenon DEF Sure
    <3>2. CASE n # cb BY <1>0, <2>1, <2>4, <3>2
    <3> QED BY <3>1, <3>2
  <2>7. stack'[cb'].done BY <2>1, <2>5
  <2> QED BY <2>1, <2>2, <2>4, <2>6, <2>7 DEF Serving, Sure, Told
<1> QED
  BY <1>4, <1>5, <1>6, <1>7, <1>9, <1>10, <1>11, <1>12, <1>13, <1>14, <1>15, <1>16, <1>17, <1>18, <1>19,
     <1>20, <1>21, <1>22, <1>23, <1>24, <1>25, <1>26, <1>27, <1>m, <1>d
  DEF Next, Windows, Machines, Users

-----------------------------------------------------------------------------
(* A stop meets the download only *)

\* What is to be shown of the last command in the next state
Heeded(f) ==
  /\ ~closing'
  /\ lock' => Holds(f)
  /\ abort' \/ cancel' => f.cmd = "get" /\ Has(f, "clear")
  /\ f.phase = "abor" => ~abort'

LEMMA StoppedOf ==
  ASSUME Base, Stopped
  PROVE  /\ \A g : Turn(g) /\ Heeded(g) => Stopped'
         /\ \A h : Push(h) /\ stack = <<>> /\ Heeded(h) => Stopped'
         /\ \A g, h : TurnAndPush(g, h) /\ g.cmd # "get" /\ Heeded(h) => Stopped'
         /\ Pop /\ ~closing' /\ ~lock' /\ ~abort' /\ ~cancel' => Stopped'
         /\ /\ Mark \/ UNCHANGED stack
            /\ ~closing' /\ (lock' => lock) /\ (abort' => abort) /\ (cancel' => cancel)
            => Stopped'
<1>0. /\ Len(stack) \in Nat /\ stack \in Seq(Frames)
      /\ \A n \in 1..Len(stack) : n # Len(stack) => stack[n].cmd # "get"
  BY DEF Base, Types, Stopped
<1>1. ASSUME NEW f, stack' # <<>>, Top' = f, Heeded(f),
             \A n \in 1..Len(stack') : n # Len(stack') => stack'[n].cmd # "get"
      PROVE  Stopped'
  <2>1. /\ Holds(Top)' <=> Holds(f)
        /\ Has(Top, "clear")' <=> Has(f, "clear")
    BY <1>1 DEF Holds, Has
  <2> QED BY <1>1, <2>1 DEF Stopped, Heeded
<1>2. ASSUME NEW g, Turn(g), Heeded(g) PROVE Stopped'
  <2>1. stack' # <<>> /\ Top' = g BY <1>2 DEF Turn
  <2>2. ASSUME NEW n \in 1..Len(stack'), n # Len(stack') PROVE stack'[n].cmd # "get"
    <3>1. n \in 1..(Len(stack) - 1) /\ n \in 1..Len(stack) /\ n # Len(stack)
      BY <1>2, <2>2 DEF Turn
    <3> QED BY <1>0, <1>2, <3>1 DEF Turn
  <2> QED BY <1>1, <1>2, <2>1, <2>2
<1>3. ASSUME NEW h, Push(h), stack = <<>>, Heeded(h) PROVE Stopped'
  <2>1. stack' # <<>> /\ Top' = h /\ Len(stack') = 1 BY <1>3 DEF Push
  <2>2. \A n \in 1..Len(stack') : n = Len(stack') BY <2>1
  <2> QED BY <1>1, <1>3, <2>1, <2>2
<1>4. ASSUME NEW g, NEW h, TurnAndPush(g, h), g.cmd # "get", Heeded(h) PROVE Stopped'
  <2>1. stack' # <<>> /\ Top' = h BY <1>4 DEF TurnAndPush
  <2>2. ASSUME NEW n \in 1..Len(stack'), n # Len(stack') PROVE stack'[n].cmd # "get"
    <3>1. CASE n = Len(stack) BY <1>4, <3>1 DEF TurnAndPush
    <3>2. CASE n # Len(stack)
      <4>1. n \in 1..(Len(stack) - 1) /\ n \in 1..Len(stack) BY <1>4, <2>2, <3>2 DEF TurnAndPush
      <4> QED BY <1>0, <1>4, <3>2, <4>1 DEF TurnAndPush
    <3> QED BY <3>1, <3>2
  <2> QED BY <1>1, <1>4, <2>1, <2>2
<1>5. ASSUME Pop, ~closing', ~lock', ~abort', ~cancel' PROVE Stopped'
  <2>1. ASSUME NEW n \in 1..Len(stack') PROVE stack'[n].cmd # "get"
    <3>1. n \in 1..(Len(stack) - 1) /\ n \in 1..Len(stack) /\ n # Len(stack) BY <1>5 DEF Pop
    <3> QED BY <1>0, <1>5, <3>1 DEF Pop
  <2> QED BY <1>5, <2>1 DEF Stopped
<1>6. ASSUME Mark \/ UNCHANGED stack, ~closing', lock' => lock, abort' => abort, cancel' => cancel
      PROVE  Stopped'
  <2>1. /\ Len(stack') = Len(stack) /\ stack' \in Seq(Frames)
        /\ \A n \in 1..Len(stack) : /\ stack'[n].cmd = stack[n].cmd /\ stack'[n].todo = stack[n].todo
                                    /\ stack'[n].phase = stack[n].phase
    BY <1>0, <1>6 DEF Mark
  <2>2. \A n \in 1..Len(stack') : n # Len(stack') => stack'[n].cmd # "get" BY <1>0, <2>1
  <2>3. CASE stack = <<>>
    <3>1. Len(stack') = 0 BY <2>1, <2>3
    <3>2. stack' = <<>> BY <2>1, <3>1, EmptySeq
    <3> QED BY <1>6, <2>2, <2>3, <3>2 DEF Stopped
  <2>4. CASE stack # <<>>
    <3>1. Len(stack) \in 1..Len(stack) BY <2>4, TopFacts
    <3>2. stack' # <<>>
      <4>1. Len(stack') # 0 BY <2>1, <3>1
      <4> QED BY <4>1
    <3> DEFINE f == Top'
    <3>3. f.cmd = Top.cmd /\ f.todo = Top.todo /\ f.phase = Top.phase /\ Top' = f
      BY <2>1, <3>1 DEF Top
    <3> HIDE DEF f
    <3>4. /\ Holds(f) <=> Holds(Top)
          /\ Has(f, "clear") <=> Has(Top, "clear")
      BY <3>3 DEF Holds, Has
    <3>5. Heeded(f) BY <1>6, <2>4, <3>3, <3>4 DEF Heeded, Stopped
    <3> QED BY <1>1, <2>2, <3>2, <3>3, <3>5
  <2> QED BY <2>3, <2>4
<1> QED BY <1>2, <1>3, <1>4, <1>5, <1>6

LEMMA StoppedNext ==
  ASSUME Base, Rested, Alive, StopsAreOfGet, ~crashed => Serving, Stopped, Next
  PROVE  Stopped'
<1>0. /\ Len(stack) \in Nat /\ posted \in Nat
      /\ session.patient /\ session.calm /\ ~session.closes /\ ~session.drops /\ session.stops \subseteq {"get"}
  BY DEF Base, Types, StopsAreOfGet, Calm
<1>a. /\ ~closing
      /\ lock => stack # <<>> /\ Holds(Top)
      /\ abort \/ cancel => stack # <<>> /\ Top.cmd = "get" /\ Has(Top, "clear")
      /\ stack # <<>> /\ Top.phase = "abor" => ~abort
  BY DEF Stopped
<1>c. /\ CloseFrame.cmd = "close" /\ CloseFrame.phase = "delete"
  BY CloseFrameFacts DEF Base, Types
<1>1. ASSUME Crash PROVE Stopped'
  <2>1. UNCHANGED <<stack, closing, lock, abort, cancel>> BY <1>1 DEF Crash
  <2> QED BY <1>a, <2>1, StoppedOf
\* A step that is not the first is left when the first is done.
<1>2. ASSUME NEW g, NEW step, After(g, Top), Top.todo[1] # step, Has(Top, step) PROVE Has(g, step)
  <2>1. PICK k \in 1..Len(Top.todo) : Top.todo[k] = step BY <1>2 DEF Has
  <2>2. Len(Top.todo) \in Nat BY <1>2 DEF After
  <2>3. k \in 2..Len(Top.todo) BY <1>2, <2>1, <2>2
  <2>4. g.todo[k - 1] = step /\ k - 1 \in 1..Len(g.todo) BY <1>2, <2>1, <2>3 DEF After
  <2> QED BY <2>4 DEF Has
\* The lock stays with the command behind a step that is not "unlock", and the
\* opening has it at none of these.
<1>h. ASSUME NEW g, After(g, Top), Top.todo[1] \in {"read", "clear"}, Holds(Top) PROVE Holds(g)
  <2>1. Top.cmd # "open" /\ Has(Top, "unlock") BY <1>h DEF Holds
  <2>2. Has(g, "unlock") BY <1>2, <1>h, <2>1
  <2> QED BY <1>h, <2>1, <2>2 DEF Holds, After
\* A command without the lock, and no download, is not met.
<1>3. ASSUME stack # <<>>, Top.cmd \notin Locking,
             Top.cmd = "open" => Top.todo[1] \notin {"dialog", "kauth", "unlock"}
      PROVE  ~lock /\ ~abort /\ ~cancel
  <2>1. Known(Top) BY <1>3, TopFacts
  <2>2. ~Holds(Top) BY <1>3, <2>1 DEF Holds, Has, Known, Ordered, Fits
  <2>3. Top.cmd # "get" BY <1>3 DEF Locking
  <2> QED BY <1>a, <2>2, <2>3
<1>4. CASE StartOp
  <2>1. CASE Crash BY <1>1, <2>1
  <2>2. CASE ~Crash
    <3>1. PICK g \in Frames : Turn(g) /\ g.cmd = Top.cmd /\ g.todo = Top.todo /\ g.phase = "wait"
      BY <1>4, <2>2, StartOpDoes
    <3>2. UNCHANGED <<closing, lock, abort, cancel>> BY <1>4, <2>2, StartOpDoes
    <3>3. Heeded(g) BY <1>a, <3>1, <3>2 DEF Heeded, Holds, Has
    <3> QED BY <3>1, <3>3, StoppedOf
  <2> QED BY <2>1, <2>2
<1>5. CASE Orphan BY <1>1, <1>5 DEF Orphan
<1>6. CASE Answer
  <2>1. Mark /\ UNCHANGED <<closing, lock, abort, cancel>> BY <1>6, AnswerDoes
  <2> QED BY <1>a, <2>1, StoppedOf
<1>7. CASE Return
  <2>1. PICK g \in Frames :
          /\ Turn(g) /\ g.cmd = Top.cmd /\ g.phase = "next"
          /\ Holds(Top) => Holds(g)
          /\ Top.cmd = "get" /\ (Top.op \in Local => Top.ok) => Has(g, "clear")
    BY <1>7, ReturnDoes
  <2>2. /\ stack # <<>> /\ ~crashed /\ Top.phase = "wait" /\ Top.done
        /\ UNCHANGED <<closing, lock, abort, cancel>>
    BY <1>7, ReturnDoes
  <2>3. Top.op \in Local => Top.ok
    <3>1. Len(stack) \in 1..Len(stack) BY <2>2, TopFacts
    <3> QED BY <2>2, <3>1 DEF Serving, Top
  <2>4. Heeded(g) BY <1>a, <2>1, <2>2, <2>3 DEF Heeded
  <2> QED BY <2>1, <2>4, StoppedOf
<1>8. CASE Again
  <2>1. PICK g \in Frames : Turn(g) /\ g.phase = "next" BY <1>8, AgainDoes
  <2>2. stack # <<>> /\ Top.cmd = "open" /\ Top.todo[1] = "again" /\ UNCHANGED <<closing, lock, abort, cancel>>
    BY <1>8, AgainDoes
  <2>3. ~lock /\ ~abort /\ ~cancel BY <1>3, <2>2 DEF Locking
  <2>4. Heeded(g) BY <1>a, <2>1, <2>2, <2>3 DEF Heeded
  <2> QED BY <2>1, <2>4, StoppedOf
<1>m. CASE RemAuth
  <2>1. /\ stack # <<>> /\ Top.cmd = "open" /\ 1 \in 1..Len(Top.todo) /\ Top.todo[1] = "auth"
        /\ UNCHANGED <<closing, abort, cancel>>
    BY <1>m, RemAuthDoes
  <2>2. ~lock /\ ~abort /\ ~cancel BY <1>3, <2>1 DEF Locking
  <2>3. CASE UNCHANGED <<stack, lock>> BY <1>a, <2>1, <2>3, StoppedOf
  <2>4. CASE ~UNCHANGED <<stack, lock>>
    <3>1. PICK g \in Frames : Turn(g) /\ g.phase = "next" /\ (UNCHANGED lock \/ Holds(g))
      BY <1>m, <2>4, RemAuthDoes
    <3>2. Heeded(g) BY <1>a, <2>1, <2>2, <3>1 DEF Heeded
    <3> QED BY <3>1, <3>2, StoppedOf
  <2> QED BY <2>3, <2>4
<1>d. CASE Dialog
  <2>1. PICK g \in Frames : Turn(g) /\ g.phase = "next" /\ Holds(g) BY <1>d, DialogDoes
  <2>2. stack # <<>> /\ Top.cmd = "open" /\ UNCHANGED <<closing, lock, abort, cancel>> BY <1>d, DialogDoes
  <2>3. Heeded(g) BY <1>a, <2>1, <2>2 DEF Heeded
  <2> QED BY <2>1, <2>3, StoppedOf
<1>9. CASE ReadList
  <2>1. PICK g \in Frames :
          /\ Turn(g)
          /\ \/ g.cmd = Top.cmd /\ g.todo = Top.todo /\ g.phase = "read" /\ UNCHANGED abort
             \/ After(g, Top) /\ abort' = (abort \/ cancel)
    BY <1>9, ReadListDoes
  <2>2. stack # <<>> /\ Top.cmd # "get" /\ Top.todo[1] = "read" /\ UNCHANGED <<closing, lock, cancel>>
    BY <1>9, ReadListDoes
  <2>3. ~abort /\ ~cancel /\ ~abort'
    <3>1. ~abort /\ ~cancel BY <1>a, <2>2
    <3>2. abort' = abort \/ abort' = (abort \/ cancel) BY <2>1
    <3>3. CASE abort' = abort BY <3>1, <3>3, Zenon
    <3>4. CASE abort' = (abort \/ cancel) BY <3>1, <3>4
    <3> QED BY <3>1, <3>2, <3>3, <3>4
  <2>4. lock' => Holds(g)
    <3>1. lock' => Holds(Top) BY <1>a, <2>2
    <3>2. g.cmd = Top.cmd /\ g.todo = Top.todo => (Holds(g) <=> Holds(Top)) BY DEF Holds, Has
    <3> QED BY <1>h, <2>1, <2>2, <3>1, <3>2
  <2>5. Heeded(g) BY <1>a, <2>2, <2>3, <2>4 DEF Heeded
  <2> QED BY <2>1, <2>5, StoppedOf
<1>10. CASE ClearAbort
  <2>1. CASE Crash BY <1>1, <2>1
  <2>2. CASE ~Crash
    <3>1. PICK g \in Frames :
            /\ Turn(g)
            /\ \/ g.cmd = Top.cmd /\ g.todo = Top.todo /\ g.phase = "abor" /\ UNCHANGED cancel
               \/ After(g, Top) /\ cancel' = FALSE
      BY <1>10, <2>2, ClearAbortDoes
    <3>2. stack # <<>> /\ Top.todo[1] = "clear" /\ abort' = FALSE /\ UNCHANGED <<closing, lock>>
      BY <1>10, <2>2, ClearAbortDoes
    <3>3. lock' => Holds(g)
      <4>1. lock' => Holds(Top) BY <1>a, <3>2
      <4>2. g.cmd = Top.cmd /\ g.todo = Top.todo => (Holds(g) <=> Holds(Top)) BY DEF Holds, Has
      <4> QED BY <1>h, <3>1, <3>2, <4>1, <4>2
    <3>4. abort' \/ cancel' => g.cmd = "get" /\ Has(g, "clear") BY <1>a, <3>1, <3>2 DEF Has
    <3>5. Heeded(g) BY <1>a, <3>2, <3>3, <3>4 DEF Heeded
    <3> QED BY <3>1, <3>5, StoppedOf
  <2> QED BY <2>1, <2>2
<1>11. CASE AborReply
  <2>1. PICK g \in Frames : Turn(g) /\ After(g, Top) BY <1>11, AborReplyDoes
  <2>2. stack # <<>> /\ Top.todo[1] = "clear" /\ Top.phase = "abor" /\ cancel' = FALSE
        /\ UNCHANGED <<closing, lock, abort>>
    BY <1>11, AborReplyDoes
  <2>3. lock' => Holds(g) BY <1>h, <1>a, <2>1, <2>2
  <2>4. Heeded(g) BY <1>a, <2>2, <2>3 DEF Heeded
  <2> QED BY <2>1, <2>4, StoppedOf
<1>12. CASE Unlock
  <2>1. /\ stack # <<>> /\ Top.todo[1] = "unlock"
        /\ Top.cmd # "open" => \A k \in 2..Len(Top.todo) : Top.todo[k] = "refresh"
        /\ ~lock' /\ UNCHANGED <<abort, cancel>>
    BY <1>12, UnlockDoes
  <2>2. PICK g \in Frames : After(g, Top) /\ closing' = FALSE /\ Turn(g)
    BY <1>12, <1>a, UnlockDoes
  <2>3. Top.cmd = "get" => ~Has(Top, "clear")
    <3>1. ASSUME Top.cmd = "get", NEW k \in 1..Len(Top.todo), Top.todo[k] = "clear" PROVE FALSE
      <4>1. Len(Top.todo) \in Nat BY <2>2 DEF After
      <4>2. k \in 2..Len(Top.todo) BY <2>1, <3>1, <4>1
      <4> QED BY <2>1, <3>1, <4>2
    <3> QED BY <3>1 DEF Has
  <2>4. ~abort' /\ ~cancel' BY <1>a, <2>1, <2>3
  <2>5. Heeded(g) BY <2>1, <2>2, <2>4 DEF Heeded
  <2> QED BY <2>2, <2>5, StoppedOf
<1>13. CASE Load
  <2>1. PICK g \in Frames :
          /\ g.cmd = Top.cmd /\ g.phase = "next"
          /\ \/ Turn(g) /\ UNCHANGED lock
             \/ \E h \in Frames : TurnAndPush(g, h) /\ h.phase = "next" /\ Holds(h)
    BY <1>13, LoadDoes DEF Holds
  <2>2. /\ stack # <<>> /\ Top.cmd # "get" /\ Len(Top.todo) = 1 /\ Top.todo[1] \in {"load", "refresh"}
        /\ UNCHANGED <<closing, abort, cancel>>
    BY <1>13, LoadDoes
  <2>3. ~Has(Top, "unlock") BY <2>2 DEF Has
  <2>4. ~lock /\ ~abort' /\ ~cancel' /\ ~closing' BY <1>a, <2>2, <2>3 DEF Holds
  <2>5. CASE Turn(g) /\ UNCHANGED lock
    <3>1. Heeded(g) BY <2>4, <2>5 DEF Heeded
    <3> QED BY <2>5, <3>1, StoppedOf
  <2>6. CASE \E h \in Frames : TurnAndPush(g, h) /\ h.phase = "next" /\ Holds(h)
    <3>1. PICK h \in Frames : TurnAndPush(g, h) /\ h.phase = "next" /\ Holds(h) BY <2>6
    <3>2. Heeded(h) BY <2>4, <3>1 DEF Heeded
    <3>3. g.cmd # "get" BY <2>1, <2>2
    <3> QED BY <3>1, <3>2, <3>3, StoppedOf
  <2> QED BY <2>1, <2>5, <2>6
<1>14. CASE GiveUp
  <2>1. stack # <<>> /\ Top.cmd = "open" /\ Top.todo[1] = "close" /\ UNCHANGED lock BY <1>14, GiveUpDoes
  <2>2. ~lock /\ ~abort /\ ~cancel BY <1>3, <2>1 DEF Locking
  <2>3. PICK g \in Frames :
          /\ g.cmd = Top.cmd /\ g.phase = "next"
          /\ \/ closing' = FALSE /\ Turn(g) /\ UNCHANGED <<cancel, abort>>
             \/ TurnAndPush(g, CloseFrame) /\ UNCHANGED <<closing, cancel, abort>>
    BY <1>14, <2>2, GiveUpDoes
  <2>4. ~closing' /\ ~lock' /\ ~abort' /\ ~cancel' BY <1>a, <2>1, <2>2, <2>3
  <2>5. Heeded(g) /\ Heeded(CloseFrame) BY <2>4 DEF Heeded
  <2>6. g.cmd # "get" BY <2>1, <2>3
  <2> QED BY <2>3, <2>5, <2>6, StoppedOf
<1>15. CASE Deleted
  <2>1. /\ stack # <<>> /\ Top.cmd = "close" /\ Pop /\ closing' = FALSE /\ abort' = FALSE
        /\ UNCHANGED <<lock, cancel>>
    BY <1>15, DeletedDoes
  <2>2. ~lock /\ ~cancel BY <1>3, <2>1 DEF Locking
  <2> QED BY <2>1, <2>2, StoppedOf
<1>16. CASE Leave
  <2>1. stack # <<>> /\ Top.todo = <<>> /\ Pop /\ UNCHANGED <<closing, lock, abort, cancel>>
    BY <1>16, LeaveDoes
  <2>2. ~Has(Top, "unlock") /\ ~Has(Top, "clear")
    <3>1. Len(Top.todo) = 0 BY <2>1
    <3> QED BY <3>1 DEF Has
  <2> QED BY <1>a, <2>1, <2>2, StoppedOf DEF Holds
<1>17. CASE Renew
  <2>1. stack # <<>> /\ Top.cmd = "open" /\ Top.todo[1] = "renew" /\ UNCHANGED <<closing, lock, cancel>>
    BY <1>17, RenewDoes
  <2>2. ~lock /\ ~abort /\ ~cancel BY <1>3, <2>1 DEF Locking
  <2>3. CASE at # "ended"
    <3>1. UNCHANGED <<stack, abort>> BY <1>17, <2>3, RenewDoes
    <3> QED BY <1>a, <2>1, <3>1, StoppedOf
  <2>4. CASE at = "ended"
    <3>1. PICK g \in Frames : Turn(g) BY <1>17, <2>4, RenewDoes
    <3>2. abort' = FALSE BY <1>17, <2>4, RenewDoes
    <3>3. Heeded(g) BY <1>a, <2>1, <2>2, <3>2 DEF Heeded
    <3> QED BY <3>1, <3>3, StoppedOf
  <2> QED BY <2>3, <2>4
<1>18. CASE MachineCloses
  <2>1. client = 0 /\ CmCloseConnection(stack) /\ UNCHANGED lock
    BY <1>0, <1>18 DEF MachineCloses, Alive
  <2>2. closing' = FALSE /\ UNCHANGED <<stack, cancel, abort>> BY <2>1, ClosesDoes
  <2> QED BY <2>1, <2>2, StoppedOf
<1>19. CASE UserCloses BY <1>0, <1>19 DEF UserCloses
<1>20. ASSUME NEW c \in Locking \cup Unlocked, Give(c) PROVE Stopped'
  <2>1. UNCHANGED <<closing, abort, cancel>> BY <1>20, GiveDoes
  <2>2. CASE UNCHANGED <<stack, lock>> BY <1>a, <2>1, <2>2, StoppedOf
  <2>3. CASE ~UNCHANGED <<stack, lock>>
    <3>1. stack = <<>> /\ lock' = (lock \/ c \in Locking) BY <1>0, <1>20, <2>3, GiveDoes
    <3>2. PICK h \in Frames : Push(h) /\ h.phase = "next" /\ (c \in Locking => Holds(h))
      BY <1>20, <2>3, GiveDoes DEF Holds, Locking
    <3>3. ~lock /\ ~abort' /\ ~cancel' /\ ~closing' BY <1>a, <2>1, <3>1
    <3>4. Heeded(h) BY <3>1, <3>2, <3>3 DEF Heeded
    <3> QED BY <3>1, <3>2, <3>4, StoppedOf
  <2> QED BY <2>2, <2>3
<1>21. CASE Stop
  <2>1. /\ Pumping /\ lock /\ cancel' = TRUE /\ UNCHANGED <<stack, closing, lock>>
        /\ \E i \in DOMAIN stack : stack[i].cmd \in session.stops
    BY <1>21, Zenon DEF Stop
  <2>2. stack # <<>> /\ Top \in Frames /\ Known(Top) /\ Top.phase \in {"wait", "read"}
    BY <1>a, <2>1, PumpingFacts
  <2>3. Top.cmd = "get"
    <3>1. PICK i \in DOMAIN stack : stack[i].cmd = "get" BY <1>0, <2>1
    <3>2. i \in 1..Len(stack) BY DEF Base, Types
    <3>3. i = Len(stack) BY <3>1, <3>2 DEF Stopped
    <3> QED BY <3>1, <3>3 DEF Top
  <2>4. Top.todo \in Seq(StepNames) /\ (Top.todo # <<>> => Fits(Top.cmd, Top.todo, 1))
    <3>1. Top.todo \in Seq(StepNames) BY <2>2 DEF Frames
    <3> QED BY <2>2, <3>1, TailFacts DEF Known
  <2>5. Top.phase = "wait" /\ Top.todo # <<>> /\ Top.todo[1] \in Operations
    <3>1. Top.phase # "read" BY <2>2, <2>3, <2>4 DEF Known, Fits
    <3> QED BY <2>2, <3>1 DEF Known
  <2>6. Has(Top, "clear")
    <3>1. PICK m \in (1 + 1)..Len(Top.todo) : Top.todo[m] = "clear" BY <2>3, <2>4, <2>5 DEF Fits
    <3>2. m \in 1..Len(Top.todo) BY <3>1, <2>4
    <3> QED BY <3>1, <3>2 DEF Has
  <2>7. /\ Top' = Top /\ Has(Top, "clear")' /\ (lock' => Holds(Top)')
        /\ \A n \in 1..Len(stack') : n # Len(stack') => stack'[n].cmd # "get"
    BY <1>a, <2>1, <2>6 DEF Top, Holds, Has, Stopped
  <2>8. Top'.cmd = "get" /\ Top'.phase # "abor" BY <2>3, <2>5, <2>7
  <2>9. stack' # <<>> /\ ~closing' BY <1>a, <2>1, <2>2
  <2> QED BY <2>7, <2>8, <2>9 DEF Stopped
<1>22. CASE Prompt \/ Second
  <2>1. Mark /\ UNCHANGED <<closing, lock, abort, cancel>> BY <1>22, PromptDoes, SecondDoes
  <2> QED BY <1>a, <2>1, StoppedOf
<1>23. CASE Ask \/ Transfer \/ Retry \/ Failed
  <2>1. Mark /\ (abort' => abort) /\ UNCHANGED <<closing, lock, cancel>>
    BY <1>23, TellsDoes DEF Result
  <2> QED BY <1>a, <2>1, StoppedOf
<1>24. CASE Check \/ Prompted \/ Reset \/ Greeting \/ Drain \/ Arrive \/ Drop
  <2>1. UNCHANGED <<stack, closing, lock, abort, cancel>>
    BY <1>24 DEF Check, Prompted, Reset, Greeting, Drain, Arrive, Drop, window
  <2> QED BY <1>a, <2>1, StoppedOf
<1> QED
  BY <1>4, <1>5, <1>6, <1>7, <1>8, <1>9, <1>10, <1>11, <1>12, <1>13, <1>14, <1>15, <1>16, <1>17, <1>18,
     <1>19, <1>20, <1>21, <1>22, <1>23, <1>24, <1>m, <1>d
  DEF Next, Windows, Machines, Users

-----------------------------------------------------------------------------
(* The invariant, and what follows from it *)

LEMMA KInit ==
  ASSUME Init
  PROVE  KInv
<1> USE DEF Init
<1>1. Len(stack) = 0 /\ stack \in Seq(Frames) OBVIOUS
<1>2. Base
  <2>1. Types BY <1>1 DEF Types, Idle, Jobs
  <2>2. Sound BY <1>1 DEF Sound
  <2> QED BY <2>1, <2>2 DEF Base
<1>3. Pending BY DEF Pending
<1>4. Rested BY <1>1 DEF Rested
<1>5. Alive BY <1>1 DEF Alive
<1>6. Spared BY DEF Spared
<1>7. Serving BY <1>1 DEF Serving, Working
<1>8. Stopped BY <1>1 DEF Stopped
<1> QED BY <1>2, <1>3, <1>4, <1>5, <1>6, <1>7, <1>8 DEF KInv

LEMMA KStays ==
  ASSUME KInv, Next
  PROVE  KInv'
<1>1. Base /\ Pending BY DEF KInv
<1>2. session' = session /\ Base' /\ Pending'
  <2>1. Base' /\ Pending' BY <1>1, BaseNext, PendingNext
  <2>2. session' = session
    BY Zenon DEF Next, Windows, Machines, Users, StartOp, Orphan, Crash, Answer, Return, Again, RemAuth,
       Dialog, ReadList, ClearAbort, AborReply, Unlock, Load, GiveUp, Deleted, Renew, Leave, MachineCloses, Greeting, Drain,
       Check, Prompt, Prompted, Ask, Retry, Failed, Transfer, Second, Reset, Give, Stop, UserCloses,
       Arrive, Drop
  <2> QED BY <2>1, <2>2
<1>3. (session.patient => Rested)' BY <1>1, <1>2, RestedNext DEF KInv
<1>4. Kept => Rested /\ (Alive \/ Cut) BY DEF KInv, Kept
<1>5. (Kept => Alive \/ Cut)'
  <2>1. Kept' <=> Kept BY <1>2 DEF Kept
  <2> QED BY <1>1, <1>4, <2>1, AliveNext, CutNext
<1>6. (Kept /\ ~({"refresh", "delete"} \subseteq session.commands) => Spared \/ Cut)'
  <2>1. Kept' <=> Kept BY <1>2 DEF Kept
  <2>2. Kept /\ ~({"refresh", "delete"} \subseteq session.commands) => Spared \/ Cut BY DEF KInv
  <2> QED BY <1>1, <1>2, <1>4, <2>1, <2>2, SparedNext, CutNext
<1>7. ~crashed
  BY Zenon DEF Next, Windows, Machines, Users, StartOp, Doing, Orphan, Answer, Return, Again, RemAuth,
     Dialog, ReadList, ClearAbort, AborReply, Unlock, Load, GiveUp, Deleted, Renew, Leave, MachineCloses, Greeting, Drain,
     Check, Prompt, Prompted, Ask, Retry, Failed, Transfer, Second, Reset, Give, Stop, UserCloses,
     Pumping, Arrive, Drop
<1>8. (Calm /\ ~crashed => Serving)'
  <2>1. Calm' <=> Calm BY <1>2 DEF Calm
  <2>2. Calm => Rested /\ Serving BY <1>7 DEF KInv, Calm
  <2> QED BY <1>1, <1>7, <2>1, <2>2, ServingNext
<1>9. (StopsAreOfGet => Alive /\ Stopped)'
  <2>1. StopsAreOfGet' <=> StopsAreOfGet BY <1>2 DEF StopsAreOfGet, Calm
  <2>2. StopsAreOfGet => Kept /\ Calm BY DEF StopsAreOfGet, Calm, Kept
  <2>3. StopsAreOfGet => Alive /\ Stopped /\ Serving BY <1>7, <2>2 DEF KInv
  <2>4. StopsAreOfGet => Alive' BY <1>1, <1>4, <2>2, <2>3, AliveNext DEF Stopped
  <2> QED BY <1>1, <1>4, <2>1, <2>2, <2>3, <2>4, StoppedNext
<1> QED BY <1>2, <1>3, <1>5, <1>6, <1>8, <1>9 DEF KInv

LEMMA KStutters ==
  ASSUME KInv, UNCHANGED vars
  PROVE  KInv'
BY DEF vars, window, machine, wire, KInv, Base, Types, Sound, Pending, Serves, Rested, Live, Top,
   Kept, Alive, Cut, Linked, Spared, Has, Holds, Calm, Serving, StopsAreOfGet, Stopped

\* What a command has still to do stays in order, the machine knows the block
\* of a command it has not begun, and what is said of patient users holds.
THEOREM KInvAlways == FairSpec => []KInv
<1>1. KInv /\ [Next]_vars => KInv' BY KStays, KStutters
<1> QED BY <1>1, KInit, PTL DEF FairSpec

\* Nothing that is freed is used: no operation runs in a handler that was
\* deleted or without one, and no deletion reads an entry of a list that was
\* cleared, whatever the user closes, stops and tries meanwhile.  There is one
\* exception, and it is the only one: the opening asks a handler that a close
\* has deleted for the directory, when the close came while it authenticated.
THEOREM NothingFreedUsed == FairSpec => []NothingFreedIsUsed
<1>1. KInv => NothingFreedIsUsed
  <2>1. SUFFICES ASSUME KInv, Kept, ~({"refresh", "delete"} \subseteq session.commands), crashed
                 PROVE  ClosedInOpen
    BY DEF NothingFreedIsUsed, Kept
  <2>2. Cut BY <2>1 DEF KInv, Spared
  <2>3. PICK n \in 1..Len(stack) :
          /\ n = Len(stack) /\ stack[n].cmd = "open"
          /\ stack[n].todo # <<>> /\ stack[n].todo[1] = "getcwd"
    BY <2>1, <2>2 DEF Cut, Live
  <2>4. stack # <<>> /\ Top.cmd = "open" /\ Top.todo # <<>> /\ Top.todo[1] = "getcwd" /\ client = 0
    BY <2>2, <2>3 DEF Top, Cut
  <2>5. Head(Top.todo) = Top.todo[1] OBVIOUS
  <2> QED BY <2>4, <2>5 DEF ClosedInOpen
<1> QED BY <1>1, KInvAlways, PTL

\* Operation returns with its own result, and a stop of a download is over
\* when the download is.
THEOREM ResultsOwn == FairSpec => ResultIsOwn
<1>1. KInv => (Calm /\ session.stops \subseteq {"get"} /\ ~session.closes /\ ~session.drops
                 /\ stack = <<>> => ~abort /\ ~cancel)
  BY DEF KInv, StopsAreOfGet, Stopped
<1>2. KInv /\ [Next]_vars => [Return /\ Calm => Top.by = Top.op]_vars
  <2> SUFFICES ASSUME KInv, Return, Calm PROVE Top.by = Top.op OBVIOUS
  <2>1. Base /\ ~crashed /\ stack # <<>> /\ Top.phase = "wait" /\ Top.done BY DEF KInv, Return
  <2>2. Serving BY <2>1 DEF KInv
  <2>3. Len(stack) \in 1..Len(stack) BY <2>1, TopFacts
  <2> QED BY <2>1, <2>2, <2>3 DEF Serving, Top
<1>3. FairSpec => [][Next]_vars BY PTL DEF FairSpec
<1> QED BY <1>1, <1>2, <1>3, KInvAlways, PTL DEF ResultIsOwn
=============================================================================
