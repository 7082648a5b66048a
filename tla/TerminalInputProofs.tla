------------------------- MODULE TerminalInputProofs -------------------------
(***************************************************************************)
(* What is received is shown or obeyed once and in order, for any input    *)
(* whose commands are whole, any blocks, and any order of messages, errors *)
(* and interruptions.                                                      *)
(*                                                                         *)
(* Everything up to Handled has been dealt with, and up to the position of *)
(* the reader there is nothing else that ought to have been (Skipped).     *)
(* While a sequence is given back this holds of the mark instead, so the   *)
(* mark is never behind what has been dealt with unless data was junked.   *)
(* The reader and the mark stand before a byte that begins something       *)
(* (Stands), since a command is read as a whole.                           *)
(*                                                                         *)
(* The second part is about what is answered to the telnet commands.  What *)
(* the two ends have still to tell each other is on the two wires, so its  *)
(* invariant NInv is about wires: behind the messages that are on one, the *)
(* end that reads has the state, vector and cipher of the end that writes. *)
(***************************************************************************)
EXTENDS MCTerminalInput, SequenceTheorems, TLAPS

Ways == {"shown", "obeyed", "junked"}
Item == Nat \X Ways

\* The last position that has been dealt with
Handled == IF done = <<>> THEN 0 ELSE done[Len(done)][1]

Skipped(p) == \A i \in Handled + 1..p : ~Unit(i)

Stands(p) == Telnet /\ p < Len(input) => input[p + 1] \notin {"NOP", "DO", "opt"}

Entry(k) ==
  LET before == IF k = 1 THEN 0 ELSE done[k - 1][1]
  IN /\ done[k][1] \in before + 1..put /\ Unit(done[k][1]) /\ Fits(done[k])
     /\ \A i \in before + 1..done[k][1] - 1 : ~Unit(i)

InOrder == \A k \in 1..Len(done) : Entry(k)

Placed ==
  /\ InOrder /\ Handled \in Nat /\ Handled <= rd
  /\ Stands(rd) /\ Stands(mk)
  /\ IF gui = "restore" THEN Handled <= mk /\ Skipped(mk) ELSE Skipped(rd)
  /\ session.aborts = 0 => Handled <= mk
  /\ gui = "restore" => session.aborts = 0
  /\ gui = "escape" => rd < put /\ input[rd + 1] = "ESC"
  /\ gui = "junk1" => ~IsIAC(input[rd + 1])
  /\ Telnet /\ put > 0 => Uncut(put)

Junking == /\ gui \in {"junk", "junk1"} => Telnet /\ session.aborts > 0
           /\ gui = "junk1" => rd < put

IInv == TypeOK /\ Junking /\ (Orderly => Placed)

-----------------------------------------------------------------------------
(* Facts about sessions and positions *)

LEMMA Facts ==
  ASSUME TypeOK
  PROVE  /\ input \in Seq(Token) /\ Len(input) \in Nat /\ \A i \in 1..Len(input) : input[i] \in Token
         /\ Telnet \in BOOLEAN /\ session.aborts \in Nat
         /\ mk \in Nat /\ rd \in Nat /\ put \in Nat
         /\ session \in Session
<1>1. session \in Session
  BY InputAssumption DEF TypeOK
<1>2. input \in Seq(Token) /\ Telnet \in BOOLEAN /\ session.aborts \in Nat
  BY <1>1 DEF Session, input, Telnet
<1>3. Len(input) \in Nat /\ \A i \in 1..Len(input) : input[i] \in Token
  BY <1>2
<1> QED
  BY <1>1, <1>2, <1>3 DEF TypeOK

\* A byte of text, where something begins
LEMMA TextAt ==
  ASSUME TypeOK, Orderly, NEW p \in Nat, p < Len(input), Stands(p),
         Telnet => ~IsIAC(input[p + 1])
  PROVE  IsText(input[p + 1]) /\ ~IsCommand(input[p + 1]) /\ Stands(p + 1)
<1>1. p + 1 \in 1..Len(input) /\ input[p + 1] \in Token
  BY Facts
<1>2. CASE ~Telnet
  <2>1. IsText(input[p + 1])
    BY <1>1, <1>2 DEF Orderly
  <2> QED
    BY <1>2, <2>1 DEF IsText, IsCommand, Stands
<1>3. CASE Telnet
  <2>1. input[p + 1] \in {"x", "ESC", "m"}
    BY <1>1, <1>3 DEF Stands, Token, IsIAC
  <2>2. p + 1 < Len(input) => Follows(p + 1)
    BY <1>1, <1>3, Facts DEF Orderly
  <2>3. p + 1 < Len(input) => input[(p + 1) + 1] \notin {"NOP", "DO", "opt"}
    BY <2>1, <2>2 DEF Follows
  <2> QED
    BY <2>1, <2>3 DEF Stands, IsText, IsCommand
<1> QED
  BY <1>2, <1>3, Facts

\* A run of text, which SkipTo does not stop in
LEMMA TextRun ==
  ASSUME TypeOK, Orderly, NEW p \in Nat, NEW q \in p + 1..Len(input), Stands(p),
         \A i \in p + 1..q : ~StopsAt(input[i])
  PROVE  (\A i \in p + 1..q : IsText(input[i]) /\ ~IsCommand(input[i])) /\ Stands(q)
<1>0. Len(input) \in Nat /\ \A i \in 1..Len(input) : input[i] \in Token
  BY Facts
<1>1. ASSUME NEW i \in p + 1..q, Telnet PROVE input[i] \notin {"NOP", "DO", "IAC", "FF"}
  <2>1. input[i] \notin {"IAC", "FF"}
    BY <1>1 DEF StopsAt, IsIAC
  <2>2. CASE i = p + 1
    BY <1>0, <1>1, <2>1, <2>2 DEF Stands
  <2>3. CASE i # p + 1
    <3>1. i - 1 \in p + 1..q /\ i - 1 \in 1..Len(input) - 1 /\ (i - 1) + 1 = i
      BY <1>0, <2>3
    <3>2. Follows(i - 1) /\ input[i - 1] # "IAC"
      BY <1>1, <3>1 DEF Orderly, StopsAt, IsIAC
    <3> QED
      BY <2>1, <3>1, <3>2 DEF Follows
  <2> QED
    BY <2>2, <2>3
<1>2. ASSUME NEW i \in p + 1..q, Telnet PROVE input[i] # "opt"
  <2>1. CASE i = p + 1
    BY <1>0, <1>2, <2>1 DEF Stands
  <2>2. CASE i # p + 1
    <3>1. i - 1 \in p + 1..q /\ i - 1 \in 1..Len(input) - 1 /\ (i - 1) + 1 = i
      BY <1>0, <2>2
    <3>2. Follows(i - 1) /\ input[i - 1] # "DO"
      BY <1>1, <1>2, <3>1 DEF Orderly
    <3> QED
      BY <3>1, <3>2 DEF Follows
  <2> QED
    BY <2>1, <2>2
<1>3. ASSUME NEW i \in p + 1..q PROVE IsText(input[i]) /\ ~IsCommand(input[i])
  <2>1. i \in 1..Len(input) /\ input[i] \in Token
    BY <1>0
  <2>2. CASE Telnet
    BY <1>1, <1>2, <2>1, <2>2 DEF Token, IsText, IsCommand
  <2>3. CASE ~Telnet
    BY <2>1, <2>3 DEF Orderly, IsText, IsCommand
  <2> QED
    BY <2>2, <2>3, Facts
<1>4. Stands(q)
  <2> SUFFICES ASSUME Telnet, q < Len(input) PROVE input[q + 1] \notin {"NOP", "DO", "opt"}
    BY DEF Stands
  <2>1. q \in 1..Len(input) - 1 /\ q \in p + 1..q
    BY <1>0
  <2>2. Follows(q) /\ input[q] \notin {"NOP", "DO", "IAC", "FF"}
    BY <1>1, <2>1 DEF Orderly
  <2> QED
    BY <2>2 DEF Follows
<1> QED
  BY <1>3, <1>4

\* A command, where something begins
LEMMA CommandAt ==
  ASSUME TypeOK, Orderly, Telnet, NEW p \in Nat, p < Len(input), IsIAC(input[p + 1])
  PROVE  /\ input[p + 1] = "IAC"
         /\ p + 2 <= Len(input) => input[p + 2] \in {"IAC", "NOP", "DO"}
         /\ p + 2 <= Len(input) /\ input[p + 2] = "IAC" => Stands(p + 1)
         /\ p + 2 <= Len(input) /\ input[p + 2] = "NOP" => Stands(p + 2)
         /\ p + 3 <= Len(input) /\ input[p + 2] = "DO" => input[p + 3] = "opt" /\ Stands(p + 3)
<1>0. Len(input) \in Nat
  BY Facts
<1>1. \A i \in 1..Len(input) - 1 : Follows(i)
  BY DEF Orderly
<1>2. input[p + 1] = "IAC"
  <2>1. CASE p + 1 < Len(input)
    <3>1. Follows(p + 1)
      BY <1>0, <1>1, <2>1
    <3> QED
      BY <3>1 DEF Follows, IsIAC
  <2>2. CASE p + 1 = Len(input)
    BY <1>0, <2>2 DEF Orderly, IsIAC
  <2> QED
    BY <1>0, <2>1, <2>2
<1>3. p + 2 <= Len(input) => input[p + 2] \in {"IAC", "NOP", "DO"}
  <2>1. p + 2 <= Len(input) => Follows(p + 1) /\ (p + 1) + 1 = p + 2
    BY <1>0, <1>1
  <2> QED
    BY <1>2, <2>1 DEF Follows
<1>4. p + 2 < Len(input) => Follows(p + 2) /\ (p + 2) + 1 = p + 3
  BY <1>0, <1>1
<1>5. p + 3 < Len(input) => Follows(p + 3) /\ (p + 3) + 1 = p + 4
  BY <1>0, <1>1
<1>6. p + 2 <= Len(input) /\ input[p + 2] = "IAC" => Stands(p + 1)
  <2>1. (p + 1) + 1 = p + 2
    OBVIOUS
  <2> QED
    BY <2>1 DEF Stands
<1>7. p + 2 <= Len(input) /\ input[p + 2] = "NOP" => Stands(p + 2)
  BY <1>4 DEF Stands, Follows
<1>8. p + 3 <= Len(input) /\ input[p + 2] = "DO" => input[p + 3] = "opt"
  BY <1>0, <1>4 DEF Follows
<1>9. p + 3 <= Len(input) /\ input[p + 3] = "opt" => Stands(p + 3)
  BY <1>5 DEF Stands, Follows
<1> QED
  BY <1>2, <1>3, <1>6, <1>7, <1>8, <1>9

-----------------------------------------------------------------------------
(* What has been dealt with *)

LEMMA Unchanged ==
  ASSUME InOrder, UNCHANGED <<done, session>>, put \in Nat, put' \in Nat, put <= put',
         \A k \in 1..Len(done) : k = 1 \/ done[k - 1][1] \in Nat
  PROVE  InOrder' /\ Handled' = Handled /\ \A p : Skipped(p)' <=> Skipped(p)
<1>1. \A i : Unit(i)' <=> Unit(i)
  BY DEF Unit, IsText, IsCommand, input
<1>2. \A e : Fits(e)' <=> Fits(e)
  BY DEF Fits, IsCommand, input
<1>3. Handled' = Handled
  BY DEF Handled
<1>4. ASSUME NEW k \in 1..Len(done) PROVE Entry(k)'
  <2>1. Entry(k)
    BY DEF InOrder
  <2> QED
    BY <1>1, <1>2, <2>1 DEF Entry
<1> QED
  BY <1>1, <1>3, <1>4 DEF InOrder, Skipped

\* Facts about the entries of a log, apart from the state that holds them
Plus(s, e) == Append(s, e)
PlusLog(s, way, from, to) == s \o Log(way, from, to)

LEMMA OneMore ==
  ASSUME NEW S, NEW s \in Seq(S), NEW e \in S
  PROVE  /\ Plus(s, e) \in Seq(S) /\ Plus(s, e) # <<>>
         /\ Len(Plus(s, e)) = Len(s) + 1 /\ Plus(s, e)[Len(s) + 1] = e
         /\ \A k \in 1..Len(s) : Plus(s, e)[k] = s[k]
<1>1. /\ Plus(s, e) \in Seq(S)
      /\ Len(Plus(s, e)) = Len(s) + 1 /\ Plus(s, e)[Len(s) + 1] = e
      /\ \A k \in 1..Len(s) : Plus(s, e)[k] = s[k]
  BY AppendProperties DEF Plus
<1>2. Plus(s, e) # <<>>
  BY <1>1, EmptySeq, LenProperties
<1> QED
  BY <1>1, <1>2

LEMMA SameLength ==
  ASSUME NEW m \in Nat, NEW n \in Nat, n > 0, 1..n = 1..m
  PROVE  m = n
<1>1. n \in 1..m
  OBVIOUS
<1>2. m \in 1..n
  BY <1>1
<1> QED
  BY <1>1, <1>2

LEMMA ManyMore ==
  ASSUME NEW s \in Seq(Item), NEW from \in Nat, NEW to \in Nat, from < to, NEW way \in Ways
  PROVE  /\ PlusLog(s, way, from, to) \in Seq(Item)
         /\ PlusLog(s, way, from, to) # <<>>
         /\ Len(PlusLog(s, way, from, to)) = Len(s) + (to - from)
         /\ \A k \in 1..Len(s) : PlusLog(s, way, from, to)[k] = s[k]
         /\ \A j \in 1..to - from : PlusLog(s, way, from, to)[Len(s) + j] = <<from + j, way>>
<1> DEFINE log == Log(way, from, to)
           t == PlusLog(s, way, from, to)
<1>1. log = [i \in 1..to - from |-> <<from + i, way>>] /\ to - from \in Nat /\ to - from > 0
  BY DEF Log
<1>2. \A i \in 1..to - from : <<from + i, way>> \in Item
  <2> TAKE i \in 1..to - from
  <2>1. from + i \in Nat
    OBVIOUS
  <2> QED
    BY <2>1 DEF Item
<1>3. log \in Seq(Item) /\ Len(log) = to - from
  <2>1. log \in [1..to - from -> Item]
    BY <1>1, <1>2
  <2>2. log \in Seq(Item)
    <3>1. Seq(Item) = UNION {[1..n -> Item] : n \in Nat}
      BY SeqDef
    <3> QED
      BY <1>1, <2>1, <3>1
  <2>3. DOMAIN log = 1..to - from /\ DOMAIN log = 1..Len(log) /\ Len(log) \in Nat
    BY <1>1, <2>2, LenProperties
  <2>4. Len(log) = to - from
    BY <1>1, <2>3, SameLength
  <2> QED
    BY <2>2, <2>4
<1>4. \A j \in 1..to - from : log[j] = <<from + j, way>>
  BY <1>1
<1> HIDE DEF log
<1>5. t = s \o log /\ Len(s) \in Nat
  BY LenProperties DEF log, PlusLog
<1>6. /\ t \in Seq(Item) /\ Len(t) = Len(s) + Len(log)
      /\ \A i \in 1..Len(s) + Len(log) : t[i] = IF i <= Len(s) THEN s[i] ELSE log[i - Len(s)]
  <2>1. /\ s \o log \in Seq(Item) /\ Len(s \o log) = Len(s) + Len(log)
        /\ \A i \in 1..Len(s) + Len(log) :
             (s \o log)[i] = IF i <= Len(s) THEN s[i] ELSE log[i - Len(s)]
    BY <1>3, ConcatProperties
  <2> QED
    BY <1>5, <2>1
<1>7. t # <<>>
  <2>1. Len(t) # 0
    BY <1>1, <1>3, <1>5, <1>6
  <2>2. Len(<<>>) = 0
    BY EmptySeq
  <2> QED
    BY <2>1, <2>2, Zenon
<1>8. ASSUME NEW j \in 1..to - from PROVE t[Len(s) + j] = <<from + j, way>>
  <2>1. /\ Len(s) + j \in 1..Len(s) + Len(log) /\ ~(Len(s) + j <= Len(s))
        /\ (Len(s) + j) - Len(s) = j
    BY <1>1, <1>3, <1>5
  <2> QED
    BY <1>4, <1>6, <2>1
<1>9. ASSUME NEW k \in 1..Len(s) PROVE t[k] = s[k]
  <2>1. k \in 1..Len(s) + Len(log) /\ k <= Len(s)
    BY <1>1, <1>3, <1>5
  <2> QED
    BY <1>6, <2>1
<1> QED
  BY <1>3, <1>6, <1>7, <1>8, <1>9

LEMMA Kept ==
  ASSUME UNCHANGED <<put, session>>, NEW m \in Nat, m = Len(done), InOrder,
         \A k \in 1..m : done'[k] = done[k], NEW k \in 1..m
  PROVE  Entry(k)'
<1>1. \A i : Unit(i)' <=> Unit(i)
  BY DEF Unit, IsText, IsCommand, input
<1>2. \A e : Fits(e)' <=> Fits(e)
  BY DEF Fits, IsCommand, input
<1>3. Entry(k) /\ done'[k] = done[k] /\ (k # 1 => done'[k - 1] = done[k - 1])
  BY DEF InOrder
<1> QED
  BY <1>1, <1>2, <1>3 DEF Entry

LEMMA Added ==
  ASSUME UNCHANGED <<put, session>>, NEW k \in Nat \ {0}, NEW n, NEW way, NEW b \in Nat,
         done'[k] = <<n, way>>, b = IF k = 1 THEN 0 ELSE done'[k - 1][1],
         n \in b + 1..put, Unit(n), Fits(<<n, way>>), \A i \in b + 1..n - 1 : ~Unit(i)
  PROVE  Entry(k)'
<1>1. \A i : Unit(i)' <=> Unit(i)
  BY DEF Unit, IsText, IsCommand, input
<1>2. Fits(<<n, way>>)' <=> Fits(<<n, way>>)
  BY DEF Fits, IsCommand, input
<1>3. done'[k][1] = n
  OBVIOUS
<1> QED
  BY <1>1, <1>2, <1>3 DEF Entry

\* One more entry, the next unit after those that have been dealt with
LEMMA Appends ==
  ASSUME InOrder, TypeOK, UNCHANGED <<put, session>>, Handled \in Nat,
         NEW n \in Handled + 1..put, NEW way \in Ways, Unit(n), Fits(<<n, way>>), Skipped(n - 1)
  PROVE  done' = Append(done, <<n, way>>) => InOrder' /\ Handled' = n /\ done' \in Seq(Item)
<1>a. done \in Seq(Item)
  BY DEF TypeOK, Ways, Item
<1>b. put \in Nat /\ n \in Nat
  BY Facts
<1>c. <<n, way>> \in Item
  BY <1>b DEF Item
<1>0. done \in Seq(Item) /\ put \in Nat /\ n \in Nat /\ <<n, way>> \in Item
  BY <1>a, <1>b, <1>c
<1>1. PICK m \in Nat : m = Len(done)
  BY <1>0, LenProperties
<1>2. PICK b \in Nat : b = Handled
  OBVIOUS
<1> DEFINE Longer ==
      /\ done' \in Seq(Item) /\ done' # <<>> /\ Len(done') = m + 1
      /\ done'[m + 1] = <<n, way>> /\ \A k \in 1..m : done'[k] = done[k]
<1>3a. ASSUME done' = Append(done, <<n, way>>) PROVE Longer
  <2>1. done' = Plus(done, <<n, way>>)
    BY <1>3a DEF Plus
  <2>2. PICK t \in Seq(Item) : t = Plus(done, <<n, way>>)
    BY <1>0, OneMore
  <2>3. /\ t # <<>> /\ Len(t) = m + 1
        /\ t[m + 1] = <<n, way>> /\ \A k \in 1..m : t[k] = done[k]
    <3>1. t[Len(done) + 1] = <<n, way>> /\ Len(t) = Len(done) + 1 /\ t # <<>>
      BY <1>0, <2>2, OneMore
    <3>2. \A k \in 1..Len(done) : t[k] = done[k]
      BY <1>0, <2>2, OneMore
    <3> QED
      BY <1>1, <3>1, <3>2
  <2>4. done' = t
    BY <2>1, <2>2, Zenon
  <2> QED
    BY <2>3, <2>4, Zenon
<1>3. SUFFICES ASSUME Longer PROVE InOrder' /\ Handled' = n /\ done' \in Seq(Item)
  BY <1>3a
<1>4. Handled' = n
  <2>1. Handled' = done'[Len(done')][1]
    BY <1>3, Zenon DEF Handled
  <2> QED
    BY <1>3, <2>1
<1>5. b = IF m + 1 = 1 THEN 0 ELSE done'[(m + 1) - 1][1]
  <2>1. CASE m = 0
    <3>1. done = <<>>
      BY <1>0, <1>1, <2>1, EmptySeq
    <3> QED
      BY <1>2, <2>1, <3>1 DEF Handled
  <2>2. CASE m # 0
    <3>1. done # <<>> /\ b = done[m][1] /\ m \in 1..m /\ (m + 1) - 1 = m
      BY <1>0, <1>1, <1>2, <2>2, EmptySeq DEF Handled
    <3> QED
      BY <1>3, <2>2, <3>1
  <2> QED
    BY <2>1, <2>2
<1>6. Entry(m + 1)'
  <2>1. n \in b + 1..put /\ \A i \in b + 1..n - 1 : ~Unit(i)
    BY <1>2 DEF Skipped
  <2>2. m + 1 \in Nat \ {0}
    BY <1>1
  <2> QED
    BY <1>3, <1>5, <2>1, <2>2, Added
<1>7. ASSUME NEW k \in 1..Len(done') PROVE Entry(k)'
  <2>1. CASE k = m + 1
    BY <1>6, <2>1
  <2>2. CASE k # m + 1
    <3>1. k \in 1..m
      BY <1>3, <2>2
    <3> QED
      BY <1>1, <1>3, <3>1, Kept
  <2> QED
    BY <2>1, <2>2
<1> QED
  BY <1>3, <1>4, <1>7 DEF InOrder

\* A run of text is dealt with.
LEMMA Extends ==
  ASSUME InOrder, TypeOK, UNCHANGED <<put, session>>, Handled \in Nat, Handled <= rd, Skipped(rd),
         NEW way \in {"shown", "junked"}, NEW to \in rd + 1..put,
         \A i \in rd + 1..to : IsText(input[i]) /\ ~IsCommand(input[i])
  PROVE  done' = done \o Log(way, rd, to) =>
           InOrder' /\ Handled' = to /\ done' \in Seq(Item)
<1>a. done \in Seq(Item)
  BY DEF TypeOK, Ways, Item
<1>b. put \in Nat /\ rd \in Nat /\ to \in Nat /\ to > rd
  BY Facts
<1>0. /\ done \in Seq(Item) /\ put \in Nat /\ rd \in Nat
      /\ to \in Nat /\ to > rd /\ way \in Ways
  BY <1>a, <1>b DEF Ways
<1>1. PICK m \in Nat : m = Len(done)
  BY <1>0, LenProperties
<1>2. PICK b \in Nat : b = Handled
  OBVIOUS
<1>3. PICK r \in Nat : r = rd
  BY <1>0
<1> DEFINE Longer ==
      /\ done' \in Seq(Item) /\ done' # <<>> /\ Len(done') = m + (to - r)
      /\ \A k \in 1..m : done'[k] = done[k]
      /\ \A j \in 1..to - r : done'[m + j] = <<r + j, way>>
<1>3a. ASSUME done' = done \o Log(way, rd, to) PROVE Longer
  <2>1. done' = PlusLog(done, way, r, to)
    BY <1>3, <1>3a, Zenon DEF PlusLog
  <2>2. r < to /\ way \in Ways /\ r \in Nat /\ to \in Nat /\ done \in Seq(Item)
    BY <1>0, <1>3
  <2>3. PICK t : t = PlusLog(done, way, r, to)
    OBVIOUS
  <2>4. /\ t \in Seq(Item) /\ t # <<>> /\ Len(t) = Len(done) + (to - r)
        /\ \A k \in 1..Len(done) : t[k] = done[k]
        /\ \A j \in 1..to - r : t[Len(done) + j] = <<r + j, way>>
    <3>1. /\ PlusLog(done, way, r, to) \in Seq(Item) /\ PlusLog(done, way, r, to) # <<>>
          /\ Len(PlusLog(done, way, r, to)) = Len(done) + (to - r)
      BY <2>2, ManyMore
    <3>2. \A k \in 1..Len(done) : PlusLog(done, way, r, to)[k] = done[k]
      BY <2>2, ManyMore
    <3>3. \A j \in 1..to - r : PlusLog(done, way, r, to)[Len(done) + j] = <<r + j, way>>
      BY <2>2, ManyMore
    <3> QED
      BY <2>3, <3>1, <3>2, <3>3, Zenon
  <2>5. done' = t
    BY <2>1, <2>3, Zenon
  <2> QED
    BY <1>1, <2>4, <2>5, Zenon
<1>4. SUFFICES ASSUME Longer PROVE InOrder' /\ Handled' = to /\ done' \in Seq(Item)
  BY <1>3a
<1>5. to - r \in 1..to - r /\ r + (to - r) = to /\ to - r \in Nat
  BY <1>0, <1>3
<1>6. Handled' = to
  <2>1. done'[m + (to - r)] = <<r + (to - r), way>>
    BY <1>4, <1>5
  <2> QED
    <3>1. Handled' = done'[Len(done')][1]
      BY <1>4, Zenon DEF Handled
    <3>2. Len(done') = m + (to - r)
      BY <1>4
    <3> QED
      BY <1>0, <1>3, <1>5, <2>1, <3>1, <3>2
<1>7. ASSUME NEW j \in 1..to - r PROVE Entry(m + j)'
  <2>0. j \in Nat /\ j > 0 /\ r + j \in r + 1..to /\ r + j \in r + 1..put
    BY <1>0, <1>3, <1>5
  <2>1. done'[m + j] = <<r + j, way>>
    BY <1>4
  <2>2. Unit(r + j) /\ Fits(<<r + j, way>>)
    BY <1>3, <2>0 DEF Unit, Fits
  <2>3. PICK p \in Nat : /\ p = IF m + j = 1 THEN 0 ELSE done'[(m + j) - 1][1]
                         /\ p < r + j /\ \A i \in p + 1..r + j - 1 : ~Unit(i)
    <3>1. CASE j = 1 /\ m = 0
      <4>1. b = 0
        BY <1>0, <1>1, <1>2, <3>1, EmptySeq DEF Handled
      <4>2. \A i \in 0 + 1..r + j - 1 : ~Unit(i)
        BY <1>2, <1>3, <3>1, <4>1 DEF Skipped
      <4> QED
        BY <2>0, <3>1, <4>2
    <3>2. CASE j = 1 /\ m # 0
      <4>1. done # <<>> /\ b = done[m][1] /\ m \in 1..m /\ (m + j) - 1 = m /\ m + j # 1
        BY <1>0, <1>1, <1>2, <2>0, <3>2, EmptySeq DEF Handled
      <4>2. done'[(m + j) - 1][1] = b
        BY <1>4, <4>1
      <4>3. b < r + j /\ \A i \in b + 1..r + j - 1 : ~Unit(i)
        BY <1>2, <1>3, <3>2 DEF Skipped
      <4> QED
        BY <4>1, <4>2, <4>3
    <3>3. CASE j # 1
      <4>1. j - 1 \in 1..to - r /\ m + (j - 1) = (m + j) - 1 /\ m + j # 1
        BY <1>1, <1>5, <2>0, <3>3
      <4>2. done'[(m + j) - 1] = <<r + (j - 1), way>>
        BY <1>4, <4>1
      <4>3. r + (j - 1) \in Nat /\ r + (j - 1) < r + j
        BY <1>3, <2>0, <4>1
      <4>4. \A i \in (r + (j - 1)) + 1..r + j - 1 : ~Unit(i)
        BY <1>3, <2>0
      <4> QED
        BY <4>1, <4>2, <4>3, <4>4
    <3> QED
      BY <3>1, <3>2, <3>3
  <2>4. r + j \in p + 1..put
    <3>1. p \in Nat /\ p < r + j
      BY <2>3
    <3> QED
      BY <1>0, <1>3, <2>0, <3>1
  <2>5. m + j \in Nat \ {0}
    BY <1>1, <2>0
  <2> QED
    <3>1. PICK k \in Nat \ {0} : k = m + j
      BY <2>5
    <3>2. PICK n \in Nat : n = r + j
      BY <2>0
    <3>3. Entry(k)'
      BY <2>1, <2>2, <2>3, <2>4, <3>1, <3>2, Added
    <3> QED
      BY <3>1, <3>3
<1>8. ASSUME NEW k \in 1..Len(done') PROVE Entry(k)'
  <2>1. CASE k <= m
    <3>1. k \in 1..m
      BY <2>1
    <3> QED
      BY <1>1, <1>4, <3>1, Kept
  <2>2. CASE k > m
    <3>1. k - m \in 1..to - r /\ m + (k - m) = k
      BY <1>1, <1>4, <1>5, <2>2
    <3>2. Entry(m + (k - m))'
      BY <1>7, <3>1
    <3> QED
      BY <3>1, <3>2
  <2> QED
    BY <1>1, <1>4, <2>1, <2>2
<1> QED
  BY <1>4, <1>6, <1>8 DEF InOrder

-----------------------------------------------------------------------------
(* The steps *)

Kinds == {"idle", "loop", "chars", "escape", "restore", "pump", "after",
          "box", "lastbox", "junk", "junk1"}

\* What a session is stays so.
LEMMA Same ==
  ASSUME UNCHANGED session
  PROVE  /\ input' = input /\ Telnet' = Telnet /\ (Orderly' <=> Orderly)
         /\ \A p : Stands(p)' <=> Stands(p)
         /\ \A p : Uncut(p)' <=> Uncut(p)
         /\ \A i : Unit(i)' <=> Unit(i)
<1>1. input' = input /\ Telnet' = Telnet
  BY DEF input, Telnet
<1>2. \A i : Follows(i)' <=> Follows(i)
  BY <1>1 DEF Follows
<1>3. Orderly' <=> Orderly
  BY <1>1, <1>2 DEF Orderly
<1>4. \A p : Stands(p)' <=> Stands(p)
  BY <1>1 DEF Stands
<1>5. \A p : Uncut(p)' <=> Uncut(p)
  BY <1>1 DEF Uncut
<1>6. \A i : Unit(i)' <=> Unit(i)
  BY <1>1 DEF Unit, IsText, IsCommand
<1> QED
  BY <1>1, <1>3, <1>4, <1>5, <1>6

\* How the parser of commands leaves the reader
BrokenOff ==
  /\ rd' = put /\ UNCHANGED <<mk, done>>
  /\ rd + 1 = put \/ (rd + 2 = put /\ input[rd + 2] = "DO")

Obeyed(p) ==
  /\ p <= put /\ rd' = p /\ mk' = p /\ done' = Append(done, <<p, "obeyed">>)

NotTaken ==
  /\ rd + 2 <= put /\ UNCHANGED <<mk, done>>
  /\ \/ IsIAC(input[rd + 2]) /\ rd' = rd + 1
     \/ input[rd + 2] \notin {"IAC", "NOP", "DO"} /\ rd' = rd + 2

LEMMA Negotiates ==
  ASSUME TypeOK, rd < put, TelnetNegotiate
  PROVE  /\ put' = put /\ charsReceived' \in BOOLEAN
         /\ \/ BrokenOff
            \/ input[rd + 2] = "NOP" /\ Obeyed(rd + 2)
            \/ input[rd + 2] = "DO" /\ Obeyed(rd + 3)
            \/ NotTaken
<1>0. rd \in Nat /\ put \in Nat
  BY Facts
<1>1. put' = put /\ charsReceived' \in BOOLEAN
  <2>1. \E p : ReadTo(p)
    BY DEF TelnetNegotiate
  <2> QED
    BY <2>1 DEF ReadTo
<1>2. CASE ~(rd + 2 <= put)
  <2>1. rd + 1 = put
    BY <1>0, <1>2
  <2>2. rd' = put /\ UNCHANGED <<mk, done>>
    BY <1>2 DEF TelnetNegotiate, ReadTo
  <2> QED
    BY <1>1, <2>1, <2>2 DEF BrokenOff
<1>3. CASE rd + 2 <= put
  <2>1. CASE input[rd + 2] = "NOP"
    <3>1. rd' = rd + 2 /\ mk' = rd' /\ done' = Append(done, <<rd + 2, "obeyed">>)
      BY <1>3, <2>1 DEF TelnetNegotiate, ReadTo, IsIAC
    <3> QED
      BY <1>1, <1>3, <2>1, <3>1 DEF Obeyed
  <2>2. CASE input[rd + 2] = "DO"
    <3>1. CASE rd + 3 <= put
      <4>1. rd' = rd + 3 /\ mk' = rd' /\ done' = Append(done, <<rd + 3, "obeyed">>)
        BY <1>3, <2>2, <3>1 DEF TelnetNegotiate, ReadTo, IsIAC
      <4> QED
        BY <1>1, <2>2, <3>1, <4>1 DEF Obeyed
    <3>2. CASE ~(rd + 3 <= put)
      <4>1. rd + 2 = put
        BY <1>0, <1>3, <3>2
      <4>2. rd' = put /\ UNCHANGED <<mk, done>>
        BY <1>3, <2>2, <3>2 DEF TelnetNegotiate, ReadTo, IsIAC
      <4> QED
        BY <1>1, <2>2, <4>1, <4>2 DEF BrokenOff
    <3> QED
      BY <3>1, <3>2
  <2>3. CASE input[rd + 2] \notin {"NOP", "DO"}
    <3>1. /\ UNCHANGED <<mk, done>>
          /\ \/ IsIAC(input[rd + 2]) /\ rd' = rd + 1
             \/ input[rd + 2] \notin {"IAC", "NOP", "DO"} /\ rd' = rd + 2
      BY <1>3, <2>3 DEF TelnetNegotiate, ReadTo, IsIAC
    <3> QED
      BY <1>1, <1>3, <3>1 DEF NotTaken
  <2> QED
    BY <2>1, <2>2, <2>3
<1> QED
  BY <1>2, <1>3

\* Each way of it keeps the positions in order.
LEMMA NegotiatesInReach ==
  ASSUME TypeOK, rd < put, TelnetNegotiate
  PROVE  /\ put' = put /\ charsReceived' \in BOOLEAN
         /\ rd' \in 0..put /\ mk' \in 0..rd' /\ done' \in Seq(Item)
<1>0. rd \in Nat /\ put \in Nat /\ mk \in 0..rd /\ done \in Seq(Item)
  BY Facts DEF TypeOK, Item, Ways
<1>1. CASE BrokenOff
  BY <1>0, <1>1, Negotiates DEF BrokenOff
<1>2. ASSUME NEW p \in {rd + 2, rd + 3}, Obeyed(p)
      PROVE  rd' \in 0..put /\ mk' \in 0..rd' /\ done' \in Seq(Item)
  <2>1. p \in Nat
    BY <1>0
  <2>2. <<p, "obeyed">> \in Item
    BY <2>1 DEF Item, Ways
  <2>3. done' \in Seq(Item)
    BY <1>0, <1>2, <2>2, AppendProperties DEF Obeyed
  <2>4. rd' \in 0..put /\ mk' \in 0..rd'
    BY <1>0, <1>2, <2>1 DEF Obeyed
  <2> QED
    BY <2>3, <2>4
<1>3. CASE NotTaken
  BY <1>0, <1>3, Negotiates DEF NotTaken
<1> QED
  BY <1>1, <1>2, <1>3, Negotiates

\* The parts of the type invariant: what the reader's position bounds, and the rest
Positions == /\ put \in 0..Len(input) /\ rd \in 0..put /\ mk \in 0..rd
             /\ charsReceived \in BOOLEAN /\ done \in Seq(Item)

Threads ==
  /\ session \in Sessions /\ reader \in {"recv", "post"} /\ socket \in {"open", "invalid"}
  /\ errStr \in Error \cup {"none"} /\ queue \in Seq(Error \cup {"read"})
  /\ gui \in Kinds /\ errorType \in Error \cup {"none"} /\ resume \in {"idle", "pump"}
  /\ reported \in Nat /\ failures \in 0..session.failures /\ aborts \in 0..session.aborts

LEMMA Parts == TypeOK <=> Positions /\ Threads
  BY DEF TypeOK, Positions, Threads, Kinds, Item, Ways

LEMMA Numbers ==
  ASSUME TypeOK
  PROVE  \A k \in 1..Len(done) : k = 1 \/ done[k - 1][1] \in Nat
<1> SUFFICES ASSUME NEW k \in 1..Len(done), k # 1 PROVE done[k - 1][1] \in Nat
  OBVIOUS
<1>0. done \in Seq(Item)
  BY Parts DEF Positions
<1>1. k - 1 \in 1..Len(done)
  BY <1>0, LenProperties
<1> QED
  BY <1>0, <1>1, ElementOfSeq DEF Item

LEMMA ProcessesInReach ==
  ASSUME TypeOK, NEW yes \in Kinds, NEW no \in Kinds, ProcessReceived(yes, no)
  PROVE  /\ put' = put /\ rd' \in 0..put /\ mk' \in 0..rd' /\ charsReceived' \in BOOLEAN
         /\ done' \in Seq(Item) /\ gui' \in {yes, no, gui}
         /\ Telnet /\ gui' = yes => \/ rd < put /\ UNCHANGED <<put, rd>>
                                    \/ yes = no
                                    \/ gui' = gui
<1>0. Positions /\ put \in Nat
  BY Facts, Parts
<1>1. CASE Telnet /\ Nothing /\ gui' = no /\ UNCHANGED done
  BY <1>0, <1>1 DEF Nothing, Positions
<1>2. CASE Telnet /\ rd < put /\ TelnetNegotiate /\ UNCHANGED gui
  BY <1>2, NegotiatesInReach
<1>3. CASE /\ Telnet /\ rd < put /\ gui' = yes /\ charsReceived' = TRUE
           /\ UNCHANGED <<put, rd, mk, done>>
  BY <1>0, <1>3 DEF Positions
<1>4. CASE ~Telnet /\ gui' \in {yes, no} /\ UNCHANGED <<stream, done>>
  BY <1>0, <1>4 DEF Positions, stream
<1> QED
  BY <1>1, <1>2, <1>3, <1>4 DEF ProcessReceived

LEMMA TypeStep ==
  ASSUME TypeOK, Junking, [Next]_vars
  PROVE  TypeOK' /\ Junking'
<1>0. Positions /\ Threads
  BY Parts
<1>a. /\ put \in Nat /\ rd \in Nat /\ mk \in Nat /\ Len(input) \in Nat
      /\ session \in Session /\ Telnet \in BOOLEAN
  BY Facts
<1>b. session.aborts \in Nat /\ session.failures \in Nat
  BY <1>a DEF Session
<1>c. done \in Seq(Item)
  BY <1>0 DEF Positions
<1>d. SUFFICES (Positions /\ Threads /\ Junking)'
  BY Parts, PTL
<1>e. session' = session
  BY DEF Next, vars, Reader, Window, Receive, Post, Close, ReceiveError, Dispatch, Swallow,
         PumpDone, After, Loop, CharsReceived, Escape, Restore, Junk, JunkOne, Dismiss, Abort,
         Quiet, OfWindow
<1>f. input' = input /\ Telnet' = Telnet
  BY <1>e, Same
<1>g. ASSUME UNCHANGED <<put, rd, mk, done>>, charsReceived' \in BOOLEAN PROVE Positions'
  BY <1>0, <1>f, <1>g DEF Positions
<1>1. CASE Receive
  <2>1. put' \in 0..Len(input) /\ put <= put'
    BY <1>a, <1>1, InputAssumption DEF Receive
  <2>2. Positions'
    BY <1>0, <1>a, <1>f, <1>1, <2>1 DEF Receive, window, Positions
  <2>3. Threads'
    BY <1>0, <1>e, <1>1 DEF Receive, window, Threads
  <2>4. Junking'
    BY <1>a, <1>e, <1>f, <1>1, <2>1 DEF Receive, window, Junking
  <2> QED
    BY <2>2, <2>3, <2>4
<1>2. CASE Post
  <2>1. queue' \in Seq(Error \cup {"read"})
    BY <1>0, <1>2, AppendProperties DEF Post, Threads
  <2> QED
    BY <1>0, <1>e, <1>f, <1>g, <1>2, <2>1 DEF Post, stream, window, Threads, Junking, Positions
<1>3. CASE Close \/ ReceiveError
  <2>1. PICK e \in Error : Failed(e)
    BY <1>3 DEF Close, ReceiveError, Error
  <2>2. queue' \in Seq(Error \cup {"read"}) /\ errStr' \in Error \cup {"none"}
    <3>1. CASE errStr = "none"
      BY <1>0, <2>1, <3>1, AppendProperties DEF Failed, Threads
    <3>2. CASE errStr # "none"
      BY <1>0, <2>1, <3>2 DEF Failed, Threads
    <3> QED
      BY <3>1, <3>2
  <2>3. failures' \in 0..session.failures /\ socket' \in {"open", "invalid"}
    BY <1>0, <1>b, <1>3 DEF Close, ReceiveError, Threads
  <2>4. UNCHANGED <<stream, reader, window, aborts>>
    BY <1>3 DEF Close, ReceiveError
  <2> QED
    BY <1>0, <1>e, <1>f, <1>g, <2>2, <2>3, <2>4 DEF stream, window, Threads, Junking, Positions
<1>4. CASE Dispatch
  <2>1. queue' \in Seq(Error \cup {"read"})
    BY <1>0, <1>4, HeadTailProperties DEF Dispatch, Threads
  <2>2. gui' \in {"loop", "box", "after"} /\ errStr' \in {errStr, "none"} /\ reported' \in Nat
    BY <1>0, <1>4 DEF Dispatch, ShowError, Threads
  <2> QED
    BY <1>0, <1>e, <1>f, <1>g, <1>4, <2>1, <2>2
       DEF Dispatch, stream, OfWindow, Threads, Junking, Positions, Kinds
<1>5. CASE Swallow
  <2>1. queue' \in Seq(Error \cup {"read"}) /\ errorType' \in Error \cup {"none"}
    BY <1>0, <1>5, HeadTailProperties DEF Swallow, Threads
  <2> QED
    BY <1>0, <1>e, <1>f, <1>g, <1>5, <2>1 DEF Swallow, stream, OfWindow, Threads, Junking, Positions
<1>6. CASE PumpDone \/ Dismiss \/ After
  <2>1. /\ gui' \in {"loop", "after", "idle", "lastbox"} /\ errorType' \in {errorType, "none"}
        /\ errStr' \in {errStr, "none"} /\ reported' \in Nat
    BY <1>0, <1>6 DEF PumpDone, Dismiss, After, ShowError, Threads
  <2>2. UNCHANGED <<resume, done, queue, stream, reader, socket, failures, aborts>>
    BY <1>6 DEF PumpDone, Dismiss, After, OfWindow
  <2> QED
    BY <1>0, <1>e, <1>f, <1>g, <2>1, <2>2 DEF stream, Threads, Junking, Positions, Kinds
<1>7. ASSUME Quiet, gui' \in Kinds PROVE Threads'
  BY <1>0, <1>e, <1>7 DEF Quiet, OfWindow, Threads
<1>8. CASE Loop
  <2>1. /\ put' = put /\ rd' \in 0..put /\ mk' \in 0..rd' /\ charsReceived' \in BOOLEAN
        /\ done' \in Seq(Item) /\ gui' \in {"chars", "after", "loop"}
    BY <1>8, ProcessesInReach DEF Loop, Kinds
  <2>2. Quiet /\ gui' \in Kinds
    BY <1>8, <2>1 DEF Loop, Kinds
  <2> QED
    BY <1>0, <1>f, <1>7, <2>1, <2>2 DEF Positions, Junking
<1>9. CASE CharsReceived
  <2>1. gui' \in {"escape", "pump"} /\ Quiet
    BY <1>9 DEF CharsReceived
  <2>2. Positions'
    <3>1. CASE Nothing /\ UNCHANGED done
      BY <1>0, <1>g, <3>1 DEF Nothing
    <3>2. CASE UNCHANGED <<stream, done>>
      BY <1>0, <1>g, <3>2 DEF stream, Positions
    <3>3. ASSUME NEW p \in rd + 1..put, rd' = p, done' = done \o Log("shown", rd, p),
                 ReceivedDone, UNCHANGED <<put, charsReceived>>
          PROVE  Positions'
      <4>1. PlusLog(done, "shown", rd, p) \in Seq(Item)
        BY <1>a, <1>c, ManyMore DEF Ways
      <4>2. done' \in Seq(Item)
        BY <3>3, <4>1 DEF PlusLog
      <4> QED
        BY <1>0, <1>a, <1>f, <3>3, <4>2 DEF ReceivedDone, Positions
    <3> QED
      BY <1>9, <3>1, <3>2, <3>3 DEF CharsReceived
  <2> QED
    BY <1>7, <2>1, <2>2 DEF Kinds, Junking
<1>10. CASE Escape
  <2>1. gui' \in {"chars", "restore"} /\ Quiet
    BY <1>10 DEF Escape
  <2>2. Positions'
    <3>1. CASE /\ rd + 2 <= put /\ ReadTo(rd + 2) /\ ReceivedDone
               /\ done' = done \o Log("shown", rd, rd + 2)
      <4>1. PlusLog(done, "shown", rd, rd + 2) \in Seq(Item)
        BY <1>a, <1>c, ManyMore DEF Ways
      <4>2. done' \in Seq(Item)
        BY <3>1, <4>1 DEF PlusLog
      <4>3. put' = put /\ rd' = rd + 2 /\ mk' = rd' /\ charsReceived' \in BOOLEAN
        BY <3>1 DEF ReadTo, ReceivedDone
      <4> QED
        BY <1>0, <1>a, <1>f, <3>1, <4>2, <4>3 DEF Positions
    <3>2. CASE /\ rd + 2 <= put /\ rd' = rd + 1 /\ charsReceived' = TRUE
               /\ UNCHANGED <<put, mk, done>>
      BY <1>0, <1>a, <1>f, <3>2 DEF Positions
    <3>3. CASE rd + 1 = put /\ ReadTo(put) /\ UNCHANGED <<mk, done>>
      <4>1. put' = put /\ rd' = put /\ charsReceived' \in BOOLEAN
        BY <3>3 DEF ReadTo
      <4> QED
        BY <1>0, <1>a, <1>f, <3>3, <4>1 DEF Positions
    <3> QED
      BY <1>10, <3>1, <3>2, <3>3 DEF Escape
  <2> QED
    BY <1>7, <2>1, <2>2 DEF Kinds, Junking
<1>11. CASE Restore
  <2>1. Positions'
    <3>1. rd' = mk /\ charsReceived' = FALSE /\ UNCHANGED <<put, mk, done>>
      BY <1>11 DEF Restore
    <3>2. mk \in 0..put /\ mk \in 0..mk
      BY <1>0, <1>a DEF Positions
    <3> QED
      BY <1>0, <1>f, <3>1, <3>2 DEF Positions
  <2>2. gui' = "pump" /\ Quiet
    BY <1>11 DEF Restore
  <2> QED
    BY <1>7, <2>1, <2>2 DEF Kinds, Junking
<1>12. CASE Abort
  <2>1. gui' = "junk" /\ resume' \in {"idle", "pump"} /\ aborts' \in 0..session.aborts
        /\ session.aborts > 0 /\ Telnet
    BY <1>0, <1>b, <1>12 DEF Abort, Threads
  <2> QED
    BY <1>0, <1>e, <1>f, <1>g, <1>12, <2>1 DEF Abort, stream, Threads, Junking, Positions, Kinds
<1>13. CASE Junk
  <2>1. gui = "junk" /\ resume \in Kinds /\ Telnet /\ session.aborts > 0 /\ resume # "junk1"
        /\ resume # "junk" /\ ProcessReceived("junk1", resume) /\ Quiet
    BY <1>0, <1>13 DEF Junk, Junking, Threads, Kinds
  <2>2. /\ put' = put /\ rd' \in 0..put /\ mk' \in 0..rd' /\ charsReceived' \in BOOLEAN
        /\ done' \in Seq(Item) /\ gui' \in {"junk1", resume, "junk"}
        /\ gui' = "junk1" => rd < put /\ UNCHANGED <<put, rd>>
    BY <2>1, ProcessesInReach DEF Kinds
  <2>3. Positions' /\ gui' \in Kinds
    BY <1>0, <1>f, <2>1, <2>2 DEF Positions, Kinds
  <2>4. Junking'
    BY <1>e, <1>f, <2>1, <2>2 DEF Junking
  <2> QED
    BY <1>7, <2>1, <2>3, <2>4
<1>14. CASE JunkOne
  <2>1. gui = "junk1" /\ Telnet /\ rd < put /\ session.aborts > 0
    BY <1>14 DEF JunkOne, Junking
  <2>2. put' = put /\ rd' = rd + 1 /\ charsReceived' \in BOOLEAN /\ mk' = mk
    BY <1>14 DEF JunkOne, ReadTo
  <2>3. <<rd + 1, "junked">> \in Item
    BY <1>a DEF Item, Ways
  <2>4. done' \in Seq(Item)
    BY <1>c, <1>14, <2>3, AppendProperties DEF JunkOne
  <2>5. Positions'
    BY <1>0, <1>a, <1>f, <2>1, <2>2, <2>4 DEF Positions
  <2>6. gui' = "junk" /\ Quiet
    BY <1>14 DEF JunkOne
  <2> QED
    BY <1>7, <1>e, <1>f, <2>1, <2>5, <2>6 DEF Kinds, Junking
<1>15. CASE UNCHANGED vars
  BY <1>0, <1>e, <1>f, <1>g, <1>15 DEF vars, stream, window, Threads, Junking, Positions
<1> QED
  BY <1>1, <1>2, <1>3, <1>4, <1>5, <1>6, <1>8, <1>9, <1>10, <1>11, <1>12, <1>13, <1>14, <1>15
     DEF Next, Reader, Window

\* The reader and the mark have moved, and it is known what was dealt with.
LEMMA Moved ==
  ASSUME TypeOK, Orderly, Placed, UNCHANGED <<session, put>>,
         InOrder', Handled' \in Nat, Handled' <= rd', Stands(rd)', Stands(mk)', Skipped(rd)',
         session.aborts = 0 => Handled' <= mk',
         gui' # "restore",
         gui' = "escape" => rd' < put /\ input[rd' + 1] = "ESC",
         gui' = "junk1" => ~IsIAC(input[rd' + 1])
  PROVE  Placed'
<1>1. input' = input /\ Telnet' = Telnet /\ (Uncut(put)' <=> Uncut(put))
  BY Same DEF Uncut
<1> QED
  BY <1>1 DEF Placed

\* Nothing has moved.
LEMMA Still ==
  ASSUME TypeOK, Orderly, Placed, UNCHANGED <<session, put, rd, mk, done>>,
         gui' = "restore" <=> gui = "restore",
         gui' = "escape" => gui = "escape" \/ (rd < put /\ input[rd + 1] = "ESC"),
         gui' = "junk1" => gui = "junk1" \/ ~IsIAC(input[rd + 1])
  PROVE  Placed'
<1>0. put \in Nat /\ \A k \in 1..Len(done) : k = 1 \/ done[k - 1][1] \in Nat
  BY Facts, Numbers
<1>1. InOrder' /\ Handled' = Handled /\ \A p : Skipped(p)' <=> Skipped(p)
  BY <1>0, Unchanged DEF Placed
<1>2. /\ input' = input /\ Telnet' = Telnet
      /\ \A p : Stands(p)' <=> Stands(p)
      /\ \A p : Uncut(p)' <=> Uncut(p)
  BY Same
<1> QED
  BY <1>1, <1>2 DEF Placed, Skipped, Stands, Uncut

\* A command, or the beginning of one, goes by.
LEMMA NegotiatesPlaced ==
  ASSUME TypeOK, Orderly, Placed, Telnet, rd < put, IsIAC(input[rd + 1]), TelnetNegotiate,
         gui \in {"loop", "junk"}, UNCHANGED <<session, gui>>
  PROVE  Placed'
<1>0. /\ rd \in Nat /\ put \in Nat /\ mk \in 0..rd /\ Len(input) \in Nat /\ put <= Len(input)
      /\ rd + 1 <= Len(input)
  BY Facts, Parts DEF Positions
<1>1. /\ InOrder /\ Handled \in Nat /\ Handled <= rd /\ Stands(mk) /\ Skipped(rd)
      /\ (session.aborts = 0 => Handled <= mk) /\ Uncut(put) /\ session.whole
  BY <1>0 DEF Placed, Orderly
<1>2. /\ input[rd + 1] = "IAC"
      /\ rd + 2 <= Len(input) => input[rd + 2] \in {"IAC", "NOP", "DO"}
      /\ rd + 2 <= Len(input) /\ input[rd + 2] = "IAC" => Stands(rd + 1)
      /\ rd + 2 <= Len(input) /\ input[rd + 2] = "NOP" => Stands(rd + 2)
      /\ rd + 3 <= Len(input) /\ input[rd + 2] = "DO" => input[rd + 3] = "opt" /\ Stands(rd + 3)
  <2>1. rd \in Nat /\ rd < Len(input)
    BY <1>0
  <2> QED
    BY <2>1, CommandAt, Zenon
<1>3. put' = put
  BY Negotiates
<1>4. /\ \A p : Stands(p)' <=> Stands(p)
      /\ \A i : Unit(i)' <=> Unit(i)
  BY Same
<1>5. ~Unit(rd + 1) /\ Skipped(rd + 1)
  <2>1. ~Unit(rd + 1)
    BY <1>2 DEF Unit, IsText, IsCommand
  <2> QED
    BY <1>0, <1>1, <2>1 DEF Skipped
<1>6. rd + 2 <= put /\ input[rd + 2] = "DO" => Skipped(rd + 2)
  <2>1. input[rd + 2] = "DO" => ~Unit(rd + 2)
    BY DEF Unit, IsText, IsCommand
  <2> QED
    BY <1>0, <1>1, <1>5, <2>1 DEF Skipped
<1>a. ASSUME UNCHANGED done, NEW q \in Nat, rd' = q, rd <= q, mk' = mk, Stands(q), Skipped(q)
      PROVE  Placed'
  <2>1. InOrder' /\ Handled' = Handled
    BY <1>0, <1>1, <1>3, <1>a, Numbers, Unchanged
  <2>2. Stands(rd)' /\ Stands(mk)' /\ Skipped(rd)'
    BY <1>1, <1>4, <1>a, <2>1 DEF Stands, Skipped
  <2> QED
    BY <1>0, <1>1, <1>3, <1>a, <2>1, <2>2, Moved
<1>b. ASSUME NEW p \in {rd + 2, rd + 3}, Obeyed(p), Stands(p), IsCommand(input[p]), Skipped(p - 1)
      PROVE  Placed'
  <2>0. PICK n \in Nat : n = p
    BY <1>0
  <2>1. /\ n \in Handled + 1..put /\ Unit(n) /\ Fits(<<n, "obeyed">>) /\ Skipped(n - 1)
        /\ "obeyed" \in Ways /\ done' = Append(done, <<n, "obeyed">>)
    BY <1>0, <1>1, <1>b, <2>0 DEF Obeyed, Unit, Fits, Ways
  <2>2. InOrder' /\ Handled' = n
    BY <1>1, <1>3, <2>1, Appends
  <2>3. rd' = n /\ mk' = n
    BY <1>b, <2>0 DEF Obeyed
  <2>4. Stands(rd)' /\ Stands(mk)' /\ Skipped(rd)'
    BY <1>4, <1>b, <2>0, <2>2, <2>3 DEF Stands, Skipped
  <2> QED
    BY <1>3, <2>0, <2>2, <2>3, <2>4, Moved
<1>c. CASE BrokenOff
  <2>1. input[put] \in {"IAC", "DO"}
    BY <1>2, <1>c DEF BrokenOff
  <2>2. put = Len(input)
    BY <1>1, <2>1 DEF Uncut
  <2>3. Stands(put) /\ Skipped(put)
    BY <1>0, <1>5, <1>6, <1>c, <2>2 DEF Stands, BrokenOff
  <2> QED
    BY <1>0, <1>a, <1>c, <2>3 DEF BrokenOff
<1>d. CASE input[rd + 2] = "NOP" /\ Obeyed(rd + 2)
  <2>1. rd + 2 <= Len(input) /\ (rd + 2) - 1 = rd + 1
    BY <1>0, <1>d DEF Obeyed
  <2>2. Stands(rd + 2) /\ IsCommand(input[rd + 2]) /\ Skipped((rd + 2) - 1)
    BY <1>2, <1>5, <1>d, <2>1 DEF IsCommand
  <2> QED
    BY <1>b, <1>d, <2>2
<1>e. CASE input[rd + 2] = "DO" /\ Obeyed(rd + 3)
  <2>1. rd + 3 <= Len(input) /\ rd + 2 <= put /\ (rd + 3) - 1 = rd + 2
    BY <1>0, <1>e DEF Obeyed
  <2>2. Stands(rd + 3) /\ IsCommand(input[rd + 3]) /\ Skipped((rd + 3) - 1)
    BY <1>2, <1>6, <1>e, <2>1 DEF IsCommand
  <2> QED
    BY <1>b, <1>e, <2>2
<1>f. CASE NotTaken
  <2>1. rd + 2 <= Len(input)
    BY <1>0, <1>f DEF NotTaken
  <2>2. IsIAC(input[rd + 2]) /\ rd' = rd + 1 /\ UNCHANGED <<mk, done>>
    BY <1>2, <1>f, <2>1 DEF NotTaken
  <2>3. Stands(rd + 1) /\ rd + 1 \in Nat /\ rd <= rd + 1
    BY <1>0, <1>2, <2>1, <2>2 DEF IsIAC
  <2> QED
    BY <1>5, <1>a, <2>2, <2>3
<1> QED
  BY <1>c, <1>d, <1>e, <1>f, Negotiates

\* Text goes to the screen, or is junked.
LEMMA TextPlaced ==
  ASSUME TypeOK, Orderly, Placed, UNCHANGED <<session, put>>, NEW q \in rd + 1..put,
         gui \notin {"restore"}, gui' \notin {"restore", "junk1"},
         gui' = "escape" => q < put /\ input[q + 1] = "ESC",
         \A i \in rd + 1..q : IsText(input[i]) /\ ~IsCommand(input[i]), Stands(q),
         rd' = q, mk' = q, done' = done \o Log("shown", rd, q)
  PROVE  Placed'
<1>1. InOrder /\ Handled \in Nat /\ Handled <= rd /\ Skipped(rd)
  BY DEF Placed
<1>2. PICK r \in Nat : r = rd
  BY Facts
<1>3. PICK n \in Nat : n = q
  BY Facts
<1>4. InOrder' /\ Handled' = q
  <2>1. InOrder' /\ Handled' = q /\ done' \in Seq(Item)
    BY <1>1, Extends
  <2> QED
    BY <2>1
<1>5. \A p : Stands(p)' <=> Stands(p)
  BY Same
<1>6. Stands(rd)' /\ Stands(mk)' /\ Skipped(rd)'
  BY <1>3, <1>4, <1>5 DEF Stands, Skipped
<1> QED
  BY <1>3, <1>4, <1>6, Moved

\* What ProcessReceived does in the loop of EvConnectionRead and in that of
\* the junking
LEMMA ProcessesPlaced ==
  ASSUME TypeOK, Orderly, Placed, UNCHANGED session, gui \in {"loop", "junk"},
         NEW yes \in {"chars", "junk1"}, NEW no \in {"after", "idle", "pump"},
         yes = "junk1" => Telnet, ProcessReceived(yes, no)
  PROVE  Placed'
<1>1. CASE Telnet /\ Nothing /\ gui' = no /\ UNCHANGED done
  BY <1>1, Still DEF Nothing
<1>2. CASE Telnet /\ rd < put /\ IsIAC(input[rd + 1]) /\ TelnetNegotiate /\ UNCHANGED gui
  BY <1>2, NegotiatesPlaced
<1>3. CASE /\ Telnet /\ ~IsIAC(input[rd + 1]) /\ gui' = yes
           /\ UNCHANGED <<put, rd, mk, done>>
  BY <1>3, Still
<1>4. CASE ~Telnet /\ gui' \in {"chars", no} /\ UNCHANGED <<stream, done>>
  BY <1>4, Still DEF stream
<1> QED
  BY <1>1, <1>2, <1>3, <1>4 DEF ProcessReceived

LEMMA PlacedStep ==
  ASSUME TypeOK, Junking, Orderly, Placed, [Next]_vars
  PROVE  Placed'
<1>0. /\ rd \in Nat /\ put \in Nat /\ mk \in 0..rd /\ Len(input) \in Nat /\ put <= Len(input)
      /\ done \in Seq(Item) /\ session.aborts \in Nat
  BY Facts, Parts DEF Positions
<1>a. session' = session
  BY DEF Next, vars, Reader, Window, Receive, Post, Close, ReceiveError, Dispatch, Swallow,
         PumpDone, After, Loop, CharsReceived, Escape, Restore, Junk, JunkOne, Dismiss, Abort,
         Quiet, OfWindow
<1>b. input' = input /\ Telnet' = Telnet
  BY <1>a, Same
<1>c. \A p : Stands(p)' <=> Stands(p)
  BY <1>a, Same
<1>d. \A k \in 1..Len(done) : k = 1 \/ done[k - 1][1] \in Nat
  BY Numbers
<1>e. /\ InOrder /\ Handled \in Nat /\ Handled <= rd /\ Stands(rd) /\ Stands(mk)
      /\ (session.aborts = 0 => Handled <= mk)
  BY DEF Placed
<1>1. CASE Receive
  <2>1. /\ put' \in Nat /\ put <= put' /\ Uncut(put') /\ UNCHANGED <<rd, mk, gui, done>>
    BY <1>0, <1>1, InputAssumption DEF Receive, window
  <2>2. InOrder' /\ Handled' = Handled /\ \A p : Skipped(p)' <=> Skipped(p)
    BY <1>0, <1>a, <1>d, <1>e, <2>1, Unchanged
  <2>3. Uncut(put)'
    BY <1>b, <2>1, <1>a DEF Uncut
  <2>4. Skipped(rd)' <=> Skipped(rd)
    BY <1>a, <2>1, <2>2, Same DEF Skipped
  <2>5. Skipped(mk)' <=> Skipped(mk)
    BY <1>a, <2>1, <2>2, Same DEF Skipped
  <2>6. Stands(rd)' /\ Stands(mk)'
    BY <1>b, <1>e, <2>1 DEF Stands
  <2> QED
    BY <1>0, <1>a, <1>b, <2>1, <2>2, <2>3, <2>4, <2>5, <2>6 DEF Placed
<1>2. CASE Post
  BY <1>2, Still DEF Post, stream, window
<1>3. CASE Close \/ ReceiveError
  <2>1. UNCHANGED <<session, put, rd, mk, done, gui>>
    BY <1>3 DEF Close, ReceiveError, stream, window
  <2> QED
    BY <2>1, Still
<1>4. CASE Dispatch
  <2>1. UNCHANGED <<put, rd, mk, done>> /\ gui = "idle" /\ gui' \in {"loop", "box", "after"}
    BY <1>4 DEF Dispatch, ShowError, stream
  <2> QED
    BY <1>a, <2>1, Still
<1>5. CASE Swallow
  BY <1>a, <1>5, Still DEF Swallow, stream
<1>6. CASE PumpDone \/ Dismiss \/ After
  <2>1. /\ UNCHANGED <<put, rd, mk, done>> /\ gui # "restore"
        /\ gui' \in {"loop", "after", "idle", "lastbox"}
    BY <1>6 DEF PumpDone, Dismiss, After, ShowError, stream
  <2> QED
    BY <1>a, <2>1, Still
<1>7. CASE Loop
  <2>1. gui = "loop" /\ ProcessReceived("chars", "after")
    BY <1>7 DEF Loop
  <2> QED
    BY <1>a, <2>1, ProcessesPlaced
<1>8. CASE CharsReceived
  <2>0. gui = "chars"
    BY <1>8 DEF CharsReceived
  <2>1. CASE Nothing /\ gui' = "pump" /\ UNCHANGED done
    BY <1>a, <2>0, <2>1, Still DEF Nothing
  <2>2. CASE /\ rd < put /\ gui' = (IF input[rd + 1] = "ESC" THEN "escape" ELSE "pump")
             /\ UNCHANGED <<stream, done>>
    BY <1>a, <2>0, <2>2, Still DEF stream
  <2>3. ASSUME NEW p \in rd + 1..put, \A i \in rd + 1..p : ~StopsAt(input[i]),
               rd' = p, done' = done \o Log("shown", rd, p), mk' = rd', put' = put,
               gui' = (IF p < put /\ input[p + 1] = "ESC" THEN "escape" ELSE "pump")
        PROVE  Placed'
    <3>1. p \in rd + 1..Len(input)
      BY <1>0
    <3>2. (\A i \in rd + 1..p : IsText(input[i]) /\ ~IsCommand(input[i])) /\ Stands(p)
      BY <1>0, <1>e, <2>3, <3>1, TextRun
    <3>3. gui' \notin {"restore", "junk1"} /\ mk' = p /\ gui # "restore"
          /\ (gui' = "escape" => p < put /\ input[p + 1] = "ESC")
      BY <2>0, <2>3
    <3> QED
      BY <1>a, <2>3, <3>2, <3>3, TextPlaced
  <2> QED
    BY <1>8, <2>1, <2>2, <2>3 DEF CharsReceived, ReceivedDone
<1>9. CASE Escape
  <2>0. gui = "escape" /\ rd < put /\ input[rd + 1] = "ESC" /\ rd + 1 <= Len(input)
    BY <1>0, <1>9 DEF Escape, Placed
  <2>1. IsText(input[rd + 1]) /\ ~IsCommand(input[rd + 1]) /\ Stands(rd + 1)
    <3>1. Telnet => ~IsIAC(input[rd + 1])
      BY <2>0 DEF IsIAC
    <3>2. rd < Len(input)
      BY <1>0, <2>0
    <3> QED
      BY <1>0, <1>e, <3>1, <3>2, TextAt
  <2>2. session.aborts = 0
    <3>1. rd + 1 \in 1..Len(input)
      BY <1>0, <2>0
    <3> QED
      BY <1>0, <2>0, <3>1 DEF Orderly
  <2>3. CASE /\ rd + 2 <= put /\ ~(Telnet /\ IsIAC(input[rd + 2])) /\ ReadTo(rd + 2)
             /\ done' = done \o Log("shown", rd, rd + 2) /\ ReceivedDone /\ gui' = "chars"
    <3>1. PICK n \in Nat : n = rd + 1
      BY <1>0
    <3>2. n < Len(input) /\ n + 1 = rd + 2 /\ Stands(n) /\ (Telnet => ~IsIAC(input[n + 1]))
      <4>1. n < Len(input) /\ n + 1 = rd + 2
        BY <1>0, <2>3, <3>1
      <4> QED
        BY <2>1, <2>3, <3>1, <4>1, <1>0, Facts
    <3>3. IsText(input[n + 1]) /\ ~IsCommand(input[n + 1]) /\ Stands(n + 1)
      BY <3>2, TextAt
    <3>4. PICK q \in rd + 1..put : q = rd + 2
      BY <1>0, <2>3
    <3>5. \A i \in rd + 1..q : i = rd + 1 \/ i = n + 1
      BY <1>0, <3>1, <3>4
    <3>6. (\A i \in rd + 1..q : IsText(input[i]) /\ ~IsCommand(input[i])) /\ Stands(q)
      BY <2>1, <3>2, <3>3, <3>4, <3>5
    <3>7. rd' = q /\ mk' = q /\ put' = put /\ done' = done \o Log("shown", rd, q)
      BY <2>3, <3>4 DEF ReadTo, ReceivedDone
    <3> QED
      BY <1>a, <2>0, <2>3, <3>6, <3>7, TextPlaced
  <2>4. CASE /\ rd + 1 <= put /\ rd' = rd + 1 /\ put' = put /\ gui' = "restore"
             /\ UNCHANGED <<mk, done>>
    <3>1. InOrder' /\ Handled' = Handled
      BY <1>0, <1>a, <1>d, <1>e, <2>4, Unchanged
    <3>2. Skipped(mk)'
      <4>1. Skipped(rd)
        BY <2>0 DEF Placed
      <4>2. \A i : Unit(i)' <=> Unit(i)
        BY <1>a, Same
      <4> QED
        BY <1>0, <2>4, <3>1, <4>1, <4>2 DEF Skipped
    <3>3. Stands(rd)' /\ Stands(mk)'
      BY <1>b, <1>e, <2>1, <2>4 DEF Stands
    <3>4. Telnet' /\ put' > 0 => Uncut(put)'
      BY <1>a, <1>b, <2>4 DEF Placed, Uncut
    <3> QED
      BY <1>0, <1>a, <1>b, <1>e, <2>2, <2>4, <3>1, <3>2, <3>3, <3>4 DEF Placed
  <2> QED
    <3>1. \/ /\ rd + 2 <= put /\ ~(Telnet /\ IsIAC(input[rd + 2])) /\ ReadTo(rd + 2)
             /\ done' = done \o Log("shown", rd, rd + 2) /\ ReceivedDone /\ gui' = "chars"
          \/ rd + 2 <= put /\ rd' = rd + 1 /\ gui' = "restore" /\ UNCHANGED <<put, mk, done>>
          \/ rd + 1 = put /\ ReadTo(put) /\ gui' = "restore" /\ UNCHANGED <<mk, done>>
      BY <1>9 DEF Escape
    <3>2. CASE rd + 2 <= put /\ rd' = rd + 1 /\ gui' = "restore" /\ UNCHANGED <<put, mk, done>>
      BY <1>0, <2>4, <3>2
    <3>3. CASE rd + 1 = put /\ ReadTo(put) /\ gui' = "restore" /\ UNCHANGED <<mk, done>>
      BY <1>0, <2>4, <3>3 DEF ReadTo
    <3> QED
      BY <2>3, <3>1, <3>2, <3>3
<1>10. CASE Restore
  <2>1. /\ gui = "restore" /\ gui' = "pump" /\ rd' = mk /\ UNCHANGED <<put, mk, done>>
    BY <1>10 DEF Restore
  <2>2. Handled <= mk /\ Skipped(mk)
    BY <2>1 DEF Placed
  <2>3. InOrder' /\ Handled' = Handled
    BY <1>0, <1>a, <1>d, <1>e, <2>1, Unchanged
  <2>4. Stands(rd)' /\ Stands(mk)'
    BY <1>b, <1>e, <2>1 DEF Stands
  <2>5. Skipped(rd)'
    BY <1>a, <2>1, <2>2, <2>3, Same DEF Skipped
  <2> QED
    BY <1>a, <1>e, <2>1, <2>2, <2>3, <2>4, <2>5, Moved
<1>11. CASE Abort
  <2>1. UNCHANGED <<put, rd, mk, done>> /\ gui # "restore" /\ gui' = "junk"
    BY <1>11 DEF Abort, stream
  <2> QED
    BY <1>a, <2>1, Still
<1>12. CASE Junk
  <2>1. gui = "junk" /\ resume \in {"idle", "pump"} /\ Telnet /\ ProcessReceived("junk1", resume)
    BY <1>12, Parts DEF Junk, Junking, Threads
  <2> QED
    BY <1>a, <2>1, ProcessesPlaced
<1>13. CASE JunkOne
  <2>1. /\ gui = "junk1" /\ Telnet /\ rd < put /\ session.aborts > 0 /\ ~IsIAC(input[rd + 1])
        /\ Skipped(rd)
    BY <1>13 DEF JunkOne, Junking, Placed
  <2>2. put' = put /\ rd' = rd + 1 /\ mk' = mk /\ done' = Append(done, <<rd + 1, "junked">>)
        /\ gui' = "junk"
    BY <1>13 DEF JunkOne, ReadTo
  <2>3. IsText(input[rd + 1]) /\ ~IsCommand(input[rd + 1]) /\ Stands(rd + 1)
    <3>1. rd < Len(input)
      BY <1>0, <2>1
    <3> QED
      BY <1>0, <1>e, <2>1, <3>1, TextAt
  <2>4. PICK n \in Nat : n = rd + 1
    BY <1>0
  <2>5. /\ n \in Handled + 1..put /\ Unit(n) /\ Fits(<<n, "junked">>) /\ "junked" \in Ways
        /\ Skipped(n - 1) /\ done' = Append(done, <<n, "junked">>)
    <3>1. n \in Handled + 1..put /\ n - 1 = rd
      BY <1>0, <1>e, <2>1, <2>4
    <3>2. Unit(n) /\ Fits(<<n, "junked">>) /\ "junked" \in Ways
      BY <2>3, <2>4 DEF Unit, Fits, Ways
    <3> QED
      BY <2>1, <2>2, <2>4, <3>1, <3>2
  <2>6. InOrder' /\ Handled' = n
    BY <1>a, <1>e, <2>2, <2>5, Appends
  <2>7. Stands(rd)' /\ Stands(mk)' /\ Skipped(rd)'
    BY <1>c, <1>e, <2>2, <2>3, <2>4, <2>6 DEF Stands, Skipped
  <2> QED
    BY <1>0, <1>a, <2>1, <2>2, <2>4, <2>6, <2>7, Moved
<1>14. CASE UNCHANGED vars
  BY <1>14, Still DEF vars, stream, window
<1> QED
  BY <1>1, <1>2, <1>3, <1>4, <1>5, <1>6, <1>7, <1>8, <1>9, <1>10, <1>11, <1>12, <1>13, <1>14
     DEF Next, Reader, Window

-----------------------------------------------------------------------------

LEMMA Initially == Init => IInv
<1> SUFFICES ASSUME Init PROVE IInv
  OBVIOUS
<1>1. session \in Session /\ put = 0 /\ rd = 0 /\ mk = 0 /\ done = <<>> /\ gui = "idle"
  BY InputAssumption DEF Init
<1>2. /\ input \in Seq(Token) /\ session.failures \in Nat /\ session.aborts \in Nat
      /\ Len(input) \in Nat
  BY <1>1 DEF Session, input
<1>3. Len(done) = 0 /\ done \in Seq(Item)
  BY <1>1, EmptySeq
<1>4. Positions
  <2>1. charsReceived \in BOOLEAN
    BY DEF Init
  <2>2. put \in 0..Len(input) /\ rd \in 0..put /\ mk \in 0..rd
    BY <1>1, <1>2
  <2> QED
    BY <1>3, <2>1, <2>2 DEF Positions
<1>5. queue \in Seq(Error \cup {"read"})
  BY EmptySeq DEF Init
<1>6. Threads
  BY <1>2, <1>5 DEF Threads, Init, Kinds
<1>7. TypeOK
  BY <1>4, <1>6, Parts
<1>8. Junking
  BY <1>1 DEF Junking
<1>9. ASSUME Orderly PROVE Placed
  <2>1. InOrder /\ Handled = 0
    BY <1>1, <1>3 DEF InOrder, Handled
  <2>2. Skipped(0)
    BY <2>1 DEF Skipped
  <2>3. Stands(0)
    <3> SUFFICES ASSUME Telnet, 0 < Len(input) PROVE input[0 + 1] \notin {"NOP", "DO", "opt"}
      BY DEF Stands
    <3>1. input # <<>>
      BY <1>2, EmptySeq
    <3> QED
      BY <1>9, <3>1 DEF Orderly
  <2> QED
    BY <1>1, <2>1, <2>2, <2>3 DEF Placed
<1> QED
  BY <1>7, <1>8, <1>9 DEF IInv

\* Everything received is dealt with once and in order: TelnetNegotiate and
\* CharsReceived leave nothing out, and neither escape sequences given back nor
\* messages that come in between make anything count twice.
THEOREM InputHandledInOrder == Spec => []HandledInOrder
<1>1. IInv /\ [Next]_vars => IInv'
  <2> SUFFICES ASSUME IInv, [Next]_vars PROVE IInv'
    OBVIOUS
  <2>1. TypeOK' /\ Junking'
    BY TypeStep DEF IInv
  <2>2. ASSUME Orderly' PROVE Placed'
    <3>1. session' = session
      BY DEF Next, vars, Reader, Window, Receive, Post, Close, ReceiveError, Dispatch, Swallow,
             PumpDone, After, Loop, CharsReceived, Escape, Restore, Junk, JunkOne, Dismiss, Abort,
             Quiet, OfWindow
    <3>2. Orderly
      BY <2>2, <3>1, Same
    <3> QED
      BY <3>2, PlacedStep DEF IInv
  <2> QED
    BY <2>1, <2>2 DEF IInv
<1>2. IInv => HandledInOrder
  BY DEF IInv, Placed, InOrder, Entry, HandledInOrder
<1> QED
  BY Initially, <1>1, <1>2, PTL DEF Spec

-----------------------------------------------------------------------------
(* What the options of a connection hold *)

SubOf(k) == N!Sub("ENCRYPT", k, 0)
DoAuth   == N!Cmd("DO", "AUTH")
WillAuth == N!Cmd("WILL", "AUTH")
Step(k)  == N!Sub("AUTH", k, 0)
Challenge == N!Sub("AUTH", "CHALLENGE", 1)
DoEncrypt == N!Cmd("DO", "ENCRYPT")
WillEncrypt == N!Cmd("WILL", "ENCRYPT")

\* The vector the program encrypts with, in the end.
OurVector == IF negotiation.support THEN N!OurIV ELSE 0
Offer   == N!Sub("ENCRYPT", "SUPPORT", IF negotiation.support THEN 1 ELSE 0)
TheirIS == N!Sub("ENCRYPT", "IS", N!ServerIV)
OurIS   == N!Sub("ENCRYPT", "IS", N!OurIV)

Commands == {N!Cmd(c, o) : c \in {"WILL", "WONT", "DO", "DONT"}, o \in N!Option}

ToProgram ==
  Commands \cup {N!Sub("TTYPE", "SEND", 0), Offer, TheirIS}
  \cup {Step(k) : k \in {"SEND", "ACCEPT", "REJECT", "RESPONSE"}}
  \cup {SubOf(k) : k \in {"REPLY", "ENC_KEYID", "DEC_KEYID", "START", "END", "REQUEST_START", "REQUEST_END"}}

ToServer ==
  Commands \cup {N!Sub("TTYPE", "IS", 0), N!Sub("NAWS", "SIZE", 0), Challenge, N!sendSUPPORT, OurIS}
  \cup {Step(k) : k \in {"NAME", "IS AUTH", "IS NULL"}}
  \cup {SubOf(k) : k \in {"REPLY", "ENC_KEYID", "DEC_KEYID", "START", "END", "REQUEST_START", "IS NULL"}}

Ciphers == {-1, 0, 1} \X {0, 1, 2}

OnWire(M) == [m : M, cipher : Ciphers]
Wire(M) == Seq(OnWire(M))

Has(s, M) == \E i \in 1..Len(s) : s[i].m \in M
Once(s, M) == \A i, j \in 1..Len(s) : s[i].m \in M /\ s[j].m \in M => i = j

\* Whatever of M is in the sequence has something of L before it.
Preceded(s, M, L) == \A i \in 1..Len(s) : s[i].m \in M => \E j \in 1..i - 1 : s[j].m \in L

WireTyped ==
  /\ negotiation \in OptionSessions
  /\ open \in BOOLEAN /\ refused = FALSE /\ negotiated \in BOOLEAN /\ authenticated = TRUE
  /\ in \in Wire(ToProgram) /\ out \in Wire(ToServer)
  /\ will \in [N!YesNo -> BOOLEAN] /\ doo \in [N!YesNo -> BOOLEAN]
  /\ us \in [N!Option -> {"no", "yes", "wantno", "wantyes"}]
  /\ him \in [N!Option -> {"no", "yes", "wantno", "wantyes"}]
  /\ enckey \in {0, 1} /\ engine \in {N!NoEngine, 1} /\ encrypt \in BOOLEAN /\ decrypt \in BOOLEAN
  /\ encIV \in {0, OurVector} /\ decIV \in {0, N!ServerIV}
  /\ server \in [key : {0, 1}, encIV : {0, N!ServerIV}, decIV : {0, OurVector}, encrypt : BOOLEAN,
                 decrypt : BOOLEAN, ready : BOOLEAN,
                 stage : {"fresh", "refused", "accepted", "keyed", "stopped", "restarted"}]

-----------------------------------------------------------------------------
(* Authentication *)

AuthIn  == {Step("SEND"), Step("ACCEPT"), Step("REJECT"), Step("RESPONSE")}
AuthOut == {Step("IS AUTH"), Challenge}
EncryptIn  == {m \in ToProgram : m.opt = "ENCRYPT"}
EncryptOut == {m \in ToServer : m.opt = "ENCRYPT"}

\* Nothing has been said of encryption.
Untouched ==
  /\ engine = N!NoEngine /\ ~encrypt /\ ~decrypt /\ encIV = 0 /\ decIV = 0
  /\ ~server.encrypt /\ ~server.decrypt /\ ~server.ready /\ server.encIV = 0 /\ server.decIV = 0
  /\ server.stage \notin {"stopped", "restarted"}
  /\ us["ENCRYPT"] = "no" /\ him["ENCRYPT"] = "no"
  /\ ~Has(in, EncryptIn) /\ ~Has(out, EncryptOut)

\* Both ends have the key, and it will not be another one.
Keyed ==
  /\ enckey = 1 /\ server.key = 1
  /\ ~Has(in, AuthIn) /\ ~Has(out, AuthOut)
  /\ him["AUTH"] \in {"yes", "wantno"}

\* The exchange is one message, that goes back and forth.
Authenticating ==
  /\ Once(in, AuthIn) /\ Once(out, AuthOut) /\ ~(Has(in, AuthIn) /\ Has(out, AuthOut))
  /\ Has(in, {Step("SEND"), Step("ACCEPT")}) \/ Has(out, {Step("IS AUTH")}) => enckey = 0 /\ server.key = 0
  /\ Has(out, {Challenge}) => enckey = 1 /\ server.key = 0
  /\ Has(in, {Step("RESPONSE")}) => enckey = 1 /\ server.key = 1
  /\ him["AUTH"] \in {"no", "wantyes"} =>
       enckey = 0 /\ server.key = 0 /\ ~Has(in, AuthIn) /\ ~Has(out, AuthOut)
  /\ Untouched \/ Keyed

-----------------------------------------------------------------------------
(* Vectors *)

\* The server has named the ciphers it decrypts, or is about to.
Offered == encIV = OurVector \/ Has(in, {Offer})

\* The program can read the server, the server the program.
Opened == engine = 1 /\ decIV = N!ServerIV /\ server.encIV = N!ServerIV
Sealed == engine = 1 /\ encIV = OurVector /\ server.decIV = OurVector

OfferedFirst ==
  /\ him["ENCRYPT"] = "yes" => Offered
  /\ Has(out, {DoEncrypt}) \/ Has(in, {WillEncrypt}) => Offered \/ Has(out, {WillEncrypt})
  /\ Offered \/ Preceded(out, {N!sendSUPPORT}, {WillEncrypt})

InTurn ==
  /\ engine = 1 \/ Preceded(in, {Offer}, {DoEncrypt})
  /\ encIV = OurVector \/ Preceded(in, {TheirIS}, {Offer})
  /\ server.decIV = OurVector \/ Preceded(out, {SubOf("REPLY")}, {OurIS})
  /\ open /\ encIV = OurVector => server.decIV = OurVector \/ Has(out, {OurIS})

Vectors ==
  /\ Has(out, {N!sendSUPPORT, OurIS}) \/ Has(in, {TheirIS}) => engine = 1
  /\ Has(out, {OurIS}) \/ server.decIV = OurVector => encIV = OurVector
  /\ Has(out, {OurIS}) => negotiation.support
  /\ Has(in, {TheirIS}) \/ decIV = N!ServerIV => server.encIV = N!ServerIV
  /\ Has(out, {SubOf("REPLY")}) => Opened /\ encIV = OurVector
  /\ Has(in, {SubOf("REPLY"), SubOf("DEC_KEYID")}) => Sealed
  /\ Has(out, {SubOf("ENC_KEYID"), SubOf("START")}) => Sealed
  /\ encrypt \/ server.decrypt => Sealed
  /\ Has(in, {SubOf("ENC_KEYID"), SubOf("START")}) \/ Has(out, {SubOf("DEC_KEYID")}) => Opened /\ Sealed
  /\ server.ready \/ decrypt => Opened /\ Sealed
  /\ server.encrypt \/ server.stage \in {"stopped", "restarted"} => server.ready

-----------------------------------------------------------------------------
(* Ciphers *)

\* What the rest is encrypted with behind an item.
Then(item, on) ==
  IF item.m = SubOf("START") THEN on ELSE IF item.m = SubOf("END") THEN N!Plain ELSE item.cipher

\* Who reads s now reads from, and behind it reads to.
Chained(s, from, to, on) ==
  /\ s = <<>> => from = to
  /\ s # <<>> => s[1].cipher = from /\ Then(s[Len(s)], on) = to
  /\ \A i \in 1..Len(s) - 1 : s[i + 1].cipher = Then(s[i], on)

Ours   == <<1, OurVector>>
Theirs == <<1, N!ServerIV>>

\* The last of it while the program still sends.
Readable ==
  /\ Chained(in, N!OurReading, N!ServerCipher, Theirs)
  /\ IF open THEN Chained(out, N!ServerReading, N!OurCipher, Ours)
     ELSE \E to \in Ciphers : Chained(out, N!ServerReading, to, Ours)

-----------------------------------------------------------------------------
(* Options *)

\* The two directions of an option, as the server has them.
YesOrNo == {"yes", "no"}
Directions == {"his", "ours"}
State(o, d)  == IF d = "his" THEN him[o] ELSE us[o]
Held(o, d)   == IF d = "his" THEN will[o] ELSE doo[o]
Ask(o, d, q) == N!Cmd(IF d = "his" THEN IF q = "yes" THEN "DO" ELSE "DONT" ELSE IF q = "yes" THEN "WILL" ELSE "WONT", o)
Say(o, d, q) == N!Cmd(IF d = "his" THEN IF q = "yes" THEN "WILL" ELSE "WONT" ELSE IF q = "yes" THEN "DO" ELSE "DONT", o)
Asks(o, d) == {Ask(o, d, "yes"), Ask(o, d, "no")}
Says(o, d) == {Say(o, d, "yes"), Say(o, d, "no")}

Waiting(o, d) == State(o, d) \in {"wantyes", "wantno"}

\* One question at a time.
Single(o, d) ==
  /\ Once(in, Asks(o, d)) /\ Once(out, Says(o, d)) /\ ~(Has(in, Asks(o, d)) /\ Has(out, Says(o, d)))
  /\ Has(in, {Ask(o, d, "yes")}) => State(o, d) = "wantyes"
  /\ Has(in, {Ask(o, d, "no")}) => State(o, d) = "wantno"
  /\ Has(out, {Say(o, d, "yes")}) => State(o, d) = "wantyes"
  /\ Has(out, {Say(o, d, "no")}) => State(o, d) = IF o \in N!YesNo THEN "wantno" ELSE "wantyes"

\* No question is forgotten.
Answering(o, d) == open /\ Waiting(o, d) => Has(in, Asks(o, d)) \/ Has(out, Says(o, d))

\* What both ends hold is the same where nothing is on its way.
Agreeing(o, d) ==
  /\ State(o, d) = "yes" => Held(o, d)
  /\ ~negotiation.memory /\ State(o, d) = "no" => ~Held(o, d)
  /\ Has(out, {Say(o, d, "yes")}) => Held(o, d)
  /\ Has(out, {Say(o, d, "no")}) => ~Held(o, d)

\* What the program has no use for is refused.
Strange(o) == o = "OTHER" \/ (o = "AUTH" /\ ~negotiation.crypt)
Refusing(o, d) == State(o, d) \in {"no", "wantyes"} /\ ~Has(out, {Say(o, d, "yes")})

\* One direction of an option.  Encryption is never asked for, only offered.
Told(o, d) ==
  /\ o # "ENCRYPT" => Single(o, d)
  /\ o \notin {"AUTH", "ENCRYPT"} => o \in eaten \/ Answering(o, d)
  /\ o \in N!YesNo => Agreeing(o, d)
  /\ Strange(o) => Refusing(o, d)
  /\ o = "ENCRYPT" => ~Waiting(o, d)

Options ==
  /\ \A o \in N!Option, d \in Directions : Told(o, d)
  /\ negotiation.crypt => ~Has(out, {Say("AUTH", "his", "no")})
  /\ ~negotiation.crypt => Untouched

NParts == Authenticating /\ OfferedFirst /\ InTurn /\ Vectors /\ Readable /\ Options
NInv == refused = TRUE \/ (WireTyped /\ NParts)

-----------------------------------------------------------------------------
(* The messages, and who gets them *)

LEMMA CmdIs ==
  /\ \A c, o : N!Cmd(c, o).cmd = c
  /\ \A c, o : N!Cmd(c, o).opt = o
  /\ \A c, o : N!Cmd(c, o).kind = ""
  /\ \A c, o : N!Cmd(c, o).arg = 0
BY DEF N!Cmd

LEMMA SubIs ==
  /\ \A o, k, a : N!Sub(o, k, a).cmd = "SB"
  /\ \A o, k, a : N!Sub(o, k, a).opt = o
  /\ \A o, k, a : N!Sub(o, k, a).kind = k
  /\ \A o, k, a : N!Sub(o, k, a).arg = a
BY DEF N!Sub

LEMMA ProgramGets ==
  /\ Offer \in ToProgram /\ TheirIS \in ToProgram /\ N!Sub("TTYPE", "SEND", 0) \in ToProgram
  /\ \A k \in {"SEND", "ACCEPT", "REJECT", "RESPONSE"} : Step(k) \in ToProgram
  /\ \A k \in {"REPLY", "ENC_KEYID", "DEC_KEYID", "START", "END", "REQUEST_START", "REQUEST_END"} : SubOf(k) \in ToProgram
  /\ \A c \in {"WILL", "WONT", "DO", "DONT"} : \A o \in N!Option : N!Cmd(c, o) \in ToProgram
  /\ DoEncrypt \in ToProgram /\ WillEncrypt \in ToProgram
<1>1. "ENCRYPT" \in N!Option
  BY DEF N!Option
<1>2. \A c \in {"WILL", "WONT", "DO", "DONT"} : \A o \in N!Option : N!Cmd(c, o) \in Commands
  BY DEF Commands
<1>3. Commands \subseteq ToProgram
  BY DEF ToProgram
<1>4. \A k \in {"SEND", "ACCEPT", "REJECT", "RESPONSE"} : Step(k) \in ToProgram
  BY DEF ToProgram
<1>5. \A k \in {"REPLY", "ENC_KEYID", "DEC_KEYID", "START", "END", "REQUEST_START", "REQUEST_END"} :
        SubOf(k) \in ToProgram
  BY DEF ToProgram
<1>6. Offer \in ToProgram /\ TheirIS \in ToProgram /\ N!Sub("TTYPE", "SEND", 0) \in ToProgram
  BY DEF ToProgram
<1>7. DoEncrypt \in ToProgram /\ WillEncrypt \in ToProgram
  BY <1>1, <1>2, <1>3 DEF DoEncrypt, WillEncrypt
<1> QED
  BY <1>2, <1>3, <1>4, <1>5, <1>6, <1>7

LEMMA ServerGets ==
  /\ Challenge \in ToServer /\ N!sendSUPPORT \in ToServer /\ OurIS \in ToServer
  /\ N!Sub("TTYPE", "IS", 0) \in ToServer /\ N!Sub("NAWS", "SIZE", 0) \in ToServer
  /\ \A k \in {"NAME", "IS AUTH", "IS NULL"} : Step(k) \in ToServer
  /\ \A k \in {"REPLY", "ENC_KEYID", "DEC_KEYID", "START", "END", "REQUEST_START", "IS NULL"} : SubOf(k) \in ToServer
  /\ \A c \in {"WILL", "WONT", "DO", "DONT"} : \A o \in N!Option : N!Cmd(c, o) \in ToServer
  /\ DoEncrypt \in ToServer /\ WillEncrypt \in ToServer /\ WillAuth \in ToServer
<1>1. "ENCRYPT" \in N!Option /\ "AUTH" \in N!Option
  BY DEF N!Option
<1>2. \A c \in {"WILL", "WONT", "DO", "DONT"} : \A o \in N!Option : N!Cmd(c, o) \in Commands
  BY DEF Commands
<1>3. Commands \subseteq ToServer
  BY DEF ToServer
<1>4. \A k \in {"NAME", "IS AUTH", "IS NULL"} : Step(k) \in ToServer
  BY DEF ToServer
<1>5. \A k \in {"REPLY", "ENC_KEYID", "DEC_KEYID", "START", "END", "REQUEST_START", "IS NULL"} :
        SubOf(k) \in ToServer
  BY DEF ToServer
<1>6. Challenge \in ToServer /\ N!sendSUPPORT \in ToServer /\ OurIS \in ToServer
  BY DEF ToServer
<1>7. N!Sub("TTYPE", "IS", 0) \in ToServer /\ N!Sub("NAWS", "SIZE", 0) \in ToServer
  BY DEF ToServer
<1>8. DoEncrypt \in ToServer /\ WillEncrypt \in ToServer /\ WillAuth \in ToServer
  BY <1>1, <1>2, <1>3 DEF DoEncrypt, WillEncrypt, WillAuth
<1> QED
  BY <1>2, <1>3, <1>4, <1>5, <1>6, <1>7, <1>8

\* Those of the encryption.
LEMMA OfEncryption ==
  /\ Offer \in EncryptIn /\ TheirIS \in EncryptIn /\ DoEncrypt \in EncryptIn /\ WillEncrypt \in EncryptIn
  /\ \A k \in {"REPLY", "ENC_KEYID", "DEC_KEYID", "START", "END", "REQUEST_START", "REQUEST_END"} : SubOf(k) \in EncryptIn
  /\ N!sendSUPPORT \in EncryptOut /\ OurIS \in EncryptOut /\ DoEncrypt \in EncryptOut /\ WillEncrypt \in EncryptOut
  /\ \A k \in {"REPLY", "ENC_KEYID", "DEC_KEYID", "START", "END", "REQUEST_START", "IS NULL"} : SubOf(k) \in EncryptOut
<1>1. /\ Offer.opt = "ENCRYPT" /\ TheirIS.opt = "ENCRYPT" /\ DoEncrypt.opt = "ENCRYPT" /\ WillEncrypt.opt = "ENCRYPT"
      /\ N!sendSUPPORT.opt = "ENCRYPT" /\ OurIS.opt = "ENCRYPT" /\ \A k : SubOf(k).opt = "ENCRYPT"
  BY DEF Offer, TheirIS, DoEncrypt, WillEncrypt, N!sendSUPPORT, OurIS, SubOf, N!Sub, N!Cmd
<1>2. /\ Offer \in EncryptIn /\ TheirIS \in EncryptIn /\ DoEncrypt \in EncryptIn /\ WillEncrypt \in EncryptIn
      /\ \A k \in {"REPLY", "ENC_KEYID", "DEC_KEYID", "START", "END", "REQUEST_START", "REQUEST_END"} : SubOf(k) \in EncryptIn
  BY <1>1, ProgramGets DEF EncryptIn
<1>3. /\ N!sendSUPPORT \in EncryptOut /\ OurIS \in EncryptOut /\ DoEncrypt \in EncryptOut /\ WillEncrypt \in EncryptOut
      /\ \A k \in {"REPLY", "ENC_KEYID", "DEC_KEYID", "START", "END", "REQUEST_START", "IS NULL"} : SubOf(k) \in EncryptOut
  BY <1>1, ServerGets DEF EncryptOut
<1> QED
  BY <1>2, <1>3

-----------------------------------------------------------------------------
(* What a step does to a sequence, seen by kinds of messages *)

\* t is s without its first message h.
Took(s, t, h) ==
  /\ \A M : Has(s, M) <=> h \in M \/ Has(t, M)
  /\ \A M : Once(s, M) => Once(t, M) /\ (h \in M => ~Has(t, M))
  /\ \A M, L : Preceded(s, M, L) => h \notin M /\ (h \notin L => Preceded(t, M, L))

\* t is s with the message a behind it.
Put(s, t, a) ==
  /\ \A M : Has(t, M) <=> Has(s, M) \/ a \in M
  /\ \A M : Once(s, M) /\ (a \in M => ~Has(s, M)) => Once(t, M)
  /\ \A M, L : Preceded(s, M, L) /\ (a \in M => Has(s, L)) => Preceded(t, M, L)

\* Of the messages K there are the same in both.
Away(s, t, K) ==
  \A M : M \subseteq K =>
    /\ Has(s, M) <=> Has(t, M)
    /\ Once(s, M) => Once(t, M)
    /\ \A L : L \subseteq K => (Preceded(s, M, L) => Preceded(t, M, L))

\* Of the messages K there is a more.
Brings(s, t, a, K) ==
  \A M : M \subseteq K =>
    /\ Has(t, M) <=> Has(s, M) \/ a \in M
    /\ Once(s, M) /\ (a \in M => ~Has(s, M)) => Once(t, M)

LEMMA TookTail ==
  ASSUME NEW S, NEW s \in Seq(S), s # <<>>
  PROVE  Took(s, Tail(s), Head(s).m)
<1>1. Len(s) \in Nat /\ Len(s) >= 1 /\ Len(Tail(s)) = Len(s) - 1 /\ Head(s) = s[1]
  OBVIOUS
<1>2. \A i \in 1..Len(s) - 1 : Tail(s)[i] = s[i + 1]
  OBVIOUS
<1>3. ASSUME NEW M PROVE Has(s, M) <=> Head(s).m \in M \/ Has(Tail(s), M)
  <2>1. ASSUME NEW i \in 1..Len(s), s[i].m \in M, i # 1 PROVE Has(Tail(s), M)
    <3>1. i - 1 \in 1..Len(Tail(s)) /\ Tail(s)[i - 1] = s[i]
      BY <1>1, <1>2, <2>1
    <3> QED
      BY <3>1, <2>1 DEF Has
  <2>2. ASSUME NEW i \in 1..Len(Tail(s)), Tail(s)[i].m \in M PROVE Has(s, M)
    <3>1. i + 1 \in 1..Len(s) /\ Tail(s)[i] = s[i + 1]
      BY <1>1, <1>2
    <3> QED
      BY <3>1, <2>2 DEF Has
  <2> QED
    BY <1>1, <2>1, <2>2 DEF Has
<1>4. ASSUME NEW M, Once(s, M) PROVE Once(Tail(s), M) /\ (Head(s).m \in M => ~Has(Tail(s), M))
  BY <1>1, <1>2, <1>4 DEF Has, Once
<1>5. ASSUME NEW M, NEW L, Preceded(s, M, L)
      PROVE  Head(s).m \notin M /\ (Head(s).m \notin L => Preceded(Tail(s), M, L))
  <2>1. Head(s).m \notin M
    BY <1>1, <1>5 DEF Preceded
  <2>2. ASSUME Head(s).m \notin L, NEW i \in 1..Len(Tail(s)), Tail(s)[i].m \in M
        PROVE  \E j \in 1..i - 1 : Tail(s)[j].m \in L
    <3>1. i + 1 \in 1..Len(s) /\ s[i + 1].m \in M
      BY <1>1, <1>2, <2>2
    <3>2. PICK j \in 1..i : s[j].m \in L
      BY <3>1, <1>5 DEF Preceded
    <3>3. j # 1
      BY <3>2, <2>2, <1>1
    <3>4. j - 1 \in 1..i - 1 /\ Tail(s)[j - 1] = s[j]
      BY <3>2, <3>3, <2>2, <1>1, <1>2
    <3> QED
      BY <3>2, <3>4
  <2> QED
    BY <2>1, <2>2 DEF Preceded
<1> QED
  BY <1>3, <1>4, <1>5 DEF Took

LEMMA PutAppend ==
  ASSUME NEW S, NEW s \in Seq(S), NEW x \in S
  PROVE  Put(s, Append(s, x), x.m)
<1> DEFINE t == Append(s, x)
           n == Len(s)
<1>1. n \in Nat /\ Len(t) = n + 1 /\ t[n + 1] = x /\ \A i \in 1..n : t[i] = s[i]
  BY AppendProperties
<1>2. /\ \A i \in 1..n : i \in 1..Len(t) /\ t[i] = s[i]
      /\ n + 1 \in 1..Len(t)
      /\ \A i \in 1..Len(t) : i \in 1..n \/ (i = n + 1 /\ t[i] = x)
  BY <1>1
<1> HIDE DEF t
<1>3. ASSUME NEW M PROVE Has(t, M) <=> Has(s, M) \/ x.m \in M
  BY <1>1, <1>2 DEF Has
<1>4. ASSUME NEW M, Once(s, M), x.m \in M => ~Has(s, M) PROVE Once(t, M)
  BY <1>1, <1>2, <1>4 DEF Once, Has
<1>5. ASSUME NEW M, NEW L, Preceded(s, M, L), x.m \in M => Has(s, L) PROVE Preceded(t, M, L)
  <2> SUFFICES ASSUME NEW i \in 1..Len(t), t[i].m \in M PROVE \E j \in 1..i - 1 : t[j].m \in L
    BY DEF Preceded
  <2>1. PICK j \in 1..n : j \in 1..i - 1 /\ s[j].m \in L
    <3>1. CASE i \in 1..n
      BY <3>1, <1>1, <1>2, <1>5 DEF Preceded
    <3>2. CASE i = n + 1
      BY <3>2, <1>1, <1>2, <1>5 DEF Has
    <3> QED
      BY <3>1, <3>2, <1>2
  <2> QED
    BY <2>1, <1>2
<1> QED
  BY <1>3, <1>4, <1>5 DEF Put, t

LEMMA TookAway == ASSUME NEW s, NEW t, NEW h, NEW K, Took(s, t, h), h \notin K PROVE Away(s, t, K)
BY DEF Took, Away

LEMMA PutAway == ASSUME NEW s, NEW t, NEW a, NEW K, Put(s, t, a), a \notin K PROVE Away(s, t, K)
BY DEF Put, Away

LEMMA SameAway == ASSUME NEW s, NEW K PROVE Away(s, s, K)
BY DEF Away

LEMMA FarAway == ASSUME NEW s, NEW t, NEW u, NEW K, Away(s, t, K), Away(t, u, K) PROVE Away(s, u, K)
BY DEF Away

LEMMA PutBrings ==
  ASSUME NEW s, NEW t, NEW u, NEW a, NEW K, Put(s, t, a), Away(t, u, K)
  PROVE  Brings(s, u, a, K)
BY DEF Put, Away, Brings

\* Messages as they are sent.
Packet(a, c) == [m |-> a, cipher |-> c]
Packed(msgs, c) == [i \in DOMAIN msgs |-> [m |-> msgs[i], cipher |-> c]]

LEMMA Packing0 == ASSUME NEW c PROVE Packed(<<>>, c) = <<>>
BY DEF Packed

LEMMA Packing1 == ASSUME NEW a, NEW c PROVE Packed(<<a>>, c) = <<Packet(a, c)>>
<1>1. DOMAIN <<a>> = {1}
  OBVIOUS
<1> QED
  BY <1>1 DEF Packed, Packet

LEMMA Packing2 == ASSUME NEW a, NEW b, NEW c PROVE Packed(<<a, b>>, c) = <<Packet(a, c), Packet(b, c)>>
<1>1. DOMAIN <<a, b>> = {1, 2}
  OBVIOUS
<1> QED
  BY <1>1 DEF Packed, Packet

LEMMA Packing3 ==
  ASSUME NEW a, NEW b, NEW d, NEW c PROVE Packed(<<a, b, d>>, c) = <<Packet(a, c), Packet(b, c), Packet(d, c)>>
<1>1. DOMAIN <<a, b, d>> = {1, 2, 3}
  OBVIOUS
<1> QED
  BY <1>1 DEF Packed, Packet

LEMMA Sending0 == ASSUME NEW S, NEW s \in Seq(S), NEW c PROVE s \o Packed(<<>>, c) = s
BY ConcatEmptySeq, Packing0

LEMMA Sending1 ==
  ASSUME NEW S, NEW s \in Seq(S), NEW a, NEW c, Packet(a, c) \in S
  PROVE  s \o Packed(<<a>>, c) = Append(s, Packet(a, c))
<1>1. Packed(<<a>>, c) = <<Packet(a, c)>>
  BY Packing1
<1>2. s \o <<Packet(a, c)>> = Append(s, Packet(a, c))
  OBVIOUS
<1> QED
  BY <1>1, <1>2

LEMMA Sending2 ==
  ASSUME NEW S, NEW s \in Seq(S), NEW a, NEW b, NEW c, Packet(a, c) \in S, Packet(b, c) \in S
  PROVE  s \o Packed(<<a, b>>, c) = Append(Append(s, Packet(a, c)), Packet(b, c))
<1>1. Packed(<<a, b>>, c) = <<Packet(a, c), Packet(b, c)>>
  BY Packing2
<1>2. s \o <<Packet(a, c), Packet(b, c)>> = Append(Append(s, Packet(a, c)), Packet(b, c))
  OBVIOUS
<1> QED
  BY <1>1, <1>2

LEMMA Sending3 ==
  ASSUME NEW S, NEW s \in Seq(S), NEW a, NEW b, NEW d, NEW c, Packet(a, c) \in S, Packet(b, c) \in S, Packet(d, c) \in S
  PROVE  s \o Packed(<<a, b, d>>, c) = Append(Append(Append(s, Packet(a, c)), Packet(b, c)), Packet(d, c))
<1>1. Packed(<<a, b, d>>, c) = <<Packet(a, c), Packet(b, c), Packet(d, c)>>
  BY Packing3
<1>2. s \o <<Packet(a, c), Packet(b, c), Packet(d, c)>> = Append(Append(Append(s, Packet(a, c)), Packet(b, c)), Packet(d, c))
  OBVIOUS
<1> QED
  BY <1>1, <1>2

LEMMA ChainTail ==
  ASSUME NEW S, NEW s \in Seq(S), s # <<>>, NEW from, NEW to, NEW on, Chained(s, from, to, on)
  PROVE  Head(s).cipher = from /\ Chained(Tail(s), Then(Head(s), on), to, on)
<1> DEFINE t == Tail(s)
           n == Len(s)
<1>1. n \in Nat /\ n >= 1 /\ Len(t) = n - 1 /\ Head(s) = s[1] /\ \A i \in 1..n - 1 : t[i] = s[i + 1]
  OBVIOUS
<1>2. t \in Seq(S)
  OBVIOUS
<1>3. t = <<>> <=> n = 1
  <2> HIDE DEF t
  <2>1. t = <<>> <=> Len(t) = 0
    BY <1>2, EmptySeq
  <2> QED
    BY <1>1, <2>1
<1> HIDE DEF t, n
<1>4. t = <<>> => Then(Head(s), on) = to
  BY <1>1, <1>3 DEF Chained, n
<1>5. ASSUME t # <<>> PROVE t[1].cipher = Then(Head(s), on) /\ Then(t[Len(t)], on) = to
  <2>1. t[1] = s[2] /\ s[2].cipher = Then(s[1], on)
    BY <1>1, <1>3, <1>5 DEF Chained, n
  <2>2. t[n - 1] = s[n] /\ Then(s[n], on) = to
    BY <1>1, <1>3, <1>5 DEF Chained, n
  <2> QED
    BY <1>1, <2>1, <2>2
<1>6. ASSUME NEW i \in 1..Len(t) - 1 PROVE t[i + 1].cipher = Then(t[i], on)
  <2>1. i \in 1..n - 1 /\ i + 1 \in 1..n - 1
    BY <1>1
  <2>2. PICK j \in 1..n - 1 : j = i + 1
    BY <2>1
  <2>3. t[j] = s[j + 1] /\ t[i] = s[j]
    BY <2>1, <2>2, <1>1
  <2>4. s[j + 1].cipher = Then(s[j], on)
    BY <2>2 DEF Chained, n
  <2> QED
    BY <2>2, <2>3, <2>4
<1>7. Head(s).cipher = from
  BY <1>1 DEF Chained
<1> QED
  BY <1>4, <1>5, <1>6, <1>7 DEF Chained, t

LEMMA ChainAppend ==
  ASSUME NEW S, NEW s \in Seq(S), NEW from, NEW on, NEW x \in S, Chained(s, from, x.cipher, on)
  PROVE  Chained(Append(s, x), from, Then(x, on), on)
<1> DEFINE t == Append(s, x)
           n == Len(s)
<1>1. n \in Nat /\ Len(t) = n + 1 /\ t[n + 1] = x /\ \A i \in 1..n : t[i] = s[i]
  BY AppendProperties
<1>2. t # <<>>
  BY AppendProperties
<1>3. s = <<>> <=> n = 0
  BY EmptySeq
<1> HIDE DEF t, n
<1>4. t[1].cipher = from
  <2>1. CASE n = 0
    BY <2>1, <1>1, <1>3 DEF Chained
  <2>2. CASE n # 0
    BY <2>2, <1>1, <1>3 DEF Chained
  <2> QED
    BY <2>1, <2>2
<1>5. ASSUME NEW i \in 1..Len(t) - 1 PROVE t[i + 1].cipher = Then(t[i], on)
  <2>1. CASE i = n
    <3>1. Then(s[n], on) = x.cipher
      BY <2>1, <1>1, <1>3, <1>5 DEF Chained, n
    <3> QED
      BY <3>1, <2>1, <1>1, <1>5
  <2>2. CASE i # n
    <3>1. PICK j \in 1..n : j = i + 1 /\ i \in 1..n /\ i \in 1..n - 1
      BY <2>2, <1>1, <1>5
    <3>2. s[i + 1].cipher = Then(s[i], on)
      BY <3>1 DEF Chained, n
    <3> QED
      BY <3>1, <3>2, <1>1
  <2> QED
    BY <2>1, <2>2
<1> QED
  BY <1>1, <1>2, <1>4, <1>5 DEF Chained, t

-----------------------------------------------------------------------------
(* What a step of either end does to the two wires *)

\* A message h is taken from the wire s, and its reader reads on behind it.
Takes(s, t, h, from, on) ==
  /\ Took(s, t, h)
  /\ \A to : Chained(s, from, to, on) => Chained(t, Then(Packet(h, from), on), to, on)

\* A message a is put on the wire s, encrypted with c.
Puts(s, t, a, c, on) ==
  /\ Put(s, t, a)
  /\ \A from : Chained(s, from, c, on) => Chained(t, from, Then(Packet(a, c), on), on)

ProgramSends(a) ==
  /\ out' \in Wire(ToServer)
  /\ IF open THEN Puts(out, out', a, N!OurCipher, Ours) ELSE out' = out
ProgramSendsTwo(a, b) ==
  /\ out' \in Wire(ToServer)
  /\ IF open THEN \E u : Puts(out, u, a, N!OurCipher, Ours) /\ Puts(u, out', b, N!OurCipher, Ours)
     ELSE out' = out
ProgramSendsThree(a, b, d) ==
  /\ out' \in Wire(ToServer)
  /\ IF open THEN \E u, v : Puts(out, u, a, N!OurCipher, Ours) /\ Puts(u, v, b, N!OurCipher, Ours)
                            /\ Puts(v, out', d, N!OurCipher, Ours)
     ELSE out' = out

ServerSends(a) == in' \in Wire(ToProgram) /\ Puts(in, in', a, N!ServerCipher, Theirs)
ServerSendsTwo(a, b) ==
  /\ in' \in Wire(ToProgram)
  /\ \E u : Puts(in, u, a, N!ServerCipher, Theirs) /\ Puts(u, in', b, N!ServerCipher, Theirs)

LEMMA TakeHead ==
  ASSUME NEW M, NEW s \in Wire(M), s # <<>>, NEW from, NEW on
  PROVE  /\ Takes(s, Tail(s), Head(s).m, from, on)
         /\ Tail(s) \in Wire(M) /\ Head(s).m \in M
<1>1. s \in Seq(OnWire(M))
  BY DEF Wire
<1>2. Took(s, Tail(s), Head(s).m)
  BY <1>1, TookTail
<1>3. Tail(s) \in Wire(M) /\ Head(s).m \in M
  <2>1. Head(s) \in OnWire(M) /\ Tail(s) \in Seq(OnWire(M))
    BY <1>1, HeadTailProperties
  <2> QED
    BY <2>1 DEF Wire, OnWire
<1>4. ASSUME NEW to, Chained(s, from, to, on)
      PROVE  Chained(Tail(s), Then(Packet(Head(s).m, from), on), to, on)
  <2>1. Head(s).cipher = from /\ Chained(Tail(s), Then(Head(s), on), to, on)
    BY <1>1, <1>4, ChainTail
  <2>2. Then(Head(s), on) = Then(Packet(Head(s).m, from), on)
    BY <2>1 DEF Then, Packet
  <2> QED
    BY <2>1, <2>2
<1> QED
  BY <1>2, <1>3, <1>4 DEF Takes

LEMMA PutItem ==
  ASSUME NEW M, NEW s \in Wire(M), NEW a \in M, NEW c \in Ciphers, NEW on
  PROVE  Append(s, Packet(a, c)) \in Wire(M) /\ Puts(s, Append(s, Packet(a, c)), a, c, on)
<1>1. s \in Seq(OnWire(M))
  BY DEF Wire
<1>2. Packet(a, c) \in OnWire(M) /\ Packet(a, c).m = a /\ Packet(a, c).cipher = c
  BY DEF Packet, OnWire
<1>3. Append(s, Packet(a, c)) \in Wire(M)
  BY <1>1, <1>2 DEF Wire
<1>4. Put(s, Append(s, Packet(a, c)), a)
  BY <1>1, <1>2, PutAppend
<1>5. ASSUME NEW from, Chained(s, from, c, on)
      PROVE  Chained(Append(s, Packet(a, c)), from, Then(Packet(a, c), on), on)
  BY <1>1, <1>2, <1>5, ChainAppend
<1> QED
  BY <1>3, <1>4, <1>5 DEF Puts

LEMMA CiphersTyped == WireTyped => N!OurCipher \in Ciphers /\ N!ServerCipher \in Ciphers
BY DEF WireTyped, Ciphers, N!OurCipher, N!ServerCipher, N!Plain, N!NoEngine, N!OurIV, N!ServerIV, OurVector

LEMMA SendingOut ==
  ASSUME WireTyped, refused' = FALSE, NEW msgs, N!SendReply(msgs)
  PROVE  out' = IF open THEN out \o Packed(msgs, N!OurCipher) ELSE out
BY DEF WireTyped, N!SendReply, N!Sent, Packed

LEMMA SendOne ==
  ASSUME WireTyped, refused' = FALSE, NEW a \in ToServer, N!SendReply(<<a>>)
  PROVE  ProgramSends(a)
<1>1. out' = IF open THEN out \o Packed(<<a>>, N!OurCipher) ELSE out
  BY SendingOut
<1>2. out \in Wire(ToServer) /\ N!OurCipher \in Ciphers /\ Packet(a, N!OurCipher) \in OnWire(ToServer)
  BY CiphersTyped DEF WireTyped, Packet, OnWire
<1>3. out \o Packed(<<a>>, N!OurCipher) = Append(out, Packet(a, N!OurCipher))
  <2>1. out \in Seq(OnWire(ToServer))
    BY <1>2 DEF Wire
  <2> QED
    BY <2>1, <1>2, Sending1
<1> QED
  BY <1>1, <1>2, <1>3, PutItem DEF ProgramSends

LEMMA SendTwo ==
  ASSUME WireTyped, refused' = FALSE, NEW a \in ToServer, NEW b \in ToServer, N!SendReply(<<a, b>>)
  PROVE  ProgramSendsTwo(a, b)
<1> DEFINE u == Append(out, Packet(a, N!OurCipher))
           v == Append(u, Packet(b, N!OurCipher))
<1>1. out' = IF open THEN out \o Packed(<<a, b>>, N!OurCipher) ELSE out
  BY SendingOut
<1>2. /\ out \in Wire(ToServer) /\ N!OurCipher \in Ciphers
      /\ Packet(a, N!OurCipher) \in OnWire(ToServer)
      /\ Packet(b, N!OurCipher) \in OnWire(ToServer)
  BY CiphersTyped DEF WireTyped, Packet, OnWire
<1>3. out \o Packed(<<a, b>>, N!OurCipher) = v
  <2>1. out \in Seq(OnWire(ToServer))
    BY <1>2 DEF Wire
  <2> QED
    BY <2>1, <1>2, Sending2
<1>4. u \in Wire(ToServer) /\ Puts(out, u, a, N!OurCipher, Ours)
  BY <1>2, PutItem
<1>5. v \in Wire(ToServer) /\ Puts(u, v, b, N!OurCipher, Ours)
  BY <1>2, <1>4, PutItem
<1> HIDE DEF u, v
<1> QED
  BY <1>1, <1>2, <1>3, <1>4, <1>5 DEF ProgramSendsTwo

LEMMA SendThree ==
  ASSUME WireTyped, refused' = FALSE, NEW a \in ToServer, NEW b \in ToServer, NEW d \in ToServer,
         N!SendReply(<<a, b, d>>)
  PROVE  ProgramSendsThree(a, b, d)
<1> DEFINE u == Append(out, Packet(a, N!OurCipher))
           v == Append(u, Packet(b, N!OurCipher))
           w == Append(v, Packet(d, N!OurCipher))
<1>1. out' = IF open THEN out \o Packed(<<a, b, d>>, N!OurCipher) ELSE out
  BY SendingOut
<1>2. /\ out \in Wire(ToServer) /\ N!OurCipher \in Ciphers
      /\ Packet(a, N!OurCipher) \in OnWire(ToServer)
      /\ Packet(b, N!OurCipher) \in OnWire(ToServer)
      /\ Packet(d, N!OurCipher) \in OnWire(ToServer)
  BY CiphersTyped DEF WireTyped, Packet, OnWire
<1>3. out \o Packed(<<a, b, d>>, N!OurCipher) = w
  <2>1. out \in Seq(OnWire(ToServer))
    BY <1>2 DEF Wire
  <2> QED
    BY <2>1, <1>2, Sending3
<1>4. u \in Wire(ToServer) /\ Puts(out, u, a, N!OurCipher, Ours)
  BY <1>2, PutItem
<1>5. v \in Wire(ToServer) /\ Puts(u, v, b, N!OurCipher, Ours)
  BY <1>2, <1>4, PutItem
<1>6. w \in Wire(ToServer) /\ Puts(v, w, d, N!OurCipher, Ours)
  BY <1>2, <1>5, PutItem
<1> HIDE DEF u, v, w
<1> QED
  BY <1>1, <1>2, <1>3, <1>4, <1>5, <1>6 DEF ProgramSendsThree

LEMMA SendNone ==
  ASSUME WireTyped, refused' = FALSE, N!SendReply(<<>>)
  PROVE  out' = out
<1>1. out' = IF open THEN out \o Packed(<<>>, N!OurCipher) ELSE out
  BY SendingOut
<1>2. out \o Packed(<<>>, N!OurCipher) = out
  BY Sending0 DEF WireTyped, Wire
<1> QED
  BY <1>1, <1>2

LEMMA SayOne ==
  ASSUME WireTyped, NEW a \in ToProgram, N!Says(<<a>>)
  PROVE  ServerSends(a)
<1>1. in' = in \o Packed(<<a>>, N!ServerCipher)
  BY DEF N!Says, Packed
<1>2. in \in Wire(ToProgram) /\ N!ServerCipher \in Ciphers /\ Packet(a, N!ServerCipher) \in OnWire(ToProgram)
  BY CiphersTyped DEF WireTyped, Packet, OnWire
<1>3. in \o Packed(<<a>>, N!ServerCipher) = Append(in, Packet(a, N!ServerCipher))
  <2>1. in \in Seq(OnWire(ToProgram))
    BY <1>2 DEF Wire
  <2> QED
    BY <2>1, <1>2, Sending1
<1> QED
  BY <1>1, <1>2, <1>3, PutItem DEF ServerSends

LEMMA SayTwo ==
  ASSUME WireTyped, NEW a \in ToProgram, NEW b \in ToProgram, N!Says(<<a, b>>)
  PROVE  ServerSendsTwo(a, b)
<1> DEFINE u == Append(in, Packet(a, N!ServerCipher))
           v == Append(u, Packet(b, N!ServerCipher))
<1>1. in' = in \o Packed(<<a, b>>, N!ServerCipher)
  BY DEF N!Says, Packed
<1>2. /\ in \in Wire(ToProgram) /\ N!ServerCipher \in Ciphers
      /\ Packet(a, N!ServerCipher) \in OnWire(ToProgram)
      /\ Packet(b, N!ServerCipher) \in OnWire(ToProgram)
  BY CiphersTyped DEF WireTyped, Packet, OnWire
<1>3. in \o Packed(<<a, b>>, N!ServerCipher) = v
  <2>1. in \in Seq(OnWire(ToProgram))
    BY <1>2 DEF Wire
  <2> QED
    BY <2>1, <1>2, Sending2
<1>4. u \in Wire(ToProgram) /\ Puts(in, u, a, N!ServerCipher, Theirs)
  BY <1>2, PutItem
<1>5. v \in Wire(ToProgram) /\ Puts(u, v, b, N!ServerCipher, Theirs)
  BY <1>2, <1>4, PutItem
<1> HIDE DEF u, v
<1> QED
  BY <1>1, <1>2, <1>3, <1>4, <1>5 DEF ServerSendsTwo

LEMMA SayNone == ASSUME WireTyped, N!Says(<<>>) PROVE in' = in
<1>1. in' = in \o Packed(<<>>, N!ServerCipher)
  BY DEF N!Says, Packed
<1> QED
  BY <1>1, Sending0 DEF WireTyped, Wire

-----------------------------------------------------------------------------
(* What a step keeps that is about other messages *)

AuthMessages    == AuthIn \cup AuthOut
EncryptMessages == EncryptIn \cup EncryptOut

LEMMA SameSession ==
  ASSUME negotiation' = negotiation
  PROVE  /\ OurVector' = OurVector /\ Offer' = Offer /\ Ours' = Ours
         /\ ToProgram' = ToProgram /\ EncryptIn' = EncryptIn
<1>1. OurVector' = OurVector /\ Offer' = Offer
  BY DEF OurVector, Offer
<1>2. ToProgram' = ToProgram /\ Ours' = Ours
  BY <1>1 DEF ToProgram, Ours
<1> QED
  BY <1>1, <1>2 DEF EncryptIn

LEMMA UntouchedBeside ==
  ASSUME Untouched, negotiation' = negotiation, Away(in, in', EncryptMessages), Away(out, out', EncryptMessages),
         UNCHANGED <<engine, encIV, decIV, encrypt, decrypt>>,
         us'["ENCRYPT"] = us["ENCRYPT"], him'["ENCRYPT"] = him["ENCRYPT"],
         server'.encrypt = server.encrypt, server'.decrypt = server.decrypt, server'.ready = server.ready,
         server'.encIV = server.encIV, server'.decIV = server.decIV,
         server'.stage = server.stage \/ server'.stage \notin {"stopped", "restarted"}
  PROVE  Untouched'
<1>1. EncryptIn \subseteq EncryptMessages /\ EncryptOut \subseteq EncryptMessages
  BY DEF EncryptMessages
<1>2. ~Has(in', EncryptIn) /\ ~Has(out', EncryptOut)
  BY <1>1 DEF Untouched, Away
<1> QED
  BY <1>2, SameSession DEF Untouched

LEMMA AuthenticatingBeside ==
  ASSUME Authenticating, Away(in, in', AuthMessages), Away(out, out', AuthMessages),
         enckey' = enckey, server'.key = server.key, him'["AUTH"] = him["AUTH"], Untouched => Untouched'
  PROVE  Authenticating'
<1>1. /\ AuthIn \subseteq AuthMessages /\ AuthOut \subseteq AuthMessages
      /\ {Step("SEND"), Step("ACCEPT")} \subseteq AuthMessages /\ {Step("RESPONSE")} \subseteq AuthMessages
      /\ {Step("IS AUTH")} \subseteq AuthMessages /\ {Challenge} \subseteq AuthMessages
  BY DEF AuthMessages, AuthIn, AuthOut
<1>2. /\ Has(in', AuthIn) <=> Has(in, AuthIn)
      /\ Has(out', AuthOut) <=> Has(out, AuthOut)
      /\ Has(in', {Step("SEND"), Step("ACCEPT")}) <=> Has(in, {Step("SEND"), Step("ACCEPT")})
      /\ Has(in', {Step("RESPONSE")}) <=> Has(in, {Step("RESPONSE")})
      /\ Has(out', {Step("IS AUTH")}) <=> Has(out, {Step("IS AUTH")})
      /\ Has(out', {Challenge}) <=> Has(out, {Challenge})
      /\ Once(in, AuthIn) => Once(in', AuthIn)
      /\ Once(out, AuthOut) => Once(out', AuthOut)
  BY <1>1 DEF Away
<1>3. Keyed => Keyed'
  BY <1>2 DEF Keyed
<1> QED
  BY <1>2, <1>3 DEF Authenticating

\* The server may have moved, if not from one side to the other.
LEMMA AuthenticatingMoved ==
  ASSUME Authenticating, Away(in, in', AuthMessages), Away(out, out', AuthMessages),
         enckey' = enckey, server'.key = server.key, Untouched => Untouched',
         \/ him'["AUTH"] \in {"yes", "wantno"} /\ him["AUTH"] \in {"yes", "wantno"}
         \/ him'["AUTH"] \in {"no", "wantyes"} /\ him["AUTH"] \in {"no", "wantyes"}
  PROVE  Authenticating'
<1>1. /\ AuthIn \subseteq AuthMessages /\ AuthOut \subseteq AuthMessages
      /\ {Step("SEND"), Step("ACCEPT")} \subseteq AuthMessages /\ {Step("RESPONSE")} \subseteq AuthMessages
      /\ {Step("IS AUTH")} \subseteq AuthMessages /\ {Challenge} \subseteq AuthMessages
  BY DEF AuthMessages, AuthIn, AuthOut
<1>2. /\ Has(in', AuthIn) <=> Has(in, AuthIn)
      /\ Has(out', AuthOut) <=> Has(out, AuthOut)
      /\ Has(in', {Step("SEND"), Step("ACCEPT")}) <=> Has(in, {Step("SEND"), Step("ACCEPT")})
      /\ Has(in', {Step("RESPONSE")}) <=> Has(in, {Step("RESPONSE")})
      /\ Has(out', {Step("IS AUTH")}) <=> Has(out, {Step("IS AUTH")})
      /\ Has(out', {Challenge}) <=> Has(out, {Challenge})
      /\ Once(in, AuthIn) => Once(in', AuthIn)
      /\ Once(out, AuthOut) => Once(out', AuthOut)
  BY <1>1 DEF Away
<1>3. Keyed => Keyed'
  BY <1>2 DEF Keyed
<1> QED
  BY <1>2, <1>3 DEF Authenticating

LEMMA EncryptingBeside ==
  ASSUME OfferedFirst, InTurn, Vectors, negotiation' = negotiation,
         Away(in, in', EncryptMessages), Away(out, out', EncryptMessages),
         UNCHANGED <<engine, encIV, decIV, encrypt, decrypt>>, him'["ENCRYPT"] = him["ENCRYPT"], open' => open,
         server'.encrypt = server.encrypt, server'.decrypt = server.decrypt, server'.ready = server.ready,
         server'.encIV = server.encIV, server'.decIV = server.decIV,
         server'.stage = server.stage \/ server'.stage \notin {"stopped", "restarted"}
  PROVE  OfferedFirst' /\ InTurn' /\ Vectors'
<1>1. /\ {Offer} \subseteq EncryptMessages /\ {DoEncrypt} \subseteq EncryptMessages
      /\ {WillEncrypt} \subseteq EncryptMessages /\ {N!sendSUPPORT} \subseteq EncryptMessages
      /\ {TheirIS} \subseteq EncryptMessages /\ {OurIS} \subseteq EncryptMessages
      /\ {N!sendSUPPORT, OurIS} \subseteq EncryptMessages
  BY OfEncryption DEF EncryptMessages
<1>2. /\ {SubOf("REPLY")} \subseteq EncryptMessages /\ {SubOf("START")} \subseteq EncryptMessages
      /\ {SubOf("DEC_KEYID")} \subseteq EncryptMessages
      /\ {SubOf("REPLY"), SubOf("DEC_KEYID")} \subseteq EncryptMessages
      /\ {SubOf("ENC_KEYID"), SubOf("START")} \subseteq EncryptMessages
  BY OfEncryption DEF EncryptMessages
<1>3. OfferedFirst'
  BY <1>1, SameSession DEF OfferedFirst, Away, Offered
<1>4. InTurn'
  BY <1>1, <1>2, SameSession DEF InTurn, Away
<1>5. Vectors'
  BY <1>1, <1>2, SameSession DEF Vectors, Away, Opened, Sealed
<1> QED
  BY <1>3, <1>4, <1>5

-----------------------------------------------------------------------------
(* One direction of an option *)

LEMMA HasEither == ASSUME NEW s, NEW a, NEW b PROVE Has(s, {a, b}) <=> Has(s, {a}) \/ Has(s, {b})
BY DEF Has

LEMMA AskOrSay ==
  ASSUME NEW o, NEW d
  PROVE  /\ Has(in, Asks(o, d)) <=> Has(in, {Ask(o, d, "yes")}) \/ Has(in, {Ask(o, d, "no")})
         /\ Has(out, Says(o, d)) <=> Has(out, {Say(o, d, "yes")}) \/ Has(out, {Say(o, d, "no")})
         /\ Has(in', Asks(o, d)) <=> Has(in', {Ask(o, d, "yes")}) \/ Has(in', {Ask(o, d, "no")})
         /\ Has(out', Says(o, d)) <=> Has(out', {Say(o, d, "yes")}) \/ Has(out', {Say(o, d, "no")})
BY HasEither DEF Asks, Says, YesOrNo

\* A command tells its option, and its direction.
LEMMA AskIs ==
  ASSUME NEW o
  PROVE  /\ Ask(o, "his", "yes")   = N!Cmd("DO", o)   /\ Say(o, "his", "yes")   = N!Cmd("WILL", o)
         /\ Ask(o, "his", "no")  = N!Cmd("DONT", o) /\ Say(o, "his", "no")  = N!Cmd("WONT", o)
         /\ Ask(o, "ours", "yes")  = N!Cmd("WILL", o) /\ Say(o, "ours", "yes")  = N!Cmd("DO", o)
         /\ Ask(o, "ours", "no") = N!Cmd("WONT", o) /\ Say(o, "ours", "no") = N!Cmd("DONT", o)
BY DEF Ask, Say

LEMMA AskOther ==
  ASSUME NEW o, NEW d \in Directions
  PROVE  /\ \A m \in Asks(o, d) : m.opt = o /\ m.cmd \in IF d = "his" THEN {"DO", "DONT"} ELSE {"WILL", "WONT"}
         /\ \A m \in Says(o, d) : m.opt = o /\ m.cmd \in IF d = "his" THEN {"WILL", "WONT"} ELSE {"DO", "DONT"}
<1>1. CASE d = "his"
  <2>1. Asks(o, d) = {N!Cmd("DO", o), N!Cmd("DONT", o)} /\ Says(o, d) = {N!Cmd("WILL", o), N!Cmd("WONT", o)}
    BY <1>1, AskIs DEF Asks, Says
  <2>2. \A m \in Asks(o, d) : m.opt = o /\ m.cmd \in {"DO", "DONT"}
    BY <2>1, CmdIs
  <2>3. \A m \in Says(o, d) : m.opt = o /\ m.cmd \in {"WILL", "WONT"}
    BY <2>1, CmdIs
  <2> QED
    BY <1>1, <2>2, <2>3
<1>2. CASE d = "ours"
  <2>1. Asks(o, d) = {N!Cmd("WILL", o), N!Cmd("WONT", o)} /\ Says(o, d) = {N!Cmd("DO", o), N!Cmd("DONT", o)}
    BY <1>2, AskIs DEF Asks, Says
  <2>2. \A m \in Asks(o, d) : m.opt = o /\ m.cmd \in {"WILL", "WONT"}
    BY <2>1, CmdIs
  <2>3. \A m \in Says(o, d) : m.opt = o /\ m.cmd \in {"DO", "DONT"}
    BY <2>1, CmdIs
  <2> QED
    BY <1>2, <2>2, <2>3
<1> QED
  BY <1>1, <1>2 DEF Directions

\* And what it says.
LEMMA AskYesNo ==
  ASSUME NEW o, NEW d \in Directions
  PROVE  Ask(o, d, "yes") # Ask(o, d, "no") /\ Say(o, d, "yes") # Say(o, d, "no")
<1>1. Ask(o, d, "yes").cmd = IF d = "his" THEN "DO" ELSE "WILL"
  BY CmdIs DEF Ask
<1>2. Ask(o, d, "no").cmd = IF d = "his" THEN "DONT" ELSE "WONT"
  BY CmdIs DEF Ask
<1>3. Say(o, d, "yes").cmd = IF d = "his" THEN "WILL" ELSE "DO"
  BY CmdIs DEF Say
<1>4. Say(o, d, "no").cmd = IF d = "his" THEN "WONT" ELSE "DONT"
  BY CmdIs DEF Say
<1> QED
  BY <1>1, <1>2, <1>3, <1>4

LEMMA ToldBeside ==
  ASSUME NEW o, NEW d, Told(o, d), Away(in, in', Asks(o, d)), Away(out, out', Says(o, d)), open' => open,
         o \in eaten => o \in eaten',
         negotiation' = negotiation, State(o, d)' = State(o, d), o \in N!YesNo => Held(o, d)' = Held(o, d)
  PROVE  Told(o, d)'
<1>1. /\ {Ask(o, d, "yes")} \subseteq Asks(o, d) /\ {Ask(o, d, "no")} \subseteq Asks(o, d)
      /\ {Say(o, d, "yes")} \subseteq Says(o, d) /\ {Say(o, d, "no")} \subseteq Says(o, d)
  BY DEF Asks, Says, YesOrNo
<1>2. /\ Has(in', Asks(o, d)) <=> Has(in, Asks(o, d))
      /\ Has(out', Says(o, d)) <=> Has(out, Says(o, d))
      /\ Has(in', {Ask(o, d, "yes")}) <=> Has(in, {Ask(o, d, "yes")})
      /\ Has(in', {Ask(o, d, "no")}) <=> Has(in, {Ask(o, d, "no")})
      /\ Has(out', {Say(o, d, "yes")}) <=> Has(out, {Say(o, d, "yes")})
      /\ Has(out', {Say(o, d, "no")}) <=> Has(out, {Say(o, d, "no")})
      /\ Once(in, Asks(o, d)) => Once(in', Asks(o, d))
      /\ Once(out, Says(o, d)) => Once(out', Says(o, d))
  BY <1>1 DEF Away, YesOrNo
<1>3. o # "ENCRYPT" => Single(o, d)'
  BY <1>2 DEF Told, Single, YesOrNo
<1>4. o \notin {"AUTH", "ENCRYPT"} => o \in eaten' \/ Answering(o, d)'
  BY <1>2 DEF Told, Answering, Waiting, YesOrNo
<1>5. o \in N!YesNo => Agreeing(o, d)'
  BY <1>2 DEF Told, Agreeing, YesOrNo
<1>6. Strange(o)' => Refusing(o, d)'
  BY <1>2 DEF Told, Strange, Refusing, YesOrNo
<1>7. o = "ENCRYPT" => ~Waiting(o, d)'
  BY DEF Told, Waiting, YesOrNo
<1> QED
  BY <1>3, <1>4, <1>5, <1>6, <1>7 DEF Told, YesOrNo

\* The program has answered q with r.
LEMMA ToldAnswered ==
  ASSUME NEW o \in N!Option \ {"ENCRYPT"}, NEW d \in Directions, NEW q \in YesOrNo, NEW r \in YesOrNo, Told(o, d),
         Took(in, in', Ask(o, d, q)), IF open THEN Brings(out, out', Say(o, d, r), Says(o, d)) ELSE out' = out,
         open' = open, negotiation' = negotiation, State(o, d)' = State(o, d),
         o \in N!YesNo => Held(o, d)' = (q = "yes") /\ r = q,
         Strange(o) => q = "yes" /\ r = "no", o = "AUTH" /\ ~Strange(o) => q = "yes" /\ r = "yes"
  PROVE  Told(o, d)'
<1>1. Ask(o, d, q) \in Asks(o, d) /\ Say(o, d, r) \in Says(o, d)
  BY DEF Asks, Says, YesOrNo
<1>2. Ask(o, d, "yes") # Ask(o, d, "no") /\ Say(o, d, "yes") # Say(o, d, "no")
  BY AskYesNo
<1>2a. Says(o, d) \subseteq Says(o, d) /\ {Say(o, d, "yes")} \subseteq Says(o, d) /\ {Say(o, d, "no")} \subseteq Says(o, d)
  BY DEF Says
<1>3. Single(o, d) /\ Has(in, Asks(o, d)) /\ Has(in, {Ask(o, d, q)})
  BY <1>1 DEF Told, Took, YesOrNo
<1>4. ~Has(out, Says(o, d)) /\ ~Has(in', Asks(o, d)) /\ State(o, d) = IF q = "yes" THEN "wantyes" ELSE "wantno"
  BY <1>1, <1>3 DEF Single, Took, YesOrNo
<1>5. Once(in', Asks(o, d)) /\ Once(out', Says(o, d))
  BY <1>2a, <1>1, <1>3, <1>4 DEF Single, Took, Brings, YesOrNo
<1>6. ~Has(in', {Ask(o, d, "yes")}) /\ ~Has(in', {Ask(o, d, "no")})
  BY <1>4, AskOrSay
<1>7. /\ Has(out', {Say(o, d, "yes")}) => open /\ r = "yes"
      /\ Has(out', {Say(o, d, "no")}) => open /\ r = "no"
  <2>1. ~Has(out, {Say(o, d, "yes")}) /\ ~Has(out, {Say(o, d, "no")})
    BY <1>4, AskOrSay
  <2>2. CASE open
    <3>1. r = "yes" \/ r = "no"
      BY DEF YesOrNo
    <3>2. /\ Has(out', {Say(o, d, "yes")}) => Say(o, d, r) = Say(o, d, "yes")
          /\ Has(out', {Say(o, d, "no")}) => Say(o, d, r) = Say(o, d, "no")
      BY <1>2a, <2>1, <2>2 DEF Brings
    <3> QED
      BY <1>2, <2>2, <3>1, <3>2
  <2>3. CASE ~open
    BY <2>1, <2>3
  <2> QED
    BY <2>2, <2>3
<1>8. o \in N!YesNo \/ o = "AUTH" \/ o = "OTHER"
  BY DEF N!Option, YesOrNo
<1>9. o = "AUTH" \/ o = "OTHER" => o \notin N!YesNo
  BY DEF N!YesNo, YesOrNo
<1>10. Single(o, d)'
  <2>1. Has(out', {Say(o, d, "yes")}) => State(o, d) = "wantyes"
    BY <1>4, <1>7, <1>8 DEF Strange, YesOrNo
  <2>2. Has(out', {Say(o, d, "no")}) => State(o, d) = IF o \in N!YesNo THEN "wantno" ELSE "wantyes"
    BY <1>4, <1>7, <1>8, <1>9 DEF Strange, YesOrNo
  <2> QED
    BY <2>1, <2>2, <1>4, <1>5, <1>6 DEF Single, YesOrNo
<1>11. Answering(o, d)'
  BY <1>2a, <1>1 DEF Answering, Brings
<1>12. o \in N!YesNo => Agreeing(o, d)'
  BY <1>4, <1>7 DEF Agreeing, YesOrNo
<1>13. Strange(o)' => Refusing(o, d)'
  BY <1>4, <1>7 DEF Refusing, Strange, YesOrNo
<1> QED
  BY <1>10, <1>11, <1>12, <1>13 DEF Told, YesOrNo

\* The server has heard r.
LEMMA ToldHeard ==
  ASSUME NEW o \in N!Option \ {"ENCRYPT"}, NEW d \in Directions, NEW r \in YesOrNo, Told(o, d),
         Took(out, out', Say(o, d, r)), Away(in, in', Asks(o, d)),
         open' = open, negotiation' = negotiation, State(o, d)' = N!After(State(o, d), r = "yes", o),
         o \in N!YesNo => Held(o, d)' = Held(o, d)
  PROVE  /\ Told(o, d)' /\ State(o, d)' = r
         /\ State(o, d) \in {"wantyes", "wantno"}
<1>1. Say(o, d, r) \in Says(o, d)
  BY DEF Says, YesOrNo
<1>2. Single(o, d) /\ Has(out, Says(o, d)) /\ Has(out, {Say(o, d, r)})
  BY <1>1 DEF Told, Took, YesOrNo
<1>3. /\ ~Has(in, Asks(o, d)) /\ ~Has(out', Says(o, d))
      /\ r = "yes" => State(o, d) = "wantyes"
      /\ r = "no" => State(o, d) = IF o \in N!YesNo THEN "wantno" ELSE "wantyes"
  BY <1>1, <1>2 DEF Single, Took, YesOrNo
<1>4. ~Has(in', Asks(o, d)) /\ Once(in', Asks(o, d)) /\ Once(out', Says(o, d))
  BY <1>2, <1>3 DEF Away, Single, Took, YesOrNo
<1>5. /\ ~Has(in', {Ask(o, d, "yes")}) /\ ~Has(in', {Ask(o, d, "no")})
      /\ ~Has(out', {Say(o, d, "yes")}) /\ ~Has(out', {Say(o, d, "no")})
  BY <1>3, <1>4, AskOrSay
<1>6. State(o, d)' = r
  BY <1>3 DEF N!After, YesOrNo
<1>7. Single(o, d)'
  BY <1>3, <1>4, <1>5 DEF Single, YesOrNo
<1>8. Answering(o, d)'
  BY <1>6 DEF Answering, Waiting, YesOrNo
<1>9. o \in N!YesNo => Agreeing(o, d)'
  BY <1>2, <1>5, <1>6 DEF Agreeing, Told, YesOrNo
<1>10. Strange(o)' => Refusing(o, d)'
  BY <1>2, <1>5, <1>6 DEF Refusing, Strange, Told, YesOrNo
<1> QED
  BY <1>3, <1>6, <1>7, <1>8, <1>9, <1>10 DEF Told, YesOrNo

\* The server asks for q.
LEMMA ToldAsked ==
  ASSUME NEW o \in N!Option \ {"ENCRYPT"}, NEW d \in Directions, NEW q \in YesOrNo, Told(o, d),
         Put(in, in', Ask(o, d, q)), out' = out,
         open' = open, negotiation' = negotiation, State(o, d) = (IF q = "yes" THEN "no" ELSE "yes"),
         State(o, d)' = (IF q = "yes" THEN "wantyes" ELSE "wantno"), o \in N!YesNo => Held(o, d)' = Held(o, d)
  PROVE  Told(o, d)'
<1>1. Ask(o, d, q) \in Asks(o, d)
  BY DEF Asks, YesOrNo
<1>2. Ask(o, d, "yes") # Ask(o, d, "no")
  BY AskYesNo
<1>3. Single(o, d)
  BY DEF Told, YesOrNo
<1>4. /\ ~Has(in, Asks(o, d)) /\ ~Has(out, Says(o, d))
      /\ ~Has(out, {Say(o, d, "yes")}) /\ ~Has(out, {Say(o, d, "no")})
  BY <1>3, AskOrSay DEF Single, YesOrNo
<1>5. Once(in', Asks(o, d)) /\ Has(in', Asks(o, d))
  BY <1>1, <1>3, <1>4 DEF Single, Put, YesOrNo
<1>6. (Has(in', {Ask(o, d, "yes")}) => q = "yes") /\ (Has(in', {Ask(o, d, "no")}) => q = "no")
  BY <1>2, <1>4, AskOrSay DEF Put, YesOrNo
<1>7. Single(o, d)'
  BY <1>3, <1>4, <1>5, <1>6 DEF Single, YesOrNo
<1>8. Answering(o, d)'
  BY <1>5 DEF Answering, YesOrNo
<1>9. o \in N!YesNo => Agreeing(o, d)'
  BY <1>4 DEF Agreeing, YesOrNo
<1>10. Strange(o)' => Refusing(o, d)'
  BY <1>4 DEF Refusing, Strange, Told, YesOrNo
<1> QED
  BY <1>7, <1>8, <1>9, <1>10 DEF Told, YesOrNo

-----------------------------------------------------------------------------
(* A message is known by its command, option and kind *)

LEMMA CommandIs ==
  ASSUME NEW m \in Commands
  PROVE  /\ m = N!Cmd(m.cmd, m.opt) /\ m.cmd \in {"WILL", "WONT", "DO", "DONT"} /\ m.opt \in N!Option
         /\ m.kind = ""
<1>1. PICK c \in {"WILL", "WONT", "DO", "DONT"}, o \in N!Option : m = N!Cmd(c, o)
  BY DEF Commands
<1>2. m.cmd = c /\ m.opt = o /\ m.kind = ""
  BY <1>1, CmdIs
<1> QED
  BY <1>1, <1>2

LEMMA NamesIs ==
  /\ (\A k : Step(k).cmd = "SB") /\ (\A k : Step(k).opt = "AUTH") /\ (\A k : Step(k).kind = k)
  /\ (\A k : SubOf(k).cmd = "SB") /\ (\A k : SubOf(k).opt = "ENCRYPT") /\ (\A k : SubOf(k).kind = k)
  /\ Offer.cmd = "SB" /\ Offer.opt = "ENCRYPT" /\ Offer.kind = "SUPPORT"
  /\ Offer.arg = IF negotiation.support THEN 1 ELSE 0
  /\ TheirIS.cmd = "SB" /\ TheirIS.opt = "ENCRYPT" /\ TheirIS.kind = "IS" /\ TheirIS.arg = N!ServerIV
  /\ OurIS.cmd = "SB" /\ OurIS.opt = "ENCRYPT" /\ OurIS.kind = "IS" /\ OurIS.arg = N!OurIV
  /\ Challenge.cmd = "SB" /\ Challenge.opt = "AUTH" /\ Challenge.kind = "CHALLENGE" /\ Challenge.arg = 1
  /\ N!sendSUPPORT.cmd = "SB" /\ N!sendSUPPORT.opt = "ENCRYPT" /\ N!sendSUPPORT.kind = "SUPPORT"
  /\ DoEncrypt.cmd = "DO" /\ DoEncrypt.opt = "ENCRYPT" /\ DoEncrypt.kind = ""
  /\ WillEncrypt.cmd = "WILL" /\ WillEncrypt.opt = "ENCRYPT" /\ WillEncrypt.kind = ""
  /\ WillAuth.cmd = "WILL" /\ WillAuth.opt = "AUTH" /\ WillAuth.kind = ""
<1>1. (\A k : Step(k).cmd = "SB") /\ (\A k : Step(k).opt = "AUTH") /\ (\A k : Step(k).kind = k)
  BY DEF Step, N!Sub
<1>2. (\A k : SubOf(k).cmd = "SB") /\ (\A k : SubOf(k).opt = "ENCRYPT") /\ (\A k : SubOf(k).kind = k)
  BY DEF SubOf, N!Sub
<1>3. /\ Offer.cmd = "SB" /\ Offer.opt = "ENCRYPT" /\ Offer.kind = "SUPPORT"
      /\ Offer.arg = IF negotiation.support THEN 1 ELSE 0
  BY DEF Offer, N!Sub
<1>4. TheirIS.cmd = "SB" /\ TheirIS.opt = "ENCRYPT" /\ TheirIS.kind = "IS" /\ TheirIS.arg = N!ServerIV
  BY DEF TheirIS, N!Sub
<1>5. OurIS.cmd = "SB" /\ OurIS.opt = "ENCRYPT" /\ OurIS.kind = "IS" /\ OurIS.arg = N!OurIV
  BY DEF OurIS, N!Sub
<1>6. Challenge.cmd = "SB" /\ Challenge.opt = "AUTH" /\ Challenge.kind = "CHALLENGE" /\ Challenge.arg = 1
  BY DEF Challenge, N!Sub
<1>7. N!sendSUPPORT.cmd = "SB" /\ N!sendSUPPORT.opt = "ENCRYPT" /\ N!sendSUPPORT.kind = "SUPPORT"
  BY DEF N!sendSUPPORT, N!Sub
<1>8. /\ DoEncrypt.cmd = "DO" /\ DoEncrypt.opt = "ENCRYPT" /\ DoEncrypt.kind = ""
      /\ WillEncrypt.cmd = "WILL" /\ WillEncrypt.opt = "ENCRYPT" /\ WillEncrypt.kind = ""
      /\ WillAuth.cmd = "WILL" /\ WillAuth.opt = "AUTH" /\ WillAuth.kind = ""
  BY DEF DoEncrypt, WillEncrypt, WillAuth, N!Cmd
<1> QED
  BY <1>1, <1>2, <1>3, <1>4, <1>5, <1>6, <1>7, <1>8

StepsIn == {"SEND", "ACCEPT", "REJECT", "RESPONSE"}
SubsIn  == {"REPLY", "ENC_KEYID", "DEC_KEYID", "START", "END", "REQUEST_START", "REQUEST_END"}
StepsOut == {"NAME", "IS AUTH", "IS NULL"}
SubsOut  == {"REPLY", "ENC_KEYID", "DEC_KEYID", "START", "END", "REQUEST_START", "IS NULL"}

\* What the program gets.
LEMMA ProgramKnows ==
  ASSUME NEW m \in ToProgram
  PROVE  \/ m = N!Cmd(m.cmd, m.opt) /\ m.cmd \in {"WILL", "WONT", "DO", "DONT"} /\ m.opt \in N!Option /\ m.kind = ""
         \/ m = N!Sub("TTYPE", "SEND", 0) /\ m.cmd = "SB" /\ m.opt = "TTYPE" /\ m.kind = "SEND"
         \/ m = Offer \/ m = TheirIS
         \/ m = Step(m.kind) /\ m.kind \in StepsIn
         \/ m = SubOf(m.kind) /\ m.kind \in SubsIn
<1>1. \/ m \in Commands \/ m = N!Sub("TTYPE", "SEND", 0) \/ m = Offer \/ m = TheirIS
      \/ \E k \in StepsIn : m = Step(k)
      \/ \E k \in SubsIn : m = SubOf(k)
  BY DEF ToProgram, StepsIn, SubsIn
<1>2. ASSUME NEW k \in StepsIn, m = Step(k) PROVE m = Step(m.kind) /\ m.kind \in StepsIn
  BY <1>2, NamesIs
<1>3. ASSUME NEW k \in SubsIn, m = SubOf(k) PROVE m = SubOf(m.kind) /\ m.kind \in SubsIn
  BY <1>3, NamesIs
<1>4. ASSUME m = N!Sub("TTYPE", "SEND", 0) PROVE m.cmd = "SB" /\ m.opt = "TTYPE" /\ m.kind = "SEND"
  BY <1>4, SubIs
<1>5. ASSUME m \in Commands
      PROVE  m = N!Cmd(m.cmd, m.opt) /\ m.cmd \in {"WILL", "WONT", "DO", "DONT"} /\ m.opt \in N!Option /\ m.kind = ""
  BY <1>5, CommandIs
<1> QED
  BY <1>1, <1>2, <1>3, <1>4, <1>5

\* What the server gets.
LEMMA ServerKnows ==
  ASSUME NEW m \in ToServer
  PROVE  \/ m = N!Cmd(m.cmd, m.opt) /\ m.cmd \in {"WILL", "WONT", "DO", "DONT"} /\ m.opt \in N!Option /\ m.kind = ""
         \/ m = N!Sub("TTYPE", "IS", 0) /\ m.cmd = "SB" /\ m.opt = "TTYPE" /\ m.kind = "IS"
         \/ m = N!Sub("NAWS", "SIZE", 0) /\ m.cmd = "SB" /\ m.opt = "NAWS" /\ m.kind = "SIZE"
         \/ m = Challenge \/ m = N!sendSUPPORT \/ m = OurIS
         \/ m = Step(m.kind) /\ m.kind \in StepsOut
         \/ m = SubOf(m.kind) /\ m.kind \in SubsOut
<1>1. \/ m \in Commands \/ m = N!Sub("TTYPE", "IS", 0) \/ m = N!Sub("NAWS", "SIZE", 0)
      \/ m = Challenge \/ m = N!sendSUPPORT \/ m = OurIS
      \/ \E k \in StepsOut : m = Step(k)
      \/ \E k \in SubsOut : m = SubOf(k)
  BY DEF ToServer, StepsOut, SubsOut
<1>2. ASSUME NEW k \in StepsOut, m = Step(k) PROVE m = Step(m.kind) /\ m.kind \in StepsOut
  BY <1>2, NamesIs
<1>3. ASSUME NEW k \in SubsOut, m = SubOf(k) PROVE m = SubOf(m.kind) /\ m.kind \in SubsOut
  BY <1>3, NamesIs
<1>4. ASSUME m = N!Sub("TTYPE", "IS", 0) PROVE m.cmd = "SB" /\ m.opt = "TTYPE" /\ m.kind = "IS"
  BY <1>4, SubIs
<1>5. ASSUME m = N!Sub("NAWS", "SIZE", 0) PROVE m.cmd = "SB" /\ m.opt = "NAWS" /\ m.kind = "SIZE"
  BY <1>5, SubIs
<1>6. ASSUME m \in Commands
      PROVE  m = N!Cmd(m.cmd, m.opt) /\ m.cmd \in {"WILL", "WONT", "DO", "DONT"} /\ m.opt \in N!Option /\ m.kind = ""
  BY <1>6, CommandIs
<1> QED
  BY <1>1, <1>2, <1>3, <1>4, <1>5, <1>6

LEMMA ProgramTakes ==
  ASSUME WireTyped, NEW o, N!Receives(o)
  PROVE  /\ in' \in Wire(ToProgram) /\ N!Command \in ToProgram /\ N!Command.opt = o
         /\ Takes(in, in', N!Command, N!OurReading, Theirs)
         /\ negotiation' = negotiation /\ us' = us /\ him' = him /\ server' = server
BY TakeHead DEF WireTyped, N!Receives, N!Command, N!peer

LEMMA ServerTakes ==
  ASSUME WireTyped, N!Hears
  PROVE  /\ out' \in Wire(ToServer) /\ N!Heard \in ToServer
         /\ Takes(out, out', N!Heard, N!ServerReading, Ours)
         /\ negotiation' = negotiation /\ open' = open /\ refused' = refused
         /\ UNCHANGED <<will, doo, negotiated, authenticated, enckey, engine, encIV, decIV, encrypt, decrypt>>
BY TakeHead DEF WireTyped, N!Hears, N!Heard, N!OfServer, N!program, N!options, N!crypto

\* The program and the server read them so.
LEMMA ProgramReads ==
  ASSUME NEW m \in ToProgram
  PROVE  /\ m.cmd # "SB" => m.cmd \in {"WILL", "WONT", "DO", "DONT"} /\ m = N!Cmd(m.cmd, m.opt) /\ m.opt \in N!Option
         /\ m.cmd = "SB" => m.opt \in {"TTYPE", "AUTH", "ENCRYPT"}
         /\ m.cmd = "SB" /\ m.opt = "AUTH" => m = Step(m.kind) /\ m.kind \in StepsIn
         /\ m.cmd = "SB" /\ m.opt = "ENCRYPT" =>
              CASE m.kind = "SUPPORT" -> m = Offer
                [] m.kind = "IS" -> m = TheirIS
                [] OTHER -> m = SubOf(m.kind) /\ m.kind \in SubsIn
<1>1. CASE m = N!Cmd(m.cmd, m.opt) /\ m.cmd \in {"WILL", "WONT", "DO", "DONT"} /\ m.opt \in N!Option /\ m.kind = ""
  BY <1>1
<1>2. CASE m = N!Sub("TTYPE", "SEND", 0) /\ m.cmd = "SB" /\ m.opt = "TTYPE" /\ m.kind = "SEND"
  BY <1>2
<1>3. CASE m = Offer
  BY <1>3, NamesIs
<1>4. CASE m = TheirIS
  BY <1>4, NamesIs
<1>5. CASE m = Step(m.kind) /\ m.kind \in StepsIn
  <2>1. PICK k : m = Step(k)
    BY <1>5
  <2>2. m.cmd = "SB" /\ m.opt = "AUTH"
    BY <2>1, NamesIs
  <2> QED
    BY <1>5, <2>2
<1>6. CASE m = SubOf(m.kind) /\ m.kind \in SubsIn
  <2>1. PICK k : m = SubOf(k)
    BY <1>6
  <2>2. m.cmd = "SB" /\ m.opt = "ENCRYPT"
    BY <2>1, NamesIs
  <2>3. m.kind # "SUPPORT" /\ m.kind # "IS"
    BY <1>6 DEF SubsIn
  <2> QED
    BY <1>6, <2>2, <2>3
<1> QED
  BY <1>1, <1>2, <1>3, <1>4, <1>5, <1>6, ProgramKnows

LEMMA ServerReads ==
  ASSUME NEW m \in ToServer
  PROVE  /\ m.cmd # "SB" => m.cmd \in {"WILL", "WONT", "DO", "DONT"} /\ m = N!Cmd(m.cmd, m.opt) /\ m.opt \in N!Option
         /\ m.cmd = "SB" => m.opt \in {"TTYPE", "NAWS", "AUTH", "ENCRYPT"}
         /\ m.cmd = "SB" /\ m.opt = "AUTH" =>
              CASE m.kind = "CHALLENGE" -> m = Challenge
                [] OTHER -> m = Step(m.kind) /\ m.kind \in StepsOut
         /\ m.cmd = "SB" /\ m.opt = "ENCRYPT" =>
              CASE m.kind = "SUPPORT" -> m = N!sendSUPPORT
                [] m.kind = "IS" -> m = OurIS
                [] OTHER -> m = SubOf(m.kind) /\ m.kind \in SubsOut
<1>1. CASE m = N!Cmd(m.cmd, m.opt) /\ m.cmd \in {"WILL", "WONT", "DO", "DONT"} /\ m.opt \in N!Option /\ m.kind = ""
  BY <1>1
<1>2. CASE m.cmd = "SB" /\ m.opt \in {"TTYPE", "NAWS"}
  BY <1>2
<1>3. CASE m = Challenge
  BY <1>3, NamesIs
<1>4. CASE m = N!sendSUPPORT
  BY <1>4, NamesIs
<1>5. CASE m = OurIS
  BY <1>5, NamesIs
<1>6. CASE m = Step(m.kind) /\ m.kind \in StepsOut
  <2>1. PICK k : m = Step(k)
    BY <1>6
  <2>2. m.cmd = "SB" /\ m.opt = "AUTH"
    BY <2>1, NamesIs
  <2>3. m.kind # "CHALLENGE"
    BY <1>6 DEF StepsOut
  <2> QED
    BY <1>6, <2>2, <2>3
<1>7. CASE m = SubOf(m.kind) /\ m.kind \in SubsOut
  <2>1. PICK k : m = SubOf(k)
    BY <1>7
  <2>2. m.cmd = "SB" /\ m.opt = "ENCRYPT"
    BY <2>1, NamesIs
  <2>3. m.kind # "SUPPORT" /\ m.kind # "IS"
    BY <1>7 DEF SubsOut
  <2> QED
    BY <1>7, <2>2, <2>3
<1> QED
  BY <1>1, <1>2, <1>3, <1>4, <1>5, <1>6, <1>7, ServerKnows

-----------------------------------------------------------------------------
(* All the options *)

LEMMA AskApart ==
  ASSUME NEW o, NEW d \in Directions, NEW p, NEW e \in Directions, o # p \/ d # e
  PROVE  /\ \A m \in Asks(o, d) : m \notin Asks(p, e)
         /\ \A m \in Says(o, d) : m \notin Says(p, e)
<1>1. ASSUME NEW m \in Asks(o, d), m \in Asks(p, e) PROVE FALSE
  BY <1>1, AskOther DEF Directions
<1>2. ASSUME NEW m \in Says(o, d), m \in Says(p, e) PROVE FALSE
  BY <1>2, AskOther DEF Directions
<1> QED
  BY <1>1, <1>2

\* The commands, as what is asked or answered of a direction.
LEMMA CommandAsks ==
  ASSUME NEW c \in {"WILL", "WONT", "DO", "DONT"}, NEW o
  PROVE  \E d \in Directions, q \in YesOrNo :
           /\ N!Cmd(c, o) = Ask(o, d, q) /\ N!Cmd(N!Answer(c), o) = Say(o, d, q)
           /\ d = (IF c \in {"DO", "DONT"} THEN "his" ELSE "ours")
           /\ q = (IF c \in {"DO", "WILL"} THEN "yes" ELSE "no")
<1>1. CASE c = "WILL"
  BY <1>1, AskIs DEF N!Answer, Directions, YesOrNo
<1>2. CASE c = "WONT"
  BY <1>2, AskIs DEF N!Answer, Directions, YesOrNo
<1>3. CASE c = "DO"
  BY <1>3, AskIs DEF N!Answer, Directions, YesOrNo
<1>4. CASE c = "DONT"
  BY <1>4, AskIs DEF N!Answer, Directions, YesOrNo
<1> QED
  BY <1>1, <1>2, <1>3, <1>4

LEMMA CommandSays ==
  ASSUME NEW c \in {"WILL", "WONT", "DO", "DONT"}, NEW o
  PROVE  \E d \in Directions, r \in YesOrNo :
           /\ N!Cmd(c, o) = Say(o, d, r)
           /\ d = (IF c \in {"WILL", "WONT"} THEN "his" ELSE "ours")
           /\ r = (IF c \in {"DO", "WILL"} THEN "yes" ELSE "no")
<1>1. CASE c = "WILL"
  BY <1>1, AskIs DEF Directions, YesOrNo
<1>2. CASE c = "WONT"
  BY <1>2, AskIs DEF Directions, YesOrNo
<1>3. CASE c = "DO"
  BY <1>3, AskIs DEF Directions, YesOrNo
<1>4. CASE c = "DONT"
  BY <1>4, AskIs DEF Directions, YesOrNo
<1> QED
  BY <1>1, <1>2, <1>3, <1>4

LEMMA OptionsAnswered ==
  ASSUME Options, eaten' = eaten, NEW o \in N!Option \ {"ENCRYPT"}, NEW d \in Directions, NEW q \in YesOrNo, NEW r \in YesOrNo,
         Took(in, in', Ask(o, d, q)), IF open THEN Brings(out, out', Say(o, d, r), Says(o, d)) ELSE out' = out,
         \A p, e : e \in Directions /\ (p # o \/ e # d) => Away(out, out', Says(p, e)),
         open' = open, negotiation' = negotiation, us' = us, him' = him,
         o \in N!YesNo => Held(o, d)' = (q = "yes") /\ r = q,
         \A p \in N!YesNo, e \in Directions : p # o \/ e # d => Held(p, e)' = Held(p, e),
         Strange(o) => q = "yes" /\ r = "no", o = "AUTH" /\ ~Strange(o) => q = "yes" /\ r = "yes",
         Untouched => Untouched'
  PROVE  Options'
<1>1. \A p, e : State(p, e)' = State(p, e)
  BY DEF State
<1>2. Told(o, d)'
  BY <1>1, ToldAnswered DEF Options
<1>3. ASSUME NEW p \in N!Option, NEW e \in Directions, p # o \/ e # d PROVE Told(p, e)'
  <2>1. Ask(o, d, q) \in Asks(o, d)
    BY DEF Asks, YesOrNo
  <2>2. Ask(o, d, q) \notin Asks(p, e)
    BY <1>3, <2>1, AskApart
  <2>3. Away(in, in', Asks(p, e))
    BY <2>2, TookAway
  <2>4. Away(out, out', Says(p, e))
    BY <1>3
  <2>5. State(p, e)' = State(p, e)
    BY <1>1
  <2> QED
    BY <1>3, <2>3, <2>4, <2>5, ToldBeside DEF Options
<1>4. negotiation.crypt => ~Has(out', {Say("AUTH", "his", "no")})
  <2>1. {Say("AUTH", "his", "no")} \subseteq Says("AUTH", "his")
    BY DEF Says
  <2>2. CASE o = "AUTH" /\ d = "his"
    <3>1. negotiation.crypt => r = "yes"
      BY <2>2 DEF Strange
    <3> QED
      BY <2>1, <2>2, <3>1, AskYesNo DEF Options, Brings, Directions
  <2>3. CASE ~(o = "AUTH" /\ d = "his")
    <3>1. Away(out, out', Says("AUTH", "his"))
      BY <2>3 DEF Directions
    <3> QED
      BY <2>1, <3>1 DEF Options, Away
  <2> QED
    BY <2>2, <2>3
<1> QED
  BY <1>2, <1>3, <1>4 DEF Options

\* A step that is about no option.
LEMMA OptionsBeside ==
  ASSUME Options, eaten' = eaten, \A p, e : e \in Directions /\ p # "ENCRYPT" => Away(in, in', Asks(p, e)) /\ Away(out, out', Says(p, e)),
         open' => open, negotiation' = negotiation,
         \A p \in N!Option \ {"ENCRYPT"} : us'[p] = us[p] /\ him'[p] = him[p],
         us'["ENCRYPT"] \in {"yes", "no"} /\ him'["ENCRYPT"] \in {"yes", "no"},
         will' = will, doo' = doo, ~negotiation.crypt => Untouched'
  PROVE  Options'
<1>1. ASSUME NEW p \in N!Option \ {"ENCRYPT"}, NEW e \in Directions PROVE Told(p, e)'
  <2>1. State(p, e)' = State(p, e) /\ Held(p, e)' = Held(p, e)
    BY DEF State, Held
  <2> QED
    BY <2>1, ToldBeside DEF Options
<1>2. ASSUME NEW e \in Directions PROVE Told("ENCRYPT", e)'
  <2>1. ~Waiting("ENCRYPT", e)'
    BY DEF Waiting, State
  <2>2. "ENCRYPT" \notin N!YesNo /\ ~Strange("ENCRYPT")'
    BY DEF N!YesNo, Strange
  <2> QED
    BY <2>1, <2>2 DEF Told
<1>3. negotiation.crypt => ~Has(out', {Say("AUTH", "his", "no")})
  <2>1. {Say("AUTH", "his", "no")} \subseteq Says("AUTH", "his")
    BY DEF Says
  <2>2. Away(out, out', Says("AUTH", "his"))
    BY DEF Directions
  <2> QED
    BY <2>1, <2>2 DEF Options, Away
<1> QED
  BY <1>1, <1>2, <1>3 DEF Options

-----------------------------------------------------------------------------
(* What is sent, and what it is about *)

Switches == {SubOf("START"), SubOf("END")}

LEMMA KindsIs ==
  /\ \A m \in AuthMessages : m.cmd = "SB" /\ m.opt = "AUTH"
  /\ \A m \in EncryptMessages : m.opt = "ENCRYPT"
  /\ \A m \in Switches : m.cmd = "SB" /\ m.opt = "ENCRYPT" /\ m.kind \in {"START", "END"}
  /\ \A o, d : d \in Directions =>
       /\ \A m \in Asks(o, d) : m.cmd # "SB" /\ m.opt = o
       /\ \A m \in Says(o, d) : m.cmd # "SB" /\ m.opt = o
<1>1. \A m \in AuthMessages : m.cmd = "SB" /\ m.opt = "AUTH"
  <2>1. ASSUME NEW m \in AuthMessages PROVE m = Challenge \/ \E k \in StepsIn \cup StepsOut : m = Step(k)
    BY DEF AuthMessages, AuthIn, AuthOut, StepsIn, StepsOut
  <2>2. \A k : Step(k).cmd = "SB" /\ Step(k).opt = "AUTH"
    BY NamesIs
  <2>3. Challenge.cmd = "SB" /\ Challenge.opt = "AUTH"
    BY NamesIs
  <2> QED
    BY <2>1, <2>2, <2>3
<1>2. \A m \in EncryptMessages : m.opt = "ENCRYPT"
  BY DEF EncryptMessages, EncryptIn, EncryptOut
<1>3. \A m \in Switches : m.cmd = "SB" /\ m.opt = "ENCRYPT" /\ m.kind \in {"START", "END"}
  <2>1. ASSUME NEW m \in Switches PROVE \E k \in {"START", "END"} : m = SubOf(k)
    BY DEF Switches
  <2>2. \A k : SubOf(k).cmd = "SB" /\ SubOf(k).opt = "ENCRYPT"
    BY NamesIs
  <2>3. \A k : SubOf(k).kind = k
    BY NamesIs
  <2> QED
    BY <2>1, <2>2, <2>3
<1>4. ASSUME NEW o, NEW d \in Directions
      PROVE  /\ \A m \in Asks(o, d) : m.cmd # "SB" /\ m.opt = o
             /\ \A m \in Says(o, d) : m.cmd # "SB" /\ m.opt = o
  BY AskOther
<1> QED
  BY <1>1, <1>2, <1>3, <1>4

LEMMA ThenSame == ASSUME NEW a, NEW c, NEW on, a \notin Switches PROVE Then(Packet(a, c), on) = c
BY DEF Then, Packet, Switches

LEMMA SendsAside ==
  ASSUME NEW a, NEW K, a \notin K, ProgramSends(a)
  PROVE  Away(out, out', K)
BY PutAway, SameAway DEF ProgramSends, Puts

LEMMA SendsTwoAside ==
  ASSUME NEW a, NEW b, NEW K, a \notin K, b \notin K, ProgramSendsTwo(a, b)
  PROVE  Away(out, out', K)
<1>1. CASE open
  <2>1. PICK u : Put(out, u, a) /\ Put(u, out', b)
    BY <1>1 DEF ProgramSendsTwo, Puts
  <2>2. Away(out, u, K) /\ Away(u, out', K)
    BY <2>1, PutAway
  <2> QED
    BY <2>2, FarAway
<1>2. CASE ~open
  BY <1>2, SameAway DEF ProgramSendsTwo
<1> QED
  BY <1>1, <1>2

LEMMA SendsThreeAside ==
  ASSUME NEW a, NEW b, NEW d, NEW K, a \notin K, b \notin K, d \notin K, ProgramSendsThree(a, b, d)
  PROVE  Away(out, out', K)
<1>1. CASE open
  <2>1. PICK u, v : Put(out, u, a) /\ Put(u, v, b) /\ Put(v, out', d)
    BY <1>1 DEF ProgramSendsThree, Puts
  <2>2. Away(out, u, K) /\ Away(u, v, K) /\ Away(v, out', K)
    BY <2>1, PutAway
  <2> QED
    BY <2>2, FarAway
<1>2. CASE ~open
  BY <1>2, SameAway DEF ProgramSendsThree
<1> QED
  BY <1>1, <1>2

LEMMA SendsChain ==
  ASSUME open, NEW from, Chained(out, from, N!OurCipher, Ours)
  PROVE  /\ \A a : ProgramSends(a) => Chained(out', from, Then(Packet(a, N!OurCipher), Ours), Ours)
         /\ \A a, b : ProgramSendsTwo(a, b) /\ a \notin Switches =>
                        Chained(out', from, Then(Packet(b, N!OurCipher), Ours), Ours)
         /\ \A a, b, d : ProgramSendsThree(a, b, d) /\ a \notin Switches /\ b \notin Switches =>
                           Chained(out', from, Then(Packet(d, N!OurCipher), Ours), Ours)
<1>1. ASSUME NEW a, ProgramSends(a) PROVE Chained(out', from, Then(Packet(a, N!OurCipher), Ours), Ours)
  BY <1>1 DEF ProgramSends, Puts
<1>2. ASSUME NEW a, NEW b, ProgramSendsTwo(a, b), a \notin Switches
      PROVE  Chained(out', from, Then(Packet(b, N!OurCipher), Ours), Ours)
  <2>1. PICK u : Puts(out, u, a, N!OurCipher, Ours) /\ Puts(u, out', b, N!OurCipher, Ours)
    BY <1>2 DEF ProgramSendsTwo
  <2>2. Chained(u, from, N!OurCipher, Ours)
    BY <1>2, <2>1, ThenSame DEF Puts
  <2> QED
    BY <2>1, <2>2 DEF Puts
<1>3. ASSUME NEW a, NEW b, NEW d, ProgramSendsThree(a, b, d), a \notin Switches, b \notin Switches
      PROVE  Chained(out', from, Then(Packet(d, N!OurCipher), Ours), Ours)
  <2>1. PICK u, v : /\ Puts(out, u, a, N!OurCipher, Ours) /\ Puts(u, v, b, N!OurCipher, Ours)
                    /\ Puts(v, out', d, N!OurCipher, Ours)
    BY <1>3 DEF ProgramSendsThree
  <2>2. Chained(u, from, N!OurCipher, Ours)
    BY <1>3, <2>1, ThenSame DEF Puts
  <2>3. Chained(v, from, N!OurCipher, Ours)
    BY <1>3, <2>1, <2>2, ThenSame DEF Puts
  <2> QED
    BY <2>1, <2>3 DEF Puts
<1> QED
  BY <1>1, <1>2, <1>3

LEMMA SaysAside ==
  ASSUME NEW a, NEW K, a \notin K, ServerSends(a)
  PROVE  Away(in, in', K)
BY PutAway DEF ServerSends, Puts

LEMMA SaysTwoAside ==
  ASSUME NEW a, NEW b, NEW K, a \notin K, b \notin K, ServerSendsTwo(a, b)
  PROVE  Away(in, in', K)
<1>1. PICK u : Put(in, u, a) /\ Put(u, in', b)
  BY DEF ServerSendsTwo, Puts
<1>2. Away(in, u, K) /\ Away(u, in', K)
  BY <1>1, PutAway
<1> QED
  BY <1>2, FarAway

LEMMA SaysChain ==
  ASSUME NEW from, Chained(in, from, N!ServerCipher, Theirs)
  PROVE  /\ \A a : ServerSends(a) => Chained(in', from, Then(Packet(a, N!ServerCipher), Theirs), Theirs)
         /\ \A a, b : ServerSendsTwo(a, b) /\ a \notin Switches =>
                        Chained(in', from, Then(Packet(b, N!ServerCipher), Theirs), Theirs)
<1>1. ASSUME NEW a, ServerSends(a) PROVE Chained(in', from, Then(Packet(a, N!ServerCipher), Theirs), Theirs)
  BY <1>1 DEF ServerSends, Puts
<1>2. ASSUME NEW a, NEW b, ServerSendsTwo(a, b), a \notin Switches
      PROVE  Chained(in', from, Then(Packet(b, N!ServerCipher), Theirs), Theirs)
  <2>1. PICK u : Puts(in, u, a, N!ServerCipher, Theirs) /\ Puts(u, in', b, N!ServerCipher, Theirs)
    BY <1>2 DEF ServerSendsTwo
  <2>2. Chained(u, from, N!ServerCipher, Theirs)
    BY <1>2, <2>1, ThenSame DEF Puts
  <2> QED
    BY <2>1, <2>2 DEF Puts
<1> QED
  BY <1>1, <1>2

LEMMA ReadableStep ==
  ASSUME Readable, WireTyped, negotiation' = negotiation,
         Chained(in', N!OurReading', N!ServerCipher', Theirs),
         N!ServerReading' = N!ServerReading,
         IF open' THEN open /\ \A from : Chained(out, from, N!OurCipher, Ours) => Chained(out', from, N!OurCipher', Ours)
         ELSE out' = out
  PROVE  Readable'
<1>1. Theirs' = Theirs /\ Ours' = Ours
  BY SameSession DEF Theirs, N!ServerIV
<1>2. CASE open'
  BY <1>1, <1>2 DEF Readable
<1>3. CASE ~open'
  <2>1. \E to \in Ciphers : Chained(out, N!ServerReading, to, Ours)
    BY CiphersTyped DEF Readable
  <2> QED
    BY <1>1, <1>3, <2>1 DEF Readable
<1> QED
  BY <1>2, <1>3

\* A step of the program that switches nothing.
LEMMA ReadableBeside ==
  ASSUME Readable, WireTyped, negotiation' = negotiation, UNCHANGED <<engine, encIV, decIV, encrypt, decrypt, server>>,
         NEW h, h \notin Switches, Takes(in, in', h, N!OurReading, Theirs),
         \/ out' = out /\ (open' => open)
         \/ open' = open /\ \E a \in ToServer : a \notin Switches /\ ProgramSends(a)
         \/ open' = open /\ \E a, b \in ToServer : a \notin Switches /\ b \notin Switches /\ ProgramSendsTwo(a, b)
  PROVE  Readable'
<1>1. /\ N!OurCipher' = N!OurCipher /\ N!OurReading' = N!OurReading
      /\ N!ServerCipher' = N!ServerCipher /\ N!ServerReading' = N!ServerReading
  BY DEF N!OurCipher, N!OurReading, N!ServerCipher, N!ServerReading, N!Plain
<1>2. Chained(in', N!OurReading', N!ServerCipher', Theirs)
  BY <1>1, ThenSame DEF Takes, Readable
<1>3. ASSUME open' PROVE open /\ \A from : Chained(out, from, N!OurCipher, Ours) => Chained(out', from, N!OurCipher, Ours)
  <2>1. CASE out' = out /\ (open' => open)
    BY <1>3, <2>1
  <2>2. CASE open' = open /\ \E a \in ToServer : a \notin Switches /\ ProgramSends(a)
    BY <1>3, <2>2, SendsChain, ThenSame
  <2>3. CASE open' = open /\ \E a, b \in ToServer : a \notin Switches /\ b \notin Switches /\ ProgramSendsTwo(a, b)
    BY <1>3, <2>3, SendsChain, ThenSame
  <2> QED
    BY <2>1, <2>2, <2>3
<1>4. ASSUME ~open' PROVE out' = out
  BY <1>4 DEF ProgramSends, ProgramSendsTwo
<1> QED
  BY <1>1, <1>2, <1>3, <1>4, ReadableStep

-----------------------------------------------------------------------------
(* The program answers about an option *)

Size == N!Sub("NAWS", "SIZE", 0)

LEMMA AsideStep ==
  ASSUME NParts, negotiation' = negotiation, open' => open,
         UNCHANGED <<enckey, engine, encIV, decIV, encrypt, decrypt, server, him>>, us'["ENCRYPT"] = us["ENCRYPT"],
         Away(in, in', AuthMessages), Away(out, out', AuthMessages),
         Away(in, in', EncryptMessages), Away(out, out', EncryptMessages)
  PROVE  Authenticating' /\ OfferedFirst' /\ InTurn' /\ Vectors' /\ (Untouched => Untouched')
<1>1. Untouched => Untouched'
  BY UntouchedBeside
<1>2. Authenticating'
  BY <1>1, AuthenticatingBeside DEF NParts
<1>3. OfferedFirst' /\ InTurn' /\ Vectors'
  BY EncryptingBeside DEF NParts
<1> QED
  BY <1>1, <1>2, <1>3

LEMMA EncryptHeld == WireTyped /\ NParts => us["ENCRYPT"] \in {"yes", "no"} /\ him["ENCRYPT"] \in {"yes", "no"}
<1> SUFFICES ASSUME WireTyped, NParts PROVE us["ENCRYPT"] \in {"yes", "no"} /\ him["ENCRYPT"] \in {"yes", "no"}
  OBVIOUS
<1>1. "ENCRYPT" \in N!Option
  BY DEF N!Option
<1>2. ~Waiting("ENCRYPT", "his") /\ ~Waiting("ENCRYPT", "ours")
  BY <1>1 DEF NParts, Options, Told, Directions
<1> QED
  BY <1>1, <1>2 DEF Waiting, State, WireTyped

LEMMA SizeIs == Size.cmd = "SB" /\ Size.opt = "NAWS" /\ Size \in ToServer
<1>1. Size.cmd = "SB" /\ Size.opt = "NAWS"
  BY SubIs DEF Size
<1>2. Size \in ToServer
  BY ServerGets DEF Size
<1> QED
  BY <1>1, <1>2

\* A command, and a message of the terminal, are neither of authentication nor of encryption.
LEMMA Plainly ==
  ASSUME NEW m, m.opt # "ENCRYPT", m.cmd # "SB" \/ m.opt # "AUTH"
  PROVE  m \notin AuthMessages /\ m \notin EncryptMessages /\ m \notin Switches
<1>1. m \notin AuthMessages
  BY KindsIs
<1>2. m \notin EncryptMessages
  BY KindsIs
<1>3. m \notin Switches
  BY KindsIs
<1> QED
  BY <1>1, <1>2, <1>3

LEMMA AnswerStep ==
  ASSUME WireTyped, NParts, refused' = FALSE, eaten' = eaten, NEW o \in N!Option \ {"ENCRYPT"}, NEW d \in Directions,
         NEW q \in YesOrNo, NEW r \in YesOrNo,
         N!Receives(o), N!Command = Ask(o, d, q),
         ProgramSends(Say(o, d, r)) \/ ProgramSendsTwo(Say(o, d, r), Size),
         UNCHANGED <<open, authenticated, enckey, engine, encIV, decIV, encrypt, decrypt>>,
         negotiated' \in BOOLEAN, will' \in [N!YesNo -> BOOLEAN], doo' \in [N!YesNo -> BOOLEAN],
         o \in N!YesNo => Held(o, d)' = (q = "yes") /\ r = q,
         \A p \in N!YesNo, e \in Directions : p # o \/ e # d => Held(p, e)' = Held(p, e),
         Strange(o) => q = "yes" /\ r = "no", o = "AUTH" /\ ~Strange(o) => q = "yes" /\ r = "yes"
  PROVE  WireTyped' /\ NParts'
<1> DEFINE h == Ask(o, d, q)
           a == Say(o, d, r)
<1>1. /\ in' \in Wire(ToProgram) /\ Takes(in, in', h, N!OurReading, Theirs)
      /\ negotiation' = negotiation /\ us' = us /\ him' = him /\ server' = server
  BY ProgramTakes
<1>2. h \in Asks(o, d) /\ a \in Says(o, d)
  BY DEF Asks, Says, YesOrNo
<1>3. h.opt = o /\ a.opt = o /\ h.cmd # "SB" /\ a.cmd # "SB"
  BY <1>2, KindsIs
<1>4. /\ h \notin AuthMessages /\ h \notin EncryptMessages /\ h \notin Switches
      /\ a \notin AuthMessages /\ a \notin EncryptMessages /\ a \notin Switches
      /\ Size \notin AuthMessages /\ Size \notin EncryptMessages /\ Size \notin Switches
  BY <1>3, Plainly, SizeIs
<1>5. a \in ToServer
  <2>1. \A c \in {"WILL", "WONT", "DO", "DONT"} : N!Cmd(c, o) \in ToServer
    BY ServerGets
  <2> QED
    BY <2>1 DEF Say
<1> HIDE DEF h, a
<1>6. out' \in Wire(ToServer)
  BY DEF ProgramSends, ProgramSendsTwo, a
<1>7. ASSUME NEW K, a \notin K, Size \notin K PROVE Away(out, out', K)
  BY <1>7, SendsAside, SendsTwoAside DEF a
<1>8. Away(in, in', AuthMessages) /\ Away(in, in', EncryptMessages)
  BY <1>1, <1>4, TookAway DEF Takes
<1>9. Authenticating' /\ OfferedFirst' /\ InTurn' /\ Vectors' /\ (Untouched => Untouched')
  BY <1>1, <1>4, <1>7, <1>8, AsideStep
<1>10. Readable'
  <2>1. \/ open' = open /\ \E x \in ToServer : x \notin Switches /\ ProgramSends(x)
        \/ open' = open /\ \E x, y \in ToServer : x \notin Switches /\ y \notin Switches /\ ProgramSendsTwo(x, y)
    BY <1>4, <1>5, SizeIs DEF a
  <2> QED
    BY <1>1, <1>4, <2>1, ReadableBeside DEF NParts
<1>11. Options'
  <2>1. Took(in, in', Ask(o, d, q))
    BY <1>1 DEF Takes, h
  <2>2. \A p, e : e \in Directions => Size \notin Says(p, e)
    BY KindsIs, SizeIs
  <2>3. ASSUME NEW p, NEW e \in Directions, p # o \/ e # d PROVE Away(out, out', Says(p, e))
    BY <1>2, <1>7, <2>2, <2>3, AskApart
  <2>4. IF open THEN Brings(out, out', Say(o, d, r), Says(o, d)) ELSE out' = out
    <3>1. CASE open /\ ProgramSends(Say(o, d, r))
      BY <3>1, SameAway, PutBrings DEF ProgramSends, Puts
    <3>2. CASE open /\ ProgramSendsTwo(Say(o, d, r), Size)
      <4>1. PICK u : Put(out, u, Say(o, d, r)) /\ Put(u, out', Size)
        BY <3>2 DEF ProgramSendsTwo, Puts
      <4>2. Away(u, out', Says(o, d))
        BY <4>1, <2>2, PutAway
      <4> QED
        BY <3>2, <4>1, <4>2, PutBrings
    <3>3. CASE ~open
      BY <3>3 DEF ProgramSends, ProgramSendsTwo
    <3> QED
      BY <3>1, <3>2, <3>3
  <2> QED
    BY <1>1, <1>9, <2>1, <2>3, <2>4, OptionsAnswered DEF NParts
<1>12. WireTyped'
  BY <1>1, <1>6, SameSession DEF WireTyped
<1> QED
  BY <1>9, <1>10, <1>11, <1>12 DEF NParts

LEMMA Registering == ASSUME WireTyped PROVE N!Registered = N!YesNo \cup (IF negotiation.crypt THEN {"AUTH", "ENCRYPT"} ELSE {})
BY DEF N!Registered

LEMMA StateAfterHeld ==
  ASSUME WireTyped, NEW o \in N!YesNo, NEW c \in {"WILL", "WONT", "DO", "DONT"}, N!StateAfter(o, c),
         NEW d \in Directions, d = (IF c \in {"DO", "DONT"} THEN "his" ELSE "ours"),
         NEW q \in YesOrNo, q = (IF c \in {"DO", "WILL"} THEN "yes" ELSE "no")
  PROVE  /\ will' \in [N!YesNo -> BOOLEAN] /\ doo' \in [N!YesNo -> BOOLEAN]
         /\ Held(o, d)' = (q = "yes")
         /\ \A p \in N!YesNo, e \in Directions : p # o \/ e # d => Held(p, e)' = Held(p, e)
<1>1. will \in [N!YesNo -> BOOLEAN] /\ doo \in [N!YesNo -> BOOLEAN]
  BY DEF WireTyped
<1>2. CASE c \in {"DO", "DONT"}
  <2>1. will' = [will EXCEPT ![o] = (c = "DO")] /\ doo' = doo /\ d = "his" /\ (q = "yes" <=> c = "DO")
    BY <1>2 DEF N!StateAfter
  <2> QED
    BY <1>1, <2>1 DEF Held, Directions
<1>3. CASE c \in {"WILL", "WONT"}
  <2>1. doo' = [doo EXCEPT ![o] = (c = "WILL")] /\ will' = will /\ d = "ours" /\ (q = "yes" <=> c = "WILL")
    BY <1>3 DEF N!StateAfter
  <2> QED
    BY <1>1, <2>1 DEF Held, Directions
<1> QED
  BY <1>2, <1>3

\* A suboption of the terminal's, for which nothing is taken down.
LEMMA TerminalStep ==
  ASSUME WireTyped, NParts, refused' = FALSE, eaten' = eaten, NEW o \in {"TTYPE"}, N!Receives(o), N!Command.cmd = "SB",
         out' = out \/ ProgramSends(N!Sub("TTYPE", "IS", 0)),
         UNCHANGED <<open, authenticated, enckey, engine, encIV, decIV, encrypt, decrypt, negotiated, will, doo>>
  PROVE  WireTyped' /\ NParts'
<1> DEFINE h == N!Command
           a == N!Sub("TTYPE", "IS", 0)
<1>1. /\ in' \in Wire(ToProgram) /\ Takes(in, in', h, N!OurReading, Theirs) /\ h.opt = o
      /\ negotiation' = negotiation /\ us' = us /\ him' = him /\ server' = server
  BY ProgramTakes
<1>2. a.cmd = "SB" /\ a.opt = "TTYPE" /\ a \in ToServer
  <2>1. a.cmd = "SB" /\ a.opt = "TTYPE"
    BY SubIs
  <2>2. a \in ToServer
    BY ServerGets
  <2> QED
    BY <2>1, <2>2
<1>3. h.cmd = "SB" /\ h.opt = "TTYPE"
  BY <1>1
<1> HIDE DEF h, a
<1>4. /\ h \notin AuthMessages /\ h \notin EncryptMessages /\ h \notin Switches
      /\ a \notin AuthMessages /\ a \notin EncryptMessages /\ a \notin Switches
  BY <1>2, <1>3, Plainly
<1>5. out' \in Wire(ToServer)
  BY DEF ProgramSends, WireTyped, a
<1>6. ASSUME NEW K, a \notin K PROVE Away(out, out', K)
  BY <1>6, SendsAside, SameAway DEF a
<1>7. ASSUME NEW K, h \notin K PROVE Away(in, in', K)
  BY <1>1, <1>7, TookAway DEF Takes
<1>8. Authenticating' /\ OfferedFirst' /\ InTurn' /\ Vectors' /\ (Untouched => Untouched')
  BY <1>1, <1>4, <1>6, <1>7, AsideStep
<1>9. Readable'
  <2>1. \/ out' = out /\ (open' => open)
        \/ open' = open /\ \E x \in ToServer : x \notin Switches /\ ProgramSends(x)
    BY <1>2, <1>4 DEF a
  <2> QED
    BY <1>1, <1>4, <2>1, ReadableBeside DEF NParts
<1>10. Options'
  <2>1. ASSUME NEW p, NEW e \in Directions PROVE Away(in, in', Asks(p, e)) /\ Away(out, out', Says(p, e))
    BY <1>2, <1>3, <1>6, <1>7, KindsIs
  <2>2. us["ENCRYPT"] \in {"yes", "no"} /\ him["ENCRYPT"] \in {"yes", "no"}
    BY EncryptHeld
  <2> QED
    BY <1>1, <1>8, <2>1, <2>2, OptionsBeside DEF NParts, Options
<1>11. WireTyped'
  BY <1>1, <1>5, SameSession DEF WireTyped
<1> QED
  BY <1>8, <1>9, <1>10, <1>11 DEF NParts

LEMMA YesNoStep ==
  ASSUME WireTyped, NParts, refused' = FALSE, eaten' = eaten, NEW o \in N!YesNo, N!Receives(o), N!Command.cmd # "SB",
         N!StateAfter(o, N!Command.cmd), negotiated' \in BOOLEAN,
         \/ N!SendReply(<<N!Cmd(N!Answer(N!Command.cmd), o)>>)
         \/ N!SendReply(<<N!Cmd(N!Answer(N!Command.cmd), o), Size>>),
         UNCHANGED <<open, authenticated, enckey, engine, encIV, decIV, encrypt, decrypt>>
  PROVE  WireTyped' /\ NParts'
<1>1. N!Command \in ToProgram /\ N!Command.opt = o
  BY ProgramTakes
<1> DEFINE c == N!Command.cmd
<1>2. c \in {"WILL", "WONT", "DO", "DONT"} /\ N!Command = N!Cmd(c, o)
  BY <1>1, ProgramReads
<1>3. o \in N!Option \ {"ENCRYPT"} /\ ~Strange(o) /\ o # "AUTH"
  BY DEF N!Option, N!YesNo, Strange
<1> HIDE DEF c
<1>4. PICK d \in Directions, q \in YesOrNo :
        /\ N!Cmd(c, o) = Ask(o, d, q) /\ N!Cmd(N!Answer(c), o) = Say(o, d, q)
        /\ d = (IF c \in {"DO", "DONT"} THEN "his" ELSE "ours")
        /\ q = (IF c \in {"DO", "WILL"} THEN "yes" ELSE "no")
  BY <1>2, CommandAsks
<1>5. N!StateAfter(o, c)
  BY DEF c
<1>6. /\ will' \in [N!YesNo -> BOOLEAN] /\ doo' \in [N!YesNo -> BOOLEAN]
      /\ Held(o, d)' = (q = "yes")
      /\ \A p \in N!YesNo, e \in Directions : p # o \/ e # d => Held(p, e)' = Held(p, e)
  BY <1>2, <1>4, <1>5, StateAfterHeld
<1>7. Say(o, d, q) \in ToServer
  BY <1>3, ServerGets DEF Say
<1>8. ProgramSends(Say(o, d, q)) \/ ProgramSendsTwo(Say(o, d, q), Size)
  <2>1. N!SendReply(<<Say(o, d, q)>>) \/ N!SendReply(<<Say(o, d, q), Size>>)
    BY <1>4 DEF c
  <2> QED
    BY <1>7, <2>1, SendOne, SendTwo, SizeIs
<1>9. N!Command = Ask(o, d, q)
  BY <1>2, <1>4
<1> QED
  BY <1>3, <1>6, <1>8, <1>9, AnswerStep

LEMMA YesNoOptionStep ==
  ASSUME WireTyped, NParts, refused' = FALSE, eaten' = eaten, NEW o \in N!Option, N!YesNoOption(o)
  PROVE  WireTyped' /\ NParts'
<1>1. o \in N!YesNo /\ N!Receives(o) /\ o \in {"ECHO", "SGA"}
  BY DEF N!YesNoOption, N!YesNo
<1>2. N!Command.cmd # "SB"
  <2>1. N!Command \in ToProgram /\ N!Command.opt = o
    BY <1>1, ProgramTakes
  <2> QED
    BY <1>1, <2>1, ProgramReads
<1>3. /\ N!StateAfter(o, N!Command.cmd) /\ N!SendReply(<<N!Cmd(N!Answer(N!Command.cmd), o)>>)
      /\ UNCHANGED <<open, authenticated, enckey, engine, encIV, decIV, encrypt, decrypt>>
      /\ negotiated' = negotiated
  BY DEF N!YesNoOption, N!crypto
<1>4. negotiated' \in BOOLEAN
  BY <1>3 DEF WireTyped
<1> QED
  BY <1>1, <1>2, <1>3, <1>4, YesNoStep

LEMMA TTOptionStep == ASSUME WireTyped, NParts, refused' = FALSE, eaten' = eaten, N!TTOption PROVE WireTyped' /\ NParts'
<1>1. /\ N!Receives("TTYPE") /\ "TTYPE" \in N!YesNo
      /\ UNCHANGED <<open, authenticated, enckey, engine, encIV, decIV, encrypt, decrypt, negotiated>>
  BY DEF N!TTOption, N!YesNo, N!crypto
<1>2. negotiated' \in BOOLEAN
  BY <1>1 DEF WireTyped
<1>3. CASE N!Command.cmd # "SB"
  <2>1. N!StateAfter("TTYPE", N!Command.cmd) /\ N!SendReply(<<N!Cmd(N!Answer(N!Command.cmd), "TTYPE")>>)
    BY <1>3 DEF N!TTOption
  <2> QED
    BY <1>1, <1>2, <1>3, <2>1, YesNoStep
<1>4. CASE N!Command.cmd = "SB"
  <2>1. /\ will' = will /\ doo' = doo
        /\ N!SendReply(IF N!Command.kind = "SEND" THEN <<N!Sub("TTYPE", "IS", 0)>> ELSE <<>>)
    BY <1>4 DEF N!TTOption
  <2>2. N!Sub("TTYPE", "IS", 0) \in ToServer
    BY ServerGets
  <2>3. out' = out \/ ProgramSends(N!Sub("TTYPE", "IS", 0))
    <3>1. CASE N!Command.kind = "SEND"
      BY <2>1, <2>2, <3>1, SendOne
    <3>2. CASE N!Command.kind # "SEND"
      BY <2>1, <3>2, SendNone
    <3> QED
      BY <3>1, <3>2
  <2> QED
    BY <1>1, <1>4, <2>1, <2>3, TerminalStep
<1> QED
  BY <1>3, <1>4

LEMMA WinSizeOptionStep == ASSUME WireTyped, NParts, refused' = FALSE, eaten' = eaten, N!WinSizeOption PROVE WireTyped' /\ NParts'
<1>1. /\ N!Receives("NAWS") /\ "NAWS" \in N!YesNo /\ N!StateAfter("NAWS", N!Command.cmd) /\ negotiated' \in BOOLEAN
      /\ N!SendReply(<<N!Cmd(N!Answer(N!Command.cmd), "NAWS"), Size>>)
      /\ UNCHANGED <<open, authenticated, enckey, engine, encIV, decIV, encrypt, decrypt>>
  BY DEF N!WinSizeOption, N!YesNo, N!crypto, Size
<1>2. N!Command.cmd # "SB"
  <2>1. N!Command \in ToProgram /\ N!Command.opt = "NAWS"
    BY <1>1, ProgramTakes
  <2> QED
    BY <2>1, ProgramReads
<1> QED
  BY <1>1, <1>2, YesNoStep

\* What is refused has been asked for, and is neither of authentication's steps nor of encryption.
LEMMA DenyAllOptionStep ==
  ASSUME WireTyped, NParts, refused' = FALSE, eaten' = eaten, NEW o \in N!Option, N!DenyAllOption(o)
  PROVE  WireTyped' /\ NParts'
<1> DEFINE h == N!Command
           c == N!Command.cmd
<1>1. /\ N!Receives(o) /\ o \notin N!Registered
      /\ N!SendReply(<<N!Cmd(IF c = "DO" THEN "WONT" ELSE "DONT", o)>>)
      /\ UNCHANGED <<open, authenticated, enckey, engine, encIV, decIV, encrypt, decrypt, will, doo, negotiated>>
  BY DEF N!DenyAllOption, N!program, N!crypto, N!options
<1>2. h \in ToProgram /\ h.opt = o /\ Took(in, in', h)
  BY <1>1, ProgramTakes DEF Takes
<1>3. o \in {"AUTH", "ENCRYPT", "OTHER"} /\ (o # "OTHER" => ~negotiation.crypt)
  BY <1>1, Registering DEF N!Option, N!YesNo
<1> HIDE DEF h
<1>4. o # "ENCRYPT"
  <2>1. SUFFICES ASSUME o = "ENCRYPT" PROVE FALSE
    OBVIOUS
  <2>2. h \in EncryptIn
    BY <1>2, <2>1 DEF EncryptIn
  <2>3. ~Has(in, EncryptIn)
    BY <1>3, <2>1 DEF NParts, Options, Untouched
  <2> QED
    BY <1>2, <2>2, <2>3 DEF Took
<1>5. Strange(o) /\ o \notin N!YesNo
  BY <1>3, <1>4 DEF Strange, N!YesNo
<1>6. \A d \in Directions : Told(o, d) /\ Refusing(o, d)
  BY <1>5 DEF NParts, Options, Told
<1>7. c # "SB"
  <2>1. SUFFICES ASSUME c = "SB" PROVE FALSE
    OBVIOUS
  <2>2. h.cmd = "SB"
    BY <2>1 DEF h
  <2>3. h \in AuthIn
    <3>1. o = "AUTH"
      BY <1>2, <1>3, <1>4, <2>2, ProgramReads
    <3>2. PICK k \in StepsIn : h = Step(k)
      BY <1>2, <2>2, <3>1, ProgramReads
    <3> QED
      BY <3>2 DEF AuthIn, StepsIn
  <2>4. Has(in, AuthIn)
    BY <1>2, <2>3 DEF Took
  <2>5. him["AUTH"] \in {"no", "wantyes"}
    <3>1. o = "AUTH"
      BY <1>2, <1>3, <1>4, <2>2, ProgramReads
    <3> QED
      BY <1>6, <3>1 DEF Refusing, Directions, State
  <2> QED
    BY <2>4, <2>5 DEF NParts, Authenticating
<1>8. c \in {"WILL", "WONT", "DO", "DONT"} /\ h = N!Cmd(c, o)
  BY <1>2, <1>7, ProgramReads DEF h
<1> HIDE DEF c
<1>9. PICK d \in Directions, q \in YesOrNo :
        /\ N!Cmd(c, o) = Ask(o, d, q)
        /\ d = (IF c \in {"DO", "DONT"} THEN "his" ELSE "ours")
        /\ q = (IF c \in {"DO", "WILL"} THEN "yes" ELSE "no")
  BY <1>8, CommandAsks
<1>10. q = "yes"
  <2>1. Has(in, {Ask(o, d, q)})
    BY <1>2, <1>8, <1>9 DEF Took
  <2>2. q = "no" => State(o, d) = "wantno"
    BY <1>4, <1>6, <2>1 DEF Told, Single
  <2> QED
    BY <1>6, <2>2 DEF Refusing, YesOrNo
<1>11. N!Cmd(IF c = "DO" THEN "WONT" ELSE "DONT", o) = Say(o, d, "no")
  <2>1. CASE c = "DO"
    BY <1>9, <2>1, AskIs
  <2>2. CASE c = "WILL"
    BY <1>9, <2>2, AskIs
  <2> QED
    BY <1>8, <1>9, <1>10, <2>1, <2>2
<1>12. Say(o, d, "no") \in ToServer
  BY ServerGets DEF Say
<1>13. ProgramSends(Say(o, d, "no"))
  BY <1>1, <1>11, <1>12, SendOne DEF c
<1>14. "no" \in YesOrNo /\ (o = "AUTH" /\ ~Strange(o) => FALSE)
  BY <1>5 DEF YesOrNo
<1>15. \A p \in N!YesNo, e \in Directions : Held(p, e)' = Held(p, e)
  BY <1>1 DEF Held
<1>16. negotiated' \in BOOLEAN /\ will' \in [N!YesNo -> BOOLEAN] /\ doo' \in [N!YesNo -> BOOLEAN]
  BY <1>1 DEF WireTyped
<1>17. N!Command = Ask(o, d, q)
  BY <1>8, <1>9 DEF h
<1> QED
  BY <1>1, <1>4, <1>5, <1>10, <1>13, <1>14, <1>15, <1>16, <1>17, AnswerStep

\* Received by the option that authenticates.
LEMMA AuthReceived ==
  ASSUME WireTyped, NEW c, NEW k, N!Auth(c, k)
  PROVE  /\ N!Receives("AUTH") /\ negotiation.crypt /\ N!Command.cmd = c /\ N!Command.kind = k
         /\ UNCHANGED <<engine, encIV, decIV, encrypt, decrypt, will, doo, negotiated>>
BY Registering DEF N!Auth, N!options, N!YesNo

LEMMA AuthDoStep == ASSUME WireTyped, NParts, refused' = FALSE, eaten' = eaten, N!AuthDo PROVE WireTyped' /\ NParts'
<1>1. /\ N!Auth("DO", "") /\ N!SendReply(<<N!Cmd("WILL", "AUTH")>>)
      /\ UNCHANGED <<open, authenticated, enckey>>
  BY DEF N!AuthDo
<1>2. /\ N!Receives("AUTH") /\ negotiation.crypt /\ N!Command.cmd = "DO"
      /\ UNCHANGED <<engine, encIV, decIV, encrypt, decrypt, will, doo, negotiated>>
  BY <1>1, AuthReceived
<1>3. N!Command \in ToProgram /\ N!Command.opt = "AUTH"
  BY <1>2, ProgramTakes
<1>4. N!Command = Ask("AUTH", "his", "yes") /\ N!Cmd("WILL", "AUTH") = Say("AUTH", "his", "yes")
  <2>1. N!Command = N!Cmd("DO", "AUTH")
    BY <1>2, <1>3, ProgramReads
  <2> QED
    BY <2>1, AskIs
<1>5. "AUTH" \in N!Option \ {"ENCRYPT"} /\ ~Strange("AUTH") /\ "AUTH" \notin N!YesNo
  BY <1>2 DEF N!Option, N!YesNo, Strange
<1>6. "his" \in Directions /\ "yes" \in YesOrNo
  BY DEF Directions, YesOrNo
<1>7. Say("AUTH", "his", "yes") \in ToServer
  BY <1>4, ServerGets DEF WillAuth
<1>8. ProgramSends(Say("AUTH", "his", "yes"))
  BY <1>1, <1>4, <1>7, SendOne
<1>9. negotiated' \in BOOLEAN /\ will' \in [N!YesNo -> BOOLEAN] /\ doo' \in [N!YesNo -> BOOLEAN]
  BY <1>2 DEF WireTyped
<1>10. \A p \in N!YesNo, e \in Directions : Held(p, e)' = Held(p, e)
  BY <1>2 DEF Held
<1> QED
  BY <1>1, <1>2, <1>4, <1>5, <1>6, <1>8, <1>9, <1>10, AnswerStep

\* A direction of authentication, of which something was asked that gets no answer.
LEMMA ToldIgnored ==
  ASSUME NEW d, NEW h, Told("AUTH", d), Took(in, in', h), out' = out, us' = us, him' = him,
         negotiation' = negotiation, negotiation.crypt
  PROVE  Told("AUTH", d)'
<1>1. "AUTH" \notin N!YesNo /\ ~Strange("AUTH")'
  BY DEF N!YesNo, Strange
<1>2. State("AUTH", d)' = State("AUTH", d)
  BY DEF State
<1>3. Single("AUTH", d)'
  BY <1>2 DEF Told, Single, Took
<1> QED
  BY <1>1, <1>3 DEF Told

LEMMA AuthIgnoresStep == ASSUME WireTyped, NParts, refused' = FALSE, eaten' = eaten, N!AuthIgnores PROVE WireTyped' /\ NParts'
<1>1. PICK c \in {"WILL", "WONT", "DONT"} : N!Auth(c, "")
  BY DEF N!AuthIgnores
<1>2. out' = out /\ UNCHANGED <<open, authenticated, enckey>>
  BY DEF N!AuthIgnores, N!NoReply
<1>3. /\ N!Receives("AUTH") /\ negotiation.crypt /\ N!Command.cmd = c
      /\ UNCHANGED <<engine, encIV, decIV, encrypt, decrypt, will, doo, negotiated>>
  BY <1>1, AuthReceived
<1> DEFINE h == N!Command
<1>4. /\ in' \in Wire(ToProgram) /\ Takes(in, in', h, N!OurReading, Theirs) /\ h.opt = "AUTH" /\ h \in ToProgram
      /\ negotiation' = negotiation /\ us' = us /\ him' = him /\ server' = server
  BY <1>3, ProgramTakes
<1>5. h.cmd # "SB"
  BY <1>3
<1> HIDE DEF h
<1>6. h \notin AuthMessages /\ h \notin EncryptMessages /\ h \notin Switches
  BY <1>4, <1>5, Plainly
<1>7. ASSUME NEW K, h \notin K PROVE Away(in, in', K)
  BY <1>4, <1>7, TookAway DEF Takes
<1>8. \A K : Away(out, out', K)
  BY <1>2, SameAway
<1>9. Authenticating' /\ OfferedFirst' /\ InTurn' /\ Vectors' /\ (Untouched => Untouched')
  BY <1>2, <1>3, <1>4, <1>6, <1>7, <1>8, AsideStep
<1>10. Readable'
  BY <1>2, <1>3, <1>4, <1>6, ReadableBeside DEF NParts
<1>11. Options'
  <2>1. ASSUME NEW p \in N!Option, NEW e \in Directions, p # "AUTH" PROVE Told(p, e)'
    <3>1. Away(in, in', Asks(p, e))
      BY <1>4, <1>7, <2>1, KindsIs
    <3>2. State(p, e)' = State(p, e) /\ Held(p, e)' = Held(p, e)
      BY <1>3, <1>4 DEF State, Held
    <3> QED
      BY <1>2, <1>4, <1>8, <3>1, <3>2, ToldBeside DEF NParts, Options
  <2>2. ASSUME NEW e \in Directions PROVE Told("AUTH", e)'
    <3>1. Told("AUTH", e)
      BY DEF NParts, Options, N!Option
    <3> QED
      BY <1>2, <1>3, <1>4, <3>1, ToldIgnored DEF Takes
  <2> QED
    BY <1>2, <1>4, <1>9, <2>1, <2>2 DEF NParts, Options
<1>12. WireTyped'
  BY <1>2, <1>3, <1>4, SameSession DEF WireTyped
<1> QED
  BY <1>9, <1>10, <1>11, <1>12 DEF NParts

LEMMA ResizeStep == ASSUME WireTyped, NParts, refused' = FALSE, eaten' = eaten, N!Resize PROVE WireTyped' /\ NParts'
<1>1. /\ in' = in /\ negotiation' = negotiation /\ open
      /\ UNCHANGED <<open, authenticated, enckey, engine, encIV, decIV, encrypt, decrypt, will, doo, negotiated>>
      /\ us' = us /\ him' = him /\ server' = server
      /\ N!SendReply(IF negotiated THEN <<Size>> ELSE <<>>)
  BY DEF N!Resize, N!program, N!options, N!crypto, N!peer, Size
<1>2. out' = out \/ ProgramSends(Size)
  <2>1. CASE negotiated
    BY <1>1, <2>1, SendOne, SizeIs
  <2>2. CASE ~negotiated
    BY <1>1, <2>2, SendNone
  <2> QED
    BY <2>1, <2>2
<1>3. out' \in Wire(ToServer)
  BY <1>2 DEF ProgramSends, WireTyped
<1>4. Size \notin AuthMessages /\ Size \notin EncryptMessages /\ Size \notin Switches
  BY SizeIs, Plainly
<1>5. \A K : Away(in, in', K)
  BY <1>1, SameAway
<1>6. ASSUME NEW K, Size \notin K PROVE Away(out, out', K)
  BY <1>2, <1>6, SendsAside, SameAway
<1>7. Authenticating' /\ OfferedFirst' /\ InTurn' /\ Vectors' /\ (Untouched => Untouched')
  BY <1>1, <1>4, <1>5, <1>6, AsideStep
<1>8. Readable'
  <2>1. /\ N!OurCipher' = N!OurCipher /\ N!OurReading' = N!OurReading
        /\ N!ServerCipher' = N!ServerCipher /\ N!ServerReading' = N!ServerReading
    BY <1>1 DEF N!OurCipher, N!OurReading, N!ServerCipher, N!ServerReading, N!Plain
  <2>2. Chained(in', N!OurReading', N!ServerCipher', Theirs)
    BY <1>1, <2>1 DEF NParts, Readable
  <2>3. ASSUME NEW from, Chained(out, from, N!OurCipher, Ours) PROVE Chained(out', from, N!OurCipher, Ours)
    BY <1>1, <1>2, <1>4, <2>3, SendsChain, ThenSame
  <2> QED
    BY <1>1, <2>1, <2>2, <2>3, ReadableStep DEF NParts
<1>9. Options'
  <2>1. ASSUME NEW p, NEW e \in Directions PROVE Away(in, in', Asks(p, e)) /\ Away(out, out', Says(p, e))
    BY <1>5, <1>6, KindsIs, SizeIs
  <2>2. us["ENCRYPT"] \in {"yes", "no"} /\ him["ENCRYPT"] \in {"yes", "no"}
    BY EncryptHeld
  <2> QED
    BY <1>1, <1>7, <2>1, <2>2, OptionsBeside DEF NParts, Options
<1>10. WireTyped'
  BY <1>1, <1>3, SameSession DEF WireTyped
<1> QED
  BY <1>7, <1>8, <1>9, <1>10 DEF NParts

-----------------------------------------------------------------------------
(* The steps of authentication *)

LEMMA HasWithin ==
  ASSUME NEW s, NEW M, NEW L, M \subseteq L, ~Has(s, L)
  PROVE  ~Has(s, M) /\ Once(s, M) /\ \A K : Preceded(s, M, K)
BY DEF Has, Once, Preceded

\* A step that the server has sent, with nothing else of authentication on its way.
LEMMA AuthTaken ==
  ASSUME WireTyped, NParts, NEW k \in StepsIn, N!Auth("SB", k)
  PROVE  /\ in' \in Wire(ToProgram) /\ Takes(in, in', Step(k), N!OurReading, Theirs) /\ Step(k) \notin Switches
         /\ negotiation' = negotiation /\ negotiation.crypt /\ us' = us /\ him' = him /\ server' = server
         /\ UNCHANGED <<engine, encIV, decIV, encrypt, decrypt, will, doo, negotiated>>
         /\ Untouched /\ ~Has(in', AuthIn) /\ ~Has(out, AuthOut) /\ him["AUTH"] \in {"yes", "wantno"}
         /\ k \in {"SEND", "ACCEPT"} => enckey = 0 /\ server.key = 0
         /\ k = "RESPONSE" => enckey = 1 /\ server.key = 1
         /\ Away(in, in', EncryptMessages)
         /\ \A p, e : e \in Directions => Away(in, in', Asks(p, e))
<1>1. /\ N!Receives("AUTH") /\ negotiation.crypt /\ N!Command.cmd = "SB" /\ N!Command.kind = k
      /\ UNCHANGED <<engine, encIV, decIV, encrypt, decrypt, will, doo, negotiated>>
  BY AuthReceived
<1>2. /\ in' \in Wire(ToProgram) /\ Takes(in, in', N!Command, N!OurReading, Theirs)
      /\ N!Command \in ToProgram /\ N!Command.opt = "AUTH"
      /\ negotiation' = negotiation /\ us' = us /\ him' = him /\ server' = server
  BY <1>1, ProgramTakes
<1>3. N!Command = Step(k)
  BY <1>1, <1>2, ProgramReads
<1>4. Step(k).cmd = "SB" /\ Step(k).opt = "AUTH"
  BY NamesIs
<1>5. Step(k) \notin Switches /\ Step(k) \notin EncryptMessages
  BY <1>4, KindsIs
<1>6. \A p, e : e \in Directions => Step(k) \notin Asks(p, e)
  BY <1>4, KindsIs
<1>7. Took(in, in', Step(k))
  BY <1>2, <1>3 DEF Takes
<1>8. Away(in, in', EncryptMessages) /\ \A p, e : e \in Directions => Away(in, in', Asks(p, e))
  BY <1>5, <1>6, <1>7, TookAway
<1>9. Step(k) \in AuthIn
  BY DEF AuthIn, StepsIn
<1>10. Has(in, AuthIn) /\ Has(in, {Step(k)})
  BY <1>7, <1>9 DEF Took
<1>11. /\ Untouched /\ ~Has(in', AuthIn) /\ ~Has(out, AuthOut) /\ him["AUTH"] \notin {"no", "wantyes"}
  BY <1>7, <1>9, <1>10 DEF NParts, Authenticating, Keyed, Took
<1>12. him["AUTH"] \in {"yes", "wantno"}
  BY <1>11 DEF WireTyped, N!Option
<1>13. k \in {"SEND", "ACCEPT"} => enckey = 0 /\ server.key = 0
  <2>1. k \in {"SEND", "ACCEPT"} => Has(in, {Step("SEND"), Step("ACCEPT")})
    BY <1>7 DEF Took
  <2> QED
    BY <2>1 DEF NParts, Authenticating
<1>14. k = "RESPONSE" => enckey = 1 /\ server.key = 1
  BY <1>10 DEF NParts, Authenticating
<1> QED
  BY <1>1, <1>2, <1>3, <1>5, <1>8, <1>11, <1>12, <1>13, <1>14

LEMMA AuthParts ==
  /\ {Step("SEND"), Step("ACCEPT")} \subseteq AuthIn /\ {Step("RESPONSE")} \subseteq AuthIn
  /\ {Step("IS AUTH")} \subseteq AuthOut /\ {Challenge} \subseteq AuthOut
BY DEF AuthIn, AuthOut

LEMMA TypedStep ==
  ASSUME WireTyped, negotiation' = negotiation, refused' = FALSE, authenticated' = TRUE,
         in' \in Wire(ToProgram), out' \in Wire(ToServer), open' \in BOOLEAN, enckey' \in {0, 1},
         engine' \in {N!NoEngine, 1}, encrypt' \in BOOLEAN, decrypt' \in BOOLEAN,
         encIV' \in {0, OurVector}, decIV' \in {0, N!ServerIV},
         UNCHANGED <<negotiated, will, doo, us, him, server>>
  PROVE  WireTyped'
BY SameSession DEF WireTyped

\* What the answer says decides whether authentication goes on.
LEMMA AuthAnswered ==
  ASSUME WireTyped, NParts, NEW k \in StepsIn, N!Auth("SB", k), refused' = FALSE, eaten' = eaten, authenticated' = TRUE,
         \/ out' = out /\ open' \in BOOLEAN /\ (open' => open) /\ enckey' = enckey
         \/ open' = open /\ enckey' = enckey /\ ProgramSends(Step("IS NULL"))
         \/ k = "SEND" /\ open' = open /\ enckey' = enckey /\ ProgramSendsTwo(Step("NAME"), Step("IS AUTH"))
         \/ k = "ACCEPT" /\ open' = open /\ enckey' = 1 /\ ProgramSends(Challenge)
  PROVE  WireTyped' /\ NParts'
<1>1. /\ in' \in Wire(ToProgram) /\ Takes(in, in', Step(k), N!OurReading, Theirs) /\ Step(k) \notin Switches
      /\ negotiation' = negotiation /\ negotiation.crypt /\ us' = us /\ him' = him /\ server' = server
      /\ UNCHANGED <<engine, encIV, decIV, encrypt, decrypt, will, doo, negotiated>>
      /\ Untouched /\ ~Has(in', AuthIn) /\ ~Has(out, AuthOut) /\ him["AUTH"] \in {"yes", "wantno"}
      /\ k \in {"SEND", "ACCEPT"} => enckey = 0 /\ server.key = 0
      /\ Away(in, in', EncryptMessages)
      /\ \A p, e : e \in Directions => Away(in, in', Asks(p, e))
  BY AuthTaken
<1> DEFINE Answers == {Step("IS NULL"), Step("NAME"), Step("IS AUTH"), Challenge}
<1>2. \A a \in Answers : a.cmd = "SB" /\ a.opt = "AUTH"
  <2>1. /\ Step("IS NULL").cmd = "SB" /\ Step("NAME").cmd = "SB" /\ Step("IS AUTH").cmd = "SB" /\ Challenge.cmd = "SB"
    BY NamesIs
  <2>2. /\ Step("IS NULL").opt = "AUTH" /\ Step("NAME").opt = "AUTH" /\ Step("IS AUTH").opt = "AUTH"
        /\ Challenge.opt = "AUTH"
    BY NamesIs
  <2> QED
    BY <2>1, <2>2
<1>3. \A a \in Answers : a \notin EncryptMessages /\ a \notin Switches
  BY <1>2, KindsIs
<1>4. ASSUME NEW a \in Answers, NEW p, NEW e \in Directions PROVE a \notin Says(p, e)
  <2>1. a.cmd = "SB"
    BY <1>2
  <2>2. \A m \in Says(p, e) : m.cmd \in IF e = "his" THEN {"WILL", "WONT"} ELSE {"DO", "DONT"}
    BY AskOther
  <2> QED
    BY <2>1, <2>2
<1>5. Answers \subseteq ToServer
  BY ServerGets
<1>6. /\ Step("IS NULL") \in Answers /\ Step("NAME") \in Answers /\ Step("IS AUTH") \in Answers /\ Challenge \in Answers
  OBVIOUS
<1>7. Step("IS NULL") \notin AuthOut /\ Step("NAME") \notin AuthOut /\ Challenge # Step("IS AUTH")
  <2>1. Step("IS NULL").kind = "IS NULL" /\ Step("NAME").kind = "NAME" /\ Step("IS AUTH").kind = "IS AUTH"
    BY NamesIs
  <2>2. Challenge.kind = "CHALLENGE"
    BY NamesIs
  <2> QED
    BY <2>1, <2>2 DEF AuthOut
<1> HIDE DEF Answers
<1>8. out' \in Wire(ToServer)
  BY DEF ProgramSends, ProgramSendsTwo, WireTyped
<1>8a. open' \in BOOLEAN /\ (open' => open)
  <2>1. open \in BOOLEAN
    BY DEF WireTyped
  <2>2. open' = open \/ (open' \in BOOLEAN /\ (open' => open))
    OBVIOUS
  <2>3. CASE open' = open
    BY <2>1, <2>3
  <2> QED
    BY <2>2, <2>3
<1>8b. enckey' \in {0, 1}
  BY DEF WireTyped
<1>9. ASSUME NEW K, \A a \in Answers : a \notin K PROVE Away(out, out', K)
  BY <1>6, <1>9, SendsAside, SendsTwoAside, SameAway
<1>10. Away(out, out', EncryptMessages) /\ \A p, e : e \in Directions => Away(out, out', Says(p, e))
  BY <1>3, <1>4, <1>9
<1>11. Untouched'
  BY <1>1, <1>10, UntouchedBeside
<1>12. OfferedFirst' /\ InTurn' /\ Vectors'
  BY <1>1, <1>8a, <1>10, EncryptingBeside DEF NParts
<1>13. Authenticating'
  <2>0. ~Has(out, {Step("IS AUTH")}) /\ ~Has(out, {Challenge}) /\ Once(out, AuthOut)
    BY <1>1, AuthParts, HasWithin
  <2>1. /\ ~Has(in', {Step("SEND"), Step("ACCEPT")}) /\ ~Has(in', {Step("RESPONSE")}) /\ Once(in', AuthIn)
    BY <1>1, AuthParts, HasWithin
  <2>2. CASE out' = out \/ ProgramSends(Step("IS NULL"))
    <3>1. ~Has(out', AuthOut)
      BY <1>1, <1>7, <2>2 DEF ProgramSends, Puts, Put
    <3>2. ~Has(out', {Step("IS AUTH")}) /\ ~Has(out', {Challenge}) /\ Once(out', AuthOut)
      BY <3>1, AuthParts, HasWithin
    <3> QED
      BY <1>1, <1>11, <2>1, <3>1, <3>2 DEF Authenticating
  <2>3. CASE k = "SEND" /\ open' = open /\ enckey' = enckey /\ ProgramSendsTwo(Step("NAME"), Step("IS AUTH"))
    <3>1. /\ Once(out', AuthOut) /\ ~Has(out', {Challenge})
      <4>1. CASE open
        <5>1. PICK u : Put(out, u, Step("NAME")) /\ Put(u, out', Step("IS AUTH"))
          BY <2>3, <4>1 DEF ProgramSendsTwo, Puts
        <5>2. ~Has(u, AuthOut) /\ Once(u, AuthOut)
          BY <1>1, <1>7, <5>1, HasWithin DEF Put
        <5>3. Once(out', AuthOut)
          BY <5>1, <5>2 DEF Put
        <5>4. ~Has(out', {Challenge})
          <6>1. ~Has(u, {Challenge})
            BY <5>2, AuthParts, HasWithin
          <6> QED
            BY <1>7, <5>1, <6>1 DEF Put
        <5> QED
          BY <5>3, <5>4
      <4>2. CASE ~open
        BY <2>0, <2>3, <4>2 DEF ProgramSendsTwo
      <4> QED
        BY <4>1, <4>2
    <3> QED
      BY <1>1, <1>11, <2>1, <2>3, <3>1 DEF Authenticating
  <2>4. CASE k = "ACCEPT" /\ open' = open /\ enckey' = 1 /\ ProgramSends(Challenge)
    <3>1. Once(out', AuthOut) /\ ~Has(out', {Step("IS AUTH")})
      <4>1. CASE open
        <5>1. Put(out, out', Challenge)
          BY <2>4, <4>1 DEF ProgramSends, Puts
        <5> QED
          BY <1>1, <1>7, <2>0, <5>1 DEF Put
      <4>2. CASE ~open
        BY <2>0, <2>4, <4>2 DEF ProgramSends
      <4> QED
        BY <4>1, <4>2
    <3> QED
      BY <1>1, <1>11, <2>1, <2>4, <3>1 DEF Authenticating
  <2> QED
    BY <2>2, <2>3, <2>4
<1>14. Readable'
  <2>1. \/ out' = out /\ (open' => open)
        \/ open' = open /\ \E x \in ToServer : x \notin Switches /\ ProgramSends(x)
        \/ open' = open /\ \E x, y \in ToServer : x \notin Switches /\ y \notin Switches /\ ProgramSendsTwo(x, y)
    BY <1>3, <1>5, <1>6
  <2> QED
    BY <1>1, <2>1, ReadableBeside DEF NParts
<1>15. Options'
  <2>1. us["ENCRYPT"] \in {"yes", "no"} /\ him["ENCRYPT"] \in {"yes", "no"}
    BY EncryptHeld
  <2>2. open' => open
    OBVIOUS
  <2> QED
    BY <1>1, <1>10, <1>11, <2>1, <2>2, OptionsBeside DEF NParts
<1>16. WireTyped'
  <2>1. /\ engine' \in {N!NoEngine, 1} /\ encrypt' \in BOOLEAN /\ decrypt' \in BOOLEAN
        /\ encIV' \in {0, OurVector} /\ decIV' \in {0, N!ServerIV}
    BY <1>1 DEF WireTyped
  <2> QED
    BY <1>1, <1>8, <1>8a, <1>8b, <2>1, TypedStep
<1> QED
  BY <1>11, <1>12, <1>13, <1>14, <1>15, <1>16 DEF NParts

LEMMA NegotiateSendStep == ASSUME WireTyped, NParts, refused' = FALSE, eaten' = eaten, N!NegotiateSend PROVE WireTyped' /\ NParts'
<1>1. N!Auth("SB", "SEND") /\ "SEND" \in StepsIn
  BY DEF N!NegotiateSend, StepsIn
<1>2. authenticated' = TRUE /\ enckey' = enckey
  BY DEF N!NegotiateSend, WireTyped
<1>3. \/ N!SendReply(<<Step("IS NULL")>>) /\ open' = open
      \/ open' \in {FALSE, open} /\ out' = out
      \/ N!SendReply(<<Step("NAME"), Step("IS AUTH")>>) /\ open' = open
  BY DEF N!NegotiateSend, N!NoKerb4, N!NoReply, N!SendRetryConnection, Step
<1>4. Step("IS NULL") \in ToServer /\ Step("NAME") \in ToServer /\ Step("IS AUTH") \in ToServer
  BY ServerGets
<1>5. CASE N!SendReply(<<Step("IS NULL")>>) /\ open' = open
  <2>1. ProgramSends(Step("IS NULL"))
    BY <1>4, <1>5, SendOne
  <2> QED
    BY <1>1, <1>2, <1>5, <2>1, AuthAnswered
<1>6. CASE open' \in {FALSE, open} /\ out' = out
  <2>1. open \in BOOLEAN
    BY DEF WireTyped
  <2>2. CASE open' = FALSE
    <3>1. open' \in BOOLEAN /\ (open' => open)
      BY <2>2
    <3> QED
      BY <1>1, <1>2, <1>6, <3>1, AuthAnswered
  <2>3. CASE open' = open
    <3>1. open' \in BOOLEAN /\ (open' => open)
      BY <2>1, <2>3
    <3> QED
      BY <1>1, <1>2, <1>6, <3>1, AuthAnswered
  <2> QED
    BY <1>6, <2>2, <2>3
<1>7. CASE N!SendReply(<<Step("NAME"), Step("IS AUTH")>>) /\ open' = open
  <2>1. ProgramSendsTwo(Step("NAME"), Step("IS AUTH"))
    BY <1>4, <1>7, SendTwo
  <2> QED
    BY <1>1, <1>2, <1>7, <2>1, AuthAnswered
<1> QED
  BY <1>3, <1>5, <1>6, <1>7

\* A direction of an option of which a command lost its IAC.
LEMMA ToldEaten ==
  ASSUME NEW o \in N!Option \ {"ENCRYPT"}, NEW d \in Directions, Told(o, d), NEW mid, Away(in, mid, Asks(o, d)),
         NEW h, Took(mid, in', h), Away(out, out', Says(o, d)), o \in eaten', negotiation' = negotiation,
         State(o, d)' = State(o, d), o \in N!YesNo => Held(o, d)' = Held(o, d)
  PROVE  Told(o, d)'
<1>1. /\ {Ask(o, d, "yes")} \subseteq Asks(o, d) /\ {Ask(o, d, "no")} \subseteq Asks(o, d)
      /\ {Say(o, d, "yes")} \subseteq Says(o, d) /\ {Say(o, d, "no")} \subseteq Says(o, d)
  BY DEF Asks, Says
<1>2. /\ Has(in', Asks(o, d)) => Has(in, Asks(o, d))
      /\ Has(in', {Ask(o, d, "yes")}) => Has(in, {Ask(o, d, "yes")})
      /\ Has(in', {Ask(o, d, "no")}) => Has(in, {Ask(o, d, "no")})
      /\ Once(in, Asks(o, d)) => Once(in', Asks(o, d))
  BY <1>1 DEF Away, Took
<1>3. /\ Has(out', Says(o, d)) <=> Has(out, Says(o, d))
      /\ Has(out', {Say(o, d, "yes")}) <=> Has(out, {Say(o, d, "yes")})
      /\ Has(out', {Say(o, d, "no")}) <=> Has(out, {Say(o, d, "no")})
      /\ Once(out, Says(o, d)) => Once(out', Says(o, d))
  BY <1>1 DEF Away
<1>4. o # "ENCRYPT" => Single(o, d)'
  BY <1>2, <1>3 DEF Told, Single
<1>5. o \in N!YesNo => Agreeing(o, d)'
  BY <1>3 DEF Told, Agreeing
<1>6. Strange(o)' => Refusing(o, d)'
  BY <1>3 DEF Told, Strange, Refusing
<1> QED
  BY <1>4, <1>5, <1>6 DEF Told

\* The pairs that do not fit take a second command with them: one of an option,
\* as there is but one message of authentication and none of encryption.
LEMMA NegotiateSendOnStep ==
  ASSUME WireTyped, NParts, refused' = FALSE, N!NegotiateSendOn
  PROVE  WireTyped' /\ NParts'
<1> DEFINE mid == Tail(in)
           h == Head(mid).m
<1>1. /\ Len(in) > 1 /\ Head(in).m = Step("SEND") /\ in' = Tail(mid) /\ eaten' = eaten \cup {h.opt}
      /\ N!SendReply(<<Step("IS NULL")>>) /\ negotiation.crypt
      /\ UNCHANGED <<negotiation, open, will, doo, negotiated, enckey, authenticated, engine, encIV, decIV, encrypt,
                      decrypt, us, him, server>>
  <2>1. Len(in) > 1 /\ Head(in).m = Step("SEND")
    BY DEF N!NegotiateSendOn, N!Command, Step
  <2>2. in' = Tail(mid) /\ eaten' = eaten \cup {h.opt}
    BY DEF N!NegotiateSendOn
  <2>3. N!SendReply(<<Step("IS NULL")>>)
    BY DEF N!NegotiateSendOn, N!NoKerb4, Step
  <2>4. negotiation.crypt
    <3>1. "AUTH" \in N!Registered
      BY DEF N!NegotiateSendOn
    <3>2. "AUTH" \notin N!YesNo
      BY DEF N!YesNo
    <3> QED
      BY <3>1, <3>2, Registering
  <2>5. UNCHANGED <<negotiation, N!program, N!peer>>
    BY DEF N!NegotiateSendOn
  <2>6. UNCHANGED <<N!options, N!crypto, open>>
    BY <2>5 DEF N!program
  <2>7. UNCHANGED <<open, will, doo, negotiated, enckey, authenticated, engine, encIV, decIV, encrypt, decrypt>>
    BY <2>6 DEF N!options, N!crypto
  <2>8. UNCHANGED <<us, him, server>>
    BY <2>5 DEF N!peer
  <2> QED
    BY <2>1, <2>2, <2>3, <2>4, <2>5, <2>7, <2>8
<1>2. in \in Wire(ToProgram) /\ in \in Seq(OnWire(ToProgram)) /\ in # <<>>
  <2>1. in \in Wire(ToProgram)
    BY DEF WireTyped
  <2>2. Len(in) > 1
    BY <1>1
  <2> QED
    BY <2>1, <2>2 DEF Wire
<1>3. /\ Takes(in, mid, Step("SEND"), N!OurReading, Theirs) /\ mid \in Wire(ToProgram)
  BY <1>1, <1>2, TakeHead
<1>4. mid # <<>>
  <2>1. Len(in) > 1
    BY <1>1
  <2>2. Len(in) \in Nat
    BY <1>2
  <2>3. Len(mid) = Len(in) - 1
    BY <1>2, HeadTailProperties
  <2>4. Len(mid) # 0
    <3>1. ASSUME NEW n \in Nat, n > 1, NEW k, k = n - 1 PROVE k # 0
      BY <3>1
    <3> QED
      BY <2>1, <2>2, <2>3, <3>1, Zenon
  <2>5. Len(<<>>) = 0
    OBVIOUS
  <2>6. ASSUME NEW t, Len(t) # 0 PROVE t # <<>>
    BY <2>5, <2>6
  <2> QED
    BY <2>4, <2>6
<1>5. /\ Takes(mid, in', h, N!OurReading, Theirs) /\ in' \in Wire(ToProgram) /\ h \in ToProgram
  BY <1>1, <1>3, <1>4, TakeHead
<1> HIDE DEF mid, h
<1>6. Took(in, mid, Step("SEND")) /\ Took(mid, in', h)
  BY <1>3, <1>5 DEF Takes
<1>7. Step("SEND").cmd = "SB" /\ Step("SEND").opt = "AUTH" /\ Step("SEND") \in AuthIn
  BY NamesIs DEF AuthIn
<1>8. Step("SEND") \notin Switches /\ Step("SEND") \notin EncryptMessages
  BY <1>7, KindsIs
<1>9. \A p, e : e \in Directions => Step("SEND") \notin Asks(p, e)
  BY <1>7, KindsIs
<1>10. Has(in, AuthIn) /\ ~Has(mid, AuthIn) /\ ~Has(out, AuthOut) /\ Untouched /\ him["AUTH"] \notin {"no", "wantyes"}
  BY <1>6, <1>7 DEF NParts, Authenticating, Keyed, Took
<1>11. h \notin AuthIn /\ ~Has(in', AuthIn) /\ h \notin EncryptIn
  BY <1>6, <1>10 DEF Took, Untouched
<1>12. h.opt # "ENCRYPT"
  BY <1>5, <1>11 DEF EncryptIn
<1>13. h \notin Switches /\ h \notin EncryptMessages
  BY <1>12, KindsIs
<1>14. Away(in, in', EncryptMessages)
  BY <1>6, <1>8, <1>13, TookAway, FarAway
<1>15. /\ Step("IS NULL").cmd = "SB" /\ Step("IS NULL").opt = "AUTH" /\ Step("IS NULL") \in ToServer
       /\ Step("IS NULL").kind = "IS NULL"
  BY NamesIs, ServerGets
<1>16. Step("IS NULL") \notin EncryptMessages /\ Step("IS NULL") \notin Switches
  BY <1>15, KindsIs
<1>17. Step("IS NULL") \notin AuthOut
  <2>1. Step("IS AUTH").kind = "IS AUTH" /\ Challenge.kind = "CHALLENGE"
    BY NamesIs
  <2> QED
    BY <1>15, <2>1 DEF AuthOut
<1>18. ProgramSends(Step("IS NULL"))
  BY <1>1, <1>15, SendOne
<1>19. out' \in Wire(ToServer)
  BY <1>18 DEF ProgramSends, WireTyped
<1>20. Away(out, out', EncryptMessages) /\ \A p, e : e \in Directions => Away(out, out', Says(p, e))
  <2>1. \A p, e : e \in Directions => Step("IS NULL") \notin Says(p, e)
    <3>1. Step("IS NULL").cmd = "SB"
      BY NamesIs
    <3>2. ASSUME NEW p, NEW e \in Directions PROVE \A m \in Says(p, e) : m.cmd # "SB"
      BY KindsIs
    <3>3. ASSUME NEW p, NEW e \in Directions PROVE Step("IS NULL") \notin Says(p, e)
      BY <3>1, <3>2
    <3> QED
      BY <3>3
  <2> QED
    BY <1>16, <1>18, <2>1, SendsAside
<1>21. Untouched'
  BY <1>1, <1>10, <1>14, <1>20, UntouchedBeside
<1>22. OfferedFirst' /\ InTurn' /\ Vectors'
  BY <1>1, <1>14, <1>20, EncryptingBeside DEF NParts
<1>23. Authenticating'
  <2>1. ~Has(out', AuthOut)
    BY <1>10, <1>17, <1>18 DEF ProgramSends, Puts, Put
  <2>2. ~Has(out', {Step("IS AUTH")}) /\ ~Has(out', {Challenge}) /\ Once(out', AuthOut)
    BY <2>1, AuthParts, HasWithin
  <2>3. ~Has(in', {Step("SEND"), Step("ACCEPT")}) /\ ~Has(in', {Step("RESPONSE")}) /\ Once(in', AuthIn)
    BY <1>11, AuthParts, HasWithin
  <2> QED
    BY <1>1, <1>10, <1>11, <1>21, <2>1, <2>2, <2>3 DEF Authenticating
<1>24. Readable'
  <2>1. /\ N!OurCipher' = N!OurCipher /\ N!OurReading' = N!OurReading
        /\ N!ServerCipher' = N!ServerCipher /\ N!ServerReading' = N!ServerReading
    BY <1>1 DEF N!OurCipher, N!OurReading, N!ServerCipher, N!ServerReading, N!Plain
  <2>2. Chained(mid, N!OurReading, N!ServerCipher, Theirs)
    BY <1>3, <1>8, ThenSame DEF Takes, NParts, Readable
  <2>3. Chained(in', N!OurReading, N!ServerCipher, Theirs)
    BY <1>5, <1>13, <2>2, ThenSame DEF Takes
  <2>4. ASSUME open' PROVE open /\ \A from : Chained(out, from, N!OurCipher, Ours) => Chained(out', from, N!OurCipher, Ours)
    BY <1>1, <1>16, <1>18, <2>4, SendsChain, ThenSame
  <2>5. ASSUME ~open' PROVE out' = out
    BY <1>1, <1>18, <2>5 DEF ProgramSends
  <2> QED
    BY <1>1, <2>1, <2>3, <2>4, <2>5, ReadableStep DEF NParts
<1>25. Options'
  <2>1. ASSUME NEW p \in N!Option, NEW e \in Directions PROVE Told(p, e)'
    <3>1. State(p, e)' = State(p, e) /\ Held(p, e)' = Held(p, e)
      BY <1>1 DEF State, Held
    <3>2. Away(in, mid, Asks(p, e)) /\ Away(out, out', Says(p, e)) /\ Told(p, e)
      BY <1>6, <1>9, <1>20, TookAway DEF NParts, Options
    <3>3. CASE h \notin Asks(p, e)
      <4>1. Away(in, in', Asks(p, e))
        BY <1>6, <3>2, <3>3, TookAway, FarAway
      <4>2. p \in eaten => p \in eaten'
        BY <1>1
      <4> QED
        BY <1>1, <3>1, <3>2, <4>1, <4>2, ToldBeside
    <3>4. CASE h \in Asks(p, e)
      <4>1. h.opt = p
        BY <3>4, AskOther
      <4>2. p \in eaten' /\ p # "ENCRYPT"
        BY <1>1, <1>12, <4>1
      <4> QED
        BY <1>1, <1>6, <3>1, <3>2, <4>2, ToldEaten
    <3> QED
      BY <3>3, <3>4
  <2>2. ~Has(out', {Say("AUTH", "his", "no")})
    <3>1. {Say("AUTH", "his", "no")} \subseteq Says("AUTH", "his") /\ "his" \in Directions
      BY DEF Says, Directions
    <3> QED
      BY <1>1, <1>20, <3>1 DEF NParts, Options, Away
  <2> QED
    BY <1>1, <2>1, <2>2 DEF Options
<1>26. WireTyped'
  <2>1. /\ open \in BOOLEAN /\ encrypt \in BOOLEAN /\ decrypt \in BOOLEAN /\ authenticated = TRUE
        /\ enckey \in {0, 1} /\ engine \in {N!NoEngine, 1} /\ encIV \in {0, OurVector} /\ decIV \in {0, N!ServerIV}
    BY DEF WireTyped
  <2>2. open' \in BOOLEAN /\ encrypt' \in BOOLEAN /\ decrypt' \in BOOLEAN /\ authenticated' = TRUE
    BY <1>1, <2>1, ZenonT(30)
  <2>3. enckey' \in {0, 1} /\ engine' \in {N!NoEngine, 1} /\ encIV' \in {0, OurVector} /\ decIV' \in {0, N!ServerIV}
    BY <1>1, <2>1
  <2> QED
    BY <1>1, <1>5, <1>19, <2>2, <2>3, TypedStep
<1> QED
  BY <1>21, <1>22, <1>23, <1>24, <1>25, <1>26 DEF NParts

LEMMA RejectedStep == ASSUME WireTyped, NParts, refused' = FALSE, eaten' = eaten, N!Rejected PROVE WireTyped' /\ NParts'
<1>1. N!Auth("SB", "REJECT") /\ "REJECT" \in StepsIn
  BY DEF N!Rejected, StepsIn
<1>2. authenticated' = TRUE /\ enckey' = enckey /\ out' = out /\ open' = FALSE
  BY DEF N!Rejected, N!NoReply, N!SendRetryConnection, WireTyped
<1>3. open' \in BOOLEAN /\ (open' => open)
  BY <1>2
<1> QED
  BY <1>1, <1>2, <1>3, AuthAnswered

LEMMA AcceptedStep == ASSUME WireTyped, NParts, refused' = FALSE, eaten' = eaten, N!Accepted PROVE WireTyped' /\ NParts'
<1>1. N!Auth("SB", "ACCEPT") /\ "ACCEPT" \in StepsIn
  BY DEF N!Accepted, StepsIn
<1>2. enckey = 0
  BY <1>1, AuthTaken
<1>3. authenticated' = TRUE /\ enckey' = 1 /\ open' = open /\ N!SendReply(<<Challenge>>)
  BY <1>2 DEF N!Accepted, WireTyped, Challenge
<1>4. Challenge \in ToServer
  BY ServerGets
<1>5. ProgramSends(Challenge)
  BY <1>3, <1>4, SendOne
<1> QED
  BY <1>1, <1>3, <1>5, AuthAnswered

\* What the program sends: the messages A, with a at the end of them.
Sends(A, a) ==
  /\ out' \in Wire(ToServer)
  /\ ~open => out' = out
  /\ \A M : Has(out', M) <=> Has(out, M) \/ (open /\ \E b \in A : b \in M)
  /\ \A M, L : Preceded(out, M, L) /\ ((\E b \in A : b \in M) => Has(out, L)) => Preceded(out', M, L)
  /\ \A K : (\A b \in A : b \notin K) => Away(out, out', K)
  /\ open => \A from : Chained(out, from, N!OurCipher, Ours) =>
                         Chained(out', from, Then(Packet(a, N!OurCipher), Ours), Ours)

LEMMA SendsNone == ASSUME WireTyped, out' = out, NEW a, a \notin Switches PROVE Sends({}, a)
BY SameAway, ThenSame DEF Sends, WireTyped

LEMMA SendsOne == ASSUME WireTyped, NEW a, ProgramSends(a) PROVE Sends({a}, a)
<1>1. out' \in Wire(ToServer) /\ (~open => out' = out)
  BY DEF ProgramSends
<1>2. \A K : (\A b \in {a} : b \notin K) => Away(out, out', K)
  BY SendsAside
<1>3. ASSUME open PROVE Put(out, out', a)
  BY <1>3 DEF ProgramSends, Puts
<1>4. \A M : Has(out', M) <=> Has(out, M) \/ (open /\ \E b \in {a} : b \in M)
  BY <1>1, <1>3 DEF Put
<1>5. \A M, L : Preceded(out, M, L) /\ ((\E b \in {a} : b \in M) => Has(out, L)) => Preceded(out', M, L)
  BY <1>1, <1>3 DEF Put
<1>6. open => \A from : Chained(out, from, N!OurCipher, Ours) =>
                          Chained(out', from, Then(Packet(a, N!OurCipher), Ours), Ours)
  BY SendsChain
<1> QED
  BY <1>1, <1>2, <1>4, <1>5, <1>6 DEF Sends

LEMMA SendsTwo == ASSUME WireTyped, NEW a, NEW b, a \notin Switches, ProgramSendsTwo(a, b) PROVE Sends({a, b}, b)
<1>1. out' \in Wire(ToServer) /\ (~open => out' = out)
  BY DEF ProgramSendsTwo
<1>2. \A K : (\A c \in {a, b} : c \notin K) => Away(out, out', K)
  BY SendsTwoAside
<1>3. ASSUME open PROVE \E u : Put(out, u, a) /\ Put(u, out', b)
  BY <1>3 DEF ProgramSendsTwo, Puts
<1>4. \A M : Has(out', M) <=> Has(out, M) \/ (open /\ \E c \in {a, b} : c \in M)
  BY <1>1, <1>3 DEF Put
<1>5. \A M, L : Preceded(out, M, L) /\ ((\E c \in {a, b} : c \in M) => Has(out, L)) => Preceded(out', M, L)
  BY <1>1, <1>3 DEF Put
<1>6. open => \A from : Chained(out, from, N!OurCipher, Ours) =>
                          Chained(out', from, Then(Packet(b, N!OurCipher), Ours), Ours)
  BY SendsChain
<1> QED
  BY <1>1, <1>2, <1>4, <1>5, <1>6 DEF Sends

LEMMA SendsThree ==
  ASSUME WireTyped, NEW a, NEW b, NEW d, a \notin Switches, b \notin Switches, ProgramSendsThree(a, b, d)
  PROVE  Sends({a, b, d}, d)
<1>1. out' \in Wire(ToServer) /\ (~open => out' = out)
  BY DEF ProgramSendsThree
<1>2. \A K : (\A c \in {a, b, d} : c \notin K) => Away(out, out', K)
  BY SendsThreeAside
<1>3. ASSUME open PROVE \E u, v : Put(out, u, a) /\ Put(u, v, b) /\ Put(v, out', d)
  BY <1>3 DEF ProgramSendsThree, Puts
<1>4. \A M : Has(out', M) <=> Has(out, M) \/ (open /\ \E c \in {a, b, d} : c \in M)
  BY <1>1, <1>3 DEF Put
<1>5. \A M, L : Preceded(out, M, L) /\ ((\E c \in {a, b, d} : c \in M) => Has(out, L)) => Preceded(out', M, L)
  BY <1>1, <1>3 DEF Put
<1>6. open => \A from : Chained(out, from, N!OurCipher, Ours) =>
                          Chained(out', from, Then(Packet(d, N!OurCipher), Ours), Ours)
  BY SendsChain
<1> QED
  BY <1>1, <1>2, <1>4, <1>5, <1>6 DEF Sends

-----------------------------------------------------------------------------
(* The end of authentication *)

LEMMA ResponseStep == ASSUME WireTyped, NParts, refused' = FALSE, eaten' = eaten, N!Response PROVE WireTyped' /\ NParts'
<1>1. N!Auth("SB", "RESPONSE") /\ "RESPONSE" \in StepsIn
  BY DEF N!Response, StepsIn
<1>2. /\ in' \in Wire(ToProgram) /\ Takes(in, in', Step("RESPONSE"), N!OurReading, Theirs)
      /\ Step("RESPONSE") \notin Switches
      /\ negotiation' = negotiation /\ negotiation.crypt /\ us' = us /\ him' = him /\ server' = server
      /\ UNCHANGED <<engine, encIV, decIV, encrypt, decrypt, will, doo, negotiated>>
      /\ Untouched /\ ~Has(in', AuthIn) /\ ~Has(out, AuthOut) /\ him["AUTH"] \in {"yes", "wantno"}
      /\ enckey = 1 /\ server.key = 1
      /\ Away(in, in', EncryptMessages)
      /\ \A p, e : e \in Directions => Away(in, in', Asks(p, e))
  BY <1>1, AuthTaken
<1>3. authenticated' = TRUE /\ open' = open /\ enckey' = enckey /\ N!SendReply(<<DoEncrypt, WillEncrypt>>)
  BY DEF N!Response, DoEncrypt, WillEncrypt
<1>4. DoEncrypt \in ToServer /\ WillEncrypt \in ToServer
  BY ServerGets
<1>5. ProgramSendsTwo(DoEncrypt, WillEncrypt)
  BY <1>3, <1>4, SendTwo
<1>6. /\ DoEncrypt.opt = "ENCRYPT" /\ WillEncrypt.opt = "ENCRYPT" /\ DoEncrypt.cmd = "DO" /\ WillEncrypt.cmd = "WILL"
  BY NamesIs
<1>7. /\ DoEncrypt \notin Switches /\ WillEncrypt \notin Switches
      /\ DoEncrypt \notin AuthMessages /\ WillEncrypt \notin AuthMessages
  BY <1>6, KindsIs
<1>8. Sends({DoEncrypt, WillEncrypt}, WillEncrypt)
  BY <1>5, <1>7, SendsTwo
<1>9. ~Has(in', EncryptIn) /\ ~Has(out, EncryptOut)
  BY <1>2 DEF Untouched, Away, EncryptMessages
<1>10. ~Has(out', AuthOut)
  BY <1>2, <1>7, <1>8 DEF Sends, AuthMessages
<1>11. Authenticating'
  <2>1. /\ ~Has(in', {Step("SEND"), Step("ACCEPT")}) /\ ~Has(in', {Step("RESPONSE")}) /\ Once(in', AuthIn)
        /\ ~Has(out', {Step("IS AUTH")}) /\ ~Has(out', {Challenge}) /\ Once(out', AuthOut)
    BY <1>2, <1>10, AuthParts, HasWithin
  <2>2. Keyed'
    BY <1>2, <1>3, <1>10 DEF Keyed
  <2> QED
    BY <1>2, <1>3, <1>10, <2>1, <2>2 DEF Authenticating
<1>12. /\ OurVector' = OurVector /\ Offer' = Offer
       /\ encIV = 0 /\ decIV = 0 /\ server.encIV = 0 /\ server.decIV = 0
       /\ ~encrypt /\ ~decrypt /\ ~server.encrypt /\ ~server.decrypt /\ ~server.ready
       /\ server.stage \notin {"stopped", "restarted"} /\ him["ENCRYPT"] = "no"
  BY <1>2, SameSession DEF Untouched
<1>13. /\ ~Has(in', {Offer}) /\ ~Has(in', {WillEncrypt}) /\ ~Has(in', {TheirIS})
       /\ ~Has(in', {SubOf("REPLY"), SubOf("DEC_KEYID")}) /\ ~Has(in', {SubOf("ENC_KEYID"), SubOf("START")})
       /\ \A L : Preceded(in', {Offer}, L) /\ Preceded(in', {TheirIS}, L)
  <2>1. /\ {Offer} \subseteq EncryptIn /\ {WillEncrypt} \subseteq EncryptIn /\ {TheirIS} \subseteq EncryptIn
        /\ {SubOf("REPLY"), SubOf("DEC_KEYID")} \subseteq EncryptIn /\ {SubOf("ENC_KEYID"), SubOf("START")} \subseteq EncryptIn
    BY OfEncryption
  <2> QED
    BY <1>9, <2>1, HasWithin
<1>14. /\ ~Has(out', {N!sendSUPPORT}) /\ ~Has(out', {N!sendSUPPORT, OurIS}) /\ ~Has(out', {OurIS})
       /\ ~Has(out', {SubOf("REPLY")}) /\ ~Has(out', {SubOf("ENC_KEYID"), SubOf("START")})
       /\ ~Has(out', {SubOf("DEC_KEYID")}) /\ (Has(out', {DoEncrypt}) => Has(out', {WillEncrypt}))
       /\ \A L : Preceded(out', {N!sendSUPPORT}, L) /\ Preceded(out', {SubOf("REPLY")}, L)
  <2>1. /\ {N!sendSUPPORT, OurIS} \subseteq EncryptOut /\ {SubOf("REPLY")} \subseteq EncryptOut
        /\ {SubOf("ENC_KEYID"), SubOf("START")} \subseteq EncryptOut /\ {SubOf("DEC_KEYID")} \subseteq EncryptOut
        /\ {DoEncrypt} \subseteq EncryptOut
    BY OfEncryption
  <2>2. /\ ~Has(out, {N!sendSUPPORT, OurIS}) /\ ~Has(out, {SubOf("REPLY")}) /\ ~Has(out, {SubOf("ENC_KEYID"), SubOf("START")})
        /\ ~Has(out, {SubOf("DEC_KEYID")}) /\ ~Has(out, {DoEncrypt})
    BY <1>9, <2>1, HasWithin
  <2>3. /\ N!sendSUPPORT.cmd = "SB" /\ OurIS.cmd = "SB" /\ \A k : SubOf(k).cmd = "SB"
    BY NamesIs
  <2>4. /\ ~Has(out', {N!sendSUPPORT, OurIS}) /\ ~Has(out', {SubOf("REPLY")}) /\ ~Has(out', {SubOf("ENC_KEYID"), SubOf("START")})
        /\ ~Has(out', {SubOf("DEC_KEYID")})
    BY <1>6, <1>8, <2>2, <2>3 DEF Sends
  <2>5. Has(out', {DoEncrypt}) => Has(out', {WillEncrypt})
    BY <1>8, <2>2 DEF Sends
  <2>6. ~Has(out', {N!sendSUPPORT}) /\ ~Has(out', {OurIS})
    BY <2>4, HasEither
  <2> QED
    BY <2>4, <2>5, <2>6, HasWithin
<1>15. OfferedFirst'
  BY <1>2, <1>12, <1>13, <1>14 DEF OfferedFirst
<1>16. InTurn'
  BY <1>2, <1>12, <1>13, <1>14 DEF InTurn
<1>17. Vectors'
  <2>1. decIV # N!ServerIV
    BY <1>12 DEF N!ServerIV
  <2> QED
    BY <1>2, <1>12, <1>13, <1>14, <2>1 DEF Vectors
<1>18. Readable'
  <2>1. open' = open /\ \E x, y \in ToServer : x \notin Switches /\ y \notin Switches /\ ProgramSendsTwo(x, y)
    BY <1>3, <1>4, <1>5, <1>7
  <2> QED
    BY <1>2, <2>1, ReadableBeside DEF NParts
<1>19. Options'
  <2>1. us["ENCRYPT"] \in {"yes", "no"} /\ him["ENCRYPT"] \in {"yes", "no"}
    BY EncryptHeld
  <2>2. ASSUME NEW p, NEW e \in Directions, p # "ENCRYPT" PROVE Away(out, out', Says(p, e))
    <3>1. \A m \in Says(p, e) : m.opt = p
      BY AskOther
    <3> QED
      BY <1>6, <1>8, <2>2, <3>1 DEF Sends
  <2> QED
    BY <1>2, <1>3, <2>1, <2>2, OptionsBeside DEF NParts
<1>20. WireTyped'
  <2>1. /\ engine \in {N!NoEngine, 1} /\ encrypt \in BOOLEAN /\ decrypt \in BOOLEAN /\ open \in BOOLEAN
        /\ encIV \in {0, OurVector} /\ decIV \in {0, N!ServerIV} /\ enckey \in {0, 1}
    BY DEF WireTyped
  <2>2. out' \in Wire(ToServer)
    BY <1>8 DEF Sends
  <2> QED
    BY <1>2, <1>3, <2>1, <2>2, TypedStep
<1> QED
  BY <1>11, <1>15, <1>16, <1>17, <1>18, <1>19, <1>20 DEF NParts

-----------------------------------------------------------------------------
(* The steps of encryption *)

LEMMA EncryptTaken ==
  ASSUME WireTyped, NParts, NEW c, NEW k, N!Encrypt(c, k)
  PROVE  /\ in' \in Wire(ToProgram) /\ Takes(in, in', N!Command, N!OurReading, Theirs)
         /\ N!Command \in EncryptIn /\ N!Command.cmd = c /\ N!Command.kind = k
         /\ negotiation' = negotiation /\ negotiation.crypt /\ us' = us /\ him' = him /\ server' = server
         /\ UNCHANGED <<open, will, doo, negotiated, enckey>> /\ authenticated' = TRUE
         /\ Keyed /\ enckey = 1 /\ server.key = 1
<1>1. /\ N!Receives("ENCRYPT") /\ N!Command.cmd = c /\ N!Command.kind = k /\ negotiation.crypt
      /\ UNCHANGED <<open, will, doo, negotiated, enckey, authenticated>>
  BY Registering DEF N!Encrypt, N!options, N!YesNo
<1>2. /\ in' \in Wire(ToProgram) /\ Takes(in, in', N!Command, N!OurReading, Theirs)
      /\ N!Command \in ToProgram /\ N!Command.opt = "ENCRYPT"
      /\ negotiation' = negotiation /\ us' = us /\ him' = him /\ server' = server
  BY <1>1, ProgramTakes
<1>3. N!Command \in EncryptIn
  BY <1>2 DEF EncryptIn
<1>4. Has(in, EncryptIn)
  BY <1>2, <1>3 DEF Takes, Took
<1>5. Keyed
  BY <1>4 DEF NParts, Authenticating, Untouched
<1>6. enckey = 1 /\ server.key = 1
  BY <1>5 DEF Keyed
<1>7. authenticated = TRUE
  BY DEF WireTyped
<1> QED
  BY <1>1, <1>2, <1>3, <1>5, <1>6, <1>7

\* Beside the encryption nothing happens.
LEMMA EncryptAside ==
  ASSUME WireTyped, NParts, eaten' = eaten, NEW c, NEW k, N!Encrypt(c, k), NEW A, A \subseteq EncryptOut, NEW a, Sends(A, a)
  PROVE  Authenticating' /\ Options'
<1>1. /\ in' \in Wire(ToProgram) /\ Takes(in, in', N!Command, N!OurReading, Theirs)
      /\ N!Command \in EncryptIn /\ N!Command.cmd = c /\ N!Command.kind = k
      /\ negotiation' = negotiation /\ negotiation.crypt /\ us' = us /\ him' = him /\ server' = server
      /\ UNCHANGED <<open, will, doo, negotiated, enckey>>
      /\ Keyed
  BY EncryptTaken
<1>2. N!Command.opt = "ENCRYPT" /\ \A b \in A : b.opt = "ENCRYPT"
  BY <1>1 DEF EncryptIn, EncryptOut
<1>3. N!Command \notin AuthMessages /\ \A b \in A : b \notin AuthMessages
  BY <1>2, KindsIs
<1>4. Away(in, in', AuthMessages) /\ Away(out, out', AuthMessages)
  BY <1>1, <1>3, TookAway DEF Takes, Sends
<1>5. Has(in, EncryptIn)
  BY <1>1 DEF Takes, Took
<1>6. ~Untouched
  BY <1>5 DEF Untouched
<1>7. Authenticating'
  BY <1>1, <1>4, <1>6, AuthenticatingBeside DEF NParts
<1>8. ASSUME NEW p, NEW e \in Directions, p # "ENCRYPT" PROVE Away(in, in', Asks(p, e)) /\ Away(out, out', Says(p, e))
  <2>1. (\A m \in Asks(p, e) : m.opt = p) /\ (\A m \in Says(p, e) : m.opt = p)
    BY AskOther
  <2>2. N!Command \notin Asks(p, e) /\ \A b \in A : b \notin Says(p, e)
    BY <1>2, <1>8, <2>1
  <2> QED
    BY <1>1, <2>2, TookAway DEF Takes, Sends
<1>9. us["ENCRYPT"] \in {"yes", "no"} /\ him["ENCRYPT"] \in {"yes", "no"}
  BY EncryptHeld
<1>10. Options'
  BY <1>1, <1>8, <1>9, OptionsBeside DEF NParts
<1> QED
  BY <1>7, <1>10

\* What is known by its kind.
LEMMA EncryptKinds ==
  ASSUME NEW m
  PROVE  /\ m.kind # "SUPPORT" => m # Offer /\ m # N!sendSUPPORT
         /\ m.kind # "IS" => m # TheirIS /\ m # OurIS
         /\ m.cmd # "DO" => m # DoEncrypt
         /\ m.cmd # "WILL" => m # WillEncrypt
         /\ \A k : m.kind # k => m # SubOf(k)
BY NamesIs

\* What each message is answered with, and what is set by it.
LEMMA EncryptStep ==
  ASSUME WireTyped, NParts, refused' = FALSE, eaten' = eaten, NEW c, NEW k, N!Encrypt(c, k),
         NEW A, A \subseteq EncryptOut, NEW a, Sends(A, a),
         engine' \in {N!NoEngine, 1}, engine = 1 => engine' = 1,
         encIV' \in {encIV, OurVector}, decIV' \in {decIV, N!ServerIV},
         c = "DO" => engine' = 1,
         encIV' # encIV => k = "SUPPORT", k = "SUPPORT" => encIV' = OurVector,
         decIV' # decIV => k = "IS", k = "IS" => decIV' = N!ServerIV,
         DoEncrypt \in A => c = "WILL",
         N!sendSUPPORT \in A => c = "WILL" /\ engine' = 1,
         OurIS \in A => k = "SUPPORT" /\ negotiation.support,
         k = "SUPPORT" /\ negotiation.support => OurIS \in A,
         SubOf("REPLY") \in A => k = "IS",
         SubOf("ENC_KEYID") \in A => k = "REPLY",
         SubOf("DEC_KEYID") \in A => k = "ENC_KEYID",
         SubOf("START") \in A => k \in {"DEC_KEYID", "START"},
         a = SubOf("START") => k \in {"DEC_KEYID", "START"},
         encrypt' = (IF a = SubOf("START") THEN TRUE ELSE IF a = SubOf("END") THEN FALSE ELSE encrypt),
         decrypt' = (IF k = "START" THEN TRUE ELSE IF k = "END" THEN FALSE ELSE decrypt)
  PROVE  WireTyped' /\ NParts'
<1> DEFINE h == N!Command
<1>1. /\ in' \in Wire(ToProgram) /\ Takes(in, in', h, N!OurReading, Theirs)
      /\ h \in EncryptIn /\ h.cmd = c /\ h.kind = k
      /\ negotiation' = negotiation /\ us' = us /\ him' = him /\ server' = server
      /\ UNCHANGED <<open, will, doo, negotiated, enckey>> /\ authenticated' = TRUE
  BY EncryptTaken
<1>2. /\ OurVector' = OurVector /\ Offer' = Offer
  BY <1>1, SameSession
<1> HIDE DEF h
<1>3. h \in ToProgram /\ h.opt = "ENCRYPT"
  BY <1>1 DEF EncryptIn
<1>4. /\ k = "SUPPORT" => h = Offer
      /\ k = "IS" => h = TheirIS
      /\ k \in SubsIn => h = SubOf(k)
      /\ c = "DO" => h = DoEncrypt
      /\ c = "WILL" => h = WillEncrypt
  <2>1. CASE c = "SB"
    BY <1>1, <1>3, <2>1, ProgramReads DEF SubsIn
  <2>2. CASE c # "SB"
    <3>1. h = N!Cmd(c, "ENCRYPT")
      BY <1>1, <1>3, <2>2, ProgramReads
    <3>2. h.kind = ""
      BY <3>1, CmdIs
    <3>3. k = ""
      BY <1>1, <3>2
    <3> QED
      BY <3>1, <3>3 DEF SubsIn, DoEncrypt, WillEncrypt
  <2> QED
    BY <2>1, <2>2
<1>5. /\ k # "SUPPORT" => h # Offer
      /\ k # "IS" => h # TheirIS
      /\ c # "DO" => h # DoEncrypt
      /\ c # "WILL" => h # WillEncrypt
      /\ \A j : k # j => h # SubOf(j)
  BY <1>1, EncryptKinds
<1>6. /\ \A M : Has(in, M) <=> h \in M \/ Has(in', M)
      /\ \A M, L : Preceded(in, M, L) => h \notin M /\ (h \notin L => Preceded(in', M, L))
  BY <1>1 DEF Takes, Took
<1>7. /\ k = "SUPPORT" => engine = 1
      /\ k = "IS" => engine = 1 /\ encIV = OurVector /\ server.encIV = N!ServerIV
      /\ k \in {"REPLY", "DEC_KEYID"} => Sealed
      /\ k \in {"ENC_KEYID", "START"} => Opened /\ Sealed
      /\ c = "WILL" => Offered \/ Has(out, {WillEncrypt})
  <2>1. k = "SUPPORT" => engine = 1
    BY <1>4, <1>6 DEF NParts, InTurn
  <2>2. k = "IS" => engine = 1 /\ encIV = OurVector /\ server.encIV = N!ServerIV
    BY <1>4, <1>6 DEF NParts, InTurn, Vectors
  <2>3. k \in {"REPLY", "DEC_KEYID"} => Sealed
    BY <1>4, <1>6 DEF NParts, Vectors, SubsIn
  <2>4. k \in {"ENC_KEYID", "START"} => Opened /\ Sealed
    BY <1>4, <1>6 DEF NParts, Vectors, SubsIn
  <2>5. c = "WILL" => Offered \/ Has(out, {WillEncrypt})
    BY <1>4, <1>6 DEF NParts, OfferedFirst
  <2> QED
    BY <2>1, <2>2, <2>3, <2>4, <2>5
<1>8. /\ Opened => Opened'
      /\ Sealed => Sealed'
      /\ Offered \/ k = "SUPPORT" => Offered'
  <2>1. decIV = N!ServerIV => decIV' = N!ServerIV
    OBVIOUS
  <2>2. encIV = OurVector => encIV' = OurVector
    OBVIOUS
  <2>3. Opened => Opened'
    BY <1>1, <2>1 DEF Opened
  <2>4. Sealed => Sealed'
    BY <1>1, <1>2, <2>2 DEF Sealed
  <2>5. k # "SUPPORT" => (Has(in, {Offer}) => Has(in', {Offer}))
    BY <1>5, <1>6
  <2>6. Offered \/ k = "SUPPORT" => Offered'
    BY <1>2, <2>2, <2>5 DEF Offered
  <2> QED
    BY <2>3, <2>4, <2>6
<1>9. /\ \A M : Has(out', M) <=> Has(out, M) \/ (open /\ \E b \in A : b \in M)
      /\ \A M, L : Preceded(out, M, L) /\ ((\E b \in A : b \in M) => Has(out, L)) => Preceded(out', M, L)
  BY DEF Sends
<1>10. OfferedFirst'
  <2>1. him'["ENCRYPT"] = "yes" => Offered'
    BY <1>1, <1>8 DEF NParts, OfferedFirst
  <2>2. Has(out', {DoEncrypt}) \/ Has(in', {WillEncrypt}) => Offered' \/ Has(out', {WillEncrypt})
    BY <1>6, <1>7, <1>8, <1>9 DEF NParts, OfferedFirst
  <2>3. Offered' \/ Preceded(out', {N!sendSUPPORT}, {WillEncrypt})
    BY <1>7, <1>8, <1>9 DEF NParts, OfferedFirst
  <2> QED
    BY <2>1, <2>2, <2>3 DEF OfferedFirst
<1>11. InTurn'
  <2>1. engine' = 1 \/ Preceded(in', {Offer}', {DoEncrypt})
    BY <1>2, <1>5, <1>6 DEF NParts, InTurn
  <2>2. encIV' = OurVector' \/ Preceded(in', {TheirIS}, {Offer}')
    BY <1>2, <1>5, <1>6 DEF NParts, InTurn
  <2>3. server'.decIV = OurVector' \/ Preceded(out', {SubOf("REPLY")}, {OurIS})
    <3>1. CASE SubOf("REPLY") \notin A
      BY <1>1, <1>2, <1>9, <3>1 DEF NParts, InTurn
    <3>2. CASE SubOf("REPLY") \in A
      <4>1. CASE open
        <5>1. server.decIV = OurVector \/ Has(out, {OurIS})
          BY <1>7, <3>2, <4>1 DEF NParts, InTurn
        <5> QED
          BY <1>1, <1>2, <1>9, <5>1 DEF NParts, InTurn
      <4>2. CASE ~open
        BY <1>1, <1>2, <4>2 DEF NParts, InTurn, Sends
      <4> QED
        BY <4>1, <4>2
    <3> QED
      BY <3>1, <3>2
  <2>4. open' /\ encIV' = OurVector' => server'.decIV = OurVector' \/ Has(out', {OurIS})
    <3>1. CASE k = "SUPPORT"
      <4>1. ~negotiation.support => server.decIV = OurVector
        BY DEF WireTyped, OurVector
      <4>2. negotiation.support /\ open => Has(out', {OurIS})
        BY <1>9, <3>1
      <4> QED
        BY <1>1, <1>2, <4>1, <4>2
    <3>2. CASE k # "SUPPORT"
      BY <1>1, <1>2, <1>9, <3>2 DEF NParts, InTurn
    <3> QED
      BY <3>1, <3>2
  <2> QED
    BY <2>1, <2>2, <2>3, <2>4 DEF InTurn
<1>12. Vectors'
  <2>1. Has(out', {N!sendSUPPORT, OurIS}) \/ Has(in', {TheirIS}) => engine' = 1
    <3>1. N!sendSUPPORT \in A \/ OurIS \in A => engine' = 1
      BY <1>7
    <3> QED
      BY <1>6, <1>9, <3>1 DEF NParts, Vectors
  <2>2. Has(out', {OurIS}) \/ server'.decIV = OurVector' => encIV' = OurVector'
    BY <1>1, <1>2, <1>9 DEF NParts, Vectors
  <2>3. Has(out', {OurIS}) => negotiation'.support
    BY <1>1, <1>9 DEF NParts, Vectors
  <2>4. Has(in', {TheirIS}) \/ decIV' = N!ServerIV => server'.encIV = N!ServerIV
    BY <1>1, <1>6, <1>7 DEF NParts, Vectors
  <2>5. Has(out', {SubOf("REPLY")}) => Opened' /\ encIV' = OurVector'
    <3>1. SubOf("REPLY") \in A => Opened' /\ encIV' = OurVector'
      BY <1>1, <1>2, <1>7 DEF Opened
    <3> QED
      BY <1>2, <1>8, <1>9, <3>1 DEF NParts, Vectors
  <2>6. Has(in', {SubOf("REPLY"), SubOf("DEC_KEYID")}) => Sealed'
    BY <1>6, <1>8 DEF NParts, Vectors
  <2>7. Has(out', {SubOf("ENC_KEYID"), SubOf("START")}) => Sealed'
    <3>1. SubOf("ENC_KEYID") \in A \/ SubOf("START") \in A => Sealed
      BY <1>7
    <3> QED
      BY <1>8, <1>9, <3>1 DEF NParts, Vectors
  <2>8. encrypt' \/ server'.decrypt => Sealed'
    <3>1. a = SubOf("START") => Sealed
      BY <1>7
    <3> QED
      BY <1>1, <1>8, <3>1 DEF NParts, Vectors
  <2>9. Has(in', {SubOf("ENC_KEYID"), SubOf("START")}) \/ Has(out', {SubOf("DEC_KEYID")}) => Opened' /\ Sealed'
    <3>1. SubOf("DEC_KEYID") \in A => Opened /\ Sealed
      BY <1>7
    <3> QED
      BY <1>6, <1>8, <1>9, <3>1 DEF NParts, Vectors
  <2>10. server'.ready \/ decrypt' => Opened' /\ Sealed'
    BY <1>1, <1>7, <1>8 DEF NParts, Vectors
  <2>11. server'.encrypt \/ server'.stage \in {"stopped", "restarted"} => server'.ready
    BY <1>1 DEF NParts, Vectors
  <2> QED
    BY <2>1, <2>2, <2>3, <2>4, <2>5, <2>6, <2>7, <2>8, <2>9, <2>10, <2>11 DEF Vectors
<1>13. Readable'
  <2>1. N!ServerReading' = N!ServerReading /\ N!ServerCipher' = N!ServerCipher
    BY <1>1 DEF N!ServerReading, N!ServerCipher
  <2>2. Then(Packet(h, N!OurReading), Theirs) = N!OurReading'
    <3>1. CASE k = "START"
      <4>1. h = SubOf("START") /\ Opened /\ Opened'
        BY <1>4, <1>7, <1>8, <3>1 DEF SubsIn
      <4> QED
        BY <3>1, <4>1 DEF Then, Packet, N!OurReading, Opened, Theirs
    <3>2. CASE k = "END"
      <4>1. h = SubOf("END") /\ h # SubOf("START")
        BY <1>4, <1>5, <3>2 DEF SubsIn
      <4> QED
        BY <3>2, <4>1 DEF Then, Packet, N!OurReading
    <3>3. CASE k \notin {"START", "END"}
      <4>1. h \notin Switches
        BY <1>5, <3>3 DEF Switches
      <4>2. decrypt => Opened /\ Opened'
        BY <1>8 DEF NParts, Vectors
      <4>3. N!OurReading' = N!OurReading
        BY <3>3, <4>2 DEF N!OurReading, Opened
      <4> QED
        BY <4>1, <4>3, ThenSame
    <3> QED
      BY <3>1, <3>2, <3>3
  <2>3. Then(Packet(a, N!OurCipher), Ours) = N!OurCipher'
    <3>1. SubOf("START") # SubOf("END")
      <4>1. SubOf("START").kind = "START" /\ SubOf("END").kind = "END"
        BY NamesIs
      <4> QED
        BY <4>1
    <3>2. CASE a = SubOf("START")
      <4>1. Sealed'
        BY <1>7, <1>8, <3>2
      <4> QED
        BY <1>2, <3>2, <4>1 DEF Then, Packet, N!OurCipher, Sealed, Ours
    <3>3. CASE a = SubOf("END")
      BY <3>1, <3>3 DEF Then, Packet, N!OurCipher
    <3>4. CASE a \notin Switches
      <4>1. encrypt' = encrypt
        BY <3>4 DEF Switches
      <4>2. encrypt => Sealed /\ Sealed'
        BY <1>8 DEF NParts, Vectors
      <4>3. N!OurCipher' = N!OurCipher
        <5>1. encrypt => engine' = engine /\ encIV' = encIV
          BY <1>2, <4>2 DEF Sealed
        <5>2. CASE encrypt
          <6>1. encrypt' /\ engine' = engine /\ encIV' = encIV
            BY <4>1, <5>1, <5>2
          <6>2. N!OurCipher = <<engine, encIV>> /\ N!OurCipher' = <<engine', encIV'>>
            BY <5>2, <6>1 DEF N!OurCipher
          <6> QED
            BY <6>1, <6>2
        <5>3. CASE ~encrypt
          <6>1. encrypt = FALSE
            BY <5>3 DEF WireTyped
          <6>2. encrypt' = FALSE
            BY <4>1, <6>1
          <6>3. ~encrypt'
            BY <6>2
          <6> QED
            BY <5>3, <6>3 DEF N!OurCipher, N!Plain
        <5> QED
          BY <5>2, <5>3
      <4> QED
        BY <3>4, <4>3, ThenSame
    <3> QED
      BY <3>2, <3>3, <3>4 DEF Switches
  <2>4. Chained(in', N!OurReading', N!ServerCipher', Theirs)
    BY <1>1, <2>1, <2>2 DEF NParts, Readable, Takes
  <2>5. IF open' THEN open /\ \A from : Chained(out, from, N!OurCipher, Ours) => Chained(out', from, N!OurCipher', Ours)
        ELSE out' = out
    BY <1>1, <2>3 DEF Sends
  <2> QED
    BY <1>1, <2>1, <2>4, <2>5, ReadableStep DEF NParts
<1>14. Authenticating' /\ Options'
  BY EncryptAside
<1>15. WireTyped'
  <2>1. /\ open \in BOOLEAN /\ enckey \in {0, 1} /\ encrypt \in BOOLEAN /\ decrypt \in BOOLEAN
        /\ encIV \in {0, OurVector} /\ decIV \in {0, N!ServerIV}
    BY DEF WireTyped
  <2>2. encrypt' \in BOOLEAN /\ decrypt' \in BOOLEAN
    BY <2>1
  <2>3. encIV' \in {0, OurVector} /\ decIV' \in {0, N!ServerIV}
    BY <2>1
  <2>4. out' \in Wire(ToServer)
    BY DEF Sends
  <2> QED
    BY <1>1, <2>1, <2>2, <2>3, <2>4, TypedStep
<1> QED
  BY <1>10, <1>11, <1>12, <1>13, <1>14, <1>15 DEF NParts

\* What is sent is none of the rest.
LEMMA SentIs ==
  /\ \A j, k : SubOf(j) = SubOf(k) => j = k
  /\ \A k : SubOf(k) # DoEncrypt /\ SubOf(k) # WillEncrypt
  /\ \A k : (SubOf(k) = N!sendSUPPORT => k = "SUPPORT") /\ (SubOf(k) = OurIS => k = "IS")
  /\ DoEncrypt # WillEncrypt /\ DoEncrypt # N!sendSUPPORT /\ DoEncrypt # OurIS
  /\ WillEncrypt # N!sendSUPPORT /\ WillEncrypt # OurIS /\ OurIS # N!sendSUPPORT
<1>1. ASSUME NEW j, NEW k, SubOf(j) = SubOf(k) PROVE j = k
  <2>1. SubOf(j).kind = j /\ SubOf(k).kind = k
    BY NamesIs
  <2> QED
    BY <1>1, <2>1
<1>2. ASSUME NEW k PROVE SubOf(k) # DoEncrypt /\ SubOf(k) # WillEncrypt
  BY NamesIs
<1>3. ASSUME NEW k PROVE (SubOf(k) = N!sendSUPPORT => k = "SUPPORT") /\ (SubOf(k) = OurIS => k = "IS")
  <2>1. SubOf(k).kind = k /\ N!sendSUPPORT.kind = "SUPPORT" /\ OurIS.kind = "IS"
    BY NamesIs
  <2> QED
    BY <2>1
<1>4. DoEncrypt # WillEncrypt /\ DoEncrypt # N!sendSUPPORT /\ DoEncrypt # OurIS
  BY NamesIs
<1>5. WillEncrypt # N!sendSUPPORT /\ WillEncrypt # OurIS /\ OurIS # N!sendSUPPORT
  BY NamesIs
<1> QED
  BY <1>1, <1>2, <1>3, <1>4, <1>5

\* A refusal is none of it.
LEMMA RefusalIs ==
  ASSUME NEW c \in {"WONT", "DONT"}
  PROVE  LET m == N!Cmd(c, "ENCRYPT")
         IN  /\ m \in EncryptOut /\ m \notin Switches
             /\ m # DoEncrypt /\ m # N!sendSUPPORT /\ m # OurIS /\ \A k : m # SubOf(k)
<1> DEFINE m == N!Cmd(c, "ENCRYPT")
<1>1. m.cmd = c /\ m.opt = "ENCRYPT"
  BY CmdIs
<1>2. m \in ToServer
  BY ServerGets DEF N!Option
<1> HIDE DEF m
<1>3. m # DoEncrypt
  BY <1>1, NamesIs
<1>4. m # N!sendSUPPORT /\ m # OurIS
  BY <1>1, NamesIs
<1>5. \A k : m # SubOf(k)
  BY <1>1, NamesIs
<1>6. m \in EncryptOut
  BY <1>1, <1>2 DEF EncryptOut
<1> QED
  BY <1>3, <1>4, <1>5, <1>6 DEF Switches, m

LEMMA SentTyped ==
  /\ \A k \in SubsOut : SubOf(k) \in ToServer /\ SubOf(k) \in EncryptOut
  /\ \A k : k \notin {"START", "END"} => SubOf(k) \notin Switches
  /\ DoEncrypt \notin Switches /\ WillEncrypt \notin Switches
  /\ N!sendSUPPORT \notin Switches /\ OurIS \notin Switches
<1>1. \A k \in SubsOut : SubOf(k) \in ToServer /\ SubOf(k) \in EncryptOut
  BY ServerGets, OfEncryption DEF SubsOut
<1>2. \A k : k \notin {"START", "END"} => SubOf(k) \notin Switches
  BY SentIs DEF Switches
<1>3. DoEncrypt \notin Switches /\ WillEncrypt \notin Switches
  BY SentIs DEF Switches
<1>4. N!sendSUPPORT \notin Switches /\ OurIS \notin Switches
  <2>1. N!sendSUPPORT.kind = "SUPPORT" /\ OurIS.kind = "IS"
    BY NamesIs
  <2> QED
    BY <2>1, KindsIs
<1> QED
  BY <1>1, <1>2, <1>3, <1>4

\* A kind that the program sends and nothing else has been set.
LEMMA EncryptPasses ==
  ASSUME WireTyped, NParts, refused' = FALSE, eaten' = eaten, NEW c, NEW k, N!Encrypt(c, k),
         NEW A, A \subseteq EncryptOut, NEW a, a \notin Switches, Sends(A, a),
         k \notin {"SUPPORT", "IS", "START", "END"}, c # "DO",
         DoEncrypt \notin A, N!sendSUPPORT \notin A, OurIS \notin A, SubOf("REPLY") \notin A, SubOf("START") \notin A,
         SubOf("ENC_KEYID") \in A => k = "REPLY", SubOf("DEC_KEYID") \in A => k = "ENC_KEYID",
         UNCHANGED <<engine, encIV, decIV, encrypt, decrypt>>
  PROVE  WireTyped' /\ NParts'
<1>1. a # SubOf("START") /\ a # SubOf("END")
  BY DEF Switches
<1>2. engine' \in {N!NoEngine, 1} /\ (engine = 1 => engine' = 1)
  BY DEF WireTyped
<1>3. encIV' \in {encIV, OurVector} /\ decIV' \in {decIV, N!ServerIV}
  OBVIOUS
<1>4. /\ encrypt' = (IF a = SubOf("START") THEN TRUE ELSE IF a = SubOf("END") THEN FALSE ELSE encrypt)
      /\ decrypt' = (IF k = "START" THEN TRUE ELSE IF k = "END" THEN FALSE ELSE decrypt)
  BY <1>1
<1> QED
  BY <1>1, <1>2, <1>3, <1>4, EncryptStep

LEMMA EncryptRefusedStep == ASSUME WireTyped, NParts, refused' = FALSE, eaten' = eaten, N!EncryptRefused PROVE WireTyped' /\ NParts'
<1>1. PICK c \in {"WONT", "DONT"} : N!Encrypt(c, "") /\ N!SendReply(<<N!sendEncrypt(N!Answer(c))>>)
  BY DEF N!EncryptRefused
<1>2. PICK r \in {"WONT", "DONT"} : r = N!Answer(c)
  BY DEF N!Answer
<1> DEFINE m == N!Cmd(r, "ENCRYPT")
           A == {m}
           k == ""
<1>3. /\ m \in EncryptOut /\ m \notin Switches
      /\ m # DoEncrypt /\ m # N!sendSUPPORT /\ m # OurIS /\ \A j : m # SubOf(j)
  BY RefusalIs
<1>4. N!SendReply(<<m>>)
  BY <1>1, <1>2 DEF N!sendEncrypt
<1> HIDE DEF m
<1>5. ProgramSends(m)
  BY <1>3, <1>4, SendOne DEF EncryptOut
<1>6. Sends(A, m) /\ A \subseteq EncryptOut
  BY <1>3, <1>5, SendsOne
<1>7. N!Encrypt(c, k) /\ UNCHANGED <<engine, encIV, decIV, encrypt, decrypt>>
  BY <1>1 DEF N!EncryptRefused
<1>8. k \notin {"SUPPORT", "IS", "START", "END"} /\ c # "DO"
  OBVIOUS
<1>9. /\ DoEncrypt \notin A /\ N!sendSUPPORT \notin A /\ OurIS \notin A
      /\ SubOf("REPLY") \notin A /\ SubOf("START") \notin A
      /\ SubOf("ENC_KEYID") \in A => k = "REPLY"
      /\ SubOf("DEC_KEYID") \in A => k = "ENC_KEYID"
  BY <1>3
<1> HIDE DEF A, k
<1> QED
  BY <1>3, <1>6, <1>7, <1>8, <1>9, EncryptPasses

LEMMA ReplyStep == ASSUME WireTyped, NParts, refused' = FALSE, eaten' = eaten, N!Reply PROVE WireTyped' /\ NParts'
<1> DEFINE m == SubOf("ENC_KEYID")
           A == {m}
           k == "REPLY"
           c == "SB"
<1>1. /\ N!Encrypt(c, k) /\ N!SendReply(<<m>>)
      /\ UNCHANGED <<engine, encIV, decIV, encrypt, decrypt>>
  BY DEF N!Reply, N!sendENC_KEYID, SubOf
<1>2. m \in ToServer /\ m \in EncryptOut /\ m \notin Switches
  BY SentTyped DEF SubsOut
<1>3. k \notin {"SUPPORT", "IS", "START", "END"} /\ c # "DO"
  OBVIOUS
<1>4. /\ DoEncrypt \notin A /\ N!sendSUPPORT \notin A /\ OurIS \notin A
      /\ SubOf("REPLY") \notin A /\ SubOf("START") \notin A
      /\ SubOf("ENC_KEYID") \in A => k = "REPLY"
      /\ SubOf("DEC_KEYID") \in A => k = "ENC_KEYID"
  BY SentIs
<1> HIDE DEF m, k, c
<1>5. ProgramSends(m)
  BY <1>1, <1>2, SendOne
<1>6. Sends(A, m) /\ A \subseteq EncryptOut
  BY <1>2, <1>5, SendsOne
<1> HIDE DEF A
<1> QED
  BY <1>1, <1>2, <1>3, <1>4, <1>6, EncryptPasses

LEMMA EncKeyIdStep == ASSUME WireTyped, NParts, refused' = FALSE, eaten' = eaten, N!EncKeyId PROVE WireTyped' /\ NParts'
<1> DEFINE m == SubOf("DEC_KEYID")
           n == SubOf("REQUEST_START")
           A == {m, n}
           k == "ENC_KEYID"
           c == "SB"
<1>1. /\ N!Encrypt(c, k) /\ N!SendReply(<<m, n>>)
      /\ UNCHANGED <<engine, encIV, decIV, encrypt, decrypt>>
  BY DEF N!EncKeyId, N!sendDEC_KEYID, N!sendREQSTART, SubOf
<1>2. /\ m \in ToServer /\ m \in EncryptOut /\ m \notin Switches
      /\ n \in ToServer /\ n \in EncryptOut /\ n \notin Switches
  BY SentTyped DEF SubsOut
<1>3. k \notin {"SUPPORT", "IS", "START", "END"} /\ c # "DO"
  OBVIOUS
<1>4. /\ DoEncrypt \notin A /\ N!sendSUPPORT \notin A /\ OurIS \notin A
      /\ SubOf("REPLY") \notin A /\ SubOf("START") \notin A
      /\ SubOf("ENC_KEYID") \in A => k = "REPLY"
      /\ SubOf("DEC_KEYID") \in A => k = "ENC_KEYID"
  BY SentIs
<1> HIDE DEF m, n, k, c
<1>5. ProgramSendsTwo(m, n)
  BY <1>1, <1>2, SendTwo
<1>6. Sends(A, n) /\ A \subseteq EncryptOut
  BY <1>2, <1>5, SendsTwo
<1> HIDE DEF A
<1> QED
  BY <1>1, <1>2, <1>3, <1>4, <1>6, EncryptPasses

LEMMA RequestStartStep == ASSUME WireTyped, NParts, refused' = FALSE, eaten' = eaten, N!RequestStart PROVE WireTyped' /\ NParts'
<1> DEFINE A == {}
           k == "REQUEST_START"
           c == "SB"
<1>1. /\ N!Encrypt(c, k) /\ out' = out
      /\ UNCHANGED <<engine, encIV, decIV, encrypt, decrypt>>
  BY DEF N!RequestStart, N!NoReply
<1>2. DoEncrypt \notin Switches
  BY SentTyped
<1>3. Sends(A, DoEncrypt) /\ A \subseteq EncryptOut
  BY <1>1, <1>2, SendsNone
<1>4. k \notin {"SUPPORT", "IS", "START", "END"} /\ c # "DO"
  OBVIOUS
<1>5. /\ DoEncrypt \notin A /\ N!sendSUPPORT \notin A /\ OurIS \notin A /\ SubOf("REPLY") \notin A /\ SubOf("START") \notin A
      /\ SubOf("ENC_KEYID") \in A => k = "REPLY"
      /\ SubOf("DEC_KEYID") \in A => k = "ENC_KEYID"
  OBVIOUS
<1> HIDE DEF A, k, c
<1> QED
  BY <1>1, <1>2, <1>3, <1>4, <1>5, EncryptPasses

\* The engine is there from the first DO or WILL on.
LEMMA EncryptDoStep == ASSUME WireTyped, NParts, refused' = FALSE, eaten' = eaten, N!EncryptDo PROVE WireTyped' /\ NParts'
<1> DEFINE a == WillEncrypt
           A == {a}
           k == ""
           c == "DO"
<1>1. N!Encrypt(c, k)
  BY DEF N!EncryptDo
<1>2. enckey = 1
  BY <1>1, EncryptTaken
<1>3. /\ engine' = 1 /\ N!SendReply(<<a>>) /\ UNCHANGED <<encIV, decIV, encrypt, decrypt>>
  BY <1>2 DEF N!EncryptDo, N!sendEncrypt, WillEncrypt, WireTyped, N!MakeEngine
<1>4. a \in ToServer /\ a \in EncryptOut /\ a \notin Switches
  BY ServerGets, OfEncryption, SentTyped
<1>5. /\ DoEncrypt \notin A /\ N!sendSUPPORT \notin A /\ OurIS \notin A /\ \A j : SubOf(j) \notin A
  BY SentIs
<1>6. k \notin {"SUPPORT", "IS", "START", "END"}
  OBVIOUS
<1> HIDE DEF a, k, c
<1>7. ProgramSends(a)
  BY <1>3, <1>4, SendOne
<1>8. Sends(A, a) /\ A \subseteq EncryptOut
  BY <1>4, <1>7, SendsOne
<1>9. a # SubOf("START") /\ a # SubOf("END")
  BY <1>4 DEF Switches
<1> HIDE DEF A
<1>10. encIV' \in {encIV, OurVector} /\ decIV' \in {decIV, N!ServerIV} /\ engine' \in {N!NoEngine, 1}
  BY <1>3
<1>11. /\ encrypt' = (IF a = SubOf("START") THEN TRUE ELSE IF a = SubOf("END") THEN FALSE ELSE encrypt)
       /\ decrypt' = (IF k = "START" THEN TRUE ELSE IF k = "END" THEN FALSE ELSE decrypt)
  BY <1>3, <1>6, <1>9
<1> QED
  BY <1>1, <1>3, <1>5, <1>6, <1>8, <1>9, <1>10, <1>11, EncryptStep

LEMMA EncryptWillStep == ASSUME WireTyped, NParts, refused' = FALSE, eaten' = eaten, N!EncryptWill PROVE WireTyped' /\ NParts'
<1> DEFINE b == DoEncrypt
           m == SubOf("REQUEST_START")
           a == N!sendSUPPORT
           A == {b, m, a}
           k == ""
           c == "WILL"
<1>1. N!Encrypt(c, k)
  BY DEF N!EncryptWill
<1>2. enckey = 1
  BY <1>1, EncryptTaken
<1>3. /\ engine' = 1 /\ N!SendReply(<<b, m, a>>) /\ UNCHANGED <<encIV, decIV, encrypt, decrypt>>
  BY <1>2 DEF N!EncryptWill, N!sendEncrypt, DoEncrypt, N!sendREQSTART, SubOf, WireTyped, N!MakeEngine
<1>4. /\ a \in ToServer /\ a \in EncryptOut /\ a \notin Switches
      /\ b \in ToServer /\ b \in EncryptOut /\ b \notin Switches
      /\ m \in ToServer /\ m \in EncryptOut /\ m \notin Switches
  BY ServerGets, OfEncryption, SentTyped DEF SubsOut
<1>5. /\ OurIS \notin A /\ \A j \in {"REPLY", "ENC_KEYID", "DEC_KEYID", "START", "END"} : SubOf(j) \notin A
  BY SentIs
<1>6. k \notin {"SUPPORT", "IS", "START", "END"} /\ c = "WILL" /\ c # "DO"
  OBVIOUS
<1> HIDE DEF a, b, m, k, c
<1>7. ProgramSendsThree(b, m, a)
  BY <1>3, <1>4, SendThree
<1>8. Sends(A, a) /\ A \subseteq EncryptOut
  BY <1>4, <1>7, SendsThree
<1>9. a # SubOf("START") /\ a # SubOf("END")
  BY <1>4 DEF Switches
<1> HIDE DEF A
<1>10. encIV' \in {encIV, OurVector} /\ decIV' \in {decIV, N!ServerIV} /\ engine' \in {N!NoEngine, 1}
  BY <1>3
<1>11. /\ encrypt' = (IF a = SubOf("START") THEN TRUE ELSE IF a = SubOf("END") THEN FALSE ELSE encrypt)
       /\ decrypt' = (IF k = "START" THEN TRUE ELSE IF k = "END" THEN FALSE ELSE decrypt)
  BY <1>3, <1>6, <1>9
<1> QED
  BY <1>1, <1>3, <1>5, <1>6, <1>8, <1>9, <1>10, <1>11, EncryptStep

\* A step that leaves the engine as it is, and the vectors unless a kind sets them.
LEMMA EncryptSets ==
  ASSUME WireTyped, NParts, refused' = FALSE, eaten' = eaten, NEW c, NEW k, N!Encrypt(c, k), c # "DO",
         NEW A, A \subseteq EncryptOut, NEW a, Sends(A, a), engine' = engine,
         encIV' = (IF k = "SUPPORT" THEN OurVector ELSE encIV), decIV' = (IF k = "IS" THEN N!ServerIV ELSE decIV),
         DoEncrypt \notin A, N!sendSUPPORT \notin A,
         SubOf("ENC_KEYID") \notin A, SubOf("DEC_KEYID") \notin A,
         OurIS \in A => k = "SUPPORT" /\ negotiation.support,
         k = "SUPPORT" /\ negotiation.support => OurIS \in A,
         SubOf("REPLY") \in A => k = "IS",
         SubOf("START") \in A => k \in {"DEC_KEYID", "START"},
         a = SubOf("START") => k \in {"DEC_KEYID", "START"},
         encrypt' = (IF a = SubOf("START") THEN TRUE ELSE IF a = SubOf("END") THEN FALSE ELSE encrypt),
         decrypt' = (IF k = "START" THEN TRUE ELSE IF k = "END" THEN FALSE ELSE decrypt)
  PROVE  WireTyped' /\ NParts'
<1>1. engine' \in {N!NoEngine, 1} /\ (engine = 1 => engine' = 1)
  BY DEF WireTyped
<1>2. encIV' \in {encIV, OurVector} /\ decIV' \in {decIV, N!ServerIV}
  OBVIOUS
<1>3. /\ encIV' # encIV => k = "SUPPORT"
      /\ k = "SUPPORT" => encIV' = OurVector
      /\ decIV' # decIV => k = "IS"
      /\ k = "IS" => decIV' = N!ServerIV
  OBVIOUS
<1> QED
  BY <1>1, <1>2, <1>3, EncryptStep

LEMMA SupportStep == ASSUME WireTyped, NParts, refused' = FALSE, eaten' = eaten, N!Support PROVE WireTyped' /\ NParts'
<1> DEFINE k == "SUPPORT"
           c == "SB"
<1>1. N!Encrypt(c, k) /\ UNCHANGED <<engine, decIV, encrypt, decrypt>>
  BY DEF N!Support
<1>2. N!Command = Offer
  <2>1. N!Command \in EncryptIn /\ N!Command.cmd = "SB" /\ N!Command.kind = "SUPPORT"
    BY <1>1, EncryptTaken
  <2>2. N!Command \in ToProgram /\ N!Command.opt = "ENCRYPT"
    BY <2>1 DEF EncryptIn
  <2> QED
    BY <2>1, <2>2, ProgramReads
<1>3. N!Command.arg = IF negotiation.support THEN 1 ELSE 0
  BY <1>2, NamesIs
<1>4. k = "SUPPORT" /\ c # "DO" /\ k \notin {"START", "END", "IS"}
  OBVIOUS
<1>5. CASE negotiation.support
  <2> DEFINE a == OurIS
             A == {a}
  <2>1. encIV' = OurVector /\ N!SendReply(<<a>>)
    BY <1>3, <1>5 DEF N!Support, N!sendIS, OurIS, OurVector
  <2>2. a \in ToServer /\ a \in EncryptOut /\ a \notin Switches
    BY ServerGets, OfEncryption, SentTyped
  <2>3. /\ DoEncrypt \notin A /\ N!sendSUPPORT \notin A /\ OurIS \in A
        /\ \A j \in {"REPLY", "ENC_KEYID", "DEC_KEYID", "START", "END"} : SubOf(j) \notin A
    BY SentIs
  <2> HIDE DEF a
  <2>4. ProgramSends(a)
    BY <2>1, <2>2, SendOne
  <2>5. Sends(A, a) /\ A \subseteq EncryptOut
    BY <2>2, <2>4, SendsOne
  <2>6. a # SubOf("START") /\ a # SubOf("END")
    BY <2>2 DEF Switches
  <2> HIDE DEF A, k, c
  <2>7. /\ encrypt' = (IF a = SubOf("START") THEN TRUE ELSE IF a = SubOf("END") THEN FALSE ELSE encrypt)
        /\ decrypt' = (IF k = "START" THEN TRUE ELSE IF k = "END" THEN FALSE ELSE decrypt)
        /\ encIV' = (IF k = "SUPPORT" THEN OurVector ELSE encIV)
        /\ decIV' = (IF k = "IS" THEN N!ServerIV ELSE decIV)
    BY <1>1, <1>4, <2>1, <2>6
  <2> QED
    BY <1>1, <1>4, <1>5, <2>3, <2>5, <2>6, <2>7, EncryptSets
<1>6. CASE ~negotiation.support
  <2> DEFINE m == SubOf("IS NULL")
             a == N!Cmd("WONT", "ENCRYPT")
             A == {m, a}
  <2>1. encIV' = OurVector /\ N!SendReply(<<m, a>>)
    <3>1. encIV' = encIV /\ N!SendReply(<<m, a>>)
      <4>1. N!Command.arg # 1
        BY <1>3, <1>6
      <4>2. m = N!sendIS_NULL /\ a = N!sendEncrypt("WONT")
        BY DEF N!sendIS_NULL, N!sendEncrypt, SubOf
      <4> HIDE DEF m, a
      <4> QED
        BY <4>1, <4>2 DEF N!Support
    <3>2. encIV = OurVector
      BY <1>6 DEF WireTyped, OurVector
    <3> QED
      BY <3>1, <3>2
  <2>2. /\ a \in EncryptOut /\ a \notin Switches
        /\ a # DoEncrypt /\ a # N!sendSUPPORT /\ a # OurIS /\ \A j : a # SubOf(j)
    BY RefusalIs
  <2>3. m \in ToServer /\ m \in EncryptOut /\ m \notin Switches
    BY SentTyped DEF SubsOut
  <2> HIDE DEF a
  <2>4. /\ DoEncrypt \notin A /\ N!sendSUPPORT \notin A /\ OurIS \notin A
        /\ \A j \in {"REPLY", "ENC_KEYID", "DEC_KEYID", "START", "END"} : SubOf(j) \notin A
    BY <2>2, SentIs
  <2> HIDE DEF m
  <2>5. ProgramSendsTwo(m, a)
    BY <2>1, <2>2, <2>3, SendTwo DEF EncryptOut
  <2>6. Sends(A, a) /\ A \subseteq EncryptOut
    BY <2>2, <2>3, <2>5, SendsTwo
  <2> HIDE DEF A, k, c
  <2>7. /\ encrypt' = (IF a = SubOf("START") THEN TRUE ELSE IF a = SubOf("END") THEN FALSE ELSE encrypt)
        /\ decrypt' = (IF k = "START" THEN TRUE ELSE IF k = "END" THEN FALSE ELSE decrypt)
        /\ encIV' = (IF k = "SUPPORT" THEN OurVector ELSE encIV)
        /\ decIV' = (IF k = "IS" THEN N!ServerIV ELSE decIV)
    BY <1>1, <1>4, <2>1, <2>2
  <2> QED
    BY <1>1, <1>4, <1>6, <2>2, <2>4, <2>6, <2>7, EncryptSets
<1> QED
  BY <1>5, <1>6

LEMMA DecKeyIdStep == ASSUME WireTyped, NParts, refused' = FALSE, eaten' = eaten, N!DecKeyId PROVE WireTyped' /\ NParts'
<1> DEFINE a == SubOf("START")
           A == {a}
           k == "DEC_KEYID"
           c == "SB"
<1>1. /\ N!Encrypt(c, k) /\ N!SendReply(<<a>>) /\ engine' = engine /\ encIV' = encIV
      /\ encrypt' = TRUE /\ decIV' = decIV /\ decrypt' = decrypt
  BY DEF N!DecKeyId, N!sendSTART, SubOf
<1>2. k = "DEC_KEYID" /\ k \notin {"SUPPORT", "IS", "START", "END"} /\ c # "DO"
  OBVIOUS
<1>3. a \in ToServer /\ a \in EncryptOut
  BY SentTyped DEF SubsOut
<1>4. /\ DoEncrypt \notin A /\ N!sendSUPPORT \notin A /\ OurIS \notin A
      /\ \A j : j # "START" => SubOf(j) \notin A /\ a # SubOf(j)
  BY SentIs
<1> HIDE DEF a, k, c
<1>5. ProgramSends(a)
  BY <1>1, <1>3, SendOne
<1>6. Sends(A, a) /\ A \subseteq EncryptOut
  BY <1>3, <1>5, SendsOne
<1> HIDE DEF A
<1>7. /\ encrypt' = (IF a = SubOf("START") THEN TRUE ELSE IF a = SubOf("END") THEN FALSE ELSE encrypt)
      /\ decrypt' = (IF k = "START" THEN TRUE ELSE IF k = "END" THEN FALSE ELSE decrypt)
      /\ encIV' = (IF k = "SUPPORT" THEN OurVector ELSE encIV)
      /\ decIV' = (IF k = "IS" THEN N!ServerIV ELSE decIV)
  BY <1>1, <1>2, <1>4 DEF a
<1> QED
  BY <1>1, <1>2, <1>4, <1>6, <1>7, EncryptSets

LEMMA StartStep == ASSUME WireTyped, NParts, refused' = FALSE, eaten' = eaten, N!Start PROVE WireTyped' /\ NParts'
<1> DEFINE a == SubOf("START")
           A == {a}
           k == "START"
           c == "SB"
<1>1. /\ N!Encrypt(c, k) /\ N!SendReply(<<a>>) /\ engine' = engine /\ encIV' = encIV
      /\ encrypt' = TRUE /\ decIV' = decIV /\ decrypt' = TRUE
  BY DEF N!Start, N!sendSTART, SubOf
<1>2. k = "START" /\ k \notin {"SUPPORT", "IS", "END"} /\ c # "DO"
  OBVIOUS
<1>3. a \in ToServer /\ a \in EncryptOut
  BY SentTyped DEF SubsOut
<1>4. /\ DoEncrypt \notin A /\ N!sendSUPPORT \notin A /\ OurIS \notin A
      /\ \A j : j # "START" => SubOf(j) \notin A /\ a # SubOf(j)
  BY SentIs
<1> HIDE DEF a, k, c
<1>5. ProgramSends(a)
  BY <1>1, <1>3, SendOne
<1>6. Sends(A, a) /\ A \subseteq EncryptOut
  BY <1>3, <1>5, SendsOne
<1> HIDE DEF A
<1>7. /\ encrypt' = (IF a = SubOf("START") THEN TRUE ELSE IF a = SubOf("END") THEN FALSE ELSE encrypt)
      /\ decrypt' = (IF k = "START" THEN TRUE ELSE IF k = "END" THEN FALSE ELSE decrypt)
      /\ encIV' = (IF k = "SUPPORT" THEN OurVector ELSE encIV)
      /\ decIV' = (IF k = "IS" THEN N!ServerIV ELSE decIV)
  BY <1>1, <1>2, <1>4 DEF a
<1> QED
  BY <1>1, <1>2, <1>4, <1>6, <1>7, EncryptSets

LEMMA RequestEndStep == ASSUME WireTyped, NParts, refused' = FALSE, eaten' = eaten, N!RequestEnd PROVE WireTyped' /\ NParts'
<1> DEFINE a == SubOf("END")
           A == {a}
           k == "REQUEST_END"
           c == "SB"
<1>1. /\ N!Encrypt(c, k) /\ N!SendReply(<<a>>) /\ engine' = engine /\ encIV' = encIV
      /\ encrypt' = FALSE /\ decIV' = decIV /\ decrypt' = decrypt
  BY DEF N!RequestEnd, N!sendEND, SubOf
<1>2. k \notin {"SUPPORT", "IS", "START", "END"} /\ c # "DO"
  OBVIOUS
<1>3. a \in ToServer /\ a \in EncryptOut
  BY SentTyped DEF SubsOut
<1>4. /\ DoEncrypt \notin A /\ N!sendSUPPORT \notin A /\ OurIS \notin A
      /\ \A j : j # "END" => SubOf(j) \notin A /\ a # SubOf(j)
  BY SentIs
<1> HIDE DEF a, k, c
<1>5. ProgramSends(a)
  BY <1>1, <1>3, SendOne
<1>6. Sends(A, a) /\ A \subseteq EncryptOut
  BY <1>3, <1>5, SendsOne
<1> HIDE DEF A
<1>7. /\ encrypt' = (IF a = SubOf("START") THEN TRUE ELSE IF a = SubOf("END") THEN FALSE ELSE encrypt)
      /\ decrypt' = (IF k = "START" THEN TRUE ELSE IF k = "END" THEN FALSE ELSE decrypt)
      /\ encIV' = (IF k = "SUPPORT" THEN OurVector ELSE encIV)
      /\ decIV' = (IF k = "IS" THEN N!ServerIV ELSE decIV)
  BY <1>1, <1>2, <1>4 DEF a
<1> QED
  BY <1>1, <1>2, <1>4, <1>6, <1>7, EncryptSets

LEMMA IsStep == ASSUME WireTyped, NParts, refused' = FALSE, eaten' = eaten, N!Is PROVE WireTyped' /\ NParts'
<1> DEFINE a == SubOf("REPLY")
           A == {a}
           k == "IS"
           c == "SB"
<1>1. /\ N!Encrypt(c, k) /\ N!SendReply(<<a>>) /\ UNCHANGED <<engine, encIV, encrypt, decrypt>>
      /\ decIV' = N!Command.arg
  BY DEF N!Is, N!sendREPLY, SubOf
<1>2. N!Command = TheirIS
  <2>1. N!Command \in EncryptIn /\ N!Command.cmd = "SB" /\ N!Command.kind = "IS"
    BY <1>1, EncryptTaken
  <2>2. N!Command \in ToProgram /\ N!Command.opt = "ENCRYPT"
    BY <2>1 DEF EncryptIn
  <2> QED
    BY <2>1, <2>2, ProgramReads
<1>3. decIV' = N!ServerIV
  BY <1>1, <1>2, NamesIs
<1>4. k = "IS" /\ k \notin {"SUPPORT", "START", "END"} /\ c # "DO"
  OBVIOUS
<1>5. a \in ToServer /\ a \in EncryptOut /\ a \notin Switches
  BY SentTyped DEF SubsOut
<1>6. /\ DoEncrypt \notin A /\ N!sendSUPPORT \notin A /\ OurIS \notin A
      /\ \A j : j # "REPLY" => SubOf(j) \notin A /\ a # SubOf(j)
  BY SentIs
<1> HIDE DEF a, k, c
<1>7. ProgramSends(a)
  BY <1>1, <1>5, SendOne
<1>8. Sends(A, a) /\ A \subseteq EncryptOut
  BY <1>5, <1>7, SendsOne
<1> HIDE DEF A
<1>9. /\ encrypt' = (IF a = SubOf("START") THEN TRUE ELSE IF a = SubOf("END") THEN FALSE ELSE encrypt)
      /\ decrypt' = (IF k = "START" THEN TRUE ELSE IF k = "END" THEN FALSE ELSE decrypt)
      /\ encIV' = (IF k = "SUPPORT" THEN OurVector ELSE encIV)
      /\ decIV' = (IF k = "IS" THEN N!ServerIV ELSE decIV)
  BY <1>1, <1>3, <1>4, <1>6
<1> QED
  BY <1>1, <1>4, <1>6, <1>8, <1>9, EncryptSets

LEMMA EndStep == ASSUME WireTyped, NParts, refused' = FALSE, eaten' = eaten, N!End PROVE WireTyped' /\ NParts'
<1> DEFINE A == {}
           a == DoEncrypt
           k == "END"
           c == "SB"
<1>1. /\ N!Encrypt(c, k) /\ out' = out /\ UNCHANGED <<engine, encIV, decIV, encrypt>>
      /\ decrypt' = FALSE
  BY DEF N!End, N!NoReply
<1>2. k = "END" /\ k \notin {"SUPPORT", "IS", "START"} /\ c # "DO"
  OBVIOUS
<1>3. a \notin Switches
  BY SentTyped
<1>4. Sends(A, a) /\ A \subseteq EncryptOut
  BY <1>1, <1>3, SendsNone
<1>5. /\ DoEncrypt \notin A /\ N!sendSUPPORT \notin A /\ OurIS \notin A /\ \A j : SubOf(j) \notin A
  OBVIOUS
<1> HIDE DEF A, a, k, c
<1>6. a # SubOf("START") /\ a # SubOf("END")
  BY <1>3 DEF Switches
<1>7. /\ encrypt' = (IF a = SubOf("START") THEN TRUE ELSE IF a = SubOf("END") THEN FALSE ELSE encrypt)
      /\ decrypt' = (IF k = "START" THEN TRUE ELSE IF k = "END" THEN FALSE ELSE decrypt)
      /\ encIV' = (IF k = "SUPPORT" THEN OurVector ELSE encIV)
      /\ decIV' = (IF k = "IS" THEN N!ServerIV ELSE decIV)
  BY <1>1, <1>2, <1>6
<1> QED
  BY <1>1, <1>2, <1>4, <1>5, <1>6, <1>7, EncryptSets

LEMMA ProgramStep == ASSUME WireTyped, NParts, refused' = FALSE, eaten' = eaten, N!Program PROVE WireTyped' /\ NParts'
<1>1. CASE \E o \in N!Option : N!YesNoOption(o) \/ N!DenyAllOption(o)
  BY <1>1, YesNoOptionStep, DenyAllOptionStep
<1>2. CASE N!TTOption \/ N!WinSizeOption
  BY <1>2, TTOptionStep, WinSizeOptionStep
<1>3. CASE N!AuthOption
  BY <1>3, AuthDoStep, AuthIgnoresStep, NegotiateSendStep, NegotiateSendOnStep, RejectedStep,
     AcceptedStep, ResponseStep DEF N!AuthOption
<1>4. CASE N!EncryptOption
  BY <1>4, EncryptDoStep, EncryptWillStep, EncryptRefusedStep, SupportStep, IsStep, ReplyStep, EncKeyIdStep,
     DecKeyIdStep, RequestStartStep, RequestEndStep, StartStep, EndStep DEF N!EncryptOption
<1> QED
  BY <1>1, <1>2, <1>3, <1>4 DEF N!Program

-----------------------------------------------------------------------------
(* What the server hears and says *)

\* The server has taken h, if anything, from what is on its way.
Hear(h) ==
  /\ out' \in Wire(ToServer)
  /\ \A M : Has(out', M) => Has(out, M)
  /\ \A M : h \notin M /\ Has(out, M) => Has(out', M)
  /\ \A M : Once(out, M) => Once(out', M)
  /\ \A M, L : Preceded(out, M, L) /\ h \notin L => Preceded(out', M, L)
  /\ \A K : h \notin K => Away(out, out', K)
  /\ \A to : Chained(out, N!ServerReading, to, Ours) => Chained(out', Then(Packet(h, N!ServerReading), Ours), to, Ours)

\* And has said the messages A, with a at the end of them.
Speak(A, a) ==
  /\ in' \in Wire(ToProgram)
  /\ \A M : Has(in', M) <=> Has(in, M) \/ \E b \in A : b \in M
  /\ \A M, L : Preceded(in, M, L) /\ ((\E b \in A : b \in M) => Has(in, L)) => Preceded(in', M, L)
  /\ \A K : (\A b \in A : b \notin K) => Away(in, in', K)
  /\ \A from : Chained(in, from, N!ServerCipher, Theirs) =>
                 Chained(in', from, Then(Packet(a, N!ServerCipher), Theirs), Theirs)

LEMMA HearTakes == ASSUME WireTyped, NEW h, out' \in Wire(ToServer), Takes(out, out', h, N!ServerReading, Ours) PROVE Hear(h)
<1>1. Took(out, out', h)
  BY DEF Takes
<1>2. \A K : h \notin K => Away(out, out', K)
  BY <1>1, TookAway
<1>3. /\ \A M : Has(out', M) => Has(out, M)
      /\ \A M : h \notin M /\ Has(out, M) => Has(out', M)
      /\ \A M : Once(out, M) => Once(out', M)
      /\ \A M, L : Preceded(out, M, L) /\ h \notin L => Preceded(out', M, L)
  BY <1>1 DEF Took
<1> QED
  BY <1>2, <1>3 DEF Hear, Takes

LEMMA HearNone == ASSUME WireTyped, NEW h, h \notin Switches, out' = out PROVE Hear(h)
BY SameAway, ThenSame DEF Hear, WireTyped

LEMMA SpeakNone == ASSUME WireTyped, NEW a, a \notin Switches, in' = in PROVE Speak({}, a)
BY SameAway, ThenSame DEF Speak, WireTyped

LEMMA SpeakOne == ASSUME WireTyped, NEW a, ServerSends(a) PROVE Speak({a}, a)
<1>1. in' \in Wire(ToProgram) /\ Put(in, in', a)
  BY DEF ServerSends, Puts
<1>2. \A K : (\A b \in {a} : b \notin K) => Away(in, in', K)
  BY SaysAside
<1>3. \A M : Has(in', M) <=> Has(in, M) \/ \E b \in {a} : b \in M
  BY <1>1 DEF Put
<1>4. \A M, L : Preceded(in, M, L) /\ ((\E b \in {a} : b \in M) => Has(in, L)) => Preceded(in', M, L)
  BY <1>1 DEF Put
<1>5. \A from : Chained(in, from, N!ServerCipher, Theirs) =>
                  Chained(in', from, Then(Packet(a, N!ServerCipher), Theirs), Theirs)
  BY SaysChain
<1> QED
  BY <1>1, <1>2, <1>3, <1>4, <1>5 DEF Speak

LEMMA SpeakTwo == ASSUME WireTyped, NEW a, NEW b, a \notin Switches, ServerSendsTwo(a, b) PROVE Speak({a, b}, b)
<1>1. in' \in Wire(ToProgram) /\ \E u : Put(in, u, a) /\ Put(u, in', b)
  BY DEF ServerSendsTwo, Puts
<1>2. \A K : (\A c \in {a, b} : c \notin K) => Away(in, in', K)
  BY SaysTwoAside
<1>3. \A M : Has(in', M) <=> Has(in, M) \/ \E c \in {a, b} : c \in M
  BY <1>1 DEF Put
<1>4. \A M, L : Preceded(in, M, L) /\ ((\E c \in {a, b} : c \in M) => Has(in, L)) => Preceded(in', M, L)
  BY <1>1 DEF Put
<1>5. \A from : Chained(in, from, N!ServerCipher, Theirs) =>
                  Chained(in', from, Then(Packet(b, N!ServerCipher), Theirs), Theirs)
  BY SaysChain
<1> QED
  BY <1>1, <1>2, <1>3, <1>4, <1>5 DEF Speak

\* Both ends read what is on its way after a step of the server's.
LEMMA ServerReadable ==
  ASSUME Readable, WireTyped, negotiation' = negotiation, open' = open,
         UNCHANGED <<engine, encIV, decIV, encrypt, decrypt>>, NEW h, Hear(h), NEW A, NEW a, Speak(A, a),
         Then(Packet(h, N!ServerReading), Ours) = N!ServerReading',
         Then(Packet(a, N!ServerCipher), Theirs) = N!ServerCipher'
  PROVE  Readable'
<1>1. N!OurReading' = N!OurReading /\ N!OurCipher' = N!OurCipher
  BY DEF N!OurReading, N!OurCipher, N!Plain
<1>2. Theirs' = Theirs /\ Ours' = Ours
  BY SameSession DEF Theirs, N!ServerIV
<1>3. Chained(in', N!OurReading', N!ServerCipher', Theirs)
  BY <1>1 DEF Readable, Speak
<1>4. CASE open
  <2>1. Chained(out', N!ServerReading', N!OurCipher', Ours)
    BY <1>1, <1>4 DEF Readable, Hear
  <2> QED
    BY <1>2, <1>3, <1>4, <2>1 DEF Readable
<1>5. CASE ~open
  <2>1. \E to \in Ciphers : Chained(out', N!ServerReading', to, Ours)
    BY <1>5 DEF Readable, Hear
  <2> QED
    BY <1>2, <1>3, <1>5, <2>1 DEF Readable
<1> QED
  BY <1>4, <1>5

\* Nothing is switched.
LEMMA ServerReadableBeside ==
  ASSUME Readable, WireTyped, negotiation' = negotiation, open' = open,
         UNCHANGED <<engine, encIV, decIV, encrypt, decrypt>>, NEW h, Hear(h), NEW A, NEW a, Speak(A, a),
         h \notin Switches, a \notin Switches,
         N!ServerReading' = N!ServerReading, N!ServerCipher' = N!ServerCipher
  PROVE  Readable'
<1>1. Then(Packet(h, N!ServerReading), Ours) = N!ServerReading /\ Then(Packet(a, N!ServerCipher), Theirs) = N!ServerCipher
  BY ThenSame
<1> QED
  BY <1>1, ServerReadable

LEMMA TypedServerStep ==
  ASSUME WireTyped, negotiation' = negotiation, refused' = FALSE,
         UNCHANGED <<open, negotiated, authenticated, will, doo, enckey, engine, encIV, decIV, encrypt, decrypt>>,
         in' \in Wire(ToProgram), out' \in Wire(ToServer),
         us' \in [N!Option -> {"no", "yes", "wantno", "wantyes"}],
         him' \in [N!Option -> {"no", "yes", "wantno", "wantyes"}],
         server' \in [key : {0, 1}, encIV : {0, N!ServerIV}, decIV : {0, OurVector}, encrypt : BOOLEAN,
                      decrypt : BOOLEAN, ready : BOOLEAN,
                      stage : {"fresh", "refused", "accepted", "keyed", "stopped", "restarted"}]
  PROVE  WireTyped'
BY SameSession DEF WireTyped

-----------------------------------------------------------------------------
(* The encryption of the server *)

ProgramStays ==
  UNCHANGED <<negotiation, open, negotiated, authenticated, will, doo, enckey, engine, encIV, decIV, encrypt, decrypt>>

ServerRecord ==
  [key : {0, 1}, encIV : {0, N!ServerIV}, decIV : {0, OurVector}, encrypt : BOOLEAN, decrypt : BOOLEAN, ready : BOOLEAN,
   stage : {"fresh", "refused", "accepted", "keyed", "stopped", "restarted"}]

\* Beside the encryption nothing happens.
LEMMA ServerAside ==
  ASSUME WireTyped, NParts, eaten' = eaten, ProgramStays, server'.key = server.key, Keyed,
         \A p \in N!Option \ {"ENCRYPT"} : us'[p] = us[p] /\ him'[p] = him[p],
         us'["ENCRYPT"] \in {"yes", "no"}, him'["ENCRYPT"] \in {"yes", "no"},
         NEW h, h.opt = "ENCRYPT", Hear(h), NEW A, \A b \in A : b.opt = "ENCRYPT", NEW a, Speak(A, a)
  PROVE  Authenticating' /\ Options'
<1>1. h \notin AuthMessages /\ \A b \in A : b \notin AuthMessages
  BY KindsIs
<1>2. Away(in, in', AuthMessages) /\ Away(out, out', AuthMessages)
  BY <1>1 DEF Hear, Speak
<1>3. AuthIn \subseteq AuthMessages /\ AuthOut \subseteq AuthMessages
  BY DEF AuthMessages
<1>4. ~Has(in', AuthIn) /\ ~Has(out', AuthOut)
  BY <1>2, <1>3 DEF Keyed, Away
<1>5. Keyed'
  <2>1. him'["AUTH"] = him["AUTH"]
    BY DEF N!Option
  <2> QED
    BY <1>4, <2>1 DEF Keyed, ProgramStays
<1>6. Authenticating'
  <2>1. /\ ~Has(in', {Step("SEND"), Step("ACCEPT")}) /\ ~Has(in', {Step("RESPONSE")}) /\ Once(in', AuthIn)
        /\ ~Has(out', {Step("IS AUTH")}) /\ ~Has(out', {Challenge}) /\ Once(out', AuthOut)
    BY <1>4, AuthParts, HasWithin
  <2>2. him'["AUTH"] \notin {"no", "wantyes"}
    BY <1>5 DEF Keyed
  <2> QED
    BY <1>4, <1>5, <2>1, <2>2 DEF Authenticating
<1>7. ASSUME NEW p, NEW e \in Directions, p # "ENCRYPT" PROVE Away(in, in', Asks(p, e)) /\ Away(out, out', Says(p, e))
  <2>1. (\A m \in Asks(p, e) : m.opt = p) /\ (\A m \in Says(p, e) : m.opt = p)
    BY AskOther
  <2>2. h \notin Says(p, e) /\ \A b \in A : b \notin Asks(p, e)
    BY <1>7, <2>1
  <2> QED
    BY <2>2 DEF Hear, Speak
<1>9. ~negotiation.crypt => FALSE
  <2>1. SUFFICES ASSUME ~negotiation.crypt PROVE FALSE
    OBVIOUS
  <2>2. Strange("AUTH") /\ "AUTH" \in N!Option /\ "his" \in Directions
    BY <2>1 DEF Strange, N!Option, Directions
  <2>3. Refusing("AUTH", "his")
    BY <2>2 DEF NParts, Options, Told
  <2> QED
    BY <2>3 DEF Refusing, State, Keyed
<1>10. Options'
  BY <1>7, <1>9, OptionsBeside DEF NParts, ProgramStays
<1> QED
  BY <1>6, <1>10

\* What each message is answered with, and what is set by it.
LEMMA ServerEncryptStep ==
  ASSUME WireTyped, NParts, refused' = FALSE, eaten' = eaten, ProgramStays, us' = us, him' = him, Keyed,
         NEW h, h.opt = "ENCRYPT", h.cmd = "SB", Hear(h), NEW A, A \subseteq EncryptIn, NEW a, Speak(A, a),
         server' \in ServerRecord, server'.key = server.key,
         server.encIV = N!ServerIV => server'.encIV = N!ServerIV,
         server.decIV = OurVector => server'.decIV = OurVector,
         server'.decIV = OurVector => encIV = OurVector,
         h = OurIS => server'.decIV = OurVector,
         WillEncrypt \notin A, Offer \notin A,
         TheirIS \in A => Offered /\ engine = 1 /\ server'.encIV = N!ServerIV,
         SubOf("REPLY") \in A => Sealed',
         SubOf("DEC_KEYID") \in A => Sealed,
         SubOf("ENC_KEYID") \in A => Opened /\ Sealed,
         SubOf("START") \in A \/ a = SubOf("START") => Opened /\ Sealed,
         server'.ready => Opened /\ Sealed,
         server'.encrypt \/ server'.stage \in {"stopped", "restarted"} => server'.ready,
         h = SubOf("START") => Sealed,
         server'.decrypt = (IF h = SubOf("START") THEN TRUE ELSE IF h = SubOf("END") THEN FALSE ELSE server.decrypt),
         server'.encrypt = (IF a = SubOf("START") THEN TRUE ELSE IF a = SubOf("END") THEN FALSE ELSE server.encrypt)
  PROVE  WireTyped' /\ NParts'
<1>1. /\ negotiation' = negotiation /\ open' = open /\ engine' = engine /\ encIV' = encIV /\ decIV' = decIV
      /\ encrypt' = encrypt /\ decrypt' = decrypt
  BY DEF ProgramStays
<1>2. OurVector' = OurVector /\ Offer' = Offer
  BY <1>1, SameSession
<1>3. /\ \A M : Has(out', M) => Has(out, M)
      /\ \A M : h \notin M /\ Has(out, M) => Has(out', M)
      /\ \A M, L : Preceded(out, M, L) /\ h \notin L => Preceded(out', M, L)
  BY DEF Hear
<1>4. /\ \A M : Has(in', M) <=> Has(in, M) \/ \E b \in A : b \in M
      /\ \A M, L : Preceded(in, M, L) /\ ((\E b \in A : b \in M) => Has(in, L)) => Preceded(in', M, L)
  BY DEF Speak
<1>5. (Opened => Opened') /\ (Sealed => Sealed') /\ (Offered => Offered')
  <2>1. Opened => Opened'
    BY <1>1 DEF Opened
  <2>2. Sealed => Sealed'
    BY <1>1, <1>2 DEF Sealed
  <2>3. Offered => Offered'
    BY <1>1, <1>2, <1>4 DEF Offered
  <2> QED
    BY <2>1, <2>2, <2>3
<1>6. h # WillEncrypt
  BY NamesIs
<1>7. OfferedFirst'
  <2>1. him'["ENCRYPT"] = "yes" => Offered'
    BY <1>5 DEF NParts, OfferedFirst
  <2>2. Has(out', {DoEncrypt}) \/ Has(in', {WillEncrypt}) => Offered' \/ Has(out', {WillEncrypt})
    BY <1>3, <1>4, <1>5, <1>6 DEF NParts, OfferedFirst
  <2>3. Offered' \/ Preceded(out', {N!sendSUPPORT}, {WillEncrypt})
    BY <1>3, <1>5, <1>6 DEF NParts, OfferedFirst
  <2> QED
    BY <2>1, <2>2, <2>3 DEF OfferedFirst
<1>8. InTurn'
  <2>1. engine' = 1 \/ Preceded(in', {Offer}', {DoEncrypt})
    BY <1>1, <1>2, <1>4 DEF NParts, InTurn
  <2>2. encIV' = OurVector' \/ Preceded(in', {TheirIS}, {Offer}')
    BY <1>1, <1>2, <1>4 DEF NParts, InTurn, Offered
  <2>3. server'.decIV = OurVector' \/ Preceded(out', {SubOf("REPLY")}, {OurIS})
    BY <1>2, <1>3 DEF NParts, InTurn
  <2>4. open' /\ encIV' = OurVector' => server'.decIV = OurVector' \/ Has(out', {OurIS})
    BY <1>1, <1>2, <1>3 DEF NParts, InTurn
  <2> QED
    BY <2>1, <2>2, <2>3, <2>4 DEF InTurn
<1>9. Vectors'
  <2>1. Has(out', {N!sendSUPPORT, OurIS}) \/ Has(in', {TheirIS}) => engine' = 1
    BY <1>1, <1>3, <1>4 DEF NParts, Vectors
  <2>2. Has(out', {OurIS}) \/ server'.decIV = OurVector' => encIV' = OurVector'
    BY <1>1, <1>2, <1>3 DEF NParts, Vectors
  <2>3. Has(out', {OurIS}) => negotiation'.support
    BY <1>1, <1>3 DEF NParts, Vectors
  <2>4. Has(in', {TheirIS}) \/ decIV' = N!ServerIV => server'.encIV = N!ServerIV
    BY <1>1, <1>4 DEF NParts, Vectors
  <2>5. Has(out', {SubOf("REPLY")}) => Opened' /\ encIV' = OurVector'
    BY <1>1, <1>2, <1>3, <1>5 DEF NParts, Vectors
  <2>6. Has(in', {SubOf("REPLY"), SubOf("DEC_KEYID")}) => Sealed'
    BY <1>4, <1>5 DEF NParts, Vectors
  <2>7. Has(out', {SubOf("ENC_KEYID"), SubOf("START")}) => Sealed'
    BY <1>3, <1>5 DEF NParts, Vectors
  <2>8. encrypt' \/ server'.decrypt => Sealed'
    BY <1>1, <1>5 DEF NParts, Vectors
  <2>9. Has(in', {SubOf("ENC_KEYID"), SubOf("START")}) \/ Has(out', {SubOf("DEC_KEYID")}) => Opened' /\ Sealed'
    BY <1>3, <1>4, <1>5 DEF NParts, Vectors
  <2>10. server'.ready \/ decrypt' => Opened' /\ Sealed'
    BY <1>1, <1>5 DEF NParts, Vectors
  <2>11. server'.encrypt \/ server'.stage \in {"stopped", "restarted"} => server'.ready
    OBVIOUS
  <2> QED
    BY <2>1, <2>2, <2>3, <2>4, <2>5, <2>6, <2>7, <2>8, <2>9, <2>10, <2>11 DEF Vectors
<1>10. SubOf("START") # SubOf("END")
  BY SentIs
<1>11. server.key = 1 /\ server'.key = 1
  BY DEF Keyed
<1>12. server \in ServerRecord
  BY DEF WireTyped, ServerRecord
<1>13. Readable'
  <2>1. Then(Packet(h, N!ServerReading), Ours) = N!ServerReading'
    <3>1. CASE h = SubOf("START")
      BY <1>2, <1>5, <1>11, <3>1 DEF Then, Packet, N!ServerReading, Sealed, Ours
    <3>2. CASE h = SubOf("END")
      BY <1>10, <3>2 DEF Then, Packet, N!ServerReading
    <3>3. CASE h \notin Switches
      <4>1. server'.decrypt = server.decrypt
        BY <3>3 DEF Switches
      <4>2. CASE server.decrypt
        <5>1. Sealed /\ Sealed'
          BY <1>5, <4>2 DEF NParts, Vectors
        <5>2. server'.decIV = server.decIV
          BY <1>2, <5>1 DEF Sealed
        <5>3. server'.decrypt
          BY <4>1, <4>2
        <5> QED
          BY <1>11, <3>3, <4>2, <5>2, <5>3, ThenSame DEF N!ServerReading
      <4>3. CASE ~server.decrypt
        <5>1. server.decrypt = FALSE
          BY <1>12, <4>3 DEF ServerRecord
        <5>2. ~server'.decrypt
          BY <4>1, <5>1
        <5>3. N!ServerReading' = N!ServerReading
          BY <4>3, <5>2 DEF N!ServerReading, N!Plain
        <5> QED
          BY <3>3, <5>3, ThenSame
      <4> QED
        BY <4>2, <4>3
    <3> QED
      BY <3>1, <3>2, <3>3 DEF Switches
  <2>2. Then(Packet(a, N!ServerCipher), Theirs) = N!ServerCipher'
    <3>1. CASE a = SubOf("START")
      <4>1. Opened'
        BY <1>5, <3>1
      <4> QED
        BY <1>11, <3>1, <4>1 DEF Then, Packet, N!ServerCipher, Opened, Theirs
    <3>2. CASE a = SubOf("END")
      BY <1>10, <3>2 DEF Then, Packet, N!ServerCipher
    <3>3. CASE a \notin Switches
      <4>1. server'.encrypt = server.encrypt
        BY <3>3 DEF Switches
      <4>2. CASE server.encrypt
        <5>1. Opened /\ Opened'
          BY <1>5, <4>2 DEF NParts, Vectors
        <5>2. server'.encIV = server.encIV
          BY <5>1 DEF Opened
        <5>3. server'.encrypt
          BY <4>1, <4>2
        <5> QED
          BY <1>11, <3>3, <4>2, <5>2, <5>3, ThenSame DEF N!ServerCipher
      <4>3. CASE ~server.encrypt
        <5>1. server.encrypt = FALSE
          BY <1>12, <4>3 DEF ServerRecord
        <5>2. ~server'.encrypt
          BY <4>1, <5>1
        <5>3. N!ServerCipher' = N!ServerCipher
          BY <4>3, <5>2 DEF N!ServerCipher, N!Plain
        <5> QED
          BY <3>3, <5>3, ThenSame
      <4> QED
        BY <4>2, <4>3
    <3> QED
      BY <3>1, <3>2, <3>3 DEF Switches
  <2> QED
    BY <1>1, <2>1, <2>2, ServerReadable DEF NParts
<1>14. \A b \in A : b.opt = "ENCRYPT"
  BY DEF EncryptIn
<1>15. Authenticating' /\ Options'
  BY <1>14, EncryptHeld, ServerAside
<1>16. WireTyped'
  <2>1. us \in [N!Option -> {"no", "yes", "wantno", "wantyes"}] /\ him \in [N!Option -> {"no", "yes", "wantno", "wantyes"}]
    BY DEF WireTyped
  <2>2. in' \in Wire(ToProgram) /\ out' \in Wire(ToServer)
    BY DEF Hear, Speak
  <2> QED
    BY <2>1, <2>2, TypedServerStep DEF ProgramStays, ServerRecord
<1> QED
  BY <1>7, <1>8, <1>9, <1>13, <1>15, <1>16 DEF NParts

\* What the server hears of encryption, and what has been before it.
LEMMA ServerHears ==
  ASSUME WireTyped, NParts, NEW o, NEW k, N!HearsSub(o, k)
  PROVE  /\ N!Heard \in ToServer /\ N!Heard.cmd = "SB" /\ N!Heard.opt = o /\ N!Heard.kind = k
         /\ Hear(N!Heard) /\ Took(out, out', N!Heard) /\ ProgramStays /\ us' = us /\ him' = him
<1>1. N!Hears /\ N!Heard.cmd = "SB" /\ N!Heard.opt = o /\ N!Heard.kind = k /\ us' = us /\ him' = him
  BY DEF N!HearsSub
<1>2. /\ out' \in Wire(ToServer) /\ N!Heard \in ToServer
      /\ Takes(out, out', N!Heard, N!ServerReading, Ours)
      /\ ProgramStays
  BY <1>1, ServerTakes DEF ProgramStays
<1>3. Hear(N!Heard)
  BY <1>2, HearTakes
<1> QED
  BY <1>1, <1>2, <1>3 DEF Takes

LEMMA ServerHearsEncrypt ==
  ASSUME WireTyped, NParts, NEW k, N!HearsSub("ENCRYPT", k)
  PROVE  /\ Keyed
         /\ k = "SUPPORT" => Offered /\ engine = 1
         /\ k = "IS" => N!Heard = OurIS /\ engine = 1 /\ encIV = OurVector /\ OurVector = N!OurIV
         /\ k = "REPLY" => Opened /\ Sealed
         /\ k \in {"ENC_KEYID", "START"} => Sealed
         /\ k = "DEC_KEYID" => Opened /\ Sealed
<1> DEFINE h == N!Heard
<1>1. h \in ToServer /\ h.cmd = "SB" /\ h.opt = "ENCRYPT" /\ h.kind = k /\ Took(out, out', h)
  BY ServerHears
<1> HIDE DEF h
<1>2. h \in EncryptOut
  BY <1>1 DEF EncryptOut
<1>3. /\ \A M : h \in M => Has(out, M)
      /\ \A M, L : Preceded(out, M, L) => h \notin M
  BY <1>1 DEF Took
<1>4. Keyed
  BY <1>2, <1>3 DEF NParts, Authenticating, Untouched
<1>5. /\ k = "SUPPORT" => h = N!sendSUPPORT
      /\ k = "IS" => h = OurIS
      /\ k \in SubsOut => h = SubOf(k)
  BY <1>1, ServerReads DEF SubsOut
<1>6. k = "SUPPORT" => Offered /\ engine = 1
  BY <1>3, <1>5 DEF NParts, OfferedFirst, Vectors
<1>7. k = "IS" => h = OurIS /\ engine = 1 /\ encIV = OurVector /\ OurVector = N!OurIV
  BY <1>3, <1>5 DEF NParts, Vectors, OurVector
<1>8. k = "REPLY" => Opened /\ Sealed
  BY <1>3, <1>5 DEF NParts, InTurn, Vectors, Opened, Sealed, SubsOut
<1>9. k \in {"ENC_KEYID", "START"} => Sealed
  BY <1>3, <1>5 DEF NParts, Vectors, SubsOut
<1>10. k = "DEC_KEYID" => Opened /\ Sealed
  BY <1>3, <1>5 DEF NParts, Vectors, SubsOut
<1> QED
  BY <1>4, <1>6, <1>7, <1>8, <1>9, <1>10 DEF h

LEMMA ServerAnswersEncrypt ==
  ASSUME WireTyped, NParts, refused' = FALSE, eaten' = eaten, NEW k, N!HearsSub("ENCRYPT", k),
         NEW A, A \subseteq EncryptIn, NEW a, Speak(A, a),
         server' \in ServerRecord, server'.key = server.key, server'.stage = server.stage,
         server'.encIV = (IF k = "SUPPORT" THEN N!ServerIV ELSE server.encIV),
         server'.decIV = (IF k = "IS" THEN N!OurIV ELSE server.decIV),
         server'.ready = (IF k = "DEC_KEYID" THEN TRUE ELSE server.ready),
         WillEncrypt \notin A, Offer \notin A,
         TheirIS \in A => k = "SUPPORT",
         SubOf("REPLY") \in A => k = "IS",
         SubOf("DEC_KEYID") \in A => k = "ENC_KEYID",
         SubOf("ENC_KEYID") \in A => k = "REPLY",
         SubOf("START") \in A \/ a = SubOf("START") => server'.ready,
         server'.decrypt = (IF k = "START" THEN TRUE ELSE IF k = "END" THEN FALSE ELSE server.decrypt),
         server'.encrypt = (IF a = SubOf("START") THEN TRUE ELSE IF a = SubOf("END") THEN FALSE ELSE server.encrypt)
  PROVE  WireTyped' /\ NParts'
<1> DEFINE h == N!Heard
<1>1. /\ h \in ToServer /\ h.cmd = "SB" /\ h.opt = "ENCRYPT" /\ h.kind = k /\ Hear(h)
      /\ ProgramStays /\ us' = us /\ him' = him
  BY ServerHears
<1>2. /\ Keyed
      /\ k = "SUPPORT" => Offered /\ engine = 1
      /\ k = "IS" => h = OurIS /\ engine = 1 /\ encIV = OurVector /\ OurVector = N!OurIV
      /\ k = "REPLY" => Opened /\ Sealed
      /\ k \in {"ENC_KEYID", "START"} => Sealed
      /\ k = "DEC_KEYID" => Opened /\ Sealed
  BY ServerHearsEncrypt
<1> HIDE DEF h
<1>3. OurIS.kind = "IS" /\ SubOf("START").kind = "START" /\ SubOf("END").kind = "END"
  BY NamesIs
<1>4. /\ h = SubOf("START") <=> k = "START"
      /\ h = SubOf("END") <=> k = "END"
      /\ h = OurIS => k = "IS"
  <2>1. k \in SubsOut => h = SubOf(k)
    BY <1>1, ServerReads DEF SubsOut
  <2> QED
    BY <1>1, <1>3, <2>1 DEF SubsOut
<1>5. /\ server.encIV = N!ServerIV => server'.encIV = N!ServerIV
      /\ server.decIV = OurVector => server'.decIV = OurVector
      /\ server'.decIV = OurVector => encIV = OurVector
      /\ h = OurIS => server'.decIV = OurVector
  <2>1. server.decIV = OurVector => encIV = OurVector
    BY DEF NParts, Vectors
  <2> QED
    BY <1>2, <1>4, <2>1
<1>6. SubOf("REPLY") \in A => Sealed'
  <2>1. engine' = engine /\ encIV' = encIV /\ OurVector' = OurVector
    BY <1>1, SameSession DEF ProgramStays
  <2> QED
    BY <1>2, <2>1 DEF Sealed
<1>7. /\ TheirIS \in A => Offered /\ engine = 1 /\ server'.encIV = N!ServerIV
      /\ SubOf("DEC_KEYID") \in A => Sealed
      /\ SubOf("ENC_KEYID") \in A => Opened /\ Sealed
  BY <1>2
<1>8. server'.ready => Opened /\ Sealed
  BY <1>2 DEF NParts, Vectors
<1>9. SubOf("START") \in A \/ a = SubOf("START") => Opened /\ Sealed
  BY <1>8
<1>10. server'.encrypt \/ server'.stage \in {"stopped", "restarted"} => server'.ready
  <2>1. server.encrypt \/ server.stage \in {"stopped", "restarted"} => server.ready
    BY DEF NParts, Vectors
  <2> QED
    BY <2>1
<1>11. h = SubOf("START") => Sealed
  BY <1>2, <1>4
<1>12. server'.decrypt = (IF h = SubOf("START") THEN TRUE ELSE IF h = SubOf("END") THEN FALSE ELSE server.decrypt)
  BY <1>4
<1> QED
  BY <1>1, <1>2, <1>5, <1>6, <1>7, <1>8, <1>9, <1>10, <1>11, <1>12, ServerEncryptStep

LEMMA SpokenIs ==
  /\ \A k \in SubsIn : SubOf(k) \in ToProgram /\ SubOf(k) \in EncryptIn
  /\ \A k \in SubsIn : SubOf(k) # WillEncrypt /\ SubOf(k) # Offer /\ SubOf(k) # TheirIS
  /\ TheirIS # Offer /\ TheirIS # WillEncrypt /\ TheirIS \in EncryptIn /\ TheirIS \in ToProgram /\ TheirIS \notin Switches
  /\ Offer \notin Switches
  /\ \A k \in SubsIn : k \notin {"START", "END"} => SubOf(k) \notin Switches
<1>1. \A k \in SubsIn : SubOf(k) \in ToProgram /\ SubOf(k) \in EncryptIn
  BY ProgramGets, OfEncryption DEF SubsIn
<1>2. ASSUME NEW k \in SubsIn PROVE SubOf(k) # WillEncrypt /\ SubOf(k) # Offer /\ SubOf(k) # TheirIS
  <2>1. SubOf(k).kind = k /\ WillEncrypt.kind = "" /\ Offer.kind = "SUPPORT" /\ TheirIS.kind = "IS"
    BY NamesIs
  <2> QED
    BY <2>1 DEF SubsIn
<1>3. TheirIS # Offer /\ TheirIS # WillEncrypt /\ TheirIS \notin Switches /\ Offer \notin Switches
  <2>1. WillEncrypt.kind = "" /\ Offer.kind = "SUPPORT" /\ TheirIS.kind = "IS"
    BY NamesIs
  <2> QED
    BY <2>1, KindsIs
<1>4. TheirIS \in EncryptIn /\ TheirIS \in ToProgram
  BY OfEncryption, ProgramGets
<1> QED
  BY <1>1, <1>2, <1>3, <1>4, SentTyped

\* One message of the server's about encryption, and what has changed with it.
LEMMA ServerAnswersOne ==
  ASSUME WireTyped, NParts, refused' = FALSE, eaten' = eaten, NEW k, N!HearsSub("ENCRYPT", k), NEW j \in SubsIn,
         N!Says(<<SubOf(j)>>),
         server' \in ServerRecord, server'.key = server.key, server'.stage = server.stage, server'.encIV = server.encIV,
         k # "SUPPORT", k \notin {"START", "END"}, j # "END",
         server'.decIV = (IF k = "IS" THEN N!OurIV ELSE server.decIV),
         server'.ready = (IF k = "DEC_KEYID" THEN TRUE ELSE server.ready),
         j = "REPLY" => k = "IS", j = "DEC_KEYID" => k = "ENC_KEYID", j = "ENC_KEYID" => k = "REPLY",
         j = "START" => server'.ready,
         server'.decrypt = server.decrypt,
         server'.encrypt = (IF j = "START" THEN TRUE ELSE server.encrypt)
  PROVE  WireTyped' /\ NParts'
<1> DEFINE a == SubOf(j)
           A == {a}
<1>1. /\ a \in ToProgram /\ a \in EncryptIn /\ a # WillEncrypt /\ a # Offer /\ a # TheirIS
  BY SpokenIs
<1>2. \A i : a = SubOf(i) <=> i = j
  BY SentIs
<1> HIDE DEF a
<1>3. ServerSends(a)
  BY <1>1, SayOne DEF a
<1>4. Speak(A, a) /\ A \subseteq EncryptIn
  BY <1>1, <1>3, SpeakOne
<1>5. /\ WillEncrypt \notin A /\ Offer \notin A /\ TheirIS \notin A
      /\ SubOf("REPLY") \in A => k = "IS"
      /\ SubOf("DEC_KEYID") \in A => k = "ENC_KEYID"
      /\ SubOf("ENC_KEYID") \in A => k = "REPLY"
      /\ SubOf("START") \in A \/ a = SubOf("START") => server'.ready
  BY <1>1, <1>2
<1> HIDE DEF A
<1>6. /\ server'.encIV = (IF k = "SUPPORT" THEN N!ServerIV ELSE server.encIV)
      /\ server'.decrypt = (IF k = "START" THEN TRUE ELSE IF k = "END" THEN FALSE ELSE server.decrypt)
  OBVIOUS
<1>7. a # SubOf("END") /\ (a = SubOf("START") <=> j = "START")
  BY <1>2
<1>8. server'.encrypt = (IF a = SubOf("START") THEN TRUE ELSE IF a = SubOf("END") THEN FALSE ELSE server.encrypt)
  <2>1. CASE j = "START"
    BY <1>7, <2>1
  <2>2. CASE j # "START"
    BY <1>7, <2>2
  <2> QED
    BY <2>1, <2>2
<1> QED
  BY <1>4, <1>5, <1>6, <1>8, ServerAnswersEncrypt

\* None, and the encryption of what it decrypts may have changed.
LEMMA ServerAnswersNone ==
  ASSUME WireTyped, NParts, refused' = FALSE, eaten' = eaten, NEW k, N!HearsSub("ENCRYPT", k), in' = in,
         server' \in ServerRecord, server'.key = server.key, server'.stage = server.stage, server'.encIV = server.encIV,
         server'.decIV = server.decIV, server'.ready = server.ready, server'.encrypt = server.encrypt,
         k \notin {"SUPPORT", "IS", "DEC_KEYID"},
         server'.decrypt = (IF k = "START" THEN TRUE ELSE IF k = "END" THEN FALSE ELSE server.decrypt)
  PROVE  WireTyped' /\ NParts'
<1> DEFINE a == Offer
           A == {}
<1>1. a \notin Switches
  BY SpokenIs
<1>2. a # SubOf("START") /\ a # SubOf("END")
  BY <1>1 DEF Switches
<1> HIDE DEF a
<1>3. Speak(A, a) /\ A \subseteq EncryptIn
  BY <1>1, SpeakNone
<1>4. \A m : m \notin A
  OBVIOUS
<1> HIDE DEF A
<1>5. /\ server'.encIV = (IF k = "SUPPORT" THEN N!ServerIV ELSE server.encIV)
      /\ server'.decIV = (IF k = "IS" THEN N!OurIV ELSE server.decIV)
      /\ server'.ready = (IF k = "DEC_KEYID" THEN TRUE ELSE server.ready)
      /\ server'.encrypt = (IF a = SubOf("START") THEN TRUE ELSE IF a = SubOf("END") THEN FALSE ELSE server.encrypt)
      /\ SubOf("START") \in A \/ a = SubOf("START") => server'.ready
  BY <1>2, <1>4
<1> QED
  BY <1>3, <1>4, <1>5, ServerAnswersEncrypt

LEMMA HearsSupportStep ==
  ASSUME WireTyped, NParts, refused' = FALSE, eaten' = eaten, N!HearsSub("ENCRYPT", "SUPPORT"), N!Says(<<TheirIS>>),
         server' = [server EXCEPT !.encIV = N!ServerIV]
  PROVE  WireTyped' /\ NParts'
<1> DEFINE k == "SUPPORT"
           a == TheirIS
           A == {a}
<1>1. /\ server' \in ServerRecord /\ server'.key = server.key /\ server'.stage = server.stage
      /\ server'.encIV = N!ServerIV /\ server'.decIV = server.decIV /\ server'.ready = server.ready
      /\ server'.encrypt = server.encrypt /\ server'.decrypt = server.decrypt
  BY DEF WireTyped, ServerRecord
<1>2. /\ a \in ToProgram /\ a \in EncryptIn /\ a # WillEncrypt /\ a # Offer /\ a \notin Switches
      /\ \A j \in SubsIn : a # SubOf(j)
  BY SpokenIs
<1>3. N!Says(<<a>>) /\ N!HearsSub("ENCRYPT", k) /\ k = "SUPPORT" /\ k \notin {"IS", "DEC_KEYID", "START", "END"}
  OBVIOUS
<1> HIDE DEF a, k
<1>4. ServerSends(a)
  BY <1>2, <1>3, SayOne
<1>5. Speak(A, a) /\ A \subseteq EncryptIn
  BY <1>2, <1>4, SpeakOne
<1>6. /\ WillEncrypt \notin A /\ Offer \notin A
      /\ \A j \in SubsIn : SubOf(j) \notin A
      /\ a # SubOf("START") /\ a # SubOf("END")
  BY <1>2 DEF Switches
<1> HIDE DEF A
<1>7. /\ SubOf("REPLY") \notin A /\ SubOf("DEC_KEYID") \notin A /\ SubOf("ENC_KEYID") \notin A /\ SubOf("START") \notin A
  BY <1>6 DEF SubsIn
<1>8. /\ server'.encIV = (IF k = "SUPPORT" THEN N!ServerIV ELSE server.encIV)
      /\ server'.decIV = (IF k = "IS" THEN N!OurIV ELSE server.decIV)
      /\ server'.ready = (IF k = "DEC_KEYID" THEN TRUE ELSE server.ready)
      /\ server'.decrypt = (IF k = "START" THEN TRUE ELSE IF k = "END" THEN FALSE ELSE server.decrypt)
      /\ server'.encrypt = (IF a = SubOf("START") THEN TRUE ELSE IF a = SubOf("END") THEN FALSE ELSE server.encrypt)
  BY <1>1, <1>3, <1>6
<1> QED
  BY <1>1, <1>3, <1>5, <1>6, <1>7, <1>8, ServerAnswersEncrypt

\* The vector of the program, taken from its message.
LEMMA HearsIsStep ==
  ASSUME WireTyped, NParts, refused' = FALSE, eaten' = eaten, N!HearsSub("ENCRYPT", "IS"), N!Says(<<N!Sub("ENCRYPT", "REPLY", 0)>>),
         server' = [server EXCEPT !.decIV = N!Heard.arg]
  PROVE  WireTyped' /\ NParts'
<1>1. N!Heard = OurIS /\ OurVector = N!OurIV
  BY ServerHearsEncrypt
<1>2. N!Heard.arg = N!OurIV
  BY <1>1, NamesIs
<1>3. server' = [server EXCEPT !.decIV = N!OurIV] /\ server \in ServerRecord
  BY <1>2 DEF WireTyped, ServerRecord
<1>4. /\ server' \in ServerRecord /\ server'.key = server.key /\ server'.stage = server.stage
      /\ server'.encIV = server.encIV /\ server'.decIV = N!OurIV /\ server'.ready = server.ready
      /\ server'.encrypt = server.encrypt /\ server'.decrypt = server.decrypt
  BY <1>1, <1>3 DEF ServerRecord
<1>5. N!Says(<<SubOf("REPLY")>>)
  BY DEF SubOf
<1> DEFINE k == "IS"
           j == "REPLY"
<1>6. /\ j \in SubsIn /\ N!HearsSub("ENCRYPT", k) /\ N!Says(<<SubOf(j)>>)
      /\ k # "SUPPORT" /\ k \notin {"START", "END"} /\ j # "END"
      /\ server'.decIV = (IF k = "IS" THEN N!OurIV ELSE server.decIV)
      /\ server'.ready = (IF k = "DEC_KEYID" THEN TRUE ELSE server.ready)
      /\ (j = "REPLY" => k = "IS") /\ (j = "DEC_KEYID" => k = "ENC_KEYID") /\ (j = "ENC_KEYID" => k = "REPLY")
      /\ (j = "START" => server'.ready)
      /\ server'.encrypt = (IF j = "START" THEN TRUE ELSE server.encrypt)
  BY <1>4, <1>5 DEF SubsIn
<1> HIDE DEF k, j
<1> QED
  BY <1>4, <1>6, ServerAnswersOne

\* A message that only brings the next one.
LEMMA HearsAndSays ==
  ASSUME WireTyped, NParts, refused' = FALSE, eaten' = eaten, NEW k, NEW j \in SubsIn, N!HearsSub("ENCRYPT", k), N!Says(<<SubOf(j)>>),
         <<k, j>> \in {<<"REPLY", "ENC_KEYID">>, <<"ENC_KEYID", "DEC_KEYID">>}, server' = server
  PROVE  WireTyped' /\ NParts'
<1>1. server \in ServerRecord
  BY DEF WireTyped, ServerRecord
<1>2. (k = "REPLY" /\ j = "ENC_KEYID") \/ (k = "ENC_KEYID" /\ j = "DEC_KEYID")
  <2>1. <<k, j>> = <<"REPLY", "ENC_KEYID">> \/ <<k, j>> = <<"ENC_KEYID", "DEC_KEYID">>
    OBVIOUS
  <2>2. <<k, j>>[1] = k /\ <<k, j>>[2] = j
    OBVIOUS
  <2> QED
    BY <2>1, <2>2
<1>3. /\ server' \in ServerRecord
      /\ k # "SUPPORT" /\ k \notin {"START", "END"} /\ j # "END"
      /\ server'.decIV = (IF k = "IS" THEN N!OurIV ELSE server.decIV)
      /\ server'.ready = (IF k = "DEC_KEYID" THEN TRUE ELSE server.ready)
      /\ (j = "REPLY" => k = "IS") /\ (j = "DEC_KEYID" => k = "ENC_KEYID") /\ (j = "ENC_KEYID" => k = "REPLY")
      /\ (j = "START" => server'.ready)
      /\ server'.encrypt = (IF j = "START" THEN TRUE ELSE server.encrypt)
  BY <1>1, <1>2
<1> QED
  BY <1>3, ServerAnswersOne

\* START, for the first time or once more.
LEMMA HearsAndStarts ==
  ASSUME WireTyped, NParts, refused' = FALSE, eaten' = eaten, NEW k, N!HearsSub("ENCRYPT", k), N!Says(<<SubOf("START")>>),
         \/ k = "DEC_KEYID" /\ server' = [server EXCEPT !.ready = TRUE, !.encrypt = TRUE]
         \/ k = "REQUEST_START" /\ server.ready = TRUE /\ server' = [server EXCEPT !.encrypt = TRUE]
  PROVE  WireTyped' /\ NParts'
<1> DEFINE j == "START"
<1>1. server \in ServerRecord
  BY DEF WireTyped, ServerRecord
<1>2. /\ server' \in ServerRecord /\ server'.key = server.key /\ server'.stage = server.stage
      /\ server'.encIV = server.encIV /\ server'.decIV = server.decIV /\ server'.ready = TRUE
      /\ server'.encrypt = TRUE /\ server'.decrypt = server.decrypt
  BY <1>1 DEF ServerRecord
<1>3. /\ j \in SubsIn /\ N!Says(<<SubOf(j)>>)
      /\ k # "SUPPORT" /\ k \notin {"START", "END"} /\ j # "END"
      /\ server'.decIV = (IF k = "IS" THEN N!OurIV ELSE server.decIV)
      /\ server'.ready = (IF k = "DEC_KEYID" THEN TRUE ELSE server.ready)
      /\ (j = "REPLY" => k = "IS") /\ (j = "DEC_KEYID" => k = "ENC_KEYID") /\ (j = "ENC_KEYID" => k = "REPLY")
      /\ (j = "START" => server'.ready)
      /\ server'.encrypt = (IF j = "START" THEN TRUE ELSE server.encrypt)
  BY <1>2 DEF SubsIn
<1> HIDE DEF j
<1> QED
  BY <1>2, <1>3, ServerAnswersOne

\* Nothing is said, and at most the reading of the server is switched.
LEMMA HearsOnly ==
  ASSUME WireTyped, NParts, refused' = FALSE, eaten' = eaten, NEW k, N!HearsSub("ENCRYPT", k), in' = in,
         \/ k \in {"IS NULL", "REQUEST_START"} /\ server' = server
         \/ k = "START" /\ server' = [server EXCEPT !.decrypt = TRUE]
         \/ k = "END" /\ server' = [server EXCEPT !.decrypt = FALSE]
  PROVE  WireTyped' /\ NParts'
<1>1. server \in ServerRecord
  BY DEF WireTyped, ServerRecord
<1>2. /\ server' \in ServerRecord /\ server'.key = server.key /\ server'.stage = server.stage
      /\ server'.encIV = server.encIV /\ server'.decIV = server.decIV /\ server'.ready = server.ready
      /\ server'.encrypt = server.encrypt
  BY <1>1 DEF ServerRecord
<1>3. /\ k \notin {"SUPPORT", "IS", "DEC_KEYID"}
      /\ server'.decrypt = (IF k = "START" THEN TRUE ELSE IF k = "END" THEN FALSE ELSE server.decrypt)
  BY <1>1 DEF ServerRecord
<1> QED
  BY <1>2, <1>3, ServerAnswersNone

LEMMA HearsEncryptStep == ASSUME WireTyped, NParts, refused' = FALSE, eaten' = eaten, N!HearsEncrypt PROVE WireTyped' /\ NParts'
<1>0. SubOf("START") = N!Sub("ENCRYPT", "START", 0) /\ SubOf("ENC_KEYID") = N!Sub("ENCRYPT", "ENC_KEYID", 0)
      /\ SubOf("DEC_KEYID") = N!Sub("ENCRYPT", "DEC_KEYID", 0) /\ TheirIS = N!Sub("ENCRYPT", "IS", N!ServerIV)
  BY DEF SubOf, TheirIS
<1>1. CASE N!HearsSub("ENCRYPT", "SUPPORT") /\ N!Says(<<TheirIS>>) /\ server' = [server EXCEPT !.encIV = N!ServerIV]
  BY <1>1, HearsSupportStep
<1>2. CASE N!HearsSub("ENCRYPT", "IS") /\ N!Says(<<N!Sub("ENCRYPT", "REPLY", 0)>>)
           /\ server' = [server EXCEPT !.decIV = N!Heard.arg]
  BY <1>2, HearsIsStep
<1>3. CASE N!HearsSub("ENCRYPT", "REPLY") /\ N!Says(<<SubOf("ENC_KEYID")>>) /\ server' = server
  BY <1>3, HearsAndSays DEF SubsIn
<1>4. CASE N!HearsSub("ENCRYPT", "ENC_KEYID") /\ N!Says(<<SubOf("DEC_KEYID")>>) /\ server' = server
  BY <1>4, HearsAndSays DEF SubsIn
<1>5. CASE N!HearsSub("ENCRYPT", "DEC_KEYID") /\ N!Says(<<SubOf("START")>>)
           /\ server' = [server EXCEPT !.ready = TRUE, !.encrypt = TRUE]
  BY <1>5, HearsAndStarts
<1>6. CASE /\ N!HearsSub("ENCRYPT", "REQUEST_START")
           /\ N!Says(IF server.ready THEN <<SubOf("START")>> ELSE <<>>)
           /\ server' = [server EXCEPT !.encrypt = server.ready]
  <2>1. server \in ServerRecord /\ (server.encrypt => server.ready)
    BY DEF WireTyped, ServerRecord, NParts, Vectors
  <2>2. server.ready \in BOOLEAN /\ server.encrypt \in BOOLEAN
    BY <2>1 DEF ServerRecord
  <2>3. CASE server.ready = TRUE
    <3>1. N!Says(<<SubOf("START")>>) /\ server' = [server EXCEPT !.encrypt = TRUE]
      BY <1>6, <2>3
    <3> QED
      BY <1>6, <2>3, <3>1, HearsAndStarts
  <2>4. CASE server.ready = FALSE
    <3>1. N!Says(<<>>) /\ server' = [server EXCEPT !.encrypt = FALSE] /\ server.encrypt = FALSE
      BY <1>6, <2>1, <2>2, <2>4
    <3>2. server' = server
      BY <2>1, <3>1 DEF ServerRecord
    <3>3. in' = in
      BY <3>1, SayNone
    <3> QED
      BY <1>6, <3>2, <3>3, HearsOnly
  <2> QED
    BY <2>2, <2>3, <2>4
<1>7. CASE N!HearsSub("ENCRYPT", "START") /\ server' = [server EXCEPT !.decrypt = TRUE] /\ in' = in
  BY <1>7, HearsOnly
<1>8. CASE N!HearsSub("ENCRYPT", "END") /\ server' = [server EXCEPT !.decrypt = FALSE] /\ in' = in
  BY <1>8, HearsOnly
<1> QED
  BY <1>0, <1>1, <1>2, <1>3, <1>4, <1>5, <1>6, <1>7, <1>8 DEF N!HearsEncrypt

-----------------------------------------------------------------------------
(* The encryption is stopped and started again *)

LEMMA ServerSwitches ==
  ASSUME WireTyped, NParts, refused' = FALSE, eaten' = eaten, N!OfServer, out' = out, us' = us, him' = him,
         NEW j \in {"REQUEST_END", "REQUEST_START"}, NEW k \in {"START", "END"}, N!Says(<<SubOf(j), SubOf(k)>>),
         server.ready = TRUE,
         server' = [server EXCEPT !.encrypt = (k = "START"), !.stage = IF k = "START" THEN "restarted" ELSE "stopped"]
  PROVE  WireTyped' /\ NParts'
<1> DEFINE h == SubOf("REQUEST_END")
           a == SubOf(k)
           b == SubOf(j)
           A == {b, a}
<1>1. ProgramStays
  BY DEF ProgramStays, N!OfServer, N!program, N!options, N!crypto
<1>2. /\ Keyed /\ Opened /\ Sealed
  BY DEF NParts, Authenticating, Untouched, Vectors
<1>3. server \in ServerRecord
  BY DEF WireTyped, ServerRecord
<1>4. /\ server' \in ServerRecord /\ server'.key = server.key
      /\ server'.encIV = server.encIV /\ server'.decIV = server.decIV /\ server'.ready = TRUE
      /\ server'.decrypt = server.decrypt /\ server'.encrypt = (k = "START")
  BY <1>3 DEF ServerRecord
<1>5. /\ h.cmd = "SB" /\ h.opt = "ENCRYPT" /\ h.kind = "REQUEST_END" /\ h \notin Switches
      /\ h # SubOf("START") /\ h # SubOf("END") /\ h # OurIS
  <2>1. h.cmd = "SB" /\ h.opt = "ENCRYPT" /\ h.kind = "REQUEST_END"
    BY NamesIs
  <2>2. h # SubOf("START") /\ h # SubOf("END") /\ h # OurIS
    BY SentIs
  <2> QED
    BY <2>1, <2>2 DEF Switches
<1>6. /\ a \in ToProgram /\ a \in EncryptIn /\ a # WillEncrypt /\ a # Offer /\ a # TheirIS
      /\ b \in ToProgram /\ b \in EncryptIn /\ b # WillEncrypt /\ b # Offer /\ b # TheirIS /\ b \notin Switches
  BY SpokenIs DEF SubsIn
<1>7. /\ \A i : a = SubOf(i) <=> i = k
      /\ \A i : b = SubOf(i) <=> i = j
  BY SentIs
<1>8. N!Says(<<b, a>>)
  OBVIOUS
<1> HIDE DEF h, a, b
<1>9. ServerSendsTwo(b, a)
  BY <1>6, <1>8, SayTwo
<1>10. Speak(A, a) /\ A \subseteq EncryptIn
  BY <1>6, <1>9, SpeakTwo
<1>11. Hear(h)
  BY <1>5, HearNone
<1>12. /\ WillEncrypt \notin A /\ Offer \notin A /\ TheirIS \notin A
       /\ SubOf("REPLY") \notin A /\ SubOf("DEC_KEYID") \notin A /\ SubOf("ENC_KEYID") \notin A
  BY <1>6, <1>7
<1> HIDE DEF A
<1>13. /\ server.encIV = N!ServerIV => server'.encIV = N!ServerIV
       /\ server.decIV = OurVector => server'.decIV = OurVector
       /\ server'.decIV = OurVector => encIV = OurVector
  BY <1>4 DEF NParts, Vectors
<1>14. server'.encrypt = (IF a = SubOf("START") THEN TRUE ELSE IF a = SubOf("END") THEN FALSE ELSE server.encrypt)
  <2>1. CASE k = "START"
    BY <1>4, <1>7, <2>1
  <2>2. CASE k = "END"
    BY <1>4, <1>7, <2>2
  <2> QED
    BY <2>1, <2>2
<1>15. server'.decrypt = (IF h = SubOf("START") THEN TRUE ELSE IF h = SubOf("END") THEN FALSE ELSE server.decrypt)
  BY <1>4, <1>5
<1> QED
  BY <1>1, <1>2, <1>4, <1>5, <1>10, <1>11, <1>12, <1>13, <1>14, <1>15, ServerEncryptStep

LEMMA ServerStopsStep == ASSUME WireTyped, NParts, refused' = FALSE, eaten' = eaten, N!ServerStops PROVE WireTyped' /\ NParts'
<1> DEFINE j == "REQUEST_END"
           k == "END"
<1>1. /\ j \in {"REQUEST_END", "REQUEST_START"} /\ k \in {"START", "END"} /\ N!Says(<<SubOf(j), SubOf(k)>>)
      /\ server' = [server EXCEPT !.encrypt = (k = "START"), !.stage = IF k = "START" THEN "restarted" ELSE "stopped"]
      /\ out' = out /\ us' = us /\ him' = him /\ N!OfServer
  BY DEF N!ServerStops, SubOf
<1>2. server.ready = TRUE
  BY DEF N!ServerStops, WireTyped, NParts, Vectors
<1> HIDE DEF j, k
<1> QED
  BY <1>1, <1>2, ServerSwitches

LEMMA ServerRestartsStep == ASSUME WireTyped, NParts, refused' = FALSE, eaten' = eaten, N!ServerRestarts PROVE WireTyped' /\ NParts'
<1> DEFINE j == "REQUEST_START"
           k == "START"
<1>1. /\ j \in {"REQUEST_END", "REQUEST_START"} /\ k \in {"START", "END"} /\ N!Says(<<SubOf(j), SubOf(k)>>)
      /\ server' = [server EXCEPT !.encrypt = (k = "START"), !.stage = IF k = "START" THEN "restarted" ELSE "stopped"]
      /\ out' = out /\ us' = us /\ him' = him /\ N!OfServer
  BY DEF N!ServerRestarts, SubOf
<1>2. server.ready = TRUE
  BY DEF N!ServerRestarts, WireTyped, NParts, Vectors
<1> HIDE DEF j, k
<1> QED
  BY <1>1, <1>2, ServerSwitches

-----------------------------------------------------------------------------
(* The server hears of the terminal and of authentication *)

LEMMA HeardBeside ==
  ASSUME WireTyped, NParts, refused' = FALSE, eaten' = eaten, ProgramStays, us' = us, him' = him, server' \in ServerRecord,
         server'.encrypt = server.encrypt, server'.decrypt = server.decrypt, server'.ready = server.ready,
         server'.encIV = server.encIV, server'.decIV = server.decIV,
         server'.stage = server.stage \/ server'.stage \notin {"stopped", "restarted"},
         server'.key = server.key \/ Untouched,
         NEW h, h.cmd = "SB", h.opt # "ENCRYPT", Hear(h),
         NEW A, NEW a, \A b \in A \cup {a} : b.cmd = "SB" /\ b.opt # "ENCRYPT", Speak(A, a)
  PROVE  WireTyped' /\ OfferedFirst' /\ InTurn' /\ Vectors' /\ Readable' /\ Options' /\ (Untouched => Untouched')
<1>1. \A b \in A \cup {a, h} : b \notin EncryptMessages /\ b \notin Switches
  BY KindsIs
<1>2. ASSUME NEW p, NEW e \in Directions PROVE Away(in, in', Asks(p, e)) /\ Away(out, out', Says(p, e))
  <2>1. (\A m \in Asks(p, e) : m.cmd # "SB") /\ (\A m \in Says(p, e) : m.cmd # "SB")
    BY KindsIs
  <2>2. h \notin Says(p, e) /\ \A b \in A : b \notin Asks(p, e)
    BY <2>1
  <2> QED
    BY <2>2 DEF Hear, Speak
<1>3. Away(in, in', EncryptMessages) /\ Away(out, out', EncryptMessages)
  BY <1>1 DEF Hear, Speak
<1>4. Untouched => Untouched'
  BY <1>3, UntouchedBeside DEF ProgramStays
<1>5. OfferedFirst' /\ InTurn' /\ Vectors'
  BY <1>3, EncryptingBeside DEF NParts, ProgramStays
<1>6. Options'
  <2>1. us["ENCRYPT"] \in {"yes", "no"} /\ him["ENCRYPT"] \in {"yes", "no"}
    BY EncryptHeld
  <2>2. ~negotiation.crypt => Untouched'
    BY <1>4 DEF NParts, Options
  <2> QED
    BY <1>2, <2>1, <2>2, OptionsBeside DEF NParts, ProgramStays
<1>7. Readable'
  <2>1. CASE server'.key = server.key
    <3>1. N!ServerReading' = N!ServerReading /\ N!ServerCipher' = N!ServerCipher
      BY <2>1 DEF N!ServerReading, N!ServerCipher, N!Plain
    <3> QED
      BY <1>1, <3>1, ServerReadableBeside DEF NParts, ProgramStays
  <2>2. CASE Untouched
    <3>1. server.encrypt = FALSE /\ server.decrypt = FALSE
      BY <2>2 DEF Untouched, WireTyped
    <3>2. N!ServerReading' = N!ServerReading /\ N!ServerCipher' = N!ServerCipher
      BY <3>1 DEF N!ServerReading, N!ServerCipher, N!Plain
    <3> QED
      BY <1>1, <3>2, ServerReadableBeside DEF NParts, ProgramStays
  <2> QED
    BY <2>1, <2>2
<1>8. WireTyped'
  BY TypedServerStep DEF WireTyped, ProgramStays, ServerRecord, Hear, Speak
<1> QED
  BY <1>4, <1>5, <1>6, <1>7, <1>8

\* What the terminal is, and who asks to be let in.
LEMMA HeardAside ==
  ASSUME WireTyped, NParts, refused' = FALSE, eaten' = eaten, NEW o, NEW k, N!HearsSub(o, k), o # "ENCRYPT",
         o # "AUTH" \/ k \in {"NAME", "IS NULL"}, in' = in,
         server' = server \/ server' = [server EXCEPT !.stage = "refused"]
  PROVE  WireTyped' /\ NParts'
<1> DEFINE h == N!Heard
           a == N!Sub("TTYPE", "SEND", 0)
           A == {}
<1>1. /\ h.cmd = "SB" /\ h.opt = o /\ h.kind = k /\ Hear(h)
      /\ ProgramStays /\ us' = us /\ him' = him
  BY ServerHears
<1> HIDE DEF h
<1>2. a.cmd = "SB" /\ a.opt = "TTYPE"
  BY SubIs
<1> HIDE DEF a
<1>3. a \notin Switches
  BY <1>2, Plainly
<1>4. Speak(A, a) /\ \A b \in A \cup {a} : b.cmd = "SB" /\ b.opt # "ENCRYPT"
  BY <1>2, <1>3, SpeakNone
<1> HIDE DEF A
<1>5. server \in ServerRecord
  BY DEF WireTyped, ServerRecord
<1>6. /\ server' \in ServerRecord /\ server'.key = server.key
      /\ server'.encrypt = server.encrypt /\ server'.decrypt = server.decrypt /\ server'.ready = server.ready
      /\ server'.encIV = server.encIV /\ server'.decIV = server.decIV
      /\ server'.stage = server.stage \/ server'.stage \notin {"stopped", "restarted"}
  BY <1>5 DEF ServerRecord
<1>7. /\ WireTyped' /\ OfferedFirst' /\ InTurn' /\ Vectors' /\ Readable' /\ Options'
      /\ Untouched => Untouched'
  BY <1>1, <1>4, <1>6, HeardBeside
<1>8. Authenticating'
  <2>1. h \notin AuthMessages
    <3>1. \A m \in AuthMessages : m.opt = "AUTH" /\ m.kind \notin {"NAME", "IS NULL"}
      <4>1. \A m \in AuthMessages : m.opt = "AUTH"
        BY KindsIs
      <4>2. /\ Step("SEND").kind = "SEND" /\ Step("ACCEPT").kind = "ACCEPT" /\ Step("REJECT").kind = "REJECT"
            /\ Step("RESPONSE").kind = "RESPONSE" /\ Step("IS AUTH").kind = "IS AUTH" /\ Challenge.kind = "CHALLENGE"
        BY NamesIs
      <4> QED
        BY <4>1, <4>2 DEF AuthMessages, AuthIn, AuthOut
    <3> QED
      BY <1>1, <3>1
  <2>2. Away(in, in', AuthMessages) /\ Away(out, out', AuthMessages)
    BY <2>1, <1>1, SameAway DEF Hear
  <2> QED
    BY <1>1, <1>6, <1>7, <2>2, AuthenticatingBeside DEF NParts, ProgramStays
<1> QED
  BY <1>7, <1>8 DEF NParts

LEMMA HearsDataStep == ASSUME WireTyped, NParts, refused' = FALSE, eaten' = eaten, N!HearsData PROVE WireTyped' /\ NParts'
<1>0. in' = in /\ server' = server
  BY DEF N!HearsData
<1>1. CASE N!HearsSub("TTYPE", "IS")
  BY <1>0, <1>1, HeardAside
<1>2. CASE N!HearsSub("NAWS", "SIZE")
  BY <1>0, <1>2, HeardAside
<1>3. CASE N!HearsSub("AUTH", "NAME")
  BY <1>0, <1>3, HeardAside
<1>4. CASE N!HearsSub("ENCRYPT", "IS NULL")
  BY <1>0, <1>4, HearsOnly
<1> QED
  BY <1>1, <1>2, <1>3, <1>4 DEF N!HearsData

\* A step of authentication is heard, and answered with the next one.
LEMMA AuthHeard ==
  ASSUME WireTyped, NParts, refused' = FALSE, eaten' = eaten, NEW k, N!HearsSub("AUTH", k), NEW j \in StepsIn, N!Says(<<Step(j)>>),
         \/ /\ k = "IS AUTH" /\ j \in {"ACCEPT", "REJECT"}
            /\ \E g \in {"accepted", "refused"} : server' = [server EXCEPT !.stage = g]
         \/ /\ k = "CHALLENGE" /\ j = "RESPONSE"
            /\ server' = [server EXCEPT !.key = N!Heard.arg, !.stage = "keyed"]
  PROVE  WireTyped' /\ NParts'
<1> DEFINE h == N!Heard
           a == Step(j)
           A == {a}
<1>1. /\ h \in ToServer /\ h.cmd = "SB" /\ h.opt = "AUTH" /\ h.kind = k /\ Hear(h) /\ Took(out, out', h)
      /\ ProgramStays /\ us' = us /\ him' = him
  BY ServerHears
<1>2. h = IF k = "CHALLENGE" THEN Challenge ELSE Step(k)
  BY <1>1, ServerReads
<1>2a. h \in AuthOut
  BY <1>2 DEF AuthOut
<1>3. k = "CHALLENGE" => h.arg = 1
  BY <1>2, NamesIs
<1>4. server \in ServerRecord
  BY DEF WireTyped, ServerRecord
<1>5. /\ server' \in ServerRecord
      /\ server'.encrypt = server.encrypt /\ server'.decrypt = server.decrypt /\ server'.ready = server.ready
      /\ server'.encIV = server.encIV /\ server'.decIV = server.decIV
      /\ server'.stage \notin {"stopped", "restarted"}
      /\ server'.key = (IF k = "CHALLENGE" THEN 1 ELSE server.key)
  <2>1. CASE k = "IS AUTH"
    BY <1>4, <2>1 DEF ServerRecord
  <2>2. CASE k = "CHALLENGE"
    <3>1. server' = [server EXCEPT !.key = 1, !.stage = "keyed"]
      BY <1>3, <2>2
    <3> QED
      BY <1>4, <2>2, <3>1 DEF ServerRecord
  <2> QED
    BY <2>1, <2>2
<1> HIDE DEF h
<1>6. a \in ToProgram /\ a \in AuthIn /\ a.cmd = "SB" /\ a.opt = "AUTH"
  BY ProgramGets, NamesIs DEF AuthIn, StepsIn
<1>7. /\ a \in {Step("SEND"), Step("ACCEPT")} => k = "IS AUTH"
      /\ a = Step("RESPONSE") => k = "CHALLENGE"
  <2>1. Step(j).kind = j /\ Step("SEND").kind = "SEND" /\ Step("ACCEPT").kind = "ACCEPT" /\ Step("RESPONSE").kind = "RESPONSE"
    BY NamesIs
  <2>2. a = Step("SEND") => j = "SEND"
    BY <2>1
  <2>3. a = Step("ACCEPT") => j = "ACCEPT"
    BY <2>1
  <2>4. a = Step("RESPONSE") => j = "RESPONSE"
    BY <2>1
  <2> HIDE DEF a
  <2> QED
    BY <2>2, <2>3, <2>4
<1>8. N!Says(<<a>>)
  OBVIOUS
<1> HIDE DEF a
<1>9. ServerSends(a)
  BY <1>6, <1>8, SayOne
<1>10. Speak(A, a) /\ \A b \in A \cup {a} : b.cmd = "SB" /\ b.opt # "ENCRYPT"
  BY <1>6, <1>9, SpeakOne
<1> HIDE DEF A
<1>11. /\ Has(out, AuthOut) /\ ~Has(in, AuthIn) /\ ~Has(out', AuthOut)
  BY <1>1, <1>2a DEF Took, NParts, Authenticating
<1>12. Untouched /\ him["AUTH"] \notin {"no", "wantyes"}
  BY <1>11 DEF NParts, Authenticating, Keyed
<1>13. /\ k = "IS AUTH" => enckey = 0 /\ server.key = 0
       /\ k = "CHALLENGE" => enckey = 1 /\ server.key = 0
  <2>1. \A M : h \in M => Has(out, M)
    BY <1>1 DEF Took
  <2>2. k = "IS AUTH" => Has(out, {Step("IS AUTH")})
    BY <1>2, <2>1
  <2>3. k = "CHALLENGE" => Has(out, {Challenge})
    BY <1>2, <2>1
  <2> QED
    BY <2>2, <2>3 DEF NParts, Authenticating
<1>14. /\ WireTyped' /\ OfferedFirst' /\ InTurn' /\ Vectors' /\ Readable' /\ Options' /\ Untouched'
  <2>1. h.opt # "ENCRYPT"
    BY <1>1
  <2> QED
    BY <1>1, <1>5, <1>10, <1>12, <2>1, HeardBeside
<1>15. Authenticating'
  <2>1. Put(in, in', a)
    BY <1>9 DEF ServerSends, Puts
  <2>2. ~Has(in, {Step("SEND"), Step("ACCEPT")}) /\ ~Has(in, {Step("RESPONSE")}) /\ Once(in, AuthIn)
    BY <1>11, AuthParts, HasWithin
  <2>3. ~Has(out', {Step("IS AUTH")}) /\ ~Has(out', {Challenge}) /\ Once(out', AuthOut)
    BY <1>11, AuthParts, HasWithin
  <2>4. /\ Has(in', {Step("SEND"), Step("ACCEPT")}) => k = "IS AUTH"
        /\ Has(in', {Step("RESPONSE")}) => k = "CHALLENGE"
        /\ Once(in', AuthIn)
    BY <1>7, <1>11, <2>1, <2>2 DEF Put
  <2>5. enckey' = enckey
    BY <1>1 DEF ProgramStays
  <2>6. k = "CHALLENGE" => enckey' = 1 /\ server'.key = 1
    BY <1>5, <1>13, <2>5
  <2>7. k = "IS AUTH" => enckey' = 0 /\ server'.key = 0
    BY <1>5, <1>13, <2>5
  <2>8. him'["AUTH"] \notin {"no", "wantyes"}
    BY <1>1, <1>12
  <2> QED
    BY <1>11, <1>14, <2>3, <2>4, <2>6, <2>7, <2>8 DEF Authenticating
<1> QED
  BY <1>14, <1>15 DEF NParts

LEMMA HearsAuthStep == ASSUME WireTyped, NParts, refused' = FALSE, eaten' = eaten, N!HearsAuth PROVE WireTyped' /\ NParts'
<1>1. CASE N!HearsSub("AUTH", "IS NULL") /\ server' = [server EXCEPT !.stage = "refused"] /\ in' = in
  BY <1>1, HeardAside
<1>2. CASE /\ N!HearsSub("AUTH", "IS AUTH")
           /\ N!Says(<<N!Sub("AUTH", IF negotiation.accepts THEN "ACCEPT" ELSE "REJECT", 0)>>)
           /\ server' = [server EXCEPT !.stage = IF negotiation.accepts THEN "accepted" ELSE "refused"]
  <2> DEFINE j == IF negotiation.accepts THEN "ACCEPT" ELSE "REJECT"
             k == "IS AUTH"
  <2>1. N!Says(<<Step(j)>>) /\ j \in StepsIn
    BY <1>2 DEF Step, StepsIn
  <2>2. N!HearsSub("AUTH", k) /\ k = "IS AUTH" /\ j \in {"ACCEPT", "REJECT"}
        /\ \E g \in {"accepted", "refused"} : server' = [server EXCEPT !.stage = g]
    BY <1>2
  <2> HIDE DEF j, k
  <2> QED
    BY <2>1, <2>2, AuthHeard
<1>3. CASE /\ N!HearsSub("AUTH", "CHALLENGE") /\ N!Says(<<N!Sub("AUTH", "RESPONSE", 0)>>)
           /\ server' = [server EXCEPT !.key = N!Heard.arg, !.stage = "keyed"]
  <2> DEFINE j == "RESPONSE"
             k == "CHALLENGE"
  <2>1. /\ N!Says(<<Step(j)>>) /\ j \in StepsIn /\ N!HearsSub("AUTH", k) /\ k = "CHALLENGE" /\ j = "RESPONSE"
    BY <1>3 DEF Step, StepsIn
  <2> HIDE DEF j, k
  <2> QED
    BY <1>3, <2>1, AuthHeard
<1> QED
  BY <1>1, <1>2, <1>3 DEF N!HearsAuth

-----------------------------------------------------------------------------
(* The server moves: it asks, or hears an answer *)

\* One direction of one option, that is not of the encryption.
MovesTo(o, d, x) ==
  /\ him' = IF d = "his" THEN [him EXCEPT ![o] = x] ELSE him
  /\ us'  = IF d = "his" THEN us ELSE [us EXCEPT ![o] = x]

LEMMA MovesOne ==
  ASSUME WireTyped, NEW o \in N!Option, NEW d \in Directions, NEW x \in {"no", "yes", "wantno", "wantyes"},
         MovesTo(o, d, x)
  PROVE  /\ State(o, d)' = x
         /\ \A p \in N!Option, e \in Directions : p # o \/ e # d => State(p, e)' = State(p, e)
         /\ us' \in [N!Option -> {"no", "yes", "wantno", "wantyes"}]
         /\ him' \in [N!Option -> {"no", "yes", "wantno", "wantyes"}]
         /\ o # "ENCRYPT" => us'["ENCRYPT"] = us["ENCRYPT"] /\ him'["ENCRYPT"] = him["ENCRYPT"]
         /\ o # "AUTH" \/ d # "his" => him'["AUTH"] = him["AUTH"]
<1>1. "ENCRYPT" \in N!Option /\ "AUTH" \in N!Option
  BY DEF N!Option
<1>2. /\ us \in [N!Option -> {"no", "yes", "wantno", "wantyes"}]
      /\ him \in [N!Option -> {"no", "yes", "wantno", "wantyes"}]
  BY DEF WireTyped
<1>3. CASE d = "his"
  BY <1>1, <1>2, <1>3 DEF MovesTo, State, Directions
<1>4. CASE d = "ours"
  BY <1>1, <1>2, <1>4 DEF MovesTo, State, Directions
<1> QED
  BY <1>3, <1>4 DEF Directions

LEMMA ServerMoves ==
  ASSUME WireTyped, NParts, refused' = FALSE, ProgramStays, server' = server,
         us' \in [N!Option -> {"no", "yes", "wantno", "wantyes"}],
         him' \in [N!Option -> {"no", "yes", "wantno", "wantyes"}],
         us'["ENCRYPT"] = us["ENCRYPT"], him'["ENCRYPT"] = him["ENCRYPT"],
         NEW h, h \notin EncryptMessages, h \notin Switches, Hear(h),
         NEW A, NEW a, \A b \in A \cup {a} : b \notin EncryptMessages /\ b \notin Switches, Speak(A, a)
  PROVE  WireTyped' /\ OfferedFirst' /\ InTurn' /\ Vectors' /\ Readable' /\ (Untouched => Untouched')
<1>1. Away(in, in', EncryptMessages) /\ Away(out, out', EncryptMessages)
  BY DEF Hear, Speak
<1>2. Untouched => Untouched'
  BY <1>1, UntouchedBeside DEF ProgramStays
<1>3. OfferedFirst' /\ InTurn' /\ Vectors'
  BY <1>1, EncryptingBeside DEF NParts, ProgramStays
<1>4. Readable'
  <2>1. N!ServerReading' = N!ServerReading /\ N!ServerCipher' = N!ServerCipher
    BY DEF N!ServerReading, N!ServerCipher, N!Plain
  <2> QED
    BY <2>1, ServerReadableBeside DEF NParts, ProgramStays
<1>5. WireTyped'
  BY TypedServerStep DEF WireTyped, ProgramStays, Hear, Speak
<1> QED
  BY <1>2, <1>3, <1>4, <1>5

LEMMA OptionsMoved ==
  ASSUME Options, eaten' = eaten, ProgramStays, NEW o \in N!Option, NEW d \in Directions, Told(o, d)',
         \A p, e : e \in Directions /\ (p # o \/ e # d) => Away(in, in', Asks(p, e)) /\ Away(out, out', Says(p, e)),
         \A p \in N!Option, e \in Directions : p # o \/ e # d => State(p, e)' = State(p, e),
         negotiation.crypt => ~Has(out', {Say("AUTH", "his", "no")}), ~negotiation.crypt => Untouched'
  PROVE  Options'
<1>1. ASSUME NEW p \in N!Option, NEW e \in Directions, p # o \/ e # d PROVE Told(p, e)'
  <2>1. State(p, e)' = State(p, e) /\ Held(p, e)' = Held(p, e) /\ Away(in, in', Asks(p, e)) /\ Away(out, out', Says(p, e))
    BY <1>1 DEF Held, ProgramStays
  <2> QED
    BY <2>1, ToldBeside DEF Options, ProgramStays
<1> QED
  BY <1>1 DEF Options, ProgramStays

LEMMA AskMessage ==
  ASSUME NEW o \in N!Option \ {"ENCRYPT"}, NEW d \in Directions, NEW q \in YesOrNo
  PROVE  /\ Ask(o, d, q) \in ToProgram /\ Ask(o, d, q) \notin AuthMessages
         /\ Ask(o, d, q) \notin EncryptMessages /\ Ask(o, d, q) \notin Switches
         /\ \A p, e : e \in Directions /\ (p # o \/ e # d) => Ask(o, d, q) \notin Asks(p, e)
<1>1. Ask(o, d, q) \in Asks(o, d)
  BY DEF Asks, YesOrNo
<1>2. Ask(o, d, q).opt = o /\ Ask(o, d, q).cmd # "SB"
  BY <1>1, KindsIs
<1>3. Ask(o, d, q) \in ToProgram
  BY ProgramGets DEF Ask
<1> QED
  BY <1>1, <1>2, <1>3, Plainly, AskApart

\* The server asks for q.
LEMMA AskStep ==
  ASSUME WireTyped, NParts, refused' = FALSE, eaten' = eaten, N!OfServer, out' = out, server' = server,
         NEW o \in N!Option \ {"ENCRYPT"}, NEW d \in Directions, NEW q \in YesOrNo, N!Says(<<Ask(o, d, q)>>),
         State(o, d) = (IF q = "yes" THEN "no" ELSE "yes"),
         MovesTo(o, d, IF q = "yes" THEN "wantyes" ELSE "wantno")
  PROVE  WireTyped' /\ NParts'
<1> DEFINE a == Ask(o, d, q)
           A == {a}
           x == IF q = "yes" THEN "wantyes" ELSE "wantno"
<1>1. ProgramStays
  BY DEF ProgramStays, N!OfServer, N!program, N!options, N!crypto
<1>2. /\ a \in ToProgram /\ a \notin AuthMessages /\ a \notin EncryptMessages /\ a \notin Switches
      /\ \A p, e : e \in Directions /\ (p # o \/ e # d) => a \notin Asks(p, e)
  BY AskMessage
<1>3. N!Says(<<a>>)
  OBVIOUS
<1>4. /\ x \in {"no", "yes", "wantno", "wantyes"} /\ MovesTo(o, d, x)
  OBVIOUS
<1> HIDE DEF x
<1>5. /\ State(o, d)' = x
      /\ \A p \in N!Option, e \in Directions : p # o \/ e # d => State(p, e)' = State(p, e)
      /\ us' \in [N!Option -> {"no", "yes", "wantno", "wantyes"}]
      /\ him' \in [N!Option -> {"no", "yes", "wantno", "wantyes"}]
      /\ us'["ENCRYPT"] = us["ENCRYPT"] /\ him'["ENCRYPT"] = him["ENCRYPT"]
      /\ o # "AUTH" \/ d # "his" => him'["AUTH"] = him["AUTH"]
  BY <1>4, MovesOne
<1>6. ServerSends(a) /\ Put(in, in', a)
  <2> HIDE DEF a
  <2> QED
    BY <1>2, <1>3, SayOne DEF ServerSends, Puts
<1>7. Told(o, d)'
  <2>1. Told(o, d)
    BY DEF NParts, Options
  <2>2. Put(in, in', Ask(o, d, q)) /\ State(o, d)' = (IF q = "yes" THEN "wantyes" ELSE "wantno")
    BY <1>5, <1>6 DEF x
  <2>3. o \in N!YesNo => Held(o, d)' = Held(o, d)
    BY <1>1 DEF Held, ProgramStays
  <2> QED
    BY <1>1, <2>1, <2>2, <2>3, ToldAsked DEF ProgramStays
<1> HIDE DEF a
<1>8. Speak(A, a) /\ \A b \in A \cup {a} : b \notin EncryptMessages /\ b \notin Switches
  BY <1>2, <1>6, SpeakOne
<1>9. /\ \A p, e : e \in Directions /\ (p # o \/ e # d) => Away(in, in', Asks(p, e)) /\ Away(out, out', Says(p, e))
      /\ Away(in, in', AuthMessages) /\ Away(out, out', AuthMessages)
  BY <1>2, <1>6, PutAway, SameAway
<1> HIDE DEF A
<1>10. WireTyped' /\ OfferedFirst' /\ InTurn' /\ Vectors' /\ Readable' /\ (Untouched => Untouched')
  <2>1. Hear(a)
    BY <1>2, HearNone
  <2> QED
    BY <1>1, <1>2, <1>5, <1>8, <2>1, ServerMoves
<1>11. Options'
  <2>1. negotiation.crypt => ~Has(out', {Say("AUTH", "his", "no")})
    BY DEF NParts, Options
  <2>2. ~negotiation.crypt => Untouched'
    BY <1>10 DEF NParts, Options
  <2> QED
    BY <1>1, <1>5, <1>7, <1>9, <2>1, <2>2, OptionsMoved DEF NParts
<1>12. Authenticating'
  <2>1. \/ him'["AUTH"] \in {"yes", "wantno"} /\ him["AUTH"] \in {"yes", "wantno"}
        \/ him'["AUTH"] \in {"no", "wantyes"} /\ him["AUTH"] \in {"no", "wantyes"}
    <3>1. CASE o = "AUTH" /\ d = "his"
      BY <1>5, <3>1 DEF State, x, YesOrNo
    <3>2. CASE ~(o = "AUTH" /\ d = "his")
      <4>1. him["AUTH"] \in {"no", "yes", "wantno", "wantyes"}
        BY DEF WireTyped, N!Option
      <4> QED
        BY <1>5, <3>2, <4>1
    <3> QED
      BY <3>1, <3>2
  <2> QED
    BY <1>1, <1>9, <1>10, <2>1, AuthenticatingMoved DEF NParts, ProgramStays
<1> QED
  BY <1>10, <1>11, <1>12 DEF NParts

LEMMA AskedFor ==
  ASSUME WireTyped, NEW ask \in negotiation.asks
  PROVE  ask[1] \in {"WILL", "WONT", "DO", "DONT"} /\ ask[2] \in N!Option \ {"ENCRYPT"}
<1>1. negotiation \in OptionSessions /\ OptionSessions \subseteq N!Session
  BY OptionsAssumption DEF WireTyped, N!NegotiationAssumption
<1>2. negotiation.asks \subseteq {"WILL", "WONT", "DO", "DONT"} \X N!Option
  BY <1>1 DEF N!Session
<1>3. ask[1] \in {"WILL", "WONT", "DO", "DONT"} /\ ask[2] \in N!Option
  BY <1>2
<1>4. ask[2] # "ENCRYPT"
  BY <1>1, EncryptionBehind
<1> QED
  BY <1>3, <1>4

LEMMA ServerAsksStep ==
  ASSUME WireTyped, NParts, refused' = FALSE, eaten' = eaten, N!ServerAsks
  PROVE  WireTyped' /\ NParts'
<1>1. PICK ask \in negotiation.asks :
        /\ N!Says(<<N!Cmd(ask[1], ask[2])>>)
        /\ \/ /\ ask[1] \in {"WILL", "WONT"} /\ us[ask[2]] = IF ask[1] = "WILL" THEN "no" ELSE "yes"
              /\ us' = [us EXCEPT ![ask[2]] = IF ask[1] = "WILL" THEN "wantyes" ELSE "wantno"]
              /\ UNCHANGED him
           \/ /\ ask[1] \in {"DO", "DONT"} /\ him[ask[2]] = IF ask[1] = "DO" THEN "no" ELSE "yes"
              /\ him' = [him EXCEPT ![ask[2]] = IF ask[1] = "DO" THEN "wantyes" ELSE "wantno"]
              /\ UNCHANGED us
  BY DEF N!ServerAsks
<1>2. N!OfServer /\ out' = out /\ server' = server
  BY DEF N!ServerAsks
<1> DEFINE c == ask[1]
           o == ask[2]
<1>3. c \in {"WILL", "WONT", "DO", "DONT"} /\ o \in N!Option \ {"ENCRYPT"}
  BY AskedFor
<1>4. /\ N!Says(<<N!Cmd(c, o)>>)
      /\ \/ /\ c \in {"WILL", "WONT"} /\ us[o] = IF c = "WILL" THEN "no" ELSE "yes"
            /\ us' = [us EXCEPT ![o] = IF c = "WILL" THEN "wantyes" ELSE "wantno"]
            /\ him' = him
         \/ /\ c \in {"DO", "DONT"} /\ him[o] = IF c = "DO" THEN "no" ELSE "yes"
            /\ him' = [him EXCEPT ![o] = IF c = "DO" THEN "wantyes" ELSE "wantno"]
            /\ us' = us
  BY <1>1
<1> HIDE DEF c, o
<1>5. PICK d \in Directions, q \in YesOrNo :
        /\ N!Cmd(c, o) = Ask(o, d, q)
        /\ d = (IF c \in {"DO", "DONT"} THEN "his" ELSE "ours")
        /\ q = (IF c \in {"DO", "WILL"} THEN "yes" ELSE "no")
  BY <1>3, CommandAsks
<1>6. /\ State(o, d) = (IF q = "yes" THEN "no" ELSE "yes")
      /\ MovesTo(o, d, IF q = "yes" THEN "wantyes" ELSE "wantno")
  <2>1. CASE c = "WILL"
    BY <1>4, <1>5, <2>1 DEF State, MovesTo
  <2>2. CASE c = "WONT"
    BY <1>4, <1>5, <2>2 DEF State, MovesTo
  <2>3. CASE c = "DO"
    BY <1>4, <1>5, <2>3 DEF State, MovesTo
  <2>4. CASE c = "DONT"
    BY <1>4, <1>5, <2>4 DEF State, MovesTo
  <2> QED
    BY <1>3, <2>1, <2>2, <2>3, <2>4
<1>7. N!Says(<<Ask(o, d, q)>>)
  BY <1>4, <1>5
<1> QED
  BY <1>2, <1>3, <1>6, <1>7, AskStep

\* An answer that the server has been waiting for.
LEMMA AnswerHeard ==
  ASSUME WireTyped, NParts, refused' = FALSE, eaten' = eaten, ProgramStays, server' = server,
         NEW o \in N!Option \ {"ENCRYPT"}, NEW d \in Directions, NEW r \in YesOrNo,
         Took(out, out', Say(o, d, r)), Hear(Say(o, d, r)), MovesTo(o, d, r),
         State(o, d) \in {"wantyes", "wantno"}, o = "AUTH" => State(o, d) = "wantyes",
         State(o, d)' = N!After(State(o, d), r = "yes", o),
         NEW a, a = (IF o = "AUTH" THEN Step("SEND") ELSE N!Sub("TTYPE", "SEND", 0)),
         NEW A, A = (IF d = "his" /\ r = "yes" /\ o \in {"TTYPE", "AUTH"} THEN {a} ELSE {}),
         A # {} => Put(in, in', a), Speak(A, a)
  PROVE  WireTyped' /\ NParts'
<1> DEFINE h == Say(o, d, r)
<1>0. h \in Says(o, d)
  BY DEF Says, YesOrNo
<1>1. h.cmd # "SB" /\ h.opt = o
  BY <1>0, KindsIs
<1>2. h \notin AuthMessages /\ h \notin EncryptMessages /\ h \notin Switches
  BY <1>1, Plainly
<1>3. a.cmd = "SB" /\ a.opt # "ENCRYPT" /\ (o # "AUTH" => a.opt = "TTYPE")
  <2>1. Step("SEND").cmd = "SB" /\ Step("SEND").opt = "AUTH"
    BY NamesIs
  <2>2. N!Sub("TTYPE", "SEND", 0).cmd = "SB" /\ N!Sub("TTYPE", "SEND", 0).opt = "TTYPE"
    BY SubIs
  <2> QED
    BY <2>1, <2>2
<1>4. \A b \in A \cup {a} : b \notin EncryptMessages /\ b \notin Switches
  BY <1>3, KindsIs
<1>5. ASSUME NEW p, NEW e \in Directions PROVE Away(in, in', Asks(p, e))
  <2>1. \A m \in Asks(p, e) : m.cmd # "SB"
    BY KindsIs
  <2>2. \A b \in A : b \notin Asks(p, e)
    BY <1>3, <2>1
  <2> QED
    BY <2>2 DEF Speak
<1>6. ASSUME NEW p, NEW e \in Directions, p # o \/ e # d PROVE Away(out, out', Says(p, e))
  <2>1. h \notin Says(p, e)
    BY <1>0, <1>6, AskApart
  <2> QED
    BY <2>1 DEF Hear
<1>7. /\ State(o, d)' = r
      /\ \A p \in N!Option, e \in Directions : p # o \/ e # d => State(p, e)' = State(p, e)
      /\ us' \in [N!Option -> {"no", "yes", "wantno", "wantyes"}]
      /\ him' \in [N!Option -> {"no", "yes", "wantno", "wantyes"}]
      /\ us'["ENCRYPT"] = us["ENCRYPT"] /\ him'["ENCRYPT"] = him["ENCRYPT"]
      /\ o # "AUTH" \/ d # "his" => him'["AUTH"] = him["AUTH"]
  BY MovesOne DEF YesOrNo
<1>8. Told(o, d)'
  <2>1. Told(o, d)
    BY DEF NParts, Options
  <2>2. o \in N!YesNo => Held(o, d)' = Held(o, d)
    BY DEF Held, ProgramStays
  <2> QED
    BY <1>5, <2>1, <2>2, ToldHeard DEF ProgramStays
<1>9. WireTyped' /\ OfferedFirst' /\ InTurn' /\ Vectors' /\ Readable' /\ (Untouched => Untouched')
  BY <1>2, <1>4, <1>7, ServerMoves
<1>10. Options'
  <2>1. negotiation.crypt => ~Has(out', {Say("AUTH", "his", "no")})
    BY DEF NParts, Options, Hear
  <2>2. ~negotiation.crypt => Untouched'
    BY <1>9 DEF NParts, Options
  <2> QED
    BY <1>5, <1>6, <1>7, <1>8, <2>1, <2>2, OptionsMoved DEF NParts
<1>11. Away(out, out', AuthMessages)
  BY <1>2 DEF Hear
<1>12. Authenticating'
  <2>1. CASE A = {} \/ o # "AUTH"
    <3>1. a \in A => a \notin AuthMessages
      BY <1>3, <2>1, KindsIs
    <3>2. Away(in, in', AuthMessages)
      BY <3>1 DEF Speak
    <3>3. \/ him'["AUTH"] \in {"yes", "wantno"} /\ him["AUTH"] \in {"yes", "wantno"}
          \/ him'["AUTH"] \in {"no", "wantyes"} /\ him["AUTH"] \in {"no", "wantyes"}
      <4>1. CASE o = "AUTH" /\ d = "his"
        <5>1. r = "no"
          BY <2>1, <4>1 DEF YesOrNo
        <5> QED
          BY <1>7, <4>1, <5>1 DEF State
      <4>2. CASE ~(o = "AUTH" /\ d = "his")
        <5>1. him["AUTH"] \in {"no", "yes", "wantno", "wantyes"}
          BY DEF WireTyped, N!Option
        <5> QED
          BY <1>7, <4>2, <5>1
      <4> QED
        BY <4>1, <4>2
    <3> QED
      BY <1>9, <1>11, <3>2, <3>3, AuthenticatingMoved DEF NParts, ProgramStays
  <2>2. CASE A # {} /\ o = "AUTH"
    <3>1. d = "his" /\ r = "yes" /\ a = Step("SEND") /\ Put(in, in', a)
      BY <2>2
    <3>2. him["AUTH"] = "wantyes" /\ him'["AUTH"] = "yes"
      BY <1>7, <2>2, <3>1 DEF State
    <3>3. enckey = 0 /\ server.key = 0 /\ ~Has(in, AuthIn) /\ ~Has(out, AuthOut) /\ Untouched
      BY <3>2 DEF NParts, Authenticating, Keyed
    <3>4. ~Has(in, {Step("RESPONSE")}) /\ Once(in, AuthIn)
      BY <3>3, AuthParts, HasWithin
    <3>5. Step("SEND") # Step("RESPONSE")
      <4>1. Step("SEND").kind = "SEND" /\ Step("RESPONSE").kind = "RESPONSE"
        BY NamesIs
      <4> QED
        BY <4>1
    <3>6. ~Has(in', {Step("RESPONSE")}) /\ Once(in', AuthIn)
      BY <3>1, <3>3, <3>4, <3>5 DEF Put
    <3>7. ~Has(out', AuthOut)
      BY <3>3 DEF Hear
    <3>8. ~Has(out', {Step("IS AUTH")}) /\ ~Has(out', {Challenge}) /\ Once(out', AuthOut)
      BY <3>7, AuthParts, HasWithin
    <3>9. enckey' = 0 /\ server'.key = 0 /\ Untouched'
      BY <1>9, <3>3 DEF ProgramStays
    <3> QED
      BY <3>2, <3>6, <3>7, <3>8, <3>9 DEF Authenticating
  <2> QED
    BY <2>1, <2>2
<1> QED
  BY <1>9, <1>10, <1>12 DEF NParts

LEMMA AnswersToOption ==
  ASSUME WireTyped, NParts, refused' = FALSE, eaten' = eaten, N!ServerAnswers, N!Heard.opt # "ENCRYPT"
  PROVE  WireTyped' /\ NParts'
<1>0. PICK h, c, o : h = N!Heard /\ c = h.cmd /\ o = h.opt
  OBVIOUS
<1>1. /\ out' \in Wire(ToServer) /\ h \in ToServer /\ Took(out, out', h) /\ Hear(h)
      /\ ProgramStays /\ server' = server
  <2>1. N!Hears /\ server' = server
    BY DEF N!ServerAnswers
  <2>2. out' \in Wire(ToServer) /\ h \in ToServer /\ Takes(out, out', h, N!ServerReading, Ours) /\ ProgramStays
    BY <1>0, <2>1, ServerTakes DEF ProgramStays
  <2>3. Took(out, out', h)
    BY <2>2 DEF Takes
  <2> QED
    BY <2>1, <2>2, <2>3, HearTakes
<1>2. c \in {"WILL", "WONT", "DO", "DONT"} /\ h = N!Cmd(c, o) /\ o \in N!Option \ {"ENCRYPT"}
  <2>1. h.cmd # "SB"
    BY <1>0 DEF N!ServerAnswers
  <2> QED
    BY <1>0, <1>1, <2>1, ServerReads
<1>3. PICK d \in Directions, r \in YesOrNo :
        /\ N!Cmd(c, o) = Say(o, d, r)
        /\ d = (IF c \in {"WILL", "WONT"} THEN "his" ELSE "ours")
        /\ r = (IF c \in {"DO", "WILL"} THEN "yes" ELSE "no")
  BY <1>2, CommandSays
<1>4. h = Say(o, d, r)
  BY <1>2, <1>3
<1>5. State(o, d) \in {"wantyes", "wantno"} /\ (o = "AUTH" => State(o, d) = "wantyes")
      /\ N!After(State(o, d), r = "yes", o) = r
  <2>1. Has(out, {Say(o, d, r)})
    BY <1>1, <1>4 DEF Took
  <2>2. Single(o, d)
    BY <1>2 DEF NParts, Options, Told
  <2>3. CASE r = "yes"
    <3>1. State(o, d) = "wantyes"
      BY <2>1, <2>2, <2>3 DEF Single
    <3> QED
      BY <2>3, <3>1 DEF N!After
  <2>4. CASE r = "no"
    <3>1. State(o, d) = IF o \in N!YesNo THEN "wantno" ELSE "wantyes"
      BY <2>1, <2>2, <2>4 DEF Single
    <3> QED
      BY <2>4, <3>1 DEF N!After, N!YesNo
  <2> QED
    BY <2>3, <2>4 DEF YesOrNo
<1> DEFINE his == c \in {"WILL", "WONT"}
           was == IF his THEN him[o] ELSE us[o]
           yes == c \in {"WILL", "DO"}
           now == N!After(was, yes, o)
           reply == IF ~N!Answered(was, yes) THEN <<>>
                    ELSE <<N!Cmd(IF his THEN IF now = "yes" THEN "DO" ELSE "DONT"
                                        ELSE IF now = "yes" THEN "WILL" ELSE "WONT", o)>>
<1>6. /\ him' = IF his THEN [him EXCEPT ![o] = now] ELSE him
      /\ us'  = IF his THEN us ELSE [us EXCEPT ![o] = now]
      /\ N!Says(reply \o (IF his THEN N!GoesOn(o, was, now) ELSE <<>>))
  BY <1>0 DEF N!ServerAnswers
<1>7. was = State(o, d) /\ yes = (r = "yes") /\ (his <=> d = "his")
  BY <1>3 DEF State
<1>8. now = r
  BY <1>5, <1>7
<1>9. reply = <<>>
  BY <1>5, <1>7 DEF N!Answered
<1> HIDE DEF now, reply, was, yes
<1>10. MovesTo(o, d, r)
  BY <1>6, <1>7, <1>8 DEF MovesTo
<1> DEFINE a == IF o = "AUTH" THEN Step("SEND") ELSE N!Sub("TTYPE", "SEND", 0)
           A == IF d = "his" /\ r = "yes" /\ o \in {"TTYPE", "AUTH"} THEN {a} ELSE {}
<1>11. a \in ToProgram /\ a \notin Switches
  <2>1. Step("SEND") \in ToProgram /\ N!Sub("TTYPE", "SEND", 0) \in ToProgram
    BY ProgramGets
  <2>2. \A m \in Switches : m.kind \in {"START", "END"}
    BY KindsIs
  <2>3. Step("SEND").kind = "SEND"
    BY NamesIs
  <2>4. N!Sub("TTYPE", "SEND", 0).kind = "SEND"
    BY SubIs
  <2> QED
    BY <2>1, <2>2, <2>3, <2>4
<1>12. N!Says(IF A = {} THEN <<>> ELSE <<a>>)
  <2>1. CASE d = "his" /\ r = "yes" /\ o \in {"TTYPE", "AUTH"}
    <3>1. N!GoesOn(o, was, now) = <<a>>
      BY <1>5, <1>7, <1>8, <2>1 DEF N!GoesOn, Step
    <3>2. reply \o N!GoesOn(o, was, now) = <<a>>
      BY <1>9, <3>1
    <3> QED
      BY <1>6, <1>7, <2>1, <3>2
  <2>2. CASE ~(d = "his" /\ r = "yes" /\ o \in {"TTYPE", "AUTH"})
    <3>1. his => N!GoesOn(o, was, now) = <<>>
      BY <1>2, <1>5, <1>7, <1>8, <2>2 DEF N!GoesOn, YesOrNo
    <3>2. reply \o (IF his THEN N!GoesOn(o, was, now) ELSE <<>>) = <<>>
      BY <1>9, <3>1
    <3> QED
      BY <1>6, <2>2, <3>2
  <2> QED
    BY <2>1, <2>2
<1>13. a = (IF o = "AUTH" THEN Step("SEND") ELSE N!Sub("TTYPE", "SEND", 0))
       /\ A = (IF d = "his" /\ r = "yes" /\ o \in {"TTYPE", "AUTH"} THEN {a} ELSE {})
       /\ (A = {} \/ A = {a})
  OBVIOUS
<1> HIDE DEF a, A
<1>14. Speak(A, a) /\ (A # {} => Put(in, in', a))
  <2>1. CASE A = {}
    BY <1>11, <1>12, <2>1, SayNone, SpeakNone
  <2>2. CASE A # {}
    <3>1. ServerSends(a) /\ A = {a}
      BY <1>11, <1>12, <1>13, <2>2, SayOne
    <3> QED
      BY <3>1, SpeakOne DEF ServerSends, Puts
  <2> QED
    BY <2>1, <2>2
<1>15. State(o, d)' = N!After(State(o, d), r = "yes", o)
  <2>1. State(o, d)' = r
    BY <1>2, <1>10, MovesOne DEF YesOrNo
  <2> QED
    BY <1>5, <2>1
<1>16. Took(out, out', Say(o, d, r)) /\ Hear(Say(o, d, r)) /\ ProgramStays /\ server' = server
  BY <1>1, <1>4
<1>17. o \in N!Option \ {"ENCRYPT"} /\ a = (IF o = "AUTH" THEN Step("SEND") ELSE N!Sub("TTYPE", "SEND", 0))
       /\ A = (IF d = "his" /\ r = "yes" /\ o \in {"TTYPE", "AUTH"} THEN {a} ELSE {})
  BY <1>2, <1>13
<1> QED
  BY <1>5, <1>10, <1>14, <1>15, <1>16, <1>17, AnswerHeard

-----------------------------------------------------------------------------
(* The server hears a command about encryption *)

LEMMA EncryptAnswered ==
  ASSUME WireTyped, NParts, refused' = FALSE, eaten' = eaten, ProgramStays, server' = server, Keyed,
         us' \in [N!Option -> {"no", "yes", "wantno", "wantyes"}],
         him' \in [N!Option -> {"no", "yes", "wantno", "wantyes"}],
         \A p \in N!Option \ {"ENCRYPT"} : us'[p] = us[p] /\ him'[p] = him[p],
         us'["ENCRYPT"] \in {"yes", "no"}, him'["ENCRYPT"] \in {"yes", "no"},
         NEW h, h.opt = "ENCRYPT", h.cmd # "SB", Hear(h), h \notin Switches,
         NEW A, \A b \in A : b.opt = "ENCRYPT" /\ (b.cmd # "SB" \/ b = Offer), NEW a, a \notin Switches, Speak(A, a),
         him'["ENCRYPT"] = "yes" => him["ENCRYPT"] = "yes" \/ Offer \in A,
         h = WillEncrypt => him'["ENCRYPT"] = "yes",
         WillEncrypt \in A => Has(out, {DoEncrypt}),
         Preceded(in, {Offer}, {DoEncrypt}) => Preceded(in', {Offer}, {DoEncrypt})
  PROVE  WireTyped' /\ NParts'
<1>1. /\ negotiation' = negotiation /\ open' = open /\ engine' = engine /\ encIV' = encIV /\ decIV' = decIV
      /\ encrypt' = encrypt /\ decrypt' = decrypt
  BY DEF ProgramStays
<1>2. OurVector' = OurVector /\ Offer' = Offer
  BY <1>1, SameSession
<1>3. /\ \A M : Has(out', M) => Has(out, M)
      /\ \A M : h \notin M /\ Has(out, M) => Has(out', M)
      /\ \A M, L : Preceded(out, M, L) /\ h \notin L => Preceded(out', M, L)
  BY DEF Hear
<1>4. /\ \A M : Has(in', M) <=> Has(in, M) \/ \E b \in A : b \in M
      /\ \A M, L : Preceded(in, M, L) /\ ((\E b \in A : b \in M) => Has(in, L)) => Preceded(in', M, L)
  BY DEF Speak
<1>5. (Opened => Opened') /\ (Sealed => Sealed') /\ (Offered => Offered')
  <2>1. Opened => Opened'
    BY <1>1 DEF Opened
  <2>2. Sealed => Sealed'
    BY <1>1, <1>2 DEF Sealed
  <2>3. Offered => Offered'
    BY <1>1, <1>2, <1>4 DEF Offered
  <2> QED
    BY <2>1, <2>2, <2>3
<1>6. h # OurIS
  BY NamesIs
<1>7. TheirIS \notin A /\ SubOf("REPLY") \notin A /\ SubOf("DEC_KEYID") \notin A /\ SubOf("ENC_KEYID") \notin A
      /\ SubOf("START") \notin A
  <2>1. TheirIS.cmd = "SB" /\ TheirIS # Offer
    BY NamesIs, SpokenIs
  <2>2. \A k \in SubsIn : SubOf(k).cmd = "SB" /\ SubOf(k) # Offer
    BY NamesIs, SpokenIs
  <2>3. \A k \in SubsIn : SubOf(k) \notin A
    BY <2>2
  <2> QED
    BY <2>1, <2>3 DEF SubsIn
<1>8. OfferedFirst'
  <2>1. him'["ENCRYPT"] = "yes" => Offered'
    <3>1. Offer \in A => Offered'
      BY <1>2, <1>4 DEF Offered
    <3> QED
      BY <1>5, <3>1 DEF NParts, OfferedFirst
  <2>2. Has(out', {DoEncrypt}) \/ Has(in', {WillEncrypt}) => Offered' \/ Has(out', {WillEncrypt})
    <3>1. SUFFICES ASSUME Has(out', {DoEncrypt}) \/ Has(in', {WillEncrypt}) PROVE Offered' \/ Has(out', {WillEncrypt})
      OBVIOUS
    <3>2. Has(out, {DoEncrypt}) \/ Has(in, {WillEncrypt})
      <4>1. Has(in', {WillEncrypt}) => Has(in, {WillEncrypt}) \/ WillEncrypt \in A
        BY <1>4
      <4> QED
        BY <1>3, <3>1, <4>1
    <3>3. Offered \/ Has(out, {WillEncrypt})
      BY <3>2 DEF NParts, OfferedFirst
    <3>4. h # WillEncrypt /\ Has(out, {WillEncrypt}) => Has(out', {WillEncrypt})
      BY <1>3
    <3> QED
      BY <1>5, <2>1, <3>3, <3>4
  <2>3. Offered' \/ Preceded(out', {N!sendSUPPORT}, {WillEncrypt})
    <3>1. h # WillEncrypt /\ Preceded(out, {N!sendSUPPORT}, {WillEncrypt}) => Preceded(out', {N!sendSUPPORT}, {WillEncrypt})
      BY <1>3
    <3> QED
      BY <1>5, <2>1, <3>1 DEF NParts, OfferedFirst
  <2> QED
    BY <2>1, <2>2, <2>3 DEF OfferedFirst
<1>9. InTurn'
  <2>1. engine' = 1 \/ Preceded(in', {Offer}', {DoEncrypt})
    BY <1>1, <1>2 DEF NParts, InTurn
  <2>2. encIV' = OurVector' \/ Preceded(in', {TheirIS}, {Offer}')
    BY <1>1, <1>2, <1>4, <1>7 DEF NParts, InTurn
  <2>3. server'.decIV = OurVector' \/ Preceded(out', {SubOf("REPLY")}, {OurIS})
    BY <1>2, <1>3, <1>6 DEF NParts, InTurn
  <2>4. open' /\ encIV' = OurVector' => server'.decIV = OurVector' \/ Has(out', {OurIS})
    BY <1>1, <1>2, <1>3, <1>6 DEF NParts, InTurn
  <2> QED
    BY <2>1, <2>2, <2>3, <2>4 DEF InTurn
<1>10. Vectors'
  <2>1. Has(out', {N!sendSUPPORT, OurIS}) \/ Has(in', {TheirIS}) => engine' = 1
    BY <1>1, <1>3, <1>4, <1>7 DEF NParts, Vectors
  <2>2. Has(out', {OurIS}) \/ server'.decIV = OurVector' => encIV' = OurVector'
    BY <1>1, <1>2, <1>3 DEF NParts, Vectors
  <2>3. Has(out', {OurIS}) => negotiation'.support
    BY <1>1, <1>3 DEF NParts, Vectors
  <2>4. Has(in', {TheirIS}) \/ decIV' = N!ServerIV => server'.encIV = N!ServerIV
    BY <1>1, <1>4, <1>7 DEF NParts, Vectors
  <2>5. Has(out', {SubOf("REPLY")}) => Opened' /\ encIV' = OurVector'
    BY <1>1, <1>2, <1>3, <1>5 DEF NParts, Vectors
  <2>6. Has(in', {SubOf("REPLY"), SubOf("DEC_KEYID")}) => Sealed'
    BY <1>4, <1>5, <1>7 DEF NParts, Vectors
  <2>7. Has(out', {SubOf("ENC_KEYID"), SubOf("START")}) => Sealed'
    BY <1>3, <1>5 DEF NParts, Vectors
  <2>8. encrypt' \/ server'.decrypt => Sealed'
    BY <1>1, <1>5 DEF NParts, Vectors
  <2>9. Has(in', {SubOf("ENC_KEYID"), SubOf("START")}) \/ Has(out', {SubOf("DEC_KEYID")}) => Opened' /\ Sealed'
    BY <1>3, <1>4, <1>5, <1>7 DEF NParts, Vectors
  <2>10. server'.ready \/ decrypt' => Opened' /\ Sealed'
    BY <1>1, <1>5 DEF NParts, Vectors
  <2>11. server'.encrypt \/ server'.stage \in {"stopped", "restarted"} => server'.ready
    BY DEF NParts, Vectors
  <2> QED
    BY <2>1, <2>2, <2>3, <2>4, <2>5, <2>6, <2>7, <2>8, <2>9, <2>10, <2>11 DEF Vectors
<1>11. Readable'
  <2>1. N!ServerReading' = N!ServerReading /\ N!ServerCipher' = N!ServerCipher
    BY DEF N!ServerReading, N!ServerCipher, N!Plain
  <2> QED
    BY <1>1, <2>1, ServerReadableBeside DEF NParts
<1>12. Authenticating' /\ Options'
  <2>1. \A b \in A : b.opt = "ENCRYPT"
    OBVIOUS
  <2>2. server'.key = server.key
    OBVIOUS
  <2> QED
    BY <2>1, <2>2, ServerAside
<1>13. WireTyped'
  BY TypedServerStep DEF WireTyped, ProgramStays, Hear, Speak
<1> QED
  BY <1>8, <1>9, <1>10, <1>11, <1>12, <1>13 DEF NParts

LEMMA KeyedCrypt == ASSUME NParts, Keyed PROVE negotiation.crypt
<1>1. SUFFICES ASSUME ~negotiation.crypt PROVE FALSE
  OBVIOUS
<1>2. Strange("AUTH") /\ "AUTH" \in N!Option /\ "his" \in Directions
  BY <1>1 DEF Strange, N!Option, Directions
<1>3. Refusing("AUTH", "his")
  BY <1>2 DEF NParts, Options, Told
<1> QED
  BY <1>3 DEF Refusing, State, Keyed

LEMMA Joined == ASSUME NEW x, NEW y PROVE <<x>> \o <<>> = <<x>> /\ <<x>> \o <<y>> = <<x, y>>
<1> DEFINE S == {x, y}
           s == <<x>> \o <<y>>
           t == <<x, y>>
<1>1. x \in S /\ y \in S
  OBVIOUS
<1> HIDE DEF S
<1>2. <<x>> \in Seq(S) /\ t \in Seq(S) /\ Len(t) = 2 /\ t[1] = x /\ t[2] = y
  BY <1>1
<1>3. s \in Seq(S) /\ Len(s) = 2 /\ s[1] = x /\ s[2] = y
  BY <1>1
<1> HIDE DEF s, t
<1>4. s = t
  BY <1>2, <1>3, SeqEqual
<1>5. <<x>> \o <<>> = <<x>>
  BY <1>2, ConcatEmptySeq
<1> QED
  BY <1>4, <1>5 DEF s, t

LEMMA AnswersToEncryption ==
  ASSUME WireTyped, NParts, refused' = FALSE, eaten' = eaten, N!ServerAnswers, N!Heard.opt = "ENCRYPT"
  PROVE  WireTyped' /\ NParts'
<1>0. PICK h, c, o : h = N!Heard /\ c = h.cmd /\ o = h.opt
  OBVIOUS
<1>1. /\ out' \in Wire(ToServer) /\ h \in ToServer /\ Took(out, out', h) /\ Hear(h)
      /\ ProgramStays /\ server' = server
  <2>1. N!Hears /\ server' = server
    BY DEF N!ServerAnswers
  <2>2. out' \in Wire(ToServer) /\ h \in ToServer /\ Takes(out, out', h, N!ServerReading, Ours) /\ ProgramStays
    BY <1>0, <2>1, ServerTakes DEF ProgramStays
  <2>3. Took(out, out', h)
    BY <2>2 DEF Takes
  <2> QED
    BY <2>1, <2>2, <2>3, HearTakes
<1>2. c \in {"WILL", "WONT", "DO", "DONT"} /\ h = N!Cmd(c, o) /\ o = "ENCRYPT" /\ o \in N!Option
  <2>1. h.cmd # "SB"
    BY <1>0 DEF N!ServerAnswers
  <2> QED
    BY <1>0, <1>1, <2>1, ServerReads
<1>3. PICK d \in Directions, r \in YesOrNo :
        /\ N!Cmd(c, o) = Say(o, d, r)
        /\ d = (IF c \in {"WILL", "WONT"} THEN "his" ELSE "ours")
        /\ r = (IF c \in {"DO", "WILL"} THEN "yes" ELSE "no")
  BY <1>2, CommandSays
<1>4. Has(out, {h})
  BY <1>1 DEF Took
<1>5. h.opt = "ENCRYPT" /\ h.cmd # "SB" /\ h \notin Switches /\ h \in EncryptOut
  <2>1. h.opt = "ENCRYPT" /\ h.cmd # "SB"
    BY <1>0, <1>2
  <2> QED
    BY <1>1, <2>1, KindsIs DEF EncryptOut
<1>6. Keyed /\ negotiation.crypt
  <2>1. Has(out, EncryptOut)
    BY <1>1, <1>5 DEF Took
  <2>2. Keyed
    BY <2>1 DEF NParts, Authenticating, Untouched
  <2> QED
    BY <2>2, KeyedCrypt
<1>7. State(o, d) \in {"yes", "no"}
  BY <1>2, EncryptHeld DEF State
<1>8. N!After(State(o, d), r = "yes", o) = r
  BY <1>2, <1>6, <1>7 DEF N!After, N!Acceptable, YesOrNo
<1> DEFINE his == c \in {"WILL", "WONT"}
           was == IF his THEN him[o] ELSE us[o]
           yes == c \in {"WILL", "DO"}
           now == N!After(was, yes, o)
           reply == IF ~N!Answered(was, yes) THEN <<>>
                    ELSE <<N!Cmd(IF his THEN IF now = "yes" THEN "DO" ELSE "DONT"
                                        ELSE IF now = "yes" THEN "WILL" ELSE "WONT", o)>>
<1>9. /\ him' = IF his THEN [him EXCEPT ![o] = now] ELSE him
      /\ us'  = IF his THEN us ELSE [us EXCEPT ![o] = now]
      /\ N!Says(reply \o (IF his THEN N!GoesOn(o, was, now) ELSE <<>>))
  BY <1>0 DEF N!ServerAnswers
<1>10. was = State(o, d) /\ yes = (r = "yes") /\ (his <=> d = "his")
  BY <1>3 DEF State
<1>11. now = r
  BY <1>8, <1>10
<1>12. reply = IF State(o, d) = r THEN <<>> ELSE <<Ask(o, d, r)>>
  <2>1. N!Answered(was, yes) <=> State(o, d) # r
    BY <1>7, <1>10 DEF N!Answered, YesOrNo
  <2>2. <<N!Cmd(IF his THEN IF now = "yes" THEN "DO" ELSE "DONT"
                       ELSE IF now = "yes" THEN "WILL" ELSE "WONT", o)>> = <<Ask(o, d, r)>>
    BY <1>10, <1>11 DEF Ask
  <2> QED
    BY <2>1, <2>2
<1> HIDE DEF now, reply, was, yes, his
<1>13. MovesTo(o, d, r)
  BY <1>9, <1>10, <1>11 DEF MovesTo
<1>14. /\ State(o, d)' = r
       /\ \A p \in N!Option, e \in Directions : p # o \/ e # d => State(p, e)' = State(p, e)
       /\ us' \in [N!Option -> {"no", "yes", "wantno", "wantyes"}]
       /\ him' \in [N!Option -> {"no", "yes", "wantno", "wantyes"}]
  BY <1>2, <1>13, MovesOne DEF YesOrNo
<1>15. /\ \A p \in N!Option \ {"ENCRYPT"} : us'[p] = us[p] /\ him'[p] = him[p]
       /\ us'["ENCRYPT"] \in {"yes", "no"} /\ him'["ENCRYPT"] \in {"yes", "no"}
  <2>1. us["ENCRYPT"] \in {"yes", "no"} /\ him["ENCRYPT"] \in {"yes", "no"}
    BY EncryptHeld
  <2>2. us \in [N!Option -> {"no", "yes", "wantno", "wantyes"}] /\ him \in [N!Option -> {"no", "yes", "wantno", "wantyes"}]
    BY DEF WireTyped
  <2>3. CASE d = "his"
    BY <1>2, <1>13, <2>1, <2>2, <2>3 DEF MovesTo, YesOrNo
  <2>4. CASE d = "ours"
    BY <1>2, <1>13, <2>1, <2>2, <2>4 DEF MovesTo, YesOrNo
  <2> QED
    BY <2>3, <2>4 DEF Directions
<1>16. /\ d = "ours" => him'["ENCRYPT"] = him["ENCRYPT"]
       /\ d = "his" => him'["ENCRYPT"] = r /\ him["ENCRYPT"] = State(o, d)
  BY <1>2, <1>13, <1>14 DEF MovesTo, State
<1>17. h = WillEncrypt => d = "his" /\ r = "yes"
  <2>1. WillEncrypt.cmd = "WILL"
    BY NamesIs
  <2> QED
    BY <1>0, <1>3, <2>1
<1>18. h = WillEncrypt => him'["ENCRYPT"] = "yes"
  BY <1>16, <1>17
<1>19. CASE State(o, d) = r
  <2>1. in' = in
    <3>1. his => N!GoesOn(o, was, now) = <<>>
      BY <1>10, <1>11, <1>19 DEF N!GoesOn
    <3>2. reply \o (IF his THEN N!GoesOn(o, was, now) ELSE <<>>) = <<>>
      BY <1>12, <1>19, <3>1
    <3>3. N!Says(<<>>)
      BY <1>9, <3>2
    <3> QED
      BY <3>3, SayNone
  <2> DEFINE a == DoEncrypt
             A == {}
  <2>2. a \notin Switches
    BY SentTyped
  <2> HIDE DEF a
  <2>3. Speak(A, a)
    BY <2>1, <2>2, SpeakNone
  <2>4. \A m : m \notin A
    OBVIOUS
  <2> HIDE DEF A
  <2>5. him'["ENCRYPT"] = "yes" => him["ENCRYPT"] = "yes"
    BY <1>16, <1>19 DEF Directions
  <2>6. Preceded(in, {Offer}, {DoEncrypt}) => Preceded(in', {Offer}, {DoEncrypt})
    BY <2>1
  <2> QED
    BY <1>1, <1>5, <1>6, <1>14, <1>15, <1>18, <2>2, <2>3, <2>4, <2>5, <2>6, EncryptAnswered
<1>20. CASE State(o, d) # r /\ d = "his" /\ r = "yes"
  <2>1. N!Says(<<DoEncrypt, Offer>>)
    <3>1. Ask(o, d, r) = DoEncrypt
      BY <1>2, <1>20 DEF Ask, DoEncrypt
    <3>2. N!GoesOn(o, was, now) = <<Offer>>
      BY <1>2, <1>10, <1>11, <1>20 DEF N!GoesOn, Offer
    <3>3. reply \o (IF his THEN N!GoesOn(o, was, now) ELSE <<>>) = <<DoEncrypt, Offer>>
      <4>1. reply = <<DoEncrypt>> /\ (IF his THEN N!GoesOn(o, was, now) ELSE <<>>) = <<Offer>>
        BY <1>10, <1>12, <1>20, <3>1, <3>2
      <4> QED
        BY <4>1, Joined
    <3> QED
      BY <1>9, <3>3
  <2>2. /\ DoEncrypt \in ToProgram /\ Offer \in ToProgram /\ DoEncrypt \notin Switches /\ Offer \notin Switches
        /\ DoEncrypt.opt = "ENCRYPT" /\ DoEncrypt.cmd # "SB" /\ Offer.opt = "ENCRYPT"
        /\ DoEncrypt # WillEncrypt /\ Offer # WillEncrypt /\ DoEncrypt # Offer
    <3>1. /\ DoEncrypt.opt = "ENCRYPT" /\ DoEncrypt.cmd = "DO" /\ Offer.opt = "ENCRYPT" /\ Offer.cmd = "SB"
          /\ WillEncrypt.cmd = "WILL"
      BY NamesIs
    <3> QED
      BY <3>1, ProgramGets, SpokenIs, SentTyped
  <2>3. ServerSendsTwo(DoEncrypt, Offer)
    BY <2>1, <2>2, SayTwo
  <2>4. Speak({DoEncrypt, Offer}, Offer)
    BY <2>2, <2>3, SpeakTwo
  <2>5. Preceded(in, {Offer}, {DoEncrypt}) => Preceded(in', {Offer}, {DoEncrypt})
    <3>1. SUFFICES ASSUME Preceded(in, {Offer}, {DoEncrypt}) PROVE Preceded(in', {Offer}, {DoEncrypt})
      OBVIOUS
    <3>2. PICK u : Put(in, u, DoEncrypt) /\ Put(u, in', Offer)
      BY <2>3 DEF ServerSendsTwo, Puts
    <3>3. Preceded(u, {Offer}, {DoEncrypt}) /\ Has(u, {DoEncrypt})
      BY <2>2, <3>1, <3>2 DEF Put
    <3> QED
      BY <3>2, <3>3 DEF Put
  <2> DEFINE A == {DoEncrypt, Offer}
  <2>6. /\ \A b \in A : b.opt = "ENCRYPT" /\ (b.cmd # "SB" \/ b = Offer)
        /\ Offer \in A /\ WillEncrypt \notin A /\ Speak(A, Offer)
    BY <2>2, <2>4
  <2> HIDE DEF A
  <2> QED
    BY <1>1, <1>5, <1>6, <1>14, <1>15, <1>18, <2>2, <2>5, <2>6, EncryptAnswered
<1>21. CASE State(o, d) # r /\ ~(d = "his" /\ r = "yes")
  <2> DEFINE a == Ask(o, d, r)
             A == {a}
  <2>1. N!Says(<<a>>)
    <3>1. his => N!GoesOn(o, was, now) = <<>>
      BY <1>10, <1>11, <1>21 DEF N!GoesOn
    <3>2. reply \o (IF his THEN N!GoesOn(o, was, now) ELSE <<>>) = <<a>>
      <4>1. reply = <<a>> /\ (IF his THEN N!GoesOn(o, was, now) ELSE <<>>) = <<>>
        BY <1>12, <1>21, <3>1
      <4> HIDE DEF a
      <4> QED
        BY <4>1, Joined
    <3> QED
      BY <1>9, <3>2
  <2>2. a.opt = "ENCRYPT" /\ a.cmd # "SB" /\ a \in ToProgram
    <3>1. a \in Asks(o, d)
      BY DEF Asks, YesOrNo
    <3>2. a \in ToProgram
      BY <1>2, ProgramGets DEF Ask
    <3> QED
      BY <1>2, <3>1, <3>2, KindsIs
  <2>3. a = WillEncrypt => h = DoEncrypt
    <3>1. SUFFICES ASSUME a = WillEncrypt PROVE h = DoEncrypt
      OBVIOUS
    <3>2. a.cmd = "WILL"
      BY <3>1, NamesIs
    <3>3. a.cmd = (IF d = "his" THEN IF r = "yes" THEN "DO" ELSE "DONT" ELSE IF r = "yes" THEN "WILL" ELSE "WONT")
      BY CmdIs DEF Ask
    <3>4. d = "ours" /\ r = "yes"
      BY <3>2, <3>3 DEF Directions, YesOrNo
    <3> QED
      BY <1>2, <1>3, <3>4 DEF Say, DoEncrypt
  <2> HIDE DEF a
  <2>4. ServerSends(a)
    BY <2>1, <2>2, SayOne
  <2>5. a \notin Switches /\ a # Offer
    <3>1. Offer.cmd = "SB"
      BY NamesIs
    <3> QED
      BY <2>2, <3>1, KindsIs
  <2>6. Preceded(in, {Offer}, {DoEncrypt}) => Preceded(in', {Offer}, {DoEncrypt})
    BY <2>4, <2>5 DEF ServerSends, Puts, Put
  <2>7. /\ \A b \in A : b.opt = "ENCRYPT" /\ (b.cmd # "SB" \/ b = Offer)
        /\ Speak(A, a) /\ (WillEncrypt \in A => Has(out, {DoEncrypt}))
    BY <1>4, <2>2, <2>3, <2>4, SpeakOne
  <2> HIDE DEF A
  <2>8. him'["ENCRYPT"] = "yes" => him["ENCRYPT"] = "yes"
    BY <1>16, <1>21 DEF Directions
  <2> QED
    BY <1>1, <1>5, <1>6, <1>14, <1>15, <1>18, <2>5, <2>6, <2>7, <2>8, EncryptAnswered
<1> QED
  BY <1>19, <1>20, <1>21

LEMMA ServerAnswersStep == ASSUME WireTyped, NParts, refused' = FALSE, eaten' = eaten, N!ServerAnswers PROVE WireTyped' /\ NParts'
<1>1. CASE N!Heard.opt = "ENCRYPT"
  BY <1>1, AnswersToEncryption
<1>2. CASE N!Heard.opt # "ENCRYPT"
  BY <1>2, AnswersToOption
<1> QED
  BY <1>1, <1>2

LEMMA ServerStep == ASSUME WireTyped, NParts, refused' = FALSE, eaten' = eaten, N!Server PROVE WireTyped' /\ NParts'
<1>1. CASE N!ServerAnswers
  BY <1>1, ServerAnswersStep
<1>2. CASE N!HearsData
  BY <1>2, HearsDataStep
<1>3. CASE N!HearsAuth
  BY <1>3, HearsAuthStep
<1>4. CASE N!HearsEncrypt
  BY <1>4, HearsEncryptStep
<1>5. CASE N!ServerRestarts
  BY <1>5, ServerRestartsStep
<1> QED
  BY <1>1, <1>2, <1>3, <1>4, <1>5 DEF N!Server

\* No other step has a command lose its IAC.
LEMMA EatenKept == ASSUME N!Next PROVE N!NegotiateSendOn \/ eaten' = eaten
<1>1. \A o : N!Receives(o) => eaten' = eaten
  BY DEF N!Receives
<1>2. N!OfServer => eaten' = eaten
  BY DEF N!OfServer
<1>3. \A c, k : N!Auth(c, k) \/ N!Encrypt(c, k) => eaten' = eaten
  BY <1>1 DEF N!Auth, N!Encrypt
<1>4. \A o, k : N!HearsSub(o, k) => eaten' = eaten
  BY <1>2 DEF N!HearsSub, N!Hears
<1>5. CASE N!Program
  <2>1. CASE N!AuthOption
    BY <1>3, <2>1 DEF N!AuthOption, N!AuthDo, N!AuthIgnores, N!NegotiateSend, N!Rejected, N!Accepted, N!Response
  <2>2. CASE N!EncryptOption
    BY <1>3, <2>2 DEF N!EncryptOption, N!EncryptDo, N!EncryptWill, N!EncryptRefused, N!Support, N!Is, N!Reply,
       N!EncKeyId, N!DecKeyId, N!RequestStart, N!RequestEnd, N!Start, N!End
  <2> QED
    BY <1>1, <1>5, <2>1, <2>2 DEF N!Program, N!YesNoOption, N!DenyAllOption, N!TTOption, N!WinSizeOption
<1>6. CASE N!Server
  BY <1>2, <1>4, <1>6 DEF N!Server, N!ServerAnswers, N!Hears, N!HearsData, N!HearsAuth, N!HearsEncrypt, N!ServerRestarts
<1>7. CASE N!ServerAsks \/ N!ServerStops
  BY <1>2, <1>7 DEF N!ServerAsks, N!ServerStops
<1>8. CASE N!Resize
  BY <1>8 DEF N!Resize
<1> QED
  BY <1>5, <1>6, <1>7, <1>8 DEF N!Next

LEMMA OptionsStep ==
  ASSUME WireTyped, NParts, refused' = FALSE, N!Next
  PROVE  WireTyped' /\ NParts'
<1>0. CASE N!NegotiateSendOn
  BY <1>0, NegotiateSendOnStep
<1>1. CASE N!Program /\ eaten' = eaten
  BY <1>1, ProgramStep
<1>2. CASE N!Server /\ eaten' = eaten
  BY <1>2, ServerStep
<1>3. CASE N!ServerAsks /\ eaten' = eaten
  BY <1>3, ServerAsksStep
<1>4. CASE N!ServerStops /\ eaten' = eaten
  BY <1>4, ServerStopsStep
<1>5. CASE N!Resize /\ eaten' = eaten
  BY <1>5, ResizeStep
<1> QED
  BY <1>0, <1>1, <1>2, <1>3, <1>4, <1>5, EatenKept DEF N!Next

-----------------------------------------------------------------------------
(* The whole negotiation *)

Refuses == refused' = refused \/ refused' = TRUE

LEMMA ReplyRefuses == ASSUME NEW msgs, N!SendReply(msgs) PROVE Refuses
BY DEF N!SendReply, Refuses

LEMMA StepRefuses == N!Next => Refuses
<1>1. ASSUME N!Program PROVE Refuses
  <2>1. CASE \E o \in N!Option : N!YesNoOption(o) \/ N!DenyAllOption(o)
    BY <2>1, ReplyRefuses DEF N!YesNoOption, N!DenyAllOption
  <2>2. CASE N!TTOption
    BY <2>2, ReplyRefuses DEF N!TTOption
  <2>3. CASE N!WinSizeOption
    BY <2>3, ReplyRefuses DEF N!WinSizeOption
  <2>4. CASE N!AuthOption
    <3>1. CASE N!AuthDo
      BY <3>1, ReplyRefuses DEF N!AuthDo
    <3>2. CASE N!AuthIgnores
      BY <3>2 DEF N!AuthIgnores, N!NoReply, Refuses
    <3>3. CASE N!NegotiateSend
      <4>1. N!NoReply => Refuses
        BY DEF N!NoReply, Refuses
      <4> QED
        BY <3>3, <4>1, ReplyRefuses DEF N!NegotiateSend
    <3>3a. CASE N!NegotiateSendOn
      BY <3>3a, ReplyRefuses DEF N!NegotiateSendOn
    <3>4. CASE N!Rejected
      BY <3>4 DEF N!Rejected, N!NoReply, Refuses
    <3>5. CASE N!Accepted
      BY <3>5, ReplyRefuses DEF N!Accepted
    <3>6. CASE N!Response
      BY <3>6, ReplyRefuses DEF N!Response
    <3> QED
      BY <2>4, <3>1, <3>2, <3>3, <3>3a, <3>4, <3>5, <3>6 DEF N!AuthOption
  <2>5. CASE N!EncryptOption
    <3>1. CASE N!EncryptDo
      BY <3>1, ReplyRefuses DEF N!EncryptDo
    <3>2. CASE N!EncryptWill
      BY <3>2, ReplyRefuses DEF N!EncryptWill
    <3>3. CASE N!EncryptRefused
      BY <3>3, ReplyRefuses DEF N!EncryptRefused
    <3>4. CASE N!Support
      BY <3>4, ReplyRefuses DEF N!Support, N!sendIS
    <3>5. CASE N!Is
      BY <3>5, ReplyRefuses DEF N!Is
    <3>6. CASE N!Reply
      BY <3>6, ReplyRefuses DEF N!Reply
    <3>7. CASE N!EncKeyId
      BY <3>7, ReplyRefuses DEF N!EncKeyId
    <3>8. CASE N!DecKeyId
      BY <3>8, ReplyRefuses DEF N!DecKeyId, N!sendSTART
    <3>9. CASE N!RequestStart \/ N!End
      BY <3>9 DEF N!RequestStart, N!End, N!NoReply, Refuses
    <3>10. CASE N!RequestEnd
      BY <3>10, ReplyRefuses DEF N!RequestEnd, N!sendEND
    <3>11. CASE N!Start
      BY <3>11, ReplyRefuses DEF N!Start, N!sendSTART
    <3> QED
      BY <2>5, <3>1, <3>2, <3>3, <3>4, <3>5, <3>6, <3>7, <3>8, <3>9, <3>10, <3>11 DEF N!EncryptOption
  <2> QED
    BY <1>1, <2>1, <2>2, <2>3, <2>4, <2>5 DEF N!Program
<1>2. ASSUME N!OfServer PROVE Refuses
  BY <1>2 DEF N!OfServer, Refuses
<1>3. N!Hears => Refuses
  BY <1>2 DEF N!Hears
<1>4. \A o, k : N!HearsSub(o, k) => Refuses
  BY <1>3 DEF N!HearsSub
<1>5. ASSUME N!Server PROVE Refuses
  <2>1. CASE N!ServerAnswers
    BY <1>3, <2>1 DEF N!ServerAnswers
  <2>2. CASE N!HearsData
    BY <1>4, <2>2 DEF N!HearsData
  <2>3. CASE N!HearsAuth
    BY <1>4, <2>3 DEF N!HearsAuth
  <2>4. CASE N!HearsEncrypt
    BY <1>4, <2>4 DEF N!HearsEncrypt
  <2>5. CASE N!ServerRestarts
    BY <1>2, <2>5 DEF N!ServerRestarts
  <2> QED
    BY <1>5, <2>1, <2>2, <2>3, <2>4, <2>5 DEF N!Server
<1>6. N!ServerAsks \/ N!ServerStops => Refuses
  BY <1>2 DEF N!ServerAsks, N!ServerStops
<1>7. N!Resize => Refuses
  BY ReplyRefuses DEF N!Resize
<1> QED
  BY <1>1, <1>5, <1>6, <1>7 DEF N!Next

LEMMA NInvNext == NInv /\ N!Next => NInv'
<1> SUFFICES ASSUME NInv, N!Next PROVE NInv'
  OBVIOUS
<1>1. refused' = refused \/ refused' = TRUE
  BY StepRefuses DEF Refuses
<1>2. CASE refused = TRUE
  BY <1>1, <1>2 DEF NInv
<1>3. CASE WireTyped /\ NParts
  <2>1. refused = FALSE
    BY <1>3 DEF WireTyped
  <2>2. CASE refused' = FALSE
    BY <1>3, <2>2, OptionsStep DEF NInv
  <2>3. CASE refused' = TRUE
    BY <2>3 DEF NInv
  <2> QED
    BY <1>1, <2>1, <2>2, <2>3
<1> QED
  BY <1>2, <1>3 DEF NInv

\* The other grains of the program leave it as it is.
LEMMA NInvKept == NInv /\ UNCHANGED nvars => NInv'
<1> SUFFICES ASSUME NInv, UNCHANGED nvars PROVE NInv'
  OBVIOUS
<1> USE DEF nvars
<1>1. OurVector' = OurVector /\ Offer' = Offer /\ Ours' = Ours /\ ToProgram' = ToProgram /\ EncryptIn' = EncryptIn
  BY SameSession
<1>2. CASE refused = TRUE
  BY <1>2 DEF NInv
<1>3. CASE WireTyped /\ NParts
  <2>1. WireTyped'
    BY <1>1, <1>3 DEF WireTyped
  <2>2. Untouched' = Untouched
    BY <1>1 DEF Untouched
  <2>3. Authenticating'
    BY <1>3, <2>2 DEF NParts, Authenticating, Keyed
  <2>4. OfferedFirst' /\ InTurn' /\ Vectors'
    <3>1. Away(in, in', EncryptMessages) /\ Away(out, out', EncryptMessages)
      BY SameAway
    <3> QED
      BY <1>3, <3>1, EncryptingBeside DEF NParts
  <2>5. Readable'
    BY <1>1, <1>3 DEF NParts, Readable, N!OurReading, N!ServerReading, N!OurCipher, N!ServerCipher
  <2>6. Options'
    <3>1. \A p, e : e \in Directions /\ p # "ENCRYPT" => Away(in, in', Asks(p, e)) /\ Away(out, out', Says(p, e))
      BY SameAway
    <3>2. us'["ENCRYPT"] \in {"yes", "no"} /\ him'["ENCRYPT"] \in {"yes", "no"}
      BY <1>3, EncryptHeld
    <3> QED
      BY <1>3, <2>2, <3>1, <3>2, OptionsBeside DEF NParts, Options
  <2> QED
    BY <2>1, <2>3, <2>4, <2>5, <2>6 DEF NInv, NParts
<1> QED
  BY <1>2, <1>3 DEF NInv

LEMMA NInvInit == N!Init => NInv
<1> SUFFICES ASSUME N!Init PROVE WireTyped /\ NParts
  BY DEF NInv
<1> USE DEF N!Init
<1>1. in = <<>> /\ out = <<>> /\ Len(in) = 0 /\ Len(out) = 0
  OBVIOUS
<1>2. ASSUME NEW M PROVE ~Has(in, M) /\ ~Has(out, M) /\ Once(in, M) /\ Once(out, M)
  BY <1>1 DEF Has, Once
<1>3. ASSUME NEW M, NEW L PROVE Preceded(in, M, L) /\ Preceded(out, M, L)
  BY <1>1 DEF Preceded
<1>4. WireTyped
  <2>1. negotiation \in OptionSessions /\ OptionSessions \subseteq N!Session
    BY OptionsAssumption DEF N!NegotiationAssumption
  <2>2. negotiation.memory \in BOOLEAN
    BY <2>1 DEF N!Session
  <2>3. in \in Wire(ToProgram) /\ out \in Wire(ToServer)
    BY <1>1 DEF Wire
  <2> QED
    BY <2>1, <2>2, <2>3 DEF WireTyped, N!NoEngine
<1>5. Untouched
  BY <1>2 DEF Untouched, N!Option
<1>6. Authenticating
  BY <1>2, <1>5 DEF Authenticating
<1>7. OfferedFirst
  BY <1>2, <1>3 DEF OfferedFirst, N!Option
<1>8. InTurn
  <2>1. encIV = OurVector => server.decIV = OurVector
    OBVIOUS
  <2> QED
    BY <1>3, <2>1 DEF InTurn
<1>9. Vectors
  <2>1. server.decIV = OurVector => encIV = OurVector
    OBVIOUS
  <2>2. decIV # N!ServerIV
    BY DEF N!ServerIV
  <2> QED
    BY <1>2, <2>1, <2>2 DEF Vectors
<1>10. Readable
  BY <1>1 DEF Readable, Chained, N!OurReading, N!ServerReading, N!OurCipher, N!ServerCipher
<1>11. Options
  <2>1. ASSUME NEW o \in N!Option, NEW d \in Directions PROVE Told(o, d)
    <3>1. State(o, d) = "no"
      BY DEF State
    <3>2. Single(o, d) /\ Answering(o, d) /\ Refusing(o, d) /\ ~Waiting(o, d)
      BY <1>2, <3>1 DEF Single, Answering, Refusing, Waiting
    <3>3. o \in N!YesNo => Agreeing(o, d)
      BY <1>2, <3>1 DEF Agreeing, Held
    <3> QED
      BY <3>2, <3>3 DEF Told
  <2> QED
    BY <1>2, <1>5, <2>1 DEF Options
<1> QED
  BY <1>4, <1>6, <1>7, <1>8, <1>9, <1>10, <1>11 DEF NParts

LEMMA NInvAgree == NInv => EndsAgree
<1> SUFFICES ASSUME NInv PROVE N!BothReadable /\ N!OptionsAgree
  BY DEF EndsAgree, N!EndsAgree
<1>1. CASE refused = TRUE
  BY <1>1 DEF N!BothReadable, N!OptionsAgree
<1>2. CASE WireTyped /\ NParts
  <2>1. N!BothReadable
    <3>1. out # <<>> => Head(out).cipher = N!ServerReading
      <4>1. out # <<>> => out[1].cipher = N!ServerReading
        BY <1>2 DEF NParts, Readable, Chained
      <4> QED
        BY <4>1
    <3>2. in # <<>> => Head(in).cipher = N!OurReading
      <4>1. in # <<>> => in[1].cipher = N!OurReading
        BY <1>2 DEF NParts, Readable, Chained
      <4> QED
        BY <4>1
    <3> QED
      BY <3>1, <3>2 DEF N!BothReadable
  <2>2. N!OptionsAgree
    <3>1. SUFFICES ASSUME N!Quiet, open, NEW o \in N!Option, o # "AUTH"
                   PROVE  /\ o \notin eaten => us[o] \in {"yes", "no"} /\ him[o] \in {"yes", "no"}
                          /\ o \in N!YesNo => /\ us[o]  = "yes" => doo[o]
                                              /\ him[o] = "yes" => will[o]
                                              /\ ~negotiation.memory /\ o \notin eaten =>
                                                   /\ doo[o]  => us[o]  = "yes"
                                                   /\ will[o] => him[o] = "yes"
      BY DEF N!OptionsAgree, N!YesNo
    <3>2. in = <<>> /\ out = <<>> /\ Len(in) = 0 /\ Len(out) = 0
      BY <3>1 DEF N!Quiet
    <3>3. \A M : ~Has(in, M) /\ ~Has(out, M)
      BY <3>2 DEF Has
    <3>4. ASSUME NEW d \in Directions, o \notin eaten PROVE ~Waiting(o, d)
      BY <1>2, <3>1, <3>3, <3>4 DEF NParts, Options, Told, Answering
    <3>5. \A d \in Directions : o \in N!YesNo => Agreeing(o, d)
      BY <1>2 DEF NParts, Options, Told
    <3>6. us[o] \in {"no", "yes", "wantno", "wantyes"} /\ him[o] \in {"no", "yes", "wantno", "wantyes"}
      BY <1>2 DEF WireTyped
    <3>7. State(o, "his") = him[o] /\ State(o, "ours") = us[o] /\ Held(o, "his") = will[o] /\ Held(o, "ours") = doo[o]
      BY DEF State, Held
    <3>8. o \notin eaten => us[o] \in {"yes", "no"} /\ him[o] \in {"yes", "no"}
      BY <3>4, <3>6, <3>7 DEF Waiting, Directions
    <3>9. o \in N!YesNo => Agreeing(o, "his") /\ Agreeing(o, "ours")
      BY <3>5 DEF Directions
    <3> QED
      BY <3>7, <3>8, <3>9 DEF Agreeing
  <2> QED
    BY <2>1, <2>2
<1> QED
  BY <1>1, <1>2 DEF NInv

\* Against a server that follows RFC 1143 and the encryption option, and asks for
\* encryption no sooner than authentication has led to it, neither end takes noise
\* for text, and both hold the same of every option when nothing is on its way:
\* the answers, vectors and keys of TOPTIONS, AUTHOPT and ENCROPT come in the order
\* that the other end decrypts them in, through START and END of both directions.
THEOREM NegotiationAgrees == MCSpec => []EndsAgree
<1>1. MCInit => NInv
  BY NInvInit DEF MCInit
<1>2. NInv /\ [MCNext]_<<grain, tvars, pvars, nvars>> => NInv'
  <2> SUFFICES ASSUME NInv, [MCNext]_<<grain, tvars, pvars, nvars>> PROVE NInv'
    OBVIOUS
  <2>1. CASE N!Next
    BY <2>1, NInvNext
  <2>2. CASE UNCHANGED nvars
    BY <2>2, NInvKept
  <2> QED
    BY <2>1, <2>2 DEF MCNext
<1>3. NInv => EndsAgree
  BY NInvAgree
<1> QED
  BY <1>1, <1>2, <1>3, PTL DEF MCSpec
=============================================================================
