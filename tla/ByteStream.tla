----------------------------- MODULE ByteStream -----------------------------
(***************************************************************************)
(* What the users of a BufferedStream are promised: one writer appends     *)
(* bytes, one reader takes them out in the order they came, and a mark     *)
(* trails the reader so that what lies between the two can be collected    *)
(* (for the printer and the capture file) or, unless it has been settled,  *)
(* read again.  A byte is named by its position in the stream.             *)
(***************************************************************************)
EXTENDS Integers, Sequences

VARIABLES
  put,   \* how many bytes the writer has appended
  rd,    \* how many bytes the reader has consumed
  mk,    \* everything up to this position is settled
  got    \* the bytes the last call of the reader handed out

vars == <<put, rd, mk, got>>

Span(from, to) == [i \in 1..(to - from) |-> from + i]

Init == put = 0 /\ rd = 0 /\ mk = 0 /\ got = <<>>

Append_ ==
  /\ put' > put
  /\ UNCHANGED <<rd, mk, got>>

\* Takes the next bytes: exactly those that follow the last one taken.
Take ==
  /\ rd' > rd /\ rd' <= put
  /\ got' = Span(rd, rd')
  /\ UNCHANGED <<put, mk>>

\* The reader finds nothing it can take.
TakeNothing ==
  /\ got' = <<>>
  /\ UNCHANGED <<put, rd, mk>>

\* The last byte taken is given back; it must not have been settled.
GiveBack ==
  /\ rd > mk
  /\ rd' = rd - 1 /\ got' = <<>>
  /\ UNCHANGED <<put, mk>>

\* Everything taken so far is settled.
Settle ==
  /\ mk' = rd /\ got' = <<>>
  /\ UNCHANGED <<put, rd>>

\* The reader is handed the next stretch of what it has taken since the mark.
Collect ==
  /\ mk' > mk /\ mk' <= rd
  /\ got' = Span(mk, mk')
  /\ UNCHANGED <<put, rd>>

\* The reader starts again from the mark.
Rewind ==
  /\ rd' = mk /\ got' = <<>>
  /\ UNCHANGED <<put, mk>>

Next ==
  \/ Append_ \/ Take \/ TakeNothing \/ GiveBack
  \/ Settle \/ Collect \/ Rewind

Spec == Init /\ [][Next]_vars
=============================================================================
