--------------------------- MODULE BufferedStream ---------------------------
(***************************************************************************)
(* BufferedStream (APPL/KtCommon.w32/BSTREAM.CPP): the receive buffer of   *)
(* every connection, a linked list of fixed-size chunks.  A receiving      *)
(* thread appends with PutChars; one other thread reads.  Every call holds *)
(* ReadLock from its first to its last statement, so a call is one action. *)
(*                                                                         *)
(* Chunks are numbered in the order PutChars allocates them: Next of chunk *)
(* k is chunk k+1, `head` is the chunk being filled, `tail` the one being  *)
(* read and `mark` the oldest one not deleted yet.  A byte is the number   *)
(* of bytes put before it, plus one.                                       *)
(***************************************************************************)
EXTENDS Integers, Sequences, FiniteSets

CONSTANTS
  ChunkSize,   \* CNBUF_SIZE
  MaxBytes,    \* bound: how many bytes are ever received
  MaxPut,      \* bound: the largest block one PutChars is given
  Users        \* for each user of such a stream, the reading calls it makes

CallNames == {"RawGetChar", "UngetChar", "MarkAsRead", "GetReadData",
              "SkipTo", "GetBuffer", "RestoreToMark"}

ASSUME StreamAssumption ==
  /\ ChunkSize \in Nat \ {0}
  /\ MaxBytes \in Nat \ {0}
  /\ MaxPut \in Nat \ {0}
  /\ Users \subseteq SUBSET CallNames

None  == -1
Chunk == 0 .. MaxBytes
Byte  == 1 .. MaxBytes

VARIABLES
  data,           \* Data of each chunk; its length is the field Size
  ptr,            \* Ptr of each chunk: how many of its bytes have been read
  head, tail, mark,
  markIndex,      \* offset of the mark in chunk `mark`
  freed,          \* the chunks that have been deleted
  charsReceived,  \* the event CharsReceived, a manual-reset event
  put,            \* how many bytes have been put so far
  got,            \* the bytes the last reading call returned
  lastCall,       \* which reading call that was
  calls           \* the reading calls of the user of this stream

vars == <<data, ptr, head, tail, mark, markIndex, freed,
          charsReceived, put, got, lastCall, calls>>

Size(c) == Len(data[c])

Init ==
  /\ data = [c \in Chunk |-> <<>>]
  /\ ptr = [c \in Chunk |-> 0]
  /\ head = None /\ tail = None /\ mark = None
  /\ markIndex = 0
  /\ freed = {}
  /\ charsReceived = FALSE
  /\ put = 0
  /\ got = <<>>
  /\ lastCall = "none"
  /\ calls \in Users

-----------------------------------------------------------------------------
(* The writer *)

\* The first block of all allocates the chunk everything starts in.
FirstChunk == IF head = None THEN 0 ELSE head

\* The block goes behind what the head chunk holds.
Joined(n) == data[FirstChunk] \o [i \in 1..n |-> put + i]

\* What chunk c holds of it when the last chunk needed is `last`: a chunk is
\* filled before the next one is allocated.
Filled(n, last, c) ==
  LET from == (c - FirstChunk) * ChunkSize
      to   == IF c < last THEN from + ChunkSize ELSE Len(Joined(n))
  IN SubSeq(Joined(n), from + 1, to)

PutChars(n) ==
  \E last \in FirstChunk..MaxBytes :
    /\ put + n <= MaxBytes
    /\ (last - FirstChunk) * ChunkSize < Len(Joined(n))
    /\ Len(Joined(n)) <= (last - FirstChunk) * ChunkSize + ChunkSize
    /\ data' = [c \in Chunk |-> IF c \in FirstChunk..last
                                 THEN Filled(n, last, c) ELSE data[c]]
    /\ head' = last
    /\ IF head = None
         THEN tail' = FirstChunk /\ mark' = FirstChunk /\ markIndex' = 0
         ELSE UNCHANGED <<tail, mark, markIndex>>
    /\ charsReceived' = TRUE
    /\ put' = put + n
    /\ UNCHANGED <<ptr, freed, got, lastCall, calls>>

-----------------------------------------------------------------------------
(* The reader *)

\* _CharExist moves tail one chunk on when the one it is in has been read.
Readable(c) == c # None /\ ptr[c] < Size(c)

TailAfterLook ==
  IF tail # None /\ ~Readable(tail) /\ tail < head THEN tail + 1 ELSE tail

CharExist == Readable(TailAfterLook)

\* A slip: only the chunk being read is looked at.
MoreAfterHere(c, p) == p < Size(c)

\* _UpdateCR leaves the event alone while there is more to read.
MoreAfter(c, p) == p < Size(c) \/ c < head

\* The bytes of chunk c from offset `from` up to offset `to`.
Piece(c, from, to) == SubSeq(data[c], from + 1, to)

Call(name) == name \in calls /\ lastCall' = name /\ UNCHANGED calls

NothingThere ==
  /\ ~CharExist
  /\ tail' = TailAfterLook
  /\ charsReceived' = FALSE
  /\ got' = <<>>
  /\ UNCHANGED <<data, ptr, head, mark, markIndex, freed, put>>

RawGetChar ==
  /\ Call("RawGetChar")
  /\ \/ NothingThere
     \/ LET c == TailAfterLook IN
        /\ CharExist
        /\ tail' = c
        /\ got' = Piece(c, ptr[c], ptr[c] + 1)
        /\ ptr' = [ptr EXCEPT ![c] = @ + 1]
        /\ charsReceived' = (charsReceived /\ MoreAfter(c, ptr[c] + 1))
        /\ UNCHANGED <<data, head, mark, markIndex, freed, put>>

\* A byte is given back only right after the call that took it.
UngetChar ==
  /\ Call("UngetChar")
  /\ lastCall = "RawGetChar" /\ got # <<>>
  /\ IF tail # None /\ ptr[tail] > 0
       THEN /\ ptr' = [ptr EXCEPT ![tail] = @ - 1]
            /\ charsReceived' = TRUE
       ELSE UNCHANGED <<ptr, charsReceived>>
  /\ got' = <<>>
  /\ UNCHANGED <<data, head, tail, mark, markIndex, freed, put>>

\* A slip: the offset is not moved along with the mark.
MarkAsReadKeepsIndex ==
  /\ Call("MarkAsRead")
  /\ IF mark # None
       THEN freed' = freed \cup mark..(tail - 1) /\ mark' = tail
       ELSE UNCHANGED <<mark, freed>>
  /\ got' = <<>>
  /\ UNCHANGED <<data, ptr, head, tail, markIndex, charsReceived, put>>

MarkAsRead ==
  /\ Call("MarkAsRead")
  /\ IF mark # None
       THEN /\ freed' = freed \cup mark..(tail - 1)
            /\ mark' = tail
            /\ markIndex' = ptr[tail]
       ELSE UNCHANGED <<mark, markIndex, freed>>
  /\ got' = <<>>
  /\ UNCHANGED <<data, ptr, head, tail, charsReceived, put>>

\* The bytes collected are those from the mark to the end of its chunk, or to
\* where the reader is; a chunk that has been collected is deleted on the way.
Collect(done, m) ==
  LET from == IF done THEN 0 ELSE markIndex
      to   == IF m = tail THEN ptr[m] ELSE Size(m)
  IN /\ mark' = m
     /\ freed' = freed \cup mark..(m - 1)
     /\ got' = Piece(m, from, to)
     /\ markIndex' = to

Collected == mark # None /\ markIndex >= Size(mark)

\* A slip: the mark moves on although the reader is still in its chunk.
GetReadDataTooFar ==
  /\ Call("GetReadData")
  /\ IF mark = None \/ (Collected /\ mark = head)
       THEN got' = <<>> /\ UNCHANGED <<mark, markIndex, freed>>
       ELSE Collect(Collected, IF Collected THEN mark + 1 ELSE mark)
  /\ UNCHANGED <<data, ptr, head, tail, charsReceived, put>>

GetReadData ==
  /\ Call("GetReadData")
  /\ IF mark = None \/ (Collected /\ mark = tail)
       THEN got' = <<>> /\ UNCHANGED <<mark, markIndex, freed>>
       ELSE Collect(Collected, IF Collected THEN mark + 1 ELSE mark)
  /\ UNCHANGED <<data, ptr, head, tail, charsReceived, put>>

SkipUpTo(most) ==
  /\ Call("SkipTo")
  /\ \/ NothingThere
     \/ LET c == TailAfterLook IN
        /\ CharExist
        /\ tail' = c
        /\ \E i \in 0..most :
             /\ got' = Piece(c, ptr[c], ptr[c] + i)
             /\ ptr' = [ptr EXCEPT ![c] = @ + i]
        /\ UNCHANGED <<data, head, mark, markIndex, freed, charsReceived, put>>

\* SkipTo stops at the byte it is asked for, at one the connection never
\* skips, or at the end of the chunk: how far that is depends on the data.
SkipTo == SkipUpTo(Size(TailAfterLook) - ptr[TailAfterLook])

GetBuffer ==
  /\ Call("GetBuffer")
  /\ \/ NothingThere
     \/ LET c == TailAfterLook IN
        /\ CharExist
        /\ tail' = c
        /\ got' = Piece(c, ptr[c], Size(c))
        /\ ptr' = [ptr EXCEPT ![c] = Size(c)]
        /\ UNCHANGED <<data, head, mark, markIndex, freed, charsReceived, put>>

RestoreToMark ==
  /\ Call("RestoreToMark")
  /\ IF mark # None
       THEN tail' = mark /\ ptr' = [ptr EXCEPT ![mark] = markIndex]
       ELSE UNCHANGED <<tail, ptr>>
  /\ charsReceived' = FALSE
  /\ got' = <<>>
  /\ UNCHANGED <<data, head, mark, markIndex, freed, put>>

-----------------------------------------------------------------------------

Next ==
  \/ \E n \in 1..MaxPut : PutChars(n)
  \/ RawGetChar \/ UngetChar \/ MarkAsRead \/ GetReadData
  \/ SkipTo \/ GetBuffer \/ RestoreToMark

Spec == Init /\ [][Next]_vars

-----------------------------------------------------------------------------
(* Properties *)

\* Every field has its type: a chunk never holds more than it has room for
\* and never has more of it read than it holds.
TypeOK ==
  /\ data \in [Chunk -> Seq(Byte)]
  /\ ptr \in [Chunk -> Nat]
  /\ \A c \in Chunk : Size(c) <= ChunkSize /\ ptr[c] <= Size(c)
  /\ head \in Chunk \cup {None}
  /\ tail \in Chunk \cup {None}
  /\ mark \in Chunk \cup {None}
  /\ markIndex \in Nat
  /\ freed \subseteq Chunk
  /\ charsReceived \in BOOLEAN
  /\ put \in 0..MaxBytes
  /\ got \in Seq(Byte)
  /\ lastCall \in CallNames \cup {"none"}

\* The pointers into the chunk list stay in order and none of them, nor any
\* chunk they can still reach over Next, is one that GetReadData or
\* MarkAsRead has deleted.  The three exist together or not at all.
NoDangling ==
  \/ head = None /\ tail = None /\ mark = None /\ freed = {}
  \/ /\ head # None
     /\ 0 <= mark /\ mark <= tail /\ tail <= head
     /\ \A c \in freed : c < mark

\* The user only moves forward in the stream.
Forward == "RestoreToMark" \notin calls

\* While there is something to read, the event a reader waits for is set: a
\* reader that waits only after it found nothing is always woken.  Going back
\* to the mark resets the event, whatever is there.
NoLostWakeup == Forward /\ CharExist => charsReceived

\* What the stream implements: where the reader and the mark are in the
\* stream of all bytes, every chunk but the head being full.
ReadPos == IF tail = None THEN 0 ELSE tail * ChunkSize + ptr[tail]
MarkPos == IF mark = None THEN 0 ELSE mark * ChunkSize + markIndex

\* A user that goes back to its mark is promised nothing here: RestoreToMark
\* leaves Ptr of the later chunks where it was.
Promised(x, nothing) == IF Forward THEN x ELSE nothing

Abstract ==
  INSTANCE ByteStream WITH rd <- Promised(ReadPos, 0), mk <- Promised(MarkPos, 0),
                           put <- Promised(put, 0), got <- Promised(got, <<>>)

\* Whatever sequence of calls is made, and however the bytes fall into
\* chunks, the reader gets the bytes that were put, in order, none twice and
\* none missing, and GetReadData gives every byte read exactly once.
StreamPromise == Abstract!Spec
=============================================================================
