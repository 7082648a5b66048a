------------------------ MODULE BufferedStreamProofs ------------------------
(***************************************************************************)
(* For every chunk size and every number of bytes: the types, the chunk    *)
(* list and, for a user that never calls RestoreToMark, the event of       *)
(* BufferedStream and that it implements ByteStream.                       *)
(*                                                                         *)
(* NoLostWakeup is not inductive.  _CharExist looks one chunk ahead and no *)
(* further, so it may answer "nothing" and reset the event although there  *)
(* is something two chunks on, unless every chunk ahead of the reader      *)
(* holds bytes and none of them is read: NothingReadAhead.  That in turn   *)
(* needs the chunks not allocated yet to be empty, and the order of the    *)
(* three pointers.                                                         *)
(*                                                                         *)
(* That a position is a number in the stream of all bytes needs where the  *)
(* bytes lie (Layout), and that the mark trails the reader (Trailing) also *)
(* after a byte is given back (JustTaken).                                 *)
(***************************************************************************)
EXTENDS BufferedStream, SequenceTheorems, TLAPS

MarkInChunk == mark # None => markIndex <= Size(mark)

EmptyBeyondHead ==
  \A c \in Chunk : c > head => data[c] = <<>> /\ ptr[c] = 0

\* The part that every call keeps, RestoreToMark too.
ListInv == TypeOK /\ NoDangling /\ MarkInChunk /\ EmptyBeyondHead

NothingReadAhead ==
  tail # None => \A c \in Chunk : tail < c /\ c <= head => ptr[c] = 0 /\ Size(c) > 0

-----------------------------------------------------------------------------
(* What PutChars stores *)

LEMMA BlockType ==
  ASSUME TypeOK, NEW n \in Nat, put + n <= MaxBytes
  PROVE  /\ [i \in 1..n |-> put + i] \in Seq(Byte)
         /\ Len([i \in 1..n |-> put + i]) = n
<1>1. \A i \in 1..n : put + i \in Byte
  BY StreamAssumption DEF TypeOK, Byte
<1> QED
  BY <1>1

\* The bytes laid out over the chunks: the block behind those of the head.
LEMMA JoinedType ==
  ASSUME TypeOK, NEW n \in Nat, put + n <= MaxBytes
  PROVE  /\ FirstChunk \in Chunk
         /\ Joined(n) \in Seq(Byte)
         /\ Len(Joined(n)) = Size(FirstChunk) + n
         /\ Size(FirstChunk) \in Nat
<1>1. FirstChunk \in Chunk
  BY StreamAssumption DEF TypeOK, FirstChunk, Chunk, None
<1>2. data[FirstChunk] \in Seq(Byte)
  BY <1>1 DEF TypeOK
<1>3. /\ [i \in 1..n |-> put + i] \in Seq(Byte)
      /\ Len([i \in 1..n |-> put + i]) = n
  BY BlockType
<1> QED
  BY <1>1, <1>2, <1>3, ConcatProperties, LenProperties DEF Joined, Size

\* Every chunk that is written holds something and no more than fits, and the
\* first of them has lost nothing.
LEMMA FilledType ==
  ASSUME TypeOK, NEW n \in Nat, put + n <= MaxBytes,
         NEW last \in FirstChunk..MaxBytes, NEW c \in FirstChunk..last,
         (last - FirstChunk) * ChunkSize < Len(Joined(n)),
         Len(Joined(n)) <= (last - FirstChunk) * ChunkSize + ChunkSize
  PROVE  /\ Filled(n, last, c) \in Seq(Byte)
         /\ 0 < Len(Filled(n, last, c)) /\ Len(Filled(n, last, c)) <= ChunkSize
         /\ c = FirstChunk => Size(c) <= Len(Filled(n, last, c))
<1> DEFINE len  == Len(Joined(n))
           from == (c - FirstChunk) * ChunkSize
           to   == IF c < last THEN from + ChunkSize ELSE len
<1>1. /\ FirstChunk \in Chunk /\ Joined(n) \in Seq(Byte) /\ len \in Nat
      /\ len = Size(FirstChunk) + n /\ Size(FirstChunk) \in Nat
      /\ Size(FirstChunk) <= ChunkSize
  BY JoinedType, LenProperties DEF TypeOK
<1>2. /\ ChunkSize \in Nat /\ ChunkSize > 0 /\ c \in Int /\ last \in Int
      /\ FirstChunk \in Int
  BY <1>1, StreamAssumption DEF Chunk
<1>3. from \in Int /\ from >= 0
  BY <1>2
<1>4. c < last => from + ChunkSize <= (last - FirstChunk) * ChunkSize
  <2> SUFFICES ASSUME c < last
               PROVE  from + ChunkSize <= (last - FirstChunk) * ChunkSize
    OBVIOUS
  <2>1. (last - FirstChunk) * ChunkSize - from = (last - c) * ChunkSize
    BY <1>2
  <2>2. (last - c) * ChunkSize >= ChunkSize
    BY <1>2
  <2> QED
    BY <1>2, <1>3, <2>1, <2>2
<1>5. /\ to \in Int /\ to <= len /\ from < to /\ to - from <= ChunkSize
  <2>1. CASE c < last
    BY <1>1, <1>2, <1>3, <1>4, <2>1
  <2>2. CASE c = last
    BY <1>1, <1>2, <1>3, <2>2
  <2> QED
    BY <1>2, <2>1, <2>2
<1>6. \A i \in (from + 1)..to : Joined(n)[i] \in Byte
  BY <1>1, <1>3, <1>5, ElementOfSeq
<1>7. /\ Filled(n, last, c) \in Seq(Byte)
      /\ Len(Filled(n, last, c)) = to - from
  <2>1. from + 1 \in Int
    BY <1>3
  <2>2. /\ SubSeq(Joined(n), from + 1, to) \in Seq(Byte)
        /\ Len(SubSeq(Joined(n), from + 1, to))
             = IF from + 1 <= to THEN to - (from + 1) + 1 ELSE 0
    BY <1>5, <1>6, <2>1, SubSeqProperties
  <2> HIDE DEF from
  <2> QED
    BY <1>3, <1>5, <2>2 DEF Filled, from
<1>8. c = FirstChunk => Size(c) <= to - from
  <2> SUFFICES ASSUME c = FirstChunk PROVE Size(c) <= to - from
    OBVIOUS
  <2>1. from = 0
    BY <1>2
  <2> QED
    BY <1>1, <1>2, <1>5, <2>1
<1> QED
  BY <1>1, <1>3, <1>5, <1>7, <1>8

-----------------------------------------------------------------------------
(* The chunk list *)

LEMMA InitList == Init => ListInv
BY StreamAssumption, EmptySeq
   DEF Init, ListInv, TypeOK, NoDangling, MarkInChunk, EmptyBeyondHead,
       Size, Chunk, None, CallNames

LEMMA PieceType ==
  ASSUME TypeOK, NEW c \in Chunk, NEW from \in Nat, NEW to \in Int, to <= Size(c)
  PROVE  Piece(c, from, to) \in Seq(Byte)
<1>1. data[c] \in Seq(Byte) /\ Size(c) \in Nat
  BY LenProperties DEF TypeOK, Size
<1>2. \A i \in (from + 1)..to : data[c][i] \in Byte
  BY <1>1, ElementOfSeq DEF Size
<1>3. from + 1 \in Int
  OBVIOUS
<1> QED
  BY <1>2, <1>3, SubSeqProperties DEF Piece

LEMMA ListPutChars ==
  ASSUME ListInv, NEW n \in 1..MaxPut, PutChars(n)
  PROVE  ListInv'
<1> USE DEF ListInv
<1>1. PICK last \in FirstChunk..MaxBytes :
        /\ put + n <= MaxBytes
        /\ (last - FirstChunk) * ChunkSize < Len(Joined(n))
        /\ Len(Joined(n)) <= (last - FirstChunk) * ChunkSize + ChunkSize
        /\ data' = [c \in Chunk |-> IF c \in FirstChunk..last
                                     THEN Filled(n, last, c) ELSE data[c]]
        /\ head' = last
        /\ IF head = None
             THEN tail' = FirstChunk /\ mark' = FirstChunk /\ markIndex' = 0
             ELSE UNCHANGED <<tail, mark, markIndex>>
        /\ charsReceived' = TRUE
        /\ put' = put + n
        /\ UNCHANGED <<ptr, freed, got, lastCall>>
  BY DEF PutChars
<1>2. n \in Nat /\ n > 0 /\ MaxBytes \in Nat
  BY StreamAssumption
<1>3. FirstChunk \in Chunk /\ FirstChunk..last \subseteq Chunk /\ last \in Chunk
  BY <1>1, <1>2, JoinedType DEF Chunk
<1>4. \A c \in FirstChunk..last :
        /\ Filled(n, last, c) \in Seq(Byte)
        /\ Len(Filled(n, last, c)) <= ChunkSize
        /\ c = FirstChunk => Size(c) <= Len(Filled(n, last, c))
  BY <1>1, <1>2, FilledType
<1>5. \A c \in Chunk : /\ Size(c) \in Nat /\ Size(c)' \in Nat
                       /\ Size(c) <= Size(c)' /\ Size(c)' <= ChunkSize
  <2> TAKE c \in Chunk
  <2>1. data[c] \in Seq(Byte) /\ data'[c] \in Seq(Byte)
    BY <1>1, <1>4 DEF TypeOK
  <2>2. Size(c) \in Nat /\ Size(c)' \in Nat
    BY <2>1, LenProperties DEF Size
  <2>3. c \in FirstChunk..last /\ c # FirstChunk => Size(c) = 0
    BY <1>3, EmptySeq DEF EmptyBeyondHead, FirstChunk, Chunk, Size, None, TypeOK
  <2>4. Size(c) <= Size(c)' /\ Size(c)' <= ChunkSize
    BY <1>1, <1>4, <2>2, <2>3 DEF TypeOK, Size
  <2> QED
    BY <2>2, <2>4
<1>6. TypeOK'
  <2>1. data' \in [Chunk -> Seq(Byte)]
    BY <1>1, <1>4 DEF TypeOK
  <2>2. \A c \in Chunk : Size(c)' <= ChunkSize /\ ptr'[c] <= Size(c)'
    BY <1>1, <1>5 DEF TypeOK
  <2>3. /\ head' \in Chunk \cup {None} /\ tail' \in Chunk \cup {None}
        /\ mark' \in Chunk \cup {None} /\ markIndex' \in Nat
    <3>1. CASE head = None
      BY <1>1, <1>3, <3>1
    <3>2. CASE head # None
      BY <1>1, <1>3, <3>2 DEF TypeOK
    <3> QED
      BY <3>1, <3>2
  <2>4. put' \in 0..MaxBytes
    BY <1>1, <1>2 DEF TypeOK
  <2> QED
    BY <1>1, <2>1, <2>2, <2>3, <2>4 DEF TypeOK
<1>7. NoDangling'
  <2>1. CASE head = None
    BY <1>1, <1>3, <2>1 DEF NoDangling, FirstChunk, Chunk, None
  <2>2. CASE head # None
    BY <1>1, <1>3, <2>2 DEF NoDangling, FirstChunk, Chunk, None, TypeOK
  <2> QED
    BY <2>1, <2>2
<1>8. MarkInChunk'
  <2>1. CASE head = None
    <3>1. mark' = FirstChunk /\ markIndex' = 0
      BY <1>1, <2>1
    <3> QED
      BY <1>3, <1>5, <3>1 DEF MarkInChunk, Size
  <2>2. CASE head # None
    <3>1. mark' = mark /\ markIndex' = markIndex /\ mark \in Chunk /\ mark # None
      BY <1>1, <2>2 DEF NoDangling, TypeOK, Chunk, None
    <3>2. markIndex \in Nat /\ markIndex <= Size(mark)
      BY <3>1 DEF MarkInChunk, TypeOK
    <3>3. Size(mark) \in Nat /\ Size(mark)' \in Nat /\ Size(mark) <= Size(mark)'
      BY <1>5, <3>1 DEF Size
    <3> QED
      BY <3>1, <3>2, <3>3 DEF MarkInChunk
  <2> QED
    BY <2>1, <2>2
<1>9. EmptyBeyondHead'
  <2> SUFFICES ASSUME NEW c \in Chunk, c > last
               PROVE  data'[c] = <<>> /\ ptr'[c] = 0
    BY <1>1 DEF EmptyBeyondHead
  <2>1. c \notin FirstChunk..last /\ c > head
    BY <1>1, <1>3 DEF FirstChunk, Chunk, None, TypeOK
  <2> QED
    BY <1>1, <2>1 DEF EmptyBeyondHead
<1> QED
  BY <1>6, <1>7, <1>8, <1>9

\* Where _CharExist leaves the reader.
LEMMA LookType ==
  ASSUME ListInv, tail # None
  PROVE  /\ TailAfterLook \in Chunk /\ tail <= TailAfterLook
         /\ mark <= TailAfterLook /\ TailAfterLook <= head
         /\ mark # None /\ head # None
BY StreamAssumption
   DEF ListInv, TypeOK, NoDangling, TailAfterLook, Chunk, None

LEMMA LookNone ==
  ASSUME ListInv, tail = None
  PROVE  TailAfterLook = None /\ ~CharExist
BY DEF TailAfterLook, CharExist, Readable

LEMMA SizeType == TypeOK => \A c \in Chunk : Size(c) \in Nat
BY LenProperties DEF TypeOK, Size

\* A call that finds nothing, and every call that only moves the reader on in
\* the chunk it looks at.
LEMMA ListNothingThere ==
  ASSUME ListInv, NothingThere, lastCall' \in CallNames
  PROVE  ListInv'
<1> USE DEF ListInv
<1>1. /\ tail' = TailAfterLook /\ charsReceived' = FALSE /\ got' = <<>>
      /\ UNCHANGED <<data, ptr, head, mark, markIndex, freed, put>>
  BY DEF NothingThere
<1>2. \A c \in Chunk : Size(c)' = Size(c)
  BY <1>1 DEF Size
<1>3. CASE tail = None
  BY <1>1, <1>2, <1>3, LookNone, EmptySeq
     DEF TypeOK, NoDangling, MarkInChunk, EmptyBeyondHead, None
<1>4. CASE tail # None
  <2>1. TypeOK'
    BY <1>1, <1>2, <1>4, LookType, EmptySeq DEF TypeOK
  <2>2. NoDangling'
    BY <1>1, <1>4, LookType DEF NoDangling
  <2>3. MarkInChunk' /\ EmptyBeyondHead'
    BY <1>1, <1>2 DEF MarkInChunk, EmptyBeyondHead, TypeOK
  <2> QED
    BY <2>1, <2>2, <2>3
<1> QED
  BY <1>3, <1>4

LEMMA ListAdvance ==
  ASSUME ListInv, CharExist, NEW i \in Nat,
         ptr[TailAfterLook] + i <= Size(TailAfterLook),
         tail' = TailAfterLook,
         got' = Piece(TailAfterLook, ptr[TailAfterLook], ptr[TailAfterLook] + i),
         ptr' = [ptr EXCEPT ![TailAfterLook] = @ + i],
         charsReceived' \in BOOLEAN, lastCall' \in CallNames,
         UNCHANGED <<data, head, mark, markIndex, freed, put>>
  PROVE  ListInv'
<1> USE DEF ListInv
<1> DEFINE c == TailAfterLook
<1>1. tail # None
  BY LookNone
<1>2. c \in Chunk /\ tail <= c /\ mark <= c /\ c <= head /\ mark # None /\ head # None
  BY <1>1, LookType
<1>3. \A d \in Chunk : Size(d)' = Size(d) /\ Size(d) \in Nat
  BY SizeType DEF Size
<1>4. ptr[c] \in Nat /\ got' \in Seq(Byte)
  BY <1>2, PieceType DEF TypeOK
<1> HIDE DEF c
<1>5. TypeOK'
  <2>1. ptr' \in [Chunk -> Nat]
    BY <1>2, <1>4 DEF TypeOK, c
  <2>2. \A d \in Chunk : Size(d)' <= ChunkSize /\ ptr'[d] <= Size(d)'
    BY <1>2, <1>3, <1>4 DEF TypeOK, c
  <2> QED
    BY <1>2, <1>4, <2>1, <2>2 DEF TypeOK, c
<1>6. NoDangling'
  BY <1>1, <1>2 DEF NoDangling, c
<1>7. MarkInChunk'
  BY <1>3 DEF MarkInChunk, TypeOK
<1>8. EmptyBeyondHead'
  BY <1>2 DEF EmptyBeyondHead, TypeOK, c, Chunk
<1> QED
  BY <1>5, <1>6, <1>7, <1>8

LEMMA ListRawGetChar == ListInv /\ RawGetChar => ListInv'
<1> SUFFICES ASSUME ListInv, RawGetChar PROVE ListInv'
  OBVIOUS
<1>1. lastCall' \in CallNames
  BY StreamAssumption DEF RawGetChar, Call, CallNames
<1>2. CASE NothingThere
  BY <1>1, <1>2, ListNothingThere
<1>3. CASE ~NothingThere
  <2> DEFINE c == TailAfterLook
  <2>1. /\ CharExist /\ tail' = c /\ got' = Piece(c, ptr[c], ptr[c] + 1)
        /\ ptr' = [ptr EXCEPT ![c] = @ + 1]
        /\ charsReceived' = (charsReceived /\ MoreAfter(c, ptr[c] + 1))
        /\ UNCHANGED <<data, head, mark, markIndex, freed, put>>
    BY <1>3 DEF RawGetChar
  <2>2. c \in Chunk
    BY <2>1, LookType, LookNone
  <2>3. ptr[c] + 1 <= Size(c)
    BY <2>1, <2>2, SizeType DEF CharExist, Readable, ListInv, TypeOK
  <2>4. charsReceived' \in BOOLEAN
    BY <2>1 DEF MoreAfter
  <2> QED
    BY <1>1, <2>1, <2>3, <2>4, ListAdvance
<1> QED
  BY <1>2, <1>3

LEMMA ListSkipTo == ListInv /\ SkipTo => ListInv'
<1> SUFFICES ASSUME ListInv, SkipTo PROVE ListInv'
  OBVIOUS
<1>1. lastCall' \in CallNames
  BY StreamAssumption DEF SkipTo, SkipUpTo, Call, CallNames
<1>2. CASE NothingThere
  BY <1>1, <1>2, ListNothingThere
<1>3. CASE ~NothingThere
  <2> DEFINE c == TailAfterLook
  <2>1. PICK i \in 0 .. Size(c) - ptr[c] :
          /\ CharExist /\ tail' = c /\ got' = Piece(c, ptr[c], ptr[c] + i)
          /\ ptr' = [ptr EXCEPT ![c] = @ + i]
          /\ UNCHANGED <<data, head, mark, markIndex, freed, charsReceived, put>>
    BY <1>3 DEF SkipTo, SkipUpTo
  <2>2. c \in Chunk
    BY <2>1, LookType, LookNone
  <2>3. i \in Nat /\ ptr[c] + i <= Size(c)
    BY <2>2, SizeType DEF ListInv, TypeOK
  <2>4. charsReceived' \in BOOLEAN
    BY <2>1 DEF ListInv, TypeOK
  <2> QED
    BY <1>1, <2>1, <2>3, <2>4, ListAdvance
<1> QED
  BY <1>2, <1>3

LEMMA ListGetBuffer == ListInv /\ GetBuffer => ListInv'
<1> SUFFICES ASSUME ListInv, GetBuffer PROVE ListInv'
  OBVIOUS
<1>1. lastCall' \in CallNames
  BY StreamAssumption DEF GetBuffer, Call, CallNames
<1>2. CASE NothingThere
  BY <1>1, <1>2, ListNothingThere
<1>3. CASE ~NothingThere
  <2> DEFINE c == TailAfterLook
             i == Size(c) - ptr[c]
  <2>1. /\ CharExist /\ tail' = c /\ got' = Piece(c, ptr[c], Size(c))
        /\ ptr' = [ptr EXCEPT ![c] = Size(c)]
        /\ UNCHANGED <<data, head, mark, markIndex, freed, charsReceived, put>>
    BY <1>3 DEF GetBuffer
  <2>2. c \in Chunk
    BY <2>1, LookType, LookNone
  <2>3. i \in Nat /\ ptr[c] + i = Size(c) /\ ptr[c] + i <= Size(c)
    BY <2>2, SizeType DEF ListInv, TypeOK
  <2>4. charsReceived' \in BOOLEAN
    BY <2>1 DEF ListInv, TypeOK
  <2>5. ptr' = [ptr EXCEPT ![c] = @ + i] /\ got' = Piece(c, ptr[c], ptr[c] + i)
    BY <2>1, <2>3
  <2> HIDE DEF i
  <2> QED
    BY <1>1, <2>1, <2>3, <2>4, <2>5, ListAdvance
<1> QED
  BY <1>2, <1>3

LEMMA ListUngetChar == ListInv /\ UngetChar => ListInv'
<1> SUFFICES ASSUME ListInv, UngetChar PROVE ListInv'
  OBVIOUS
<1> USE DEF ListInv
<1>1. /\ lastCall' \in CallNames /\ got' = <<>>
      /\ UNCHANGED <<data, head, tail, mark, markIndex, freed, put>>
  BY StreamAssumption DEF UngetChar, Call, CallNames
<1>2. CASE tail # None /\ ptr[tail] > 0
  <2>1. ptr' = [ptr EXCEPT ![tail] = @ - 1] /\ charsReceived' = TRUE
    BY <1>2 DEF UngetChar
  <2>2. tail \in Chunk /\ tail <= head
    BY <1>2 DEF NoDangling, TypeOK
  <2>3. \A c \in Chunk : Size(c)' = Size(c) /\ Size(c) \in Nat
    BY <1>1, SizeType DEF Size
  <2>4. TypeOK'
    BY <1>1, <1>2, <2>1, <2>2, <2>3, EmptySeq DEF TypeOK
  <2>5. NoDangling' /\ MarkInChunk'
    BY <1>1, <2>3 DEF NoDangling, MarkInChunk, TypeOK
  <2>6. EmptyBeyondHead'
    BY <1>1, <2>1, <2>2 DEF EmptyBeyondHead, TypeOK, Chunk
  <2> QED
    BY <2>4, <2>5, <2>6
<1>3. CASE ~(tail # None /\ ptr[tail] > 0)
  <2>1. UNCHANGED <<ptr, charsReceived>>
    BY <1>3 DEF UngetChar
  <2> QED
    BY <1>1, <2>1, EmptySeq
       DEF TypeOK, NoDangling, MarkInChunk, EmptyBeyondHead, Size
<1> QED
  BY <1>2, <1>3

LEMMA ListMarkAsRead == ListInv /\ MarkAsRead => ListInv'
<1> SUFFICES ASSUME ListInv, MarkAsRead PROVE ListInv'
  OBVIOUS
<1> USE DEF ListInv
<1>1. /\ lastCall' \in CallNames /\ got' = <<>>
      /\ UNCHANGED <<data, ptr, head, tail, charsReceived, put>>
  BY StreamAssumption DEF MarkAsRead, Call, CallNames
<1>2. CASE mark # None
  <2>1. freed' = freed \cup mark..(tail - 1) /\ mark' = tail /\ markIndex' = ptr[tail]
    BY <1>2 DEF MarkAsRead
  <2>2. /\ tail \in Chunk /\ mark \in Chunk /\ mark <= tail /\ tail <= head
        /\ head # None /\ \A c \in freed : c < mark
    BY <1>2 DEF NoDangling, TypeOK, Chunk, None
  <2>3. mark..(tail - 1) \subseteq Chunk /\ \A c \in mark..(tail - 1) : c < tail
    BY <2>2, StreamAssumption DEF Chunk
  <2>4. TypeOK'
    BY <1>1, <2>1, <2>2, <2>3, EmptySeq DEF TypeOK, Size
  <2>5. NoDangling'
    BY <1>1, <2>1, <2>2, <2>3 DEF NoDangling, Chunk, TypeOK
  <2>6. MarkInChunk' /\ EmptyBeyondHead'
    BY <1>1, <2>1, <2>2 DEF MarkInChunk, EmptyBeyondHead, TypeOK, Size
  <2> QED
    BY <2>4, <2>5, <2>6
<1>3. CASE mark = None
  <2>1. UNCHANGED <<mark, markIndex, freed>>
    BY <1>3 DEF MarkAsRead
  <2> QED
    BY <1>1, <2>1, EmptySeq
       DEF TypeOK, NoDangling, MarkInChunk, EmptyBeyondHead, Size
<1> QED
  BY <1>2, <1>3

LEMMA ListGetReadData == ListInv /\ GetReadData => ListInv'
<1> SUFFICES ASSUME ListInv, GetReadData PROVE ListInv'
  OBVIOUS
<1> USE DEF ListInv
<1>1. /\ lastCall' \in CallNames
      /\ UNCHANGED <<data, ptr, head, tail, charsReceived, put>>
  BY StreamAssumption DEF GetReadData, Call, CallNames
<1>2. CASE mark = None \/ (Collected /\ mark = tail)
  <2>1. got' = <<>> /\ UNCHANGED <<mark, markIndex, freed>>
    BY <1>2 DEF GetReadData
  <2> QED
    BY <1>1, <2>1, EmptySeq
       DEF TypeOK, NoDangling, MarkInChunk, EmptyBeyondHead, Size
<1>3. CASE ~(mark = None \/ (Collected /\ mark = tail))
  <2> DEFINE m    == IF Collected THEN mark + 1 ELSE mark
             from == IF Collected THEN 0 ELSE markIndex
             to   == IF m = tail THEN ptr[m] ELSE Size(m)
  <2>1. /\ mark' = m /\ freed' = freed \cup mark..(m - 1)
        /\ got' = Piece(m, from, to) /\ markIndex' = to
    BY <1>3 DEF GetReadData, Collect
  <2>2. /\ tail \in Chunk /\ mark \in Chunk /\ mark <= tail /\ tail <= head
        /\ head # None /\ \A c \in freed : c < mark
    BY <1>3 DEF NoDangling, TypeOK, Chunk, None
  <2>3. /\ m \in Chunk /\ mark <= m /\ m <= tail
        /\ mark..(m - 1) \subseteq Chunk /\ \A c \in mark..(m - 1) : c < m
    BY <1>3, <2>2, StreamAssumption DEF Chunk
  <2>4. from \in Nat /\ to \in Nat /\ to <= Size(m)
    BY <2>3, SizeType DEF TypeOK
  <2> HIDE DEF m, from, to
  <2>5. got' \in Seq(Byte)
    BY <2>1, <2>3, <2>4, PieceType
  <2>6. TypeOK'
    BY <1>1, <2>1, <2>2, <2>3, <2>4, <2>5 DEF TypeOK, Size
  <2>7. NoDangling'
    BY <1>1, <2>1, <2>2, <2>3 DEF NoDangling, Chunk, TypeOK
  <2>8. MarkInChunk' /\ EmptyBeyondHead'
    BY <1>1, <2>1, <2>4 DEF MarkInChunk, EmptyBeyondHead, Size
  <2> QED
    BY <2>6, <2>7, <2>8
<1> QED
  BY <1>2, <1>3

LEMMA ListRestoreToMark == ListInv /\ RestoreToMark => ListInv'
<1> SUFFICES ASSUME ListInv, RestoreToMark PROVE ListInv'
  OBVIOUS
<1> USE DEF ListInv
<1>1. /\ lastCall' \in CallNames /\ got' = <<>> /\ charsReceived' = FALSE
      /\ UNCHANGED <<data, head, mark, markIndex, freed, put>>
  BY StreamAssumption DEF RestoreToMark, Call, CallNames
<1>2. CASE mark # None
  <2>1. tail' = mark /\ ptr' = [ptr EXCEPT ![mark] = markIndex]
    BY <1>2 DEF RestoreToMark
  <2>2. mark \in Chunk /\ mark <= head /\ head # None /\ markIndex \in Nat
    BY <1>2 DEF NoDangling, TypeOK, Chunk, None
  <2>3. markIndex <= Size(mark)
    BY <1>2 DEF MarkInChunk
  <2>4. TypeOK'
    BY <1>1, <2>1, <2>2, <2>3, EmptySeq DEF TypeOK, Size
  <2>5. NoDangling' /\ MarkInChunk'
    BY <1>1, <2>1, <2>2 DEF NoDangling, MarkInChunk, TypeOK, Size, Chunk
  <2>6. EmptyBeyondHead'
    BY <1>1, <2>1, <2>2 DEF EmptyBeyondHead, TypeOK, Chunk
  <2> QED
    BY <2>4, <2>5, <2>6
<1>3. CASE mark = None
  <2>1. UNCHANGED <<tail, ptr>>
    BY <1>3 DEF RestoreToMark
  <2> QED
    BY <1>1, <2>1, EmptySeq
       DEF TypeOK, NoDangling, MarkInChunk, EmptyBeyondHead, Size
<1> QED
  BY <1>2, <1>3

LEMMA ListStep == ListInv /\ [Next]_vars => ListInv'
<1> SUFFICES ASSUME ListInv, [Next]_vars PROVE ListInv'
  OBVIOUS
<1>1. CASE UNCHANGED vars
  BY <1>1 DEF vars, ListInv, TypeOK, NoDangling, MarkInChunk, EmptyBeyondHead, Size
<1>2. CASE \E n \in 1..MaxPut : PutChars(n)
  BY <1>2, ListPutChars
<1> QED
  BY <1>1, <1>2, ListRawGetChar, ListUngetChar, ListMarkAsRead, ListGetReadData,
     ListSkipTo, ListGetBuffer, ListRestoreToMark DEF Next

LEMMA ListAlways == Spec => []ListInv
BY InitList, ListStep, PTL DEF Spec

\* Whatever is called in whatever order, every chunk, pointer and offset keeps
\* its type; in particular no offset leaves its chunk.
THEOREM TypeCorrect == Spec => []TypeOK
<1>1. ListInv => TypeOK
  BY DEF ListInv
<1> QED
  BY <1>1, ListAlways, PTL

\* GetReadData and MarkAsRead never delete a chunk that mark, tail or head
\* still points to or can reach.
THEOREM ChunksSafe == Spec => []NoDangling
<1>1. ListInv => NoDangling
  BY DEF ListInv
<1> QED
  BY <1>1, ListAlways, PTL

-----------------------------------------------------------------------------
(* The event, for a user that never goes back to the mark *)

Woken == CharExist => charsReceived

Core == ListInv /\ NothingReadAhead /\ Woken

IInv == ListInv /\ (Forward => Core)

LEMMA InitWakeup == Init => Core
BY InitList DEF Core, Init, NothingReadAhead, Woken, CharExist, Readable,
                TailAfterLook, None

\* _CharExist says there is nothing only when the reader is at the very end.
LEMMA NothingMeansEnd ==
  ASSUME Core, ~CharExist, tail # None
  PROVE  TailAfterLook = tail /\ tail = head /\ ~Readable(tail)
<1>1. /\ tail \in Chunk /\ head \in Chunk /\ tail <= head
  BY DEF Core, ListInv, TypeOK, NoDangling, Chunk, None
<1>2. ~(tail < head)
  <2> SUFFICES ASSUME tail < head PROVE FALSE
    OBVIOUS
  <2>1. tail + 1 \in Chunk /\ tail + 1 <= head /\ tail < tail + 1 /\ tail + 1 # None
    BY <1>1, StreamAssumption DEF Chunk, None
  <2>2. ptr[tail + 1] = 0 /\ Size(tail + 1) > 0
    BY <2>1 DEF Core, NothingReadAhead
  <2>3. Readable(tail + 1)
    BY <2>1, <2>2 DEF Readable
  <2> QED
    BY <2>3 DEF CharExist, TailAfterLook
<1>3. TailAfterLook = tail /\ tail = head
  BY <1>1, <1>2 DEF TailAfterLook, Chunk
<1> QED
  BY <1>3 DEF CharExist

LEMMA WakeupPutChars ==
  ASSUME Core, NEW n \in 1..MaxPut, PutChars(n)
  PROVE  NothingReadAhead' /\ Woken'
<1> USE DEF Core
<1>1. Woken'
  BY DEF PutChars, Woken
<1>2. PICK last \in FirstChunk..MaxBytes :
        /\ put + n <= MaxBytes
        /\ (last - FirstChunk) * ChunkSize < Len(Joined(n))
        /\ Len(Joined(n)) <= (last - FirstChunk) * ChunkSize + ChunkSize
        /\ data' = [c \in Chunk |-> IF c \in FirstChunk..last
                                     THEN Filled(n, last, c) ELSE data[c]]
        /\ head' = last
        /\ IF head = None THEN tail' = FirstChunk ELSE tail' = tail
        /\ ptr' = ptr
  BY DEF PutChars
<1>3. TypeOK /\ n \in Nat /\ n > 0 /\ FirstChunk \in Chunk
  BY JoinedType, <1>2 DEF ListInv
<1>4. \A c \in FirstChunk..last : Len(Filled(n, last, c)) > 0
  BY <1>2, <1>3, FilledType
<1>5. NothingReadAhead'
  <2> SUFFICES ASSUME NEW c \in Chunk, tail' < c, c <= last, tail' # None
               PROVE  ptr'[c] = 0 /\ Size(c)' > 0
    BY <1>2 DEF NothingReadAhead
  <2>1. CASE c \in FirstChunk..last
    <3>1. Size(c)' > 0
      BY <1>2, <1>4, <2>1 DEF Size
    <3>2. c > head => ptr[c] = 0
      BY DEF ListInv, EmptyBeyondHead
    <3>3. c <= head => ptr[c] = 0
      BY <1>2, <1>3, <2>1 DEF NothingReadAhead, FirstChunk, ListInv, TypeOK, Chunk, None
    <3> QED
      BY <1>2, <1>3, <3>1, <3>2, <3>3 DEF TypeOK, Chunk, None
  <2>2. CASE c \notin FirstChunk..last
    <3>1. head # None /\ tail' = tail /\ c < head
      BY <1>2, <1>3, <2>2 DEF FirstChunk, Chunk, TypeOK, None
    <3>2. tail # None /\ tail < c /\ c <= head
      BY <1>3, <3>1 DEF TypeOK, Chunk, None
    <3>3. ptr[c] = 0 /\ Size(c) > 0
      BY <3>2 DEF NothingReadAhead
    <3> QED
      BY <1>2, <2>2, <3>3 DEF Size
  <2> QED
    BY <2>1, <2>2
<1> QED
  BY <1>1, <1>5

LEMMA WakeupNothingThere ==
  ASSUME Core, NothingThere
  PROVE  NothingReadAhead' /\ Woken'
<1> USE DEF Core
<1>1. /\ ~CharExist /\ tail' = TailAfterLook /\ UNCHANGED <<data, ptr, head>>
  BY DEF NothingThere
<1>2. tail' = tail
  BY <1>1, NothingMeansEnd, LookNone
<1> QED
  BY <1>1, <1>2 DEF NothingReadAhead, Woken, CharExist, Readable,
                    TailAfterLook, Size

\* The reader moves on in the chunk it looks at; the event is reset only by
\* _UpdateCR.
LEMMA WakeupAdvance ==
  ASSUME Core, CharExist, NEW p \in Nat,
         tail' = TailAfterLook,
         ptr' = [ptr EXCEPT ![TailAfterLook] = p],
         UNCHANGED <<data, head>>,
         charsReceived' = charsReceived
           \/ charsReceived' = (charsReceived /\ MoreAfter(TailAfterLook, p))
  PROVE  NothingReadAhead' /\ Woken'
<1> USE DEF Core
<1> DEFINE c == TailAfterLook
<1>1. tail # None
  BY LookNone
<1>2. c \in Chunk /\ tail \in Chunk /\ tail <= c /\ c <= head /\ head \in Chunk
  BY <1>1, LookType DEF ListInv, TypeOK
<1>3. charsReceived
  BY DEF Woken
<1>4. \A d \in Chunk : Size(d)' = Size(d) /\ Size(d) \in Nat
  BY SizeType DEF Size, ListInv
<1>5. ptr'[c] = p /\ \A d \in Chunk : d # c => ptr'[d] = ptr[d]
  BY <1>2 DEF ListInv, TypeOK
<1> HIDE DEF c
<1>6. NothingReadAhead'
  <2> SUFFICES ASSUME NEW d \in Chunk, c < d, d <= head
               PROVE  ptr'[d] = 0 /\ Size(d)' > 0
    BY DEF NothingReadAhead, c
  <2>1. tail < d /\ d # c
    BY <1>2 DEF Chunk
  <2> QED
    BY <1>1, <1>4, <1>5, <2>1 DEF NothingReadAhead
<1>7. Woken'
  <2>1. CASE MoreAfter(c, p)
    BY <1>3, <2>1 DEF Woken, c
  <2>2. CASE ~MoreAfter(c, p)
    <3>1. ~(p < Size(c)) /\ ~(c < head)
      BY <2>2 DEF MoreAfter
    <3>2. tail' = c /\ ~(tail' < head')
      BY <1>2, <3>1 DEF c
    <3>3. ptr'[tail'] = p /\ Size(tail)' = Size(c)
      BY <1>5, <3>2 DEF Size
    <3>4. ~Readable(tail)'
      BY <3>1, <3>3 DEF Readable
    <3>5. TailAfterLook' = tail'
      BY <3>2 DEF TailAfterLook
    <3> QED
      BY <3>4, <3>5 DEF Woken, CharExist, Readable, Size
  <2> QED
    BY <2>1, <2>2
<1> QED
  BY <1>6, <1>7

LEMMA WakeupReads ==
  ASSUME Core, RawGetChar \/ SkipTo \/ GetBuffer
  PROVE  NothingReadAhead' /\ Woken'
<1>1. CASE NothingThere
  BY <1>1, WakeupNothingThere
<1>2. CASE ~NothingThere
  <2> DEFINE c == TailAfterLook
  <2>1. CharExist /\ tail' = c /\ UNCHANGED <<data, head>>
    BY <1>2 DEF RawGetChar, SkipTo, SkipUpTo, GetBuffer
  <2>2. c \in Chunk /\ ptr[c] \in Nat /\ Size(c) \in Nat /\ ptr[c] <= Size(c)
    BY <2>1, LookType, LookNone, SizeType DEF Core, ListInv, TypeOK
  <2>3. CASE RawGetChar
    <3>1. /\ ptr' = [ptr EXCEPT ![c] = @ + 1]
          /\ charsReceived' = (charsReceived /\ MoreAfter(c, ptr[c] + 1))
      BY <1>2, <2>3 DEF RawGetChar
    <3>2. ptr[c] + 1 \in Nat /\ ptr' = [ptr EXCEPT ![c] = ptr[c] + 1]
      BY <2>2, <3>1
    <3> QED
      BY <2>1, <3>1, <3>2, WakeupAdvance
  <2>4. CASE SkipTo
    <3>1. PICK i \in 0 .. Size(c) - ptr[c] : ptr' = [ptr EXCEPT ![c] = @ + i]
      BY <1>2, <2>4 DEF SkipTo, SkipUpTo
    <3>2. ptr[c] + i \in Nat /\ ptr' = [ptr EXCEPT ![c] = ptr[c] + i]
      BY <2>2, <3>1
    <3>3. charsReceived' = charsReceived
      BY <1>2, <2>4 DEF SkipTo, SkipUpTo
    <3> QED
      BY <2>1, <3>2, <3>3, WakeupAdvance
  <2>5. CASE GetBuffer
    <3>1. ptr' = [ptr EXCEPT ![c] = Size(c)] /\ charsReceived' = charsReceived
      BY <1>2, <2>5 DEF GetBuffer
    <3> QED
      BY <2>1, <2>2, <3>1, WakeupAdvance
  <2> QED
    BY <2>3, <2>4, <2>5
<1> QED
  BY <1>1, <1>2

LEMMA WakeupUngetChar ==
  ASSUME Core, UngetChar
  PROVE  NothingReadAhead' /\ Woken'
<1> USE DEF Core
<1>1. UNCHANGED <<data, head, tail>>
  BY DEF UngetChar
<1>2. CASE tail # None /\ ptr[tail] > 0
  <2>1. ptr' = [ptr EXCEPT ![tail] = @ - 1] /\ charsReceived' = TRUE
    BY <1>2 DEF UngetChar
  <2>2. tail \in Chunk
    BY <1>2 DEF ListInv, TypeOK
  <2>3. \A c \in Chunk : tail < c => ptr'[c] = ptr[c]
    BY <2>1, <2>2 DEF ListInv, TypeOK, Chunk
  <2> QED
    BY <1>1, <2>1, <2>3 DEF NothingReadAhead, Woken, Size
<1>3. CASE ~(tail # None /\ ptr[tail] > 0)
  <2>1. UNCHANGED <<ptr, charsReceived>>
    BY <1>3 DEF UngetChar
  <2> QED
    BY <1>1, <2>1 DEF NothingReadAhead, Woken, CharExist, Readable,
                      TailAfterLook, Size
<1> QED
  BY <1>2, <1>3

LEMMA WakeupStep ==
  ASSUME Forward, Core, [Next]_vars
  PROVE  Core'
<1>1. ListInv'
  BY ListStep DEF Core
<1>2. CASE UNCHANGED <<data, ptr, head, tail, charsReceived>>
  BY <1>1, <1>2 DEF Core, NothingReadAhead, Woken, CharExist, Readable,
                    TailAfterLook, Size
<1>3. ~RestoreToMark
  BY DEF RestoreToMark, Call, Forward
<1>4. MarkAsRead \/ GetReadData \/ UNCHANGED vars
        => UNCHANGED <<data, ptr, head, tail, charsReceived>>
  BY DEF MarkAsRead, GetReadData, vars
<1>5. CASE \E n \in 1..MaxPut : PutChars(n)
  BY <1>1, <1>5, WakeupPutChars DEF Core
<1>6. CASE RawGetChar \/ SkipTo \/ GetBuffer
  BY <1>1, <1>6, WakeupReads DEF Core
<1>7. CASE UngetChar
  BY <1>1, <1>7, WakeupUngetChar DEF Core
<1> QED
  BY <1>2, <1>3, <1>4, <1>5, <1>6, <1>7 DEF Next

\* A user stays the user it is.
LEMMA CallsKept == [Next]_vars => UNCHANGED calls
BY DEF Next, vars, PutChars, RawGetChar, UngetChar, MarkAsRead, GetReadData, SkipTo, SkipUpTo,
       GetBuffer, RestoreToMark, Call

\* As long as no call goes back to the mark, the event CharsReceived is set
\* whenever there is a byte to read: between "nothing there" and the wait no
\* block that was put can be missed.
THEOREM WakeupNeverLost == Spec => []NoLostWakeup
<1>1. Init => IInv
  BY InitWakeup DEF IInv, Core
<1>2. IInv /\ [Next]_vars => IInv'
  BY ListStep, WakeupStep, CallsKept DEF IInv, Forward
<1>3. IInv => NoLostWakeup
  BY DEF IInv, Core, Woken, NoLostWakeup
<1> QED
  BY <1>1, <1>2, <1>3, PTL DEF Spec
-----------------------------------------------------------------------------
(* What the stream implements, for a user that only moves forward *)

\* Every chunk but the head is full, and a byte is where its number says.
Layout ==
  /\ head = None => put = 0
  /\ head # None => put = head * ChunkSize + Size(head)
  /\ \A c \in Chunk : c < head => Size(c) = ChunkSize
  /\ \A c \in Chunk : \A i \in 1..Size(c) : data[c][i] = c * ChunkSize + i

\* The mark does not overtake the reader, and a byte that can be given back has
\* not been passed by it.
Trailing == mark # None /\ mark = tail => markIndex <= ptr[tail]

JustTaken ==
  lastCall = "RawGetChar" /\ got # <<>> =>
    tail # None /\ ptr[tail] > 0 /\ (mark = tail => markIndex < ptr[tail])

Placed == Core /\ Layout /\ Trailing /\ JustTaken

\* The bytes as PutChars lays them out are numbered on from the first chunk.
LEMMA JoinedBytes ==
  ASSUME ListInv, Layout, NEW n \in Nat, put + n <= MaxBytes
  PROVE  /\ put = FirstChunk * ChunkSize + Size(FirstChunk)
         /\ \A i \in 1..Len(Joined(n)) : Joined(n)[i] = FirstChunk * ChunkSize + i
<1> DEFINE block == [i \in 1..n |-> put + i]
<1>1. /\ FirstChunk \in Chunk /\ Len(Joined(n)) = Size(FirstChunk) + n
      /\ Size(FirstChunk) \in Nat /\ data[FirstChunk] \in Seq(Byte)
      /\ put \in Nat /\ ChunkSize \in Nat
  BY JoinedType, StreamAssumption DEF TypeOK, ListInv
<1>2. block \in Seq(Byte) /\ Len(block) = n
  BY BlockType DEF ListInv
<1>3. put = FirstChunk * ChunkSize + Size(FirstChunk)
  <2>1. CASE head = None
    <3>1. FirstChunk = 0 /\ put = 0
      BY <2>1 DEF FirstChunk, Layout
    <3>2. data[0] = <<>>
      BY <1>1, <2>1, <3>1 DEF ListInv, EmptyBeyondHead, None
    <3> QED
      BY <1>1, <3>1, <3>2 DEF Size
  <2>2. CASE head # None
    BY <2>2 DEF FirstChunk, Layout
  <2> QED
    BY <2>1, <2>2
<1>4. ASSUME NEW i \in 1..Len(Joined(n))
      PROVE  Joined(n)[i] = FirstChunk * ChunkSize + i
  <2>1. Joined(n)[i] = IF i <= Size(FirstChunk) THEN data[FirstChunk][i]
                       ELSE block[i - Size(FirstChunk)]
    BY <1>1, <1>2, ConcatProperties DEF Joined, Size
  <2>2. CASE i <= Size(FirstChunk)
    BY <1>1, <2>1, <2>2 DEF Layout
  <2>3. CASE i > Size(FirstChunk)
    <3>1. i - Size(FirstChunk) \in 1..n
      BY <1>1, <2>3
    <3>2. block[i - Size(FirstChunk)] = put + (i - Size(FirstChunk))
      BY <3>1
    <3>3. FirstChunk * ChunkSize \in Nat
      BY <1>1 DEF Chunk
    <3> QED
      BY <1>1, <1>3, <2>1, <2>3, <3>2, <3>3
  <2> QED
    BY <1>1, <2>2, <2>3
<1> QED
  BY <1>3, <1>4

\* What a chunk holds after PutChars
LEMMA FilledBytes ==
  ASSUME ListInv, Layout, NEW n \in Nat, put + n <= MaxBytes,
         NEW last \in FirstChunk..MaxBytes, NEW c \in FirstChunk..last,
         (last - FirstChunk) * ChunkSize < Len(Joined(n)),
         Len(Joined(n)) <= (last - FirstChunk) * ChunkSize + ChunkSize
  PROVE  /\ c < last => Len(Filled(n, last, c)) = ChunkSize
         /\ last * ChunkSize + Len(Filled(n, last, last)) = put + n
         /\ \A i \in 1..Len(Filled(n, last, c)) : Filled(n, last, c)[i] = c * ChunkSize + i
<1> DEFINE len     == Len(Joined(n))
           from(d) == (d - FirstChunk) * ChunkSize
           to(d)   == IF d < last THEN from(d) + ChunkSize ELSE len
<1>1. /\ FirstChunk \in Chunk /\ Joined(n) \in Seq(Byte) /\ len \in Nat
      /\ len = Size(FirstChunk) + n /\ Size(FirstChunk) \in Nat
  BY JoinedType, LenProperties DEF ListInv
<1>2. /\ ChunkSize \in Nat /\ ChunkSize > 0 /\ c \in Int /\ last \in Int
      /\ FirstChunk \in Int /\ put \in Nat
  BY <1>1, StreamAssumption DEF Chunk, ListInv, TypeOK
<1>3. ASSUME NEW d \in FirstChunk..last
      PROVE  /\ from(d) \in Int /\ from(d) >= 0 /\ to(d) \in Int /\ to(d) <= len
             /\ from(d) < to(d)
             /\ from(d) = d * ChunkSize - FirstChunk * ChunkSize
  <2>1. d \in Int /\ d >= FirstChunk
    BY <1>2
  <2>2. from(d) \in Int /\ from(d) >= 0 /\ from(d) = d * ChunkSize - FirstChunk * ChunkSize
    BY <1>2, <2>1
  <2>3. CASE d < last
    <3>1. from(last) - from(d) = (last - d) * ChunkSize
      BY <1>2, <2>1
    <3>2. (last - d) * ChunkSize >= ChunkSize
      BY <1>2, <2>1, <2>3
    <3>3. from(last) \in Int
      BY <1>2
    <3> QED
      BY <1>1, <1>2, <2>2, <2>3, <3>1, <3>2, <3>3
  <2>4. CASE d = last
    BY <1>1, <2>2, <2>4
  <2> QED
    BY <1>2, <2>1, <2>3, <2>4
<1>4. ASSUME NEW d \in FirstChunk..last
      PROVE  /\ Len(Filled(n, last, d)) = to(d) - from(d)
             /\ \A i \in 1..(to(d) - from(d)) : Filled(n, last, d)[i] = Joined(n)[from(d) + i]
  <2> DEFINE a == from(d)
             b == to(d)
  <2>1. /\ a \in Int /\ a >= 0 /\ b \in Int /\ b <= len /\ a < b
    BY <1>3
  <2>2. Filled(n, last, d) = SubSeq(Joined(n), a + 1, b)
    BY DEF Filled
  <2> HIDE DEF a, b
  <2>3. a + 1 \in Int /\ \A i \in (a + 1)..b : Joined(n)[i] \in Byte
    BY <1>1, <2>1, ElementOfSeq
  <2>4. /\ Len(SubSeq(Joined(n), a + 1, b)) = b - a
        /\ \A i \in 1..(b - a) : SubSeq(Joined(n), a + 1, b)[i] = Joined(n)[a + i]
    <3>1. /\ Len(SubSeq(Joined(n), a + 1, b)) = IF a + 1 <= b THEN b - (a + 1) + 1 ELSE 0
          /\ \A i \in 1..(b - (a + 1) + 1) :
               SubSeq(Joined(n), a + 1, b)[i] = Joined(n)[(a + 1) + i - 1]
      BY <2>1, <2>3, SubSeqProperties
    <3>2. b - (a + 1) + 1 = b - a /\ \A i \in 1..(b - a) : (a + 1) + i - 1 = a + i
      BY <2>1
    <3> QED
      BY <2>1, <3>1, <3>2
  <2> QED
    BY <2>2, <2>4 DEF a, b
<1>5. /\ put = FirstChunk * ChunkSize + Size(FirstChunk)
      /\ \A i \in 1..len : Joined(n)[i] = FirstChunk * ChunkSize + i
  BY JoinedBytes
<1>6. c < last => Len(Filled(n, last, c)) = ChunkSize
  BY <1>2, <1>3, <1>4
<1>7. last * ChunkSize + Len(Filled(n, last, last)) = put + n
  <2>1. Len(Filled(n, last, last)) = len - from(last)
    BY <1>4
  <2>2. from(last) = last * ChunkSize - FirstChunk * ChunkSize
    BY <1>2
  <2>3. last * ChunkSize \in Int /\ FirstChunk * ChunkSize \in Int
    BY <1>2
  <2> HIDE DEF from
  <2> QED
    BY <1>1, <1>2, <1>5, <2>1, <2>2, <2>3
<1>8. ASSUME NEW i \in 1..Len(Filled(n, last, c))
      PROVE  Filled(n, last, c)[i] = c * ChunkSize + i
  <2> DEFINE a == from(c)
             b == to(c)
  <2>1. /\ a \in Int /\ a >= 0 /\ b \in Int /\ b <= len /\ a < b
        /\ a = c * ChunkSize - FirstChunk * ChunkSize
    BY <1>3, SMTT(30)
  <2>2. i \in 1..(b - a) /\ Filled(n, last, c)[i] = Joined(n)[a + i]
    BY <1>4
  <2> HIDE DEF a, b
  <2>3. a + i \in 1..len
    BY <1>1, <2>1, <2>2
  <2>4. Joined(n)[a + i] = FirstChunk * ChunkSize + (a + i)
    BY <1>5, <2>3
  <2>5. FirstChunk * ChunkSize \in Int /\ c * ChunkSize \in Int
    BY <1>2
  <2>6. i \in Int
    OBVIOUS
  <2>7. FirstChunk * ChunkSize + (a + i) = c * ChunkSize + i
    BY <2>1, <2>5, <2>6, SMTT(30)
  <2> QED
    BY <2>2, <2>4, <2>7
<1> QED
  BY <1>6, <1>7, <1>8

LEMMA LayoutPutChars ==
  ASSUME ListInv, Layout, NEW n \in 1..MaxPut, PutChars(n)
  PROVE  Layout'
<1>1. PICK last \in FirstChunk..MaxBytes :
        /\ put + n <= MaxBytes
        /\ (last - FirstChunk) * ChunkSize < Len(Joined(n))
        /\ Len(Joined(n)) <= (last - FirstChunk) * ChunkSize + ChunkSize
        /\ data' = [c \in Chunk |-> IF c \in FirstChunk..last
                                     THEN Filled(n, last, c) ELSE data[c]]
        /\ head' = last
        /\ put' = put + n
  BY DEF PutChars
<1>2. n \in Nat /\ FirstChunk \in Chunk /\ MaxBytes \in Nat
  BY <1>1, JoinedType, StreamAssumption DEF ListInv
<1>3. last \in Chunk /\ last \in FirstChunk..last /\ last # None
  BY <1>1, <1>2 DEF Chunk, None
<1>4. \A c \in FirstChunk..last :
        /\ c < last => Len(Filled(n, last, c)) = ChunkSize
        /\ last * ChunkSize + Len(Filled(n, last, last)) = put + n
        /\ \A i \in 1..Len(Filled(n, last, c)) : Filled(n, last, c)[i] = c * ChunkSize + i
  BY <1>1, <1>2, FilledBytes
<1>5. put' = head' * ChunkSize + Size(head)'
  BY <1>1, <1>3, <1>4 DEF Size
<1>6. ASSUME NEW c \in Chunk
      PROVE  /\ c < last => Size(c)' = ChunkSize
             /\ \A i \in 1..Size(c)' : data'[c][i] = c * ChunkSize + i
  <2>1. CASE c \in FirstChunk..last
    BY <1>1, <1>4, <2>1 DEF Size
  <2>2. CASE c \notin FirstChunk..last
    <3>1. data'[c] = data[c]
      BY <1>1, <2>2
    <3>2. c < last => c < head
      BY <1>2, <1>3, <2>2 DEF FirstChunk, Chunk, None, ListInv, TypeOK
    <3> QED
      BY <3>1, <3>2 DEF Layout, Size
  <2> QED
    BY <2>1, <2>2
<1> QED
  BY <1>1, <1>3, <1>5, <1>6 DEF Layout

LEMMA LayoutStep == ListInv /\ Layout /\ [Next]_vars => Layout'
<1> SUFFICES ASSUME ListInv, Layout, [Next]_vars PROVE Layout'
  OBVIOUS
<1>1. CASE \E n \in 1..MaxPut : PutChars(n)
  BY <1>1, LayoutPutChars
<1>2. CASE UNCHANGED <<data, head, put>>
  BY <1>2 DEF Layout, Size
<1>3. CASE ~(\E n \in 1..MaxPut : PutChars(n))
  <2>1. UNCHANGED <<data, head, put>>
    BY <1>3 DEF Next, vars, RawGetChar, UngetChar, MarkAsRead, GetReadData, SkipTo, SkipUpTo, GetBuffer,
      RestoreToMark, NothingThere
  <2> QED
    BY <1>2, <2>1
<1> QED
  BY <1>1, <1>3

\* Where the reader is: in the list of chunks, and in the stream of all bytes.
\* That _CharExist moves it on changes only the former.
LEMMA ReaderAt ==
  ASSUME Placed, tail # None
  PROVE  /\ TailAfterLook \in Chunk /\ TailAfterLook <= head /\ head \in Chunk
         /\ ptr[TailAfterLook] \in Nat /\ Size(TailAfterLook) \in Nat
         /\ ptr[TailAfterLook] <= Size(TailAfterLook)
         /\ ReadPos = TailAfterLook * ChunkSize + ptr[TailAfterLook]
         /\ TailAfterLook * ChunkSize + Size(TailAfterLook) <= put
         /\ mark # None /\ mark \in Chunk /\ mark <= tail /\ tail <= TailAfterLook
         /\ tail \in Chunk
<1> DEFINE c == TailAfterLook
<1>1. /\ c \in Chunk /\ tail <= c /\ mark <= c /\ c <= head /\ mark # None /\ head # None
      /\ tail \in Chunk /\ head \in Chunk /\ mark \in Chunk /\ mark <= tail
  BY LookType DEF Placed, Core, ListInv, TypeOK, NoDangling
<1>2. /\ ChunkSize \in Nat /\ put \in Nat
      /\ \A d \in Chunk : Size(d) \in Nat /\ ptr[d] \in Nat /\ ptr[d] <= Size(d)
  BY SizeType, StreamAssumption DEF Placed, Core, ListInv, TypeOK
<1>3. ReadPos = c * ChunkSize + ptr[c]
  <2>1. CASE c = tail
    BY <2>1 DEF ReadPos
  <2>2. CASE c # tail
    <3>1. c = tail + 1 /\ ~Readable(tail) /\ tail < head
      BY <2>2 DEF TailAfterLook
    <3>2. Size(tail) = ChunkSize
      BY <1>1, <3>1 DEF Placed, Layout
    <3>3. ptr[tail] = ChunkSize
      BY <1>1, <1>2, <3>1, <3>2 DEF Readable
    <3>4. ptr[c] = 0
      BY <1>1, <3>1 DEF Placed, Core, NothingReadAhead, Chunk
    <3> QED
      BY <1>1, <1>2, <3>1, <3>3, <3>4 DEF ReadPos, Chunk
  <2> QED
    BY <2>1, <2>2
<1>4. c * ChunkSize + Size(c) <= put
  <2>1. put = head * ChunkSize + Size(head)
    BY <1>1 DEF Placed, Layout
  <2>2. CASE c = head
    BY <1>1, <1>2, <2>1, <2>2 DEF Chunk
  <2>3. CASE c < head
    <3>1. Size(c) = ChunkSize
      BY <1>1, <2>3 DEF Placed, Layout
    <3>2. (head - c) * ChunkSize >= ChunkSize
      BY <1>1, <1>2, <2>3 DEF Chunk
    <3>3. (head - c) * ChunkSize = head * ChunkSize - c * ChunkSize
      BY <1>1, <1>2 DEF Chunk
    <3>4. head * ChunkSize \in Nat /\ c * ChunkSize \in Nat /\ Size(head) \in Nat
      BY <1>1, <1>2 DEF Chunk
    <3> QED
      BY <1>2, <2>1, <3>1, <3>2, <3>3, <3>4
  <2> QED
    BY <1>1, <2>2, <2>3 DEF Chunk
<1> QED
  BY <1>1, <1>2, <1>3, <1>4

\* Where the mark is: never ahead of the reader.
LEMMA MarkAt ==
  ASSUME Placed
  PROVE  /\ ReadPos \in Nat /\ MarkPos \in Nat /\ MarkPos <= ReadPos
         /\ mark # None => tail # None
         /\ tail = None => mark = None /\ ReadPos = 0 /\ MarkPos = 0
<1>1. CASE tail = None
  <2>1. mark = None
    BY <1>1 DEF Placed, Core, ListInv, NoDangling, TypeOK, Chunk, None
  <2> QED
    BY <1>1, <2>1 DEF ReadPos, MarkPos
<1>2. CASE tail # None
  <2>1. /\ mark # None /\ mark \in Chunk /\ mark <= tail /\ tail \in Chunk /\ tail <= head
        /\ ptr[tail] \in Nat /\ markIndex \in Nat /\ ChunkSize \in Nat
    BY <1>2, ReaderAt, StreamAssumption DEF Placed, Core, ListInv, TypeOK, NoDangling, Chunk, None
  <2>2. ReadPos = tail * ChunkSize + ptr[tail] /\ MarkPos = mark * ChunkSize + markIndex
    BY <1>2, <2>1 DEF ReadPos, MarkPos
  <2>3. tail * ChunkSize \in Nat /\ mark * ChunkSize \in Nat
    BY <2>1 DEF Chunk
  <2>4. CASE mark = tail
    <3>1. markIndex <= ptr[tail]
      BY <2>1, <2>4 DEF Placed, Trailing
    <3> QED
      BY <1>2, <2>1, <2>2, <2>3, <2>4, <3>1
  <2>5. CASE mark < tail
    <3>1. markIndex <= ChunkSize
      <4>1. Size(mark) = ChunkSize /\ markIndex <= Size(mark)
        BY <2>1, <2>5 DEF Placed, Layout, Core, ListInv, MarkInChunk, TypeOK, Chunk
      <4> QED
        BY <4>1
    <3>2. (tail - mark) * ChunkSize >= ChunkSize
      BY <2>1, <2>5 DEF Chunk
    <3>3. (tail - mark) * ChunkSize = tail * ChunkSize - mark * ChunkSize
      BY <2>1 DEF Chunk
    <3> QED
      BY <1>2, <2>1, <2>2, <2>3, <3>1, <3>2, <3>3
  <2> QED
    BY <2>1, <2>4, <2>5 DEF Chunk
<1> QED
  BY <1>1, <1>2
LEMMA PieceBytes ==
  ASSUME Placed, NEW c \in Chunk, NEW from \in Nat, NEW to \in Nat, from <= to, to <= Size(c)
  PROVE  /\ Piece(c, from, to) = Abstract!Span(c * ChunkSize + from, c * ChunkSize + to)
         /\ Piece(c, from, to) = <<>> <=> from = to
<1> DEFINE base == c * ChunkSize
           len  == to - from
           span == [i \in 1..len |-> (base + from) + i]
<1>1. data[c] \in Seq(Byte) /\ Size(c) \in Nat /\ base \in Nat /\ len \in Nat
  <2>1. data[c] \in Seq(Byte) /\ Size(c) \in Nat
    BY SizeType DEF Placed, Core, ListInv, TypeOK
  <2>2. c \in Nat /\ ChunkSize \in Nat
    BY StreamAssumption DEF Chunk
  <2>3. base \in Nat
    BY <2>2, SMTT(30)
  <2>4. len \in Nat
    OBVIOUS
  <2> QED
    BY <2>1, <2>3, <2>4
<1>2. \A i \in 1..Size(c) : data[c][i] = base + i
  BY DEF Placed, Layout
<1> HIDE DEF base
<1>3. from + 1 \in Int /\ \A i \in (from + 1)..to : data[c][i] \in Int
  BY <1>1, <1>2
<1>4. /\ Piece(c, from, to) \in Seq(Int) /\ Len(Piece(c, from, to)) = len
      /\ \A i \in 1..len : Piece(c, from, to)[i] = data[c][from + i]
  <2>1. /\ SubSeq(data[c], from + 1, to) \in Seq(Int)
        /\ Len(SubSeq(data[c], from + 1, to)) = IF from + 1 <= to THEN to - (from + 1) + 1 ELSE 0
        /\ \A i \in 1..(to - (from + 1) + 1) :
             SubSeq(data[c], from + 1, to)[i] = data[c][(from + 1) + i - 1]
    BY <1>3, SubSeqProperties
  <2>2. to - (from + 1) + 1 = len /\ \A i \in 1..len : (from + 1) + i - 1 = from + i
    OBVIOUS
  <2> QED
    BY <2>1, <2>2 DEF Piece
<1>5. span \in Seq(Int) /\ Len(span) = len /\ \A i \in 1..len : span[i] = (base + from) + i
  BY <1>1
<1>6. \A i \in 1..len : Piece(c, from, to)[i] = span[i]
  <2> TAKE i \in 1..len
  <2>1. from + i \in 1..Size(c) /\ i \in Nat
    BY <1>1
  <2>2. Piece(c, from, to)[i] = base + (from + i)
    BY <1>2, <1>4, <2>1
  <2>3. span[i] = (base + from) + i
    BY <1>5
  <2> HIDE DEF span, len
  <2> QED
    BY <1>1, <2>1, <2>2, <2>3
<1>7. Piece(c, from, to) = span
  <2> HIDE DEF span, len
  <2> QED
    BY <1>4, <1>5, <1>6, SeqEqual
<1>8. (base + to) - (base + from) = len
  BY <1>1
<1>9. Abstract!Span(base + from, base + to) = span
  BY <1>8 DEF Abstract!Span
<1>10. Piece(c, from, to) = <<>> <=> from = to
  BY <1>1, <1>4, EmptySeq
<1> QED
  BY <1>7, <1>9, <1>10 DEF base

\* The reader takes the next i bytes.
LEMMA TakesBytes ==
  ASSUME Placed, CharExist, NEW i \in Nat,
         ptr[TailAfterLook] + i <= Size(TailAfterLook),
         tail' = TailAfterLook,
         got' = Piece(TailAfterLook, ptr[TailAfterLook], ptr[TailAfterLook] + i),
         ptr' = [ptr EXCEPT ![TailAfterLook] = @ + i],
         UNCHANGED <<head, mark, markIndex, put>>
  PROVE  /\ Trailing'
         /\ ReadPos' = ReadPos + i /\ ReadPos' <= put /\ MarkPos' = MarkPos
         /\ got' = Abstract!Span(ReadPos, ReadPos') /\ (got' = <<>> <=> i = 0)
         /\ tail' # None /\ ptr'[tail'] = ptr[TailAfterLook] + i
         /\ mark = tail' => markIndex <= ptr[TailAfterLook]
<1> DEFINE c == TailAfterLook
<1>1. tail # None
  BY LookNone DEF Placed, Core
<1>2. /\ c \in Chunk /\ ptr[c] \in Nat /\ Size(c) \in Nat
      /\ ReadPos = c * ChunkSize + ptr[c]
      /\ c * ChunkSize + Size(c) <= put
      /\ mark # None /\ mark \in Chunk /\ mark <= tail /\ tail <= c /\ tail \in Chunk
  BY <1>1, ReaderAt
<1>3. c # None /\ c * ChunkSize \in Nat /\ put \in Nat /\ markIndex \in Nat
  BY <1>2, StreamAssumption DEF Chunk, None, Placed, Core, ListInv, TypeOK
<1> HIDE DEF c
<1>4. ptr'[c] = ptr[c] + i /\ tail' = c
  BY <1>2 DEF Placed, Core, ListInv, TypeOK, c
<1>5. ReadPos' = c * ChunkSize + (ptr[c] + i)
  BY <1>3, <1>4 DEF ReadPos
<1>6. MarkPos' = MarkPos
  BY DEF MarkPos
<1>7. got' = Abstract!Span(ReadPos, ReadPos') /\ (got' = <<>> <=> i = 0)
  BY <1>2, <1>5, PieceBytes DEF c
<1>8. mark = c => markIndex <= ptr[c]
  BY <1>2 DEF Placed, Trailing, Chunk
<1>9. Trailing'
  BY <1>2, <1>3, <1>4, <1>8 DEF Trailing
<1> QED
  BY <1>2, <1>3, <1>4, <1>5, <1>6, <1>7, <1>8, <1>9 DEF c

\* One call, seen in the stream of all bytes
Moved ==
  \/ ReadPos' > ReadPos /\ ReadPos' <= put /\ got' = Abstract!Span(ReadPos, ReadPos')
       /\ UNCHANGED <<put, MarkPos>>
  \/ got' = <<>> /\ UNCHANGED <<put, ReadPos, MarkPos>>

LEMMA MovedReads ==
  ASSUME Placed, RawGetChar \/ SkipTo \/ GetBuffer
  PROVE  Trailing' /\ JustTaken' /\ Moved
<1> DEFINE c == TailAfterLook
<1>1. CASE NothingThere
  <2>1. /\ ~CharExist /\ tail' = TailAfterLook /\ got' = <<>>
        /\ UNCHANGED <<ptr, mark, markIndex, put>>
    BY <1>1 DEF NothingThere
  <2>2. tail' = tail
    BY <2>1, NothingMeansEnd, LookNone DEF Placed, Core
  <2> QED
    BY <2>1, <2>2 DEF Placed, Trailing, JustTaken, Moved, ReadPos, MarkPos
<1>2. CASE ~NothingThere
  <2>1. CharExist /\ tail' = c /\ UNCHANGED <<head, mark, markIndex, put>>
    BY <1>2 DEF RawGetChar, SkipTo, SkipUpTo, GetBuffer
  <2>2. c \in Chunk /\ ptr[c] \in Nat /\ Size(c) \in Nat /\ ptr[c] <= Size(c)
    BY <2>1, ReaderAt, LookNone DEF Placed, Core
  <2>3. PICK i \in Nat : /\ ptr[c] + i <= Size(c)
                         /\ ptr' = [ptr EXCEPT ![c] = @ + i]
                         /\ got' = Piece(c, ptr[c], ptr[c] + i)
    <3>1. CASE RawGetChar
      <4>1. ptr[c] + 1 <= Size(c)
        BY <2>1, <2>2 DEF CharExist, Readable
      <4> QED
        BY <1>2, <3>1, <4>1 DEF RawGetChar
    <3>2. CASE SkipTo
      <4>1. PICK i \in 0 .. Size(c) - ptr[c] : /\ ptr' = [ptr EXCEPT ![c] = @ + i]
                                                /\ got' = Piece(c, ptr[c], ptr[c] + i)
        BY <1>2, <3>2 DEF SkipTo, SkipUpTo
      <4>2. i \in Nat /\ ptr[c] + i <= Size(c)
        BY <2>2
      <4> QED
        BY <4>1, <4>2
    <3>3. CASE GetBuffer
      <4> DEFINE i == Size(c) - ptr[c]
      <4>1. i \in Nat /\ ptr[c] + i = Size(c) /\ ptr[c] + i <= Size(c)
        BY <2>2
      <4>2. ptr' = [ptr EXCEPT ![c] = Size(c)] /\ got' = Piece(c, ptr[c], Size(c))
        BY <1>2, <3>3 DEF GetBuffer
      <4>3. ptr' = [ptr EXCEPT ![c] = @ + i] /\ got' = Piece(c, ptr[c], ptr[c] + i)
        BY <4>1, <4>2
      <4> HIDE DEF i
      <4> QED
        BY <4>1, <4>3
    <3> QED
      BY <3>1, <3>2, <3>3
  <2>4. /\ Trailing'
        /\ ReadPos' = ReadPos + i /\ ReadPos' <= put /\ MarkPos' = MarkPos
        /\ got' = Abstract!Span(ReadPos, ReadPos') /\ (got' = <<>> <=> i = 0)
        /\ tail' # None /\ ptr'[tail'] = ptr[c] + i
        /\ mark = tail' => markIndex <= ptr[c]
    BY <2>1, <2>3, TakesBytes
  <2>5. ReadPos \in Nat /\ markIndex \in Nat
    BY MarkAt DEF Placed, Core, ListInv, TypeOK
  <2>6. JustTaken'
    BY <2>1, <2>2, <2>3, <2>4, <2>5 DEF JustTaken
  <2>7. Moved
    <3>1. CASE i = 0
      BY <2>1, <2>4, <2>5, <3>1 DEF Moved
    <3>2. CASE i > 0
      BY <2>1, <2>4, <2>5, <3>2 DEF Moved
    <3> QED
      BY <2>3, <3>1, <3>2
  <2> QED
    BY <2>4, <2>6, <2>7
<1> QED
  BY <1>1, <1>2
LEMMA MovedPutChars ==
  ASSUME Placed, NEW n \in 1..MaxPut, PutChars(n)
  PROVE  /\ Trailing' /\ JustTaken'
         /\ put' > put /\ UNCHANGED <<ReadPos, MarkPos, got>>
<1>1. /\ put' = put + n
      /\ IF head = None THEN tail' = FirstChunk /\ mark' = FirstChunk /\ markIndex' = 0
                        ELSE UNCHANGED <<tail, mark, markIndex>>
      /\ UNCHANGED <<ptr, got, lastCall>>
  BY DEF PutChars
<1>2. n \in Nat /\ n > 0 /\ put \in Nat
  BY StreamAssumption DEF Placed, Core, ListInv, TypeOK
<1>3. CASE head = None
  <2>1. tail = None /\ mark = None /\ tail' = 0 /\ mark' = 0 /\ markIndex' = 0
    BY <1>1, <1>3 DEF FirstChunk, Placed, Core, ListInv, NoDangling
  <2>2. ptr[0] = 0
    BY <1>3, StreamAssumption DEF Placed, Core, ListInv, EmptyBeyondHead, Chunk, None
  <2>3. ReadPos = 0 /\ MarkPos = 0 /\ ReadPos' = 0 /\ MarkPos' = 0
    BY <1>1, <2>1, <2>2, StreamAssumption DEF ReadPos, MarkPos, None
  <2> QED
    BY <1>1, <1>2, <2>1, <2>2, <2>3 DEF Trailing, JustTaken, Placed
<1>4. CASE head # None
  <2>1. UNCHANGED <<tail, mark, markIndex>>
    BY <1>1, <1>4
  <2> QED
    BY <1>1, <1>2, <2>1 DEF Trailing, JustTaken, Placed, ReadPos, MarkPos
<1> QED
  BY <1>3, <1>4

LEMMA MovedUngetChar ==
  ASSUME Placed, UngetChar
  PROVE  /\ Trailing' /\ JustTaken'
         /\ ReadPos > MarkPos /\ ReadPos' = ReadPos - 1 /\ got' = <<>> /\ UNCHANGED <<put, MarkPos>>
<1>1. tail # None /\ ptr[tail] > 0 /\ (mark = tail => markIndex < ptr[tail])
  BY DEF UngetChar, Placed, JustTaken
<1>2. /\ ptr' = [ptr EXCEPT ![tail] = @ - 1] /\ got' = <<>>
      /\ UNCHANGED <<tail, mark, markIndex, put>>
  BY <1>1 DEF UngetChar
<1>3. /\ mark # None /\ mark \in Chunk /\ mark <= tail /\ tail \in Chunk /\ ptr \in [Chunk -> Nat]
      /\ markIndex \in Nat /\ ChunkSize \in Nat
  BY <1>1, ReaderAt, StreamAssumption DEF Placed, Core, ListInv, TypeOK
<1>4. ptr'[tail] = ptr[tail] - 1 /\ ptr[tail] \in Nat /\ tail * ChunkSize \in Nat
  BY <1>2, <1>3 DEF Chunk
<1>5. ReadPos = tail * ChunkSize + ptr[tail] /\ ReadPos' = tail * ChunkSize + (ptr[tail] - 1)
  BY <1>1, <1>2, <1>4 DEF ReadPos
<1>6. MarkPos' = MarkPos
  BY <1>2 DEF MarkPos
<1>7. ReadPos > MarkPos
  <2>1. MarkPos = mark * ChunkSize + markIndex /\ mark * ChunkSize \in Nat
    BY <1>3 DEF MarkPos, Chunk
  <2>2. CASE mark = tail
    BY <1>1, <1>3, <1>4, <1>5, <2>1, <2>2
  <2>3. CASE mark < tail
    <3>1. head # None /\ tail <= head /\ head \in Chunk
      BY <1>1, ReaderAt, LookType DEF Placed, Core, ListInv, TypeOK, NoDangling
    <3>2. Size(mark) = ChunkSize /\ markIndex <= Size(mark)
      BY <1>3, <2>3, <3>1 DEF Placed, Layout, Core, ListInv, MarkInChunk, Chunk
    <3>3. (tail - mark) * ChunkSize >= ChunkSize
      BY <1>3, <2>3 DEF Chunk
    <3>4. (tail - mark) * ChunkSize = tail * ChunkSize - mark * ChunkSize
      BY <1>3 DEF Chunk
    <3> QED
      BY <1>1, <1>3, <1>4, <1>5, <2>1, <3>2, <3>3, <3>4
  <2> QED
    BY <1>3, <2>2, <2>3 DEF Chunk
<1>8. Trailing' /\ JustTaken'
  BY <1>1, <1>2, <1>3, <1>4 DEF Trailing, JustTaken
<1> QED
  BY <1>2, <1>4, <1>5, <1>6, <1>7, <1>8

LEMMA MovedMarkAsRead ==
  ASSUME Placed, MarkAsRead
  PROVE  /\ Trailing' /\ JustTaken'
         /\ MarkPos' = ReadPos /\ got' = <<>> /\ UNCHANGED <<put, ReadPos>>
<1>1. got' = <<>> /\ UNCHANGED <<ptr, tail, put>>
  BY DEF MarkAsRead
<1>2. CASE mark # None
  <2>1. mark' = tail /\ markIndex' = ptr[tail] /\ tail # None
    BY <1>2, MarkAt DEF MarkAsRead
  <2>2. ptr[tail] \in Nat
    BY <2>1, ReaderAt DEF Placed, Core, ListInv, TypeOK
  <2> QED
    BY <1>1, <2>1, <2>2 DEF Trailing, JustTaken, ReadPos, MarkPos
<1>3. CASE mark = None
  <2>1. UNCHANGED <<mark, markIndex>> /\ tail = None
    BY <1>3, ReaderAt DEF MarkAsRead
  <2> QED
    BY <1>1, <1>3, <2>1 DEF Trailing, JustTaken, ReadPos, MarkPos
<1> QED
  BY <1>2, <1>3

\* GetReadData hands out what follows the mark, no further than the reader.
LEMMA MovedGetReadData ==
  ASSUME Placed, GetReadData
  PROVE  /\ Trailing' /\ JustTaken' /\ UNCHANGED <<put, ReadPos>>
         /\ \/ got' = <<>> /\ UNCHANGED MarkPos
            \/ MarkPos' > MarkPos /\ MarkPos' <= ReadPos /\ got' = Abstract!Span(MarkPos, MarkPos')
<1>1. UNCHANGED <<data, ptr, head, tail, put>> /\ lastCall' = "GetReadData"
  BY DEF GetReadData, Call
<1>2. JustTaken' /\ UNCHANGED ReadPos
  BY <1>1 DEF JustTaken, ReadPos
<1>3. CASE mark = None \/ (Collected /\ mark = tail)
  <2>1. got' = <<>> /\ UNCHANGED <<mark, markIndex>>
    BY <1>3 DEF GetReadData
  <2> QED
    BY <1>1, <1>2, <2>1 DEF Placed, Trailing, MarkPos
<1>4. CASE ~(mark = None \/ (Collected /\ mark = tail))
  <2> DEFINE m    == IF Collected THEN mark + 1 ELSE mark
             from == IF Collected THEN 0 ELSE markIndex
             to   == IF m = tail THEN ptr[m] ELSE Size(m)
  <2>1. mark' = m /\ got' = Piece(m, from, to) /\ markIndex' = to
    BY <1>4 DEF GetReadData, Collect
  <2>2. tail # None /\ mark # None
    BY <1>4, MarkAt
  <2>3. /\ mark \in Chunk /\ mark <= tail /\ tail \in Chunk /\ head \in Chunk /\ tail <= head
        /\ markIndex \in Nat /\ markIndex <= Size(mark) /\ ChunkSize \in Nat
        /\ \A d \in Chunk : Size(d) \in Nat /\ ptr[d] \in Nat /\ ptr[d] <= Size(d)
    BY <2>2, ReaderAt, SizeType, StreamAssumption
       DEF Placed, Core, ListInv, TypeOK, NoDangling, MarkInChunk
  <2>4. /\ m \in Chunk /\ m <= tail
        /\ Collected => mark < tail /\ mark < head
    BY <1>4, <2>3, StreamAssumption DEF Chunk
  <2>5. \A d \in Chunk : d < tail => Size(d) = ChunkSize
    BY <2>3 DEF Placed, Layout, Chunk
  <2>6. MarkPos = m * ChunkSize + from
    <3>1. CASE Collected
      <4>1. markIndex = ChunkSize
        BY <2>3, <2>4, <2>5, <3>1 DEF Collected
      <4> QED
        BY <2>2, <2>3, <3>1, <4>1 DEF MarkPos, Chunk
    <3>2. CASE ~Collected
      BY <2>2, <3>2 DEF MarkPos
    <3> QED
      BY <3>1, <3>2
  <2>7. from \in Nat /\ to \in Nat /\ from <= to /\ to <= Size(m)
    <3>1. ~Collected /\ m = tail => markIndex <= ptr[tail]
      BY <2>2 DEF Placed, Trailing
    <3> QED
      BY <2>3, <2>4, <3>1 DEF Collected
  <2>8. m * ChunkSize \in Nat /\ tail * ChunkSize \in Nat /\ m # None
    BY <2>3, <2>4 DEF Chunk, None
  <2>9. MarkPos' = m * ChunkSize + to
    BY <2>1, <2>8 DEF MarkPos
  <2>10. m * ChunkSize + to <= ReadPos
    <3>1. ReadPos = tail * ChunkSize + ptr[tail]
      BY <2>2 DEF ReadPos
    <3>2. CASE m = tail
      BY <2>3, <2>8, <3>1, <3>2
    <3>3. CASE m < tail
      <4>1. to = ChunkSize
        BY <2>3, <2>4, <2>5, <3>3 DEF Chunk
      <4>2. (tail - m) * ChunkSize >= ChunkSize
        BY <2>3, <2>4, <3>3 DEF Chunk
      <4>3. (tail - m) * ChunkSize = tail * ChunkSize - m * ChunkSize
        BY <2>3, <2>4 DEF Chunk
      <4> HIDE DEF m, to
      <4> QED
        BY <2>3, <2>8, <3>1, <4>1, <4>2, <4>3
    <3> QED
      BY <2>3, <2>4, <3>2, <3>3 DEF Chunk
  <2>11. Trailing'
    <3>1. m = tail => to <= ptr[tail]
      BY <2>3
    <3> QED
      BY <1>1, <2>1, <3>1 DEF Trailing
  <2> HIDE DEF m, from, to
  <2>12. /\ got' = Abstract!Span(MarkPos, MarkPos')
         /\ got' = <<>> <=> from = to
    BY <2>1, <2>4, <2>6, <2>7, <2>9, PieceBytes
  <2>13. CASE from = to
    BY <1>1, <1>2, <2>6, <2>9, <2>11, <2>12, <2>13
  <2>14. CASE from < to
    BY <1>1, <1>2, <2>6, <2>7, <2>8, <2>9, <2>10, <2>11, <2>12, <2>14
  <2> QED
    BY <2>7, <2>13, <2>14
<1> QED
  BY <1>3, <1>4

-----------------------------------------------------------------------------
(* Every step is one of the stream's, or a stutter *)

LEMMA PlacedInit == Init => Placed
BY InitWakeup, StreamAssumption DEF Placed, Init, Core, Layout, Trailing, JustTaken, Size, Chunk, None

LEMMA PlacedStep ==
  ASSUME Forward, Placed, [Next]_vars
  PROVE  Placed'
<1>1. Core' /\ Layout'
  BY WakeupStep, LayoutStep DEF Placed, Core
<1>2. ~RestoreToMark
  BY DEF RestoreToMark, Call, Forward
<1>3. Trailing' /\ JustTaken'
  <2>1. CASE UNCHANGED vars
    BY <2>1 DEF vars, Placed, Trailing, JustTaken
  <2> QED
    BY <1>2, <2>1, MovedPutChars, MovedReads, MovedUngetChar, MovedMarkAsRead, MovedGetReadData DEF Next
<1> QED
  BY <1>1, <1>3 DEF Placed

LEMMA StreamStep ==
  ASSUME Placed, Forward, Forward', [Next]_vars
  PROVE  [Abstract!Next]_Abstract!vars
<1> USE DEF Promised
<1>0. ReadPos \in Nat /\ MarkPos \in Nat
  BY MarkAt
<1>1. CASE UNCHANGED vars
  BY <1>1 DEF vars, Abstract!vars, ReadPos, MarkPos
<1>2. ASSUME NEW n \in 1..MaxPut, PutChars(n) PROVE Abstract!Append_
  BY <1>2, MovedPutChars DEF Abstract!Append_
<1>3. CASE RawGetChar \/ SkipTo \/ GetBuffer
  <2>1. Moved
    BY <1>3, MovedReads
  <2>2. Abstract!Take \/ Abstract!TakeNothing
    BY <2>1 DEF Moved, Abstract!Take, Abstract!TakeNothing
  <2> QED
    BY <2>2 DEF Abstract!Next
<1>4. CASE UngetChar
  <2>1. Abstract!GiveBack
    BY <1>4, MovedUngetChar DEF Abstract!GiveBack
  <2> QED
    BY <2>1 DEF Abstract!Next
<1>5. CASE MarkAsRead
  <2>1. Abstract!Settle
    BY <1>5, MovedMarkAsRead DEF Abstract!Settle
  <2> QED
    BY <2>1 DEF Abstract!Next
<1>6. CASE GetReadData
  <2>1. Abstract!Collect \/ Abstract!TakeNothing
    BY <1>6, MovedGetReadData DEF Abstract!Collect, Abstract!TakeNothing
  <2> QED
    BY <2>1 DEF Abstract!Next
<1>7. ~RestoreToMark
  BY DEF RestoreToMark, Call, Forward
<1> QED
  BY <1>1, <1>2, <1>3, <1>4, <1>5, <1>6, <1>7 DEF Next, Abstract!Next

\* The stream a user gets that only moves forward is the stream of ByteStream:
\* whatever calls it makes and however the blocks fall into chunks, it gets the
\* bytes that PutChars was given, in order, none twice and none missing, and
\* GetReadData hands out every byte read once.
THEOREM StreamKeepsItsPromise == Spec => StreamPromise
<1> DEFINE PInv == ListInv /\ (Forward => Placed)
<1>1. Init => PInv
  BY InitList, PlacedInit
<1>2. PInv /\ [Next]_vars => PInv'
  BY ListStep, PlacedStep, CallsKept DEF Forward
<1>3. Init => Abstract!Init
  BY DEF Init, Abstract!Init, Promised, ReadPos, MarkPos
<1>4. PInv /\ PInv' /\ [Next]_vars => [Abstract!Next]_Abstract!vars
  <2> SUFFICES ASSUME PInv, [Next]_vars PROVE [Abstract!Next]_Abstract!vars
    OBVIOUS
  <2>1. Forward' <=> Forward
    BY CallsKept DEF Forward
  <2>2. CASE Forward
    BY <2>1, <2>2, StreamStep
  <2>3. CASE ~Forward
    BY <2>1, <2>3 DEF Promised, Abstract!vars
  <2> QED
    BY <2>2, <2>3
<1> QED
  BY <1>1, <1>2, <1>3, <1>4, PTL DEF Spec, StreamPromise, Abstract!Spec
=============================================================================
