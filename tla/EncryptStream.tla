---------------------------- MODULE EncryptStream ----------------------------
(***************************************************************************)
(* The encrypted way in of a telnet connection.  The reading thread        *)
(* decrypts a block as it arrives, when mDecrypt is set (Receive).  The    *)
(* window's thread finds the peer's START and END in the stream, later     *)
(* than the blocks behind them have arrived: at a START it decrypts what   *)
(* is already there, at an END it takes the decryption back (EncryptOption *)
(* and CryptoEngine).  There is no lock around mDecrypt and the engine,    *)
(* what GetBuffer gives ends with its chunk, and the engine remembers its  *)
(* last block only: a history variable says when one of these has mattered.*)
(*                                                                         *)
(* A token stands for a byte of text or for a whole START or END command.  *)
(* DES in CFB mode is kept by what it needs: the k-th encrypted byte comes *)
(* out right only when k - 1 bytes have gone through the engine before it. *)
(* Commands are not cut (TerminalInput has that case), and the engine was  *)
(* set up by the negotiation before.  Of the receive buffer there is what  *)
(* GetBuffer and RestoreToMark do to it: each chunk has its own Ptr, and   *)
(* only the marked chunk's is set back (BufferedStream has it all).        *)
(***************************************************************************)
EXTENDS Integers, Sequences, FiniteSets

CONSTANTS
  Texts,     \* what the peer may send
  ChunkSize, \* CNBUF_SIZE
  LastChunk, \* bound: as many chunks as the longest input needs, and one more
  MaxBlock   \* bound: the most bytes one recv returns

Token == {"x", "START", "END"}

ASSUME EncryptAssumption ==
  /\ Texts \subseteq Seq(Token)
  /\ ChunkSize \in Nat \ {0} /\ MaxBlock \in Nat \ {0} /\ LastChunk \in Nat
  /\ \A t \in Texts : Len(t) < LastChunk * ChunkSize

VARIABLES
  input,    \* what the peer sends in this behaviour
  cells,    \* the bytes in the receive buffer, by their place in the stream
  inHand,   \* the block Receive is about to put, as a sequence of cells
  decrypt,  \* mDecrypt
  engine,   \* how many bytes the engine has decrypted (mDecInitVec, mIVDecCount)
  lastIn,   \* lastIn, lastLength, mLastDecInitVec: what Decrypt last did
  tail,     \* the chunk the window's thread reads in
  ptr,      \* Ptr of each chunk: how much of it has been read
  mark,     \* where the reading goes back to: a chunk and an offset
  gui,      \* where the window's thread is
  shown,    \* the tokens it has taken as they were meant; 0 for another one
  missed    \* what has been missed so far, see Misses

stream == <<tail, ptr, mark>>
vars   == <<input, cells, inHand, decrypt, engine, lastIn, stream, gui, shown, missed>>

put   == Len(cells)
Chunk == 0 .. LastChunk
Nothing == <<>>
NoLast == [block |-> <<>>, engine |-> -1]

Init ==
  /\ input \in Texts
  /\ cells = <<>> /\ inHand = Nothing
  /\ decrypt = FALSE /\ engine = 0 /\ lastIn = NoLast
  /\ tail = 0 /\ ptr = [c \in Chunk |-> 0] /\ mark = [chunk |-> 0, index |-> 0]
  /\ gui = "idle" /\ shown = <<>> /\ missed = {}

-----------------------------------------------------------------------------
(* What the peer sends: encrypted from behind a START up to the END itself *)

IsEncrypted(i) ==
  \E s \in 1 .. i - 1 : /\ input[s] = "START"
                        /\ \A e \in s + 1 .. i - 1 : input[e] # "END"

\* How many of the first i tokens are encrypted.
Encrypted(i) == Cardinality({k \in 1 .. i : IsEncrypted(k)})

Cell(i, form) == [id |-> i, form |-> form]
Raw(i) == Cell(i, IF IsEncrypted(i) THEN "cipher" ELSE "plain")

-----------------------------------------------------------------------------
(* CryptoEngine *)

\* The cell as the k-th byte that goes through the engine.
DecryptCell(c, k) ==
  IF c.form = "cipher" /\ Encrypted(c.id) = k THEN Cell(c.id, "plain")
                                              ELSE Cell(c.id, "garbage")

Decrypt(block) == [i \in DOMAIN block |-> DecryptCell(block[i], engine + i)]

\* What a Decrypt of block does to the engine.
Decrypted(block) ==
  /\ engine' = engine + Len(block)
  /\ lastIn' = [block |-> block, engine |-> engine]

\* The engine goes back to the end of what stays decrypted.
Undone(length) ==
  /\ engine' = lastIn.engine + Len(lastIn.block) - length
  /\ lastIn' = NoLast

-----------------------------------------------------------------------------
(* What is not noticed, each with all that it takes *)

\* A byte stays as it is though the other end has begun or ended encrypting: it
\* was received after recievedSTART or recievedEND went through the buffer, with
\* mDecrypt still to be changed, or before and not yet put there ("raced").
\* GetBuffer gave the next chunk, of which RestoreToMark does not know, or less
\* than has arrived behind an END ("split").  More is behind an END than the last
\* block that was decrypted ("outran").
Misses(raced, split, outran) ==
  missed' = missed \cup (IF raced THEN {"raced"} ELSE {})
                   \cup (IF split THEN {"split"} ELSE {})
                   \cup (IF outran THEN {"outran"} ELSE {})

-----------------------------------------------------------------------------
(* The reading thread *)

\* Receive looks at mDecrypt and decrypts.
Receive ==
  /\ inHand = Nothing
  /\ \E j \in put + 1 .. put + MaxBlock :
       LET block == [i \in 1 .. j - put |-> Raw(put + i)] IN
       /\ j <= Len(input)
       /\ IF decrypt THEN inHand' = Decrypt(block) /\ Decrypted(block)
                     ELSE inHand' = block /\ UNCHANGED <<engine, lastIn>>
  /\ Misses((gui = "started" /\ ~decrypt) \/ (gui = "ended" /\ decrypt), FALSE, FALSE)
  /\ UNCHANGED <<input, cells, decrypt, stream, gui, shown>>

\* Then it puts the block into the stream.
PutChars ==
  /\ inHand # Nothing
  /\ cells' = cells \o inHand
  /\ inHand' = Nothing
  /\ UNCHANGED <<input, decrypt, engine, lastIn, stream, gui, shown, missed>>

-----------------------------------------------------------------------------
(* The window's thread *)

OfWindow == UNCHANGED <<input, inHand>>

\* _CharExist goes one chunk on when the one it is in has been read.
Size(c) == IF put <= c * ChunkSize THEN 0
           ELSE IF put < (c + 1) * ChunkSize THEN put - c * ChunkSize ELSE ChunkSize
TailAfterLook == IF ptr[tail] >= Size(tail) /\ Size(tail + 1) > 0 THEN tail + 1 ELSE tail
CharExist == ptr[TailAfterLook] < Size(TailAfterLook)
Here     == TailAfterLook * ChunkSize + ptr[TailAfterLook] + 1

\* The next token goes where it is meant to, if it can be made out.  A command
\* is marked as read.
Read ==
  /\ gui = "idle" /\ CharExist
  /\ LET c == cells[Here]
         token == input[c.id] IN
     /\ shown' = Append(shown, IF c.form = "plain" THEN c.id ELSE 0)
     /\ gui' = IF c.form # "plain" \/ token = "x" THEN "idle"
               ELSE IF token = "START" THEN "start" ELSE "end"
  /\ tail' = TailAfterLook
  /\ ptr' = [ptr EXCEPT ![tail'] = @ + 1]
  /\ mark' = [chunk |-> tail', index |-> ptr'[tail']]
  /\ UNCHANGED <<cells, decrypt, engine, lastIn, missed>> /\ OfWindow

\* GetBuffer takes the rest of a chunk.
Buffer == IF CharExist
            THEN SubSeq(cells, Here, TailAfterLook * ChunkSize + Size(TailAfterLook))
            ELSE <<>>

Write(block) ==
  cells' = [i \in DOMAIN cells |->
              IF i \in Here .. Here + Len(block) - 1 THEN block[i - Here + 1]
                                                      ELSE cells[i]]

\* What the reader has read of each chunk when GetBuffer has taken that.
PtrAfterBuffer == [ptr EXCEPT ![TailAfterLook] = Size(TailAfterLook)]

RestoreToMark(p) ==
  /\ tail' = mark.chunk
  /\ ptr' = [p EXCEPT ![mark.chunk] = mark.index]

\* A slip: it is decrypted once more.
BufferToDecryptAgain == CharExist

\* The rest of the stream is decrypted unless that has been done as it arrived.
BufferToDecrypt == ~decrypt /\ CharExist

\* recievedSTART: one turn of the loop over GetBuffer.
DecryptRest ==
  /\ gui = "start" /\ BufferToDecrypt
  /\ Write(Decrypt(Buffer)) /\ Decrypted(Buffer)
  /\ tail' = TailAfterLook /\ ptr' = PtrAfterBuffer
  /\ Misses(FALSE, TailAfterLook # mark.chunk, FALSE)
  /\ UNCHANGED <<mark, decrypt, gui, shown>> /\ OfWindow

\* GetBuffer finds no more, and the reader goes back.
Start ==
  /\ gui = "start" /\ ~BufferToDecrypt
  /\ RestoreToMark(ptr)
  /\ gui' = "started"
  /\ Misses(~decrypt /\ inHand # Nothing, FALSE, FALSE)
  /\ UNCHANGED <<mark, cells, decrypt, engine, lastIn, shown>> /\ OfWindow

Started ==
  /\ gui = "started"
  /\ decrypt' = TRUE
  /\ gui' = "idle"
  /\ UNCHANGED <<stream, cells, engine, lastIn, shown, missed>> /\ OfWindow

\* recievedEND, while decrypting: UndoDecrypt on what the one GetBuffer gives.
\* It counts from the end of the last block that was decrypted; with a longer
\* rest than that it runs out of its buffer.
Undo ==
  /\ gui = "end"
  /\ IF ~decrypt \/ Buffer = <<>> \/ lastIn = NoLast
       THEN gui' = "ended" /\ UNCHANGED <<cells, engine, lastIn>>
       ELSE LET length == Len(Buffer)
                n == Len(lastIn.block) - length IN
            IF n < 0
              THEN gui' = "crashed" /\ UNCHANGED <<cells, engine, lastIn>>
              ELSE /\ gui' = "ended"
                   /\ Write(SubSeq(lastIn.block, n + 1, n + length))
                   /\ Undone(length)
  /\ IF decrypt THEN RestoreToMark(IF CharExist THEN PtrAfterBuffer ELSE ptr)
                ELSE UNCHANGED <<tail, ptr>>
  /\ Misses(decrypt /\ inHand # Nothing,
            decrypt /\ CharExist /\ (TailAfterLook # mark.chunk \/ Here + Len(Buffer) <= put),
            decrypt /\ Len(Buffer) > Len(lastIn.block))
  /\ UNCHANGED <<mark, decrypt, shown>> /\ OfWindow

Ended ==
  /\ gui = "ended"
  /\ decrypt' = FALSE
  /\ gui' = "idle"
  /\ UNCHANGED <<stream, cells, engine, lastIn, shown, missed>> /\ OfWindow

Next == Receive \/ PutChars \/ Read \/ DecryptRest \/ Start \/ Started
        \/ Undo \/ Ended

Spec == Init /\ [][Next]_vars

-----------------------------------------------------------------------------
(* Properties *)

\* When everything that has arrived has been read, all of it has been, and both
\* ends agree on whether the next byte is encrypted and on where the engine is.
InStep ==
  gui = "idle" /\ ~CharExist /\ inHand = Nothing /\ put < Len(input) =>
    /\ Len(shown) = put
    /\ (decrypt <=> IsEncrypted(put + 1))
    /\ engine = Encrypted(put)

\* The window's thread reads what the peer sent: however the stream falls into
\* blocks and chunks, and whatever arrives while a START or END is being worked
\* on, no byte is skipped or decrypted twice, not at all, out of its turn, or for
\* another one; and no engine call gets a length it cannot serve.  There are no
\* other exceptions than what Misses names.
ReadAsSent ==
  missed = {} =>
    gui # "crashed" /\ InStep /\ \A k \in 1..Len(shown) : shown[k] = k
=============================================================================
