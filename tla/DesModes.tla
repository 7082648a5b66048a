------------------------------- MODULE DesModes -------------------------------
(***************************************************************************)
(* The DES library as its callers use it: two ends with the same key and   *)
(* the same ivec, one of which encrypts and one decrypts, each in calls    *)
(* of its own lengths.  A call is a loop over units: blocks, the numbits   *)
(* of cfb and ofb, or single bytes.  Between the calls an end has only     *)
(* what the call wrote back to its caller's ivec and num, so the two stay  *)
(* together only if that is all the loop goes on with, whichever way the   *)
(* calls divide the text.                                                  *)
(*                                                                         *)
(* A byte is the set of its bits.  The S boxes may be any function, and so *)
(* may the choice of bits for a round's key: decryption rests on neither.  *)
(***************************************************************************)
EXTENDS Integers, Sequences

CONSTANTS
  BlockSize,    \* bytes of a block, 8 in the code
  Bits,         \* the bits of a byte
  IP(_), FP(_), \* the first and the last permutation of a block
  RoundKeys,    \* the keys of a round
  Choice(_, _), \* PC2: the round's key of a key turned by so many bits
  Mangle(_, _), \* what D_ENCRYPT adds for a half and a round's key
  Keys,         \* the keys, three of them at a time
  Modes,        \* the functions that are looked at, see Mode
  Feedback,     \* numbits of cfb and ofb, in bytes
  MaxBytes      \* bound on the bytes that are encrypted

Byte  == SUBSET Bits
Half  == BlockSize \div 2
Word  == [1..Half -> Byte]
Block == [1..BlockSize -> Byte]

Mode ==
  [chain   : {"ecb", "cbc", "pcbc", "cfb", "ofb", "cfb64", "ofb64"},
   triple  : BOOLEAN,  \* des_encrypt3 and des_decrypt3 instead of des_encrypt
   carries : BOOLEAN]  \* ivec is written back: a text can go on in the next call

DesAssumption ==
  /\ BlockSize \in Nat \ {0} /\ BlockSize = 2 * Half
  /\ Feedback \in 1..BlockSize /\ MaxBytes \in Nat
  /\ Modes \subseteq Mode
  /\ \A b \in Block : /\ IP(b) \in Block /\ FP(b) \in Block
                      /\ FP(IP(b)) = b /\ IP(FP(b)) = b
  /\ \A t \in Keys : \A j \in 1..3, i \in 0..28 : Choice(t[j], i) \in RoundKeys
  /\ \A w \in Word : \A k \in RoundKeys : Mangle(w, k) \in Word

VARIABLES
  mode,   \* the function that is called
  keys,   \* the keys of both ends
  sealer, \* the end that encrypts, see End
  opener, \* the end that decrypts
  trail,  \* what was encrypted, unit by unit
  got,    \* what was decrypted
  undo    \* what CryptoEngine keeps of its last Decrypt, see Undo

vars == <<mode, keys, sealer, opener, trail, got, undo>>

-----------------------------------------------------------------------------
(* Words and blocks *)

ByteXor(a, b) == (a \ b) \cup (b \ a)

\* Of two words or two blocks.
Xor(a, b) ==
  CHOOSE x \in [DOMAIN a -> Byte] : \A i \in DOMAIN a : x[i] = ByteXor(a[i], b[i])

Zero == [i \in 1..BlockSize |-> {}]

\* c2ln and l2cn: only the first n bytes are there.
Cut(b, n) == [i \in 1..BlockSize |-> IF i <= n THEN b[i] ELSE {}]

Word0(b) == [i \in 1..Half |-> b[i]]
Word1(b) == [i \in 1..Half |-> b[Half + i]]
Joined(v, w) == [i \in 1..BlockSize |-> IF i <= Half THEN v[i] ELSE w[i - Half]]

-----------------------------------------------------------------------------
(* The cipher *)

\* How far the key has been turned in each round: shifts2.
Turned == <<1, 2, 4, 6, 8, 10, 12, 14, 15, 17, 19, 21, 23, 25, 27, 28>>

des_set_key(key) == [i \in 0..15 |-> Choice(key, Turned[i + 1])]

\* D_ENCRYPT(l, r, s), with l and r changing their names for the next one.
DEncrypt(d, k) == <<d[2], Xor(d[1], Mangle(d[2], k))>>

\* A turn of the loops of des_encrypt2, forwards from the round i and back.
Forth(d, s, i) ==
  DEncrypt(DEncrypt(DEncrypt(DEncrypt(d, s[i]), s[i + 1]), s[i + 2]), s[i + 3])
Back(d, s, i) ==
  DEncrypt(DEncrypt(DEncrypt(DEncrypt(d, s[i]), s[i - 1]), s[i - 2]), s[i - 3])

\* r is loaded from the first word and l from the second, and they are left the
\* other way round.
Loaded(b)  == <<Word1(b), Word0(b)>>
Stored(d)  == Joined(d[1], d[2])

Rounds(b, s)     == Stored(Forth(Forth(Forth(Forth(Loaded(b), s, 0), s, 4), s, 8), s, 12))
RoundsBack(b, s) == Stored(Back(Back(Back(Back(Loaded(b), s, 15), s, 11), s, 7), s, 3))

des_encrypt(b, s)      == FP(Rounds(IP(b), s))
des_encrypt_back(b, s) == FP(RoundsBack(IP(b), s))

des_encrypt3(b, s) == FP(Rounds(RoundsBack(Rounds(IP(b), s[1]), s[2]), s[3]))
des_decrypt3(b, s) == FP(RoundsBack(Rounds(RoundsBack(IP(b), s[3]), s[2]), s[1]))

schedule == [i \in 1..3 |-> des_set_key(keys[i])]

Enciphered(b) == IF mode.triple THEN des_encrypt3(b, schedule)
                                ELSE des_encrypt(b, schedule[1])
Deciphered(b) == IF mode.triple THEN des_decrypt3(b, schedule)
                                ELSE des_encrypt_back(b, schedule[1])

-----------------------------------------------------------------------------
(* What one turn of a loop makes of a unit: out, and the chain it goes on   *)
(* with, that is the local copy of ivec and the place in it                 *)

Chain(reg, n)    == [reg |-> reg, n |-> n]
Turn(out, chain) == [out |-> out, chain |-> chain]

EcbSealed(p, c) == Turn(Enciphered(p), c)
EcbOpened(x, c) == Turn(Deciphered(x), c)

CbcSealed(p, c) ==
  LET x == Enciphered(Xor(p, c.reg)) IN Turn(x, Chain(x, c.n))
CbcOpened(x, c) == Turn(Xor(Deciphered(x), c.reg), Chain(x, c.n))

PcbcSealed(p, c) ==
  LET x == Enciphered(Xor(p, c.reg)) IN Turn(x, Chain(Xor(p, x), c.n))
PcbcOpened(x, c) ==
  LET p == Xor(Deciphered(x), c.reg) IN Turn(p, Chain(Xor(p, x), c.n))

\* The register of cfb drops its first bytes and takes the encrypted ones.
Shifted(reg, x) ==
  [i \in 1..BlockSize |-> IF i <= BlockSize - Feedback THEN reg[i + Feedback]
                                             ELSE x[i - (BlockSize - Feedback)]]

CfbSealed(p, c) ==
  LET x == Cut(Xor(p, Enciphered(c.reg)), Feedback) IN Turn(x, Chain(Shifted(c.reg, x), c.n))
CfbOpened(x, c) ==
  Turn(Cut(Xor(x, Enciphered(c.reg)), Feedback), Chain(Shifted(c.reg, x), c.n))

OfbTurned(t, c) ==
  LET v == Enciphered(c.reg) IN Turn(Cut(Xor(t, v), Feedback), Chain(v, c.n))

\* The byte functions make a new block when they have used the last one.
Fresh(c) == IF c.n = 0 THEN Enciphered(c.reg) ELSE c.reg
After(n) == (n + 1) % BlockSize

\* A unit of one byte.
Single(byte) == [i \in 1..BlockSize |-> IF i = 1 THEN byte ELSE {}]

Cfb64Sealed(p, c) ==
  LET v == Fresh(c)
      x == ByteXor(p[1], v[c.n + 1])
  IN Turn(Single(x), Chain([v EXCEPT ![c.n + 1] = x], After(c.n)))
Cfb64Opened(x, c) ==
  LET v == Fresh(c)
  IN Turn(Single(ByteXor(x[1], v[c.n + 1])), Chain([v EXCEPT ![c.n + 1] = x[1]], After(c.n)))

Ofb64Turned(t, c) ==
  LET v == Fresh(c) IN Turn(Single(ByteXor(t[1], v[c.n + 1])), Chain(v, After(c.n)))

-----------------------------------------------------------------------------
(* The functions *)

des_ecb_encrypt        == [chain |-> "ecb", triple |-> FALSE, carries |-> FALSE]
des_ecb3_encrypt       == [chain |-> "ecb", triple |-> TRUE, carries |-> FALSE]
des_cbc_encrypt        == [chain |-> "cbc", triple |-> FALSE, carries |-> FALSE]
des_ncbc_encrypt       == [chain |-> "cbc", triple |-> FALSE, carries |-> TRUE]
des_ede3_cbc_encrypt   == [chain |-> "cbc", triple |-> TRUE, carries |-> TRUE]
des_pcbc_encrypt       == [chain |-> "pcbc", triple |-> FALSE, carries |-> FALSE]
des_cfb_encrypt        == [chain |-> "cfb", triple |-> FALSE, carries |-> TRUE]
des_ofb_encrypt        == [chain |-> "ofb", triple |-> FALSE, carries |-> TRUE]
des_cfb64_encrypt      == [chain |-> "cfb64", triple |-> FALSE, carries |-> TRUE]
des_ede3_cfb64_encrypt == [chain |-> "cfb64", triple |-> TRUE, carries |-> TRUE]
des_ofb64_encrypt      == [chain |-> "ofb64", triple |-> FALSE, carries |-> TRUE]
des_ede3_ofb64_encrypt == [chain |-> "ofb64", triple |-> TRUE, carries |-> TRUE]

-----------------------------------------------------------------------------
(* A call *)

Sealed(p, c) ==
  CASE mode.chain = "ecb"   -> EcbSealed(p, c)
    [] mode.chain = "cbc"   -> CbcSealed(p, c)
    [] mode.chain = "pcbc"  -> PcbcSealed(p, c)
    [] mode.chain = "cfb"   -> CfbSealed(p, c)
    [] mode.chain = "ofb"   -> OfbTurned(p, c)
    [] mode.chain = "cfb64" -> Cfb64Sealed(p, c)
    [] mode.chain = "ofb64" -> Ofb64Turned(p, c)

Opened(x, c) ==
  CASE mode.chain = "ecb"   -> EcbOpened(x, c)
    [] mode.chain = "cbc"   -> CbcOpened(x, c)
    [] mode.chain = "pcbc"  -> PcbcOpened(x, c)
    [] mode.chain = "cfb"   -> CfbOpened(x, c)
    [] mode.chain = "ofb"   -> OfbTurned(x, c)
    [] mode.chain = "cfb64" -> Cfb64Opened(x, c)
    [] mode.chain = "ofb64" -> Ofb64Turned(x, c)

\* The bytes of a unit.
Unit == IF mode.chain \in {"ecb", "cbc", "pcbc"} THEN BlockSize
        ELSE IF mode.chain \in {"cfb", "ofb"} THEN Feedback ELSE 1

\* Of the chained blocks the last one of a call may be there in part: it is
\* filled up with zeros, and comes out as a whole block.
Lengths(last) == IF last /\ mode.chain \in {"cbc", "pcbc"} THEN 1..BlockSize ELSE {Unit}

\* An end: the caller's ivec and num, the chain of the loop, and the units it
\* has still to do; none between the calls.
End(iv, num, chain, left) == [iv |-> iv, num |-> num, chain |-> chain, left |-> left]

Called(e, k) == End(e.iv, e.num, Chain(e.iv, e.num), k)

\* A slip of TurnedTo: num is not written back.
TurnedForgets(e, chain) ==
  IF e.left > 1 THEN End(e.iv, e.num, chain, e.left - 1)
  ELSE End(IF mode.carries THEN chain.reg ELSE e.iv, e.num, chain, 0)

\* After a turn, which returns from the call if it was the last one.
TurnedTo(e, chain) ==
  IF e.left > 1 THEN End(e.iv, e.num, chain, e.left - 1)
  ELSE End(IF mode.carries THEN chain.reg ELSE e.iv, chain.n, chain, 0)

NoUndo == End(Zero, 0, Chain(Zero, 0), -1)

Init ==
  /\ mode \in Modes /\ keys \in Keys
  /\ \E iv \in Block : sealer = End(iv, 0, Chain(iv, 0), 0)
  /\ opener = sealer
  /\ trail = <<>> /\ got = <<>>
  /\ undo = [at |-> 0, end |-> NoUndo]

CallSeal(k) ==
  /\ sealer.left = 0
  /\ mode.chain = "ecb" => k = 1
  /\ (Len(trail) + k) * Unit <= MaxBytes
  /\ sealer' = Called(sealer, k)
  /\ UNCHANGED <<mode, keys, opener, trail, got, undo>>

\* A unit is kept with the chain it met.
SealUnit ==
  /\ sealer.left > 0
  /\ \E n \in Lengths(sealer.left = 1) : \E text \in {Cut(b, n) : b \in Block} :
       LET turn == Sealed(text, sealer.chain) IN
       /\ trail' = Append(trail, [text |-> text, size |-> n, code |-> turn.out,
                                 chain |-> sealer.chain, last |-> sealer.left = 1])
       /\ sealer' = TurnedTo(sealer, turn.chain)
  /\ UNCHANGED <<mode, keys, opener, got, undo>>

at == Len(got)

\* The units behind those that were decrypted that a call may be given: they have
\* left a call that has returned.  What is not carried on must be given as it came.
Arrived(k) ==
  /\ at + k \in 1..Len(trail)
  /\ \E i \in at + k .. Len(trail) : trail[i].last
  /\ mode.carries \/ \A i \in at + 1 .. at + k : trail[i].last <=> i = at + k

\* des_..._encrypt, or CryptoEngine::Decrypt, which keeps what it had before.
CallOpen(k) ==
  /\ opener.left = 0 /\ k > 0 /\ Arrived(k)
  /\ opener' = Called(opener, k)
  /\ undo' = IF mode = des_cfb64_encrypt
               THEN [at |-> at, end |-> End(opener.iv, opener.num, Chain(Zero, 0), k)]
               ELSE undo
  /\ UNCHANGED <<mode, keys, sealer, trail, got>>

OpenUnit ==
  /\ opener.left > 0
  /\ LET turn == Opened(trail[at + 1].code, opener.chain) IN
     /\ got' = Append(got, Cut(turn.out, trail[at + 1].size))
     /\ opener' = TurnedTo(opener, turn.chain)
  /\ UNCHANGED <<mode, keys, sealer, trail, undo>>

\* CryptoEngine::UndoDecrypt: the last call is done once more, but only for the
\* first k of its units.
UndoDecrypt(k) ==
  /\ opener.left = 0 /\ k >= 0 /\ k <= undo.end.left
  /\ opener' = IF k = 0 THEN [undo.end EXCEPT !.left = 0] ELSE Called(undo.end, k)
  /\ got' = SubSeq(got, 1, undo.at)
  /\ undo' = [at |-> 0, end |-> NoUndo]
  /\ UNCHANGED <<mode, keys, sealer, trail>>

Next ==
  \/ \E k \in 1..MaxBytes : CallSeal(k) \/ CallOpen(k)
  \/ \E k \in 0..MaxBytes : UndoDecrypt(k)
  \/ SealUnit \/ OpenUnit

Spec == Init /\ [][Next]_vars

-----------------------------------------------------------------------------
(* Properties *)

\* What is decrypted is what was encrypted, unit by unit, in every mode, however
\* the calls of the two ends divide the text and whatever was undone.
ReadBack == at <= Len(trail) /\ \A i \in 1..at : got[i] = trail[i].text
=============================================================================
