---------------------------- MODULE MCTelnetPaths ----------------------------
(***************************************************************************)
(* The two ways of the bytes of a connection and the ciphers they go       *)
(* through, one of them at a time, since they share nothing.               *)
(*                                                                         *)
(* Out go a paste of two characters, a file of two blocks and replies of   *)
(* three bytes, over a socket or a serial line: each write is taken as a   *)
(* whole, in part or not at all. In come texts of up to eight tokens in    *)
(* blocks of up to four over chunks of three, whenever the reading thread  *)
(* gets them: text behind a START in its block, in the next chunk, or      *)
(* while it is being worked on, an END with text before and behind it, and *)
(* encryption that starts once more, in the chunk of the END or in         *)
(* another. The ciphers, every function of the library in turn, have       *)
(* blocks of two bytes of one bit: every text of four bytes in all cuts.   *)
(***************************************************************************)
EXTENDS EncryptStream

CONSTANTS
  PasteLength, FileLength, FileBlock, Replies, MaxAccepted,
  BlockSize, Bits, IP(_), FP(_), RoundKeys, Choice(_, _), Mangle(_, _), Keys,
  Modes, Feedback, MaxBytes

VARIABLES
  way, \* what this behaviour looks at
  serial, open, unsent, accepted, wire, paste, file, asked, refused, miscounted,
  mode, keys, sealer, opener, trail, got, undo

ovars == <<serial, open, unsent, accepted, wire, paste, file, asked, refused, miscounted>>
dvars == <<mode, keys, sealer, opener, trail, got, undo>>

O == INSTANCE SendPath
D == INSTANCE DesModes

ASSUME PathsAssumption   == O!SendAssumption
ASSUME CiphersAssumption == D!DesAssumption

-----------------------------------------------------------------------------
(* What goes out *)

ReplyLengths == {1, 3}

-----------------------------------------------------------------------------
(* Texts *)

X == <<"x">>
On == <<"START">>
Off == <<"END">>

\* Every text of up to six tokens, and longer ones that go over three chunks.
ShortAndLong ==
  UNION {[1..n -> Token] : n \in 1..6} \cup
  {X \o On \o X \o X \o X \o X \o X, On \o X \o Off \o X \o X \o On \o X,
   On \o X \o X \o X \o Off \o X \o On \o X,
   X \o On \o X \o Off \o X \o On \o X, On \o Off \o On \o X \o X \o X,
   On \o On \o X \o Off \o X \o X}

-----------------------------------------------------------------------------
(* Ciphers: permutations of the four blocks without a fixed block, and three *)
(* keys that give different ones                                             *)

Reversed(b) == [i \in 1..BlockSize |-> b[BlockSize + 1 - i]]

KeyAfter(key, i) == ((i \div key) % 3) + 1

Mixed(w, k) ==
  CASE k = 1 -> w
    [] k = 2 -> [i \in DOMAIN w |-> Bits \ w[i]]
    [] k = 3 -> [i \in DOMAIN w |-> Bits]

ThreeKeys == {<<4, 1, 3>>}

Function(chain, triple, carries) == [chain |-> chain, triple |-> triple, carries |-> carries]

AllModes ==
  {Function("ecb", t, FALSE) : t \in BOOLEAN}
  \cup {Function("cbc", FALSE, FALSE), Function("pcbc", FALSE, FALSE)}
  \cup {Function("cbc", t, TRUE) : t \in BOOLEAN}
  \cup {Function("cfb", FALSE, TRUE), Function("ofb", FALSE, TRUE)}
  \cup {Function(c, t, TRUE) : c \in {"cfb64", "ofb64"}, t \in BOOLEAN}

-----------------------------------------------------------------------------
(* One at a time *)

MCInit ==
  /\ way \in {"out", "in", "cipher"}
  /\ Init /\ O!Init /\ D!Init
  /\ way # "in" => input = CHOOSE t \in Texts : TRUE
  /\ way # "out" => ~serial
  /\ way # "cipher" => mode = D!des_cfb64_encrypt /\ sealer.iv = D!Zero

Out(A)    == way = "out" /\ A /\ UNCHANGED <<way, vars, dvars>>
In(A)     == way = "in" /\ A /\ UNCHANGED <<way, ovars, dvars>>
Cipher(A) == way = "cipher" /\ A /\ UNCHANGED <<way, vars, ovars>>

MCNext == Out(O!Next) \/ In(Next) \/ Cipher(D!Next)

\* The fairness of the way out, as SendPath has it.
MCSpec ==
  /\ MCInit /\ [][MCNext]_<<way, vars, ovars, dvars>>
  /\ WF_ovars(Out(O!PasteAsk)) /\ WF_ovars(Out(O!PasteGiveUp))
  /\ WF_ovars(Out(O!PasteSend)) /\ WF_ovars(Out(O!FileSend))
  /\ SF_ovars(Out(O!PasteAsk /\ unsent' = {}))

\* What was accepted reaches the system in its order or is kept, and what
\* SendPossible allowed is accepted while there is a connection.
NothingLost == O!NothingLost

\* Both ends of a cipher go through the same chain.
ReadBack == D!ReadBack

\* A paste comes to an end.
PasteEnds == way = "out" => O!PasteEnds
=============================================================================
