----------------------------- MODULE ChaChaPoly -----------------------------
(***************************************************************************)
(* ChaCha20-Poly1305 (src/ccchacha20poly1305): one context, many messages, *)
(* each in pieces, encrypted or decrypted.                                 *)
(*                                                                         *)
(* A byte is a pair: its kind and its place.  A byte of keystream is the   *)
(* counter of its block and its place there.                               *)
(***************************************************************************)
EXTENDS Integers, SequencesExt

CONSTANTS
  Block,         \* CCCHACHA20_BLOCK_NBYTES (64), a multiple of PolyBlock
  PolyBlock,     \* a block of Poly1305 (16)
  CounterValues, \* the values of the block counter (2^32)
  Pieces,        \* the lengths of the pieces callers pass
  MaxAad,        \* bound on the AAD of a message
  MaxMessages    \* bound on the messages

VARIABLES
  state,                  \* ctx->state
  counter, leftover,      \* state[12] and leftover of the ChaCha20 context
  buffer,                 \* the counter of the block in its buffer
  poly, buf,              \* the blocks Poly1305 has taken, and its buffer
  aad_nbytes, text_nbytes,
  ok,                     \* the last call returned 0
  pads,                   \* history: the keystream used on the text of this message
  tag,                    \* history: what the tag of this message was made of
  messages                \* history: how many nonces were set

cipher == <<counter, leftover, buffer>>
mac == <<poly, buf>>
lengths == <<aad_nbytes, text_nbytes>>
vars == <<state, cipher, mac, lengths, ok, pads, tag, messages>>

TextMax == (CounterValues - 1) * Block  \* CCCHACHA20POLY1305_TEXT_MAX_NBYTES

Bytes(kind, first, n) == [i \in 1 .. n |-> <<kind, first + i>>]
Zeros(n) == [i \in 1 .. n |-> <<"zero", 0>>]
First(s, n) == SubSeq(s, 1, n)
After(s, n) == SubSeq(s, n + 1, Len(s))
Smaller(m, n) == IF m < n THEN m ELSE n
Cut(s) == [i \in 1 .. Len(s) \div PolyBlock |-> SubSeq(s, (i - 1) * PolyBlock + 1, i * PolyBlock)]

-----------------------------------------------------------------------------
(* ccchacha20_update *)

\* The keystream of the blocks from c on, n bytes of it.
Keystream(c, n) == [i \in 1 .. n |-> <<(c + (i - 1) \div Block) % CounterValues, (i - 1) % Block>>]

\* Mutant: what was left of the buffer stays what it was.
XorKeepsLeftover(ks, n) ==
  LET used == IF ks.leftover = 0 THEN 0 ELSE Smaller(Block - ks.leftover, n)
      rest == n - used
      whole == (rest \div Block) * Block
      more == rest - whole
      next == (ks.counter + whole \div Block) % CounterValues
  IN  [counter |-> IF more > 0 THEN (next + 1) % CounterValues ELSE next,
       buffer |-> IF more > 0 THEN next ELSE ks.buffer,
       leftover |-> IF more > 0 THEN more ELSE ks.leftover,
       pads |-> ks.pads \o [i \in 1 .. used |-> <<ks.buffer, ks.leftover + i - 1>>]
                        \o Keystream(ks.counter, rest)]

\* The rest of the buffer, whole blocks, a new buffer.  A buffer used up to its
\* end leaves leftover at Block, not 0 (the mask is that of the bits of a block).
Xor(ks, n) ==
  LET used == IF ks.leftover = 0 THEN 0 ELSE Smaller(Block - ks.leftover, n)
      rest == n - used
      whole == (rest \div Block) * Block
      more == rest - whole
      next == (ks.counter + whole \div Block) % CounterValues
  IN  [counter |-> IF more > 0 THEN (next + 1) % CounterValues ELSE next,
       buffer |-> IF more > 0 THEN next ELSE ks.buffer,
       leftover |-> IF more > 0 THEN more ELSE ks.leftover + used,
       pads |-> ks.pads \o [i \in 1 .. used |-> <<ks.buffer, ks.leftover + i - 1>>]
                        \o Keystream(ks.counter, rest)]

(* ccpoly1305_update *)
Absorb(p, bytes) ==
  LET n == IF p.buf = <<>> THEN 0 ELSE Smaller(PolyBlock - Len(p.buf), Len(bytes))
      filled == p.buf \o First(bytes, n)
      rest == After(bytes, n)
      whole == (Len(rest) \div PolyBlock) * PolyBlock
  IN  IF p.buf # <<>> /\ Len(filled) < PolyBlock THEN [p EXCEPT !.buf = filled]
      ELSE [poly |-> p.poly \o Cut(filled) \o Cut(First(rest, whole)), buf |-> After(rest, whole)]

Poly == [poly |-> poly, buf |-> buf]
TakeMac(p) == poly' = p.poly /\ buf' = p.buf

pad_nbytes(n) == (PolyBlock - (n % PolyBlock)) % PolyBlock

-----------------------------------------------------------------------------
(* The calls *)

Refuse == ok' = FALSE

Reset ==
  /\ state' = "SETNONCE" /\ aad_nbytes' = 0 /\ text_nbytes' = 0
  /\ counter' = 0 /\ leftover' = 0
  /\ pads' = <<>> /\ tag' = <<>> /\ ok' = TRUE
  /\ UNCHANGED <<buffer, mac, messages>>

\* Block 0 of the keystream becomes the key of Poly1305.
SetNonce ==
  \/ /\ state = "SETNONCE" /\ messages < MaxMessages
     /\ state' = "AAD" /\ counter' = (counter + 1) % CounterValues
     /\ poly' = <<<<"key", counter>>>> /\ buf' = <<>>
     /\ messages' = messages + 1 /\ ok' = TRUE
     /\ UNCHANGED <<leftover, buffer, lengths, pads, tag>>
  \/ /\ state # "SETNONCE" /\ Refuse
     /\ UNCHANGED <<state, cipher, mac, lengths, pads, tag, messages>>

Aad(n) ==
  \/ /\ state = "AAD" /\ aad_nbytes + n <= MaxAad
     /\ TakeMac(Absorb(Poly, Bytes("aad", aad_nbytes, n)))
     /\ aad_nbytes' = aad_nbytes + n /\ ok' = TRUE
     /\ UNCHANGED <<state, cipher, text_nbytes, pads, tag, messages>>
  \/ /\ state # "AAD" /\ Refuse
     /\ UNCHANGED <<state, cipher, mac, lengths, pads, tag, messages>>

\* finalize_aad: the AAD is padded when the first text or the end comes.
AadClosed(s) ==
  IF state = "AAD" THEN [state |-> s, mac |-> Absorb(Poly, Zeros(pad_nbytes(aad_nbytes)))]
                   ELSE [state |-> state, mac |-> Poly]

\* encrypt and decrypt: Poly1305 takes the ciphertext, which is the output of
\* the one and the input of the other.  The AAD is closed even when the call is
\* refused; a call of the other direction is refused.
Crypt(s, n) ==
  LET closed == AadClosed(s)
      after == Xor([counter |-> counter, leftover |-> leftover, buffer |-> buffer, pads |-> pads], n)
  IN  /\ state' = closed.state
      /\ \/ /\ closed.state = s /\ text_nbytes + n <= TextMax
            /\ TakeMac(Absorb(closed.mac, Bytes("cipher", text_nbytes, n)))
            /\ counter' = after.counter /\ leftover' = after.leftover
            /\ buffer' = after.buffer /\ pads' = after.pads
            /\ text_nbytes' = text_nbytes + n /\ ok' = TRUE
         \/ /\ ~(closed.state = s /\ text_nbytes + n <= TextMax)
            /\ TakeMac(closed.mac) /\ Refuse
            /\ UNCHANGED <<cipher, pads, text_nbytes>>
      /\ UNCHANGED <<aad_nbytes, tag, messages>>

\* finalize and verify.
Finish(s) ==
  LET closed == AadClosed(s)
      padded == Absorb(closed.mac, Zeros(pad_nbytes(text_nbytes)))
      final == Absorb(padded, [i \in 1 .. PolyBlock |-> <<"lengths", <<aad_nbytes, text_nbytes>>>>])
  IN  \/ /\ closed.state = s
         /\ state' = "FINAL" /\ TakeMac(final)
         /\ tag' = IF final.buf = <<>> THEN final.poly ELSE Append(final.poly, final.buf)
         /\ ok' = TRUE
         /\ UNCHANGED <<cipher, lengths, pads, messages>>
      \/ /\ closed.state # s
         /\ state' = closed.state /\ TakeMac(closed.mac) /\ Refuse
         /\ UNCHANGED <<cipher, lengths, pads, tag, messages>>

Init ==
  /\ state = "SETNONCE" /\ counter = 0 /\ leftover = 0 /\ buffer = 0
  /\ poly = <<>> /\ buf = <<>> /\ aad_nbytes = 0 /\ text_nbytes = 0
  /\ ok = TRUE /\ pads = <<>> /\ tag = <<>> /\ messages = 0

Next ==
  \/ Reset \/ SetNonce
  \/ \E n \in Pieces : Aad(n)
  \/ \E s \in {"ENCRYPT", "DECRYPT"}, n \in Pieces : Crypt(s, n)
  \/ \E s \in {"ENCRYPT", "DECRYPT"} : Finish(s)

Spec == Init /\ [][Next]_vars

-----------------------------------------------------------------------------
Padded(s) == s \o Zeros(pad_nbytes(Len(s)))

\* What the tag is to be made of: block 0's key, and the AAD, the ciphertext
\* and their lengths, each from a block on.
ReferenceTag ==
  <<<<"key", 0>>>> \o Cut(Padded(Bytes("aad", 0, aad_nbytes)))
    \o Cut(Padded(Bytes("cipher", 0, text_nbytes)))
    \o <<[i \in 1 .. PolyBlock |-> <<"lengths", <<aad_nbytes, text_nbytes>>>>]>>

\* However a message is cut, and whatever calls were refused on the way: its
\* tag is that of the whole message, the text meets the keystream from block 1
\* on in order, and block 0, the key of the tag, never meets any text.
MessageMatches ==
  /\ tag # <<>> => tag = ReferenceTag
  /\ pads = Keystream(1, text_nbytes)
  /\ \A i \in DOMAIN pads : pads[i][1] # 0
=============================================================================
