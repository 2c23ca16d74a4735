------------------------------ MODULE PadModes ------------------------------
(***************************************************************************)
(* The modes that make a stream of a block cipher: CTR, OFB, CFB and CFB8  *)
(* (src/ccmode/src/ccmode_{ctr,ofb,cfb,cfb8}_*.c).  A context keeps the    *)
(* pad, the encryption of a block, and how much of it is used up, from     *)
(* call to call.                                                           *)
(*                                                                         *)
(* A block is the sequence of its bytes; a byte of the IV or of the        *)
(* ciphertext is a pair: which, and its place.                             *)
(***************************************************************************)
EXTENDS Integers, SequencesExt

CONSTANTS
  Block,         \* ecb->block_size
  CounterValues, \* the values of the CTR mode's counter (2^64)
  Pieces,        \* the lengths of the pieces callers pass
  MaxText        \* bound on the bytes under one IV

VARIABLES mode, ctx, text
vars == <<mode, ctx, text>>

IV == [i \in 1 .. Block |-> <<"iv", i>>]

\* The context: ctr or the feedback register iv; the block whose encryption
\* is in pad, and how often it was encrypted; the pad's bytes used up.
Fresh ==
  [ctr |-> 0, iv |-> IV, padOf |-> IV, times |-> 0,
   offset |-> IF mode = "cfb8" THEN 0 ELSE Block]

\* The pad is used up: the next one, of the counter, of the last pad or of
\* the ciphertext in the register.
Refill(c) ==
  CASE c.offset < Block -> c
    [] mode = "ctr" -> [c EXCEPT !.padOf = <<<<"counter", c.ctr>>>>, !.times = 1, !.offset = 0,
                                 !.ctr = (c.ctr + 1) % CounterValues]
    [] mode = "ofb" -> [c EXCEPT !.times = @ + 1, !.offset = 0]
    [] mode = "cfb" -> [c EXCEPT !.padOf = c.iv, !.times = 1, !.offset = 0]

\* The next byte, the i-th, with the pad p: the ciphertext goes into the register.
Feed(p, i) ==
  CASE mode = "cfb" -> [p EXCEPT !.iv[p.offset + 1] = <<"cipher", i>>, !.offset = @ + 1]
    [] mode = "cfb8" -> LET shifted == Append(Tail(p.iv), <<"cipher", i>>)
                        IN  [p EXCEPT !.iv = shifted, !.padOf = shifted, !.times = 1]
    [] OTHER -> [p EXCEPT !.offset = @ + 1]

\* A call with n bytes.  (CFB8 encrypts its register when it is set up and
\* after each byte, and uses the first byte of the pad only.)
Crypt(c, n) ==
  LET Byte(k, i) == LET p == Refill(k.ctx)
                    IN  [ctx |-> Feed(p, Len(k.text) + 1),
                         text |-> Append(k.text, <<p.padOf, p.times, p.offset>>)]
  IN  FoldLeft(Byte, [ctx |-> c, text |-> text], [i \in 1 .. n |-> i])

Start == IF mode = "cfb8" THEN [Fresh EXCEPT !.times = 1] ELSE Fresh

Init == mode \in {"ctr", "ofb", "cfb", "cfb8"} /\ ctx = Start /\ text = <<>>

Update(n) ==
  /\ Len(text) + n <= MaxText
  /\ LET after == Crypt(ctx, n) IN ctx' = after.ctx /\ text' = after.text
  /\ UNCHANGED mode

Next == \E n \in Pieces : Update(n)

Spec == Init /\ [][Next]_vars

-----------------------------------------------------------------------------
\* The pad's byte that goes with the i-th byte of the text.
Reference(i) ==
  LET b == (i - 1) \div Block
      at == (i - 1) % Block
      input == IV \o [j \in 1 .. i |-> <<"cipher", j>>]
  IN  CASE mode = "ctr" -> <<<<<<"counter", b % CounterValues>>>>, 1, at>>
        [] mode = "ofb" -> <<IV, b + 1, at>>
        [] mode = "cfb" -> <<SubSeq(input, b * Block + 1, (b + 1) * Block), 1, at>>
        [] mode = "cfb8" -> <<SubSeq(input, i, i + Block - 1), 1, 0>>

\* Each byte meets the byte of the pad it would meet if the text had come in
\* one piece: whatever the cuts, the pad left over by one call is used up by
\* the next and the register holds the last block of ciphertext.
PadMatches == \A i \in DOMAIN text : text[i] = Reference(i)
=============================================================================
