------------------------------- MODULE Streams -------------------------------
(***************************************************************************)
(* Inputs that come in pieces: a digest (ccdigest), HMAC (cchmac), CMAC    *)
(* (cccmac) and the derivation function of the CTR DRBG (ccdrbg_nistctr).  *)
(* Each cuts the bytes of its updates into blocks, holding back what does  *)
(* not fill one, and pads at the end.                                      *)
(*                                                                         *)
(* A byte is a pair: its kind and its place in the message.  The chaining  *)
(* value is the sequence of the blocks that went into it.                  *)
(***************************************************************************)
EXTENDS Integers, SequencesExt

CONSTANTS
  Block,        \* di->block_size, CMAC_BLOCKSIZE, CCADRBG_OUTLEN
  LengthBytes,  \* the length field of the padding (8 of 64 bytes)
  OutputSize,   \* di->output_size
  HeaderBytes,  \* L || N before the derivation function's input (8 of 16)
  Passes,       \* CCADRBG_TEMPLEN_BLOCKS
  Pieces,       \* the lengths of the pieces callers pass
  KeyLengths,   \* the lengths of the keys of HMAC
  MaxBytes, MaxPieces \* bounds on the bytes and the pieces of a message

VARIABLES
  stream,       \* which of the four
  key_len,      \* the length of the key of HMAC
  chain,        \* ccdigest_state, the CBC IV, or temp: the blocks taken in
  data,         \* the block buffer, up to num, block_nbytes or index
  nbytes,       \* ccdigest_nbits / 8, cccmac_cumulated_nbytes
  todo,         \* the bytes of the update under way not yet taken
  given,        \* history: the pieces of the message
  out           \* what the last final computed

vars == <<stream, key_len, chain, data, nbytes, todo, given, out>>

Piece(kind, first, n) == [i \in 1 .. n |-> <<kind, first + i>>]
Zeros(n) == [i \in 1 .. n |-> <<"zero", 0>>]
Mark == <<"0x80", 0>>
Length(n) == [i \in 1 .. LengthBytes |-> <<"length", n>>]
Header(n) == [i \in 1 .. HeaderBytes |-> <<"header", n>>]

First(s, n) == SubSeq(s, 1, n)
After(s, n) == SubSeq(s, n + 1, Len(s))
Smaller(m, n) == IF m < n THEN m ELSE n
Whole(s) == Block * (Len(s) \div Block)
Cut(s) == [i \in 1 .. Len(s) \div Block |-> SubSeq(s, (i - 1) * Block + 1, i * Block)]
Message == FlattenSeq(given)

-----------------------------------------------------------------------------
(* ccdigest_update: an iteration of its loop at a time *)

\* With the buffer empty and more than a block to take, whole blocks go
\* straight to compress.
DigestBlocks ==
  /\ data = <<>> /\ Len(todo) > Block
  /\ chain' = chain \o Cut(todo)
  /\ nbytes' = nbytes + Whole(todo)
  /\ todo' = After(todo, Whole(todo))
  /\ UNCHANGED <<stream, key_len, data, given, out>>

DigestBytes ==
  LET n == Smaller(Block - Len(data), Len(todo))
      filled == data \o First(todo, n)
  IN  /\ todo # <<>> /\ ~(data = <<>> /\ Len(todo) > Block)
      /\ todo' = After(todo, n)
      /\ IF Len(filled) = Block
           THEN chain' = Append(chain, filled) /\ nbytes' = nbytes + Block /\ data' = <<>>
           ELSE data' = filled /\ UNCHANGED <<chain, nbytes>>
      /\ UNCHANGED <<stream, key_len, given, out>>

\* ccdigest_final_64be and _64le, on a clone: the blocks of the padded message.
FinalBlocks(blocks, held, before) ==
  LET total == before + Len(held)
      marked == Append(held, Mark)
      noRoom == Len(marked) > Block - LengthBytes
      blocks2 == IF noRoom THEN Append(blocks, marked \o Zeros(Block - Len(marked))) ELSE blocks
      held2 == IF noRoom THEN <<>> ELSE marked
  IN  Append(blocks2, held2 \o Zeros(Block - LengthBytes - Len(held2)) \o Length(total))

\* The context goes on as if final had not been called.
DigestFinal ==
  /\ stream = "digest" /\ todo = <<>>
  /\ out' = FinalBlocks(chain, data, nbytes)
  /\ UNCHANGED <<stream, key_len, chain, data, nbytes, todo, given>>

\* The bytes of a digest of these blocks.
DigestOf(blocks) == [i \in 1 .. OutputSize |-> <<"digest", blocks>>]

\* Mutant of KeyData: a key of just a block is taken for a long one.
KeyDataOfBlock ==
  LET key == Piece("key", 0, key_len)
  IN  IF key_len < Block THEN key
      ELSE DigestOf(FinalBlocks(Cut(key), After(key, Whole(key)), Whole(key)))

\* cchmac_init: a key longer than a block gives way to its digest, computed in one update.
KeyData ==
  LET key == Piece("key", 0, key_len)
  IN  IF key_len <= Block THEN key
      ELSE DigestOf(FinalBlocks(Cut(key), After(key, Whole(key)), Whole(key)))

\* The key's bytes with the pad's, and the pad alone in the rest of the block.
Key(pad) ==
  [i \in 1 .. Block |-> <<pad, IF i <= Len(KeyData) THEN KeyData[i] ELSE <<"zero", 0>>>>]

\* cchmac_final: the inner digest goes into the buffer, over the state after
\* the outer key's block.
HmacFinal ==
  LET inner == FinalBlocks(chain, data, nbytes)
  IN  /\ stream = "hmac" /\ todo = <<>> /\ out = <<>>
      /\ data' = DigestOf(inner)
      /\ chain' = <<Key("opad")>> /\ nbytes' = Block
      /\ out' = FinalBlocks(chain', data', nbytes')
      /\ UNCHANGED <<stream, key_len, todo, given>>

-----------------------------------------------------------------------------
(* cccmac_update, cccmac_final_generate *)

\* At least one byte stays for the final.  Only the block completed first is
\* added to cumulated_nbytes: nblocks is 0 after its loop.
CmacUpdate(piece) ==
  LET n == Smaller(Len(piece), Block - Len(data))
      fill == IF data = <<>> THEN 0 ELSE n
      rest == After(piece, fill)
      nblocks == (Len(rest) - 1) \div Block
      first == IF data = <<>> THEN <<>> ELSE <<data \o First(piece, n)>>
  IN  IF piece = <<>> THEN UNCHANGED <<chain, data, nbytes>>
      ELSE IF rest = <<>> THEN data' = data \o piece /\ UNCHANGED <<chain, nbytes>>
      ELSE /\ chain' = chain \o first \o Cut(First(rest, nblocks * Block))
           /\ data' = After(rest, nblocks * Block)
           /\ nbytes' = nbytes + Block * Len(first)

\* A full last block is masked with k1, a padded one with k2; the context is
\* cleared.
CmacFinal ==
  LET padded == First(Append(data, Mark) \o Zeros(Block), Block)
  IN  /\ stream = "cmac" /\ out = <<>>
      /\ Len(data) > 0 \/ nbytes = 0
      /\ out' = Append(chain, IF Len(data) = Block THEN Append(data, <<"k1", 0>>)
                                                   ELSE Append(padded, <<"k2", 0>>))
      /\ chain' = <<>> /\ data' = <<>> /\ nbytes' = 0
      /\ UNCHANGED <<stream, key_len, todo, given>>

-----------------------------------------------------------------------------
(* df: bcc_init, df_bcc_update, df_bcc_final *)

\* Mutant: a block completed from the buffer leaves its index behind.
BccUpdateKeepsIndex(c, piece) ==
  LET len == Smaller(Len(piece), Block - Len(c.S))
      full == c.S \o First(piece, len)
      rest == After(piece, len)
  IN  IF c.S # <<>> /\ Len(full) = Block
        THEN [S |-> IF rest = <<>> THEN c.S ELSE After(rest, Whole(rest)),
              temp |-> Append(c.temp, full) \o Cut(rest)]
      ELSE IF c.S # <<>> THEN [c EXCEPT !.S = full]
      ELSE [S |-> After(piece, Whole(piece)), temp |-> c.temp \o Cut(piece)]

BccUpdate(c, piece) ==
  LET len == Smaller(Len(piece), Block - Len(c.S))
      full == c.S \o First(piece, len)
      rest == After(piece, len)
  IN  IF c.S # <<>> /\ Len(full) < Block THEN [c EXCEPT !.S = full]
      ELSE IF c.S # <<>>
        THEN [S |-> After(rest, Whole(rest)), temp |-> Append(c.temp, full) \o Cut(rest)]
      ELSE [S |-> After(piece, Whole(piece)), temp |-> c.temp \o Cut(piece)]

\* The buffer is emptied before each pass only; final leaves its block there.
BccFinal(c) ==
  LET marked == BccUpdate(c, <<Mark>>)
  IN  IF marked.S = <<>> THEN marked
      ELSE [marked EXCEPT !.temp = Append(@, marked.S \o Zeros(Block - Len(marked.S)))]

BccInit(c, L, pass) == BccUpdate([S |-> <<>>, temp |-> << <<"IV", pass>> >>], Header(L))

Pass(c, pass) == BccFinal(FoldLeft(BccUpdate, BccInit(c, Len(Message), pass), given))

\* One pass over all the input for each block of temp.
DfCall ==
  /\ stream = "df" /\ out = <<>> /\ given # <<>>
  /\ LET c == [S |-> data, temp |-> <<>>]
         after == [p \in 1 .. Passes |-> Pass(c, p)]
     IN  out' = [p \in 1 .. Passes |-> after[p].temp] /\ data' = after[Passes].S
  /\ UNCHANGED <<stream, key_len, chain, nbytes, todo, given>>

-----------------------------------------------------------------------------
Init ==
  /\ stream \in {"digest", "hmac", "cmac", "df"}
  /\ key_len \in IF stream = "hmac" THEN KeyLengths ELSE {0}
  /\ chain = IF stream = "hmac" THEN <<Key("ipad")>> ELSE <<>>
  /\ nbytes = Block * Len(chain)
  /\ data = <<>> /\ todo = <<>> /\ given = <<>> /\ out = <<>>

\* A piece of n bytes is passed to the update of the stream.
Update(n) ==
  LET piece == Piece("m", Len(Message), n)
  IN  /\ todo = <<>> /\ (out # <<>> => stream = "digest")
      /\ Len(Message) + n <= MaxBytes /\ Len(given) < MaxPieces
      /\ given' = Append(given, piece) /\ out' = <<>>
      /\ IF stream = "cmac" THEN CmacUpdate(piece) ELSE UNCHANGED <<chain, data, nbytes>>
      /\ todo' = IF stream \in {"digest", "hmac"} THEN piece ELSE <<>>
      /\ UNCHANGED <<stream, key_len>>

Next ==
  \/ \E n \in Pieces : Update(n)
  \/ DigestBlocks \/ DigestBytes \/ DigestFinal \/ HmacFinal
  \/ CmacFinal
  \/ DfCall

Spec == Init /\ [][Next]_vars

-----------------------------------------------------------------------------
(* What each computes of a message given in one piece *)

PaddedDigest(m) ==
  LET zeros == (2 * Block - LengthBytes - 1 - (Len(m) % Block)) % Block
  IN  Cut(Append(m, Mark) \o Zeros(zeros) \o Length(Len(m)))

\* RFC 2104: H(K ^ opad, H(K ^ ipad, m)), K filled up with zeros to a block.
Hmac(k, m) ==
  LET K == (IF Len(k) > Block THEN DigestOf(PaddedDigest(k)) ELSE k) \o Zeros(Block)
      Under(pad) == [i \in 1 .. Block |-> <<pad, K[i]>>]
  IN  PaddedDigest(Under("opad") \o DigestOf(PaddedDigest(Under("ipad") \o m)))

Reference(m) ==
  CASE stream = "digest" -> PaddedDigest(m)
    [] stream = "hmac" -> Hmac(Piece("key", 0, key_len), m)
    [] stream = "cmac" ->
         IF m # <<>> /\ Len(m) % Block = 0
           THEN [Cut(m) EXCEPT ![Len(m) \div Block] = Append(@, <<"k1", 0>>)]
           ELSE LET blocks == Cut(Append(m, Mark) \o Zeros(Block - 1 - (Len(m) % Block)))
                IN  [blocks EXCEPT ![Len(blocks)] = Append(@, <<"k2", 0>>)]
    [] stream = "df" ->
         LET s == Append(Header(Len(m)) \o m, Mark)
         IN  [p \in 1 .. Passes |->
               << <<"IV", p>> >> \o Cut(s \o Zeros((Block - (Len(s) % Block)) % Block))]

\* The result is that of the whole message, whatever the pieces it came in,
\* empty ones and ones that end with a block included, and final adds its
\* padding to all of it: for the digest, also when final was called in between.
PiecesDoNotMatter == out # <<>> => out = Reference(Message)
=============================================================================
