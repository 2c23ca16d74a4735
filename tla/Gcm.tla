---------------------------------- MODULE Gcm ----------------------------------
(***************************************************************************)
(* The streaming interface of GCM (src/ccmode/src/ccmode_gcm_*.c): one     *)
(* context, one key, many messages, each given in pieces.                  *)
(*                                                                         *)
(* Bytes are symbolic.  An IV is a record; a counter block is an IV and a  *)
(* counter; the pad is named by the counter block it encrypts.  The        *)
(* accumulator X is the sequence of the blocks that have been multiplied   *)
(* by H, followed by the block being filled: a set of <<offset, byte>>.    *)
(***************************************************************************)
EXTENDS Integers, SequencesExt

CONSTANTS
  Block,            \* CCGCM_BLOCK_NBYTES (16)
  CounterValues,    \* the values of the counter of a block (2^32)
  InvocationValues, \* the values of the counter inside an IV (2^64)
  IVs, LongIVs,     \* the IVs callers have, of 12 bytes and of other lengths
  Chunks,           \* the lengths of the pieces callers pass
  LegacyAfterInitWithIv, \* callers use set_iv_legacy where set_iv is not permitted
  MaxAad,           \* bound on the AAD of a message
  MaxMessages       \* bound on the messages under the key

ASSUME SizesAssumption ==
  /\ Block \in Nat \ {0} /\ CounterValues \in Nat /\ CounterValues > 2
  /\ InvocationValues \in Nat \ {0}
  /\ IVs \subseteq [salt : STRING \ {"hash"}, invocation : 0 .. InvocationValues - 1]
  /\ LongIVs \subseteq [salt : {"hash"}, invocation : 0 .. InvocationValues - 1]
  /\ Chunks \subseteq Nat /\ LegacyAfterInitWithIv \in BOOLEAN
  /\ MaxAad \in Nat /\ MaxMessages \in Nat

VARIABLES
  encdec,       \* key->encdec
  state, flags, \* key->state; CCGCM_FLAGS_INIT_WITH_IV in key->flags
  Y, Y_0, pad,  \* key->Y, key->Y_0 and the counter block whose encryption is in key->buf
  X,            \* key->X
  aad_nbytes, text_nbytes,
  rc,           \* what the last call returned
  accepted,     \* history: the bytes of AAD and of text taken for this message
  used,         \* history: the bytes of keystream used under the key, in order
  tag,          \* history: what the tag of this message was made of
  ivs           \* history: the IVs given to callers or by them

counters == <<Y, Y_0, pad>>
lengths == <<aad_nbytes, text_nbytes>>
history == <<accepted, used, tag, ivs>>
vars == <<encdec, state, flags, counters, X, lengths, rc, history>>

OK == "CCERR_OK"
INVALID_CALL_SEQUENCE == "CCMODE_INVALID_CALL_SEQUENCE"
INVALID_INPUT == "CCMODE_INVALID_INPUT"
INTEGRITY_FAILURE == "CCMODE_INTEGRITY_FAILURE"

TextMax == (CounterValues - 2) * Block
EmptyIV == [salt |-> "none", invocation |-> 0]
ZeroIV == [salt |-> "zero", invocation |-> 0]   \* twelve bytes 0
Zero == [iv |-> ZeroIV, counter |-> 0]
NoTag == [blocks |-> <<>>, pad |-> Zero]

-----------------------------------------------------------------------------
(* Pieces: how a call cuts its input into blocks *)

\* Mutant: the block that was completed still counts as partial.
PiecesOfNoReset(r, n) ==
  LET needed == Block - r
      first == IF r > 0 /\ n >= needed THEN <<[at |-> r, from |-> 0, len |-> needed]>> ELSE <<>>
      taken == IF first = <<>> THEN 0 ELSE needed
      whole == IF r = 0 THEN (n - taken) \div Block ELSE 0
      rest == n - taken - whole * Block
  IN  first \o [j \in 1 .. whole |-> [at |-> 0, from |-> taken + (j - 1) * Block, len |-> Block]]
            \o (IF rest > 0 THEN <<[at |-> r, from |-> n - rest, len |-> rest]>> ELSE <<>>)

\* A call with n bytes, when the last block holds r: the end of that block if
\* there are bytes enough, then whole blocks, then what remains.
PiecesOf(r, n) ==
  LET needed == Block - r
      first == IF r > 0 /\ n >= needed THEN <<[at |-> r, from |-> 0, len |-> needed]>> ELSE <<>>
      taken == IF first = <<>> THEN 0 ELSE needed
      at == IF first = <<>> THEN r ELSE 0
      whole == IF at = 0 THEN (n - taken) \div Block ELSE 0
      rest == n - taken - whole * Block
  IN  first \o [j \in 1 .. whole |-> [at |-> 0, from |-> taken + (j - 1) * Block, len |-> Block]]
            \o (IF rest > 0 THEN <<[at |-> at, from |-> n - rest, len |-> rest]>> ELSE <<>>)

\* All pieces of a call but the last one end a block; the last one may.
Ended(pieces) == Cardinality({j \in DOMAIN pieces : pieces[j].at + pieces[j].len = Block})
\* The piece that byte i of the call is in.
PieceWith(pieces, i) ==
  CHOOSE j \in DOMAIN pieces : i \in pieces[j].from + 1 .. pieces[j].from + pieces[j].len

\* cc_xor into X, and ccmode_gcm_mult_h.
XorX(x, at, bytes) ==
  [x EXCEPT ![Len(x)] = @ \cup {<<at + i - 1, bytes[i]>> : i \in DOMAIN bytes}]
MultH(x) == Append(x, {})

\* inc_uint on the last 32 bits of the counter block, k times.
IncBy(y, k) == [y EXCEPT !.counter = (@ + k) % CounterValues]
Inc(y) == IncBy(y, 1)

\* The pieces of a call in X, each in the block that the one before it left to
\* be filled; from is how many bytes of the kind earlier calls gave.
XorPieces(x, pieces, kind, from) ==
  [b \in 1 .. Len(x) + Ended(pieces) |->
     LET j == b - Len(x) + 1
     IN  (IF b <= Len(x) THEN x[b] ELSE {})
         \cup (IF j \in DOMAIN pieces
               THEN {<<pieces[j].at + i - 1, <<kind, from + pieces[j].from + i>>>> :
                       i \in 1 .. pieces[j].len}
               ELSE {})]

\* The bytes of keystream n bytes of the call meet: the first piece meets the
\* pad there is, every later one that of the next counter block.
Met(pieces, n) ==
  [i \in 1 .. n |->
     LET j == PieceWith(pieces, i)
     IN  <<IF j = 1 THEN pad ELSE IncBy(Y, j - 1), pieces[j].at + i - pieces[j].from - 1>>]

\* The halves of the length block.
LengthBlock(aad, text) == <<<<"aad length", aad>>, <<"text length", text>>>>

-----------------------------------------------------------------------------
(* ccgcm_init, ccgcm_reset, ccgcm_set_iv *)

\* ccmode_gcm_init: the state a new key starts in.
Init ==
  /\ encdec \in {"encrypt", "decrypt"}
  /\ state = "IV" /\ flags = {}
  /\ Y = Zero /\ Y_0 = Zero /\ pad = Zero   \* cleared: not read before an IV is set
  /\ X = <<{}>> /\ aad_nbytes = 0 /\ text_nbytes = 0
  /\ rc = OK
  /\ accepted = [aad |-> 0, text |-> 0] /\ used = <<>> /\ tag = NoTag /\ ivs = {}

Refuse(result) ==
  /\ rc' = result
  /\ UNCHANGED <<encdec, state, flags, counters, X, lengths, history>>

\* A new IV: the original counter block and the first pad.
Start(iv, y) ==
  /\ Y_0' = y /\ Y' = Inc(y) /\ pad' = Inc(y)
  /\ state' = "AAD" /\ rc' = OK
  /\ ivs' = ivs \cup {iv}
  /\ UNCHANGED <<encdec, X, lengths, accepted, used, tag>>

\* Callers give each IV once ("The key-IV pair must be unique per encryption",
\* src/ccmode/corecrypto/ccmode.h:480), the empty one standing for the IV of
\* zeros; the key has a bounded number of messages.
MayStart(iv) == iv \notin ivs /\ Cardinality(ivs) < MaxMessages

\* An IV of 12 bytes is followed by the counter 1; any other is hashed.
SetIv(iv) ==
  IF state = "IV" /\ "INIT_WITH_IV" \notin flags /\ iv # EmptyIV
  THEN /\ MayStart(iv)
       /\ \E c \in IF iv \in LongIVs THEN 0 .. CounterValues - 1 ELSE {1} :
             Start(iv, [iv |-> iv, counter |-> c])
       /\ UNCHANGED flags
  ELSE Refuse(INVALID_CALL_SEQUENCE)

\* ccgcm_init_with_iv, on a new key.
InitWithIv(iv) ==
  /\ iv \in IVs /\ ivs = {} /\ state = "IV" /\ MayStart(iv)
  /\ flags' = {"INIT_WITH_IV"}
  /\ Start(iv, [iv |-> iv, counter |-> 1])

\* ccgcm_set_iv_legacy without an IV; with one it is ccgcm_set_iv.  Its counter
\* block is the zero block.
SetIvLegacy ==
  /\ LegacyAfterInitWithIv \/ "INIT_WITH_IV" \notin flags
  /\ IF state = "IV"
     THEN /\ LegacyAfterInitWithIv \/ MayStart(ZeroIV)
          /\ Cardinality(ivs) < MaxMessages
          /\ Start(ZeroIV, Zero) /\ UNCHANGED flags
     ELSE Refuse("-1")

Following(iv) == [iv EXCEPT !.invocation = (@ + 1) % InvocationValues]

\* Mutant: the increment is made in the working counter block only.
IncIvWorking ==
  IF state = "IV" /\ "INIT_WITH_IV" \in flags
  THEN /\ Cardinality(ivs) < MaxMessages
       /\ Y' = Inc(Y) /\ pad' = Inc(Y) /\ state' = "AAD" /\ rc' = OK
       /\ ivs' = ivs \cup {Following(Y_0.iv)}
       /\ UNCHANGED <<encdec, flags, X, Y_0, lengths, accepted, used, tag>>
  ELSE Refuse(INVALID_CALL_SEQUENCE)

IncIv ==
  IF state = "IV" /\ "INIT_WITH_IV" \in flags
  THEN /\ Cardinality(ivs) < MaxMessages
       /\ LET iv == Following(Y_0.iv) IN Start(iv, [Y_0 EXCEPT !.iv = iv])
       /\ UNCHANGED flags
  ELSE Refuse(INVALID_CALL_SEQUENCE)

Reset ==
  /\ X' = <<{}>> /\ pad' = Zero
  /\ state' = "IV" /\ aad_nbytes' = 0 /\ text_nbytes' = 0
  /\ rc' = OK
  /\ accepted' = [aad |-> 0, text |-> 0] /\ tag' = NoTag
  /\ UNCHANGED <<encdec, flags, Y, Y_0, used, ivs>>

-----------------------------------------------------------------------------
(* ccgcm_aad *)

Aad(n) ==
  IF state = "AAD"
  THEN /\ accepted.aad + n <= MaxAad
       /\ X' = XorPieces(X, PiecesOf(aad_nbytes % Block, n), "aad", accepted.aad)
       /\ aad_nbytes' = aad_nbytes + n
       /\ accepted' = [accepted EXCEPT !.aad = @ + n]
       /\ rc' = OK
       /\ UNCHANGED <<encdec, state, flags, counters, text_nbytes, used, tag, ivs>>
  ELSE Refuse(INVALID_CALL_SEQUENCE)

\* ccmode_gcm_aad_finalize: the last block of AAD is closed, if it is partial.
AadFinalized(s, x) == IF s = "AAD" /\ aad_nbytes % Block > 0 THEN MultH(x) ELSE x

Opened == IF state = "AAD" THEN "TEXT" ELSE state

-----------------------------------------------------------------------------
(* ccgcm_update: ccmode_gcm_encrypt and ccmode_gcm_decrypt.  The two differ   *)
(* in the order in which X and the output are written, which shows only when  *)
(* input and output overlap; both add the ciphertext to X.                    *)

\* Has the text room for n bytes more?
Fits(n) == text_nbytes + n <= TextMax

Update(n) ==
  IF Opened # "TEXT" THEN Refuse(INVALID_CALL_SEQUENCE)
  ELSE
  /\ state' = "TEXT"
  /\ IF Fits(n)
     THEN LET pieces == PiecesOf(text_nbytes % Block, n)
          IN  /\ X' = XorPieces(AadFinalized(state, X), pieces, "ciphertext", accepted.text)
              /\ Y' = IncBy(Y, Ended(pieces))
              /\ pad' = IF Ended(pieces) = 0 THEN pad ELSE Y'
              /\ used' = used \o Met(pieces, n)
              /\ text_nbytes' = text_nbytes + n
              /\ accepted' = [accepted EXCEPT !.text = @ + n]
              /\ rc' = OK
     ELSE /\ X' = AadFinalized(state, X)
          /\ rc' = INVALID_INPUT
          /\ UNCHANGED <<Y, pad, text_nbytes, accepted, used>>
  /\ UNCHANGED <<encdec, flags, Y_0, aad_nbytes, tag, ivs>>

-----------------------------------------------------------------------------
(* ccgcm_finalize *)

\* Mutant: the lengths go into the block being filled.
TagBlocksUnclosed == MultH(XorX(AadFinalized(state, X), 0, LengthBlock(aad_nbytes, text_nbytes)))
\* The text's last block is closed, the lengths are added and the pad of the
\* original counter block.
TagBlocks ==
  LET x == AadFinalized(state, X)
      y == IF text_nbytes % Block > 0 THEN MultH(x) ELSE x
  IN  MultH(XorX(y, 0, LengthBlock(aad_nbytes, text_nbytes)))

\* A decryptor compares the tag with the one it is given.
Finalize(matches) ==
  IF Opened # "TEXT" THEN Refuse(INVALID_CALL_SEQUENCE)
  ELSE
  /\ X' = TagBlocks /\ pad' = Y_0
  /\ tag' = [blocks |-> TagBlocks, pad |-> Y_0]
  /\ used' = used \o [i \in 1 .. Block |-> <<Y_0, i - 1>>]
  /\ rc' = IF encdec = "decrypt" /\ ~matches THEN INTEGRITY_FAILURE ELSE OK
  /\ state' = "FINAL"
  /\ UNCHANGED <<encdec, flags, Y, Y_0, lengths, accepted, ivs>>
Next ==
  \/ \E iv \in IVs \cup LongIVs \cup {EmptyIV} : SetIv(iv)
  \/ \E iv \in IVs : InitWithIv(iv)
  \/ SetIvLegacy
  \/ IncIv
  \/ Reset
  \/ \E n \in Chunks : Aad(n) \/ Update(n)
  \/ \E matches \in BOOLEAN : Finalize(matches)

Spec == Init /\ [][Next]_vars

-----------------------------------------------------------------------------
(* Reference definition: a message taken as a whole *)

\* The blocks of n bytes, the last one padded with zeros.
BlocksOf(kind, n) ==
  [b \in 1 .. (n + Block - 1) \div Block |->
     {<<o, <<kind, (b - 1) * Block + o + 1>>>> :
        o \in {i \in 0 .. Block - 1 : (b - 1) * Block + i < n}}]

ReferenceTag(message, y) ==
  [blocks |-> BlocksOf("aad", message.aad) \o BlocksOf("ciphertext", message.text)
                \o <<{<<0, <<"aad length", message.aad>>>>,
                      <<1, <<"text length", message.text>>>>}, {}>>,
   pad |-> y]

\* Byte i of the text meets byte (i - 1) % Block of the encryption of the
\* counter block that follows the original one by (i - 1) \div Block + 1.
ReferenceKeystream(message, y) ==
  [i \in 1 .. message.text |->
     <<[y EXCEPT !.counter = (@ + (i - 1) \div Block + 1) % CounterValues], (i - 1) % Block>>]

-----------------------------------------------------------------------------
(* Properties *)

\* Every variable has its type.
TypeOK ==
  /\ encdec \in {"encrypt", "decrypt"}
  /\ state \in {"IV", "AAD", "TEXT", "FINAL"} /\ flags \subseteq {"INIT_WITH_IV"}
  /\ \A y \in {Y, Y_0, pad} : y.counter \in 0 .. CounterValues - 1
  /\ Len(X) > 0 /\ \A i \in 1 .. Len(X) : IsFiniteSet(X[i])
  /\ aad_nbytes \in 0 .. MaxAad /\ text_nbytes \in 0 .. TextMax
  /\ rc \in {OK, INVALID_CALL_SEQUENCE, INVALID_INPUT, INTEGRITY_FAILURE, "-1"}

\* However a message is cut into calls, and whatever calls are refused on the
\* way, the tag of ccmode_gcm_finalize is the one GCM defines for its IV, its
\* AAD and its text (src/ccmode/src/ccmode_gcm_finalize.c:26-44).
TagIsReference == state = "FINAL" => tag = ReferenceTag(accepted, Y_0)

\* However the text is cut, byte i is combined with byte i of the keystream of
\* the message's IV (the pad and X are "always in sync with regards to
\* offsets", src/ccmode/src/ccmode_gcm_encrypt.c:25).
KeystreamIsReference ==
  state = "TEXT" =>
    SubSeq(used, Len(used) - accepted.text + 1, Len(used)) = ReferenceKeystream(accepted, Y_0)

\* No byte of keystream is used twice under a key, by any text or any tag, as
\* long as no IV is: the limit on the text keeps the counter from coming round
\* to the block of the tag (src/ccmode/src/ccmode_gcm_encrypt.c:32), and
\* ccgcm_inc_iv makes a new IV (src/ccmode/src/ccgcm_inc_iv.c:24).
KeystreamOnce == Cardinality(Range(used)) = Len(used)
=============================================================================
