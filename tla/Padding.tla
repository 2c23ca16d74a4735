------------------------------ MODULE Padding ------------------------------
(***************************************************************************)
(* Messages of any length around a block cipher: CBC and XTS in pieces     *)
(* (ccmode_cbc_*.c, ccmode_xts_crypt.c) with what ends them (ccpad_*.c:    *)
(* PKCS 7 padding and stealing from the block before), and the wrapping of *)
(* keys (ccwrap_*.c).  A byte is a set of symbols and xor their symmetric  *)
(* difference; the cipher yields new symbols, the inverse takes them back. *)
(* Input and output may be the same memory.                                *)
(***************************************************************************)
EXTENDS Integers, SequencesExt

CONSTANTS
    Block,          \* the block size of the cipher
    MaxText,        \* bound on the length of a message
    Byte,           \* values of a byte
    SemiBytes,      \* CCWRAP_SEMIBLOCK
    MaxSemiblocks,  \* CCWRAP_MAXSEMIBLOCKS
    KeyBytes        \* the lengths of the keys that are wrapped

VARIABLES scheme, phase, length, memory, chain, done, cipher, returned

vars == <<scheme, phase, length, memory, chain, done, cipher, returned>>

Stealing == {"cts1", "cts2", "cts3"}
Padded == {"pkcs7", "ecb pkcs7"}
Schemes == {"cbc", "xts"} \cup Stealing \cup Padded

Symbol(name, n) == {<<name, n, 0>>}
Zeros(n) == [i \in 1 .. n |-> {}]
Text(n) == [i \in 1 .. n |-> Symbol("text", i)]
Room(n) == [i \in 1 .. n |-> Symbol("room", i)]
Xor(a, b) == [i \in DOMAIN a |-> SymDiff(a[i], b[i])]
First(s, n) == SubSeq(s, 1, n)
From(s, n) == SubSeq(s, n + 1, Len(s))

Permuted(by, inverse, b) ==
    LET of == {s \in b[1] : s[1] = inverse /\ b = [i \in DOMAIN b |-> {<<inverse, s[2], i>>}]}
    IN  IF of # {} THEN (CHOOSE s \in of : TRUE)[2] ELSE [i \in DOMAIN b |-> {<<by, b, i>>}]

Encrypted(b) == Permuted("encrypted", "decrypted", b)
Decrypted(b) == Permuted("decrypted", "encrypted", b)

BlockOf(s, k) == SubSeq(s, (k - 1) * Block + 1, k * Block)

----------------------------------------------------------------------------
(* The modes: what becomes of whole blocks, and of the chain               *)

CbcEncrypt(iv, s) ==
    FoldLeft(LAMBDA acc, k :
               LET c == Encrypted(Xor(BlockOf(s, k), acc.chain))
               IN  [chain |-> c, out |-> acc.out \o c],
             [chain |-> iv, out |-> <<>>], [k \in 1 .. Len(s) \div Block |-> k])

CbcDecrypt(iv, s) ==
    FoldLeft(LAMBDA acc, k :
               LET c == BlockOf(s, k)
               IN  [chain |-> c, out |-> acc.out \o Xor(acc.chain, Decrypted(c))],
             [chain |-> iv, out |-> <<>>], [k \in 1 .. Len(s) \div Block |-> k])

Through(way, b) == IF way = "encrypt" THEN Encrypted(b) ELSE Decrypted(b)

Ecb(way, iv, s) ==
    [chain |-> iv,
     out |-> FlattenSeq([k \in 1 .. Len(s) \div Block |-> Through(way, BlockOf(s, k))])]

\* The tweak of the t-th block: the tweak of the data unit multiplied by alpha t times.
Tweak(t) == [i \in 1 .. Block |-> {<<"tweak", t, i>>}]

\* ccmode_xts_crypt, of a data unit of at most 2^20 blocks.
Xts(way, t, s) ==
    LET n == Len(s) \div Block
        Whitened(k) == Xor(Through(way, Xor(BlockOf(s, k), Tweak(t + k - 1))),
                           Tweak(t + k - 1))
    IN  [chain |-> t + n, out |-> FlattenSeq([k \in 1 .. n |-> Whitened(k)])]

Blocks(c, s) ==
    CASE scheme = "xts" -> Xts(phase, c, s)
      [] scheme = "ecb pkcs7" -> Ecb(phase, c, s)
      [] scheme \notin {"xts", "ecb pkcs7"} /\ phase = "encrypt" -> CbcEncrypt(c, s)
      [] OTHER -> CbcDecrypt(c, s)

----------------------------------------------------------------------------
(* Memory: what is written to the output is the input, too, if it is the   *)
(* same.                                                                   *)

Get(m, at, n) == SubSeq(m.in, at + 1, at + n)

Put(m, at, s) ==
    LET out == [i \in DOMAIN m.out |-> IF i \in at + 1 .. at + Len(s) THEN s[i - at] ELSE m.out[i]]
    IN  [m EXCEPT !.out = out, !.in = IF m.same THEN out ELSE @]

\* The n bytes at a position, whole blocks of them, in one call of the mode.
Crypt(st, at, n) ==
    LET r == Blocks(st.chain, Get(st.m, at, n))
    IN  [m |-> Put(st.m, at, r.out), chain |-> r.chain]

----------------------------------------------------------------------------
(* The last call of a message, for its n bytes at a position               *)

\* Mutant of CtsHead: the last byte is not set aside.
CtsHeadWhole(n) == LET blocks == n \div Block IN IF blocks > 1 THEN (blocks - 1) * Block ELSE 0

\* ccpad_cts_crypt: all but the last two blocks.
CtsHead(n) == LET blocks == (n - 1) \div Block IN IF blocks > 1 THEN (blocks - 1) * Block ELSE 0

CtsEncrypt(st, at, n) ==
    LET head == Crypt(st, at, CtsHead(n))
        from == at + CtsHead(n)
        tail == n - CtsHead(n)
        c == CbcEncrypt(head.chain, Get(head.m, from, tail) \o Zeros(2 * Block - tail)).out
        before == First(c, tail - Block)
        last == From(c, Block)
    IN  Put(head.m, from,
            IF scheme = "cts1" \/ (scheme = "cts2" /\ tail = 2 * Block) THEN before \o last
            ELSE last \o before)

CtsDecrypt(st, at, n) ==
    LET head == Crypt(st, at, CtsHead(n))
        from == at + CtsHead(n)
        tail == n - CtsHead(n)
        d == tail - Block
        s == Get(head.m, from, tail)
        before == IF scheme = "cts1" THEN First(s, d) ELSE From(s, Block)
        last == IF scheme = "cts1" THEN From(s, d) ELSE First(s, Block)
        z == Decrypted(last)
        stolen == before \o From(z, d)
    IN  IF tail = 2 * Block
        THEN Put(head.m, from,
                 CbcDecrypt(head.chain, IF scheme = "cts3" THEN before \o last ELSE s).out)
        ELSE Put(Put(head.m, from, CbcDecrypt(head.chain, stolen).out), from + Block,
                 Xor(First(stolen, d), First(z, d)))

PkcsEncrypt(st, at, n) ==
    LET tail == n % Block
        head == Crypt(st, at, n - tail)
        last == Get(head.m, at + n - tail, tail)
                  \o [i \in 1 .. Block - tail |-> Symbol("pad", Block - tail)]
    IN  Put(head.m, at + n - tail, Blocks(head.chain, last).out)

\* Mutant of PadSize: padding of a whole block is taken for none.
PadSizeBelow(block, pad) ==
    LET over == (Byte - block) + pad
    IN  IF over >= Byte \/ Byte - pad >= Byte THEN 0 ELSE pad

\* ccpad_pkcs7_decode: the carry out of a byte of either sum tells that the last byte is not
\* the size of a padding.
PadSize(block, pad) ==
    LET over == (Byte - 1 - block) + pad
    IN  IF over >= Byte \/ Byte - pad >= Byte THEN 0 ELSE pad

\* What is left of n decrypted bytes.
Unpadded(out, n) ==
    LET size == {k \in 1 .. Byte - 1 : out[n] = Symbol("pad", k)}
    IN  n - PadSize(Block, IF size = {} THEN 0 ELSE CHOOSE k \in size : TRUE)

XtsEncrypt(st, at, n) ==
    LET tail == n % Block
        a == Crypt(st, at, n - tail - Block)
        from == at + n - tail - Block
        ctemp == Xts("encrypt", a.chain, Get(a.m, from, Block)).out
        ptemp == Get(a.m, from + Block, tail) \o From(ctemp, tail)
        m == Put(a.m, from + Block, First(ctemp, tail))
    IN  IF tail = 0 THEN Crypt(st, at, n).m
        ELSE Put(m, from, Xts("encrypt", a.chain + 1, ptemp).out)

\* Mutant of XtsDecrypt: the tweak is not set back.
XtsDecryptForward(st, at, n) ==
    LET tail == n % Block
        a == Crypt(st, at, n - tail - Block)
        from == at + n - tail - Block
        ptemp == Xts("decrypt", a.chain, Get(a.m, from, Block)).out
        ctemp == Get(a.m, from + Block, tail) \o From(ptemp, tail)
        m == Put(a.m, from + Block, First(ptemp, tail))
    IN  IF tail = 0 THEN Crypt(st, at, n).m
        ELSE Put(m, from, Xts("decrypt", a.chain + 1, ctemp).out)

XtsDecrypt(st, at, n) ==
    LET tail == n % Block
        a == Crypt(st, at, n - tail - Block)
        from == at + n - tail - Block
        ptemp == Xts("decrypt", a.chain + 1, Get(a.m, from, Block)).out
        ctemp == Get(a.m, from + Block, tail) \o From(ptemp, tail)
        m == Put(a.m, from + Block, First(ptemp, tail))
    IN  IF tail = 0 THEN Crypt(st, at, n).m
        ELSE Put(m, from, Xts("decrypt", a.chain, ctemp).out)

----------------------------------------------------------------------------
(* Wrapping: n semiblocks in six passes                                    *)

WrapIv(which) == Symbol("iv", which)

Passes(n, Step(_, _, _), acc) ==
    FoldLeft(LAMBDA x, k : Step(x, k, ((k - 1) % n) + 1), acc, [k \in 1 .. 6 * n |-> k])

Count(k) == Symbol("t", k)

Wrapped(iv, text) ==
    LET Step(x, k, i) ==
          LET b == Encrypted(<<x[1], x[i + 1]>>)
          IN  [x EXCEPT ![1] = SymDiff(b[1], Count(k)), ![i + 1] = b[2]]
    IN  Passes(Len(text), Step, <<iv>> \o text)

Unwrapped(s) ==
    LET n == Len(s) - 1
        Back(x, k, i) ==
          LET down == (6 * n) + 1 - k
              at == n + 1 - i
              b == Decrypted(<<SymDiff(x[1], Count(down)), x[at + 1]>>)
          IN  [x EXCEPT ![1] = b[1], ![at + 1] = b[2]]
    IN  Passes(n, Back, s)

ArgsValid(pbytes, cbytes) ==
    /\ pbytes % SemiBytes = 0 /\ cbytes = pbytes + SemiBytes
    /\ pbytes \div SemiBytes >= 2 /\ pbytes \div SemiBytes < MaxSemiblocks

UnwrappedSize(cbytes) == IF cbytes < SemiBytes THEN 0 ELSE cbytes - SemiBytes

----------------------------------------------------------------------------

Init ==
    /\ scheme = "none" /\ phase = "idle" /\ length = 0 /\ done = 0 /\ returned = 0
    /\ memory = [in |-> <<>>, out |-> <<>>, same |-> FALSE] /\ chain = 0 /\ cipher = <<>>

\* What the last call of a message takes.
Takes(s, p, n) ==
    /\ n >= 0
    /\ s = "cbc" => n % Block = 0
    /\ s \in Stealing \cup {"xts"} => n > Block
    /\ s \in Padded /\ p = "decrypt" => n > 0 /\ n % Block = 0

IvOf(s) == IF s = "xts" THEN 0 ELSE [i \in 1 .. Block |-> Symbol("iv", i)]

Filled(s, room, same) ==
    LET in == s \o From(Room(room), Len(s))
    IN  [in |-> in, out |-> IF same THEN in ELSE Room(room), same |-> same]

Start ==
    /\ phase = "idle"
    /\ scheme' \in Schemes /\ length' \in 0 .. MaxText /\ phase' = "encrypt"
    /\ Takes(scheme', phase', length')
    /\ \E same \in BOOLEAN :
          memory' = Filled(Text(length'),
                           IF scheme' \in Padded THEN length' - (length' % Block) + Block
                           ELSE length', same)
    /\ chain' = IvOf(scheme')
    /\ UNCHANGED <<done, cipher, returned>>

Here == [m |-> memory, chain |-> chain]
Length == IF phase = "decrypt" THEN Len(cipher) ELSE length

\* cccbc_update, ccxts_update, ccecb_update
Update ==
    /\ phase \in {"encrypt", "decrypt"}
    /\ \E k \in 1 .. 2 :
          /\ Takes(scheme, phase, Length - done - k * Block)
          /\ LET st == Crypt(Here, done, k * Block)
             IN  memory' = st.m /\ chain' = st.chain
          /\ done' = done + k * Block
    /\ UNCHANGED <<scheme, phase, length, cipher, returned>>

EncryptLast ==
    /\ phase = "encrypt" /\ phase' = "sent"
    /\ LET n == length - done
       IN  memory' = CASE scheme = "cbc" -> Crypt(Here, done, n).m
                       [] scheme = "xts" -> XtsEncrypt(Here, done, n)
                       [] scheme \in Stealing -> CtsEncrypt(Here, done, n)
                       [] scheme \in Padded -> PkcsEncrypt(Here, done, n)
    /\ cipher' = memory'.out
    /\ UNCHANGED <<scheme, length, chain, done, returned>>

Receive ==
    /\ phase = "sent" /\ scheme # "wrap" /\ phase' = "decrypt"
    /\ \E same \in BOOLEAN : memory' = Filled(cipher, Len(cipher), same)
    /\ chain' = IvOf(scheme) /\ done' = 0
    /\ UNCHANGED <<scheme, length, cipher, returned>>

DecryptLast ==
    /\ phase = "decrypt" /\ phase' = "received"
    /\ LET n == Len(cipher) - done
       IN  /\ memory' = CASE scheme = "xts" -> XtsDecrypt(Here, done, n)
                          [] scheme \in Stealing -> CtsDecrypt(Here, done, n)
                          [] OTHER -> Crypt(Here, done, n).m
           /\ returned' = IF scheme \in Padded THEN Unpadded(memory'.out, Len(cipher))
                          ELSE Len(cipher)
    /\ UNCHANGED <<scheme, length, chain, done, cipher>>

\* Semiblocks, of which the last may be short of bytes.
Semiblocks(bytes) == (bytes + SemiBytes - 1) \div SemiBytes

Wrap ==
    /\ phase = "idle" /\ phase' = "sent" /\ scheme' = "wrap"
    /\ length' \in KeyBytes
    /\ IF ArgsValid(length', length' + SemiBytes)
       THEN /\ cipher' = Wrapped(WrapIv(1), Text(Semiblocks(length')))
            /\ returned' = length' + SemiBytes
       ELSE cipher' = Room(Semiblocks(length') + 1) /\ returned' = 0
    /\ UNCHANGED <<memory, chain, done>>

Swap(s, i, j) == [s EXCEPT ![i] = s[j], ![j] = s[i]]

\* What arrives: the wrapped key, or it with two semiblocks swapped, one replaced, one more
\* or less, or a byte cut off.
Arrived(s) ==
    {[s |-> Swap(s, i, j), cut |-> 0] : i \in DOMAIN s, j \in DOMAIN s}
    \cup {[s |-> [s EXCEPT ![i] = Symbol("other", 0)], cut |-> 0] : i \in DOMAIN s}
    \cup {[s |-> Front(s), cut |-> 0], [s |-> Append(s, Symbol("other", 0)), cut |-> 0],
          [s |-> <<>>, cut |-> 0], [s |-> s, cut |-> 1]}

\* Mutant of Cleared: the size is that of the result, which was set to 0 before.
ClearedResult(out, size) == out

\* The whole of what was written is cleared; a semiblock cut short is not looked at.
Cleared(out, size) == [i \in DOMAIN out |-> IF i * SemiBytes <= size THEN {} ELSE out[i]]

Unwrap ==
    /\ phase = "sent" /\ scheme = "wrap" /\ phase' = "received"
    /\ \E arrived \in Arrived(cipher), iv \in 1 .. 2 :
          LET nbytes == Len(arrived.s) * SemiBytes - arrived.cut
              obytes == UnwrappedSize(nbytes)
              valid == ArgsValid(obytes, nbytes)
              x == IF valid THEN Unwrapped(arrived.s) ELSE <<{}>> \o Room(Semiblocks(obytes))
              ok == valid /\ x[1] = WrapIv(iv)
          IN  /\ memory' = [in |-> arrived.s, same |-> FALSE,
                            out |-> IF ok THEN Tail(x) ELSE Cleared(Tail(x), obytes)]
              /\ returned' = IF ok THEN obytes ELSE 0
              /\ chain' = [iv |-> iv, cut |-> arrived.cut, ok |-> ok]
    /\ UNCHANGED <<scheme, length, done, cipher>>

Next == Start \/ Update \/ EncryptLast \/ Receive \/ DecryptLast \/ Wrap \/ Unwrap

Spec == Init /\ [][Next]_vars

----------------------------------------------------------------------------
(* What they promise                                                       *)

\* The standards' ciphertext of the whole message (SP 800-38A and its addendum, 38E).
CipherOf(s, n) ==
    LET tail == n % Block
        padded == Text(n) \o (IF s \in Padded
                              THEN [i \in 1 .. Block - tail |-> Symbol("pad", Block - tail)]
                              ELSE IF tail = 0 THEN <<>> ELSE Zeros(Block - tail))
        N == Len(padded) \div Block
        c[k \in 0 .. N] == IF k = 0 THEN IvOf("cbc")
                           ELSE Encrypted(Xor(BlockOf(padded, k), c[k - 1]))
        X(t, b) == Xor(Encrypted(Xor(b, Tweak(t))), Tweak(t))
        d == n - (N - 1) * Block
        Chained(k) == FlattenSeq([i \in 1 .. k |-> c[i]])
        Tweaked(k) == FlattenSeq([i \in 1 .. k |-> X(i - 1, BlockOf(padded, i))])
    IN  CASE s \in {"cbc", "pkcs7"} -> Chained(N)
          [] s = "ecb pkcs7" -> FlattenSeq([k \in 1 .. N |-> Encrypted(BlockOf(padded, k))])
          [] s = "cts1" \/ (s = "cts2" /\ d = Block) ->
               Chained(N - 2) \o First(c[N - 1], d) \o c[N]
          [] s = "cts3" \/ (s = "cts2" /\ d < Block) ->
               Chained(N - 2) \o c[N] \o First(c[N - 1], d)
          [] s = "xts" /\ tail = 0 -> Tweaked(N)
          [] s = "xts" /\ tail > 0 ->
               LET stolen == X(N - 2, BlockOf(padded, N - 1))
                   last == First(BlockOf(padded, N), tail) \o From(stolen, tail)
               IN  Tweaked(N - 2) \o X(N - 1, last) \o First(stolen, tail)

\* RFC 3394, 2.2.1: the registers are shifted, not indexed.
ShiftedWrap(iv, text) ==
    LET n == Len(text)
        registers[k \in 0 .. 6 * n] ==
          IF k = 0 THEN <<iv>> \o text
          ELSE LET x == registers[k - 1]
                   b == Encrypted(First(x, 2))
               IN  <<SymDiff(b[1], Count(k))>> \o From(x, 2) \o <<b[2]>>
    IN  registers[6 * n]

\* A message becomes the standards' ciphertext, in place or not and in whatever pieces, and
\* the text again (ccpad_*.c); a key is wrapped as the standard has it, and what is not
\* exactly that, under the same IV, is refused and leaves nothing behind (ccwrap_*.c).  What is
\* removed is decided by the last byte alone, and of bad padding that is nothing
\* (ccpad_pkcs7_padding_decode.c:39), not the block that ccpad.h:45 speaks of.
MessagesExact ==
    /\ phase = "received" /\ scheme \in Padded =>
         \A pad \in 0 .. Byte - 1, block \in {Block, 8, 16} :
            PadSize(block, pad) = IF pad \in 1 .. block THEN pad ELSE 0
    /\ phase \in {"sent", "decrypt"} /\ scheme # "wrap" => cipher = CipherOf(scheme, length)
    /\ phase = "received" /\ scheme # "wrap" =>
         returned = length /\ First(memory.out, length) = Text(length)
    /\ phase = "sent" /\ scheme = "wrap" /\ returned # 0 =>
         cipher = ShiftedWrap(WrapIv(1), Text(length \div SemiBytes))
    /\ phase = "received" /\ scheme = "wrap" =>
         /\ chain.ok <=> /\ ArgsValid(length, length + SemiBytes)
                         /\ memory.in = cipher /\ chain.iv = 1 /\ chain.cut = 0
         /\ IF chain.ok THEN memory.out = Text(length \div SemiBytes) /\ returned = length
            ELSE returned = 0 /\ \A i \in DOMAIN memory.out :
                                   i * SemiBytes <= UnwrappedSize(Len(memory.in) * SemiBytes
                                                                  - chain.cut)
                                     => memory.out[i] = {}
=============================================================================
