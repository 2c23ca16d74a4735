-------------------------------- MODULE Rsa --------------------------------
(***************************************************************************)
(* RSA: keys made of primes or recovered from their exponents, the blinded *)
(* private operation with the Chinese remainder theorem                    *)
(* (ccrsa_priv_crypt_blinded.c), blind signatures (ccrsabssa.c), and the   *)
(* encodings of messages and digests (ccrsa_eme_*.c, ccrsa_oaep_*.c,       *)
(* ccrsa_emsa_*.c) with the checks of the calls around them.  In the       *)
(* encodings a byte is a set of symbols, each in its high or its low bits, *)
(* xor their symmetric difference, and a digest is named by its input.     *)
(***************************************************************************)
EXTENDS Integers, SequencesExt

CONSTANTS
    Capacity,   \* bits a modulus may have: those of the words of the context
    MaskBits,   \* SCA_MASK_BITSIZE
    MaxTries,   \* RECOVER_MAX_TRIES
    Hash,       \* the output size of the digest
    Primes, Exponents, Pairs, Masks, BlindTexts, Moduli, Draws,
    Sizes,      \* of the blocks of the encryption schemes
    SignSizes,  \* of those of PKCS 1 signatures
    ModBits     \* of the moduli of PSS signatures

VARIABLES call, answer

vars == <<call, answer>>

Pending == <<>>
Failed == [ok |-> FALSE]

----------------------------------------------------------------------------
(* Keys                                                                    *)

BitLen(v) == CHOOSE k \in 0 .. 30 : v < 2^k /\ (k = 0 \/ v >= 2^(k - 1))

Gcd(a, b) == Max({g \in 1 .. a : a % g = 0 /\ b % g = 0})
Lcm(a, b) == (a \div Gcd(a, b)) * b

Coprime(a, b) == \A g \in 2 .. a : a % g # 0 \/ b % g # 0
Invertible(a, n) == Coprime(a % n, n) /\ a % n # 0
InverseOf(a, n) == CHOOSE x \in 1 .. n - 1 : (a * x) % n = 1

Power(b, e, n) ==
    LET pow[k \in 0 .. e] == IF k = 0 THEN 1 % n ELSE (pow[k - 1] * b) % n
    IN  pow[e]

\* ccrsa_crt_makekey, of p > q.
CrtMakekey(p, q, e) ==
    LET lambda == Lcm(p - 1, q - 1)
        d == InverseOf(e, lambda)
    IN  IF ~Invertible(e, lambda) \/ ~Invertible(q, p) THEN Failed
        ELSE [ok |-> TRUE, m |-> p * q, e |-> e, d |-> d, p |-> p, q |-> q,
              dp |-> d % (p - 1), dq |-> d % (q - 1), qinv |-> InverseOf(q, p)]

\* ccrsa_make_priv: in either order, and of nearly the same length.
MakePriv(a, b, e) ==
    LET p == IF a > b THEN a ELSE b
        q == IF a > b THEN b ELSE a
    IN  IF \/ e <= 1 \/ a = b
           \/ BitLen(p) - BitLen(q) > 2 \/ BitLen(p) + BitLen(q) > Capacity
           \/ p % 2 = 0 \/ q % 2 = 0 \/ q < 3
        THEN Failed
        ELSE CrtMakekey(p, q, e)

\* The powers of one draw, g^r, g^2r, ..., g^(2^t r): the last before 1, if that is no -1.
Split(m, r, t, g) ==
    LET y[j \in 0 .. t] == IF j = 0 THEN Power(g, r, m) ELSE (y[j - 1] * y[j - 1]) % m
        at == {j \in 1 .. t : y[j] = 1 /\ \A i \in 0 .. j - 1 : y[i] \notin {1, m - 1}}
    IN  IF at = {} THEN 0 ELSE y[(CHOOSE j \in at : TRUE) - 1]

\* ccrsa_recover_priv: a draw of 0 is a failure of the generator.
RecoverPriv(m, e, d, draws) ==
    LET k == (e * d) - 1
        t == CHOOSE i \in 0 .. 30 : k % 2^i = 0 /\ (k \div 2^i) % 2 = 1
        Found(g) == Split(m, k \div 2^t, t, g)
        lucky == {i \in 1 .. MaxTries : draws[i] > 0 /\ Found(draws[i]) > 0}
        first == CHOOSE i \in lucky : \A j \in lucky : i <= j
        f == Gcd(m, Found(draws[first]) - 1)
        p == IF f > m \div f THEN f ELSE m \div f
        q == m \div p
        fk == CrtMakekey(p, q, e)
    IN  IF m % 2 = 0 \/ k % 2 = 1 THEN Failed
        ELSE IF lucky = {} THEN Failed
        ELSE IF \E i \in 1 .. first : draws[i] = 0 THEN Failed
        ELSE IF p = q \/ BitLen(p) - BitLen(q) > 2 THEN Failed
        ELSE IF ~fk.ok THEN Failed
        ELSE IF fk.d # d THEN Failed
        ELSE fk

----------------------------------------------------------------------------
(* The private operation                                                   *)

Odd(r) == r + 1 - (r % 2)

\* Mutant of Garner: the difference is not kept positive.
GarnerBare(k, sp, pstar, sq) == sp - sq

\* sp - sq, with so many times the masked p added that it does not borrow.
Garner(k, sp, pstar, sq) == (pstar * 2^(MaskBits + 1)) + sp - sq

\* ccrsa_crt_power_blinded, by six masks.  A borrow leaves the words by 2^30.
CrtPower(k, x, rnd) ==
    LET Masked(f, exponent, by, times, add) ==
          LET star == f * Odd(by)
              bits == BitLen(f) + MaskBits
          IN  Power((x + (add * f)) % star, (exponent + (times * (f - 1))) % 2^bits, star)
        pstar == k.p * Odd(rnd[4])
        sq == Masked(k.q, k.dq, rnd[1], rnd[2], rnd[3])
        sp == Masked(k.p, k.dp, rnd[4], rnd[5], rnd[6])
        difference == Garner(k, sp, pstar, sq)
        t == (((IF difference < 0 THEN difference + 2^30 ELSE difference) % pstar) * k.qinv) % pstar
    IN  ((t * k.q) + sq) % k.m

Cleared == -1
Untouched == -2

\* ccrsa_priv_crypt_blinded: what was computed, wrong by some fault, is verified.
PrivCrypt(k, x, rnd, fault) ==
    LET result == (CrtPower(k, x, rnd) + fault) % k.m
    IN  IF BitLen(k.dp) <= 1 \/ BitLen(k.dq) <= 1 \/ x >= k.m
        THEN [ok |-> FALSE, out |-> Untouched]
        ELSE IF rnd = <<>> THEN [ok |-> FALSE, out |-> Cleared]
        ELSE IF Power(result, k.e, k.m) # x THEN [ok |-> FALSE, out |-> Cleared]
        ELSE [ok |-> TRUE, out |-> result]

\* ccrsabssa_blind_message, _sign_blinded_message, _unblind_signature: of an encoded message.
BlindSignature(k, em, r, rnd) ==
    LET blinded == (em * Power(r, k.e, k.m)) % k.m
        signed == PrivCrypt(k, blinded, rnd, 0)
    IN  IF ~Invertible(r, k.m) THEN Failed
        ELSE IF ~signed.ok THEN Failed
        ELSE [ok |-> TRUE, out |-> (signed.out * InverseOf(r, k.m)) % k.m]

----------------------------------------------------------------------------
(* Bytes                                                                   *)

Symbols(name, data, i) == {<<name, data, i, "low">>, <<name, data, i, "high">>}
Lit(k) == IF k = 0 THEN {} ELSE {<<"literal", k, 0, "low">>}
Fill(n, b) == [i \in 1 .. n |-> b]
Random(name, n) == [i \in 1 .. n |-> Symbols(name, 0, i)]
Digest(input) == [i \in 1 .. Hash |-> Symbols("hash", input, i)]
Xor(a, b) == [i \in DOMAIN a |-> SymDiff(a[i], b[i])]
First(s, n) == SubSeq(s, 1, n)
From(s, n) == SubSeq(s, n + 1, Len(s))
Message(n) == Random("message", n)

\* ccmgf: whole digests, and the beginning of one more.
Mgf(n, seed) ==
    LET Mask(k) == Digest(Append(seed, {<<"counter", k, 0, "low">>}))
        whole == n \div Hash
    IN  FlattenSeq([k \in 1 .. whole |-> Mask(k - 1)]) \o First(Mask(whole), n % Hash)

\* What an element of a string may have become.
Others == {Lit(0), Lit(1), Lit(2), Symbols("other", 0, 0)}

Changed(s, at, to) == IF at = 0 THEN s ELSE [s EXCEPT ![at] = to]

----------------------------------------------------------------------------
(* Encryption                                                              *)

\* ccrsa_eme_pkcs1v15_encode: bytes drawn as zero are drawn again.
EmePkcs(size, s, zeros) ==
    LET padlen == size - Len(s) - 3
        pad == [i \in 1 .. padlen |-> IF i \in zeros THEN Symbols("again", 0, i)
                                      ELSE Symbols("pad", 0, i)]
    IN  IF size < 11 \/ size - 11 < Len(s) THEN Failed
        ELSE [ok |-> TRUE, em |-> <<Lit(0), Lit(2)>> \o pad \o <<Lit(0)>> \o s]

\* Mutant of FirstZero: the last zero ends the padding.
FirstZeroLast(em) ==
    LET zeros == {i \in 3 .. Len(em) : em[i] = Lit(0)}
    IN  IF zeros = {} THEN 0 ELSE CHOOSE i \in zeros : \A j \in zeros : j <= i

\* The place of the zero that ends the padding, from 1, or 0.
FirstZero(em) ==
    LET zeros == {i \in 3 .. Len(em) : em[i] = Lit(0)}
    IN  IF zeros = {} THEN 0 ELSE CHOOSE i \in zeros : \A j \in zeros : i <= j

DecodeEmePkcs(em, room) ==
    LET zero == FirstZero(em)
    IN  IF \/ em[1] # Lit(0) \/ em[2] # Lit(2) \/ zero = 0
           \/ zero - 3 < 8 \/ room < Len(em) - zero
        THEN Failed
        ELSE [ok |-> TRUE, s |-> From(em, zero)]

\* ccrsa_oaep_encode_parameter from the data block on, which may have been changed.
SealOaep(db, seed) ==
    LET masked == Xor(db, Mgf(Len(db), seed))
    IN  <<Lit(0)>> \o Xor(seed, Mgf(Hash, masked)) \o masked

DataBlock(size, s, label) ==
    Digest(label) \o Fill(size - Len(s) - (2 * Hash) - 2, Lit(0)) \o <<Lit(1)>> \o s

OaepFits(size, s) == size - 1 >= (2 * Hash) + 1 /\ Len(s) <= size - 1 - (2 * Hash) - 1

\* Mutant of OaepPadding: any byte other than zero ends the padding.
OaepPaddingAny(db, one) == db[one] # Lit(0) /\ \A i \in Hash + 1 .. one - 1 : db[i] = Lit(0)

\* The first one after the label's digest, with zeros in front.
OaepPadding(db, one) == db[one] = Lit(1) /\ \A i \in Hash + 1 .. one - 1 : db[i] = Lit(0)

DecodeOaep(em, label, room, c_size) ==
    LET masked == From(em, Hash + 1)
        seed == Xor(SubSeq(em, 2, Hash + 1), Mgf(Hash, masked))
        db == Xor(masked, Mgf(Len(masked), seed))
        ones == {i \in Hash + 1 .. Len(db) : OaepPadding(db, i)}
        one == CHOOSE i \in ones : \A j \in ones : i <= j
    IN  IF \/ Len(em) < (2 * Hash) + 2 \/ room < Len(em) - (2 * Hash) - 2 \/ c_size < Len(em)
           \/ em[1] # Lit(0) \/ First(db, Hash) # Digest(label) \/ ones = {}
        THEN Failed
        ELSE IF room < Len(db) - one THEN Failed
        ELSE [ok |-> TRUE, s |-> From(db, one)]

----------------------------------------------------------------------------
(* Signatures                                                              *)

\* The OID is <<6, n, ...>>, or none.
DigestInfo(digest, oid) ==
    IF oid = <<>> THEN digest
    ELSE <<Lit(48), Lit(8 + Len(oid) - 2 + Len(digest)), Lit(48), Lit(Len(oid) + 2)>>
           \o oid \o <<Lit(5), Lit(0), Lit(4), Lit(Len(digest))>> \o digest

EmsaPkcs(size, digest, oid) ==
    LET t == DigestInfo(digest, oid)
    IN  IF size < 11 \/ Len(t) > size - 11 \/ (oid # <<>> /\ Len(t) >= 127) THEN Failed
        ELSE [ok |-> TRUE,
              em |-> <<Lit(0), Lit(1)>> \o Fill(size - 3 - Len(t), Lit(255)) \o <<Lit(0)>> \o t]

\* ccrsa_verify_pkcs1v15_internal: of a signature of sig_len bytes.
VerifyPkcs(em, digest, oid, sig_len, strict) ==
    LET t == DigestInfo(digest, oid)
        pslen == Len(em) - 3 - Len(t)
    IN  /\ IF strict THEN sig_len = Len(em) ELSE sig_len <= Len(em)
        /\ Len(em) >= Len(t) + 11
        /\ em[1] = Lit(0) /\ em[2] = Lit(1)
        /\ \A i \in 3 .. pslen + 2 : em[i] = Lit(255)
        /\ em[pslen + 3] = Lit(0) /\ From(em, pslen + 3) = t

EmSize(bits) == (bits + 7) \div 8

\* The bits of the first byte above emBits are cleared.
Top(bits, s) ==
    IF bits % 8 = 0 THEN s ELSE [s EXCEPT ![1] = {b \in @ : b[4] = "low"}]

PssHash(digest, salt) == Digest(Fill(8, Lit(0)) \o digest \o salt)

\* ccrsa_emsa_pss_encode from the data block on, which may have been changed.
SealPss(bits, db, digest, salt) ==
    LET H == PssHash(digest, salt)
    IN  Top(bits, Xor(db, Mgf(Len(db), H))) \o H \o <<Lit(188)>>

PssBlock(bits, salt) ==
    Fill(EmSize(bits) - Len(salt) - Hash - 2, Lit(0)) \o <<Lit(1)>> \o salt

PssFits(bits, salt) ==
    /\ bits >= (8 * Hash) + (8 * Len(salt)) + 9
    /\ EmSize(bits) >= Hash + Len(salt) + 2
    /\ Len(salt) <= Hash

\* Mutant of UsedMask: the mask of the data block keeps all its bits.
UsedMaskWhole(bits, s) == s

\* ccrsa_emsa_pss_decode clears the bits of the mask that the encoder cleared.
UsedMask(bits, s) == Top(bits, s)

DecodePss(bits, em, sSize, digest) ==
    LET len == Len(em) - Hash - 1
        H == SubSeq(em, len + 1, len + Hash)
        db == Xor(First(em, len), UsedMask(bits, Mgf(len, H)))
        zeros == Len(em) - sSize - Hash - 2
    IN  /\ Len(digest) = Hash /\ Len(em) >= Hash + sSize + 2
        /\ em[Len(em)] = Lit(188)
        /\ Top(bits, First(em, len)) = First(em, len)
        /\ \A i \in 1 .. zeros : db[i] = Lit(0)
        /\ db[zeros + 1] = Lit(1)
        /\ PssHash(digest, From(db, zeros + 1)) = H

\* ccrsa_verify_pss_digest_ws: the byte above those of the encoding is not looked at.
VerifyPss(modBits, opened, sSize, digest) ==
    DecodePss(modBits - 1, From(opened, Len(opened) - EmSize(modBits - 1)), sSize, digest)

----------------------------------------------------------------------------
(* One call                                                                *)

Label == Message(0)
OtherLabel == <<Lit(2)>>
Digests == {Random("digest", Hash), Random("another", Hash)}
Signed == Random("digest", Hash)
Oids == {<<>>, <<Lit(6), Lit(1), Lit(42)>>, <<Lit(6), Lit(2), Lit(42), Lit(3)>>}

Keys == {k \in {CrtMakekey(pair[1], pair[2], e) : pair \in Pairs, e \in Exponents} : k.ok}

Calls ==
    [op : {"make"}, a : Primes, b : Primes, e : Exponents \cup {0, 1}]
    \cup UNION {[op : {"private"}, key : {k}, x : 0 .. k.m, rnd : Masks \cup {<<>>}, fault : {0, 1}]
                : k \in Keys}
    \cup UNION {[op : {"blind"}, key : {k}, em : BlindTexts, r : 1 .. k.m - 1,
                  rnd : {<<3, 1, 2, 2, 3, 1>>}] : k \in Keys}
    \cup [op : {"recover"}, m : Moduli, e : Exponents, d : 3 .. 30, draws : [1 .. MaxTries -> Draws]]
    \cup [op : {"eme"}, size : Sizes, length : 0 .. 3, zeros : {{}, {1}, {2, 8}}]
    \cup [op : {"oaep"}, size : Sizes, length : 0 .. 3, inside : BOOLEAN]
    \cup [op : {"emsa"}, size : SignSizes, oid : Oids]
    \cup [op : {"pss"}, modBits : ModBits, sSize : 0 .. Hash + 1, inside : BOOLEAN]

Init == call = Pending /\ answer = Pending

Ask == call = Pending /\ call' \in Calls /\ UNCHANGED answer

Asked(op) == call # Pending /\ answer = Pending /\ call.op = op /\ UNCHANGED call

MakeKey == Asked("make") /\ answer' = MakePriv(call.a, call.b, call.e)

Private == Asked("private") /\ answer' = PrivCrypt(call.key, call.x, call.rnd, call.fault)

Blind == Asked("blind") /\ answer' = BlindSignature(call.key, call.em, call.r, call.rnd)

Recover == Asked("recover") /\ answer' = RecoverPriv(call.m, call.e, call.d, call.draws)

EncryptEme ==
    /\ Asked("eme")
    /\ LET sent == EmePkcs(call.size, Message(call.length), call.zeros)
       IN  IF ~sent.ok THEN answer' = Failed
           ELSE \E at \in 0 .. call.size, to \in Others :
                  LET em == Changed(sent.em, at, to)
                  IN  answer' = [ok |-> TRUE, em |-> em, back |-> DecodeEmePkcs(em, call.size)]

\* The data block is changed before it is masked, or the whole is changed after.
EncryptOaep ==
    /\ Asked("oaep")
    /\ IF ~OaepFits(call.size, Message(call.length)) THEN answer' = Failed
       ELSE \E at \in 0 .. call.size, to \in Others, same \in BOOLEAN,
               room \in {call.size - (2 * Hash) - 3, call.size}, less \in {0, 1} :
              LET db == DataBlock(call.size, Message(call.length), Label)
                  seed == Random("seed", Hash)
                  inner == IF call.inside /\ at <= Len(db) THEN Changed(db, at, to) ELSE db
                  em == IF call.inside THEN SealOaep(inner, seed)
                        ELSE Changed(SealOaep(db, seed), at, to)
                  label == IF same THEN Label ELSE OtherLabel
              IN  answer' = [ok |-> TRUE, em |-> em, db |-> inner, room |-> room, same |-> same,
                             less |-> less,
                             back |-> DecodeOaep(em, label, room, call.size - less)]

SignPkcs ==
    /\ Asked("emsa")
    /\ LET sent == EmsaPkcs(call.size, Signed, call.oid)
       IN  IF ~sent.ok THEN answer' = Failed
           ELSE \E at \in 0 .. call.size, to \in Others, oid \in Oids, digest \in Digests,
                   sig_len \in call.size - 1 .. call.size + 1 :
                  LET em == Changed(sent.em, at, to)
                  IN  answer' = [ok |-> TRUE, em |-> em, oid |-> oid, digest |-> digest,
                                 sig_len |-> sig_len,
                                 strict |-> VerifyPkcs(em, digest, oid, sig_len, TRUE),
                                 short |-> VerifyPkcs(em, digest, oid, sig_len, FALSE)]

\* A number below a modulus of 8k + 1 bits has a byte above the encoding, of 0 or 1.
SignPss ==
    /\ Asked("pss")
    /\ LET bits == call.modBits - 1
           salt == Random("salt", call.sSize)
       IN  IF ~PssFits(bits, salt) THEN answer' = Failed
           ELSE \E at \in 0 .. EmSize(bits), to \in Others, sSize \in 0 .. Hash + 1,
                   digest \in Digests, top \in 0 .. 1 :
                  LET above == Fill(EmSize(call.modBits) - EmSize(bits), Lit(top))
                      db == PssBlock(bits, salt)
                      inner == IF call.inside /\ at <= Len(db) THEN Changed(db, at, to) ELSE db
                      em == IF call.inside THEN SealPss(bits, inner, Signed, salt)
                            ELSE Changed(SealPss(bits, db, Signed, salt), at, to)
                  IN  answer' = [ok |-> TRUE, em |-> em, sSize |-> sSize, digest |-> digest,
                                 top |-> top,
                                 valid |-> VerifyPss(call.modBits, above \o em, sSize, digest)]

Next ==
    \/ Ask
    \/ MakeKey \/ Private \/ Blind \/ Recover
    \/ EncryptEme \/ EncryptOaep \/ SignPkcs \/ SignPss

Spec == Init /\ [][Next]_vars

----------------------------------------------------------------------------
(* What they promise                                                       *)

Inverts(k) == \A x \in 0 .. k.m - 1 : Power(Power(x, k.e, k.m), k.d, k.m) = x

\* A draw divides m = p * q if the powers of it become 1 at different places modulo p and q.
Divides(g, p, q, k) ==
    LET r == CHOOSE i \in 1 .. k : i % 2 = 1 /\ k % i = 0 /\ \E j \in 0 .. 10 : i * 2^j = k
        Place(f) == CHOOSE j \in 0 .. 30 : /\ Power(g, r * 2^j, f) = 1
                                          /\ j > 0 => Power(g, r * 2^(j - 1), f) # 1
    IN  g % p # 0 /\ g % q # 0 /\ Place(p) # Place(q)

\* A key is made of any two primes of nearly the same length whose exponent has an inverse; its
\* private operation inverts the public one under every mask, and a wrong or unmasked one gives
\* nothing (ccrsa_priv_crypt_blinded.c); so do blind signatures (ccrsabssa.c).  What is recovered
\* from two exponents is the key they are of, if a draw divides it (ccrsa_recover_priv.c).
KeysExact ==
    answer # Pending =>
      CASE call.op = "make" ->
             /\ answer.ok => /\ answer.m = call.a * call.b /\ answer.p > answer.q
                             /\ {answer.p, answer.q} = {call.a, call.b} /\ Inverts(answer)
             /\ ~answer.ok => \/ call.a = call.b \/ call.e <= 1 \/ 2 \in {call.a, call.b}
                              \/ ~Coprime(call.e, (call.a - 1) * (call.b - 1))
                              \/ BitLen(call.a) - BitLen(call.b) \notin -2 .. 2
                              \/ call.a * call.b >= 2^(Capacity - 1)
        [] call.op = "private" ->
             IF answer.ok
             THEN answer.out = Power(call.x, call.key.d, call.key.m)
             ELSE /\ answer.out \in {Cleared, Untouched}
                  /\ \/ call.fault > 0 \/ call.rnd = <<>> \/ call.x >= call.key.m
                     \/ 1 \in {call.key.dp, call.key.dq}
        [] call.op = "blind" ->
             IF Coprime(call.r, call.key.m) /\ 1 \notin {call.key.dp, call.key.dq}
             THEN answer.ok /\ answer.out = Power(call.em, call.key.d, call.key.m)
             ELSE ~answer.ok
        [] call.op = "recover" ->
             /\ answer.ok => /\ answer.m = call.m /\ answer.d = call.d /\ answer.e = call.e
                             /\ answer.p * answer.q = call.m /\ Inverts(answer)
             /\ \A p \in Primes, q \in Primes :
                  /\ p > q /\ q > 2 /\ call.m = p * q /\ BitLen(p) - BitLen(q) <= 2
                  /\ Invertible(call.e, Lcm(p - 1, q - 1))
                  /\ call.d = InverseOf(call.e, Lcm(p - 1, q - 1))
                  /\ \E i \in 1 .. MaxTries :
                       /\ \A j \in 1 .. i : call.draws[j] > 0
                       /\ Divides(call.draws[i], p, q, (call.e * call.d) - 1)
                  => answer.ok
        [] OTHER -> TRUE

\* What was encoded is decoded, and of everything else what is accepted is exactly an encoding:
\* of the message returned, or of the digest asked about (ccrsa_eme_pkcs1v15_decode.c,
\* ccrsa_oaep_decode.c, ccrsa_emsa_pkcs1v15_verify.c, ccrsa_emsa_pss_decode.c); whatever, under
\* a modulus of 8k + 1 bits, a PSS signature has above the encoding (ccrsa_verify_pss.c:65).
EncodingsRight ==
    answer # Pending /\ call.op \in {"eme", "oaep", "emsa", "pss"} =>
      IF ~answer.ok
      THEN CASE call.op = "eme" -> call.length + 11 > call.size
             [] call.op = "oaep" -> call.length + (2 * Hash) + 2 > call.size
             [] call.op = "emsa" -> Len(DigestInfo(Signed, call.oid)) + 11 > call.size
             [] call.op = "pss" ->
                  call.sSize > Hash \/ call.modBits - 1 < 8 * (Hash + call.sSize + 1) + 1
      ELSE CASE call.op = "eme" ->
                  LET N == call.size
                      IsEncoding(n) ==
                        /\ First(answer.em, 2) = <<Lit(0), Lit(2)>> /\ answer.em[N - n] = Lit(0)
                        /\ \A i \in 3 .. N - n - 1 : answer.em[i] # Lit(0)
                  IN  IF \E n \in 0 .. N - 11 : IsEncoding(n)
                      THEN answer.back.ok /\ IsEncoding(Len(answer.back.s))
                           /\ answer.back.s = From(answer.em, N - Len(answer.back.s))
                      ELSE ~answer.back.ok
             [] call.op = "oaep" ->
                  LET Opens(n) == answer.db = DataBlock(call.size, From(answer.db, Len(answer.db) - n),
                                                       Label)
                      whole == /\ answer.em = SealOaep(answer.db, Random("seed", Hash))
                               /\ answer.same /\ answer.less = 0
                               /\ answer.room >= call.size - (2 * Hash) - 2
                  IN  IF whole /\ \E n \in 0 .. call.size - (2 * Hash) - 2 : Opens(n)
                      THEN answer.back.ok /\ Opens(Len(answer.back.s))
                           /\ answer.back.s = From(answer.db, Len(answer.db) - Len(answer.back.s))
                      ELSE ~answer.back.ok
             [] call.op = "emsa" ->
                  LET same == EmsaPkcs(call.size, answer.digest, answer.oid)
                      is == IF same.ok THEN answer.em = same.em ELSE FALSE
                  IN  /\ answer.strict <=> is /\ answer.sig_len = call.size
                      /\ answer.short <=> is /\ answer.sig_len <= call.size
             [] call.op = "pss" ->
                  LET salt == Random("salt", call.sSize)
                      bits == call.modBits - 1
                  IN  answer.valid <=>
                        /\ answer.digest = Signed /\ answer.sSize = call.sSize
                        /\ answer.em = SealPss(bits, PssBlock(bits, salt), Signed, salt)
=============================================================================
