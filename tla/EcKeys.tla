------------------------------- MODULE EcKeys -------------------------------
(***************************************************************************)
(* Key pairs on a curve and their signatures (ccec): how a scalar is made, *)
(* the check of a new pair, ECDSA, and the diversified key.  A multiple by *)
(* a secret is the group's, which Curve compares ccec_mult with; what a    *)
(* verification or a check computes faster is computed here.               *)
(***************************************************************************)
EXTENDS Points

CONSTANTS
    Generator,        \* ccec_cp_g
    MaxRetries,       \* CCEC_SIGN_MAX_RETRIES (10)
    ByteBits,         \* 8
    MinCandidates,    \* of a sequence (10)
    ReferenceScalar,  \* REF_K, as the order leaves it
    FakeDigest,       \* of the check of a pair
    DigestValues, Privates, Publics, Entropies, CandidateLists, Diversifiers,
    SignMasks         \* scalars drawn to mask a signature

VARIABLES
    call, answer,
    key,     \* the pair being made
    tries    \* signatures with r or s = 0

vars == <<call, answer, key, tries>>

Pending == <<>>
NoKey == [k |-> 0, pub |-> Zero]
Scalars == 1 .. Order - 1
InvertScalar(a) == CHOOSE i \in Scalars : (a * i) % Order = 1

----------------------------------------------------------------------------
(* Key pairs                                                               *)

\* A scalar by the first candidate below q - 1, by division, or by one subtraction, which
\* leaves 0 as well.
FirstCandidate(candidates) ==
    LET good == {i \in DOMAIN candidates : candidates[i] < Order - 1}
    IN  IF Len(candidates) < MinCandidates \/ good = {} THEN Failed
        ELSE candidates[CHOOSE i \in good : \A j \in good : i <= j] + 1

Extrabits(n) == (n % (Order - 1)) + 1
Pka(n) == (n % (Order - 2)) + 2
Legacy(n) == LET k == n % 2^OrderBits IN  IF k >= Order THEN k - Order ELSE k

\* What a call may make of its entropy; the generator of random bits may fail.
ScalarsOf(c) ==
    CASE c.method = "retry" -> Scalars \cup {Failed}
      [] c.method = "sequence" -> {FirstCandidate(c.candidates)}
      [] c.method = "legacy" -> {IF c.length = "short" THEN Failed ELSE Legacy(c.value)}
      [] c.method = "extrabits" -> {IF c.length # "enough" THEN Failed ELSE Extrabits(c.value)}
      [] c.method = "pka" -> {IF c.length = "short" THEN Failed ELSE Pka(c.value)}

\* Mutant of Compacted: the point alone.
CompactedPoint(pair) ==
    IF P - pair.pub.y < pair.pub.y THEN [pair EXCEPT !.pub.y = P - @] ELSE pair

\* The pair whose y is the lesser one.
Compacted(pair) ==
    IF P - pair.pub.y < pair.pub.y
    THEN [k |-> Order - pair.k, pub |-> [pair.pub EXCEPT !.y = P - @]]
    ELSE pair

Pair(k) == [k |-> k, pub |-> Times(k, Generator)]

----------------------------------------------------------------------------
(* Signatures                                                              *)

BigEndian(bytes) ==
    LET value[i \in 0 .. Len(bytes)] ==
          IF i = 0 THEN 0 ELSE value[i - 1] * 2^ByteBits + bytes[i]
    IN  value[Len(bytes)]

\* The bytes that the order has, its bits of them, and no more than one q.
DigestScalar(digest) ==
    LET size == (OrderBits + ByteBits - 1) \div ByteBits
        taken == BigEndian(SubSeq(digest, 1, IF Len(digest) < size THEN Len(digest) ELSE size))
        e == IF Len(digest) * ByteBits > OrderBits
             THEN taken \div 2^((-OrderBits) % ByteBits) ELSE taken
    IN  IF e >= Order THEN e - Order ELSE e

\* x of a point, less one q.
Reduced(x) == IF x >= Order THEN x - Order ELSE x

\* r and s by the ephemeral k, every product masked by m; 0 where they must be made again.
Signature(digest, x, k, m) ==
    LET r == Reduced(Times(k, Generator).x)
        em == (DigestScalar(digest) * m) % Order
        xm == (x * m) % Order
        s == ((((xm * r) % Order) + em) * InvertScalar((k * m) % Order)) % Order
    IN  [r |-> r, s |-> IF r = 0 THEN 0 ELSE s]

Usable(sig) == sig.r # 0 /\ sig.s # 0

\* The sum of both products: apart if the keys have one x, otherwise jointly, which needs
\* four bits of a scalar.
Verified(pub, z, digest, sig) ==
    LET w == InvertScalar(sig.s)
        d0 == (DigestScalar(digest) * w) % Order
        d1 == (sig.r * w) % Order
        g == Projectify(Generator, 1)
        q == Projectify(pub, 1)
        verdict(sum) ==
          IF Infinite(sum) THEN "PARAMETER"
          ELSE IF Reduced(AffinifyXOnly(sum)) = sig.r THEN "VALID" ELSE "INVALID"
    IN  CASE {sig.r, sig.s} \subseteq Scalars /\ z = 1 /\ IsPoint(q) /\ pub.x = Generator.x ->
               [status |-> verdict(FullAdd(MultInner(d1, OrderBits, q),
                                           MultInner(d0, OrderBits, g))),
                exception |-> FALSE]
          [] {sig.r, sig.s} \subseteq Scalars /\ z = 1 /\ IsPoint(q) /\ pub.x # Generator.x ->
               IF d0 < 8 /\ d1 < 8 THEN [status |-> "PARAMETER", exception |-> TRUE]
               ELSE LET twin == TwinMult(d0, g, d1, q)
                    IN  [status |-> verdict(twin.r), exception |-> twin.subDoubled]
          [] OTHER -> [status |-> "PARAMETER", exception |-> FALSE]

----------------------------------------------------------------------------
(* The check by a key agreement                                            *)

\* Doubling and adding, for scalars that are no secret.
FastMult(d, s) ==
    LET n == BitLen(d)
        step[i \in 0 .. n] ==
          IF i >= n - 1 THEN s
          ELSE LET r == Double(step[i + 1])
               IN  IF Bit(d, i) = 1 THEN FullAdd(r, s) ELSE r
    IN  step[0]

\* Of both sides' x, in whatever scale the base is taken; x = 0 does not count.
Agree(pair, z, w) ==
    LET reference == Affinify(FastMult(ReferenceScalar, Projectify(Generator, z)))
        x == Times(pair.k, reference).x
    IN  x # 0 /\ AffinifyXOnly(FastMult(ReferenceScalar, Projectify(pair.pub, w))) = x

----------------------------------------------------------------------------
(* Calls                                                                   *)

Calls ==
    [op : {"generate"}, method : {"retry"}, compact : BOOLEAN]
    \cup [op : {"generate"}, method : {"sequence"}, compact : {TRUE}, candidates : CandidateLists]
    \cup [op : {"generate"}, method : {"extrabits"}, compact : BOOLEAN,
          length : {"short", "enough", "long"}, value : Entropies]
    \cup [op : {"generate"}, method : {"pka", "legacy"}, compact : {FALSE},
          length : {"short", "enough"}, value : Entropies]
    \cup [op : {"agreement key"}, method : {"retry"}, compact : {FALSE}]
    \cup [op : {"sign"}, k : Privates, digest : DigestValues]
    \cup [op : {"verify"}, pub : Publics, z : {1}, digest : DigestValues,
          sig : [r : 0 .. Order, s : 0 .. Order]]
    \cup [op : {"verify"}, pub : Publics, z : {2}, digest : DigestValues, sig : [r : {1}, s : {1}]]
    \cup [op : {"diversify"}, k : Scalars, u : Diversifiers, v : Diversifiers]

Init == call = Pending /\ answer = Pending /\ key = NoKey /\ tries = 0

Ask == call = Pending /\ call' \in Calls /\ UNCHANGED <<answer, key, tries>>

Asking(ops) == call # Pending /\ call.op \in ops /\ answer = Pending /\ UNCHANGED call
Answers(a) == answer' = a
Fails(status) == Answers([status |-> status]) /\ UNCHANGED <<key, tries>>

\* The scalar and its point, compact if that is asked for.
MakeKey ==
    /\ Asking({"generate", "agreement key"}) /\ key = NoKey
    /\ \E k \in ScalarsOf(call) :
         \/ k \notin Scalars /\ Fails("REFUSED")
         \/ /\ k \in Scalars
            /\ key' = IF call.compact THEN Compacted(Pair(k)) ELSE Pair(k)
            /\ UNCHANGED <<answer, tries>>

\* Of a call of sign, or of the check of a pair that has been made.
Signing == Asking({"generate", "sign"}) /\ (call.op = "generate" => key # NoKey)
SigningKey == IF call.op = "sign" THEN call.k ELSE key.k
SigningDigest == IF call.op = "sign" THEN call.digest ELSE FakeDigest

Checked(sig) ==
    LET check == Verified(key.pub, 1, FakeDigest, sig)
    IN  IF check.status = "VALID" THEN [status |-> "OK", key |-> key]
        ELSE [status |-> "CONSISTENCY", exception |-> check.exception]

SignTry ==
    /\ Signing /\ SigningKey \in Scalars /\ tries < MaxRetries
    /\ \E k \in Scalars, m \in SignMasks :
         LET sig == Signature(SigningDigest, SigningKey, k, m)
         IN  IF Usable(sig)
             THEN /\ Answers(IF call.op = "sign" THEN [status |-> "OK", sig |-> sig] ELSE Checked(sig))
                  /\ UNCHANGED <<key, tries>>
             ELSE tries' = tries + 1 /\ UNCHANGED <<answer, key>>

\* The key is no scalar, the tries are used up, or random bits are not to be had.
SignFails ==
    /\ Signing
    /\ Fails(IF SigningKey \notin Scalars THEN "KEY"
             ELSE IF tries = MaxRetries THEN "INTERNAL" ELSE "RNG")

Verify ==
    /\ Asking({"verify"})
    /\ Answers(Verified(call.pub, call.z, call.digest, call.sig))
    /\ UNCHANGED <<key, tries>>

CheckAgreement ==
    /\ Asking({"agreement key"}) /\ key # NoKey
    /\ \E z, w \in RandomScales :
         Answers(IF Agree(key, z, w) THEN [status |-> "OK", key |-> key]
                 ELSE [status |-> "CONSISTENCY", exception |-> FALSE])
    /\ UNCHANGED <<key, tries>>

\* d u + v and its point, by the holder of d; u P + v G by those who have the point alone.
Diversify ==
    /\ Asking({"diversify"})
    /\ \E z \in RandomScales :
         LET k == (call.k * call.u + call.v) % Order
             product(d, a) == Projectify(Times(d, a), z)
             sum == FullAdd(product(call.u, Times(call.k, Generator)), product(call.v, Generator))
         IN  Answers([status |-> "DONE", private |-> IF k = 0 THEN NoKey ELSE Pair(k),
                      public |-> Affinify(sum)])
    /\ UNCHANGED <<key, tries>>

\* The random bits of a scale or a mask are not to be had.
RandomFails ==
    \/ Asking({"agreement key"}) /\ key # NoKey /\ Fails("RNG")
    \/ Asking({"diversify"}) /\ Fails("RNG")

Next ==
    \/ Ask
    \/ MakeKey \/ SignTry \/ SignFails \/ Verify \/ CheckAgreement \/ Diversify \/ RandomFails

Spec == Init /\ [][Next]_vars

----------------------------------------------------------------------------
\* ECDSA by its definition: the leftmost bits of the digest, and the sum in the group.
Signs(sig, pub, digest) ==
    LET bits == ByteBits * Len(digest)
        e == BigEndian(digest) \div 2^(IF bits > OrderBits THEN bits - OrderBits ELSE 0)
        w == InvertScalar(sig.s)
        sum == Plus(Times((e * w) % Order, Generator), Times((sig.r * w) % Order, pub))
    IN  /\ sig.r \in Scalars /\ sig.s \in Scalars /\ pub \in OnCurve
        /\ sum # Zero /\ sum.x % Order = sig.r

\* A pair that is given out is one, of a scalar in range, and the check of a pair finds
\* nothing wrong with it but an exception of the joint product, or that the secret it agreed
\* on is 0; what is signed is a signature of the digest, and a verification accepts just these; a
\* diversified private key is that of the diversified public one, and neither is there
\* without the other.
KeysRight ==
    answer # Pending =>
      CASE call.op \in {"generate", "agreement key"} ->
             /\ answer.status = "OK" =>
                  /\ answer.key.k \in Scalars /\ answer.key.pub = Times(answer.key.k, Generator)
                  /\ call.compact => 2 * answer.key.pub.y < P
             /\ answer.status = "CONSISTENCY" =>
                  answer.exception \/ Times(key.k * ReferenceScalar, Generator).x = 0
        [] call.op = "sign" ->
             answer.status = "OK" => Signs(answer.sig, Times(call.k, Generator), call.digest)
        [] call.op = "verify" ->
             ~answer.exception =>
               (answer.status = "VALID" <=> call.z = 1 /\ Signs(call.sig, call.pub, call.digest))
        [] call.op = "diversify" ->
             answer.status = "DONE" =>
               IF answer.private = NoKey THEN answer.public = Failed
               ELSE answer.public = answer.private.pub
=============================================================================
