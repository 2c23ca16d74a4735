------------------------------- MODULE BigNum -------------------------------
(***************************************************************************)
(* The arithmetic of ccn and cczp whose intermediate values overflow a     *)
(* word, are corrected afterwards or are approximations: Montgomery        *)
(* reduction, exponentiation, square roots, division by a reciprocal, the  *)
(* greatest common divisor and the inverse.  A number of n words is its    *)
(* value, and an operation on n words is taken modulo 2^(UnitBits * n)     *)
(* where the code drops or looks at the carry.                             *)
(***************************************************************************)
EXTENDS Integers

CONSTANTS
    UnitBits,       \* CCN_UNIT_BITS of the Montgomery form and the inverse
    GcdUnitBits,    \* and of ccn_gcd, an even number
    WideUnitBits,   \* and of division
    Precisions,     \* of reciprocals, see MakeRecip
    SmallExponent,  \* bits of an exponent taken one at a time (32)
    MaskBits,       \* SCA_MASK_BITSIZE (32)
    Primes,         \* odd primes of at most two words of UnitBits
    LargePrimes,    \* and of GcdUnitBits
    Divisors, Dividends, GcdOperands, Operands

VARIABLES call, answer

vars == <<call, answer>>

\* No result yet, and the result of a call that fails.
Pending == <<>>
Failed == -1

Bit(x, i) == (x \div 2^i) % 2
BitLen(x) == CHOOSE n \in 0 .. 30 : x < 2^n /\ (n = 0 \/ x >= 2^(n - 1))
Words(x) == (BitLen(x) + UnitBits - 1) \div UnitBits
Unit == 2^UnitBits

----------------------------------------------------------------------------
(* Montgomery form (cczp_mm.c)                                             *)

\* cczp_mm_init_ws: the prime, its words, 2^(word bits) to the power of them, and -1/p[0]
\* modulo a word.
Mm(p) ==
    [p |-> p, n |-> Words(p), R |-> 2^(UnitBits * Words(p)),
     p0inv |-> CHOOSE i \in 0 .. Unit - 1 : (i * p) % Unit = Unit - 1]

\* Mutant of Corrected: the carry of the last addition is not looked at.
CorrectedByBorrow(zp, sum) ==
    IF sum % zp.R < zp.p THEN sum % zp.R ELSE (sum - zp.p) % zp.R

\* The last subtraction is kept if it did not borrow, or paid back a carry.
Corrected(zp, sum) ==
    LET s == (sum >= zp.R) # (sum % zp.R < zp.p)
    IN  IF s THEN sum % zp.R ELSE (sum - zp.p) % zp.R

\* The word of t at a place is cleared by a multiple of p; the carry takes its place.
Cleared(zp, t, at) ==
    LET window == (t \div at) % zp.R
        sum == window + zp.p * (((window % Unit) * zp.p0inv) % Unit)
    IN  t + ((sum % zp.R) + (sum \div zp.R) - window) * at

\* The high words, and the carries that the low ones hold.
HighAndCarry(zp, t) == (t \div zp.R) + (t % zp.R)

\* t / R modulo p.
Redc(zp, t) ==
    LET word[i \in 0 .. zp.n] == IF i = 0 THEN t ELSE Cleared(zp, word[i - 1], Unit^(i - 1))
    IN  Corrected(zp, HighAndCarry(zp, word[zp.n]))

R2(zp) == (zp.R * zp.R - zp.p) % zp.p
MmMul(zp, x, y) == Redc(zp, x * y)
MmSqr(zp, x) == MmMul(zp, x, x)
MmTo(zp, x) == Redc(zp, x * R2(zp))
MmFrom(zp, x) == Redc(zp, x)

----------------------------------------------------------------------------
(* Exponentiation (cczp_power.c, cczp_power_fast.c), in Montgomery form    *)

\* cczp_negate: p itself for 0.
Negate(zp, x) == zp.p - x

\* Two bits of an exponent, the lower of which is number i.
Window(e, i) == 2 * Bit(e, i + 1) + Bit(e, i)

\* The powers of s by a window; a window of zeros stands for another one's factor.
Powers(zp, s, zeros) == <<zeros, s, MmSqr(zp, s), MmMul(zp, s, MmSqr(zp, s))>>

\* Two squarings, and the factor of the window after them.
WindowStep(zp, r, factor) == MmMul(zp, MmSqr(zp, MmSqr(zp, r)), factor)

\* -1 stands in for a window of zeros; only the last window's sign remains.
PowerOf(zp, power, bits, e) ==
    LET r[i \in 0 .. bits \div 2] ==
            IF i = 0 THEN power[1]
            ELSE WindowStep(zp, r[i - 1], power[Window(e, bits - 2 * i) + 1])
    IN  r[bits \div 2]

Signed(zp, e, r) == IF e % 4 # 0 THEN r ELSE Negate(zp, r)

Power(zp, s, ebitlen, e) ==
    Signed(zp, e, PowerOf(zp, Powers(zp, s, MmTo(zp, zp.p - 1)), ebitlen + (ebitlen % 2), e))

MmPower(zp, x, ebitlen, e) == MmFrom(zp, Power(zp, MmTo(zp, x), ebitlen, e))

\* Windows of one bit for small exponents ...
PowerSingle(zp, s, ebitlen, e) ==
    LET r[i \in 0 .. ebitlen] ==
            IF i = 0 THEN MmTo(zp, 1)
            ELSE IF Bit(e, ebitlen - i) = 1 THEN MmMul(zp, MmSqr(zp, r[i - 1]), s)
            ELSE MmSqr(zp, r[i - 1])
    IN  r[ebitlen]

\* ... and of two bits from the highest for others.
PowerDouble(zp, power, bits, e) ==
    LET r[i \in 1 .. bits \div 2] ==
            IF i = 1 THEN power[Window(e, bits - 2) + 1]
            ELSE IF Window(e, bits - 2 * i) = 0 THEN MmSqr(zp, MmSqr(zp, r[i - 1]))
            ELSE WindowStep(zp, r[i - 1], power[Window(e, bits - 2 * i) + 1])
    IN  r[bits \div 2]

PowerFast(zp, s, e) ==
    IF BitLen(e) <= SmallExponent THEN PowerSingle(zp, s, BitLen(e), e)
    ELSE PowerDouble(zp, Powers(zp, s, 1), BitLen(e) + (BitLen(e) % 2), e)

MmPowerFast(zp, x, e) == MmFrom(zp, PowerFast(zp, MmTo(zp, x), e))

\* The exponent cut by a mask of MaskBits: s^(q * mask) * s^b.
PowerBlinded(zp, s, e, mask) ==
    LET t == Power(zp, s, UnitBits * zp.n - MaskBits + 1, e \div mask)
    IN  MmMul(zp, Power(zp, s, MaskBits, e % mask), Power(zp, t, MaskBits, mask))

----------------------------------------------------------------------------
(* Square roots (cczp_sqrt.c), outside of Montgomery form                  *)

Times(p, x, y) == (x * y) % p

IsQuadraticResidue(zp, a) == MmPowerFast(zp, a, (zp.p - 1) \div 2) = 1

Sqrt3mod4(zp, x) == MmPowerFast(zp, x, (zp.p + 1) \div 4)

\* y is x^((c2 - 1) / 2), c5 a non-residue to the power of c2.
SqrtPrecomp(p, x, c1, y, c5) ==
    LET squared[j \in 1 .. c1, b \in 0 .. p - 1] ==
            IF j = 1 THEN b ELSE squared[j - 1, Times(p, b, b)]
        loop[i \in 0 .. c1 - 1] ==
            IF i = 0
            THEN [r |-> Times(p, y, x), t |-> Times(p, Times(p, y, y), x), c |-> c5]
            ELSE LET l == loop[i - 1]
                     is_one == squared[c1 - i, l.t] = 1
                     cc == Times(p, l.c, l.c)
                 IN  [r |-> IF is_one THEN l.r ELSE Times(p, l.r, l.c),
                      t |-> IF is_one THEN l.t ELSE Times(p, l.t, cc),
                      c |-> cc]
    IN  loop[c1 - 1].r

\* The first number that is no quadratic residue.
NonResidue(zp) ==
    LET residue[c \in 1 .. zp.p - 1] == IsQuadraticResidue(zp, c)
    IN  CHOOSE c \in 1 .. zp.p - 1 : ~residue[c] /\ \A d \in 1 .. c - 1 : residue[d]

SqrtTonelliShanks(zp, x) ==
    LET c1 == CHOOSE i \in 1 .. BitLen(zp.p) :
                  (zp.p - 1) % 2^i = 0 /\ (zp.p - 1) % 2^(i + 1) # 0
        c2 == (zp.p - 1) \div 2^c1
    IN  SqrtPrecomp(zp.p, x, c1, MmPowerFast(zp, x, (c2 - 1) \div 2),
                    MmPowerFast(zp, NonResidue(zp), c2))

\* Each way compares the root's square with x.
Checked(p, x, r) == IF Times(p, r, r) = x THEN r ELSE Failed

Sqrt(zp, x) ==
    Checked(zp.p, x, IF x = 0 THEN 0
                     ELSE IF zp.p % 4 = 3 THEN Sqrt3mod4(zp, x) ELSE SqrtTonelliShanks(zp, x))

----------------------------------------------------------------------------
(* Division by a reciprocal (ccn_make_recip.c, ccn_div.c, cczp_mod.c)      *)

\* INIT_PRECISION, R0_PRECISION and CCN_UNIT_BITS with which the first approximation is
\* good to R0_PRECISION bits, as the code asserts of its own.
SoundPrecisions ==
    {c \in Precisions : 34 + 2^c.init * 49 * 2^c.r0 < (17 - 2^c.r0) * 2^(2 * c.init)}

\* 48/17 and 32/17, the latter rounded.
T1(bits) == (48 * 2^bits) \div 17
T2(c) == (32 * 2^c.init + 16) \div 17

\* 2^(2b) / d along a line: of a long divisor the highest bits only.
FirstApproximation(c, b, d) ==
    IF b >= 2 * c.init
    THEN (T1(2 * c.init) - T2(c) * (d \div 2^(b - c.init) + 1)) * 2^(b - 2 * c.init)
    ELSE (T1(c.init) * 2^b - T2(c) * d) \div 2^c.init

\* Mutant of Shortened: every round leaves out as many words as the first.
ShortenedAlike(c, b, i, r) ==
    LET right == 1 + c.r0 * 2
        ignored == IF right < b + 1 THEN (b + 1 - right) \div c.unit ELSE 0
    IN  r - (r % 2^(ignored * c.unit))

\* Round i works on the words of r that are right by then and on those it makes right.
Shortened(c, b, i, r) ==
    LET right == 1 + c.r0 * 2^(i + 1)
        ignored == IF right < b + 1 THEN (b + 1 - right) \div c.unit ELSE 0
    IN  r - (r % 2^(ignored * c.unit))

\* Whether x - d borrows; a negative x has wrapped, to a number above d.
Borrow(x, d) == IF x \in 0 .. d - 1 THEN 1 ELSE 0

\* Mutant of Newton: the remainders are not rounded up.
NewtonDown(b, d, r) == 2 * r - (d * (r^2 \div 2^b)) \div 2^b

Newton(b, d, r) == 2 * r - ((d * (r^2 \div 2^b + 1)) \div 2^b + 1)

\* At most two corrections, by whether what is left borrows.
RecipCorrected(r, power, d) ==
    LET c(i) == Borrow(power - r * d - i * d, d)
    IN  IF c(0) + c(1) + c(2) = 0 THEN Failed
        ELSE r + (1 - c(0)) + (1 - c(0)) * (1 - c(1))

\* 2^(2b) / d for a divisor of b bits: a first approximation by a line, a number of
\* iterations that depends on b alone, and the corrections.
MakeRecip(c, d) ==
    LET b == BitLen(d)
        iterations == 1 + BitLen(1 + ((b + 2 * c.r0) \div (2 * c.r0)))
        r[i \in 0 .. iterations] ==
            IF i = 0 THEN FirstApproximation(c, b, d)
            ELSE Newton(b, d, Shortened(c, b, i - 1, r[i - 1]))
    IN  IF b <= 1 THEN 4 * b ELSE RecipCorrected(r[iterations], 2^(2 * b), d)

\* x less d, unless that borrows.
LessOnce(x, d) == IF x < d THEN x ELSE x - d

\* What the last round left, less d as often as it does not borrow, counted in q.
LessTwice(last, d) ==
    LET once == LessOnce(last.a, d)
    IN  [q |-> last.q + (IF last.a < d THEN 0 ELSE 1) + (IF once < d THEN 0 ELSE 1),
         r |-> LessOnce(once, d)]

\* Quotient and remainder: each round takes off an approximation of the quotient that
\* is never too large; what is left after the last is below 3d.
DivUseRecip(a, d, recip) ==
    LET s == BitLen(d)
        bits == 2 * WideUnitBits
        iterations == IF s > 2 THEN (bits - 1) \div (s - 2) ELSE bits - 2
        q(x) == ((x \div 2^(s - 1)) * recip) \div 2^(s + 1)
        round[k \in 0 .. iterations] ==
            IF k = 0 THEN [a |-> a, q |-> 0]
            ELSE LET l == round[k - 1]
                 IN  [a |-> l.a - d * q(l.a), q |-> l.q + q(l.a)]
    IN  LessTwice(round[iterations], d)

\* The same in one round, for a number of twice as many bits as the modulus.
ModDefault(c, p, x) ==
    LET s == BitLen(p)
        q == ((x \div 2^(s - 1)) * MakeRecip(c, p)) \div 2^(s + 1)
        less(y) == LessOnce(y, p)
    IN  less(less(x - p * q))

----------------------------------------------------------------------------
(* The greatest common divisor (ccn_gcd.c), of numbers of two words: the   *)
(* steps of half a word are taken on approximations and then made good by  *)
(* the factors they amount to.                                             *)

Half == GcdUnitBits \div 2 - 1
Word == 2^GcdUnitBits

\* The highest bits of both numbers from the same place, and their own lowest bits.
Approximate(x, y) ==
    LET both == IF x \div Word > y \div Word THEN x \div Word ELSE y \div Word
        lzm == GcdUnitBits - BitLen(both)
        top == IF both = 0 THEN x ELSE x \div 2^(GcdUnitBits - lzm)
    IN  (top \div 2^Half) * 2^Half + (x % 2^Half)

\* One step: the smaller from the larger if both are odd, then half of what is even.
GcdStep(c) ==
    LET odd == c.ua % 2 = 1 /\ c.va % 2 = 1
        du == odd /\ c.va < c.ua
        dv == odd /\ c.va >= c.ua
        ua == IF du THEN c.ua - c.va ELSE c.ua
        va == IF dv THEN c.va - c.ua ELSE c.va
        hu == IF ua % 2 = 0 THEN 2 ELSE 1
        hv == IF va % 2 = 0 THEN 2 ELSE 1
    IN  [ua |-> ua \div hu, va |-> va \div hv,
         f0 |-> (IF du THEN c.f0 - c.f1 ELSE c.f0) \div hu,
         g0 |-> (IF du THEN c.g0 - c.g1 ELSE c.g0) \div hu,
         f1 |-> (IF dv THEN c.f1 - c.f0 ELSE c.f1) \div hv,
         g1 |-> (IF dv THEN c.g1 - c.g0 ELSE c.g1) \div hv,
         k |-> c.k + (IF ua % 2 = 0 /\ va % 2 = 0 THEN 1 ELSE 0)]

\* Mutant of GcdUpdate: an approximation that went too far is not undone.
GcdUpdateSigned(u, f, v, g) == ((u * f + v * g) \div 2^Half) % Word^2

GcdUpdate(u, f, v, g) ==
    LET sum == u * f + v * g
    IN  ((IF sum < 0 THEN -sum ELSE sum) \div 2^Half) % Word^2

\* Half a word of steps on the approximations, and what becomes of the numbers.
GcdHalf(l) ==
    LET inner[j \in 0 .. Half] ==
            IF j = 0
            THEN [ua |-> Approximate(l.u, l.v), va |-> Approximate(l.v, l.u),
                  f0 |-> 2^Half, g0 |-> 0, f1 |-> 0, g1 |-> 2^Half, k |-> l.k]
            ELSE GcdStep(inner[j - 1])
    IN  inner[Half]

GcdRound(l, c) ==
    [u |-> GcdUpdate(l.u, c.f0, l.v, c.g0), v |-> GcdUpdate(l.u, c.f1, l.v, c.g1), k |-> c.k]

\* The odd part, or zero, and the power of two of the divisor.
GcdWs(s, t) ==
    LET iterations == (4 * GcdUnitBits + Half - 1) \div Half
        round[i \in 0 .. iterations] ==
            IF i = 0 THEN [u |-> s, v |-> t, k |-> 0]
            ELSE LET l == round[i - 1] IN  GcdRound(l, GcdHalf(l))
    IN  round[iterations]

----------------------------------------------------------------------------
(* The inverse in a field (cczp_inv.c): the same approximations, with the  *)
(* coefficients of x, times a power of two, kept modulo p.                 *)

\* Mutant of InvRedc: the sign of a factor is dropped.
InvRedcUnsigned(p, a, f, b, g) ==
    LET abs(x) == IF x < 0 THEN -x ELSE x
        t == a * abs(f) + b * abs(g)
        m == CHOOSE i \in 0 .. 2^Half - 1 : (t + p * i) % 2^Half = 0
    IN  LessOnce((t + p * m) \div 2^Half, p)

\* (a*f + b*g) / 2^Half modulo p; a negative factor negates the other one.
InvRedc(p, a, f, b, g) ==
    LET times(x, k) == IF k < 0 THEN (p - x) * (-k) ELSE x * k
        t == times(a, f) + times(b, g)
        m == CHOOSE i \in 0 .. 2^Half - 1 : (t + p * i) % 2^Half = 0
    IN  LessOnce((t + p * m) \div 2^Half, p)

\* One step: u is made the larger if it is odd, loses v, and is halved.
HalfStep(c) ==
    LET odd == c.ua % 2 = 1
        swap == odd /\ c.ua < c.va
        u == IF swap THEN [a |-> c.va, f |-> c.f1, g |-> c.g1] ELSE [a |-> c.ua, f |-> c.f0, g |-> c.g0]
        v == IF swap THEN [a |-> c.ua, f |-> c.f0, g |-> c.g0] ELSE [a |-> c.va, f |-> c.f1, g |-> c.g1]
        less(x, y) == IF odd THEN x - y ELSE x
    IN  [ua |-> less(u.a, v.a) \div 2, va |-> v.a,
         f0 |-> less(u.f, v.f) \div 2, g0 |-> less(u.g, v.g) \div 2, f1 |-> v.f, g1 |-> v.g]

InvHalf(l) ==
    LET inner[j \in 0 .. Half] ==
            IF j = 0
            THEN [ua |-> Approximate(l.u, l.v), va |-> Approximate(l.v, l.u),
                  f0 |-> 2^Half, g0 |-> 0, f1 |-> 0, g1 |-> 2^Half]
            ELSE HalfStep(inner[j - 1])
    IN  inner[Half]

\* The coefficients follow the sign that the update of a number took away.
InvRound(p, l, c) ==
    LET sign(f, g) == IF l.u * f + l.v * g < 0 THEN -1 ELSE 1
        follow(f, g) == InvRedc(p, l.a, sign(f, g) * f, l.b, sign(f, g) * g)
    IN  [u |-> GcdUpdate(l.u, c.f0, l.v, c.g0), v |-> GcdUpdate(l.u, c.f1, l.v, c.g1),
         a |-> follow(c.f0, c.g0), b |-> follow(c.f1, c.g1)]

InvDefault(p, x) ==
    LET iterations == (4 * GcdUnitBits + Half - 1) \div Half
        round[i \in 0 .. iterations] ==
            IF i = 0 THEN [u |-> x, v |-> p, a |-> 1, b |-> 0]
            ELSE LET l == round[i - 1] IN  InvRound(p, l, InvHalf(l))
        last == round[iterations]
    IN  IF last.v = 1 THEN last.b ELSE Failed

----------------------------------------------------------------------------
(* The inverse (ccn_invmod.c): u = a*x - b*m and v = d*m - c*x, with a and *)
(* c modulo m, b and d modulo x.  m has n words, x has xn of them.         *)

\* Mutant of AddMod: the carry is not looked at.
AddModByBorrow(x, y, m, size) ==
    LET sum == (x + y) % size IN  IF sum < m THEN sum ELSE sum - m

AddMod(x, y, m, size) ==
    LET sum == (x + y) % size
    IN  IF sum < m /\ x + y < size THEN sum ELSE (sum - m) % size

HalfMod(x, odd, m) == (IF odd THEN x + m ELSE x) \div 2

InvStep(s, x, m, n, xn) ==
    LET odd == s.u % 2 = 1 /\ s.v % 2 = 1
        du == odd /\ s.v < s.u
        dv == odd /\ s.v >= s.u
        ac == AddMod(s.a, s.c, m, Unit^n)
        \* b and d follow what a and c did.
        bd == IF s.a + s.c < m THEN (s.b + s.d) % Unit^xn ELSE (s.b + s.d - x) % Unit^xn
        u == IF du THEN s.u - s.v ELSE s.u
        v == IF dv THEN s.v - s.u ELSE s.v
        a == IF du THEN ac ELSE s.a
        b == IF du THEN bd ELSE s.b
        c == IF dv THEN ac ELSE s.c
        d == IF dv THEN bd ELSE s.d
        ab == a % 2 = 1 \/ b % 2 = 1
        cd == c % 2 = 1 \/ d % 2 = 1
        u_even == u % 2 = 0
        v_even == v % 2 = 0
    IN  [u |-> IF u_even THEN u \div 2 ELSE u,
         v |-> IF v_even THEN v \div 2 ELSE v,
         a |-> IF u_even THEN HalfMod(a, ab, m) ELSE a,
         b |-> IF u_even THEN HalfMod(b, ab, x) ELSE b,
         c |-> IF v_even THEN HalfMod(c, cd, m) ELSE c,
         d |-> IF v_even THEN HalfMod(d, cd, x) ELSE d]

InvmodWs(x, m, n, xn) ==
    LET iterations == UnitBits * (xn + n)
        step[i \in 0 .. iterations] ==
            IF i = 0 THEN [u |-> x, v |-> m, a |-> 1, b |-> 0, c |-> 0, d |-> 1]
            ELSE InvStep(step[i - 1], x, m, n, xn)
    IN  IF x = 0 \/ m <= 1 \/ (x % 2 = 0 /\ m % 2 = 0) THEN Failed
        ELSE IF step[iterations].u = 1 THEN step[iterations].a ELSE Failed

----------------------------------------------------------------------------
(* One call of one of them                                                 *)

Exponents == 0 .. 20

Calls ==
    (UNION {[op : {"redc"}, p : {p}, t : 0 .. p * Mm(p).R - 1] : p \in {q \in Primes : q < 2 * Unit}})
    \cup (UNION {[op : {"power"}, p : {p}, x : 0 .. p - 1, e : Exponents] : p \in Primes})
    \cup (UNION {[op : {"sqrt"}, p : {p}, x : 0 .. p - 1] : p \in Primes})
    \cup [op : {"recip"}, c : SoundPrecisions, d : Divisors]
    \cup [op : {"div"}, c : SoundPrecisions, a : Dividends, d : Divisors]
    \cup (UNION {[op : {"mod"}, c : SoundPrecisions, p : {p}, x : 0 .. 4^BitLen(p) - 1] : p \in {q \in Primes : q < Unit}})
    \cup (UNION {[op : {"inv"}, p : {p}, x : 0 .. p - 1] : p \in Primes \cup LargePrimes})
    \cup [op : {"gcd"}, s : GcdOperands, t : GcdOperands]
    \cup [op : {"invmod"}, x : Operands, m : 0 .. Unit^2 - 1, xn : {1, 2}]

Init == call = Pending /\ answer = Pending

Ask == call = Pending /\ call' \in Calls /\ UNCHANGED answer

Asked(op) == call # Pending /\ answer = Pending /\ call.op = op /\ UNCHANGED call

MmRedc == Asked("redc") /\ answer' = <<Redc(Mm(call.p), call.t)>>

\* An exponent may be given with leading zeros; a blinded one has the words of p.
MmPowers ==
    /\ Asked("power")
    /\ \/ \E zeros \in {0, 1, 2} :
             answer' = <<MmPower(Mm(call.p), call.x, BitLen(call.e) + zeros, call.e)>>
       \/ answer' = <<MmPowerFast(Mm(call.p), call.x, call.e)>>
       \/ \E mask \in 2^(MaskBits - 1) .. 2^MaskBits - 1 :
             LET zp == Mm(call.p) IN
             /\ call.e < zp.R
             /\ answer' = <<MmFrom(zp, PowerBlinded(zp, MmTo(zp, call.x), call.e, mask))>>

CczpSqrt == Asked("sqrt") /\ answer' = <<Sqrt(Mm(call.p), call.x)>>

CcnMakeRecip == Asked("recip") /\ answer' = <<MakeRecip(call.c, call.d)>>

DivEuclid ==
    /\ Asked("div")
    /\ answer' = IF call.d = 0 THEN <<Failed>>
                 ELSE LET result == DivUseRecip(call.a, call.d, MakeRecip(call.c, call.d))
                      IN  <<result.q, result.r>>

CczpMod == Asked("mod") /\ answer' = <<ModDefault(call.c, call.p, call.x)>>

CczpInv == Asked("inv") /\ answer' = <<InvDefault(call.p, call.x)>>

CcnGcd == Asked("gcd") /\ answer' = <<GcdWs(call.s, call.t)>>

CcnInvmod ==
    /\ Asked("invmod") /\ call.x < Unit^call.xn
    /\ answer' = <<InvmodWs(call.x, call.m, 2, call.xn)>>

Next ==
  \/ Ask
  \/ MmRedc \/ MmPowers \/ CczpSqrt \/ CcnMakeRecip \/ DivEuclid \/ CczpMod \/ CczpInv \/ CcnGcd \/ CcnInvmod

Spec == Init /\ [][Next]_vars

----------------------------------------------------------------------------
(* What they promise                                                       *)

Euclid(s, t) ==
    LET pair[i \in 0 .. 3 * GcdUnitBits] ==
            IF i = 0 THEN <<s, t>>
            ELSE LET l == pair[i - 1] IN  IF l[2] = 0 THEN l ELSE <<l[2], l[1] % l[2]>>
    IN  pair[3 * GcdUnitBits][1]

IsPower(p, r, x, e) ==
    LET f[i \in 0 .. e] == IF i = 0 THEN 1 ELSE (f[i - 1] * x) % p IN  r = f[e]

\* The corrections at the end (a borrow, a carry, a number of subtractions, a sign)
\* are enough for every operand: the result is the exact one, in its range.
Exact ==
    answer # Pending =>
      LET r == answer[1] IN
      CASE call.op = "redc" -> r \in 0 .. call.p - 1 /\ (r * Mm(call.p).R - call.t) % call.p = 0
        [] call.op = "power" -> IsPower(call.p, r, call.x, call.e)
        [] call.op = "sqrt" ->
             IF r = Failed THEN \A y \in 0 .. call.p - 1 : (y * y) % call.p # call.x
             ELSE r \in 0 .. call.p - 1 /\ (r * r) % call.p = call.x
        [] call.op = "recip" -> r = IF call.d = 0 THEN 0 ELSE 2^(2 * BitLen(call.d)) \div call.d
        [] call.op = "div" ->
             IF call.d = 0 THEN r = Failed
             ELSE answer = <<call.a \div call.d, call.a % call.d>>
        [] call.op = "mod" -> r = call.x % call.p
        [] call.op = "inv" ->
             IF call.x = 0 THEN r = Failed
             ELSE r \in 0 .. call.p - 1 /\ Times(call.p, r, call.x) = 1
        [] call.op = "gcd" ->
             /\ r.u = 0 \/ r.v = 0
             /\ (r.u + r.v) * 2^r.k = Euclid(call.s, call.t)
        [] call.op = "invmod" ->
             IF r = Failed THEN call.m <= 1 \/ call.x = 0 \/ Euclid(call.x, call.m) # 1
             ELSE r \in 0 .. call.m - 1 /\ (r * call.x) % call.m = 1
=============================================================================
