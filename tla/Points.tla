------------------------------- MODULE Points -------------------------------
(***************************************************************************)
(* The points of a short Weierstrass curve y^2 = x^3 - 3x + b of prime     *)
(* order (ccec): Jacobian coordinates, the addition that looks for its     *)
(* exceptions, the co-Z ladder and the joint multiplication of a           *)
(* verification.  A coordinate is its residue: Montgomery form and the     *)
(* words below it are those of BigNum.                                     *)
(***************************************************************************)
EXTENDS Integers, Sequences

CONSTANTS P, B, Order

Failed == -1

Field == 0 .. P - 1

BitLen(n) == CHOOSE i \in 0 .. 30 : n < 2^i /\ (i = 0 \/ n >= 2^(i - 1))
Bit(n, i) == (n \div 2^i) % 2
OrderBits == BitLen(Order)

Square(a) == (a * a) % P
Mul(a, b) == (a * b) % P
Sub(a, b) == (a - b) % P
Half(a) == IF a % 2 = 0 THEN a \div 2 ELSE (a + P) \div 2
Invert(a) == CHOOSE i \in Field : Mul(a, i) = 1

Point(x, y, z) == [x |-> x, y |-> y, z |-> z]
Infinite(s) == s.z = 0

----------------------------------------------------------------------------
(* Conversions                                                             *)

\* By a factor of z, 1 or a random one with the highest bit but one of p set.
RandomScales == 2^(BitLen(P) - 2) .. 2^(BitLen(P) - 1) - 1
Projectify(a, z) == Point(Mul(a.x, Square(z)), Mul(a.y, Mul(z, Square(z))), z)

Affinify(s) ==
    IF Infinite(s) THEN Failed
    ELSE LET lambda == Invert(s.z)
         IN  [x |-> Mul(s.x, Square(lambda)), y |-> Mul(s.y, Mul(lambda, Square(lambda)))]

AffinifyXOnly(s) ==
    IF Infinite(s) THEN Failed
    ELSE LET lambda == Invert(s.z) IN  Mul(s.x, Square(lambda))

IsPoint(s) ==
    LET zz == Square(s.z)
    IN  Square(s.y) = (Mul(s.x, Square(s.x)) + Mul(Sub(B * zz, 3 * s.x), Square(zz))) % P

\* Coordinates in the field, and on the curve.
Valid(a, z) == a.x < P /\ a.y < P /\ IsPoint(Projectify(a, z))
ValidatePub(a, z) == IF Valid(a, z) THEN Projectify(a, z) ELSE Failed

\* Any square root of x^3 - 3x + b, one of 0 .. p - 1.
Roots(x) == {y \in Field : Square(y) = (Mul(x, Square(x)) - 3 * x + B) % P}

\* ccec_compressed_x962_import_pub: the root of the parity asked for.
Decompressed(x, root, parity) ==
    [x |-> x, y |-> IF root % 2 = parity THEN root ELSE P - root]

\* ccec_compact_import_pub: the lesser root.
Compact(x, root) == [x |-> x, y |-> IF P - root < root THEN P - root ELSE root]

----------------------------------------------------------------------------
(* Sums                                                                    *)

\* 3(x - z^2)(x + z^2) is the slope's numerator; z = 0 stays.
Double(s) ==
    LET m == 3 * Mul(Sub(s.x, Square(s.z)), s.x + Square(s.z))
        yy == Square(s.y)
        xyy == 4 * Mul(s.x, yy)
        x == Sub(m * m, 2 * xyy)
    IN  Point(x, Sub(m * Sub(xyy, x), 8 * Square(yy)), (2 * s.z * s.y) % P)

\* Equal points, as the addition finds them.
SameXY(s, t, negative) ==
    LET ty == IF negative THEN P - t.y ELSE t.y
    IN  /\ Mul(s.x, Square(t.z)) = Mul(t.x, Square(s.z))
        /\ Mul(s.y, Mul(t.z, Square(t.z))) = Mul(ty, Mul(s.z, Square(s.z)))

\* They are doubled: t as it was given, whatever its sign in the sum.  Opposite ones come
\* out with z = 0.
AddWs(s, t, negative) ==
    LET ty == IF negative THEN P - t.y ELSE t.y
        u1 == Mul(s.x, Square(t.z))
        u2 == Mul(t.x, Square(s.z))
        v1 == Mul(s.y, Mul(t.z, Square(t.z)))
        v2 == Mul(ty, Mul(s.z, Square(s.z)))
        dx == Sub(u1, u2)
        dy == Sub(v1, v2)
        w == Mul(u1 + u2, Square(dx))
        x == Sub(dy * dy, w)
    IN  IF SameXY(s, t, negative) THEN Double(t)
        ELSE Point(x, Half(Sub(dy * Sub(w, 2 * x), (v1 + v2) * Mul(dx, Square(dx)))),
                   Mul(dx, s.z * t.z))

FullAdd(s, t) == IF Infinite(s) THEN t ELSE IF Infinite(t) THEN s ELSE AddWs(s, t, FALSE)

FullSub(s, t) ==
    IF Infinite(s) THEN Point(t.x, P - t.y, t.z)
    ELSE IF Infinite(t) THEN s ELSE AddWs(s, t, TRUE)

----------------------------------------------------------------------------
(* The ladder: pairs of points <<x, y>> over one z that is left out        *)

\* P + Q, and P again.
XYCZadd(pair) ==
    LET p == pair[1]
        q == pair[2]
        a == Square(q[1] - p[1])
        b == Mul(p[1], a)
        c == Mul(q[1], a)
        x == Sub(Square(q[2] - p[2]), b + c)
    IN  <<<<x, Sub((q[2] - p[2]) * Sub(b, x), p[2] * Sub(c, b))>>, <<b, Mul(p[2], c - b)>>>>

\* P + Q and P - Q.
XYCZaddC(pair) ==
    LET p == pair[1]
        q == pair[2]
        a == Square(q[1] - p[1])
        b == Mul(p[1], a)
        c == Mul(q[1], a)
        e == Mul(p[2], c - b)
        x == Sub(Square(q[2] - p[2]), b + c)
        w == Sub(Square(q[2] + p[2]), b + c)
    IN  <<<<x, Sub((q[2] - p[2]) * Sub(b, x), e)>>, <<w, Sub(Sub(w, b) * (q[2] + p[2]), e)>>>>

\* 2P, and P again.
XYCZdblJac(s) ==
    LET m == Sub(3 * Square(s.x), 3 * Square(Square(s.z)))
        a == 4 * Mul(Square(s.y), s.x)
        x == Sub(m * m, 2 * a)
        y4 == 8 * Square(Square(s.y))
    IN  <<<<x, Sub(m * Sub(a, x), y4)>>, <<a % P, y4 % P>>>>

Swapped(pair, yes) == IF yes THEN <<pair[2], pair[1]>> ELSE pair

\* Mutant of SecondNegated: the pair is left as it is when the highest bit comes.
NeverNegated(pair, yes) == pair

SecondNegated(pair, yes) ==
    IF yes THEN <<pair[1], <<pair[2][1], P - pair[2][2]>>>> ELSE pair

\* The result's coefficients, from the input and the last conjugate sum.
RecoverCoeff(pair, rb, s) ==
    LET l == Mul(rb[1], s.y)
    IN  [x |-> Square(l), y |-> Mul(l, Square(l)),
         z |-> Mul(Mul(rb[2], Sub(pair[1][1], pair[2][1])), Mul(s.x, s.z))]

\* 0, 1 and q - 1 times a point are not the ladder's.
IsEdgeCase(d, s) == d \in {0, 1, Order - 1} \/ Infinite(s)

EdgeCase(d, s) ==
    IF d = 0 \/ Infinite(s) THEN Point(0, 0, 0)
    ELSE IF d = 1 THEN s
    ELSE Point(s.x, P - s.y, s.z)

\* For each bit a conjugate sum and a sum.  Until the highest bit that is set, the pair goes
\* round R, -2R and -R, 2R; from there on the second is the first and a point more or less.
\* The last sum of each pair gives the result, the conjugate one its coefficients.
Ladder(d, bits, s) ==
    LET top == Bit(d, bits - 1)
        begin == [pair |-> XYCZdblJac(s), negate |-> top = 0, seen |-> top, bit |-> top]
        step[i \in 0 .. bits - 1] ==
            IF i = 0 THEN begin
            ELSE LET l == step[i - 1]
                     di == Bit(d, bits - 1 - i)
                     sums == XYCZaddC(Swapped(SecondNegated(l.pair, l.negate),
                                              l.seen = 0 \/ l.bit # di))
                 IN  [sums |-> sums, pair |-> XYCZadd(sums), negate |-> l.seen = 0 /\ di = 1,
                      seen |-> IF di = 1 THEN 1 ELSE l.seen, bit |-> di]
        last == step[bits - 1]
        odd == d % 2 = 1
        coeff == RecoverCoeff(Swapped(last.sums, odd), last.sums[2], s)
        r == Swapped(last.pair, odd)[1]
    IN  Point(Mul(coeff.x, r[1]), Mul(coeff.y, r[2]), coeff.z)

MultInner(d, bits, s) == IF IsEdgeCase(d, s) THEN EdgeCase(d, s) ELSE Ladder(d, bits, s)

----------------------------------------------------------------------------
(* The joint multiple d0 s + d1 t                                          *)

\* f_2_2_11.
Threshold(h) ==
    CASE h \in 4 .. 11 -> 14 [] h \in 14 .. 17 -> 10 [] h \in 18 .. 21 -> 9
      [] h \in 22 .. 23 -> 11 [] OTHER -> 12

\* A window of five bits of a scalar, the sixth telling that its digit was rounded up.
Window(c) == IF c >= 32 THEN 31 - (c % 32) ELSE c

\* Two windows that look at each other settle on a digit of -1, 0 or 1 each.
Digit(c, other) ==
    IF Window(c) < Threshold(Window(other)) THEN 0 ELSE IF c >= 32 THEN -1 ELSE 1

Shifted(c, other, bit) ==
    (2 * c + bit + (IF Digit(c, other) = 0 THEN 0 ELSE 32)) % 64

FirstWindow(e, m) == 8 * Bit(e, m - 1) + 4 * Bit(e, m - 2) + 2 * Bit(e, m - 3) + Bit(e, m - 4)

\* The point, and whether a difference was taken of opposite points on the way.
\* z(s) z(t) z(s + t) z(s - t) is inverted at once: no two may be equal or opposite.  One
\* scalar at least has four bits.
TwinMult(d0, s, d1, t) ==
    LET Affine(r) == Projectify(Affinify(r), 1)
        m == IF BitLen(d0) >= BitLen(d1) THEN BitLen(d0) ELSE BitLen(d1)
        next(e, k) == IF k >= 5 THEN Bit(e, k - 5) ELSE 0
        \* The point of a pair of digits, of which the first that is not 0 is 1.
        table == [u0 \in {0, 1}, u1 \in -1 .. 1 |->
                    CASE u0 = 1 /\ u1 = 0 -> Affine(s)
                      [] u0 = 0 /\ u1 = 1 -> Affine(t)
                      [] u0 = 1 /\ u1 = 1 -> Affine(FullAdd(s, t))
                      [] u0 = 1 /\ u1 = -1 -> Affine(FullSub(s, t))
                      [] OTHER -> Point(0, 0, 0)]
        step[k \in 0 .. m + 1] ==
            IF k = m + 1
            THEN [c0 |-> FirstWindow(d0, m), c1 |-> FirstWindow(d1, m), r |-> Point(1, 1, 0),
                  subDoubled |-> FALSE]
            ELSE LET l == step[k + 1]
                     u0 == Digit(l.c0, l.c1)
                     u1 == Digit(l.c1, l.c0)
                     r == Double(l.r)
                     negative == u0 = -1 \/ (u0 = 0 /\ u1 = -1)
                 IN  [c0 |-> Shifted(l.c0, l.c1, next(d0, k)),
                      c1 |-> Shifted(l.c1, l.c0, next(d1, k)),
                      r |-> IF u0 = 0 /\ u1 = 0 THEN r
                            ELSE IF negative THEN FullSub(r, table[-u0, -u1])
                            ELSE FullAdd(r, table[u0, u1]),
                      subDoubled |-> \/ l.subDoubled
                                    \/ /\ negative /\ ~Infinite(r)
                                       /\ SameXY(r, table[-u0, -u1], TRUE)]
    IN  step[0]

----------------------------------------------------------------------------
(* The group, by its definition                                            *)

Zero == [x |-> -1, y |-> -1]
OnCurve == {a \in [x : Field, y : Field] : Square(a.y) = (a.x * Sub(Square(a.x), 3) + B) % P}
Opposite(a) == IF a = Zero THEN Zero ELSE [x |-> a.x, y |-> P - a.y]

Slope(a, b) ==
    IF a = b THEN Mul(3 * Sub(Square(a.x), 1), Invert((2 * a.y) % P))
    ELSE Mul(Sub(b.y, a.y), Invert(Sub(b.x, a.x)))

Plus(a, b) ==
    IF a = Zero THEN b
    ELSE IF b = Zero THEN a
    ELSE IF b = Opposite(a) THEN Zero
    ELSE LET x == (Square(Slope(a, b)) - a.x - b.x) % P
         IN  [x |-> x, y |-> Sub(Mul(Slope(a, b), Sub(a.x, x)), a.y)]

Multiples == [a \in OnCurve |->
    LET times[d \in 0 .. Order] == IF d = 0 THEN Zero ELSE Plus(times[d - 1], a) IN  times]
Times(d, a) == IF a = Zero THEN Zero ELSE Multiples[a][d % Order]

Denotes(s, a) == IF Infinite(s) THEN a = Zero ELSE Affinify(s) = a
=============================================================================
