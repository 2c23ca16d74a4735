----------------------------- MODULE GcmProofs ------------------------------
(***************************************************************************)
(* Proofs about Gcm.tla, for blocks and counters of any size, any IVs and  *)
(* pieces, and any number of messages and calls.                           *)
(***************************************************************************)
EXTENDS Gcm, FiniteSetTheorems, SequenceTheorems, TLAPS

-----------------------------------------------------------------------------
(* Quotients.                                                              *)

\* A number is a multiple and a remainder.
LEMMA DivMod ==
  ASSUME NEW a \in Nat, NEW d \in Nat \ {0}
  PROVE  a \div d \in Nat /\ a % d \in 0 .. d - 1 /\ a = (a \div d) * d + (a % d)
<1>1. a \div d \in Nat
  OBVIOUS
<1>2. a % d \in 0 .. d - 1
  OBVIOUS
<1>3. ASSUME NEW x \in Int, NEW y \in Int, y > 0
      PROVE  x = y * (x \div y) + (x % y)
  BY <1>3
<1>4. d * (a \div d) = (a \div d) * d
  BY <1>1
<1>5. a \in Int /\ d \in Int /\ d > 0
  OBVIOUS
<1>6. a = d * (a \div d) + (a % d)
  BY <1>3, <1>5, Zenon
<1>7. a = (a \div d) * d + (a % d)
  BY <1>4, <1>6, Zenon
<1> QED
  BY <1>1, <1>2, <1>7

\* Multiples keep the order of their factors.
LEMMA Multiples ==
  ASSUME NEW g \in Int, NEW h \in Int, NEW d \in Nat \ {0}
  PROVE  /\ g * d \in Int /\ (g + h) * d = g * d + h * d /\ (g - h) * d = g * d - h * d
         /\ g < h => g * d + d <= h * d
         /\ g <= h => g * d <= h * d
         /\ g < h <=> g * d < h * d
OBVIOUS

\* The quotient and the remainder are the only ones.
LEMMA Quotient ==
  ASSUME NEW a \in Nat, NEW d \in Nat \ {0}, NEW q \in Int, NEW e \in 0 .. d - 1, a = q * d + e
  PROVE  q = a \div d /\ e = a % d
OBVIOUS

\* The quotient is the greatest factor of a multiple below.
LEMMA MultipleBelow ==
  ASSUME NEW a \in Nat, NEW d \in Nat \ {0}, NEW g \in Int
  PROVE  g <= a \div d <=> g * d <= a
OBVIOUS

-----------------------------------------------------------------------------
(* GCM.                                                                    *)

\* Where piece g of a call begins, in the call and in its block.
From(r, g) == IF g = 1 THEN 0 ELSE (g - 1) * Block - r
At(r, g) == IF g = 1 THEN r ELSE 0

\* What the proofs use of a call's pieces: the block bytes r + 1 .. r + size fall in.
Cuts(s, r, size) ==
  /\ \A g \in Nat \ {0} : g \in DOMAIN s <=> From(r, g) < size
  /\ DOMAIN s \subseteq Nat \ {0}
  /\ \A g \in DOMAIN s :
       /\ s[g].at = At(r, g) /\ s[g].from = From(r, g)
       /\ s[g].len \in Nat
       /\ s[g].from + s[g].len = IF r + size >= g * Block THEN g * Block - r ELSE size

\* Two sequences in a row, and three.
LEMMA Joined2 ==
  ASSUME NEW S, NEW f \in Seq(S), NEW m \in Seq(S)
  PROVE  /\ f \o m \in Seq(S) /\ Len(f \o m) = Len(f) + Len(m)
         /\ \A g \in 1 .. Len(f) + Len(m) :
              (f \o m)[g] = IF g <= Len(f) THEN f[g] ELSE m[g - Len(f)]
OBVIOUS

LEMMA Joined ==
  ASSUME NEW S, NEW f \in Seq(S), NEW m \in Seq(S), NEW l \in Seq(S)
  PROVE  /\ f \o m \o l \in Seq(S) /\ Len(f \o m \o l) = Len(f) + Len(m) + Len(l)
         /\ \A g \in 1 .. Len(f \o m \o l) :
              (f \o m \o l)[g] = IF g <= Len(f) THEN f[g]
                                ELSE IF g <= Len(f) + Len(m) THEN m[g - Len(f)]
                                ELSE l[g - (Len(f) + Len(m))]
<1>1. /\ f \o m \in Seq(S) /\ Len(f \o m) = Len(f) + Len(m)
      /\ \A g \in 1 .. Len(f) + Len(m) : (f \o m)[g] = IF g <= Len(f) THEN f[g] ELSE m[g - Len(f)]
  BY Joined2
<1> DEFINE h == f \o m
<1> HIDE DEF h
<1>2. h \in Seq(S) /\ Len(h) = Len(f) + Len(m)
  BY <1>1 DEF h
<1>3. /\ h \o l \in Seq(S) /\ Len(h \o l) = Len(h) + Len(l)
      /\ \A g \in 1 .. Len(h) + Len(l) : (h \o l)[g] = IF g <= Len(h) THEN h[g] ELSE l[g - Len(h)]
  <2>1. h \in Seq(S) /\ l \in Seq(S)
    BY <1>2
  <2> QED
    BY <2>1, Joined2
<1>4. \A g \in 1 .. Len(h) : h[g] = IF g <= Len(f) THEN f[g] ELSE m[g - Len(f)]
  BY <1>1 DEF h
<1>5. h \o l = f \o m \o l
  BY DEF h
<1>6. Len(f) \in Nat /\ Len(m) \in Nat /\ Len(l) \in Nat
  OBVIOUS
<1>7. \A g \in 1 .. Len(h) + Len(l) :
        (h \o l)[g] = IF g <= Len(f) THEN f[g]
                     ELSE IF g <= Len(f) + Len(m) THEN m[g - Len(f)]
                     ELSE l[g - (Len(f) + Len(m))]
  <2> TAKE g \in 1 .. Len(h) + Len(l)
  <2>1. CASE g <= Len(h)
    <3>1. g \in 1 .. Len(h)
      BY <1>2, <1>6, <2>1
    <3>2. (h \o l)[g] = h[g] /\ h[g] = IF g <= Len(f) THEN f[g] ELSE m[g - Len(f)]
      BY <1>3, <1>4, <2>1, <3>1
    <3>3. g <= Len(f) + Len(m)
      BY <1>2, <2>1
    <3> QED
      BY <3>2, <3>3
  <2>2. CASE ~(g <= Len(h))
    <3>1. (h \o l)[g] = l[g - Len(h)]
      BY <1>3, <2>2
    <3>2. ~(g <= Len(f)) /\ ~(g <= Len(f) + Len(m))
      BY <1>2, <1>6, <2>2
    <3> QED
      BY <1>2, <3>1, <3>2
  <2> QED
    BY <2>1, <2>2
<1> QED
  BY <1>2, <1>3, <1>5, <1>7

LEMMA PiecesCut ==
  ASSUME NEW r \in 0 .. Block - 1, NEW size \in Nat
  PROVE  Cuts(PiecesOf(r, size), r, size)
<1>0. Block \in Nat \ {0} /\ r \in Nat /\ r < Block
  BY SizesAssumption
<1> DEFINE S == [at : Int, from : Int, len : Int]
           first(t) == IF t > 0 THEN <<[at |-> r, from |-> 0, len |-> t]>> ELSE <<>>
           middle(t, w) ==
             [g \in 1 .. w |-> [at |-> 0, from |-> t + (g - 1) * Block, len |-> Block]]
           last(at, e) == IF e > 0 THEN <<[at |-> at, from |-> size - e, len |-> e]>> ELSE <<>>
\* t bytes end a block, w are whole, e are left.
<1>1. ASSUME NEW t \in Nat, NEW w \in Nat, NEW W \in Int, NEW e \in Nat,
             NEW k \in {0, 1}, NEW at \in Nat,
             W = w * Block, size = t + W + e,
             \/ t = 0 /\ r = 0 /\ k = 0 /\ at = 0 /\ e < Block
             \/ t = 0 /\ r > 0 /\ k = 0 /\ w = 0 /\ at = r /\ r + e < Block
             \/ t = Block - r /\ t > 0 /\ r > 0 /\ k = 1 /\ at = 0 /\ e < Block
      PROVE  Cuts(first(t) \o middle(t, w) \o last(at, e), r, size)
  <2> DEFINE f == first(t)
             m == middle(t, w)
             l == last(at, e)
             s == f \o m \o l
             P(g) == g * Block
             Cases == \/ t = 0 /\ r = 0 /\ k = 0 /\ at = 0 /\ e < Block
                      \/ t = 0 /\ r > 0 /\ k = 0 /\ w = 0 /\ at = r /\ r + e < Block
                      \/ t = Block - r /\ t > 0 /\ r > 0 /\ k = 1 /\ at = 0 /\ e < Block
  <2>0. Cases /\ size = t + W + e
    BY <1>1
  <2>1. f \in Seq(S) /\ Len(f) = k /\ (k = 1 => f[1] = [at |-> r, from |-> 0, len |-> t])
    <3>1. [at |-> r, from |-> 0, len |-> t] \in S
      BY <1>0
    <3> HIDE DEF S
    <3>2. CASE t = 0
      <4>1. f = <<>> /\ k = 0
        BY <1>0, <2>0, <3>2
      <4> HIDE DEF f
      <4> QED
        BY <3>2, <4>1
    <3>3. CASE t # 0
      <4>1. f = <<[at |-> r, from |-> 0, len |-> t]>> /\ k = 1
        BY <1>0, <2>0, <3>3
      <4> HIDE DEF f
      <4> QED
        BY <3>1, <4>1
    <3> QED
      BY <3>2, <3>3
  <2>2. m \in Seq(S) /\ Len(m) = w
        /\ \A g \in 1 .. w : m[g] = [at |-> 0, from |-> t + (g - 1) * Block, len |-> Block]
    <3>1. \A g \in 1 .. w : (g - 1) * Block \in Int
      BY <1>0, Multiples
    <3>2. \A g \in 1 .. w : [at |-> 0, from |-> t + (g - 1) * Block, len |-> Block] \in S
      BY <1>0, <3>1
    <3> HIDE DEF S
    <3> QED
      BY <3>2
  <2>3. l \in Seq(S) /\ Len(l) = (IF e > 0 THEN 1 ELSE 0)
        /\ (e > 0 => l[1] = [at |-> at, from |-> size - e, len |-> e])
    <3>1. [at |-> at, from |-> size - e, len |-> e] \in S
      BY <1>0
    <3> HIDE DEF S
    <3> QED
      BY <3>1
  <2> HIDE DEF f, m, l, S
  <2>4. /\ s \in Seq(S) /\ Len(s) = k + w + (IF e > 0 THEN 1 ELSE 0)
        /\ \A g \in 1 .. Len(s) :
             s[g] = IF g <= k THEN f[g] ELSE IF g <= k + w THEN m[g - k] ELSE l[g - (k + w)]
    <3>1. f \in Seq(S) /\ m \in Seq(S) /\ l \in Seq(S)
      BY <2>1, <2>2, <2>3
    <3>2. s \in Seq(S) /\ Len(s) = Len(f) + Len(m) + Len(l)
          /\ \A g \in 1 .. Len(s) :
             s[g] = IF g <= Len(f) THEN f[g]
                    ELSE IF g <= Len(f) + Len(m) THEN m[g - Len(f)] ELSE l[g - (Len(f) + Len(m))]
      BY <3>1, Joined
    <3> HIDE DEF s
    <3> QED
      BY <2>1, <2>2, <2>3, <3>2
  <2> HIDE DEF s
  <2>5. \A g \in Int : /\ P(g) \in Int /\ (g - 1) * Block = P(g) - Block
                       /\ P(g + 1) = P(g) + Block
                       /\ \A h \in Int : (g < h <=> P(g) < P(h)) /\ (g < h => P(g) + Block <= P(h))
    BY <1>0, Multiples
  <2>6. P(w) = W /\ P(1) = Block /\ P(0) = 0
    BY <1>0, <1>1
  <2>7. \A g \in Nat \ {0} : From(r, g) = IF g = 1 THEN 0 ELSE P(g) - Block - r
    BY <2>5 DEF From
  <2>8. \A g \in 1 .. w : m[g] = [at |-> 0, from |-> t + P(g) - Block, len |-> Block]
    <3> TAKE g \in 1 .. w
    <3>1. g \in Int
      OBVIOUS
    <3>2. (g - 1) * Block = P(g) - Block /\ P(g) \in Int
      BY <2>5, <3>1
    <3> HIDE DEF P
    <3> QED
      BY <1>0, <2>2, <3>2
  <2> HIDE DEF P
  <2>9. P(w + 1) = W + Block /\ P(w + 2) = W + Block + Block
        /\ P(w + 3) = W + Block + Block + Block /\ W >= 0 /\ (w = 0 => W = 0)
    <3>1. /\ w \in Int /\ w + 1 \in Int /\ w + 2 = w + 1 + 1 /\ w + 2 \in Int
          /\ w + 3 = w + 2 + 1 /\ 0 \in Int
      OBVIOUS
    <3>2. P(w + 1) = P(w) + Block /\ P(w + 1 + 1) = P(w + 1) + Block
          /\ P(w + 2 + 1) = P(w + 2) + Block /\ (0 < w <=> P(0) < P(w))
      BY <2>5, <3>1
    <3> QED
      BY <2>6, <3>1, <3>2
  <2>10. ASSUME NEW g \in Nat \ {0}, NEW v \in Int, v = P(g)
         PROVE  /\ v >= Block
                /\ (g <= w <=> v <= W)
                /\ (g <= w + 1 <=> v <= W + Block)
                /\ (g <= w + 2 <=> v <= W + Block + Block)
                /\ (g <= w <=> v < W + Block)
                /\ (g <= w + 1 <=> v < W + Block + Block)
                /\ (g <= w + 2 <=> v < W + Block + Block + Block)
                /\ (g = 1 <=> v = Block)
                /\ (g > 1 => v >= Block + Block)
    <3>1. g \in Int /\ w \in Int /\ w + 1 \in Int /\ w + 2 \in Int /\ w + 3 \in Int /\ 1 \in Int
      OBVIOUS
    <3>2. (w < g <=> P(w) < v) /\ (g < w + 1 <=> v < P(w + 1))
      BY <2>5, <2>10, <3>1
    <3>3. (w + 1 < g <=> P(w + 1) < v) /\ (g < w + 2 <=> v < P(w + 2))
      BY <2>5, <2>10, <3>1
    <3>4. (w + 2 < g <=> P(w + 2) < v) /\ (g < w + 3 <=> v < P(w + 3))
      BY <2>5, <2>10, <3>1
    <3>5. (1 < g <=> P(1) < v) /\ (1 < g => P(1) + Block <= v)
      BY <2>5, <2>10, <3>1
    <3>6. g = 1 => v = P(1)
      BY <2>10
    <3>7. /\ (w < g <=> W < v) /\ (g < w + 1 <=> v < W + Block)
          /\ (w + 1 < g <=> W + Block < v) /\ (g < w + 2 <=> v < W + Block + Block)
          /\ (w + 2 < g <=> W + Block + Block < v) /\ (g < w + 3 <=> v < W + Block + Block + Block)
      BY <2>6, <2>9, <3>2, <3>3, <3>4
    <3>8. (1 < g <=> Block < v) /\ (1 < g => Block + Block <= v) /\ (g = 1 => v = Block)
      BY <2>6, <3>5, <3>6
    <3>9. g <= w <=> ~(w < g)
      OBVIOUS
    <3> QED
      BY <1>0, <3>7, <3>8
  <2>11. \A g \in Nat \ {0} : g \in 1 .. Len(s) <=> From(r, g) < size
    <3> SUFFICES ASSUME NEW g \in Nat \ {0}, NEW v \in Int, v = P(g)
                 PROVE  g \in 1 .. Len(s) <=> From(r, g) < size
      <4>1. \A g \in Nat \ {0} : P(g) \in Int
        BY <2>5
      <4> QED
        BY <4>1
    <3>1. /\ v = P(g) /\ v >= Block
          /\ (g <= w <=> v <= W)
          /\ (g <= w + 1 <=> v <= W + Block)
          /\ (g <= w + 2 <=> v <= W + Block + Block)
          /\ (g <= w <=> v < W + Block)
          /\ (g <= w + 1 <=> v < W + Block + Block)
          /\ (g <= w + 2 <=> v < W + Block + Block + Block)
          /\ (g = 1 <=> v = Block)
          /\ (g > 1 => v >= Block + Block)
      BY <2>10
    <3>2. From(r, g) = IF g = 1 THEN 0 ELSE v - Block - r
      BY <2>7, <3>1
    <3>3. g \in 1 .. Len(s) <=> g <= k + w + (IF e > 0 THEN 1 ELSE 0)
      BY <2>4
    <3>4. ((IF g = 1 THEN 0 ELSE v - Block - r) < t + W + e)
          <=> (g <= k + w + (IF e > 0 THEN 1 ELSE 0))
      <4>1. CASE t = 0 /\ r = 0 /\ k = 0 /\ at = 0 /\ e < Block
        BY <1>0, <2>9, <3>1, <4>1
      <4>2. CASE t = 0 /\ r > 0 /\ k = 0 /\ w = 0 /\ at = r /\ r + e < Block
        BY <1>0, <2>9, <3>1, <4>2
      <4>3. CASE t = Block - r /\ t > 0 /\ r > 0 /\ k = 1 /\ at = 0 /\ e < Block
        <5>1. CASE e = 0
          <6>1. CASE g = 1
            BY <1>0, <2>9, <3>1, <4>3, <5>1, <6>1
          <6>2. CASE g > 1
            BY <1>0, <2>9, <3>1, <4>3, <5>1, <6>2
          <6> QED
            BY <6>1, <6>2
        <5>2. CASE e > 0
          <6>1. CASE g = 1
            BY <1>0, <2>9, <3>1, <4>3, <5>2, <6>1
          <6>2. CASE g > 1
            BY <1>0, <2>9, <3>1, <4>3, <5>2, <6>2
          <6> QED
            BY <6>1, <6>2
        <5> QED
          BY <5>1, <5>2
      <4> QED
        BY <2>0, <4>1, <4>2, <4>3
    <3> QED
      BY <2>0, <3>2, <3>3, <3>4
  <2>12. ASSUME NEW g \in 1 .. Len(s), NEW v \in Int, v = P(g)
         PROVE  /\ s[g].at = At(r, g) /\ s[g].from = From(r, g) /\ s[g].len \in Nat
                /\ s[g].from + s[g].len = IF r + size >= P(g) THEN P(g) - r ELSE size
    <3>1. g \in Nat \ {0} /\ g <= k + w + (IF e > 0 THEN 1 ELSE 0)
      BY <2>4
    <3>2. /\ v = P(g) /\ v >= Block
          /\ (g <= w <=> v <= W)
          /\ (g <= w + 1 <=> v <= W + Block)
          /\ (g <= w + 2 <=> v <= W + Block + Block)
          /\ (g <= w <=> v < W + Block)
          /\ (g <= w + 1 <=> v < W + Block + Block)
          /\ (g <= w + 2 <=> v < W + Block + Block + Block)
          /\ (g = 1 <=> v = Block)
          /\ (g > 1 => v >= Block + Block)
      BY <2>10, <2>12, <3>1
    <3>3. From(r, g) = IF g = 1 THEN 0 ELSE v - Block - r
      BY <2>7, <3>1, <3>2
    <3>4. At(r, g) = IF g = 1 THEN r ELSE 0
      BY DEF At
    <3> DEFINE Right(a, b, c) ==
          /\ a = (IF g = 1 THEN r ELSE 0) /\ b = (IF g = 1 THEN 0 ELSE v - Block - r)
          /\ c \in Nat /\ b + c = (IF r + (t + W + e) >= v THEN v - r ELSE t + W + e)
    <3>5. ASSUME NEW a, NEW b, NEW c, s[g] = [at |-> a, from |-> b, len |-> c], Right(a, b, c)
          PROVE  /\ s[g].at = At(r, g) /\ s[g].from = From(r, g) /\ s[g].len \in Nat
                 /\ s[g].from + s[g].len = IF r + size >= P(g) THEN P(g) - r ELSE size
      <4>1. s[g].at = a /\ s[g].from = b /\ s[g].len = c
        <5> HIDE DEF Right
        <5> QED
          BY <3>5
      <4> QED
        BY <2>0, <3>2, <3>3, <3>4, <3>5, <4>1
    <3>6. CASE g <= k
      <4>1. k = 1 /\ g = 1 /\ t = Block - r /\ t > 0 /\ r > 0
        BY <2>0, <3>1, <3>6
      <4>2. s[g] = [at |-> r, from |-> 0, len |-> t]
        BY <2>1, <2>4, <3>6, <4>1
      <4>3. Right(r, 0, t)
        BY <1>0, <2>9, <3>2, <4>1
      <4> HIDE DEF Right
      <4> QED
        BY <3>5, <4>2, <4>3
    <3>7. CASE k < g /\ g <= k + w
      <4>1. g - k \in 1 .. w /\ ~(g <= k) /\ w > 0
        BY <3>7
      <4>2. s[g] = [at |-> 0, from |-> t + P(g - k) - Block, len |-> Block]
        BY <2>4, <2>8, <3>7, <4>1
      <4>3. P(g - k) = IF k = 1 THEN v - Block ELSE v
        <5>1. CASE k = 0
          <6>1. g - k = g
            BY <5>1
          <6> QED
            BY <3>2, <5>1, <6>1
        <5>2. CASE k = 1
          <6>1. g - k \in Int /\ g = (g - k) + 1
            BY <5>2
          <6>2. P(g - k + 1) = P(g - k) + Block /\ P(g - k) \in Int
            BY <2>5, <6>1
          <6> QED
            BY <1>0, <3>2, <5>2, <6>1, <6>2
        <5> QED
          BY <5>1, <5>2
      <4>4. CASE k = 0
        <5>1. t = 0 /\ r = 0 /\ g <= w /\ e < Block
          BY <2>0, <3>7, <4>1, <4>4
        <5>2. P(g - k) = v
          BY <4>3, <4>4
        <5>3. Right(0, t + v - Block, Block)
          BY <1>0, <2>9, <3>2, <5>1
        <5> HIDE DEF Right
        <5> QED
          BY <3>5, <4>2, <5>2, <5>3
      <4>5. CASE k = 1
        <5>1. t = Block - r /\ t > 0 /\ r > 0 /\ g > 1 /\ g <= w + 1 /\ ~(g = 1)
          BY <2>0, <3>7, <4>1, <4>5
        <5>2. P(g - k) = v - Block
          BY <4>3, <4>5
        <5>3. Right(0, t + (v - Block) - Block, Block)
          BY <1>0, <2>9, <3>2, <5>1
        <5> HIDE DEF Right
        <5> QED
          BY <3>5, <4>2, <5>2, <5>3
      <4> QED
        BY <4>4, <4>5
    <3>8. CASE k + w < g
      <4>1. e > 0 /\ g = k + w + 1
        BY <3>1, <3>8
      <4>2. s[g] = [at |-> at, from |-> size - e, len |-> e]
        <5>1. ~(g <= k) /\ ~(g <= k + w) /\ g - (k + w) = 1
          BY <4>1
        <5> QED
          BY <2>3, <2>4, <4>1, <5>1
      <4>3. size - e = t + W
        BY <2>0
      <4>4. CASE k = 0
        <5>1. g = w + 1
          BY <4>1, <4>4
        <5>2. v = W + Block
          BY <2>9, <3>2, <5>1
        <5>3. Right(at, t + W, e)
          <6>1. CASE r = 0
            <7>1. t = 0 /\ at = 0 /\ e < Block
              BY <2>0, <4>4, <6>1
            <7> QED
              BY <1>0, <2>9, <3>2, <4>1, <5>1, <5>2, <6>1, <7>1
          <6>2. CASE r > 0
            <7>1. t = 0 /\ w = 0 /\ at = r /\ r + e < Block
              BY <2>0, <4>4, <6>2
            <7> QED
              BY <1>0, <2>9, <3>2, <4>1, <5>1, <5>2, <6>2, <7>1
          <6> QED
            BY <1>0, <6>1, <6>2
        <5> HIDE DEF Right
        <5> QED
          BY <3>5, <4>2, <4>3, <5>3
      <4>5. CASE k = 1
        <5>1. g = w + 2 /\ ~(g = 1)
          BY <4>1, <4>5
        <5>2. v = W + Block + Block
          BY <2>9, <3>2, <5>1
        <5>3. t = Block - r /\ at = 0 /\ e < Block
          BY <2>0, <4>5
        <5>4. Right(at, t + W, e)
          BY <1>0, <2>9, <3>2, <4>1, <5>1, <5>2, <5>3
        <5> HIDE DEF Right
        <5> QED
          BY <3>5, <4>2, <4>3, <5>4
      <4> QED
        BY <4>4, <4>5
    <3> QED
      BY <3>1, <3>6, <3>7, <3>8
  <2>13. DOMAIN s = 1 .. Len(s) /\ 1 .. Len(s) \subseteq Nat \ {0}
    BY <2>4
  <2>14. \A g \in 1 .. Len(s) :
           /\ s[g].at = At(r, g) /\ s[g].from = From(r, g) /\ s[g].len \in Nat
           /\ s[g].from + s[g].len = IF r + size >= P(g) THEN P(g) - r ELSE size
    <3>1. \A g \in 1 .. Len(s) : P(g) \in Int
      BY <2>5
    <3> QED
      BY <2>12, <3>1
  <2>15. Cuts(s, r, size)
    BY <2>11, <2>13, <2>14 DEF Cuts, P
  <2> QED
    BY <2>15 DEF s, f, m, l
<1>2. ASSUME NEW x \in Nat
      PROVE  /\ x \div Block \in Nat /\ (x \div Block) * Block \in Int
             /\ x - (x \div Block) * Block \in Nat /\ x - (x \div Block) * Block < Block
  BY <1>0, DivMod
<1> DEFINE one == IF r > 0 /\ size >= Block - r
                  THEN <<[at |-> r, from |-> 0, len |-> Block - r]>> ELSE <<>>
           taken == IF one = <<>> THEN 0 ELSE Block - r
           at == IF one = <<>> THEN r ELSE 0
           whole == IF at = 0 THEN (size - taken) \div Block ELSE 0
           rest == size - taken - whole * Block
<1>3. PiecesOf(r, size) = one \o middle(taken, whole) \o last(at, rest)
  BY DEF PiecesOf
<1>4. CASE r > 0 /\ size >= Block - r
  <2>1. one = first(Block - r)
    BY <1>0, <1>4
  <2>2. one # <<>>
    BY <1>4
  <2> HIDE DEF one
  <2>3. taken = Block - r /\ at = 0
    BY <2>2
  <2> HIDE DEF taken, at
  <2>4. whole = (size - (Block - r)) \div Block /\ size - (Block - r) \in Nat
    BY <1>0, <1>4, <2>3
  <2>5. whole \in Nat /\ whole * Block \in Int /\ size - (Block - r) - whole * Block \in Nat
        /\ size - (Block - r) - whole * Block < Block
    BY <1>2, <2>4
  <2> HIDE DEF whole
  <2>6. /\ size = (Block - r) + whole * Block + rest /\ Block - r \in Nat /\ Block - r > 0
        /\ rest \in Nat /\ rest < Block
    BY <1>0, <1>4, <2>3, <2>5
  <2> HIDE DEF rest, first, middle, last
  <2>7. Cuts(first(Block - r) \o middle(Block - r, whole) \o last(0, rest), r, size)
    BY <1>1, <1>4, <2>5, <2>6
  <2> QED
    BY <1>3, <2>1, <2>3, <2>7
<1>5. CASE ~(r > 0 /\ size >= Block - r)
  <2>1. one = <<>> /\ first(0) = <<>>
    BY <1>5
  <2> HIDE DEF one
  <2>2. taken = 0 /\ at = r
    BY <2>1
  <2> HIDE DEF taken, at
  <2>3. CASE r = 0
    <3>1. whole = size \div Block
      BY <1>0, <2>2, <2>3
    <3>2. whole \in Nat /\ whole * Block \in Int /\ size - whole * Block \in Nat
          /\ size - whole * Block < Block
      BY <1>2, <3>1
    <3> HIDE DEF whole
    <3>3. size = 0 + whole * Block + rest /\ rest \in Nat /\ rest < Block
      BY <1>0, <2>2, <3>2
    <3> HIDE DEF rest, first, middle, last
    <3>4. Cuts(first(0) \o middle(0, whole) \o last(0, rest), r, size)
      BY <1>1, <2>3, <3>2, <3>3
    <3> QED
      BY <1>3, <2>1, <2>2, <2>3, <3>4
  <2>4. CASE r > 0
    <3>1. whole = 0
      BY <2>2, <2>4
    <3> HIDE DEF whole
    <3>2. whole * Block = 0 /\ 0 = 0 * Block
      BY <1>0, <3>1
    <3>3. rest = size /\ size = 0 + 0 + rest /\ rest \in Nat /\ r + rest < Block
      BY <1>0, <1>5, <2>2, <2>4, <3>2
    <3> HIDE DEF rest, first, middle, last
    <3>4. Cuts(first(0) \o middle(0, 0) \o last(r, rest), r, size)
      BY <1>1, <2>4, <3>2, <3>3
    <3> QED
      BY <1>3, <2>1, <2>2, <3>1, <3>4
  <2> QED
    BY <1>0, <2>3, <2>4
<1> QED
  BY <1>4, <1>5

\* As many blocks end as the bytes fill.
LEMMA EndedPieces ==
  ASSUME NEW r \in 0 .. Block - 1, NEW size \in Nat
  PROVE  Ended(PiecesOf(r, size)) = (r + size) \div Block
<1> DEFINE s == PiecesOf(r, size)
           w == (r + size) \div Block
<1>0. Block \in Nat \ {0} /\ r \in Nat /\ r < Block /\ r + size \in Nat
  BY SizesAssumption
<1>1. Cuts(s, r, size)
  BY PiecesCut
<1>2. w \in Nat /\ \A g \in Int : g <= w <=> g * Block <= r + size
  BY <1>0, DivMod, MultipleBelow
<1> HIDE DEF s, w
<1>3. \A g \in Nat \ {0} : g * Block \in Int /\ (g - 1) * Block = g * Block - Block
                           /\ (g = 1 => g * Block = Block)
                           /\ (g > 1 => g * Block >= Block + Block)
  <2> TAKE g \in Nat \ {0}
  <2>1. g \in Int /\ 1 \in Int /\ 2 \in Int
    OBVIOUS
  <2>2. g * Block \in Int /\ (g - 1) * Block = g * Block - 1 * Block
        /\ (2 <= g => 2 * Block <= g * Block)
    BY <1>0, <2>1, Multiples
  <2> QED
    BY <1>0, <2>2
<1>4. ASSUME NEW g \in Nat \ {0}, NEW v \in Int, v = g * Block
      PROVE  (g \in DOMAIN s /\ s[g].at + s[g].len = Block) <=> g <= w
  <2>1. (g - 1) * Block = v - Block /\ (g = 1 => v = Block) /\ (g > 1 => v >= Block + Block)
    BY <1>3, <1>4
  <2>2. g <= w <=> v <= r + size
    <3>1. g \in Int
      OBVIOUS
    <3> QED
      BY <1>2, <1>4, <3>1
  <2>3. From(r, g) = IF g = 1 THEN 0 ELSE v - Block - r
    BY <2>1 DEF From
  <2>4. g \in DOMAIN s <=> (IF g = 1 THEN 0 ELSE v - Block - r) < size
    BY <1>1, <2>3 DEF Cuts
  <2>5. ASSUME g \in DOMAIN s
        PROVE  s[g].at + s[g].len = Block <=> v <= r + size
    <3>1. /\ s[g].at = (IF g = 1 THEN r ELSE 0) /\ s[g].from = (IF g = 1 THEN 0 ELSE v - Block - r)
          /\ s[g].len \in Nat
          /\ s[g].from + s[g].len = IF r + size >= v THEN v - r ELSE size
      BY <1>1, <1>4, <2>3, <2>5 DEF Cuts, At
    <3>2. CASE g = 1
      <4>1. s[g].at = r /\ s[g].from = 0 /\ s[g].len \in Nat /\ v = Block /\ 0 < size
            /\ s[g].from + s[g].len = IF r + size >= v THEN v - r ELSE size
        BY <2>1, <2>4, <2>5, <3>1, <3>2
      <4> QED
        BY <1>0, <4>1
    <3>3. CASE g # 1
      <4>1. s[g].at = 0 /\ s[g].from = v - Block - r /\ s[g].len \in Nat /\ v - Block - r < size
            /\ s[g].from + s[g].len = IF r + size >= v THEN v - r ELSE size
        BY <2>1, <2>4, <2>5, <3>1, <3>3
      <4> QED
        BY <1>0, <4>1
    <3> QED
      BY <3>2, <3>3
  <2>6. v <= r + size => g \in DOMAIN s
    BY <1>0, <2>1, <2>4
  <2> QED
    BY <2>2, <2>5, <2>6
<1>5. {g \in DOMAIN s : s[g].at + s[g].len = Block} = 1 .. w
  <2>1. \A g \in Nat \ {0} : (g \in DOMAIN s /\ s[g].at + s[g].len = Block) <=> g <= w
    BY <1>3, <1>4
  <2>2. DOMAIN s \subseteq Nat \ {0}
    BY <1>1 DEF Cuts
  <2>3. \A g : g \in 1 .. w <=> g \in Nat \ {0} /\ g <= w
    BY <1>2
  <2> QED
    BY <2>1, <2>2, <2>3
<1>6. Cardinality(1 .. w) = w
  BY <1>2, FS_Interval
<1> QED
  BY <1>5, <1>6 DEF Ended, s, w

\* The block a byte falls in is the number of its piece.
LEMMA PieceOfByte ==
  ASSUME NEW r \in 0 .. Block - 1, NEW size \in Nat, NEW i \in 1 .. size, NEW q \in Nat,
         q = (r + i - 1) \div Block
  PROVE  /\ PieceWith(PiecesOf(r, size), i) = q + 1
         /\ PiecesOf(r, size)[q + 1].at + i - PiecesOf(r, size)[q + 1].from - 1
              = (r + i - 1) - q * Block
<1> DEFINE s == PiecesOf(r, size)
           w == (r + i - 1) \div Block
<1>0. Block \in Nat \ {0} /\ r \in Nat /\ r < Block /\ r + i - 1 \in Nat
  BY SizesAssumption
<1>1. Cuts(s, r, size)
  BY PiecesCut
<1>2. w \in Nat /\ \A g \in Int : g <= w <=> g * Block <= r + i - 1
  BY <1>0, DivMod, MultipleBelow
<1> HIDE DEF s, w
<1>3. \A g \in Nat \ {0} : g * Block \in Int /\ (g - 1) * Block = g * Block - Block
                           /\ (g = 1 => g * Block = Block)
                           /\ (g > 1 => g * Block >= Block + Block)
  <2> TAKE g \in Nat \ {0}
  <2>1. g \in Int /\ 1 \in Int /\ 2 \in Int
    OBVIOUS
  <2>2. g * Block \in Int /\ (g - 1) * Block = g * Block - 1 * Block
        /\ (2 <= g => 2 * Block <= g * Block)
    BY <1>0, <2>1, Multiples
  <2> QED
    BY <1>0, <2>2
<1>4. ASSUME NEW g \in Nat \ {0}, NEW v \in Int, v = g * Block
      PROVE  /\ (g \in DOMAIN s /\ i \in s[g].from + 1 .. s[g].from + s[g].len) <=> g = w + 1
             /\ g = w + 1 => s[g].at + i - s[g].from - 1 = (r + i - 1) - (v - Block)
  <2>1. (g - 1) * Block = v - Block /\ (g = 1 => v = Block) /\ (g > 1 => v >= Block + Block)
    BY <1>3, <1>4
  <2>2. (g <= w <=> v <= r + i - 1) /\ (g - 1 <= w <=> v - Block <= r + i - 1)
    <3>1. g \in Int /\ g - 1 \in Int
      OBVIOUS
    <3> QED
      BY <1>2, <1>4, <2>1, <3>1
  <2>3. From(r, g) = IF g = 1 THEN 0 ELSE v - Block - r
    BY <2>1 DEF From
  <2>4. g \in DOMAIN s <=> (IF g = 1 THEN 0 ELSE v - Block - r) < size
    BY <1>1, <2>3 DEF Cuts
  <2>5. g = w + 1 <=> v - Block <= r + i - 1 /\ r + i - 1 < v
    BY <1>0, <1>2, <2>2
  <2>6. ASSUME g \in DOMAIN s
        PROVE  /\ i \in s[g].from + 1 .. s[g].from + s[g].len <=> g = w + 1
               /\ g = w + 1 => s[g].at + i - s[g].from - 1 = (r + i - 1) - (v - Block)
    <3>1. /\ s[g].at = (IF g = 1 THEN r ELSE 0) /\ s[g].from = (IF g = 1 THEN 0 ELSE v - Block - r)
          /\ s[g].len \in Nat
          /\ s[g].from + s[g].len = IF r + size >= v THEN v - r ELSE size
      BY <1>1, <1>4, <2>3, <2>6 DEF Cuts, At
    <3> QED
      BY <1>0, <2>1, <2>4, <2>5, <2>6, <3>1
  <2>7. g = w + 1 => g \in DOMAIN s
    BY <1>0, <2>1, <2>4, <2>5
  <2> QED
    BY <2>6, <2>7
<1>5. \A g \in Nat \ {0} :
        /\ (g \in DOMAIN s /\ i \in s[g].from + 1 .. s[g].from + s[g].len) <=> g = w + 1
        /\ g = w + 1 => s[g].at + i - s[g].from - 1 = (r + i - 1) - (g * Block - Block)
  BY <1>3, <1>4
<1>6. DOMAIN s \subseteq Nat \ {0}
  BY <1>1 DEF Cuts
<1>7. PICK h \in Nat \ {0} : h = w + 1
  BY <1>2
<1>8. h * Block - Block = w * Block
  <2>1. h - 1 = w
    BY <1>2, <1>7
  <2> QED
    BY <1>3, <2>1
<1>9. PieceWith(s, i) = h
  <2>1. \A g : (g \in DOMAIN s /\ i \in s[g].from + 1 .. s[g].from + s[g].len) <=> g = h
    BY <1>5, <1>6, <1>7
  <2> QED
    BY <2>1 DEF PieceWith
<1>10. s[h].at + i - s[h].from - 1 = (r + i - 1) - w * Block
  BY <1>5, <1>7, <1>8
<1>11. q = w
  BY DEF w
<1> QED
  BY <1>7, <1>9, <1>10, <1>11 DEF s

\* What the first size bytes of a kind put into block b.
Part(what, size, b) ==
  {<<o, <<what, (b - 1) * Block + o + 1>>>> :
     o \in {i \in 0 .. Block - 1 : (b - 1) * Block + i < size}}

\* A piece adds to its block the bytes of the call that fall in it.
LEMMA PieceAdds ==
  ASSUME NEW before \in Nat, NEW size \in Nat, NEW what, NEW b \in Nat \ {0}, NEW g \in Nat \ {0},
         b = before \div Block + g
  PROVE  Part(what, before, b)
           \cup (IF g \in DOMAIN PiecesOf(before % Block, size)
                 THEN {<<PiecesOf(before % Block, size)[g].at + i - 1,
                        <<what, before + PiecesOf(before % Block, size)[g].from + i>>>> :
                        i \in 1 .. PiecesOf(before % Block, size)[g].len}
                 ELSE {})
           = Part(what, before + size, b)
<1> DEFINE r == before % Block
           D == (before \div Block) * Block
           s == PiecesOf(r, size)
           v == (b - 1) * Block
           B == Block
           z == g * Block
           New == IF g \in DOMAIN s
                  THEN {<<s[g].at + i - 1, <<what, before + s[g].from + i>>>> : i \in 1 .. s[g].len}
                  ELSE {}
<1>0. Block \in Nat \ {0}
  BY SizesAssumption
<1>1. r \in 0 .. Block - 1 /\ r \in Nat /\ r < Block /\ before = D + r /\ D \in Nat
  <2>1. /\ before \div Block \in Nat /\ before % Block \in 0 .. Block - 1
        /\ before = (before \div Block) * Block + (before % Block)
    BY <1>0, DivMod
  <2>2. \A y \in Nat : y * Block \in Nat
    BY <1>0
  <2> QED
    BY <1>0, <2>1, <2>2
<1>2. Cuts(s, r, size)
  BY <1>1, PiecesCut
<1>3. /\ z \in Int /\ v \in Int /\ v = D + z - Block /\ (g = 1 => z = Block)
      /\ (g > 1 => z >= Block + Block) /\ (g - 1) * Block = z - Block
  <2>1. before \div Block \in Int /\ g \in Int /\ 1 \in Int /\ 2 \in Int /\ g - 1 \in Int
    BY <1>0
  <2>2. /\ g * Block \in Int /\ (g - 1) * Block = g * Block - 1 * Block
        /\ (2 <= g => 2 * Block <= g * Block)
        /\ (before \div Block + (g - 1)) * Block = (before \div Block) * Block + (g - 1) * Block
    BY <1>0, <2>1, Multiples
  <2>3. b - 1 = before \div Block + (g - 1)
    BY <2>1
  <2>4. v = D + (g - 1) * Block
    BY <2>2, <2>3
  <2> QED
    BY <1>0, <1>1, <2>2, <2>4
<1> HIDE DEF r, D, s, v, z
<1>4. /\ (g \in DOMAIN s <=> (IF g = 1 THEN 0 ELSE z - Block - r) < size)
      /\ (g \in DOMAIN s =>
            /\ s[g].at = (IF g = 1 THEN r ELSE 0)
            /\ s[g].from = (IF g = 1 THEN 0 ELSE z - Block - r) /\ s[g].len \in Nat
            /\ s[g].from + s[g].len = IF r + size >= z THEN z - r ELSE size)
  BY <1>2, <1>3 DEF Cuts, From, At, z
<1>5. \A x : x \in Part(what, before + size, b)
        <=> \E o \in 0 .. Block - 1 : x = <<o, <<what, v + o + 1>>>> /\ v + o < before + size
  BY DEF Part, v
<1>6. \A x : x \in Part(what, before, b)
        <=> \E o \in 0 .. Block - 1 : x = <<o, <<what, v + o + 1>>>> /\ v + o < before
  BY DEF Part, v
<1>7. \A x : x \in New
        <=> g \in DOMAIN s /\ \E i \in 1 .. s[g].len :
              x = <<s[g].at + i - 1, <<what, before + s[g].from + i>>>>
  OBVIOUS
<1>8. ASSUME NEW o \in 0 .. Block - 1
      PROVE  (before <= v + o /\ v + o < before + size)
               <=> (g \in DOMAIN s /\ o - s[g].at + 1 \in 1 .. s[g].len)
  <2>1. CASE g = 1
    <3>1. /\ (g \in DOMAIN s <=> 0 < size) /\ z = Block /\ v = D
          /\ (g \in DOMAIN s => s[g].at = r /\ s[g].from = 0 /\ s[g].len \in Nat
                /\ s[g].from + s[g].len = IF r + size >= z THEN z - r ELSE size)
      BY <1>0, <1>1, <1>3, <1>4, <2>1
    <3>2. CASE g \in DOMAIN s
      BY <1>0, <1>1, <3>1, <3>2
    <3>3. CASE g \notin DOMAIN s
      BY <1>0, <1>1, <3>1, <3>3
    <3> QED
      BY <3>2, <3>3
  <2>2. CASE g > 1
    <3>1. /\ (g \in DOMAIN s <=> z - Block - r < size) /\ z >= Block + Block /\ v = D + z - Block
          /\ (g \in DOMAIN s => s[g].at = 0 /\ s[g].from = z - Block - r /\ s[g].len \in Nat
                /\ s[g].from + s[g].len = IF r + size >= z THEN z - r ELSE size)
      BY <1>0, <1>1, <1>3, <1>4, <2>2
    <3> QED
      BY <1>0, <1>1, <1>3, <3>1
  <2> QED
    BY <2>1, <2>2
<1>9. ASSUME g \in DOMAIN s
      PROVE  /\ s[g].at \in Nat /\ s[g].from \in Int /\ s[g].len \in Nat
             /\ v + s[g].at = before + s[g].from /\ s[g].at + s[g].len <= Block
  <2>1. CASE g = 1
    <3>1. /\ s[g].at = r /\ s[g].from = 0 /\ s[g].len \in Nat /\ z = Block /\ v = D
          /\ s[g].from + s[g].len = IF r + size >= z THEN z - r ELSE size
      BY <1>0, <1>1, <1>3, <1>4, <1>9, <2>1
    <3> QED
      BY <1>0, <1>1, <3>1
  <2>2. CASE g > 1
    <3>1. /\ s[g].at = 0 /\ s[g].from = z - Block - r /\ s[g].len \in Nat /\ v = D + z - Block
          /\ s[g].from + s[g].len = IF r + size >= z THEN z - r ELSE size
      BY <1>0, <1>1, <1>3, <1>4, <1>9, <2>2
    <3>2. z \in Int /\ D \in Nat /\ r \in Nat /\ before = D + r /\ Block \in Nat
      BY <1>0, <1>1, <1>3
    <3>3. CASE r + size >= z
      <4>1. s[g].from + s[g].len = z - r
        BY <3>1, <3>3
      <4> QED
        BY <3>1, <3>2, <4>1
    <3>4. CASE ~(r + size >= z)
      <4>1. s[g].from + s[g].len = size
        BY <3>1, <3>4
      <4> QED
        BY <3>1, <3>2, <3>4, <4>1
    <3> QED
      BY <3>3, <3>4
  <2> QED
    BY <2>1, <2>2
<1>10. ASSUME g \in DOMAIN s, NEW i \in 1 .. s[g].len
       PROVE  /\ s[g].at + i - 1 \in 0 .. Block - 1
              /\ v + (s[g].at + i - 1) + 1 = before + s[g].from + i
              /\ (s[g].at + i - 1) - s[g].at + 1 = i
  <2>1. /\ s[g].at \in Nat /\ s[g].from \in Int /\ s[g].len \in Nat
        /\ v + s[g].at = before + s[g].from /\ s[g].at + s[g].len <= Block
    BY <1>9, <1>10
  <2> QED
    BY <1>0, <1>3, <2>1
<1>11. ASSUME NEW x \in Part(what, before + size, b)
       PROVE  x \in Part(what, before, b) \cup New
  <2>1. PICK o \in 0 .. Block - 1 : x = <<o, <<what, v + o + 1>>>> /\ v + o < before + size
    BY <1>5, <1>11
  <2>2. CASE v + o < before
    BY <1>6, <2>1, <2>2
  <2>3. CASE before <= v + o
    <3>1. g \in DOMAIN s /\ o - s[g].at + 1 \in 1 .. s[g].len
      BY <1>8, <2>1, <2>3
    <3>2. o = s[g].at + (o - s[g].at + 1) - 1 /\ v + o + 1 = before + s[g].from + (o - s[g].at + 1)
      <4>1. s[g].at \in Nat /\ s[g].from \in Int /\ v + s[g].at = before + s[g].from
        BY <1>9, <3>1
      <4> QED
        BY <1>3, <4>1
    <3>3. x = <<s[g].at + (o - s[g].at + 1) - 1, <<what, before + s[g].from + (o - s[g].at + 1)>>>>
      BY <2>1, <3>2, Zenon
    <3> QED
      BY <1>7, <3>1, <3>3
  <2>4. v + o < before \/ before <= v + o
    BY <1>3
  <2> QED
    BY <2>2, <2>3, <2>4
<1>12. Part(what, before, b) \subseteq Part(what, before + size, b)
  <2>1. \A o \in 0 .. Block - 1 : v + o < before => v + o < before + size
    BY <1>3
  <2> QED
    BY <1>5, <1>6, <2>1
<1>13. ASSUME NEW x \in New
       PROVE  x \in Part(what, before + size, b)
  <2>1. g \in DOMAIN s
    BY <1>7, <1>13
  <2>2. PICK i \in 1 .. s[g].len : x = <<s[g].at + i - 1, <<what, before + s[g].from + i>>>>
    BY <1>7, <1>13
  <2>3. /\ s[g].at + i - 1 \in 0 .. Block - 1
        /\ v + (s[g].at + i - 1) + 1 = before + s[g].from + i
        /\ (s[g].at + i - 1) - s[g].at + 1 = i
    BY <1>10, <2>1
  <2>4. v + (s[g].at + i - 1) < before + size
    BY <1>8, <2>1, <2>3
  <2>5. x = <<s[g].at + i - 1, <<what, v + (s[g].at + i - 1) + 1>>>>
    BY <2>2, <2>3, Zenon
  <2> QED
    BY <1>5, <2>3, <2>4, <2>5
<1> HIDE DEF New
<1>14. Part(what, before, b) \cup New = Part(what, before + size, b)
  BY <1>11, <1>12, <1>13
<1> QED
  BY <1>14 DEF New, s, r

\* Whole multiples come out of a quotient.
LEMMA QuotientPlus ==
  ASSUME NEW a \in Nat, NEW d \in Nat \ {0}, NEW h \in Nat
  PROVE  (a + h) \div d = a \div d + ((a % d) + h) \div d /\ (a + h) % d = ((a % d) + h) % d
<1>1. /\ a \div d \in Nat /\ a % d \in 0 .. d - 1 /\ a = (a \div d) * d + (a % d)
  BY DivMod
<1>2. PICK q \in Nat, e \in 0 .. d - 1 : q = a \div d /\ e = a % d
  BY <1>1
<1>3. e + h \in Nat
  BY <1>1, <1>2
<1>4. PICK u \in Nat, f \in 0 .. d - 1 : /\ u = (e + h) \div d /\ f = (e + h) % d
                                       /\ e + h = u * d + f
  BY <1>3, DivMod
<1>5. a = q * d + e
  BY <1>1, <1>2
<1>6. (q + u) * d = q * d + u * d /\ q * d \in Int /\ u * d \in Int
  BY Multiples
<1>7. a + h = (q + u) * d + f
  BY <1>4, <1>5, <1>6
<1>8. q + u = (a + h) \div d /\ f = (a + h) % d
  <2>1. a + h \in Nat /\ q + u \in Int
    OBVIOUS
  <2> QED
    BY <1>7, <2>1, Quotient
<1> QED
  BY <1>2, <1>4, <1>8

\* Blocks that are full, and blocks that have nothing yet.
LEMMA PartEnds ==
  ASSUME NEW before \in Nat, NEW size \in Nat, NEW what, NEW b \in Nat \ {0},
         NEW q \in Nat, q = before \div Block
  PROVE  /\ b <= q => Part(what, before, b) = Part(what, before + size, b)
         /\ b > q + 1 => Part(what, before, b) = {}
         /\ before % Block = 0 /\ b = q + 1 => Part(what, before, b) = {}
<1> DEFINE v == (b - 1) * Block
           D == q * Block
<1>1. Block \in Nat \ {0}
  BY SizesAssumption
<1>2. /\ q \in Nat /\ before % Block \in 0 .. Block - 1
      /\ before = D + (before % Block)
  BY <1>1, DivMod
<1>3. \A y \in Int : y * Block \in Int
  BY <1>1
<1>4. v \in Int /\ D \in Int /\ before < D + Block
  BY <1>1, <1>2, <1>3
<1>5. /\ (b <= q => v + Block <= D)
      /\ (b > q + 1 => v >= D + Block)
      /\ (b = q + 1 => v = D)
  <2>1. b - 1 \in Int /\ q \in Int
    BY <1>2
  <2>2. /\ (b - 1 < q => v + Block <= D)
        /\ (q < b - 1 => D + Block <= v)
    BY <1>1, <2>1, Multiples
  <2>3. b = q + 1 => b - 1 = q
    BY <2>1
  <2> QED
    BY <1>2, <2>2, <2>3
<1> HIDE DEF v, D
<1>6. \A y \in Nat : Part(what, y, b) =
        {<<o, <<what, v + o + 1>>>> : o \in {i \in 0 .. Block - 1 : v + i < y}}
  BY DEF Part, v
<1>7. ASSUME b <= q
      PROVE  Part(what, before, b) = Part(what, before + size, b)
  <2>1. {i \in 0 .. Block - 1 : v + i < before} = {i \in 0 .. Block - 1 : v + i < before + size}
    BY <1>1, <1>2, <1>4, <1>5, <1>7
  <2>2. before + size \in Nat
    OBVIOUS
  <2> QED
    BY <1>6, <2>1, <2>2
<1>8. ASSUME before <= v
      PROVE  Part(what, before, b) = {}
  <2>1. {i \in 0 .. Block - 1 : v + i < before} = {}
    BY <1>1, <1>4, <1>8
  <2>2. \A x : x \in Part(what, before, b)
                => \E o \in {i \in 0 .. Block - 1 : v + i < before} : x = <<o, <<what, v + o + 1>>>>
    BY <1>6
  <2>3. \A x : x \notin Part(what, before, b)
    BY <2>1, <2>2
  <2> QED
    BY <2>3
<1>9. ASSUME b > q + 1
      PROVE  before <= v
  BY <1>1, <1>4, <1>5, <1>9
<1>10. ASSUME before % Block = 0, b = q + 1
       PROVE  before <= v
  BY <1>2, <1>4, <1>5, <1>10
<1> QED
  BY <1>7, <1>8, <1>9, <1>10

\* A call adds its bytes to the blocks they fall in, and to no other.
LEMMA Absorbed ==
  ASSUME NEW before \in Nat, NEW size \in Nat, NEW what, NEW m \in Nat, NEW x,
         Len(x) = m + before \div Block + 1,
         \A b \in 1 .. before \div Block + 1 : x[m + b] = Part(what, before, b)
  PROVE  XorPieces(x, PiecesOf(before % Block, size), what, before) =
           [b \in 1 .. m + (before + size) \div Block + 1 |->
              IF b <= m THEN x[b] ELSE Part(what, before + size, b - m)]
<1> DEFINE r == before % Block
           s == PiecesOf(r, size)
           d == before \div Block
           Adds(g) == IF g \in DOMAIN s
                      THEN {<<s[g].at + i - 1, <<what, before + s[g].from + i>>>> :
                              i \in 1 .. s[g].len}
                      ELSE {}
<1>1. Block \in Nat \ {0} /\ d \in Nat /\ r \in 0 .. Block - 1
  BY SizesAssumption, DivMod
<1>0. (before + size) \div Block = d + (r + size) \div Block
  BY <1>1, QuotientPlus
<1> HIDE DEF r
<1>2. DOMAIN s \subseteq Nat \ {0}
  BY <1>1, PiecesCut DEF Cuts
<1>3. Ended(s) = (r + size) \div Block
  BY <1>1, EndedPieces
<1>4. (before + size) \div Block = d + Ended(s)
  BY <1>0, <1>3, Zenon
<1>5. \A y \in Nat : y \div Block \in Nat
  BY <1>1, DivMod
<1>13. (before + size) \div Block \in Nat
  <2>1. before + size \in Nat
    OBVIOUS
  <2> QED
    BY <1>5, <2>1
<1>6. \A g \in Nat \ {0} : Part(what, before, d + g) \cup Adds(g) = Part(what, before + size, d + g)
  <2> TAKE g \in Nat \ {0}
  <2>1. PICK b \in Nat \ {0} : b = d + g
    BY <1>1
  <2>2. Part(what, before, b) \cup Adds(g) = Part(what, before + size, b)
    BY <2>1, PieceAdds DEF r
  <2> QED
    BY <2>1, <2>2
<1>7. \A b \in Nat \ {0} :
         /\ b <= d => Part(what, before, b) = Part(what, before + size, b)
         /\ b > d + 1 => Part(what, before, b) = {}
  <2>1. d \in Nat /\ d = before \div Block
    BY <1>1
  <2> HIDE DEF d
  <2> QED
    BY <2>1, PartEnds, ZenonT(60)
<1> HIDE DEF s
<1>8. XorPieces(x, s, what, before) =
        [b \in 1 .. Len(x) + Ended(s) |->
           (IF b <= Len(x) THEN x[b] ELSE {}) \cup Adds(b - Len(x) + 1)]
  BY DEF XorPieces
<1> HIDE DEF Adds
<1>9. Len(x) = m + d + 1
  BY <1>1
<1> HIDE DEF d
<1>10. Ended(s) \in Int
  <2>1. r + size \in Nat
    BY <1>1
  <2> QED
    BY <1>3, <1>5, <2>1
<1>11. Len(x) + Ended(s) = m + (before + size) \div Block + 1
  BY <1>1, <1>4, <1>9, <1>10, <1>13, SMTT(30)
<1>12. ASSUME NEW b \in 1 .. m + (before + size) \div Block + 1
       PROVE  (IF b <= Len(x) THEN x[b] ELSE {}) \cup Adds(b - Len(x) + 1)
                = IF b <= m THEN x[b] ELSE Part(what, before + size, b - m)
  <2>1. b \in Nat \ {0} /\ b - Len(x) + 1 = b - m - d
    BY <1>1, <1>9, <1>13
  <2>2. CASE b <= m + d
    <3>1. b - m - d \notin DOMAIN s
      BY <1>1, <1>2, <2>1, <2>2
    <3>2. Adds(b - Len(x) + 1) = {}
      BY <2>1, <3>1 DEF Adds
    <3>3. b <= Len(x)
      BY <1>1, <1>9, <2>1, <2>2
    <3>4. CASE b <= m
      BY <3>2, <3>3, <3>4
    <3>5. CASE b > m
      <4>1. /\ b - m \in Nat \ {0} /\ b - m <= d /\ b - m \in 1 .. d + 1
            /\ m + (b - m) = b /\ ~(b <= m)
        BY <1>1, <2>1, <2>2, <3>5
      <4>2. x[m + (b - m)] = Part(what, before, b - m)
        BY <4>1 DEF d
      <4>3. Part(what, before, b - m) = Part(what, before + size, b - m)
        BY <1>7, <4>1
      <4> QED
        BY <3>2, <3>3, <4>1, <4>2, <4>3
    <3> QED
      BY <2>1, <3>4, <3>5
  <2>3. CASE b > m + d
    <3>1. PICK g \in Nat \ {0} : g = b - m - d
      BY <1>1, <2>1, <2>3
    <3>2. b - m = d + g /\ ~(b <= m) /\ b - Len(x) + 1 = g /\ d + g \in Nat \ {0}
      BY <1>1, <2>1, <3>1
    <3>3. (IF b <= Len(x) THEN x[b] ELSE {}) = Part(what, before, d + g)
      <4>1. CASE g = 1
        <5>1. b = m + (d + 1) /\ b <= Len(x) /\ d + 1 \in 1 .. d + 1
          BY <1>1, <1>9, <2>1, <3>2, <4>1
        <5> QED
          BY <4>1, <5>1 DEF d
      <4>2. CASE g # 1
        <5>1. ~(b <= Len(x)) /\ d + g > d + 1
          BY <1>1, <1>9, <2>1, <3>2, <4>2
        <5> QED
          BY <1>7, <3>2, <5>1
      <4> QED
        BY <4>1, <4>2
    <3>4. Part(what, before, d + g) \cup Adds(g) = Part(what, before + size, d + g)
      BY <1>6
    <3> QED
      BY <3>2, <3>3, <3>4
  <2> QED
    BY <1>1, <2>1, <2>2, <2>3
<1> QED
  BY <1>8, <1>11, <1>12 DEF s, r

\* Numbers less than d apart have different remainders.
LEMMA RemainderOnce ==
  ASSUME NEW a \in Nat, NEW b \in Nat, NEW d \in Nat \ {0}, a <= b, b < a + d, a % d = b % d
  PROVE  a = b
<1>1. PICK q \in Nat, e \in 0 .. d - 1 : a = q * d + e /\ e = a % d
  BY DivMod
<1>2. PICK u \in Nat, f \in 0 .. d - 1 : b = u * d + f /\ f = b % d
  BY DivMod
<1>3. e = f
  BY <1>1, <1>2
<1>4. /\ q * d \in Int /\ u * d \in Int
      /\ (q < u => q * d + d <= u * d) /\ (u < q => u * d + d <= q * d)
  BY Multiples
<1>5. q = u
  BY <1>1, <1>2, <1>3, <1>4
<1> QED
  BY <1>1, <1>2, <1>3, <1>5

\* The IVs there are, and the counter blocks made of them.
AnyIV == [salt : STRING \cup {"zero", "hash"}, invocation : 0 .. InvocationValues - 1]
AnyBlock == [iv : AnyIV, counter : 0 .. CounterValues - 1]

\* The counter of a block that is incremented again.
LEMMA IncTwice ==
  ASSUME NEW y \in AnyBlock, NEW a \in Nat, NEW b \in Nat
  PROVE  /\ IncBy(y, a) \in AnyBlock /\ IncBy(y, a).iv = y.iv
         /\ IncBy(y, a).counter = (y.counter + a) % CounterValues
         /\ IncBy(IncBy(y, a), b) = IncBy(y, a + b)
<1> DEFINE C == CounterValues
<1>1. C \in Nat \ {0} /\ y.counter \in Nat /\ y.counter + a \in Nat
  BY SizesAssumption DEF AnyBlock
<1>2. \A m \in Nat : m % C \in 0 .. C - 1
  BY <1>1, DivMod
<1>3. ((y.counter + a) + b) % C = (((y.counter + a) % C) + b) % C
  BY <1>1, QuotientPlus
<1> HIDE DEF C
<1>4. ASSUME NEW x \in AnyBlock, NEW m \in Nat
      PROVE  /\ IncBy(x, m) \in AnyBlock /\ IncBy(x, m).iv = x.iv
             /\ IncBy(x, m).counter = (x.counter + m) % C
  <2>1. x.counter + m \in Nat
    BY <1>1 DEF AnyBlock, C
  <2>2. (x.counter + m) % C \in 0 .. C - 1
    BY <1>2, <2>1
  <2> QED
    BY <2>2 DEF IncBy, AnyBlock, C
<1>5. IncBy(y, a) \in AnyBlock /\ a + b \in Nat
  BY <1>4
<1>6. IncBy(IncBy(y, a), b) \in AnyBlock /\ IncBy(y, a + b) \in AnyBlock
      /\ IncBy(IncBy(y, a), b).iv = y.iv /\ IncBy(y, a + b).iv = y.iv
  BY <1>4, <1>5
<1>7. IncBy(IncBy(y, a), b).counter = (((y.counter + a) % C) + b) % C
  BY <1>4, <1>5
<1>8. /\ IncBy(y, a + b).counter = (y.counter + (a + b)) % C
      /\ y.counter + (a + b) = (y.counter + a) + b
  <2>1. PICK m \in Nat : m = a + b
    BY <1>5
  <2>2. IncBy(y, m).counter = (y.counter + m) % C
    BY <1>4
  <2>3. y.counter + m = (y.counter + a) + b
    BY <1>1, <2>1
  <2> QED
    BY <2>1, <2>2, <2>3
<1>9. IncBy(IncBy(y, a), b) = IncBy(y, a + b)
  BY <1>3, <1>6, <1>7, <1>8 DEF AnyBlock
<1> QED
  BY <1>4, <1>9 DEF C

\* The byte of keystream that byte i of a text should meet.
ByteOf(y, i) == <<IncBy(y, 1 + (i - 1) \div Block), (i - 1) % Block>>

\* Bytes of one text meet different bytes, none of the block that the tag is masked with.
LEMMA BytesDiffer ==
  ASSUME NEW y \in AnyBlock, NEW i \in 1 .. TextMax, NEW h \in 1 .. TextMax
  PROVE  /\ ByteOf(y, i) \in AnyBlock \X Nat /\ ByteOf(y, i)[1].iv = y.iv
         /\ ByteOf(y, i)[1] # y
         /\ ByteOf(y, i) = ByteOf(y, h) => i = h
<1> DEFINE C == CounterValues
           c == y.counter
<1>1. Block \in Nat \ {0} /\ C \in Nat \ {0} /\ C > 2 /\ c \in 0 .. C - 1
  BY SizesAssumption DEF AnyBlock
<1>2. ASSUME NEW k \in 1 .. TextMax
      PROVE  \E q \in Nat, e \in 0 .. Block - 1 :
               /\ q <= C - 3 /\ q = (k - 1) \div Block /\ e = (k - 1) % Block
               /\ k - 1 = q * Block + e
  <2>1. k - 1 \in Nat /\ (C - 2) * Block \in Int /\ k <= (C - 2) * Block
    BY <1>1, <1>2 DEF TextMax
  <2>2. PICK q \in Nat, e \in 0 .. Block - 1 :
          q = (k - 1) \div Block /\ e = (k - 1) % Block /\ k - 1 = q * Block + e
    BY <1>1, <2>1, DivMod
  <2>3. q \in Int /\ C - 2 \in Int
    BY <1>1
  <2>4. q * Block \in Int /\ (C - 2 <= q => (C - 2) * Block <= q * Block)
    BY <1>1, <2>3, Multiples
  <2>5. ~(C - 2 <= q)
    BY <2>1, <2>2, <2>4
  <2>6. q <= C - 3
    BY <1>1, <2>5
  <2> QED
    BY <2>2, <2>6
<1>3. PICK q \in Nat, e \in 0 .. Block - 1 :
        q <= C - 3 /\ q = (i - 1) \div Block /\ e = (i - 1) % Block /\ i - 1 = q * Block + e
  BY <1>2
<1>4. PICK u \in Nat, f \in 0 .. Block - 1 :
        u <= C - 3 /\ u = (h - 1) \div Block /\ f = (h - 1) % Block /\ h - 1 = u * Block + f
  BY <1>2
<1>5. ByteOf(y, i) = <<IncBy(y, 1 + q), e>> /\ ByteOf(y, h) = <<IncBy(y, 1 + u), f>>
  BY <1>3, <1>4 DEF ByteOf
<1>6. /\ IncBy(y, 1 + q) \in AnyBlock /\ IncBy(y, 1 + q).iv = y.iv
      /\ IncBy(y, 1 + q).counter = (c + (1 + q)) % C
      /\ IncBy(y, 1 + u).counter = (c + (1 + u)) % C
  <2>1. 1 + q \in Nat /\ 1 + u \in Nat /\ 0 \in Nat
    OBVIOUS
  <2> QED
    BY <2>1, IncTwice
<1>7. \A a, b \in Nat : a <= b /\ b < a + C /\ a % C = b % C => a = b
  BY <1>1, RemainderOnce
<1>8. c % C = c
  <2>1. c \in Nat /\ 0 \in Int /\ c = 0 * C + c
    BY <1>1
  <2> QED
    BY <1>1, <2>1, Quotient
<1>9. (c + (1 + q)) % C # c
  <2>1. /\ c \in Nat /\ c + (1 + q) \in Nat /\ c <= c + (1 + q)
        /\ c + (1 + q) < c + C /\ c # c + (1 + q)
    BY <1>1, <1>3
  <2> QED
    BY <1>7, <1>8, <2>1
<1>10. ASSUME (c + (1 + q)) % C = (c + (1 + u)) % C
       PROVE  q = u
  <2>1. c \in Nat /\ c + (1 + q) \in Nat /\ c + (1 + u) \in Nat
        /\ c + (1 + q) < c + (1 + u) + C /\ c + (1 + u) < c + (1 + q) + C
    BY <1>1, <1>3, <1>4
  <2>2. c + (1 + q) = c + (1 + u)
    BY <1>7, <1>10, <2>1
  <2> QED
    BY <2>1, <2>2
<1>11. ASSUME ByteOf(y, i) = ByteOf(y, h)
       PROVE  i = h
  <2>1. IncBy(y, 1 + q) = IncBy(y, 1 + u) /\ e = f
    BY <1>5, <1>11
  <2>2. q = u
    BY <1>6, <1>10, <2>1
  <2> QED
    BY <1>3, <1>4, <2>1, <2>2
<1> QED
  BY <1>5, <1>6, <1>9, <1>11

\* A call that continues a text meets the bytes that follow.
LEMMA MetBytes ==
  ASSUME Y_0 \in AnyBlock, text_nbytes \in Nat,
         Y = IncBy(Y_0, 1 + text_nbytes \div Block), pad = Y, NEW size \in Nat
  PROVE  /\ Met(PiecesOf(text_nbytes % Block, size), size) =
               [i \in 1 .. size |-> ByteOf(Y_0, text_nbytes + i)]
         /\ IncBy(Y, Ended(PiecesOf(text_nbytes % Block, size)))
              = IncBy(Y_0, 1 + (text_nbytes + size) \div Block)
         /\ Ended(PiecesOf(text_nbytes % Block, size)) \in Nat
<1> DEFINE r == text_nbytes % Block
           d == text_nbytes \div Block
           s == PiecesOf(r, size)
<1>1. Block \in Nat \ {0} /\ r \in 0 .. Block - 1 /\ r \in Nat /\ d \in Nat
      /\ \A a \in Nat : a \div Block \in Nat /\ a % Block \in 0 .. Block - 1
  <2>1. Block \in Nat \ {0}
    BY SizesAssumption
  <2>2. \A a \in Nat : a \div Block \in Nat /\ a % Block \in 0 .. Block - 1
    BY <2>1, DivMod
  <2>3. r \in 0 .. Block - 1 /\ d \in Nat
    BY <2>2
  <2> QED
    BY <2>1, <2>2, <2>3
<1>2. \A h \in Nat : /\ (text_nbytes + h) \div Block = d + (r + h) \div Block
                     /\ (text_nbytes + h) % Block = (r + h) % Block
  BY <1>1, QuotientPlus
<1>3. Ended(s) = (r + size) \div Block
  BY <1>1, EndedPieces
<1>4. Y = IncBy(Y_0, 1 + d) /\ pad = Y
  OBVIOUS
<1> HIDE DEF r, d, s
<1>5. \A m \in Nat : IncBy(Y, m) = IncBy(Y_0, 1 + d + m)
  <2>1. 1 + d \in Nat
    BY <1>1
  <2> QED
    BY <1>4, <2>1, IncTwice
<1>6. Ended(s) \in Nat /\ 1 + d + Ended(s) = 1 + (text_nbytes + size) \div Block
  <2>1. r + size \in Nat
    BY <1>1
  <2>2. PICK m \in Nat : m = (r + size) \div Block
    BY <1>1, <2>1
  <2>3. (text_nbytes + size) \div Block = d + m
    BY <1>2, <2>2
  <2> QED
    BY <1>1, <1>3, <2>2, <2>3
<1>7. ASSUME NEW i \in 1 .. size
      PROVE  <<IF PieceWith(s, i) = 1 THEN pad ELSE IncBy(Y, PieceWith(s, i) - 1),
               s[PieceWith(s, i)].at + i - s[PieceWith(s, i)].from - 1>>
               = ByteOf(Y_0, text_nbytes + i)
  <2>1. r + (i - 1) \in Nat /\ r + i - 1 = r + (i - 1) /\ i - 1 \in Nat
        /\ text_nbytes + i - 1 = text_nbytes + (i - 1)
    BY <1>1
  <2>2. PICK q \in Nat, e \in 0 .. Block - 1 :
          q = (r + (i - 1)) \div Block /\ e = (r + (i - 1)) % Block /\ r + (i - 1) = q * Block + e
    BY <1>1, <2>1, DivMod
  <2>3. PieceWith(s, i) = q + 1 /\ s[q + 1].at + i - s[q + 1].from - 1 = (r + i - 1) - q * Block
    <3>1. q = (r + i - 1) \div Block
      BY <2>1, <2>2, Zenon
    <3>2. r \in 0 .. Block - 1 /\ size \in Nat /\ i \in 1 .. size /\ q \in Nat
      BY <1>1
    <3>3. /\ PieceWith(PiecesOf(r, size), i) = q + 1
          /\ PiecesOf(r, size)[q + 1].at + i - PiecesOf(r, size)[q + 1].from - 1
               = (r + i - 1) - q * Block
      BY <3>1, <3>2, PieceOfByte, ZenonT(60)
    <3> QED
      BY <3>3 DEF s
  <2>4. (text_nbytes + i - 1) \div Block = d + q /\ (text_nbytes + i - 1) % Block = e
    BY <1>2, <2>1, <2>2
  <2>5. (r + i - 1) - q * Block = e
    <3>1. q * Block \in Int
      BY <1>1
    <3> QED
      BY <1>1, <2>1, <2>2, <3>1
  <2>6. ByteOf(Y_0, text_nbytes + i) = <<IncBy(Y_0, 1 + (d + q)), e>>
    BY <2>4 DEF ByteOf
  <2>7. (IF q + 1 = 1 THEN pad ELSE IncBy(Y, q + 1 - 1)) = IncBy(Y_0, 1 + (d + q))
    <3>1. CASE q = 0
      <4>1. q + 1 = 1 /\ 1 + (d + q) = 1 + d
        BY <1>1, <3>1
      <4> QED
        BY <1>4, <4>1
    <3>2. CASE q # 0
      <4>1. ~(q + 1 = 1) /\ q + 1 - 1 = q /\ 1 + (d + q) = 1 + d + q
        BY <1>1, <3>2
      <4> QED
        BY <1>5, <4>1
    <3> QED
      BY <3>1, <3>2
  <2> QED
    BY <2>3, <2>5, <2>6, <2>7
<1>8. Met(s, size) = [i \in 1 .. size |-> ByteOf(Y_0, text_nbytes + i)]
  BY <1>7 DEF Met
<1> QED
  BY <1>5, <1>6, <1>8 DEF s, r

\* The blocks of the AAD so far; those of the whole AAD and the text so far; and those that
\* ccmode_gcm_finalize closes before it adds the lengths.
Filled(size) == (size + Block - 1) \div Block
AadX(size) == [b \in 1 .. size \div Block + 1 |-> Part("aad", size, b)]
MessageX(m, size, count) ==
  [b \in 1 .. Filled(m) + count |->
     IF b <= Filled(m) THEN Part("aad", m, b) ELSE Part("ciphertext", size, b - Filled(m))]
TextX(m, size) == MessageX(m, size, size \div Block + 1)
ClosedX(m, size) == MessageX(m, size, Filled(size) + 1)

XKind == {"aad", "ciphertext", "aad length", "text length"}
XBlock == SUBSET (Nat \X (XKind \X Nat))

LEMMA FilledIs ==
  ASSUME NEW size \in Nat
  PROVE  /\ Filled(size) = (IF size % Block = 0 THEN size \div Block ELSE size \div Block + 1)
         /\ Filled(size) \in Nat /\ size \div Block \in Nat /\ size % Block \in Nat
<1>1. Block \in Nat \ {0}
  BY SizesAssumption
<1>2. PICK q \in Nat, e \in 0 .. Block - 1 :
        q = size \div Block /\ e = size % Block /\ size = q * Block + e
  BY <1>1, DivMod
<1>3. size + Block - 1 \in Nat /\ q * Block \in Int /\ (q + 1) * Block = q * Block + 1 * Block
      /\ q \in Int /\ q + 1 \in Int
  BY <1>1, Multiples
<1>4. CASE e = 0
  <2>1. size + Block - 1 = q * Block + (Block - 1) /\ Block - 1 \in 0 .. Block - 1
    BY <1>1, <1>2, <1>3, <1>4
  <2>2. q = (size + Block - 1) \div Block
    BY <1>1, <1>3, <2>1, Quotient
  <2> QED
    BY <1>2, <1>4, <2>2 DEF Filled
<1>5. CASE e > 0
  <2>1. size + Block - 1 = (q + 1) * Block + (e - 1) /\ e - 1 \in 0 .. Block - 1
    BY <1>1, <1>2, <1>3, <1>5
  <2>2. q + 1 = (size + Block - 1) \div Block
    BY <1>1, <1>3, <2>1, Quotient
  <2> QED
    BY <1>2, <1>5, <2>2 DEF Filled
<1> QED
  BY <1>1, <1>4, <1>5

LEMMA PartType ==
  ASSUME NEW what \in XKind, NEW size \in Nat, NEW b \in Nat \ {0}
  PROVE  Part(what, size, b) \in XBlock
<1>1. Block \in Nat /\ (b - 1) * Block \in Nat
  <2>1. \A h, m \in Nat : h * m \in Nat
    OBVIOUS
  <2>2. b - 1 \in Nat /\ Block \in Nat
    BY SizesAssumption
  <2> QED
    BY <2>1, <2>2
<1>2. \A o \in 0 .. Block - 1 : o \in Nat /\ (b - 1) * Block + o + 1 \in Nat
  BY <1>1
<1>3. \A o \in 0 .. Block - 1 :
        <<o, <<what, (b - 1) * Block + o + 1>>>> \in Nat \X (XKind \X Nat)
  BY <1>2
<1> QED
  BY <1>3 DEF Part, XBlock

LEMMA MessageType ==
  ASSUME NEW m \in Nat, NEW size \in Nat, NEW count \in Nat
  PROVE  /\ MessageX(m, size, count) \in Seq(XBlock)
         /\ Len(MessageX(m, size, count)) = Filled(m) + count
         /\ \A b \in 1 .. Filled(m) + count : MessageX(m, size, count)[b] =
              IF b <= Filled(m) THEN Part("aad", m, b) ELSE Part("ciphertext", size, b - Filled(m))
<1>1. Filled(m) \in Nat
  BY FilledIs
<1>2. \A b \in 1 .. Filled(m) + count :
        (IF b <= Filled(m) THEN Part("aad", m, b) ELSE Part("ciphertext", size, b - Filled(m)))
          \in XBlock
  <2> TAKE b \in 1 .. Filled(m) + count
  <2>1. b \in Nat \ {0} /\ (~(b <= Filled(m)) => b - Filled(m) \in Nat \ {0})
    BY <1>1
  <2>0. "aad" \in XKind /\ "ciphertext" \in XKind
    BY DEF XKind
  <2>2. Part("aad", m, b) \in XBlock
    BY <2>0, <2>1, PartType
  <2>3. \A h \in Nat \ {0} : Part("ciphertext", size, h) \in XBlock
    BY <2>0, PartType
  <2> QED
    BY <2>1, <2>2, <2>3
<1>3. Filled(m) + count \in Nat
  BY <1>1
<1> HIDE DEF XBlock
<1> QED
  BY <1>2, <1>3 DEF MessageX

LEMMA AadType ==
  ASSUME NEW size \in Nat
  PROVE  /\ AadX(size) \in Seq(XBlock) /\ Len(AadX(size)) = size \div Block + 1
         /\ \A b \in 1 .. size \div Block + 1 : AadX(size)[b] = Part("aad", size, b)
<1>1. PICK d \in Nat : d = size \div Block
  BY FilledIs
<1>2. \A b \in 1 .. d + 1 : Part("aad", size, b) \in XBlock
  <2>1. "aad" \in XKind /\ \A b \in 1 .. d + 1 : b \in Nat \ {0}
    BY DEF XKind
  <2> QED
    BY <2>1, PartType
<1>3. AadX(size) = [b \in 1 .. d + 1 |-> Part("aad", size, b)]
  BY <1>1 DEF AadX
<1> QED
  BY <1>1, <1>2, <1>3

LEMMA AppendIs ==
  ASSUME NEW S, NEW x \in Seq(S), NEW e \in S
  PROVE  /\ Append(x, e) \in Seq(S) /\ Len(Append(x, e)) = Len(x) + 1
         /\ Append(x, e) = [b \in 1 .. Len(x) + 1 |-> IF b <= Len(x) THEN x[b] ELSE e]
<1>1. /\ Append(x, e) \in Seq(S) /\ Len(Append(x, e)) = Len(x) + 1
      /\ Append(x, e)[Len(x) + 1] = e /\ Len(x) \in Nat
      /\ \A b \in 1 .. Len(x) : Append(x, e)[b] = x[b]
  OBVIOUS
<1> DEFINE u == Append(x, e)
<1> HIDE DEF u
<1>2. u \in Seq(S) /\ Len(u) = Len(x) + 1
  BY <1>1 DEF u
<1>3. \A b \in 1 .. Len(x) + 1 : u[b] = IF b <= Len(x) THEN x[b] ELSE e
  BY <1>1 DEF u
<1>4. u = [b \in 1 .. Len(u) |-> u[b]]
  BY <1>2
<1> QED
  BY <1>1, <1>2, <1>3, <1>4 DEF u

\* A new message has nothing in X.
LEMMA XEmpty == <<{}>> = AadX(0) /\ \A b \in Nat \ {0} : Part("ciphertext", 0, b) = {}
<1>1. Block \in Nat \ {0} /\ 0 \in Nat
  BY SizesAssumption
<1>2. 0 \div Block = 0 /\ 0 % Block = 0
  <2>1. 0 = 0 * Block + 0 /\ 0 \in 0 .. Block - 1 /\ 0 \in Int
    BY <1>1
  <2> QED
    BY <1>1, <2>1, Quotient
<1>3. ASSUME NEW what, NEW b \in Nat \ {0}
      PROVE  Part(what, 0, b) = {}
  <2>1. /\ b > 0 \div Block + 1 => Part(what, 0, b) = {}
        /\ 0 % Block = 0 /\ b = 0 \div Block + 1 => Part(what, 0, b) = {}
    BY <1>1, PartEnds
  <2> QED
    BY <1>2, <2>1
<1>4. AadX(0) = [b \in 1 .. 1 |-> {}]
  <2>1. 0 \div Block + 1 = 1
    BY <1>2
  <2>2. \A b \in 1 .. 1 : Part("aad", 0, b) = {}
    BY <1>3
  <2> QED
    BY <2>1, <2>2 DEF AadX
<1> QED
  BY <1>3, <1>4

LEMMA XAad ==
  ASSUME NEW m \in Nat, NEW size \in Nat
  PROVE  XorPieces(AadX(m), PiecesOf(m % Block, size), "aad", m) = AadX(m + size)
<1> DEFINE x == AadX(m)
<1>1. Len(x) = m \div Block + 1 /\ \A b \in 1 .. m \div Block + 1 : x[b] = Part("aad", m, b)
  BY AadType
<1>2. m \div Block \in Nat
  BY FilledIs
<1> HIDE DEF x
<1>3. Len(x) = 0 + m \div Block + 1
  BY <1>1, <1>2
<1>4. \A b \in 1 .. m \div Block + 1 : x[0 + b] = Part("aad", m, b)
  BY <1>1, <1>2
<1>5. XorPieces(x, PiecesOf(m % Block, size), "aad", m) =
        [b \in 1 .. 0 + (m + size) \div Block + 1 |->
           IF b <= 0 THEN x[b] ELSE Part("aad", m + size, b - 0)]
  <2>1. 0 \in Nat
    OBVIOUS
  <2> QED
    BY <1>3, <1>4, <2>1, Absorbed
<1>6. PICK d \in Nat : d = (m + size) \div Block
  <2>1. m + size \in Nat
    OBVIOUS
  <2> QED
    BY <2>1, FilledIs
<1>7. 0 + d + 1 = d + 1 /\ \A b \in 1 .. d + 1 : ~(b <= 0) /\ b - 0 = b
  BY <1>6
<1> QED
  BY <1>5, <1>6, <1>7 DEF AadX, x

\* A sequence of blocks, and one more that is empty.
LEMMA Closes ==
  ASSUME NEW x \in Seq(XBlock), NEW w \in Seq(XBlock), Len(w) = Len(x) + 1,
         \A b \in 1 .. Len(x) : w[b] = x[b], w[Len(x) + 1] = {}
  PROVE  MultH(x) = w
<1>1. {} \in XBlock
  BY DEF XBlock
<1> HIDE DEF XBlock
<1>2. Append(x, {}) = [b \in 1 .. Len(x) + 1 |-> IF b <= Len(x) THEN x[b] ELSE {}]
  BY <1>1, AppendIs
<1>3. w = [b \in 1 .. Len(w) |-> w[b]] /\ Len(x) \in Nat
  OBVIOUS
<1>4. \A b \in 1 .. Len(x) + 1 : w[b] = IF b <= Len(x) THEN x[b] ELSE {}
  BY <1>3
<1> QED
  BY <1>2, <1>3, <1>4 DEF MultH

\* What ccmode_gcm_aad_finalize makes of the AAD.
LEMMA XFinalizedAad ==
  ASSUME NEW m \in Nat
  PROVE  (IF m % Block > 0 THEN MultH(AadX(m)) ELSE AadX(m)) = TextX(m, 0)
<1>1. /\ Filled(m) = (IF m % Block = 0 THEN m \div Block ELSE m \div Block + 1)
      /\ Filled(m) \in Nat /\ m \div Block \in Nat /\ m % Block \in Nat
  BY FilledIs
<1>2. 0 \div Block + 1 = 1 /\ 1 \in Nat
  <2>1. Block \in Nat \ {0}
    BY SizesAssumption
  <2>2. 0 = 0 * Block + 0 /\ 0 \in 0 .. Block - 1 /\ 0 \in Int /\ 0 \in Nat
    BY <2>1
  <2>3. 0 \div Block = 0
    BY <2>1, <2>2, Quotient
  <2> QED
    BY <2>3
<1>3. /\ AadX(m) \in Seq(XBlock) /\ Len(AadX(m)) = m \div Block + 1
      /\ \A b \in 1 .. m \div Block + 1 : AadX(m)[b] = Part("aad", m, b)
  BY AadType
<1>4. /\ TextX(m, 0) \in Seq(XBlock) /\ Len(TextX(m, 0)) = Filled(m) + 1
      /\ \A b \in 1 .. Filled(m) + 1 : TextX(m, 0)[b] =
           IF b <= Filled(m) THEN Part("aad", m, b) ELSE Part("ciphertext", 0, b - Filled(m))
  <2>1. TextX(m, 0) = MessageX(m, 0, 1) /\ 0 \in Nat
    BY <1>2 DEF TextX
  <2> QED
    BY <1>2, <2>1, MessageType
<1>9. PICK a \in Nat : a = Filled(m)
  BY <1>1
<1>10. \A b \in 1 .. a + 1 : TextX(m, 0)[b] =
           IF b <= a THEN Part("aad", m, b) ELSE Part("ciphertext", 0, b - a)
  BY <1>4, <1>9
<1>5. \A b \in 1 .. Filled(m) : TextX(m, 0)[b] = Part("aad", m, b)
  <2> SUFFICES ASSUME NEW b \in 1 .. a PROVE TextX(m, 0)[b] = Part("aad", m, b)
    BY <1>9
  <2>1. b \in 1 .. a + 1 /\ b <= a
    OBVIOUS
  <2> QED
    BY <1>10, <2>1
<1>6. TextX(m, 0)[Filled(m) + 1] = {}
  <2>1. PICK b \in 1 .. a + 1 : b = a + 1
    OBVIOUS
  <2>2. ~(b <= a) /\ b - a = 1 /\ 1 \in Nat \ {0}
    BY <2>1
  <2>3. Part("ciphertext", 0, 1) = {}
    BY <2>2, XEmpty
  <2> QED
    BY <1>9, <1>10, <2>1, <2>2, <2>3
<1> DEFINE x == AadX(m)
           w == TextX(m, 0)
<1> HIDE DEF x, w, XBlock
<1>7. CASE m % Block > 0
  <2>1. m \div Block + 1 = Filled(m)
    BY <1>1, <1>7
  <2>2. x \in Seq(XBlock) /\ w \in Seq(XBlock) /\ Len(x) = Filled(m) /\ Len(w) = Len(x) + 1
    BY <1>3, <1>4, <2>1 DEF x, w
  <2>3. \A b \in 1 .. Len(x) : w[b] = x[b]
    BY <1>3, <1>5, <2>1, <2>2 DEF x, w
  <2>4. w[Len(x) + 1] = {}
    BY <1>6, <2>2 DEF w
  <2>5. MultH(x) = w
    BY <2>2, <2>3, <2>4, Closes
  <2> QED
    BY <1>7, <2>5 DEF x, w
<1>8. CASE ~(m % Block > 0)
  <2>1. m \div Block = Filled(m) /\ m % Block = 0
    BY <1>1, <1>8
  <2>2. Part("aad", m, m \div Block + 1) = {}
    <3>1. PICK b \in Nat \ {0} : b = m \div Block + 1
      BY <1>1
    <3>2. Part("aad", m, b) = {}
      <4>1. PICK q \in Nat : q = m \div Block
        BY <1>1
      <4>2. m % Block = 0 /\ b = q + 1 => Part("aad", m, b) = {}
        <5>1. 0 \in Nat
          OBVIOUS
        <5> QED
          BY <4>1, <5>1, PartEnds, Zenon
      <4> QED
        BY <2>1, <3>1, <4>1, <4>2, Zenon
    <3> QED
      BY <3>1, <3>2
  <2>3. x \in Seq(XBlock) /\ w \in Seq(XBlock) /\ Len(x) = Filled(m) + 1 /\ Len(w) = Len(x)
    BY <1>3, <1>4, <2>1 DEF x, w
  <2>4. \A b \in 1 .. Filled(m) + 1 : x[b] = w[b]
    <3> TAKE b \in 1 .. Filled(m) + 1
    <3>1. x[b] = Part("aad", m, b)
      BY <1>3, <2>1 DEF x
    <3>2. CASE b <= Filled(m)
      <4>1. b \in 1 .. Filled(m)
        BY <1>1, <3>2
      <4> QED
        BY <1>5, <3>1, <4>1 DEF w
    <3>3. CASE b > Filled(m)
      <4>1. b = Filled(m) + 1
        BY <1>1, <3>3
      <4> QED
        BY <1>6, <2>1, <2>2, <3>1, <4>1 DEF w
    <3> QED
      BY <1>1, <3>2, <3>3
  <2>5. x = [b \in 1 .. Len(x) |-> x[b]] /\ w = [b \in 1 .. Len(w) |-> w[b]]
    BY <2>3
  <2>6. x = w
    BY <2>3, <2>4, <2>5
  <2> QED
    BY <1>8, <2>6 DEF x, w
<1> QED
  BY <1>7, <1>8

LEMMA XText ==
  ASSUME NEW m \in Nat, NEW before \in Nat, NEW size \in Nat
  PROVE  XorPieces(TextX(m, before), PiecesOf(before % Block, size), "ciphertext", before)
           = TextX(m, before + size)
<1> DEFINE x == TextX(m, before)
           a == Filled(m)
<1>1. a \in Nat /\ before \div Block + 1 \in Nat /\ before \div Block \in Nat
  BY FilledIs
<1>2. /\ x \in Seq(XBlock) /\ Len(x) = a + (before \div Block + 1)
      /\ \A b \in 1 .. a + (before \div Block + 1) : x[b] =
           IF b <= a THEN Part("aad", m, b) ELSE Part("ciphertext", before, b - a)
  BY <1>1, MessageType, ZenonT(60) DEF TextX
<1> HIDE DEF x, a
<1>3. PICK d \in Nat : d = before \div Block
  BY <1>1
<1>4. Len(x) = a + before \div Block + 1
  BY <1>1, <1>2, <1>3
<1>5. \A b \in 1 .. before \div Block + 1 : x[a + b] = Part("ciphertext", before, b)
  <2>1. ASSUME NEW b \in 1 .. d + 1
        PROVE  x[a + b] = Part("ciphertext", before, b)
    <3>1. PICK h \in 1 .. a + (d + 1) : h = a + b
      BY <1>1
    <3>2. ~(h <= a) /\ h - a = b
      BY <1>1, <3>1
    <3> QED
      BY <1>2, <1>3, <3>1, <3>2
  <2> QED
    BY <1>3, <2>1
<1>6. XorPieces(x, PiecesOf(before % Block, size), "ciphertext", before) =
        [b \in 1 .. a + (before + size) \div Block + 1 |->
           IF b <= a THEN x[b] ELSE Part("ciphertext", before + size, b - a)]
  BY <1>1, <1>4, <1>5, Absorbed
<1>7. PICK u \in Nat : u = (before + size) \div Block
  <2>1. before + size \in Nat
    OBVIOUS
  <2> QED
    BY <2>1, FilledIs
<1>8. \A b \in 1 .. a + (u + 1) : b <= a => x[b] = Part("aad", m, b)
  <2>1. \A b \in 1 .. a + (u + 1) : b <= a => b \in 1 .. a + (d + 1)
    BY <1>1
  <2> QED
    BY <1>2, <1>3, <2>1
<1>9. a + u + 1 = a + (u + 1)
  BY <1>1
<1>10. TextX(m, before + size) =
         [b \in 1 .. a + (u + 1) |->
            IF b <= a THEN Part("aad", m, b) ELSE Part("ciphertext", before + size, b - a)]
  BY <1>7 DEF TextX, MessageX, a
<1> QED
  BY <1>6, <1>7, <1>8, <1>9, <1>10 DEF x

\* The text's last block is closed.
LEMMA XClosed ==
  ASSUME NEW m \in Nat, NEW size \in Nat
  PROVE  (IF size % Block > 0 THEN MultH(TextX(m, size)) ELSE TextX(m, size)) = ClosedX(m, size)
<1> DEFINE x == TextX(m, size)
           w == ClosedX(m, size)
           a == Filled(m)
           h == Filled(size)
<1>1. /\ h = (IF size % Block = 0 THEN size \div Block ELSE size \div Block + 1)
      /\ h \in Nat /\ size \div Block \in Nat /\ size % Block \in Nat /\ a \in Nat
      /\ size \div Block + 1 \in Nat
  BY FilledIs
<1>2. /\ x \in Seq(XBlock) /\ Len(x) = a + (size \div Block + 1)
      /\ \A b \in 1 .. a + (size \div Block + 1) : x[b] =
           IF b <= a THEN Part("aad", m, b) ELSE Part("ciphertext", size, b - a)
  BY <1>1, MessageType, ZenonT(60) DEF TextX
<1>3. /\ w \in Seq(XBlock) /\ Len(w) = a + (h + 1)
      /\ \A b \in 1 .. a + (h + 1) : w[b] =
           IF b <= a THEN Part("aad", m, b) ELSE Part("ciphertext", size, b - a)
  <2>1. h + 1 \in Nat
    BY <1>1
  <2> QED
    BY <2>1, MessageType DEF ClosedX
<1> HIDE DEF x, w, a, h, XBlock
<1>4. CASE size % Block > 0
  <2>1. h = size \div Block + 1 /\ size \div Block \in Nat
    BY <1>1, <1>4
  <2>2. Len(x) = a + h /\ Len(w) = Len(x) + 1 /\ 1 .. Len(x) \subseteq 1 .. a + (h + 1)
    BY <1>1, <1>2, <1>3, <2>1
  <2>3. \A b \in 1 .. Len(x) : w[b] = x[b]
    BY <1>2, <1>3, <2>1, <2>2
  <2>4. w[Len(x) + 1] = {}
    <3>1. PICK b \in Nat \ {0} : b = h + 1
      BY <1>1
    <3>2. Part("ciphertext", size, b) = {}
      <4>1. PICK q \in Nat : q = size \div Block
        BY <1>1
      <4>2. b > q + 1 /\ 0 \in Nat
        BY <2>1, <3>1, <4>1
      <4> QED
        BY <4>1, <4>2, PartEnds, Zenon
    <3>3. PICK k \in 1 .. a + (h + 1) : k = a + h + 1
      BY <1>1
    <3>4. Len(x) + 1 = k /\ ~(k <= a) /\ k - a = b
      <4>1. Len(x) = a + h
        BY <2>2
      <4> QED
        BY <1>1, <3>1, <3>3, <4>1, SMTT(30)
    <3> QED
      BY <1>3, <3>2, <3>4
  <2>5. MultH(x) = w
    BY <1>2, <1>3, <2>2, <2>3, <2>4, Closes
  <2> QED
    BY <1>4, <2>5 DEF x, w
<1>5. CASE ~(size % Block > 0)
  <2>1. h = size \div Block
    BY <1>1, <1>5
  <2>2. Len(x) = Len(w) /\ \A b \in 1 .. Len(w) : x[b] = w[b]
    BY <1>2, <1>3, <2>1
  <2>3. x = [b \in 1 .. Len(x) |-> x[b]] /\ w = [b \in 1 .. Len(w) |-> w[b]]
    BY <1>2, <1>3
  <2>4. x = w
    BY <2>2, <2>3
  <2> QED
    BY <1>5, <2>4 DEF x, w
<1> QED
  BY <1>4, <1>5

\* The lengths are in a block of their own.
LEMMA XTag ==
  ASSUME NEW m \in Nat, NEW size \in Nat, NEW y
  PROVE  MultH(XorX(ClosedX(m, size), 0, LengthBlock(m, size)))
           = ReferenceTag([aad |-> m, text |-> size], y).blocks
<1> DEFINE x == ClosedX(m, size)
           a == Filled(m)
           h == Filled(size)
           L == {<<0, <<"aad length", m>>>>, <<1, <<"text length", size>>>>}
           A == BlocksOf("aad", m)
           T == BlocksOf("ciphertext", size)
           E == <<L, {}>>
           u == XorX(x, 0, LengthBlock(m, size))
<1>1. /\ h = (IF size % Block = 0 THEN size \div Block ELSE size \div Block + 1)
      /\ h \in Nat /\ size \div Block \in Nat /\ a \in Nat /\ h + 1 \in Nat
  BY FilledIs
<1>2. /\ x \in Seq(XBlock) /\ Len(x) = a + (h + 1)
      /\ \A b \in 1 .. a + (h + 1) : x[b] =
           IF b <= a THEN Part("aad", m, b) ELSE Part("ciphertext", size, b - a)
  BY <1>1, MessageType, ZenonT(60) DEF ClosedX
<1>3. Part("ciphertext", size, h + 1) = {}
  <2>1. PICK b \in Nat \ {0} : b = h + 1
    BY <1>1
  <2>2. /\ b > size \div Block + 1 => Part("ciphertext", size, b) = {}
        /\ size % Block = 0 /\ b = size \div Block + 1 => Part("ciphertext", size, b) = {}
    <3>1. 0 \in Nat
      OBVIOUS
    <3>2. PICK q \in Nat : q = size \div Block
      BY <1>1
    <3>3. /\ b > q + 1 => Part("ciphertext", size, b) = {}
          /\ size % Block = 0 /\ b = q + 1 => Part("ciphertext", size, b) = {}
      BY <3>1, <3>2, PartEnds, Zenon
    <3> QED
      BY <3>2, <3>3, Zenon
  <2> QED
    BY <1>1, <2>1, <2>2
<1>4. L \in XBlock /\ {} \in XBlock
  <2>1. "aad length" \in XKind /\ "text length" \in XKind
    BY DEF XKind
  <2>2. <<"aad length", m>> \in XKind \X Nat /\ <<"text length", size>> \in XKind \X Nat
    BY <2>1
  <2>3. <<0, <<"aad length", m>>>> \in Nat \X (XKind \X Nat)
        /\ <<1, <<"text length", size>>>> \in Nat \X (XKind \X Nat)
    BY <2>2
  <2> HIDE DEF XKind
  <2>4. \A e \in L : e \in Nat \X (XKind \X Nat)
    BY <2>3
  <2> HIDE DEF L
  <2> QED
    BY <2>4 DEF XBlock
<1>5. {<<0 + i - 1, LengthBlock(m, size)[i]>> : i \in DOMAIN LengthBlock(m, size)} = L
  <2>1. /\ DOMAIN LengthBlock(m, size) = {1, 2}
        /\ LengthBlock(m, size)[1] = <<"aad length", m>>
        /\ LengthBlock(m, size)[2] = <<"text length", size>>
    <3>1. \A v, w : DOMAIN <<v, w>> = {1, 2} /\ <<v, w>>[1] = v /\ <<v, w>>[2] = w
      OBVIOUS
    <3> QED
      BY <3>1 DEF LengthBlock
  <2>2. 0 + 1 - 1 = 0 /\ 0 + 2 - 1 = 1
    OBVIOUS
  <2> QED
    BY <2>1, <2>2
<1>6. /\ A = [b \in 1 .. a |-> Part("aad", m, b)]
      /\ T = [b \in 1 .. h |-> Part("ciphertext", size, b)]
  BY DEF BlocksOf, Part, Filled
<1>7. \A b \in Nat \ {0} : Part("aad", m, b) \in XBlock /\ Part("ciphertext", size, b) \in XBlock
  <2>1. "aad" \in XKind /\ "ciphertext" \in XKind
    BY DEF XKind
  <2> QED
    BY <2>1, PartType
<1>8. u = [x EXCEPT ![Len(x)] = @ \cup L]
  BY <1>5 DEF XorX
<1> HIDE DEF x, a, h, L, XBlock
<1>9. /\ A \in Seq(XBlock) /\ Len(A) = a /\ T \in Seq(XBlock) /\ Len(T) = h
      /\ (\A b \in 1 .. a : A[b] = Part("aad", m, b))
      /\ (\A b \in 1 .. h : T[b] = Part("ciphertext", size, b))
  <2> HIDE DEF A, T
  <2> QED
    BY <1>1, <1>6, <1>7, SMTT(30)
<1>10. E \in Seq(XBlock) /\ Len(E) = 2 /\ E[1] = L /\ E[2] = {}
  BY <1>4
<1> HIDE DEF A, T, E, u
<1>11. PICK k \in Nat : k = a + (h + 1)
  BY <1>1
<1>12. x[k] = {} /\ k > 0
  <2>1. k \in 1 .. a + (h + 1) /\ ~(k <= a) /\ k - a = h + 1
    BY <1>1, <1>11
  <2> QED
    BY <1>2, <1>3, <2>1
<1>13. x = [b \in 1 .. k |-> x[b]] /\ DOMAIN x = 1 .. k /\ Len(x) = k
  BY <1>2, <1>11
<1>14. u = [b \in 1 .. k |-> IF b = k THEN L ELSE x[b]]
  <2>1. u = [x EXCEPT ![k] = L]
    BY <1>8, <1>12, <1>13
  <2> QED
    BY <1>13, <2>1
<1>15. \A b \in 1 .. k : x[b] \in XBlock
  BY <1>2, <1>13
<1>16. u \in Seq(XBlock) /\ Len(u) = k
  BY <1>4, <1>14, <1>15
<1>17. MultH(u) = [b \in 1 .. k + 1 |-> IF b <= k THEN u[b] ELSE {}]
  BY <1>4, <1>16, AppendIs DEF MultH
<1>18. /\ A \o T \o E \in Seq(XBlock) /\ Len(A \o T \o E) = k + 1
       /\ \A b \in 1 .. k + 1 :
            (A \o T \o E)[b] = IF b <= a THEN A[b]
                               ELSE IF b <= a + h THEN T[b - a] ELSE E[b - (a + h)]
  <2>3. Len(A) = a /\ Len(T) = h /\ Len(E) = 2
    BY <1>9, <1>10
  <2>1. Len(A) + Len(T) + Len(E) = k + 1
    <3>1. a \in Nat /\ h \in Nat /\ a + h + 2 = k + 1
      BY <1>1, <1>11
    <3> QED
      BY <2>3, <3>1
  <2>4. A \in Seq(XBlock) /\ T \in Seq(XBlock) /\ E \in Seq(XBlock)
    BY <1>9, <1>10
  <2>2. /\ A \o T \o E \in Seq(XBlock) /\ Len(A \o T \o E) = Len(A) + Len(T) + Len(E)
        /\ \A b \in 1 .. Len(A \o T \o E) :
              (A \o T \o E)[b] = IF b <= Len(A) THEN A[b]
                                 ELSE IF b <= Len(A) + Len(T) THEN T[b - Len(A)]
                                 ELSE E[b - (Len(A) + Len(T))]
    BY <2>4, Joined
  <2> QED
    BY <2>1, <2>2, <2>3
<1> DEFINE R == A \o T \o E
<1> HIDE DEF R
<1>19. R = [b \in 1 .. k + 1 |-> R[b]]
  <2>1. R \in Seq(XBlock) /\ Len(R) = k + 1
    BY <1>18 DEF R
  <2> QED
    BY <2>1
<1>20. ASSUME NEW b \in 1 .. k + 1
       PROVE  R[b] = IF b <= k THEN u[b] ELSE {}
  <2>1. R[b] = IF b <= a THEN A[b] ELSE IF b <= a + h THEN T[b - a] ELSE E[b - (a + h)]
    BY <1>18 DEF R
  <2>2. CASE b <= a
    <3>1. b \in 1 .. a /\ b <= k /\ b # k /\ b \in 1 .. k
      BY <1>1, <1>11, <2>2
    <3>2. u[b] = x[b] /\ x[b] = Part("aad", m, b)
      BY <1>2, <1>11, <1>14, <2>2, <3>1
    <3> QED
      BY <1>9, <2>1, <2>2, <3>1, <3>2
  <2>3. CASE ~(b <= a) /\ b <= a + h
    <3>1. b - a \in 1 .. h /\ b <= k /\ b # k /\ b \in 1 .. k
      BY <1>1, <1>11, <2>3
    <3>2. u[b] = x[b] /\ x[b] = Part("ciphertext", size, b - a)
      BY <1>2, <1>11, <1>14, <2>3, <3>1
    <3> QED
      BY <1>9, <2>1, <2>3, <3>1, <3>2
  <2>4. CASE b = k
    <3>1. ~(b <= a) /\ ~(b <= a + h) /\ b - (a + h) = 1 /\ b <= k /\ b \in 1 .. k
      BY <1>1, <1>11, <2>4
    <3>2. u[b] = L
      BY <1>14, <2>4, <3>1
    <3> QED
      BY <1>10, <2>1, <3>1, <3>2
  <2>5. CASE b = k + 1
    <3>1. ~(b <= a) /\ ~(b <= a + h) /\ b - (a + h) = 2 /\ ~(b <= k)
      BY <1>1, <1>11, <2>5
    <3> QED
      BY <1>10, <2>1, <3>1
  <2> QED
    BY <1>1, <1>11, <2>2, <2>3, <2>4, <2>5
<1>21. MultH(u) = R
  BY <1>17, <1>19, <1>20
<1>22. ReferenceTag([aad |-> m, text |-> size], y).blocks = R
  BY DEF ReferenceTag, R, A, T, E, L
<1> QED
  BY <1>21, <1>22 DEF u, x

-----------------------------------------------------------------------------
(* The inductive invariant of GCM.                                         *)

GcmSound == ~LegacyAfterInitWithIv /\ MaxMessages <= InvocationValues

GcmTypes ==
  /\ state \in {"IV", "AAD", "TEXT", "FINAL"}
  /\ aad_nbytes \in Nat /\ text_nbytes \in Nat /\ text_nbytes <= TextMax
  /\ accepted = [aad |-> aad_nbytes, text |-> text_nbytes]
  /\ Y_0 \in AnyBlock /\ used \in Seq(AnyBlock \X Nat)
  /\ ivs \subseteq AnyIV /\ IsFiniteSet(ivs)

\* X holds the blocks of what the message has so far.
XRight ==
  /\ state = "IV" => aad_nbytes = 0 /\ text_nbytes = 0 /\ X = <<{}>>
  /\ state = "AAD" => text_nbytes = 0 /\ X = AadX(aad_nbytes)
  /\ state = "TEXT" => X = TextX(aad_nbytes, text_nbytes)
  /\ state = "FINAL" => tag = ReferenceTag(accepted, Y_0)

Open == state \in {"AAD", "TEXT"}

\* How many bytes of keystream other messages, and finished ones, used.
Old == IF Open THEN Len(used) - text_nbytes ELSE Len(used)

\* The counter is where the text is; the last bytes used are the text's.
TextRight ==
  Open => /\ Y = IncBy(Y_0, 1 + text_nbytes \div Block) /\ pad = Y
          /\ Y_0.iv \in ivs /\ Old \in Nat
          /\ \A i \in 1 .. text_nbytes : used[Old + i] = ByteOf(Y_0, i)
          /\ \A i \in 1 .. Old : used[i][1].iv # Y_0.iv

OldOnce ==
  /\ \A i \in 1 .. Len(used) : used[i][1].iv \in ivs
  /\ \A i, h \in 1 .. Old : used[i] = used[h] => i = h

\* How many increments ago, at least, the IV was v.
Since(v, iv) ==
  IF v.invocation <= iv.invocation THEN iv.invocation - v.invocation
  ELSE iv.invocation + InvocationValues - v.invocation

\* After ccgcm_init_with_iv the IVs are the ones incremented from the first.
IvsRight ==
  "INIT_WITH_IV" \in flags =>
     /\ Cardinality(ivs) <= MaxMessages /\ Y_0.iv \in ivs
     /\ \A v \in ivs : v.salt = Y_0.iv.salt /\ Since(v, Y_0.iv) < Cardinality(ivs)

GcmInv == GcmTypes /\ XRight /\ TextRight /\ OldOnce /\ IvsRight /\ flags \subseteq {"INIT_WITH_IV"}

LEMMA SizesNat ==
  Block \in Nat \ {0} /\ CounterValues \in Nat \ {0} /\ TextMax \in Nat /\ 0 \in Nat
<1>1. \A h, m \in Nat : h * m \in Nat
  OBVIOUS
<1>2. Block \in Nat \ {0} /\ CounterValues \in Nat \ {0} /\ CounterValues - 2 \in Nat
  BY SizesAssumption
<1>3. (CounterValues - 2) * Block \in Nat
  BY <1>1, <1>2
<1> QED
  BY <1>2, <1>3 DEF TextMax

\* No byte was used twice.
LEMMA UsedOnce ==
  ASSUME GcmTypes, TextRight, OldOnce
  PROVE  \A i, h \in 1 .. Len(used) : used[i] = used[h] => i = h
<1>1. Len(used) \in Nat /\ text_nbytes \in Nat
  BY DEF GcmTypes
<1>2. CASE ~Open
  BY <1>2 DEF OldOnce, Old
<1>3. CASE Open
  <2>1. PICK k \in Nat : k = Old
    BY <1>3 DEF TextRight
  <2>2. Len(used) = k + text_nbytes
    BY <1>1, <1>3, <2>1 DEF Old
  <2>3. /\ \A i \in 1 .. text_nbytes : used[k + i] = ByteOf(Y_0, i)
        /\ \A i \in 1 .. k : used[i][1].iv # Y_0.iv
        /\ \A i, h \in 1 .. k : used[i] = used[h] => i = h
    BY <1>3, <2>1 DEF TextRight, OldOnce
  <2>4. \A i \in 1 .. text_nbytes : i \in 1 .. TextMax
    BY SizesNat DEF GcmTypes
  <2>5. \A i, h \in 1 .. text_nbytes :
          ByteOf(Y_0, i)[1].iv = Y_0.iv /\ (ByteOf(Y_0, i) = ByteOf(Y_0, h) => i = h)
    BY <2>4, BytesDiffer DEF GcmTypes
  <2>6. \A i \in 1 .. Len(used) : i \notin 1 .. k =>
          \E b \in 1 .. text_nbytes : i = k + b
    <3> TAKE i \in 1 .. Len(used)
    <3> HAVE i \notin 1 .. k
    <3>1. i - k \in 1 .. text_nbytes /\ i = k + (i - k)
      BY <1>1, <2>2
    <3> QED
      BY <3>1
  <2>7. ASSUME NEW i \in 1 .. Len(used), NEW h \in 1 .. Len(used), used[i] = used[h]
        PROVE  i = h
    <3>1. CASE i \in 1 .. k /\ h \in 1 .. k
      BY <2>3, <2>7, <3>1
    <3>2. CASE i \in 1 .. k /\ h \notin 1 .. k
      <4>1. PICK b \in 1 .. text_nbytes : h = k + b
        BY <2>6, <3>2
      <4> QED
        BY <2>3, <2>5, <2>7, <3>2, <4>1
    <3>3. CASE i \notin 1 .. k /\ h \in 1 .. k
      <4>1. PICK b \in 1 .. text_nbytes : i = k + b
        BY <2>6, <3>3
      <4> QED
        BY <2>3, <2>5, <2>7, <3>3, <4>1
    <3>4. CASE i \notin 1 .. k /\ h \notin 1 .. k
      <4>1. PICK b \in 1 .. text_nbytes : i = k + b
        BY <2>6, <3>4
      <4>2. PICK d \in 1 .. text_nbytes : h = k + d
        BY <2>6, <3>4
      <4>3. ByteOf(Y_0, b) = ByteOf(Y_0, d)
        BY <2>3, <2>7, <4>1, <4>2
      <4> QED
        BY <2>5, <4>1, <4>2, <4>3
    <3> QED
      BY <3>1, <3>2, <3>3, <3>4
  <2> QED
    BY <2>7
<1> QED
  BY <1>2, <1>3

LEMMA GcmInitial == Init => GcmInv
<1> SUFFICES ASSUME Init PROVE GcmInv
  OBVIOUS
<1>1. state = "IV" /\ aad_nbytes = 0 /\ text_nbytes = 0 /\ X = <<{}>> /\ used = <<>> /\ ivs = {}
      /\ flags = {} /\ Y_0 = Zero /\ accepted = [aad |-> 0, text |-> 0]
  BY DEF Init
<1>2. Zero \in AnyBlock
  <2>1. 0 \in 0 .. InvocationValues - 1 /\ 0 \in 0 .. CounterValues - 1
    BY SizesAssumption
  <2>2. ZeroIV \in AnyIV
    BY <2>1 DEF AnyIV, ZeroIV
  <2> QED
    BY <2>1, <2>2 DEF Zero, AnyBlock
<1>3. GcmTypes
  <2>1. used \in Seq(AnyBlock \X Nat)
    BY <1>1
  <2>2. IsFiniteSet(ivs) /\ ivs \subseteq AnyIV
    BY <1>1, FS_EmptySet
  <2>3. aad_nbytes \in Nat /\ text_nbytes \in Nat /\ text_nbytes <= TextMax
    BY <1>1, SizesNat
  <2> QED
    BY <1>1, <1>2, <2>1, <2>2, <2>3 DEF GcmTypes
<1>4. XRight
  BY <1>1 DEF XRight
<1>5. ~Open /\ TextRight
  BY <1>1 DEF Open, TextRight
<1>6. OldOnce
  <2>1. Len(used) = 0 /\ Old = 0
    BY <1>1, <1>5 DEF Old
  <2> QED
    BY <2>1 DEF OldOnce
<1>7. IvsRight /\ flags \subseteq {"INIT_WITH_IV"}
  BY <1>1 DEF IvsRight
<1> QED
  BY <1>3, <1>4, <1>5, <1>6, <1>7 DEF GcmInv

\* Calls that are refused.
LEMMA GcmSame ==
  ASSUME GcmInv, UNCHANGED <<state, flags, counters, X, lengths, history>>
  PROVE  GcmInv'
<1>1. /\ state' = state /\ flags' = flags /\ Y' = Y /\ Y_0' = Y_0 /\ pad' = pad /\ X' = X
      /\ aad_nbytes' = aad_nbytes /\ text_nbytes' = text_nbytes /\ accepted' = accepted
      /\ used' = used /\ tag' = tag /\ ivs' = ivs
  BY DEF counters, lengths, history
<1>2. GcmTypes'
  BY <1>1 DEF GcmInv, GcmTypes
<1>3. XRight'
  BY <1>1 DEF GcmInv, XRight
<1>4. Open' = Open /\ Old' = Old
  BY <1>1 DEF Open, Old
<1>5. TextRight'
  BY <1>1, <1>4 DEF GcmInv, TextRight
<1>6. OldOnce'
  BY <1>1, <1>4 DEF GcmInv, OldOnce
<1>7. IvsRight' /\ flags' \subseteq {"INIT_WITH_IV"}
  BY <1>1 DEF GcmInv, IvsRight
<1> QED
  BY <1>2, <1>3, <1>5, <1>6, <1>7 DEF GcmInv

\* A message under an IV that is new.
LEMMA GcmStarts ==
  ASSUME GcmInv, state = "IV", NEW iv \in AnyIV, iv \notin ivs, NEW y \in AnyBlock, y.iv = iv,
         Start(iv, y), IvsRight', flags' \subseteq {"INIT_WITH_IV"}
  PROVE  GcmInv'
<1>1. /\ Y_0' = y /\ Y' = IncBy(y, 1) /\ pad' = Y' /\ state' = "AAD" /\ ivs' = ivs \cup {iv}
      /\ X' = X /\ aad_nbytes' = aad_nbytes /\ text_nbytes' = text_nbytes
      /\ accepted' = accepted /\ used' = used /\ tag' = tag
  BY DEF Start, Inc, lengths
<1>2. aad_nbytes = 0 /\ text_nbytes = 0 /\ X = <<{}>>
  BY DEF GcmInv, XRight
<1>3. GcmTypes'
  <2>1. IsFiniteSet(ivs') /\ ivs' \subseteq AnyIV
    BY <1>1, FS_AddElement DEF GcmInv, GcmTypes
  <2> QED
    BY <1>1, <2>1 DEF GcmInv, GcmTypes
<1>4. XRight'
  BY <1>1, <1>2, XEmpty DEF XRight
<1>5. Open' /\ ~Open /\ Len(used) \in Nat
  BY <1>1 DEF Open, GcmInv, GcmTypes
<1>6. Old = Len(used) /\ Old' = Len(used)
  BY <1>1, <1>2, <1>5 DEF Old
<1>7. \A i \in 1 .. Len(used) : used[i][1].iv \in ivs
  BY DEF GcmInv, OldOnce
<1>8. TextRight'
  <2>1. 1 + text_nbytes' \div Block = 1
    <3>1. 0 = 0 * Block + 0 /\ 0 \in 0 .. Block - 1 /\ 0 \in Int
      BY SizesNat
    <3>2. 0 = 0 \div Block
      BY <3>1, SizesNat, Quotient
    <3> QED
      BY <1>1, <1>2, <3>2
  <2>2. Y' = IncBy(Y_0', 1 + text_nbytes' \div Block)
    BY <1>1, <2>1
  <2>3. \A i \in 1 .. Old' : used'[i][1].iv # Y_0'.iv
    BY <1>1, <1>6, <1>7
  <2>4. Y_0'.iv \in ivs' /\ Old' \in Nat
    BY <1>1, <1>5, <1>6
  <2>5. \A i \in 1 .. text_nbytes' : used'[Old' + i] = ByteOf(Y_0', i)
    BY <1>1, <1>2
  <2> QED
    BY <1>1, <2>2, <2>3, <2>4, <2>5 DEF TextRight
<1>9. OldOnce'
  BY <1>1, <1>6, <1>7 DEF OldOnce, GcmInv
<1> QED
  BY <1>3, <1>4, <1>8, <1>9 DEF GcmInv

LEMMA GcmRefused ==
  ASSUME GcmInv, NEW answered, Refuse(answered)
  PROVE  GcmInv'
<1>1. UNCHANGED <<state, flags, counters, X, lengths, history>>
  BY DEF Refuse, counters, lengths, history
<1> QED
  BY <1>1, GcmSame

LEMMA GivenIVs == \A iv \in IVs \cup LongIVs \cup {ZeroIV} : iv \in AnyIV
<1>1. 0 \in 0 .. InvocationValues - 1
  BY SizesAssumption
<1>2. ZeroIV \in AnyIV
  BY <1>1 DEF ZeroIV, AnyIV
<1>3. \A iv \in IVs : iv \in AnyIV
  BY SizesAssumption DEF AnyIV
<1>4. \A iv \in LongIVs : iv \in AnyIV
  BY SizesAssumption DEF AnyIV
<1> QED
  BY <1>2, <1>3, <1>4

LEMMA GcmSetIvStep ==
  ASSUME GcmInv, NEW iv \in IVs \cup LongIVs \cup {EmptyIV}, SetIv(iv)
  PROVE  GcmInv'
<1>1. CASE state = "IV" /\ "INIT_WITH_IV" \notin flags /\ iv # EmptyIV
  <2>1. MayStart(iv) /\ UNCHANGED flags
    BY <1>1 DEF SetIv
  <2>2. PICK c \in 0 .. CounterValues - 1 : Start(iv, [iv |-> iv, counter |-> c])
    <3>1. 1 \in 0 .. CounterValues - 1
      BY SizesAssumption
    <3>2. \E c \in IF iv \in LongIVs THEN 0 .. CounterValues - 1 ELSE {1} :
             Start(iv, [iv |-> iv, counter |-> c])
      BY <1>1 DEF SetIv
    <3> QED
      BY <3>1, <3>2
  <2>3. iv \in AnyIV /\ iv \notin ivs
    BY <1>1, <2>1, GivenIVs DEF MayStart
  <2> DEFINE y == [iv |-> iv, counter |-> c]
  <2>4. y \in AnyBlock /\ y.iv = iv
    BY <2>3 DEF AnyBlock
  <2>5. IvsRight' /\ flags' \subseteq {"INIT_WITH_IV"}
    BY <1>1, <2>1 DEF IvsRight, GcmInv
  <2> HIDE DEF y
  <2>6. Start(iv, y)
    BY <2>2 DEF y
  <2> QED
    BY <1>1, <2>3, <2>4, <2>5, <2>6, GcmStarts
<1>2. CASE ~(state = "IV" /\ "INIT_WITH_IV" \notin flags /\ iv # EmptyIV)
  <2>1. Refuse(INVALID_CALL_SEQUENCE)
    BY <1>2 DEF SetIv
  <2> QED
    BY <2>1, GcmRefused
<1> QED
  BY <1>1, <1>2

LEMMA GcmInitWithIvStep ==
  ASSUME GcmInv, NEW iv \in IVs, InitWithIv(iv)
  PROVE  GcmInv'
<1>1. iv \in AnyIV /\ ivs = {} /\ state = "IV" /\ MayStart(iv) /\ flags' = {"INIT_WITH_IV"}
      /\ Start(iv, [iv |-> iv, counter |-> 1])
  BY GivenIVs DEF InitWithIv
<1> DEFINE y == [iv |-> iv, counter |-> 1]
<1>2. y \in AnyBlock /\ y.iv = iv
  <2>1. 1 \in 0 .. CounterValues - 1
    BY SizesAssumption
  <2> QED
    BY <1>1, <2>1 DEF AnyBlock
<1> HIDE DEF y
<1>3. Start(iv, y)
  BY <1>1 DEF y
<1>4. ivs' = {iv} /\ Y_0' = y
  BY <1>1, <1>3 DEF Start
<1>5. Cardinality(ivs') = 1 /\ Cardinality(ivs) = 0
  BY <1>1, <1>4, FS_Singleton, FS_EmptySet
<1>6. IvsRight'
  <2>1. MaxMessages >= 1
    BY <1>1, <1>5, SizesAssumption DEF MayStart
  <2>2. Since(iv, iv) = 0
    <3>1. iv.invocation \in Nat
      BY <1>1, SizesAssumption DEF AnyIV
    <3> QED
      BY <3>1 DEF Since
  <2> QED
    BY <1>2, <1>4, <1>5, <2>1, <2>2 DEF IvsRight
<1> QED
  BY <1>1, <1>2, <1>3, <1>6, GcmStarts DEF MayStart

LEMMA GcmSetIvLegacyStep ==
  ASSUME GcmInv, GcmSound, SetIvLegacy
  PROVE  GcmInv'
<1>1. "INIT_WITH_IV" \notin flags
  BY DEF SetIvLegacy, GcmSound
<1>2. CASE state = "IV"
  <2>1. MayStart(ZeroIV) /\ Start(ZeroIV, Zero) /\ UNCHANGED flags
    BY <1>2 DEF SetIvLegacy, GcmSound
  <2>2. ZeroIV \in AnyIV
    BY GivenIVs
  <2>3. Zero \in AnyBlock /\ Zero.iv = ZeroIV
    <3>1. 0 \in 0 .. CounterValues - 1
      BY SizesAssumption
    <3> QED
      BY <2>2, <3>1 DEF Zero, AnyBlock
  <2>4. IvsRight' /\ flags' \subseteq {"INIT_WITH_IV"}
    BY <1>1, <2>1 DEF IvsRight, GcmInv
  <2> QED
    BY <1>2, <2>1, <2>2, <2>3, <2>4, GcmStarts DEF MayStart
<1>3. CASE state # "IV"
  <2>1. Refuse("-1")
    BY <1>3 DEF SetIvLegacy
  <2> QED
    BY <2>1, GcmRefused
<1> QED
  BY <1>2, <1>3

\* An increment modulo the values there are.
LEMMA NextInvocation ==
  ASSUME NEW iv \in AnyIV
  PROVE  /\ Following(iv) \in AnyIV /\ Following(iv).salt = iv.salt
         /\ Following(iv).invocation =
              (IF iv.invocation + 1 = InvocationValues THEN 0 ELSE iv.invocation + 1)
<1>1. InvocationValues \in Nat \ {0}
  BY SizesAssumption
<1>2. PICK k \in 0 .. InvocationValues - 1 : k = iv.invocation
  BY DEF AnyIV
<1>3. (k + 1) % InvocationValues = (IF k + 1 = InvocationValues THEN 0 ELSE k + 1)
  <2>1. k + 1 \in Nat /\ 0 \in Int /\ 1 \in Int
    BY <1>1
  <2>2. CASE k + 1 = InvocationValues
    <3>1. k + 1 = 1 * InvocationValues + 0 /\ 0 \in 0 .. InvocationValues - 1
      BY <1>1, <2>2
    <3>2. 0 = (k + 1) % InvocationValues
      BY <1>1, <2>1, <3>1, Quotient
    <3> QED
      BY <2>2, <3>2
  <2>3. CASE k + 1 # InvocationValues
    <3>1. k + 1 \in 0 .. InvocationValues - 1
      BY <1>1, <2>3
    <3>2. k + 1 = 0 * InvocationValues + (k + 1)
      BY <1>1
    <3>3. k + 1 = (k + 1) % InvocationValues
      BY <1>1, <2>1, <3>1, <3>2, Quotient
    <3> QED
      BY <2>3, <3>3
  <2> QED
    BY <2>2, <2>3
<1>4. Following(iv) = [iv EXCEPT !.invocation = (k + 1) % InvocationValues]
  BY <1>2 DEF Following
<1>5. (k + 1) % InvocationValues \in 0 .. InvocationValues - 1
  BY <1>1, <1>3
<1> QED
  BY <1>2, <1>3, <1>4, <1>5 DEF AnyIV

LEMMA GcmIncIvStep ==
  ASSUME GcmInv, GcmSound, IncIv
  PROVE  GcmInv'
<1>1. CASE state = "IV" /\ "INIT_WITH_IV" \in flags
  <2> DEFINE iv == Following(Y_0.iv)
             y == [Y_0 EXCEPT !.iv = iv]
  <2>1. Cardinality(ivs) < MaxMessages /\ Start(iv, y) /\ UNCHANGED flags
    BY <1>1 DEF IncIv
  <2>2. Y_0 \in AnyBlock /\ Y_0.iv \in AnyIV /\ IsFiniteSet(ivs) /\ ivs \subseteq AnyIV
    BY DEF GcmInv, GcmTypes, AnyBlock
  <2>3. Y_0.iv \in ivs /\ \A v \in ivs : v.salt = Y_0.iv.salt /\ Since(v, Y_0.iv) < Cardinality(ivs)
    BY <1>1 DEF GcmInv, IvsRight
  <2>4. PICK N \in Nat, k \in 0 .. InvocationValues - 1 :
          N = Cardinality(ivs) /\ k = Y_0.iv.invocation
    BY <2>2, FS_CardinalityType DEF AnyIV
  <2>5. N < InvocationValues /\ InvocationValues \in Nat /\ MaxMessages \in Nat
    BY <2>1, <2>4, SizesAssumption DEF GcmSound
  <2>6. /\ iv \in AnyIV /\ iv.salt = Y_0.iv.salt
        /\ iv.invocation = (IF k + 1 = InvocationValues THEN 0 ELSE k + 1)
    BY <2>2, <2>4, NextInvocation
  <2>7. y \in AnyBlock /\ y.iv = iv
    BY <2>2, <2>6 DEF AnyBlock
  <2> HIDE DEF iv, y
  <2>8. iv \notin ivs
    <3> SUFFICES ASSUME iv \in ivs PROVE FALSE
      OBVIOUS
    <3>1. Since(iv, Y_0.iv) < N
      BY <2>3, <2>4
    <3>2. Since(iv, Y_0.iv) = InvocationValues - 1
      BY <2>4, <2>5, <2>6 DEF Since
    <3> QED
      BY <2>5, <3>1, <3>2
  <2>9. ivs' = ivs \cup {iv} /\ Y_0' = y
    BY <2>1 DEF Start
  <2>10. Cardinality(ivs') = N + 1
    BY <2>2, <2>4, <2>8, <2>9, FS_AddElement
  <2>11. ASSUME NEW v \in ivs
         PROVE  Since(v, iv) < N + 1
    <3>1. PICK u \in 0 .. InvocationValues - 1 : u = v.invocation
      BY <2>2 DEF AnyIV
    <3>2. u # iv.invocation
      <4> SUFFICES ASSUME u = iv.invocation PROVE FALSE
        OBVIOUS
      <4>1. v \in AnyIV /\ v.salt = iv.salt /\ v.invocation = iv.invocation
        BY <2>2, <2>3, <2>6, <3>1
      <4>2. v = iv
        BY <2>6, <4>1 DEF AnyIV
      <4> QED
        BY <2>8, <4>2
    <3>3. (IF u <= k THEN k - u ELSE k + InvocationValues - u) < N
      BY <2>3, <2>4, <3>1 DEF Since
    <3>4. Since(v, iv) = (IF u <= iv.invocation THEN iv.invocation - u
                         ELSE iv.invocation + InvocationValues - u)
      BY <3>1 DEF Since
    <3>5. CASE k + 1 = InvocationValues
      BY <2>4, <2>5, <2>6, <3>1, <3>2, <3>3, <3>4, <3>5
    <3>6. CASE k + 1 # InvocationValues
      BY <2>4, <2>5, <2>6, <3>1, <3>2, <3>3, <3>4, <3>6
    <3> QED
      BY <3>5, <3>6
  <2>12. Since(iv, iv) < N + 1
    <3>1. iv.invocation \in Nat
      BY <2>4, <2>5, <2>6
    <3> QED
      BY <3>1 DEF Since
  <2>13. IvsRight'
    <3>1. N + 1 <= MaxMessages
      BY <2>1, <2>4, <2>5
    <3>2. \A v \in ivs' : v.salt = iv.salt /\ Since(v, iv) < N + 1
      BY <2>3, <2>6, <2>9, <2>11, <2>12
    <3> QED
      BY <2>7, <2>9, <2>10, <3>1, <3>2 DEF IvsRight
  <2> QED
    BY <1>1, <2>1, <2>6, <2>7, <2>8, <2>13, GcmStarts DEF GcmInv
<1>2. CASE ~(state = "IV" /\ "INIT_WITH_IV" \in flags)
  <2>1. Refuse(INVALID_CALL_SEQUENCE)
    BY <1>2 DEF IncIv
  <2> QED
    BY <2>1, GcmRefused
<1> QED
  BY <1>1, <1>2

LEMMA GcmResetStep ==
  ASSUME GcmInv, Reset
  PROVE  GcmInv'
<1>1. /\ state' = "IV" /\ aad_nbytes' = 0 /\ text_nbytes' = 0 /\ X' = <<{}>> /\ flags' = flags
      /\ accepted' = [aad |-> 0, text |-> 0] /\ Y_0' = Y_0 /\ used' = used /\ ivs' = ivs
  BY DEF Reset
<1>2. GcmTypes'
  BY <1>1, SizesNat DEF GcmInv, GcmTypes
<1>3. XRight'
  BY <1>1 DEF XRight
<1>4. ~Open' /\ Old' = Len(used)
  BY <1>1 DEF Open, Old
<1>5. TextRight'
  BY <1>4 DEF TextRight
<1>6. OldOnce'
  BY <1>1, <1>4, UsedOnce DEF GcmInv, OldOnce
<1>7. IvsRight' /\ flags' \subseteq {"INIT_WITH_IV"}
  BY <1>1 DEF GcmInv, IvsRight
<1> QED
  BY <1>2, <1>3, <1>5, <1>6, <1>7 DEF GcmInv

LEMMA GcmAadStep ==
  ASSUME GcmInv, NEW size \in Nat, Aad(size)
  PROVE  GcmInv'
<1>1. CASE state = "AAD"
  <2>1. /\ X' = XorPieces(X, PiecesOf(aad_nbytes % Block, size), "aad", accepted.aad)
        /\ aad_nbytes' = aad_nbytes + size /\ accepted' = [accepted EXCEPT !.aad = @ + size]
        /\ state' = state /\ flags' = flags /\ Y' = Y /\ Y_0' = Y_0 /\ pad' = pad
        /\ text_nbytes' = text_nbytes /\ used' = used /\ tag' = tag /\ ivs' = ivs
    BY <1>1 DEF Aad, counters
  <2>2. /\ accepted = [aad |-> aad_nbytes, text |-> text_nbytes] /\ aad_nbytes \in Nat
        /\ text_nbytes = 0 /\ X = AadX(aad_nbytes)
    BY <1>1 DEF GcmInv, GcmTypes, XRight
  <2>3. accepted' = [aad |-> aad_nbytes', text |-> text_nbytes']
    BY <2>1, <2>2
  <2>4. GcmTypes'
    BY <2>1, <2>2, <2>3 DEF GcmInv, GcmTypes
  <2>5. X' = AadX(aad_nbytes + size)
    <3>1. accepted.aad = aad_nbytes
      BY <2>2
    <3> QED
      BY <2>1, <2>2, <3>1, XAad
  <2>6. XRight'
    BY <1>1, <2>1, <2>2, <2>5 DEF XRight
  <2>7. Open' = Open /\ Old' = Old
    BY <2>1 DEF Open, Old
  <2>8. TextRight'
    BY <2>1, <2>7 DEF GcmInv, TextRight
  <2>9. OldOnce'
    BY <2>1, <2>7 DEF GcmInv, OldOnce
  <2>10. IvsRight' /\ flags' \subseteq {"INIT_WITH_IV"}
    BY <2>1 DEF GcmInv, IvsRight
  <2> QED
    BY <2>4, <2>6, <2>8, <2>9, <2>10 DEF GcmInv
<1>2. CASE state # "AAD"
  <2>1. Refuse(INVALID_CALL_SEQUENCE)
    BY <1>2 DEF Aad
  <2> QED
    BY <2>1, GcmRefused
<1> QED
  BY <1>1, <1>2

\* What X is when the text begins or goes on.
LEMMA XOpen ==
  ASSUME GcmInv, Open
  PROVE  AadFinalized(state, X) = TextX(aad_nbytes, text_nbytes)
<1>1. aad_nbytes \in Nat
  BY DEF GcmInv, GcmTypes
<1>2. CASE state = "TEXT"
  BY <1>2 DEF GcmInv, XRight, AadFinalized
<1>3. CASE state = "AAD"
  <2>1. text_nbytes = 0 /\ X = AadX(aad_nbytes)
    BY <1>3 DEF GcmInv, XRight
  <2>2. AadFinalized(state, X) = (IF aad_nbytes % Block > 0 THEN MultH(X) ELSE X)
    BY <1>3 DEF AadFinalized
  <2> QED
    BY <1>1, <2>1, <2>2, XFinalizedAad
<1> QED
  BY <1>2, <1>3 DEF Open

LEMMA GcmUpdateStep ==
  ASSUME GcmInv, NEW size \in Nat, Update(size)
  PROVE  GcmInv'
<1>1. CASE ~Open
  <2>1. Opened # "TEXT"
    BY <1>1 DEF Opened, Open
  <2>2. Refuse(INVALID_CALL_SEQUENCE)
    BY <2>1 DEF Update
  <2> QED
    BY <2>2, GcmRefused
<1>2. CASE Open
  <2>1. Opened = "TEXT"
    BY <1>2 DEF Opened, Open
  <2>2. /\ state' = "TEXT" /\ flags' = flags /\ Y_0' = Y_0 /\ aad_nbytes' = aad_nbytes
        /\ tag' = tag /\ ivs' = ivs
    BY <2>1 DEF Update
  <2>3. AadFinalized(state, X) = TextX(aad_nbytes, text_nbytes)
    BY <1>2, XOpen
  <2>4. Open'
    BY <2>2 DEF Open
  <2>5. IvsRight' /\ flags' \subseteq {"INIT_WITH_IV"}
    BY <2>2 DEF GcmInv, IvsRight
  <2>6. CASE ~Fits(size)
    <3>1. /\ X' = TextX(aad_nbytes, text_nbytes) /\ Y' = Y /\ pad' = pad
          /\ text_nbytes' = text_nbytes /\ accepted' = accepted /\ used' = used
      BY <2>1, <2>3, <2>6 DEF Update
    <3>2. GcmTypes'
      BY <2>2, <3>1 DEF GcmInv, GcmTypes
    <3>3. XRight'
      BY <2>2, <3>1 DEF XRight
    <3>4. Old' = Old
      BY <1>2, <2>4, <3>1 DEF Old
    <3>5. TextRight'
      BY <1>2, <2>2, <3>1, <3>4 DEF GcmInv, TextRight
    <3>6. OldOnce'
      BY <2>2, <3>1, <3>4 DEF GcmInv, OldOnce
    <3> QED
      BY <2>5, <3>2, <3>3, <3>5, <3>6 DEF GcmInv
  <2>7. CASE Fits(size)
    <3> DEFINE s == PiecesOf(text_nbytes % Block, size)
    <3>1. /\ X' = XorPieces(AadFinalized(state, X), s, "ciphertext", accepted.text)
          /\ Y' = IncBy(Y, Ended(s)) /\ pad' = (IF Ended(s) = 0 THEN pad ELSE Y')
          /\ used' = used \o Met(s, size) /\ text_nbytes' = text_nbytes + size
          /\ accepted' = [accepted EXCEPT !.text = @ + size]
      BY <2>1, <2>7 DEF Update
    <3>2. /\ accepted = [aad |-> aad_nbytes, text |-> text_nbytes]
          /\ aad_nbytes \in Nat /\ text_nbytes \in Nat
          /\ Y_0 \in AnyBlock /\ used \in Seq(AnyBlock \X Nat)
      BY DEF GcmInv, GcmTypes
    <3>3. /\ Y = IncBy(Y_0, 1 + text_nbytes \div Block) /\ pad = Y /\ Y_0.iv \in ivs /\ Old \in Nat
          /\ (\A i \in 1 .. text_nbytes : used[Old + i] = ByteOf(Y_0, i))
          /\ (\A i \in 1 .. Old : used[i][1].iv # Y_0.iv)
      BY <1>2 DEF GcmInv, TextRight
    <3>4. /\ Met(s, size) = [i \in 1 .. size |-> ByteOf(Y_0, text_nbytes + i)]
          /\ IncBy(Y, Ended(s)) = IncBy(Y_0, 1 + (text_nbytes + size) \div Block)
          /\ Ended(s) \in Nat
      BY <3>2, <3>3, MetBytes
    <3>5. text_nbytes + size \in Nat /\ text_nbytes + size <= TextMax
      BY <2>7, <3>2 DEF Fits
    <3>6. X' = TextX(aad_nbytes, text_nbytes + size)
      <4>1. accepted.text = text_nbytes
        BY <3>2
      <4> QED
        BY <2>3, <3>1, <3>2, <4>1, XText
    <3>7. Y' = IncBy(Y_0, 1 + (text_nbytes + size) \div Block)
      BY <3>1, <3>4
    <3>8. pad' = Y'
      <4>1. CASE Ended(s) = 0
        <5>1. IncBy(Y, 0) = Y
          <6>1. 1 + text_nbytes \div Block \in Nat /\ 0 \in Nat
            <7>1. text_nbytes \div Block \in Nat
              BY <3>2, FilledIs
            <7> QED
              BY <7>1
          <6>2. IncBy(IncBy(Y_0, 1 + text_nbytes \div Block), 0)
                  = IncBy(Y_0, 1 + text_nbytes \div Block + 0)
            BY <3>2, <6>1, IncTwice
          <6>3. 1 + text_nbytes \div Block + 0 = 1 + text_nbytes \div Block
            BY <6>1
          <6> QED
            BY <3>3, <6>2, <6>3
        <5> QED
          BY <3>1, <3>3, <4>1, <5>1
      <4>2. CASE Ended(s) # 0
        BY <3>1, <4>2
      <4> QED
        BY <4>1, <4>2
    <3> HIDE DEF s
    <3> DEFINE more == [i \in 1 .. size |-> ByteOf(Y_0, text_nbytes + i)]
    <3>9. /\ more \in Seq(AnyBlock \X Nat) /\ Len(more) = size
          /\ \A i \in 1 .. size : more[i] = ByteOf(Y_0, text_nbytes + i)
      <4>1. \A i \in 1 .. size : text_nbytes + i \in 1 .. TextMax
        BY <3>2, <3>5, SizesNat
      <4>2. \A i \in 1 .. size : ByteOf(Y_0, text_nbytes + i) \in AnyBlock \X Nat
        BY <3>2, <4>1, BytesDiffer
      <4> QED
        BY <4>2
    <3>10. used' = used \o more
      BY <3>1, <3>4
    <3> HIDE DEF more
    <3>11. /\ used' \in Seq(AnyBlock \X Nat) /\ Len(used') = Len(used) + size
           /\ \A i \in 1 .. Len(used) + size :
                used'[i] = IF i <= Len(used) THEN used[i] ELSE more[i - Len(used)]
      BY <3>2, <3>9, <3>10, Joined2
    <3>12. PICK k \in Nat : k = Old /\ Len(used) = k + text_nbytes
      <4>1. Old = Len(used) - text_nbytes /\ Old \in Nat
        BY <1>2, <3>3 DEF Old
      <4>2. Len(used) \in Nat /\ text_nbytes \in Nat
        BY <3>2
      <4>3. Len(used) = Old + text_nbytes
        BY <4>1, <4>2
      <4> QED
        BY <4>1, <4>3
    <3>13. Old' = k
      <4>1. Old' = Len(used') - text_nbytes'
        BY <2>4 DEF Old
      <4>2. text_nbytes' = text_nbytes + size /\ Len(used) \in Nat /\ text_nbytes \in Nat
        BY <3>1, <3>2
      <4>3. Len(used') = Len(used) + size
        BY <3>11
      <4> QED
        BY <3>12, <4>1, <4>2, <4>3
    <3>14. \A i \in 1 .. k : used'[i] = used[i]
      BY <3>2, <3>11, <3>12
    <3>15. ASSUME NEW i \in 1 .. text_nbytes + size
           PROVE  used'[k + i] = ByteOf(Y_0, i)
      <4>1. PICK b \in 1 .. Len(used) + size : b = k + i
        BY <3>2, <3>12
      <4>2. CASE i <= text_nbytes
        <5>1. i \in 1 .. text_nbytes /\ b <= Len(used)
          BY <3>2, <3>12, <4>1, <4>2
        <5> QED
          BY <3>3, <3>11, <3>12, <4>1, <5>1
      <4>3. CASE i > text_nbytes
        <5>1. PICK h \in 1 .. size : i = text_nbytes + h
          <6>1. i - text_nbytes \in 1 .. size /\ i = text_nbytes + (i - text_nbytes)
            BY <3>2, <4>3
          <6> QED
            BY <6>1
        <5>2. ~(b <= Len(used)) /\ b - Len(used) = h
          BY <3>2, <3>12, <4>1, <5>1
        <5> QED
          BY <3>9, <3>11, <4>1, <5>1, <5>2
      <4> QED
        BY <3>2, <4>2, <4>3
    <3>16. GcmTypes'
      <4>1. accepted' = [aad |-> aad_nbytes', text |-> text_nbytes']
        BY <2>2, <3>1, <3>2
      <4>2. text_nbytes' \in Nat /\ text_nbytes' <= TextMax
        BY <3>1, <3>5
      <4> QED
        BY <2>2, <3>2, <3>11, <4>1, <4>2 DEF GcmInv, GcmTypes
    <3>17. XRight'
      BY <2>2, <3>1, <3>6 DEF XRight
    <3>18. TextRight'
      <4>1. Y' = IncBy(Y_0', 1 + text_nbytes' \div Block)
        BY <2>2, <3>1, <3>7
      <4>2. \A i \in 1 .. text_nbytes' : used'[Old' + i] = ByteOf(Y_0', i)
        BY <2>2, <3>1, <3>13, <3>15
      <4>3. \A i \in 1 .. Old' : used'[i][1].iv # Y_0'.iv
        BY <2>2, <3>3, <3>12, <3>13, <3>14
      <4> QED
        BY <2>2, <3>3, <3>8, <3>13, <4>1, <4>2, <4>3 DEF TextRight
    <3>19. OldOnce'
      <4>1. \A i, h \in 1 .. Old' : used'[i] = used'[h] => i = h
        BY <3>12, <3>13, <3>14 DEF GcmInv, OldOnce
      <4>2. ASSUME NEW i \in 1 .. Len(used')
            PROVE  used'[i][1].iv \in ivs'
        <5>1. CASE i \in 1 .. k
          <6>1. i \in 1 .. Len(used)
            BY <3>2, <3>12, <5>1
          <6> QED
            BY <2>2, <3>14, <5>1, <6>1 DEF GcmInv, OldOnce
        <5>2. CASE i \notin 1 .. k
          <6>1. PICK h \in 1 .. text_nbytes + size : i = k + h
            <7>1. i - k \in 1 .. text_nbytes + size /\ i = k + (i - k)
              BY <3>2, <3>11, <3>12, <5>2
            <7> QED
              BY <7>1
          <6>2. h \in 1 .. TextMax
            BY <3>2, <3>5, <6>1, SizesNat
          <6>3. ByteOf(Y_0, h)[1].iv = Y_0.iv
            BY <3>2, <6>2, BytesDiffer
          <6> QED
            BY <2>2, <3>3, <3>15, <6>1, <6>3
        <5> QED
          BY <5>1, <5>2
      <4> QED
        BY <4>1, <4>2 DEF OldOnce
    <3> QED
      BY <2>5, <3>16, <3>17, <3>18, <3>19 DEF GcmInv
  <2> QED
    BY <2>6, <2>7
<1> QED
  BY <1>1, <1>2

LEMMA GcmFinalizeStep ==
  ASSUME GcmInv, NEW matches, Finalize(matches)
  PROVE  GcmInv'
<1>1. CASE ~Open
  <2>1. Opened # "TEXT"
    BY <1>1 DEF Opened, Open
  <2>2. Refuse(INVALID_CALL_SEQUENCE)
    BY <2>1 DEF Finalize
  <2> QED
    BY <2>2, GcmRefused
<1>2. CASE Open
  <2>1. Opened = "TEXT"
    BY <1>2 DEF Opened, Open
  <2> DEFINE more == [i \in 1 .. Block |-> <<Y_0, i - 1>>]
  <2>2. /\ state' = "FINAL" /\ flags' = flags /\ Y_0' = Y_0 /\ aad_nbytes' = aad_nbytes
        /\ text_nbytes' = text_nbytes /\ accepted' = accepted /\ ivs' = ivs
        /\ tag' = [blocks |-> TagBlocks, pad |-> Y_0] /\ used' = used \o more
    BY <2>1 DEF Finalize, lengths
  <2>3. /\ accepted = [aad |-> aad_nbytes, text |-> text_nbytes]
        /\ aad_nbytes \in Nat /\ text_nbytes \in Nat
        /\ Y_0 \in AnyBlock /\ used \in Seq(AnyBlock \X Nat)
    BY DEF GcmInv, GcmTypes
  <2>4. TagBlocks = ReferenceTag(accepted, Y_0).blocks
    <3>1. AadFinalized(state, X) = TextX(aad_nbytes, text_nbytes)
      BY <1>2, XOpen
    <3>2. TagBlocks = MultH(XorX(IF text_nbytes % Block > 0 THEN MultH(AadFinalized(state, X))
                                 ELSE AadFinalized(state, X), 0,
                                 LengthBlock(aad_nbytes, text_nbytes)))
      BY DEF TagBlocks
    <3>3. (IF text_nbytes % Block > 0 THEN MultH(TextX(aad_nbytes, text_nbytes))
           ELSE TextX(aad_nbytes, text_nbytes)) = ClosedX(aad_nbytes, text_nbytes)
      BY <2>3, XClosed
    <3>4. TagBlocks = MultH(XorX(ClosedX(aad_nbytes, text_nbytes), 0,
                                LengthBlock(aad_nbytes, text_nbytes)))
      BY <3>1, <3>2, <3>3, Zenon
    <3> QED
      BY <2>3, <3>4, XTag
  <2>5. tag' = ReferenceTag(accepted', Y_0')
    BY <2>2, <2>4 DEF ReferenceTag
  <2>6. Block \in Nat
    BY SizesNat
  <2>7. /\ more \in Seq(AnyBlock \X Nat) /\ Len(more) = Block
        /\ \A i \in 1 .. Block : more[i] = <<Y_0, i - 1>>
    <3>1. \A i \in 1 .. Block : <<Y_0, i - 1>> \in AnyBlock \X Nat
      BY <2>3, <2>6
    <3> QED
      BY <2>6, <3>1
  <2> HIDE DEF more
  <2>8. /\ used' \in Seq(AnyBlock \X Nat) /\ Len(used') = Len(used) + Block
        /\ \A i \in 1 .. Len(used) + Block :
             used'[i] = IF i <= Len(used) THEN used[i] ELSE more[i - Len(used)]
    BY <2>2, <2>3, <2>7, Joined2
  <2>9. PICK k \in Nat : k = Len(used)
    BY <2>3
  <2>10. /\ Len(used') = k + Block /\ (\A i \in 1 .. k : used'[i] = used[i])
         /\ \A i \in 1 .. Block : used'[k + i] = <<Y_0, i - 1>>
    <3>1. \A i \in 1 .. k : i \in 1 .. k + Block /\ i <= k
      BY <2>6
    <3>2. ASSUME NEW i \in 1 .. Block
          PROVE  used'[k + i] = <<Y_0, i - 1>>
      <4>1. PICK b \in 1 .. k + Block : b = k + i
        BY <2>6
      <4>2. ~(b <= k) /\ b - k = i
        BY <2>6, <4>1
      <4> QED
        BY <2>7, <2>8, <2>9, <4>1, <4>2
    <3> QED
      BY <2>8, <2>9, <3>1, <3>2
  <2>11. Y_0.iv \in ivs /\ \A i \in 1 .. k : used[i][1] # Y_0
    <3>1. PICK m \in Nat : m = Old
      BY <1>2 DEF GcmInv, TextRight
    <3>2. k = m + text_nbytes
      <4>1. m = k - text_nbytes
        BY <1>2, <2>9, <3>1 DEF Old
      <4> QED
        BY <2>3, <4>1
    <3>3. /\ Y_0.iv \in ivs /\ (\A i \in 1 .. m : used[i][1].iv # Y_0.iv)
          /\ \A i \in 1 .. text_nbytes : used[m + i] = ByteOf(Y_0, i)
      BY <1>2, <3>1 DEF GcmInv, TextRight
    <3>4. ASSUME NEW i \in 1 .. k
          PROVE  used[i][1] # Y_0
      <4>1. CASE i <= m
        <5>1. i \in 1 .. m
          BY <4>1
        <5> QED
          BY <3>3, <5>1
      <4>2. CASE i > m
        <5>1. PICK h \in 1 .. text_nbytes : i = m + h
          <6>1. i - m \in 1 .. text_nbytes /\ i = m + (i - m)
            BY <2>3, <3>2, <4>2
          <6> QED
            BY <6>1
        <5>2. h \in 1 .. TextMax
          BY SizesNat DEF GcmInv, GcmTypes
        <5>3. ByteOf(Y_0, h)[1] # Y_0
          BY <2>3, <5>2, BytesDiffer
        <5> QED
          BY <3>3, <5>1, <5>3
      <4> QED
        BY <4>1, <4>2
    <3> QED
      BY <3>3, <3>4
  <2>12. GcmTypes'
    BY <2>2, <2>8 DEF GcmInv, GcmTypes
  <2>13. XRight'
    BY <2>2, <2>5 DEF XRight
  <2>14. ~Open' /\ Old' = k + Block
    BY <2>2, <2>10 DEF Open, Old
  <2>15. TextRight'
    BY <2>14 DEF TextRight
  <2>16. OldOnce'
    <3>1. \A i \in 1 .. k + Block : i \notin 1 .. k => \E h \in 1 .. Block : i = k + h
      <4> TAKE i \in 1 .. k + Block
      <4> HAVE i \notin 1 .. k
      <4>1. i - k \in 1 .. Block /\ i = k + (i - k)
        BY <2>6
      <4> QED
        BY <4>1
    <3>2. \A i, h \in 1 .. k : used[i] = used[h] => i = h
      BY <2>9, UsedOnce DEF GcmInv
    <3>3. \A i \in 1 .. k : used[i][1].iv \in ivs
      BY <2>9 DEF GcmInv, OldOnce
    <3>4. ASSUME NEW i \in 1 .. k + Block
          PROVE  used'[i][1].iv \in ivs
      <4>1. CASE i \in 1 .. k
        BY <2>10, <3>3, <4>1
      <4>2. CASE i \notin 1 .. k
        <5>1. PICK h \in 1 .. Block : i = k + h
          BY <3>1, <4>2
        <5> QED
          BY <2>10, <2>11, <5>1
      <4> QED
        BY <4>1, <4>2
    <3>5. ASSUME NEW i \in 1 .. k + Block, NEW h \in 1 .. k + Block, used'[i] = used'[h]
          PROVE  i = h
      <4>1. CASE i \in 1 .. k /\ h \in 1 .. k
        BY <2>10, <3>2, <3>5, <4>1
      <4>2. CASE i \in 1 .. k /\ h \notin 1 .. k
        <5>1. PICK b \in 1 .. Block : h = k + b
          BY <3>1, <4>2
        <5>2. used[i] = <<Y_0, b - 1>>
          BY <2>10, <3>5, <4>2, <5>1
        <5> QED
          BY <2>11, <4>2, <5>2
      <4>3. CASE i \notin 1 .. k /\ h \in 1 .. k
        <5>1. PICK b \in 1 .. Block : i = k + b
          BY <3>1, <4>3
        <5>2. used[h] = <<Y_0, b - 1>>
          BY <2>10, <3>5, <4>3, <5>1
        <5> QED
          BY <2>11, <4>3, <5>2
      <4>4. CASE i \notin 1 .. k /\ h \notin 1 .. k
        <5>1. PICK b \in 1 .. Block : i = k + b
          BY <3>1, <4>4
        <5>2. PICK d \in 1 .. Block : h = k + d
          BY <3>1, <4>4
        <5>3. <<Y_0, b - 1>> = <<Y_0, d - 1>>
          BY <2>10, <3>5, <5>1, <5>2
        <5>4. b = d
          BY <5>3
        <5> QED
          BY <5>1, <5>2, <5>4
      <4> QED
        BY <4>1, <4>2, <4>3, <4>4
    <3> QED
      BY <2>2, <2>10, <2>14, <3>4, <3>5 DEF OldOnce
  <2>17. IvsRight' /\ flags' \subseteq {"INIT_WITH_IV"}
    BY <2>2 DEF GcmInv, IvsRight
  <2> QED
    BY <2>12, <2>13, <2>15, <2>16, <2>17 DEF GcmInv
<1> QED
  BY <1>1, <1>2

LEMMA GcmStep ==
  ASSUME GcmInv, GcmSound, [Next]_vars
  PROVE  GcmInv'
<1>1. CASE UNCHANGED vars
  <2>1. UNCHANGED <<state, flags, counters, X, lengths, history>>
    BY <1>1 DEF vars
  <2> QED
    BY <2>1, GcmSame
<1>2. CASE \E iv \in IVs \cup LongIVs \cup {EmptyIV} : SetIv(iv)
  BY <1>2, GcmSetIvStep
<1>3. CASE \E iv \in IVs : InitWithIv(iv)
  BY <1>3, GcmInitWithIvStep
<1>4. CASE SetIvLegacy
  BY <1>4, GcmSetIvLegacyStep
<1>5. CASE IncIv
  BY <1>5, GcmIncIvStep
<1>6. CASE Reset
  BY <1>6, GcmResetStep
<1>7. ASSUME NEW size \in Chunks, Aad(size) \/ Update(size)
      PROVE  GcmInv'
  <2>1. size \in Nat
    BY SizesAssumption
  <2> QED
    BY <1>7, <2>1, GcmAadStep, GcmUpdateStep
<1>8. CASE \E matches \in BOOLEAN : Finalize(matches)
  BY <1>8, GcmFinalizeStep
<1> QED
  BY <1>1, <1>2, <1>3, <1>4, <1>5, <1>6, <1>7, <1>8 DEF Next

\* What the invariant says of the keystream and of the tag.
LEMMA GcmPromises ==
  ASSUME GcmInv
  PROVE  KeystreamOnce /\ KeystreamIsReference /\ TagIsReference
<1>1. /\ used \in Seq(AnyBlock \X Nat) /\ Len(used) \in Nat /\ text_nbytes \in Nat
      /\ accepted = [aad |-> aad_nbytes, text |-> text_nbytes] /\ Y_0 \in AnyBlock
  BY DEF GcmInv, GcmTypes
<1>2. KeystreamOnce
  <2>1. used \in [1 .. Len(used) -> Range(used)]
    BY <1>1 DEF Range
  <2>2. \A i, h \in 1 .. Len(used) : used[i] = used[h] => i = h
    BY UsedOnce DEF GcmInv
  <2>3. \A t \in Range(used) : \E i \in 1 .. Len(used) : used[i] = t
    BY <1>1 DEF Range
  <2>4. used \in Injection(1 .. Len(used), Range(used))
    <3>1. DOMAIN used = 1 .. Len(used)
      BY <1>1
    <3> QED
      BY <3>1, <2>1, <2>2 DEF Injection, IsInjective
  <2>5. used \in Surjection(1 .. Len(used), Range(used))
    BY <2>1, <2>3 DEF Surjection
  <2>6. IsFiniteSet(1 .. Len(used)) /\ Cardinality(1 .. Len(used)) = Len(used)
    <3>1. /\ 1 \in Int /\ Len(used) \in Int
          /\ (IF 1 > Len(used) THEN 0 ELSE Len(used) - 1 + 1) = Len(used)
      BY <1>1
    <3> QED
      BY <3>1, FS_Interval
  <2>7. Cardinality(Range(used)) = Cardinality(1 .. Len(used))
    BY <2>4, <2>5, <2>6, FS_Surjection
  <2> QED
    BY <2>6, <2>7 DEF KeystreamOnce
<1>3. KeystreamIsReference
  <2> SUFFICES ASSUME state = "TEXT"
               PROVE  SubSeq(used, Len(used) - accepted.text + 1, Len(used))
                        = ReferenceKeystream(accepted, Y_0)
    BY DEF KeystreamIsReference
  <2>1. Open
    BY DEF Open
  <2>2. PICK k \in Nat : k = Old
    BY <2>1 DEF GcmInv, TextRight
  <2>3. accepted.text = text_nbytes /\ Len(used) = k + text_nbytes
    <3>1. k = Len(used) - text_nbytes
      BY <2>1, <2>2 DEF Old
    <3> QED
      BY <1>1, <3>1
  <2>4. \A i \in 1 .. text_nbytes : used[k + i] = ByteOf(Y_0, i)
    BY <2>1, <2>2 DEF GcmInv, TextRight
  <2>5. SubSeq(used, k + 1, k + text_nbytes) = [i \in 1 .. text_nbytes |-> used[k + i]]
    <3>1. /\ Len(SubSeq(used, k + 1, k + text_nbytes)) = text_nbytes
          /\ SubSeq(used, k + 1, k + text_nbytes) \in Seq(AnyBlock \X Nat)
          /\ \A i \in 1 .. text_nbytes : SubSeq(used, k + 1, k + text_nbytes)[i] = used[k + i]
      <4>1. /\ k + 1 \in Int /\ k + text_nbytes \in Int
            /\ \A i \in k + 1 .. k + text_nbytes : used[i] \in AnyBlock \X Nat
        BY <1>1, <2>3
      <4>2. /\ SubSeq(used, k + 1, k + text_nbytes) \in Seq(AnyBlock \X Nat)
            /\ Len(SubSeq(used, k + 1, k + text_nbytes))
                 = IF k + 1 <= k + text_nbytes THEN (k + text_nbytes) - (k + 1) + 1 ELSE 0
            /\ \A i \in 1 .. (k + text_nbytes) - (k + 1) + 1 :
                 SubSeq(used, k + 1, k + text_nbytes)[i] = used[(k + 1) + i - 1]
        BY <4>1, SubSeqProperties
      <4>3. /\ (k + text_nbytes) - (k + 1) + 1 = text_nbytes
            /\ (k + 1 <= k + text_nbytes => (k + text_nbytes) - (k + 1) + 1 = text_nbytes)
            /\ (~(k + 1 <= k + text_nbytes) => text_nbytes = 0)
            /\ \A i \in 1 .. text_nbytes : (k + 1) + i - 1 = k + i
        BY <1>1
      <4> QED
        BY <4>2, <4>3
    <3> QED
      BY <1>1, <3>1
  <2>6. ReferenceKeystream(accepted, Y_0) = [i \in 1 .. text_nbytes |-> ByteOf(Y_0, i)]
    <3>1. ASSUME NEW i \in 1 .. text_nbytes
          PROVE  <<[Y_0 EXCEPT !.counter = (@ + (i - 1) \div Block + 1) % CounterValues],
                   (i - 1) % Block>> = ByteOf(Y_0, i)
      <4>1. PICK q \in Nat : q = (i - 1) \div Block
        <5>1. i - 1 \in Nat
          OBVIOUS
        <5> QED
          BY <5>1, FilledIs
      <4>2. Y_0.counter + q + 1 = Y_0.counter + (1 + q)
        BY <1>1, SizesNat DEF AnyBlock
      <4>3. [Y_0 EXCEPT !.counter = (@ + q + 1) % CounterValues] = IncBy(Y_0, 1 + q)
        BY <4>2 DEF IncBy
      <4> QED
        BY <4>1, <4>3 DEF ByteOf
    <3> QED
      BY <2>3, <3>1 DEF ReferenceKeystream
  <2>7. Len(used) - accepted.text + 1 = k + 1
    BY <1>1, <2>3
  <2> QED
    BY <2>3, <2>4, <2>5, <2>6, <2>7
<1>4. TagIsReference
  BY DEF GcmInv, XRight, TagIsReference
<1> QED
  BY <1>2, <1>3, <1>4

-----------------------------------------------------------------------------
(* The theorems.                                                           *)

\* The invariant holds of a context of GCM (ccmode_gcm_*.c), for blocks, counters, IVs, pieces
\* and messages of any number: the state of every context its callers can bring it to, in any
\* order of calls, in either direction, refused ones included, is the one the reference
\* defines of the bytes it accepted.
THEOREM GcmInvariance == ASSUME GcmSound PROVE Spec => []GcmInv
<1>1. Init => GcmInv
  BY GcmInitial
<1>2. GcmInv /\ [Next]_vars => GcmInv'
  BY GcmStep
<1> QED
  BY <1>1, <1>2, PTL DEF Spec

\* No byte of GCM's keystream is used twice under a key (ccmode_gcm_set_iv.c,
\* ccmode_gcm_init_with_iv.c, inc_uint in ccmode_gcm_encrypt.c), neither inside a message nor
\* in two of them; and the keystream and the tag are those of the whole message, however it
\* was cut into calls (ccmode_gcm_aad.c, ccmode_gcm_encrypt.c, ccmode_gcm_decrypt.c,
\* ccmode_gcm_finalize.c).
THEOREM GcmRight ==
  ASSUME GcmSound
  PROVE  Spec => [](KeystreamOnce /\ KeystreamIsReference /\ TagIsReference)
<1>1. GcmInv => KeystreamOnce /\ KeystreamIsReference /\ TagIsReference
  BY GcmPromises
<1> QED
  BY <1>1, GcmInvariance, PTL
=============================================================================
