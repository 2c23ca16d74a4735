----------------------------- MODULE RabinMiller -----------------------------
(***************************************************************************)
(* The primality test (ccprime_rabin_miller.c): trial division, then       *)
(* rounds with a random base each, whose generator may fail when the base  *)
(* is drawn and when the exponentiation is blinded.  Numbers modulo p are  *)
(* taken out of Montgomery form.                                           *)
(***************************************************************************)
EXTENDS Integers

CONSTANTS
    Candidates,
    SmallPrimes,    \* ccn_prime_table
    MaxPowerOfTwo,  \* MAX_POWER_OF_TWO (64)
    MaxDepth,       \* the depths callers ask for: 0 .. MaxDepth
    Retries         \* CCPRIME_PICK_RANDOM_BASE_MAX_RETRIES (100)

VARIABLES
    p, mr_depth,
    pc,         \* "start", "base", "iteration", "done"
    j, tries,   \* rounds begun, draws of this round
    base,
    rv,
    bases,      \* history: the bases of the rounds that ran
    masked      \* history: a failure the exponentiation did not report

vars == <<p, mr_depth, pc, j, tries, base, rv, bases, masked>>

Error == -1
None == 0

Init ==
    /\ p \in Candidates /\ mr_depth \in 0 .. MaxDepth
    /\ pc = "start" /\ j = 0 /\ tries = 0 /\ base = None /\ rv = 0
    /\ bases = {} /\ masked = FALSE

Divides(d, x) == x % d = 0

Small == {f \in {2} \union SmallPrimes : Divides(f, p)}

\* p - 1 = 2^s * d
s == CHOOSE i \in 0 .. p : Divides(2^i, p - 1) /\ ~Divides(2^(i + 1), p - 1)
d == (p - 1) \div 2^s

Power(x, e) ==
    LET f[i \in 0 .. e] == IF i = 0 THEN 1 ELSE (f[i - 1] * x) % p IN  f[e]

Return(r) == pc' = "done" /\ rv' = r

----------------------------------------------------------------------------
\* The smallest factor decides, if there is one.
Start ==
    /\ pc = "start"
    /\ \/ mr_depth = 0 /\ Return(Error)
       \/ mr_depth > 0 /\ p < 2 /\ Return(0)
       \/ /\ mr_depth > 0 /\ p >= 2 /\ Small # {}
          /\ Return(IF p \in Small THEN 1 ELSE 0)
       \/ mr_depth > 0 /\ p >= 2 /\ Small = {} /\ pc' = "base" /\ UNCHANGED rv
    /\ UNCHANGED <<p, mr_depth, j, tries, base, bases, masked>>

\* A base of 0 or 1 is drawn again, so many times.
PickRandomBase ==
    /\ pc = "base"
    /\ \/ Return(Error) /\ UNCHANGED <<base, tries>>
       \/ /\ base' \in 2 .. p - 1 /\ tries' = 0
          /\ pc' = "iteration" /\ UNCHANGED rv
       \/ /\ tries + 1 < Retries /\ tries' = tries + 1
          /\ UNCHANGED <<pc, base, rv>>
       \/ /\ tries + 1 = Retries /\ Return(Error)
          /\ UNCHANGED <<base, tries>>
    /\ UNCHANGED <<p, mr_depth, j, bases, masked>>

\* Mutant of Squarings: the loop ends one squaring early.
SquaringsFewer(b) ==
    \E r \in 0 .. s - 2 : Power(b, 2^r) = p - 1

\* x, squared while r runs up to MaxPowerOfTwo: the round ends as composite when r
\* comes to s, or x to 1, before x has been p - 1.
Squarings(b) ==
    LET x[r \in 0 .. MaxPowerOfTwo - 1] == IF r = 0 THEN b ELSE (x[r - 1] * x[r - 1]) % p
        ends(r) == r = s \/ x[r] = 1
    IN  \E r \in 0 .. MaxPowerOfTwo - 1 :
           x[r] = p - 1 /\ \A i \in 1 .. r : ~ends(i)

\* What a round makes of the power of its base.
ProbablyPrime(x) == x = 1 \/ x = p - 1 \/ Squarings(x)

\* When the mask cannot be drawn the exponentiation returns all the same, and leaves
\* the base, in whose place its result was to be.
Iteration ==
    /\ pc = "iteration"
    /\ \E fails \in BOOLEAN :
          LET x == IF fails THEN base ELSE Power(base, d)
              verdict == IF s < MaxPowerOfTwo /\ ProbablyPrime(x) THEN 1 ELSE 0
          IN  /\ masked' = (masked \/ (fails /\ s < MaxPowerOfTwo))
              /\ IF verdict = 1 /\ j + 1 < mr_depth
                 THEN pc' = "base" /\ UNCHANGED rv
                 ELSE Return(verdict)
    /\ j' = j + 1 /\ bases' = bases \union {base}
    /\ UNCHANGED <<p, mr_depth, tries, base>>

Next == Start \/ PickRandomBase \/ Iteration

Spec == Init /\ [][Next]_vars

----------------------------------------------------------------------------
Prime(n) == n > 1 /\ \A f \in 2 .. n - 1 : ~Divides(f, n)

\* p passes the test with b: a power of b is 1, or p - 1 on the way there.
Liar(b) == Power(b, d) = 1 \/ \E r \in 0 .. s - 1 : Power(b, d * 2^r) = p - 1

\* If every exponentiation was one, a prime is not called composite (but for one whose
\* s is out of range), and a number is called prime only if it passed with every base
\* that was drawn, as many times as was asked (ccprime_rabin_miller.c:154-276).
VerdictRight ==
    pc = "done" /\ ~masked =>
      /\ Prime(p) /\ s < MaxPowerOfTwo => rv # 0
      /\ rv = 1 => Prime(p) \/ (j = mr_depth /\ bases # {} /\ \A b \in bases : Liar(b))
=============================================================================
