--------------------------- MODULE FortunaProofs ---------------------------
(***************************************************************************)
(* Proofs about Fortuna.tla, for every number of threads and pools and     *)
(* every source of entropy: where TRYLOCK yields true on success and the   *)
(* reseed counter stays below 2^NPOOLS.                                    *)
(***************************************************************************)
EXTENDS Fortuna, NaturalsInduction, SequenceTheorems, WellFoundedInduction, TLAPS

-----------------------------------------------------------------------------
(* Arithmetic of the schedule. *)

\* Powers of 2 are positive and double.
LEMMA Powers ==
  /\ 2^0 = 1
  /\ \A k \in 0 .. NPOOLS + 1 : 2^k \in Nat \ {0}
  /\ \A k \in 0 .. NPOOLS : 2^(k + 1) = 2 * 2^k
<1>1. NPOOLS \in Nat
  BY ConstantsAssumption
<1>2. 2^0 = 1 /\ \A k \in 0 .. NPOOLS : 2^k \in Nat \ {0} /\ 2^(k + 1) = 2 * 2^k
  BY PowerAssumption
<1>3. 2^(NPOOLS + 1) \in Nat \ {0}
  BY <1>1, <1>2
<1>4. \A k \in 0 .. NPOOLS + 1 : k \in 0 .. NPOOLS \/ k = NPOOLS + 1
  BY <1>1
<1> QED
  BY <1>2, <1>3, <1>4

\* The quotient of a counter moves exactly when the divisor divides it.
LEMMA QuotientStep ==
  ASSUME NEW n \in Nat, NEW d \in Nat \ {0}
  PROVE  (n + 1) \div d = IF (n + 1) % d = 0 THEN (n \div d) + 1 ELSE n \div d
OBVIOUS

\* Dividing by 2d is dividing by d and then by 2.
LEMMA QuotientDouble ==
  ASSUME NEW n \in Nat, NEW d \in Nat \ {0}
  PROVE  n \div (2 * d) = (n \div d) \div 2
OBVIOUS

\* What 2d divides, d divides.
LEMMA DivisorHalf ==
  ASSUME NEW n \in Nat, NEW d \in Nat \ {0}, (n + 1) % (2 * d) = 0
  PROVE  (n + 1) % d = 0
<1>1. (n + 1) \div (2 * d) = (n \div (2 * d)) + 1
  BY QuotientStep, 2 * d \in Nat \ {0}
<1>2. /\ n \div (2 * d) = (n \div d) \div 2
      /\ (n + 1) \div (2 * d) = ((n + 1) \div d) \div 2
  BY QuotientDouble, n + 1 \in Nat
<1>3. n \div d \in Nat
  OBVIOUS
<1>4. (n + 1) \div d # n \div d
  BY <1>1, <1>2, <1>3
<1> QED
  BY <1>4, QuotientStep

\* A set of naturals has a least element.
LEMMA LeastElement ==
  ASSUME NEW S, S \subseteq Nat, S # {}
  PROVE  \E m \in S : \A k \in S : m <= k
<1> DEFINE R == OpToRel(<, Nat)
<1>1. IsWellFoundedOn(R, Nat)
  BY NatLessThanWellFounded
<1>2. \A k, m \in Nat : k < m => <<k, m>> \in R
  BY Zenon DEF OpToRel
<1> HIDE DEF R
<1>3. PICK m \in S : \A k \in S : ~(<<k, m>> \in R)
  BY <1>1, WFMin
<1>4. \A k \in S : k \in Nat /\ m \in Nat /\ ~(k < m)
  BY Zenon, <1>2, <1>3
<1> QED
  BY <1>4

\* The powers of 2 that divide n: a property of k that holds at 0 and fails
\* at NPOOLS has a last place where it holds, and ffs64 finds it.
LEMMA FirstSetBit ==
  ASSUME NEW n \in Nat \ {0}, n < 2^NPOOLS
  PROVE  /\ ffs64(n) \in 1 .. NPOOLS
         /\ \A i \in Pools : i < ffs64(n) <=> n % 2^i = 0
<1> DEFINE T == {k \in 0 .. NPOOLS : n % 2^k # 0}
<1>0. NPOOLS \in Nat \ {0}
  BY ConstantsAssumption
<1>1. NPOOLS \in T
  <2>1. 2^NPOOLS \in Nat \ {0}
    BY Powers, <1>0
  <2> QED
    BY <2>1, <1>0
<1>2. PICK m \in T : \A k \in T : m <= k
  BY LeastElement, T \subseteq Nat, <1>0, <1>1
<1>3. \A k \in 0 .. NPOOLS : k < m => n % 2^k = 0
  BY <1>0, <1>2
<1>4. m # 0
  <2>1. n % 2^0 = 0
    BY Powers, n % 1 = 0
  <2> QED
    BY <2>1
<1>5. m \in 1 .. NPOOLS /\ n % 2^(m - 1) = 0 /\ n % 2^m # 0
  BY <1>0, <1>3, <1>4
\* Beyond a power that does not divide n none does.
<1>6. \A k \in 0 .. NPOOLS + 1 : k >= m => n % 2^k # 0
  <2> DEFINE U == {k \in 0 .. NPOOLS + 1 : k >= m /\ n % 2^k = 0}
  <2>1. SUFFICES ASSUME U # {} PROVE FALSE
    OBVIOUS
  <2>2. PICK k \in U : \A j \in U : k <= j
    BY LeastElement, U \subseteq Nat, <1>0, <2>1
  <2>3. k > m
    BY <1>0, <1>5
  <2>4. k - 1 \in 0 .. NPOOLS /\ k - 1 >= m /\ k - 1 < k
    BY <1>0, <1>5, <2>3
  <2>5. n % 2^(k - 1) # 0
    <3>1. k - 1 \in 0 .. NPOOLS + 1 /\ k - 1 \notin U
      BY <1>0, <2>2, <2>4
    <3> QED
      BY <2>4, <3>1
  <2>6. 2^k = 2 * 2^(k - 1) /\ 2^(k - 1) \in Nat \ {0}
    <3>1. 2^((k - 1) + 1) = 2 * 2^(k - 1) /\ 2^(k - 1) \in Nat \ {0}
      BY <1>0, <2>4, Powers
    <3>2. (k - 1) + 1 = k
      BY <1>0
    <3> QED
      BY <3>1, <3>2
  <2>7. n % (2 * 2^(k - 1)) = 0
    BY <2>6
  <2>8. n - 1 \in Nat /\ (n - 1) + 1 = n
    OBVIOUS
  <2>9. n % 2^(k - 1) = 0
    <3> DEFINE d == 2^(k - 1)
               q == n - 1
    <3>1. d \in Nat \ {0} /\ q \in Nat /\ (q + 1) % (2 * d) = 0
      BY <2>6, <2>7, <2>8
    <3> HIDE DEF d, q
    <3>2. (q + 1) % d = 0
      BY <3>1, DivisorHalf
    <3> QED
      BY <3>2, <2>8 DEF d, q
  <2> QED
    BY <2>5, <2>9
<1>7. \A b \in 1 .. NPOOLS + 1 : (n % 2^(b - 1) = 0 /\ n % 2^b # 0) <=> b = m
  <2> TAKE b \in 1 .. NPOOLS + 1
  <2>1. CASE b < m
    BY <1>0, <1>3, <2>1
  <2>2. CASE b = m
    BY <1>5, <2>2
  <2>3. CASE b > m
    <3>1. b - 1 \in 0 .. NPOOLS + 1 /\ b - 1 >= m
      BY <1>0, <1>5, <2>3
    <3> QED
      BY <1>6, <2>3, <3>1, <1>0, <1>5
  <2> QED
    BY <1>0, <1>5, <2>1, <2>2, <2>3
<1>8. ffs64(n) = m
  <2>1. m \in 1 .. NPOOLS + 1
    BY <1>0, <1>5
  <2> QED
    BY <1>7, <2>1 DEF ffs64
<1>9. \A i \in Pools : i < m <=> n % 2^i = 0
  <2>1. \A i \in Pools : i \in 0 .. NPOOLS /\ i \in 0 .. NPOOLS + 1
    BY <1>0 DEF Pools
  <2> QED
    BY <1>0, <1>3, <1>5, <1>6, <2>1
<1> QED
  BY <1>5, <1>8, <1>9

-----------------------------------------------------------------------------
(* Type correctness and mutual exclusion. *)

\* The pools the schedule says to drain are some of ctx->pools.
LEMMA PoolOutType ==
  ASSUME NEW s \in Nat, s + 1 < 2^NPOOLS
  PROVE  pool_out(s) \in (1 .. NPOOLS) \cup {-1}
BY FirstSetBit, s + 1 \in Nat \ {0} DEF pool_out

\* The environment assumed: TRYLOCK tells success by true, and the reseed
\* counter does not reach 2^NPOOLS.
Sound == PthreadTryLock = FALSE /\ MaxSched < 2^NPOOLS

Typed == TypeOK /\ reseed_sched <= MaxSched

\* Every variable keeps its type.
LEMMA TypeStep ==
  ASSUME Sound, Typed, [Next]_vars
  PROVE  Typed'
<1> USE DEF Typed, TypeOK, Labels, Results, Goto
<1>0. NoFrame \in Frame /\ 0 \in Pools /\ NPOOLS \in Nat \ {0} /\ U32 \in Nat \ {0}
     /\ U64 \in Nat \ {0} /\ NoThread \notin Threads
  BY ConstantsAssumption DEF NoFrame, Frame, Pools
<1>1. CASE UNCHANGED vars
  BY <1>0, <1>1 DEF vars, ctx, sched, stats, history
<1>2. ASSUME NEW t \in Threads, GenerateCall(t) PROVE Typed'
  BY <1>0, <1>2 DEF GenerateCall, ctx, sched, stats, history
<1>3. ASSUME NEW t \in Threads, GenerateLock(t) PROVE Typed'
  BY <1>0, <1>3 DEF GenerateLock, ctx, sched, stats, history
<1>4. ASSUME NEW t \in Threads, GenerateCheck(t) PROVE Typed'
  BY <1>0, <1>4 DEF GenerateCheck, UnlockAndReturn, Return, ctx, sched, stats, history
<1>5. ASSUME NEW t \in Threads, GenerateOutput(t) PROVE Typed'
  <2>1. (ctr + 1) % U64 \in Nat
    BY <1>0
  <2>2. ctr' \in Nat
    BY <1>5, <2>1 DEF GenerateOutput
  <2>3. /\ lock' \in Threads \cup {NoThread} /\ pc' \in [Threads -> Labels]
        /\ frame' \in [Threads -> Frame] /\ ret' \in [Threads -> Results]
    BY <1>0, <1>5 DEF GenerateOutput, UnlockAndReturn, Return
  <2>4. UNCHANGED <<key, seeded, reseed_sched, pool_idx, pools, nreseeds,
          schedreseed_nsamples_max, addentropy_nsamples_max, inputs, since>>
    BY <1>5 DEF GenerateOutput, sched, stats, history
  <2> QED
    BY <2>2, <2>3, <2>4
<1>6. ASSUME NEW t \in Threads, RefreshTryLock(t) PROVE Typed'
  <2>1. /\ lock' \in Threads \cup {NoThread}
        /\ \/ Goto(t, "getentropy") /\ UNCHANGED <<frame, ret>>
           \/ Return(t, "not_reseeded")
        /\ UNCHANGED <<ctx, history>>
    BY <1>6 DEF RefreshTryLock
  <2>2. /\ pc' \in [Threads -> Labels]
        /\ frame' \in [Threads -> Frame] /\ ret' \in [Threads -> Results]
    <3>1. CASE Goto(t, "getentropy") /\ UNCHANGED <<frame, ret>>
      BY <3>1
    <3>2. CASE Return(t, "not_reseeded")
      BY <1>0, <3>2 DEF Return
    <3> QED
      BY <2>1, <3>1, <3>2
  <2> QED
    BY <2>1, <2>2 DEF ctx, sched, stats, history
<1>7. ASSUME NEW t \in Threads, RefreshNothing(t) PROVE Typed'
  BY <1>0, <1>7 DEF RefreshNothing, UnlockAndReturn, Return, ctx, sched, stats, history
<1>8. ASSUME NEW t \in Threads, RefreshFailure(t) PROVE Typed'
  <2>1. pools' \in [Pools -> Pool] /\ since' \in [Pools -> Nat]
    BY <1>8 DEF RefreshFailure, reset, Pool
  <2>2. /\ lock' \in Threads \cup {NoThread} /\ pc' \in [Threads -> Labels]
        /\ frame' \in [Threads -> Frame] /\ ret' \in [Threads -> Results]
    BY <1>0, <1>8 DEF RefreshFailure, UnlockAndReturn, Return
  <2>3. /\ seeded' = FALSE /\ reseed_sched' = 0 /\ pool_idx' = 0 /\ nreseeds' = 0
        /\ schedreseed_nsamples_max' = 0 /\ addentropy_nsamples_max' = 0
        /\ UNCHANGED <<key, ctr, inputs>>
    BY <1>8 DEF RefreshFailure, reset
  <2>4. reseed_sched' \in Nat /\ reseed_sched' <= MaxSched /\ pool_idx' \in Pools
    BY <1>0, <2>3, ConstantsAssumption
  <2>5. seeded' \in BOOLEAN
    BY <2>3
  <2> QED
    BY <2>1, <2>2, <2>3, <2>4, <2>5
<1>9. ASSUME NEW t \in Threads, schedule(t) PROVE Typed'
  <2>1. pool_out(reseed_sched) \in Nat \cup {-1}
    <3>1. pool_idx # 0 => pool_out(reseed_sched) = -1
      BY DEF pool_out
    <3>2. pool_idx = 0 => reseed_sched + 1 < 2^NPOOLS
      BY <1>0, <1>9, ConstantsAssumption, Powers DEF schedule, Sound
    <3> QED
      BY <1>0, <3>1, <3>2, PoolOutType
  <2>2. frame' \in [Threads -> Frame]
    <3>1. PICK n \in SampleCounts : frame' = [frame EXCEPT ![t] =
            [n |-> n, pool_in |-> pool_idx, pool_out |-> pool_out(reseed_sched),
             i |-> 0, nsamples |-> 0, sha |-> {}]]
      BY <1>9 DEF schedule
    <3>2. n \in Nat
      BY ConstantsAssumption
    <3>3. [n |-> n, pool_in |-> pool_idx, pool_out |-> pool_out(reseed_sched),
           i |-> 0, nsamples |-> 0, sha |-> {}] \in Frame
      BY <2>1, <3>2 DEF Frame
    <3> QED
      BY <3>1, <3>3
  <2>3. pool_idx' \in Pools
    BY <1>0, <1>9 DEF schedule, NextPool, Pools
  <2>4. reseed_sched' \in Nat /\ reseed_sched' <= MaxSched
    BY <1>9, ConstantsAssumption DEF schedule
  <2> QED
    BY <1>9, <2>2, <2>3, <2>4 DEF schedule, stats, history
<1>10. ASSUME NEW t \in Threads, addentropy(t) PROVE Typed'
  <2> DEFINE f == frame[t]
             p == pools[f.pool_in]
  <2>1. f \in Frame /\ f.n \in Nat /\ f.pool_in \in Pools /\ p \in Pool
    BY DEF Frame
  <2>2. pools' \in [Pools -> Pool]
    <3>0. Len(inputs) + 1 \in Nat /\ p.nsamples + f.n \in Nat
          /\ Larger(p.nsamples_max, p.nsamples + f.n) \in Nat
      <4>1. p.nsamples \in Nat /\ p.nsamples_max \in Nat
        BY <2>1 DEF Pool
      <4>2. Len(inputs) \in Nat
        OBVIOUS
      <4> QED
        BY <2>1, <4>1, <4>2 DEF Larger
    <3>1. [data |-> p.data \cup {Len(inputs) + 1}, nsamples |-> p.nsamples + f.n,
           ndrains |-> p.ndrains,
           nsamples_max |-> Larger(p.nsamples_max, p.nsamples + f.n)] \in Pool
      BY <2>1, <3>0 DEF Pool
    <3> QED
      BY <1>10, <2>1, <3>1 DEF addentropy
  <2>3. frame' \in [Threads -> Frame]
    <3>1. [n |-> f.n, pool_in |-> f.pool_in, pool_out |-> f.pool_out,
           i |-> 0, nsamples |-> 0, sha |-> DigestStart] \in Frame
      BY <2>1 DEF Frame, DigestStart
    <3> QED
      BY <1>0, <1>10, <3>1 DEF addentropy, UnlockAndReturn, Return
  <2>4. since' \in [Pools -> Nat] /\ addentropy_nsamples_max' \in Nat
    BY <1>10, <2>1 DEF addentropy, Larger
  <2>5. inputs' \in Seq(Nat)
    BY <1>10, <2>1 DEF addentropy
  <2>6. pc' \in [Threads -> Labels] /\ ret' \in [Threads -> Results]
        /\ lock' \in Threads \cup {NoThread}
    BY <1>10 DEF addentropy, UnlockAndReturn, Return
  <2> QED
    BY <1>10, <2>2, <2>3, <2>4, <2>5, <2>6 DEF addentropy, sched
<1>11. ASSUME NEW t \in Threads, schedreseed_drain(t) PROVE Typed'
  <2> DEFINE f == frame[t]
             p == pools[f.i]
  <2>1. f \in Frame /\ f.i \in Pools /\ p \in Pool
    BY <1>11 DEF schedreseed_drain
  <2>2. frame' \in [Threads -> Frame]
    <3>0. f.nsamples \in Nat /\ p.nsamples \in Nat
      BY <2>1 DEF Frame, Pool
    <3>1. (f.nsamples + p.nsamples) % U32 \in Nat
      BY <1>0, <3>0
    <3>2. [n |-> f.n, pool_in |-> f.pool_in, pool_out |-> f.pool_out, i |-> f.i + 1,
           nsamples |-> (f.nsamples + p.nsamples) % U32, sha |-> f.sha \cup p.data] \in Frame
      <4> DEFINE w == (f.nsamples + p.nsamples) % U32
      <4>1. w \in Nat /\ f.i + 1 \in Nat /\ f.sha \cup p.data \in SUBSET Nat
        <5>1. f.i \in Nat /\ f.sha \in SUBSET Nat
          BY <2>1 DEF Frame
        <5>2. p.data \in SUBSET Nat
          BY <2>1 DEF Pool
        <5> QED
          BY <3>1, <5>1, <5>2
      <4> HIDE DEF w
      <4>2. [n |-> f.n, pool_in |-> f.pool_in, pool_out |-> f.pool_out, i |-> f.i + 1,
             nsamples |-> w, sha |-> f.sha \cup p.data] \in Frame
        BY <2>1, <4>1 DEF Frame
      <4> QED
        BY <4>2 DEF w
    <3> QED
      BY <1>11, <3>2 DEF schedreseed_drain
  <2>3. pools' \in [Pools -> Pool]
    <3>1. emptied(p) \in Pool
      BY <2>1 DEF emptied, Pool
    <3> QED
      BY <1>11, <3>1 DEF schedreseed_drain
  <2> QED
    BY <1>11, <2>2, <2>3 DEF schedreseed_drain, sched, stats, history
<1>12. ASSUME NEW t \in Threads, schedreseed_final(t) PROVE Typed'
  <2>1. frame[t] \in Frame /\ frame[t].nsamples \in Nat /\ frame[t].sha \in SUBSET Nat
    BY DEF Frame
  <2>2. /\ key' \in SUBSET Nat /\ seeded' \in BOOLEAN /\ nreseeds' \in Nat
        /\ schedreseed_nsamples_max' \in Nat
    BY <1>12, <2>1 DEF schedreseed_final, Larger, Enough
  <2> QED
    BY <1>0, <1>12, <2>2 DEF schedreseed_final, UnlockAndReturn, Return, sched, history
<1> QED
  BY <1>1, <1>2, <1>3, <1>4, <1>5, <1>6, <1>7, <1>8, <1>9, <1>10, <1>11, <1>12
  DEF Next, Step, Inside

LEMMA InitTyped == Init => Typed
<1> SUFFICES ASSUME Init PROVE Typed
  OBVIOUS
<1>1. NoFrame \in Frame
  BY ConstantsAssumption DEF NoFrame, Frame, Pools
<1>2. [data |-> {}, nsamples |-> 0, ndrains |-> 0, nsamples_max |-> 0] \in Pool
  BY DEF Pool
<1>3. 0 \in Pools /\ 0 <= MaxSched
  BY ConstantsAssumption DEF Pools
<1>4. inputs \in Seq(Nat) /\ seeded \in BOOLEAN
  BY EmptySeq DEF Init
<1> QED
  BY <1>1, <1>2, <1>3, <1>4 DEF Init, Typed, TypeOK, Labels, Results

\* Every reachable state is well typed.
THEOREM TypeCorrect == ASSUME Sound PROVE Spec => []TypeOK
<1>1. Init => Typed
  BY InitTyped
<1>2. Typed /\ [Next]_vars => Typed'
  BY TypeStep
<1> QED
  BY <1>1, <1>2, PTL DEF Spec, Typed

\* A thread past the lock or the trylock owns the mutex.
LEMMA OwnedStep ==
  ASSUME Sound, Typed, LockOwned, [Next]_vars
  PROVE  LockOwned'
<1> USE ConstantsAssumption DEF Sound, Typed, TypeOK, LockOwned, Critical, Labels, Goto
<1>1. CASE UNCHANGED vars
  BY <1>1 DEF vars
<1>2. ASSUME NEW t \in Threads, GenerateCall(t) PROVE LockOwned'
  BY <1>2 DEF GenerateCall
<1>3. ASSUME NEW t \in Threads, GenerateLock(t) PROVE LockOwned'
  BY <1>3 DEF GenerateLock
<1>4. ASSUME NEW t \in Threads, GenerateCheck(t) PROVE LockOwned'
  <2>1. CASE seeded
    BY <1>4, <2>1 DEF GenerateCheck
  <2>2. CASE ~seeded
    BY <1>4, <2>2 DEF GenerateCheck, UnlockAndReturn, Return
  <2> QED
    BY <2>1, <2>2
<1>5. ASSUME NEW t \in Threads, GenerateOutput(t) PROVE LockOwned'
  BY <1>5 DEF GenerateOutput, UnlockAndReturn, Return
<1>6. ASSUME NEW t \in Threads, RefreshTryLock(t) PROVE LockOwned'
  <2>1. CASE lock = NoThread
    BY <1>6, <2>1 DEF RefreshTryLock, Return
  <2>2. CASE lock # NoThread
    BY <1>6, <2>2 DEF RefreshTryLock, Return
  <2> QED
    BY <2>1, <2>2
<1>7. ASSUME NEW t \in Threads, RefreshNothing(t) \/ RefreshFailure(t) PROVE LockOwned'
  BY <1>7 DEF RefreshNothing, RefreshFailure, UnlockAndReturn, Return
<1>8. ASSUME NEW t \in Threads, schedule(t) PROVE LockOwned'
  BY <1>8 DEF schedule
<1>9. ASSUME NEW t \in Threads, addentropy(t) PROVE LockOwned'
  BY <1>9 DEF addentropy, UnlockAndReturn, Return
<1>10. ASSUME NEW t \in Threads, schedreseed_drain(t) PROVE LockOwned'
  BY <1>10 DEF schedreseed_drain
<1>11. ASSUME NEW t \in Threads, schedreseed_final(t) PROVE LockOwned'
  BY <1>11 DEF schedreseed_final, UnlockAndReturn, Return
<1> QED
  BY <1>1, <1>2, <1>3, <1>4, <1>5, <1>6, <1>7, <1>8, <1>9, <1>10, <1>11
  DEF Next, Step, Inside

\* Mutual exclusion, the assertion CCRNG_FORTUNA_LOCK_ASSERT makes.
THEOREM MutualExclusion == ASSUME Sound PROVE Spec => []LockOwned
<1>1. Init => Typed /\ LockOwned
  BY InitTyped DEF Init, LockOwned, Critical
<1>2. Typed /\ LockOwned /\ [Next]_vars => (Typed /\ LockOwned)'
  BY TypeStep, OwnedStep
<1> QED
  BY <1>1, <1>2, PTL DEF Spec

-----------------------------------------------------------------------------
(* No output without a seed. *)

SeedInv ==
  /\ seeded => schedreseed_nsamples_max >= MinSamples
  /\ \A t \in Threads : pc[t] = "generate_output" => seeded

\* Seeding takes enough samples, and while a thread is about to draw output
\* no other can unseed the generator.
LEMMA SeedStep ==
  ASSUME Sound, Typed, LockOwned, SeedInv, [Next]_vars
  PROVE  SeedInv'
<1> USE ConstantsAssumption
    DEF SeedInv, Sound, Typed, TypeOK, LockOwned, Critical, Labels, Goto, stats
<1>1. CASE UNCHANGED vars
  BY <1>1 DEF vars, ctx
<1>2. ASSUME NEW t \in Threads, GenerateCall(t) PROVE SeedInv'
  BY <1>2 DEF GenerateCall, ctx
<1>3. ASSUME NEW t \in Threads, GenerateLock(t) PROVE SeedInv'
  BY <1>3 DEF GenerateLock, ctx
<1>4. ASSUME NEW t \in Threads, GenerateCheck(t) PROVE SeedInv'
  <2>1. CASE seeded
    BY <1>4, <2>1 DEF GenerateCheck, ctx
  <2>2. CASE ~seeded
    BY <1>4, <2>2 DEF GenerateCheck, UnlockAndReturn, Return, ctx
  <2> QED
    BY <2>1, <2>2
<1>5. ASSUME NEW t \in Threads, GenerateOutput(t) PROVE SeedInv'
  <2>1. /\ UNCHANGED <<seeded, schedreseed_nsamples_max>>
        /\ pc' = [pc EXCEPT ![t] = "idle"]
    BY <1>5 DEF GenerateOutput, UnlockAndReturn, Return
  <2> QED
    BY <2>1
<1>6. ASSUME NEW t \in Threads, RefreshTryLock(t) PROVE SeedInv'
  <2>1. CASE lock = NoThread
    BY <1>6, <2>1 DEF RefreshTryLock, Return, ctx
  <2>2. CASE lock # NoThread
    BY <1>6, <2>2 DEF RefreshTryLock, Return, ctx
  <2> QED
    BY <2>1, <2>2
<1>7. ASSUME NEW t \in Threads, RefreshNothing(t) PROVE SeedInv'
  BY <1>7 DEF RefreshNothing, UnlockAndReturn, Return, ctx
<1>8. ASSUME NEW t \in Threads, RefreshFailure(t) PROVE SeedInv'
  <2>1. seeded' = FALSE /\ pc' = [pc EXCEPT ![t] = "idle"] /\ pc[t] = "getentropy"
    BY <1>8 DEF RefreshFailure, reset, UnlockAndReturn, Return
  <2>2. \A u \in Threads : pc'[u] # "generate_output"
    BY <2>1
  <2> QED
    BY <2>1, <2>2
<1>9. ASSUME NEW t \in Threads, schedule(t) PROVE SeedInv'
  <2>1. /\ UNCHANGED <<seeded, schedreseed_nsamples_max>>
        /\ pc' = [pc EXCEPT ![t] = "addentropy"]
    BY <1>9 DEF schedule
  <2> QED
    BY <2>1
<1>10. ASSUME NEW t \in Threads, addentropy(t) PROVE SeedInv'
  <2>1. /\ UNCHANGED <<seeded, schedreseed_nsamples_max>>
        /\ \/ pc' = [pc EXCEPT ![t] = "idle"]
           \/ pc' = [pc EXCEPT ![t] = "schedreseed"]
    BY <1>10 DEF addentropy, UnlockAndReturn, Return
  <2> QED
    BY <2>1
<1>11. ASSUME NEW t \in Threads, schedreseed_drain(t) PROVE SeedInv'
  <2>1. UNCHANGED <<seeded, schedreseed_nsamples_max, pc>>
    BY <1>11 DEF schedreseed_drain
  <2> QED
    BY <2>1
<1>12. ASSUME NEW t \in Threads, schedreseed_final(t) PROVE SeedInv'
  <2>1. frame[t].nsamples \in Nat
    BY DEF Frame
  <2>2. /\ seeded' = (seeded \/ frame[t].nsamples >= MinSamples)
        /\ schedreseed_nsamples_max' = Larger(schedreseed_nsamples_max, frame[t].nsamples)
        /\ pc' = [pc EXCEPT ![t] = "idle"]
    BY <1>12 DEF schedreseed_final, Enough, UnlockAndReturn, Return
  <2>3. seeded' => schedreseed_nsamples_max' >= MinSamples
    BY <2>1, <2>2 DEF Larger
  <2>4. \A u \in Threads : pc'[u] = "generate_output" => seeded'
    BY <2>2
  <2> QED
    BY <2>3, <2>4
<1> QED
  BY <1>1, <1>2, <1>3, <1>4, <1>5, <1>6, <1>7, <1>8, <1>9, <1>10, <1>11, <1>12
  DEF Next, Step, Inside

\* ccrng_fortuna_generate draws output only from a generator that a reseed of
\* MinSamples samples seeded and no failure of the source has unseeded since.
THEOREM NoOutputUnseeded == ASSUME Sound PROVE Spec => []SeededAtOutput
<1>1. Init => Typed /\ LockOwned /\ SeedInv
  BY InitTyped DEF Init, LockOwned, Critical, SeedInv
<1>2. Typed /\ LockOwned /\ SeedInv /\ [Next]_vars => (Typed /\ LockOwned /\ SeedInv)'
  BY TypeStep, OwnedStep, SeedStep
<1>3. SeedInv => SeededAtOutput
  BY DEF SeedInv, SeededAtOutput
<1> QED
  BY <1>1, <1>2, <1>3, PTL DEF Spec

-----------------------------------------------------------------------------
(* The drain schedule. *)

\* t has moved reseed_sched and not yet finished the reseed it announced.
Reseeding(t) ==
  pc[t] = "schedreseed" \/ (pc[t] = "addentropy" /\ frame[t].pool_out # -1)

\* The pools below n have been drained for reseed s, the others not yet.
DrainedUpTo(p, n, s) ==
  \A i \in Pools : p[i].ndrains = IF i < n THEN s \div 2^i ELSE (s - 1) \div 2^i

OnSchedule ==
  nreseeds = reseed_sched /\ \A i \in Pools : pools[i].ndrains = reseed_sched \div 2^i

Behind(t) ==
  /\ reseed_sched >= 1
  /\ nreseeds = reseed_sched - 1
  /\ frame[t].pool_out = ffs64(reseed_sched)
  /\ frame[t].i <= ffs64(reseed_sched)
  /\ pc[t] = "addentropy" => frame[t].i = 0
  /\ DrainedUpTo(pools, frame[t].i, reseed_sched)

\* The counters are on schedule, or as far behind as the reseeding thread.
DrainInv ==
  /\ (\A t \in Threads : ~Reseeding(t)) => OnSchedule
  /\ \A t \in Threads : Reseeding(t) => Behind(t)

\* A step that touches neither the schedule nor a reseeding thread is harmless.
LEMMA Quiet ==
  ASSUME DrainInv, UNCHANGED <<reseed_sched, nreseeds>>,
         \A i \in Pools : pools'[i].ndrains = pools[i].ndrains,
         \A t \in Threads : Reseeding(t)' <=> Reseeding(t),
         \A t \in Threads : Reseeding(t) => pc'[t] = pc[t] /\ frame'[t] = frame[t]
  PROVE  DrainInv'
BY DEF DrainInv, OnSchedule, Behind, DrainedUpTo

\* Where s moves to s + 1, pool i falls behind if and only if 2^i divides s + 1.
LEMMA FallBehind ==
  ASSUME NEW s \in Nat, s + 1 < 2^NPOOLS, NEW i \in Pools
  PROVE  (s + 1) \div 2^i = IF i < ffs64(s + 1) THEN (s \div 2^i) + 1 ELSE s \div 2^i
<1>1. 2^i \in Nat \ {0}
  BY Powers, ConstantsAssumption DEF Pools
<1>2. i < ffs64(s + 1) <=> (s + 1) % 2^i = 0
  BY FirstSetBit, s + 1 \in Nat \ {0}
<1> DEFINE d == 2^i
<1>3. (s + 1) \div d = IF (s + 1) % d = 0 THEN (s \div d) + 1 ELSE s \div d
  <2> HIDE DEF d
  <2> QED
    BY <1>1, QuotientStep DEF d
<1> QED
  BY <1>2, <1>3

LEMMA DrainStep ==
  ASSUME Sound, Typed, LockOwned, DrainInv, [Next]_vars
  PROVE  DrainInv'
<1> USE DEF Typed, TypeOK, Goto
<1>0. /\ NPOOLS \in Nat \ {0} /\ MaxSched \in Nat /\ MaxSched < 2^NPOOLS
      /\ 2^NPOOLS \in Nat /\ reseed_sched < 2^NPOOLS
  BY ConstantsAssumption, Powers DEF Sound
\* Only the owner of the mutex reseeds.
<1>a. \A t, u \in Threads : pc[t] \in Critical /\ Reseeding(u) => t = u
  BY DEF LockOwned, Reseeding, Critical, Labels
<1>1. CASE UNCHANGED vars
  BY <1>1, Quiet DEF vars, ctx, sched, stats, Reseeding
<1>2. ASSUME NEW t \in Threads, GenerateCall(t) \/ GenerateLock(t) PROVE DrainInv'
  <2>1. UNCHANGED <<reseed_sched, nreseeds, pools, frame>>
    BY <1>2 DEF GenerateCall, GenerateLock, ctx, sched, stats
  <2>2. \A u \in Threads : (Reseeding(u)' <=> Reseeding(u)) /\ (Reseeding(u) => pc'[u] = pc[u])
    BY <1>2, <2>1 DEF GenerateCall, GenerateLock, Reseeding
  <2> QED
    BY <2>1, <2>2, Quiet
\* A thread that is not reseeding and goes to a place where it is not.
<1>b. ASSUME NEW t \in Threads, ~Reseeding(t), NEW l \in Labels \ {"addentropy", "schedreseed"},
             pc' = [pc EXCEPT ![t] = l],
             frame' = frame \/ frame' = [frame EXCEPT ![t] = NoFrame],
             UNCHANGED <<reseed_sched, nreseeds, pools>>
      PROVE  DrainInv'
  <2>1. \A u \in Threads \ {t} : pc'[u] = pc[u] /\ frame'[u] = frame[u]
    BY <1>b
  <2>2. ~Reseeding(t)'
    BY <1>b DEF Reseeding, Labels
  <2>3. \A u \in Threads : Reseeding(u)' <=> Reseeding(u)
    BY <1>b, <2>1, <2>2 DEF Reseeding
  <2> QED
    BY <1>b, <2>1, <2>3, Quiet
<1>3. ASSUME NEW t \in Threads, GenerateCheck(t) PROVE DrainInv'
  <2>1. UNCHANGED <<reseed_sched, nreseeds, pools>> /\ ~Reseeding(t)
    BY <1>3 DEF GenerateCheck, Reseeding, ctx, sched, stats
  <2>2. CASE seeded
    BY <1>3, <1>b, <2>1, <2>2 DEF GenerateCheck, Labels
  <2>3. CASE ~seeded
    BY <1>3, <1>b, <2>1, <2>3 DEF GenerateCheck, UnlockAndReturn, Return, Labels
  <2> QED
    BY <2>2, <2>3
<1>4. ASSUME NEW t \in Threads, GenerateOutput(t) PROVE DrainInv'
  <2>1. /\ UNCHANGED <<reseed_sched, nreseeds, pools>> /\ ~Reseeding(t)
        /\ pc' = [pc EXCEPT ![t] = "idle"] /\ frame' = [frame EXCEPT ![t] = NoFrame]
    BY <1>4 DEF GenerateOutput, Reseeding, UnlockAndReturn, Return, sched, stats
  <2> QED
    BY <1>b, <2>1 DEF Labels
<1>5. ASSUME NEW t \in Threads, RefreshTryLock(t) PROVE DrainInv'
  <2>1. UNCHANGED <<reseed_sched, nreseeds, pools>> /\ ~Reseeding(t)
    BY <1>5 DEF RefreshTryLock, Reseeding, ctx, sched, stats
  <2>2. CASE Goto(t, "getentropy") /\ UNCHANGED <<frame, ret>>
    BY <1>b, <2>1, <2>2 DEF Labels
  <2>3. CASE Return(t, "not_reseeded")
    BY <1>b, <2>1, <2>3 DEF Return, Labels
  <2> QED
    BY <1>5, <2>2, <2>3 DEF RefreshTryLock
<1>6. ASSUME NEW t \in Threads, RefreshNothing(t) PROVE DrainInv'
  <2>1. UNCHANGED <<reseed_sched, nreseeds, pools>> /\ ~Reseeding(t)
    BY <1>6 DEF RefreshNothing, Reseeding, ctx, sched, stats
  <2> QED
    BY <1>6, <1>b, <2>1 DEF RefreshNothing, UnlockAndReturn, Return, Labels
<1>7. ASSUME NEW t \in Threads, RefreshFailure(t) PROVE DrainInv'
  <2>1. \A u \in Threads : ~Reseeding(u)'
    <3>1. \A u \in Threads : u # t => ~Reseeding(u)
      BY <1>7, <1>a DEF RefreshFailure, Critical, Labels
    <3>2. pc' = [pc EXCEPT ![t] = "idle"] /\ frame' = [frame EXCEPT ![t] = NoFrame]
      BY <1>7 DEF RefreshFailure, UnlockAndReturn, Return
    <3> QED
      BY <3>1, <3>2 DEF Reseeding
  <2>2. /\ reseed_sched' = 0 /\ nreseeds' = 0
        /\ \A i \in Pools : pools'[i].ndrains = 0
    BY <1>7 DEF RefreshFailure, reset
  <2>3. \A i \in Pools : 0 \div 2^i = 0
    BY <1>0, Powers DEF Pools
  <2> QED
    BY <2>1, <2>2, <2>3 DEF DrainInv, OnSchedule
<1>8. ASSUME NEW t \in Threads, schedule(t) PROVE DrainInv'
  <2>1. \A u \in Threads : ~Reseeding(u)
    <3>1. pc[t] = "getentropy"
      BY <1>8 DEF schedule
    <3> QED
      BY <3>1, <1>a DEF Critical, Labels, Reseeding
  <2>2. OnSchedule
    BY <2>1 DEF DrainInv
  <2>3. PICK n \in SampleCounts : frame' = [frame EXCEPT ![t] =
          [n |-> n, pool_in |-> pool_idx, pool_out |-> pool_out(reseed_sched),
           i |-> 0, nsamples |-> 0, sha |-> {}]]
    BY <1>8 DEF schedule
  <2>4. pc' = [pc EXCEPT ![t] = "addentropy"] /\ UNCHANGED <<nreseeds, pools>>
    BY <1>8 DEF schedule, stats
  <2>5. \A u \in Threads \ {t} : ~Reseeding(u)'
    BY <2>1, <2>3, <2>4 DEF Reseeding
  <2>6. CASE pool_idx = 0
    <3>1. reseed_sched' = reseed_sched + 1 /\ reseed_sched + 1 < 2^NPOOLS
      BY <1>0, <1>8, <2>6 DEF schedule
    <3>2. frame'[t].pool_out = ffs64(reseed_sched + 1) /\ frame'[t].i = 0
      BY <2>3, <2>6 DEF pool_out
    <3>3. ffs64(reseed_sched + 1) \in 1 .. NPOOLS
      BY <3>1, FirstSetBit, reseed_sched + 1 \in Nat \ {0}
    <3>4. DrainedUpTo(pools', 0, reseed_sched + 1)
      BY <1>0, <2>2, <2>4, <3>1 DEF DrainedUpTo, OnSchedule, Pools
    <3>5. Behind(t)'
      BY <2>2, <2>4, <3>1, <3>2, <3>3, <3>4 DEF Behind, OnSchedule, DrainedUpTo
    <3>6. Reseeding(t)'
      BY <1>0, <2>4, <3>2, <3>3 DEF Reseeding
    <3> QED
      BY <2>5, <3>5, <3>6 DEF DrainInv
  <2>7. CASE pool_idx # 0
    <3>1. reseed_sched' = reseed_sched /\ frame'[t].pool_out = -1
      BY <1>8, <2>3, <2>7 DEF schedule, pool_out
    <3>2. ~Reseeding(t)'
      BY <2>4, <3>1 DEF Reseeding
    <3>3. OnSchedule'
      BY <2>2, <2>4, <3>1 DEF OnSchedule
    <3> QED
      BY <2>5, <3>2, <3>3 DEF DrainInv
  <2> QED
    BY <2>6, <2>7
<1>9. ASSUME NEW t \in Threads, addentropy(t) PROVE DrainInv'
  <2> DEFINE f == frame[t]
  <2>1. pc[t] = "addentropy" /\ UNCHANGED <<reseed_sched, nreseeds>>
    BY <1>9 DEF addentropy, sched
  <2>2. \A i \in Pools : pools'[i].ndrains = pools[i].ndrains
    BY <1>9 DEF addentropy, Pool
  <2>3. \A u \in Threads \ {t} : ~Reseeding(u) /\ pc'[u] = pc[u] /\ frame'[u] = frame[u]
    BY <1>9, <1>a, <2>1 DEF addentropy, UnlockAndReturn, Return, Critical, Labels
  <2>4. CASE f.pool_out = -1
    <3>1. ~Reseeding(t) /\ pc' = [pc EXCEPT ![t] = "idle"]
      BY <1>9, <2>1, <2>4 DEF addentropy, UnlockAndReturn, Return, Reseeding
    <3>2. \A u \in Threads : ~Reseeding(u)' /\ ~Reseeding(u)
      BY <2>3, <3>1 DEF Reseeding
    <3> QED
      BY <2>1, <2>2, <3>2, Quiet
  <2>5. CASE f.pool_out # -1
    <3>1. /\ pc' = [pc EXCEPT ![t] = "schedreseed"]
          /\ frame'[t].pool_out = f.pool_out /\ frame'[t].i = 0
      BY <1>9, <2>5 DEF addentropy
    <3>2. Reseeding(t) /\ Reseeding(t)'
      BY <2>1, <2>5, <3>1 DEF Reseeding
    <3>3. Behind(t)
      BY <3>2 DEF DrainInv
    <3>4. Behind(t)'
      BY <2>1, <2>2, <3>1, <3>3 DEF Behind, DrainedUpTo
    <3>5. \A u \in Threads \ {t} : ~Reseeding(u)'
      BY <2>3 DEF Reseeding
    <3> QED
      BY <3>2, <3>4, <3>5 DEF DrainInv
  <2> QED
    BY <2>4, <2>5
<1>10. ASSUME NEW t \in Threads, schedreseed_drain(t) PROVE DrainInv'
  <2> DEFINE f == frame[t]
  <2>1. /\ pc[t] = "schedreseed" /\ f.i < f.pool_out /\ f.i \in Pools
        /\ frame'[t].pool_out = f.pool_out /\ frame'[t].i = f.i + 1
        /\ UNCHANGED <<pc, reseed_sched, nreseeds>>
    BY <1>10 DEF schedreseed_drain, sched, stats
  <2>2. Reseeding(t) /\ Reseeding(t)'
    BY <2>1 DEF Reseeding
  <2>3. Behind(t)
    BY <2>2 DEF DrainInv
  <2>4. /\ pools'[f.i].ndrains = pools[f.i].ndrains + 1
        /\ \A i \in Pools \ {f.i} : pools'[i].ndrains = pools[i].ndrains
    BY <1>10, <2>1 DEF schedreseed_drain, emptied
  <2>5. DrainedUpTo(pools', f.i + 1, reseed_sched)
    <3>1. /\ reseed_sched - 1 \in Nat /\ (reseed_sched - 1) + 1 = reseed_sched
          /\ f.i < ffs64(reseed_sched)
      BY <2>1, <2>3 DEF Behind
    <3>2. reseed_sched \div 2^(f.i) = ((reseed_sched - 1) \div 2^(f.i)) + 1
      <4> DEFINE s == reseed_sched - 1
      <4>1. s \in Nat /\ s + 1 < 2^NPOOLS /\ f.i < ffs64(s + 1) /\ s + 1 = reseed_sched
        BY <1>0, <3>1
      <4> HIDE DEF s
      <4>2. (s + 1) \div 2^(f.i) = (s \div 2^(f.i)) + 1
        BY <2>1, <4>1, FallBehind
      <4> QED
        BY <4>1, <4>2 DEF s
    <3>3. pools'[f.i].ndrains = reseed_sched \div 2^(f.i)
      <4>1. ~(f.i < f.i)
        BY <1>0, <2>1 DEF Pools
      <4>2. pools[f.i].ndrains = (reseed_sched - 1) \div 2^(f.i)
        BY <2>1, <2>3, <4>1 DEF Behind, DrainedUpTo
      <4> QED
        BY <2>4, <3>2, <4>2
    <3>4. \A i \in Pools \ {f.i} : i < f.i + 1 <=> i < f.i
      BY <1>0, <2>1 DEF Pools
    <3>5. \A i \in Pools \ {f.i} : pools'[i].ndrains =
            IF i < f.i + 1 THEN reseed_sched \div 2^i ELSE (reseed_sched - 1) \div 2^i
      BY <2>3, <2>4, <3>4 DEF Behind, DrainedUpTo
    <3>6. f.i < f.i + 1
      BY <2>1, <1>0 DEF Pools
    <3> QED
      BY <2>1, <3>3, <3>5, <3>6 DEF DrainedUpTo
  <2>6. Behind(t)'
    <3>1. f.i + 1 <= ffs64(reseed_sched)
      <4>1. ffs64(reseed_sched) \in Nat
        BY <1>0, <2>3, FirstSetBit DEF Behind
      <4> QED
        BY <1>0, <2>1, <2>3, <4>1 DEF Behind, Pools
    <3> QED
      BY <2>1, <2>3, <2>5, <3>1 DEF Behind, DrainedUpTo
  <2>7. \A u \in Threads \ {t} : ~Reseeding(u)'
    BY <1>10, <1>a, <2>1 DEF schedreseed_drain, Reseeding, Critical, Labels
  <2> QED
    BY <2>2, <2>6, <2>7 DEF DrainInv
<1>11. ASSUME NEW t \in Threads, schedreseed_final(t) PROVE DrainInv'
  <2>1. /\ pc[t] = "schedreseed" /\ frame[t].i = frame[t].pool_out
        /\ pc' = [pc EXCEPT ![t] = "idle"] /\ frame' = [frame EXCEPT ![t] = NoFrame]
        /\ nreseeds' = nreseeds + 1 /\ UNCHANGED <<reseed_sched, pools>>
    BY <1>11 DEF schedreseed_final, UnlockAndReturn, Return, sched
  <2>2. Behind(t)
    BY <2>1 DEF DrainInv, Reseeding
  <2>3. \A u \in Threads : ~Reseeding(u)'
    BY <1>a, <2>1 DEF Reseeding, Critical, Labels
  <2>4. nreseeds' = reseed_sched
    BY <2>1, <2>2 DEF Behind
  <2>5. \A i \in Pools : pools[i].ndrains = reseed_sched \div 2^i
    <3> TAKE i \in Pools
    <3>1. /\ reseed_sched - 1 \in Nat
          /\ pools[i].ndrains = IF i < ffs64(reseed_sched) THEN reseed_sched \div 2^i
                                ELSE (reseed_sched - 1) \div 2^i
      BY <2>1, <2>2 DEF Behind, DrainedUpTo
    <3> DEFINE s == reseed_sched - 1
    <3>2. s \in Nat /\ s + 1 < 2^NPOOLS /\ s + 1 = reseed_sched
      BY <1>0, <3>1
    <3> HIDE DEF s
    <3>3. ~(i < ffs64(s + 1)) => (s + 1) \div 2^i = s \div 2^i
      BY <3>2, FallBehind
    <3> QED
      BY <3>1, <3>2, <3>3 DEF s
  <2> QED
    BY <2>1, <2>3, <2>4, <2>5 DEF DrainInv, OnSchedule
<1> QED
  BY <1>1, <1>2, <1>3, <1>4, <1>5, <1>6, <1>7, <1>8, <1>9, <1>10, <1>11
  DEF Next, Step, Inside

\* Between calls pool i has been drained once every 2^i scheduled reseeds.
THEOREM PoolsOnSchedule == ASSUME Sound PROVE Spec => []DrainSchedule
<1>1. Init => Typed /\ LockOwned /\ DrainInv
  <2>1. \A i \in Pools : 0 \div 2^i = 0
    BY ConstantsAssumption, Powers DEF Pools
  <2> QED
    BY <2>1, InitTyped
    DEF Init, LockOwned, Critical, DrainInv, OnSchedule, Reseeding
<1>2. Typed /\ LockOwned /\ DrainInv /\ [Next]_vars => (Typed /\ LockOwned /\ DrainInv)'
  BY TypeStep, OwnedStep, DrainStep
<1>3. Typed /\ LockOwned /\ DrainInv => DrainSchedule
  <2> SUFFICES ASSUME Typed, LockOwned, DrainInv, lock = NoThread PROVE OnSchedule
    BY DEF DrainSchedule, OnSchedule
  <2>1. \A t \in Threads : ~Reseeding(t)
    BY ConstantsAssumption DEF LockOwned, Critical, Labels, Reseeding
  <2> QED
    BY <2>1 DEF DrainInv
<1> QED
  BY <1>1, <1>2, <1>3, PTL DEF Spec

\* ctx->pools is indexed inside its bounds by schedreseed: no number of
\* pools to drain exceeds NPOOLS as long as reseed_sched is below 2^NPOOLS.
DrainInRange ==
  \A t \in Threads : pc[t] = "schedreseed" => frame[t].pool_out <= NPOOLS

\* schedreseed indexes ctx->pools inside its bounds.
THEOREM PoolsInRange == ASSUME Sound PROVE Spec => []DrainInRange
<1>1. Init => Typed /\ LockOwned /\ DrainInv
  <2>1. \A i \in Pools : 0 \div 2^i = 0
    BY ConstantsAssumption, Powers DEF Pools
  <2> QED
    BY <2>1, InitTyped
    DEF Init, LockOwned, Critical, DrainInv, OnSchedule, Reseeding
<1>2. Typed /\ LockOwned /\ DrainInv /\ [Next]_vars => (Typed /\ LockOwned /\ DrainInv)'
  BY TypeStep, OwnedStep, DrainStep
<1>3. Typed /\ LockOwned /\ DrainInv => DrainInRange
  <2> SUFFICES ASSUME Typed, DrainInv, NEW t \in Threads, pc[t] = "schedreseed"
               PROVE  frame[t].pool_out <= NPOOLS
    BY DEF DrainInRange
  <2>1. Behind(t)
    BY DEF DrainInv, Reseeding
  <2>2. reseed_sched \in Nat \ {0} /\ reseed_sched < 2^NPOOLS
    <3>1. 2^NPOOLS \in Nat /\ MaxSched \in Nat /\ MaxSched < 2^NPOOLS
      BY ConstantsAssumption, Powers DEF Sound
    <3> QED
      BY <2>1, <3>1 DEF Behind, Typed, TypeOK
  <2> QED
    BY <2>1, <2>2, FirstSetBit DEF Behind
<1> QED
  BY <1>1, <1>2, <1>3, PTL DEF Spec
-----------------------------------------------------------------------------
(* No input waits in a pool past its period, and none is lost or doubled. *)

\* The steps that leave the schedule, the pools, the inputs and the reseed alone.
LEMMA QuietStep ==
  ASSUME Sound, Typed, LockOwned, NEW t \in Threads,
         \/ GenerateCall(t) \/ GenerateLock(t) \/ GenerateCheck(t) \/ GenerateOutput(t)
         \/ RefreshTryLock(t) \/ RefreshNothing(t)
  PROVE  /\ UNCHANGED <<reseed_sched, pool_idx, pools, seeded, since, inputs, key>>
         /\ \A u \in Threads : /\ Reseeding(u)' <=> Reseeding(u)
                               /\ pc'[u] = "schedreseed" <=> pc[u] = "schedreseed"
                               /\ Reseeding(u) => frame'[u] = frame[u]
                               /\ pc'[u] = "addentropy" <=> pc[u] = "addentropy"
                               /\ pc[u] = "addentropy" => frame'[u] = frame[u]
<1> USE DEF Typed, TypeOK, Goto
<1>1. /\ UNCHANGED <<reseed_sched, pool_idx, pools, seeded, since, inputs, key>>
      /\ pc[t] \notin {"addentropy", "schedreseed"}
  BY DEF GenerateCall, GenerateLock, GenerateCheck, GenerateOutput, RefreshTryLock,
     RefreshNothing, ctx, sched, stats, history
<1>2. /\ \E l \in Labels \ {"addentropy", "schedreseed"} : pc' = [pc EXCEPT ![t] = l]
      /\ frame' = frame \/ frame' = [frame EXCEPT ![t] = NoFrame]
  <2>1. CASE GenerateCall(t) \/ GenerateLock(t)
    BY <2>1 DEF GenerateCall, GenerateLock, Labels
  <2>2. CASE GenerateCheck(t)
    <3>1. CASE seeded
      BY <2>2, <3>1 DEF GenerateCheck, Labels
    <3>2. CASE ~seeded
      BY <2>2, <3>2 DEF GenerateCheck, UnlockAndReturn, Return, Labels
    <3> QED
      BY <3>1, <3>2
  <2>3. CASE GenerateOutput(t) \/ RefreshNothing(t)
    BY <2>3 DEF GenerateOutput, RefreshNothing, UnlockAndReturn, Return, Labels
  <2>4. CASE RefreshTryLock(t)
    <3>1. CASE Goto(t, "getentropy") /\ UNCHANGED <<frame, ret>>
      BY <3>1 DEF Labels
    <3>2. CASE Return(t, "not_reseeded")
      BY <3>2 DEF Return, Labels
    <3> QED
      BY <2>4, <3>1, <3>2 DEF RefreshTryLock
  <2> QED
    BY <2>1, <2>2, <2>3, <2>4
<1>3. \A u \in Threads \ {t} : pc'[u] = pc[u] /\ frame'[u] = frame[u]
  BY <1>2
<1>4. pc'[t] \notin {"addentropy", "schedreseed"}
  BY <1>2
<1> QED
  BY <1>1, <1>3, <1>4 DEF Reseeding

\* What pool i holds came in its present period.
Timely(i) == pools[i].data # {} => since[i] \div 2^i = reseed_sched \div 2^i

\* While t reseeds, the pools before its place are empty, and those it will not drain are
\* not yet due.
DelayInv ==
  /\ (\A t \in Threads : ~Reseeding(t)) => \A i \in Pools : Timely(i)
  /\ \A t \in Threads : Reseeding(t) =>
       \A i \in Pools :
         /\ i < frame[t].i => pools[i].data = {}
         /\ i >= frame[t].pool_out => Timely(i)

LEMMA DelayStep ==
  ASSUME Sound, Typed, LockOwned, DrainInv, DelayInv, [Next]_vars
  PROVE  DelayInv'
<1> USE DEF Typed, TypeOK, Goto
<1>0. /\ NPOOLS \in Nat \ {0} /\ MaxSched \in Nat /\ MaxSched < 2^NPOOLS
      /\ 2^NPOOLS \in Nat /\ reseed_sched < 2^NPOOLS
  BY ConstantsAssumption, Powers DEF Sound
<1>a. \A t, u \in Threads : pc[t] \in Critical /\ Reseeding(u) => t = u
  BY DEF LockOwned, Reseeding, Critical, Labels
<1>1. CASE UNCHANGED vars
  BY <1>1 DEF vars, ctx, sched, history, DelayInv, Timely, Reseeding
<1>2. ASSUME NEW t \in Threads,
             \/ GenerateCall(t) \/ GenerateLock(t) \/ GenerateCheck(t) \/ GenerateOutput(t)
             \/ RefreshTryLock(t) \/ RefreshNothing(t)
      PROVE  DelayInv'
  <2>1. /\ UNCHANGED <<reseed_sched, pools, since>>
        /\ \A u \in Threads : /\ Reseeding(u)' <=> Reseeding(u)
                              /\ Reseeding(u) => frame'[u] = frame[u]
    BY <1>2, QuietStep
  <2> QED
    BY <2>1 DEF DelayInv, Timely
<1>3. ASSUME NEW t \in Threads, RefreshFailure(t) PROVE DelayInv'
  <2>1. \A u \in Threads : ~Reseeding(u)'
    <3>1. \A u \in Threads : u # t => ~Reseeding(u)
      BY <1>3, <1>a DEF RefreshFailure, Critical, Labels
    <3>2. pc' = [pc EXCEPT ![t] = "idle"] /\ frame' = [frame EXCEPT ![t] = NoFrame]
      BY <1>3 DEF RefreshFailure, UnlockAndReturn, Return
    <3> QED
      BY <3>1, <3>2 DEF Reseeding
  <2>2. \A i \in Pools : since'[i] = reseed_sched'
    BY <1>3 DEF RefreshFailure, reset
  <2> QED
    BY <2>1, <2>2 DEF DelayInv, Timely
<1>4. ASSUME NEW t \in Threads, schedule(t) PROVE DelayInv'
  <2>1. pc[t] = "getentropy" /\ \A u \in Threads : ~Reseeding(u)
    BY <1>4, <1>a DEF schedule, Critical, Labels, Reseeding
  <2>2. \A i \in Pools : Timely(i)
    BY <2>1 DEF DelayInv
  <2>3. PICK n \in SampleCounts : frame' = [frame EXCEPT ![t] =
          [n |-> n, pool_in |-> pool_idx, pool_out |-> pool_out(reseed_sched),
           i |-> 0, nsamples |-> 0, sha |-> {}]]
    BY <1>4 DEF schedule
  <2>4. pc' = [pc EXCEPT ![t] = "addentropy"] /\ UNCHANGED <<pools, since>>
    BY <1>4 DEF schedule, history
  <2>5. \A u \in Threads \ {t} : ~Reseeding(u)'
    BY <2>1, <2>3, <2>4 DEF Reseeding
  <2>6. CASE pool_idx = 0
    <3>1. reseed_sched' = reseed_sched + 1 /\ reseed_sched + 1 < 2^NPOOLS
      BY <1>0, <1>4, <2>6 DEF schedule
    <3>2. frame'[t].pool_out = ffs64(reseed_sched + 1) /\ frame'[t].i = 0
      BY <2>3, <2>6 DEF pool_out
    <3>3. ffs64(reseed_sched + 1) \in 1 .. NPOOLS
      BY <3>1, FirstSetBit, reseed_sched + 1 \in Nat \ {0}
    <3>4. Reseeding(t)'
      BY <1>0, <2>4, <3>2, <3>3 DEF Reseeding
    <3>5. ASSUME NEW i \in Pools
          PROVE  ~(i < 0) /\ (i >= ffs64(reseed_sched + 1) => Timely(i)')
      <4>1. ~(i < 0) /\ (i >= ffs64(reseed_sched + 1) <=> ~(i < ffs64(reseed_sched + 1)))
        BY <1>0, <3>3 DEF Pools
      <4>2. i >= ffs64(reseed_sched + 1) =>
              (reseed_sched + 1) \div 2^i = reseed_sched \div 2^i
        BY <3>1, <4>1, FallBehind
      <4> QED
        BY <2>2, <2>4, <3>1, <4>1, <4>2 DEF Timely
    <3> QED
      BY <2>5, <3>2, <3>4, <3>5 DEF DelayInv
  <2>7. CASE pool_idx # 0
    <3>1. reseed_sched' = reseed_sched /\ frame'[t].pool_out = -1
      BY <1>4, <2>3, <2>7 DEF schedule, pool_out
    <3>2. ~Reseeding(t)'
      BY <2>4, <3>1 DEF Reseeding
    <3> QED
      BY <2>2, <2>4, <2>5, <3>1, <3>2 DEF DelayInv, Timely
  <2> QED
    BY <2>6, <2>7
<1>5. ASSUME NEW t \in Threads, addentropy(t) PROVE DelayInv'
  <2> DEFINE f == frame[t]
  <2>1. pc[t] = "addentropy" /\ UNCHANGED reseed_sched
    BY <1>5 DEF addentropy, sched
  <2>2. \A u \in Threads \ {t} : ~Reseeding(u) /\ pc'[u] = pc[u] /\ frame'[u] = frame[u]
    BY <1>5, <1>a, <2>1 DEF addentropy, UnlockAndReturn, Return, Critical, Labels
  <2>3. \A u \in Threads \ {t} : ~Reseeding(u)'
    BY <2>2 DEF Reseeding
  <2>4. ASSUME NEW i \in Pools, Timely(i) PROVE Timely(i)'
    <3>1. CASE i = f.pool_in
      <4>1. CASE pools[i].data = {}
        BY <1>5, <2>1, <3>1, <4>1 DEF addentropy, Timely
      <4>2. CASE pools[i].data # {}
        BY <1>5, <2>1, <2>4, <3>1, <4>2 DEF addentropy, Timely
      <4> QED
        BY <4>1, <4>2
    <3>2. CASE i # f.pool_in
      <4>1. since'[i] = since[i] /\ pools'[i] = pools[i]
        BY <1>5, <3>2 DEF addentropy
      <4> QED
        BY <2>1, <2>4, <4>1 DEF Timely
    <3> QED
      BY <3>1, <3>2
  <2>5. CASE f.pool_out = -1
    <3>1. ~Reseeding(t) /\ pc' = [pc EXCEPT ![t] = "idle"]
      BY <1>5, <2>1, <2>5 DEF addentropy, UnlockAndReturn, Return, Reseeding
    <3>2. \A u \in Threads : ~Reseeding(u)' /\ ~Reseeding(u)
      BY <2>2, <3>1 DEF Reseeding
    <3> QED
      BY <2>4, <3>2 DEF DelayInv
  <2>6. CASE f.pool_out # -1
    <3>1. /\ frame'[t].pool_out = f.pool_out /\ frame'[t].i = 0
          /\ pc' = [pc EXCEPT ![t] = "schedreseed"]
      BY <1>5, <2>6 DEF addentropy
    <3>2. Reseeding(t) /\ Reseeding(t)'
      BY <2>1, <2>6, <3>1 DEF Reseeding
    <3>3. \A i \in Pools : ~(i < 0) /\ (i >= f.pool_out => Timely(i))
      BY <1>0, <3>2 DEF DelayInv, Pools
    <3> QED
      BY <2>3, <2>4, <3>1, <3>2, <3>3 DEF DelayInv
  <2> QED
    BY <2>5, <2>6
<1>6. ASSUME NEW t \in Threads, schedreseed_drain(t) PROVE DelayInv'
  <2> DEFINE f == frame[t]
  <2>1. /\ pc[t] = "schedreseed" /\ f.i < f.pool_out /\ f.i \in Pools
        /\ frame'[t].pool_out = f.pool_out /\ frame'[t].i = f.i + 1
        /\ UNCHANGED <<reseed_sched, since>>
    BY <1>6 DEF schedreseed_drain, sched, history
  <2>2. pools'[f.i].data = {} /\ \A i \in Pools \ {f.i} : pools'[i] = pools[i]
    BY <1>6, <2>1 DEF schedreseed_drain, emptied
  <2>3. \A i \in Pools : /\ i < f.i => pools[i].data = {}
                         /\ i >= f.pool_out => Timely(i)
    BY <2>1 DEF DelayInv, Reseeding
  <2>4. \A i \in Pools : i < f.i + 1 => i = f.i \/ i < f.i
    BY <1>0, <2>1 DEF Pools
  <2>5. \A i \in Pools : i < f.i + 1 => pools'[i].data = {}
    BY <2>2, <2>3, <2>4
  <2>6. \A i \in Pools : i >= f.pool_out => Timely(i)'
    BY <2>1, <2>2, <2>3 DEF Timely
  <2>7. \A u \in Threads \ {t} : ~Reseeding(u)'
    BY <1>6, <1>a, <2>1 DEF schedreseed_drain, Reseeding, Critical, Labels
  <2>8. Reseeding(t)'
    BY <1>6, <2>1 DEF schedreseed_drain, Reseeding
  <2> QED
    BY <2>1, <2>5, <2>6, <2>7, <2>8 DEF DelayInv
<1>7. ASSUME NEW t \in Threads, schedreseed_final(t) PROVE DelayInv'
  <2>1. /\ pc[t] = "schedreseed" /\ frame[t].i = frame[t].pool_out
        /\ pc' = [pc EXCEPT ![t] = "idle"] /\ UNCHANGED <<reseed_sched, pools, since>>
    BY <1>7 DEF schedreseed_final, UnlockAndReturn, Return, sched, history
  <2>2. \A u \in Threads : ~Reseeding(u)'
    <3>1. frame' = [frame EXCEPT ![t] = NoFrame]
      BY <1>7 DEF schedreseed_final, UnlockAndReturn, Return
    <3> QED
      BY <1>a, <2>1, <3>1 DEF Reseeding, Critical, Labels
  <2>3. \A i \in Pools : i < frame[t].i \/ i >= frame[t].pool_out
    BY <1>0, <2>1 DEF Pools, Frame
  <2>4. \A i \in Pools : Timely(i)
    BY <2>1, <2>3 DEF DelayInv, Reseeding, Timely
  <2> QED
    BY <2>1, <2>2, <2>4 DEF DelayInv, Timely
<1> QED
  BY <1>1, <1>2, <1>3, <1>4, <1>5, <1>6, <1>7 DEF Next, Step, Inside

\* Between calls what is in pool i came since the last reseed that drained it: the round
\* robin of schedule, its counter and the reset keep step.
THEOREM InputsInTime == ASSUME Sound PROVE Spec => []BoundedDelay
<1>1. Init => Typed /\ LockOwned /\ DrainInv /\ DelayInv
  <2>1. \A i \in Pools : 0 \div 2^i = 0
    BY ConstantsAssumption, Powers DEF Pools
  <2> QED
    BY <2>1, InitTyped
    DEF Init, LockOwned, Critical, DrainInv, OnSchedule, Reseeding, DelayInv, Timely
<1>2. Typed /\ LockOwned /\ DrainInv /\ DelayInv /\ [Next]_vars
        => (Typed /\ LockOwned /\ DrainInv /\ DelayInv)'
  BY TypeStep, OwnedStep, DrainStep, DelayStep
<1>3. Typed /\ LockOwned /\ DelayInv => BoundedDelay
  <2> SUFFICES ASSUME Typed, LockOwned, DelayInv, lock = NoThread
               PROVE  \A i \in Pools : Timely(i)
    BY DEF BoundedDelay, Timely
  <2>1. \A t \in Threads : ~Reseeding(t)
    BY ConstantsAssumption DEF LockOwned, Critical, Labels, Reseeding
  <2> QED
    BY <2>1 DEF DelayInv
<1> QED
  BY <1>1, <1>2, <1>3, PTL DEF Spec

\* Where an input can be, one input at a time; the digest of a reseed begins with the key.
Conserved ==
  /\ \A x \in Nat : x \in Inputs <=>
       \/ x \in key
       \/ \E i \in Pools : x \in pools[i].data
       \/ \E t \in Threads : x \in Digest(t)
  /\ \A i \in Pools : \A x \in pools[i].data :
       /\ x \notin key
       /\ \A j \in Pools \ {i} : x \notin pools[j].data
       /\ \A t \in Threads : x \notin Digest(t)
  /\ \A t \in Threads : pc[t] = "schedreseed" => key \subseteq frame[t].sha

LEMMA ConservedStep ==
  ASSUME Sound, Typed, LockOwned, Conserved, [Next]_vars
  PROVE  Conserved'
<1> USE DEF Typed, TypeOK, Goto
<1>0. NPOOLS \in Nat \ {0}
  BY ConstantsAssumption
\* While t is inside nobody else reseeds.
<1>a. \A t, u \in Threads : pc[t] \in Critical /\ pc[u] = "schedreseed" => t = u
  BY DEF LockOwned, Critical, Labels
<1>1. CASE UNCHANGED vars
  BY <1>1 DEF vars, ctx, history, Conserved, Digest, Inputs
<1>2. ASSUME NEW t \in Threads,
             \/ GenerateCall(t) \/ GenerateLock(t) \/ GenerateCheck(t) \/ GenerateOutput(t)
             \/ RefreshTryLock(t) \/ RefreshNothing(t)
      PROVE  Conserved'
  <2>1. /\ UNCHANGED <<pools, inputs, key>>
        /\ \A u \in Threads : /\ pc'[u] = "schedreseed" <=> pc[u] = "schedreseed"
                              /\ pc[u] = "schedreseed" => frame'[u] = frame[u]
    BY <1>2, QuietStep DEF Reseeding
  <2>2. \A u \in Threads : Digest(u)' = Digest(u)
    BY <2>1 DEF Digest
  <2> QED
    BY <2>1, <2>2 DEF Conserved, Inputs
<1>3. ASSUME NEW t \in Threads, RefreshFailure(t) \/ schedule(t) PROVE Conserved'
  <2>1. pc[t] = "getentropy" /\ UNCHANGED <<inputs, key>>
    BY <1>3 DEF RefreshFailure, schedule, history
  <2>2. \A u \in Threads : pc[u] # "schedreseed"
    BY <1>a, <2>1 DEF Critical, Labels
  <2>3. \A u \in Threads : pc'[u] # "schedreseed"
    BY <1>3, <2>2 DEF RefreshFailure, schedule, UnlockAndReturn, Return
  <2>4. \A i \in Pools : pools'[i].data = pools[i].data
    BY <1>3 DEF RefreshFailure, reset, schedule
  <2>5. \A u \in Threads : Digest(u) = {} /\ Digest(u)' = {}
    BY <2>2, <2>3 DEF Digest
  <2> QED
    BY <2>1, <2>3, <2>4, <2>5 DEF Conserved, Inputs
<1>4. ASSUME NEW t \in Threads, addentropy(t) PROVE Conserved'
  <2> DEFINE f == frame[t]
             new == Len(inputs) + 1
             d == f.pool_in
  <2>1. /\ pc[t] = "addentropy" /\ UNCHANGED key /\ d \in Pools
        /\ inputs' = Append(inputs, f.n)
    BY <1>4 DEF addentropy, Frame
  <2>2. pools'[d].data = pools[d].data \cup {new} /\ \A i \in Pools \ {d} : pools'[i] = pools[i]
    BY <1>4, <2>1 DEF addentropy
  <2>3. \A u \in Threads : pc[u] # "schedreseed"
    BY <1>a, <2>1 DEF Critical, Labels
  <2>4. \A u \in Threads : pc'[u] = "schedreseed" => frame'[u].sha = key
    BY <1>4, <2>3 DEF addentropy, UnlockAndReturn, Return, DigestStart
  <2>5. \A u \in Threads : Digest(u) = {} /\ Digest(u)' = {}
    BY <2>1, <2>3, <2>4 DEF Digest
  <2>6. Len(inputs) \in Nat /\ Len(inputs') = new /\ new \in Nat
    <3>1. f.n \in Nat /\ inputs \in Seq(Nat)
      BY DEF Frame
    <3> QED
      BY <2>1, <3>1
  <2>7. \A x \in Nat : x \in 1 .. new <=> x \in 1 .. Len(inputs) \/ x = new
    BY <2>6
  <2>8. \A x \in Nat : x \in Inputs' <=> x \in Inputs \/ x = new
    BY <2>6, <2>7 DEF Inputs
  <2>9. new \notin Inputs
    BY <2>6 DEF Inputs
  <2> HIDE DEF new, d, f
  <2>10. new \notin key /\ \A i \in Pools : new \notin pools[i].data
    BY <2>6, <2>9 DEF Conserved
  <2>11. \A x \in Nat : (\E i \in Pools : x \in pools'[i].data) <=>
           x = new \/ \E i \in Pools : x \in pools[i].data
    BY <2>1, <2>2
  <2>12. \A x \in Nat : x \in Inputs' <=>
           \/ x \in key'
           \/ \E i \in Pools : x \in pools'[i].data
           \/ \E u \in Threads : x \in Digest(u)'
    BY <2>1, <2>5, <2>8, <2>11 DEF Conserved
  <2>13. \A i \in Pools : \A x \in pools'[i].data :
           x \notin key' /\ \A j \in Pools \ {i} : x \notin pools'[j].data
    BY <2>1, <2>2, <2>10 DEF Conserved
  <2>14. \A i \in Pools : \A x \in pools'[i].data :
           \A u \in Threads : x \notin Digest(u)'
    BY <2>5
  <2>15. \A u \in Threads : pc'[u] = "schedreseed" => key' \subseteq frame'[u].sha
    BY <2>1, <2>4
  <2> QED
    BY <2>12, <2>13, <2>14, <2>15 DEF Conserved
<1>5. ASSUME NEW t \in Threads, schedreseed_drain(t) PROVE Conserved'
  <2> DEFINE f == frame[t]
             d == f.i
  <2>1. /\ pc[t] = "schedreseed" /\ d \in Pools
        /\ frame'[t].sha = f.sha \cup pools[d].data
        /\ UNCHANGED <<pc, inputs, key>>
    BY <1>5 DEF schedreseed_drain, history
  <2>2. pools'[d].data = {} /\ \A i \in Pools \ {d} : pools'[i] = pools[i]
    BY <1>5, <2>1 DEF schedreseed_drain, emptied
  <2>3. \A u \in Threads \ {t} : pc[u] # "schedreseed"
    BY <1>a, <2>1 DEF Critical, Labels
  <2> HIDE DEF d
  <2>4. pools[d].data \cap key = {}
    BY <2>1 DEF Conserved
  <2>5. Digest(t)' = Digest(t) \cup pools[d].data
    BY <2>1, <2>4 DEF Digest
  <2>6. \A u \in Threads \ {t} : Digest(u) = {} /\ Digest(u)' = {}
    BY <2>1, <2>3 DEF Digest
  <2>7. \A x \in Nat : x \in Inputs' <=>
          \/ x \in key'
          \/ \E i \in Pools : x \in pools'[i].data
          \/ \E u \in Threads : x \in Digest(u)'
    BY <2>1, <2>2, <2>5, <2>6 DEF Conserved, Inputs
  <2>8. \A i \in Pools : \A x \in pools'[i].data :
          /\ x \notin key'
          /\ \A j \in Pools \ {i} : x \notin pools'[j].data
          /\ \A u \in Threads : x \notin Digest(u)'
    BY <2>1, <2>2, <2>5, <2>6 DEF Conserved
  <2>9. \A u \in Threads : pc'[u] = "schedreseed" => key' \subseteq frame'[u].sha
    BY <2>1, <2>3 DEF Conserved
  <2> QED
    BY <2>7, <2>8, <2>9 DEF Conserved
<1>6. ASSUME NEW t \in Threads, schedreseed_final(t) PROVE Conserved'
  <2>1. /\ pc[t] = "schedreseed" /\ pc' = [pc EXCEPT ![t] = "idle"]
        /\ key' = frame[t].sha /\ UNCHANGED <<pools, inputs>>
    BY <1>6 DEF schedreseed_final, UnlockAndReturn, Return, history
  <2>2. \A u \in Threads \ {t} : pc[u] # "schedreseed"
    BY <1>a, <2>1 DEF Critical, Labels
  <2>3. \A u \in Threads : pc'[u] # "schedreseed"
    BY <2>1, <2>2
  <2>4. \A x : x \in key' <=> x \in key \/ x \in Digest(t)
    BY <2>1 DEF Conserved, Digest
  <2>5. \A u \in Threads : Digest(u)' = {} /\ (u # t => Digest(u) = {})
    BY <2>2, <2>3 DEF Digest
  <2> QED
    BY <2>1, <2>3, <2>4, <2>5 DEF Conserved, Inputs
<1> QED
  BY <1>1, <1>2, <1>3, <1>4, <1>5, <1>6 DEF Next, Step, Inside

\* Every input that was accepted is in one pool, in the running digest or in the key:
\* addentropy, the drain loop and reset lose none and feed none twice.
THEOREM InputsKept == ASSUME Sound PROVE Spec => []InputsConserved
<1>1. Init => Typed /\ LockOwned /\ Conserved
  <2> SUFFICES ASSUME Init PROVE Conserved
    BY InitTyped DEF Init, LockOwned, Critical
  <2>1. Inputs = {} /\ \A t \in Threads : Digest(t) = {}
    BY DEF Init, Inputs, Digest
  <2> QED
    BY <2>1 DEF Init, Conserved
<1>2. Typed /\ LockOwned /\ Conserved /\ [Next]_vars => (Typed /\ LockOwned /\ Conserved)'
  BY TypeStep, OwnedStep, ConservedStep
<1>3. Typed /\ Conserved => InputsConserved
  <2> SUFFICES ASSUME Typed, Conserved PROVE InputsConserved
    OBVIOUS
  <2>1. /\ Inputs \subseteq Nat /\ key \subseteq Nat
        /\ \A i \in Pools : pools[i].data \subseteq Nat
        /\ \A t \in Threads : Digest(t) \subseteq Nat
    BY DEF Typed, TypeOK, Inputs, Pool, Digest, Frame
  <2> DEFINE A == UNION {pools[i].data : i \in Pools}
             B == UNION {Digest(t) : t \in Threads}
  <2>2. /\ \A x : x \in A <=> \E i \in Pools : x \in pools[i].data
        /\ \A x : x \in B <=> \E t \in Threads : x \in Digest(t)
    OBVIOUS
  <2> HIDE DEF A, B
  <2>4. \A x \in Nat : x \in Inputs <=> x \in key \/ x \in A \/ x \in B
    BY <2>2 DEF Conserved
  <2>5. A \subseteq Nat /\ B \subseteq Nat
    BY <2>1, <2>2
  <2>6. key \cup A \cup B = Inputs
    BY <2>1, <2>4, <2>5
  <2>3. \A i \in Pools :
          /\ pools[i].data \cap key = {}
          /\ \A j \in Pools \ {i} : pools[i].data \cap pools[j].data = {}
          /\ \A t \in Threads : pools[i].data \cap Digest(t) = {}
    BY DEF Conserved
  <2> QED
    BY <2>3, <2>6 DEF InputsConserved, A, B
<1> QED
  BY <1>1, <1>2, <1>3, PTL DEF Spec

-----------------------------------------------------------------------------
(* The sums of EntropyMixer.tla. *)

\* The recursion that adds up those of the numbers of s whose place is in S.
SumsUp(s, S, f) ==
  f = [i \in 0 .. Len(s) |-> IF i = 0 THEN 0 ELSE f[i - 1] + (IF i \in S THEN s[i] ELSE 0)]
Sums(s, S) == CHOOSE f : SumsUp(s, S, f)
Total(s, S) == Sums(s, S)[Len(s)]

LEMMA SamplesAreTotal == \A S : Mixer!Samples(S) = Total(inputs, S)
BY DEF Mixer!Samples, Total, Sums, SumsUp

\* The recursive sum is defined on every sequence: it is at no length the first where it is not.
LEMMA SumsExist == ASSUME NEW s \in Seq(Nat), NEW S PROVE SumsUp(s, S, Sums(s, S))
<1> DEFINE Upto(n, f) ==
      f = [i \in 0 .. n |-> IF i = 0 THEN 0 ELSE f[i - 1] + (IF i \in S THEN s[i] ELSE 0)]
           N == Len(s)
           T == {n \in 0 .. N : \A f : ~Upto(n, f)}
<1>1. N \in Nat
  BY LenProperties
<1>2. T = {}
  <2> SUFFICES ASSUME T # {} PROVE FALSE
    OBVIOUS
  <2>1. PICK n \in T : \A k \in T : n <= k
    BY LeastElement, T \subseteq Nat, <1>1
  <2>2. n # 0
    <3> DEFINE g == [i \in 0 .. 0 |-> 0]
    <3>1. g = [i \in 0 .. 0 |-> IF i = 0 THEN 0 ELSE g[i - 1] + (IF i \in S THEN s[i] ELSE 0)]
      OBVIOUS
    <3>2. Upto(0, g)
      BY <3>1
    <3> QED
      BY <3>2
  <2>3. n - 1 \in 0 .. N /\ n - 1 \notin T
    <3>1. n \in 0 .. N /\ n - 1 \in 0 .. N /\ n - 1 < n
      BY <1>1, <2>2
    <3> HIDE DEF T
    <3>2. n - 1 \in T => n <= n - 1
      BY <2>1
    <3> QED
      BY <1>1, <3>1, <3>2
  <2>4. PICK f : Upto(n - 1, f)
    BY <2>3
  <2> DEFINE v == f[n - 1] + (IF n \in S THEN s[n] ELSE 0)
             g == [i \in 0 .. n |-> IF i = n THEN v ELSE f[i]]
  <2>5. \A i \in 0 .. n : g[i] = IF i = 0 THEN 0 ELSE g[i - 1] + (IF i \in S THEN s[i] ELSE 0)
    <3> TAKE i \in 0 .. n
    <3>1. CASE i = n
      <4>1. n - 1 \in 0 .. n /\ n - 1 # n /\ n \in 0 .. n
        BY <1>1, <2>1, <2>2
      <4>2. g[n] = v /\ g[n - 1] = f[n - 1]
        BY <4>1
      <4> HIDE DEF g
      <4> QED
        BY <2>2, <3>1, <4>2
    <3>2. CASE i # n
      <4>1. i \in 0 .. n - 1 /\ (i # 0 => i - 1 \in 0 .. n /\ i - 1 # n)
        BY <1>1, <2>1, <3>2
      <4>2. f[i] = IF i = 0 THEN 0 ELSE f[i - 1] + (IF i \in S THEN s[i] ELSE 0)
        BY <2>4, <4>1
      <4>3. g[i] = f[i] /\ (i # 0 => g[i - 1] = f[i - 1])
        BY <3>2, <4>1
      <4> HIDE DEF g
      <4> QED
        BY <4>2, <4>3
    <3> QED
      BY <3>1, <3>2
  <2>6. Upto(n, g)
    <3>1. g = [i \in 0 .. n |-> g[i]]
      OBVIOUS
    <3> HIDE DEF g
    <3> QED
      BY <2>5, <3>1
  <2> HIDE DEF g, Upto
  <2> QED
    BY <2>1, <2>6
<1>3. \E f : Upto(N, f)
  BY <1>1, <1>2
<1>4. \E f : SumsUp(s, S, f)
  BY <1>3 DEF SumsUp
<1> QED
  BY <1>4 DEF Sums

LEMMA SumsStep ==
  ASSUME NEW s \in Seq(Nat), NEW S
  PROVE  /\ Sums(s, S)[0] = 0
         /\ \A i \in 1 .. Len(s) :
              Sums(s, S)[i] = Sums(s, S)[i - 1] + (IF i \in S THEN s[i] ELSE 0)
<1> DEFINE f == Sums(s, S)
<1>1. Len(s) \in Nat
  BY LenProperties
<1>2. f = [i \in 0 .. Len(s) |-> IF i = 0 THEN 0 ELSE f[i - 1] + (IF i \in S THEN s[i] ELSE 0)]
  BY SumsExist DEF SumsUp
<1> HIDE DEF f
<1>3. \A i \in 0 .. Len(s) :
        f[i] = IF i = 0 THEN 0 ELSE f[i - 1] + (IF i \in S THEN s[i] ELSE 0)
  BY <1>2
<1>4. /\ f[0] = 0
      /\ \A i \in 1 .. Len(s) : f[i] = f[i - 1] + (IF i \in S THEN s[i] ELSE 0)
  BY <1>1, <1>3
<1> QED
  BY <1>4 DEF f

LEMMA SumsType ==
  ASSUME NEW s \in Seq(Nat), NEW S PROVE \A i \in 0 .. Len(s) : Sums(s, S)[i] \in Nat
<1> DEFINE T == {i \in 0 .. Len(s) : Sums(s, S)[i] \notin Nat}
<1>1. Len(s) \in Nat /\ \A i \in 1 .. Len(s) : s[i] \in Nat
  BY LenProperties, ElementOfSeq
<1>2. T = {}
  <2> SUFFICES ASSUME T # {} PROVE FALSE
    OBVIOUS
  <2>1. PICK n \in T : \A k \in T : n <= k
    BY LeastElement, T \subseteq Nat, <1>1
  <2>2. n \in 1 .. Len(s) /\ n - 1 \in 0 .. Len(s) /\ n - 1 \notin T
    BY <1>1, <2>1, SumsStep
  <2>3. Sums(s, S)[n - 1] \in Nat
    BY <2>2
  <2>4. Sums(s, S)[n] = Sums(s, S)[n - 1] + (IF n \in S THEN s[n] ELSE 0) /\ s[n] \in Nat
    BY <1>1, <2>2, SumsStep
  <2>5. Sums(s, S)[n] \in Nat
    BY <2>3, <2>4
  <2> QED
    BY <2>5
<1> QED
  BY <1>2

\* What two sets hold that share nothing is what either holds.
LEMMA TotalOfBoth ==
  ASSUME NEW s \in Seq(Nat), NEW A, NEW B, A \cap B = {}
  PROVE  Total(s, A \cup B) = Total(s, A) + Total(s, B)
<1> DEFINE f == Sums(s, A \cup B)
           g == Sums(s, A)
           h == Sums(s, B)
           T == {i \in 0 .. Len(s) : f[i] # g[i] + h[i]}
<1>1. Len(s) \in Nat /\ \A i \in 1 .. Len(s) : s[i] \in Nat
  BY LenProperties, ElementOfSeq
<1>2. /\ f[0] = 0 /\ g[0] = 0 /\ h[0] = 0
      /\ \A i \in 1 .. Len(s) : f[i] = f[i - 1] + (IF i \in A \cup B THEN s[i] ELSE 0)
      /\ \A i \in 1 .. Len(s) : g[i] = g[i - 1] + (IF i \in A THEN s[i] ELSE 0)
      /\ \A i \in 1 .. Len(s) : h[i] = h[i - 1] + (IF i \in B THEN s[i] ELSE 0)
  BY SumsStep
<1>3. \A i \in 0 .. Len(s) : f[i] \in Nat /\ g[i] \in Nat /\ h[i] \in Nat
  BY SumsType
<1> HIDE DEF f, g, h
<1>4. T = {}
  <2> SUFFICES ASSUME T # {} PROVE FALSE
    OBVIOUS
  <2>1. PICK n \in T : \A k \in T : n <= k
    BY LeastElement, T \subseteq Nat, <1>1
  <2>2. n \in 1 .. Len(s) /\ n - 1 \in 0 .. Len(s) /\ n - 1 \notin T
    BY <1>1, <1>2, <2>1
  <2>3. f[n - 1] = g[n - 1] + h[n - 1]
    BY <2>2
  <2>4. /\ f[n] = f[n - 1] + (IF n \in A \cup B THEN s[n] ELSE 0)
        /\ g[n] = g[n - 1] + (IF n \in A THEN s[n] ELSE 0)
        /\ h[n] = h[n - 1] + (IF n \in B THEN s[n] ELSE 0)
        /\ s[n] \in Nat /\ g[n - 1] \in Nat /\ h[n - 1] \in Nat
    BY <1>1, <1>2, <1>3, <2>2
  <2>5. f[n] = g[n] + h[n]
    BY <2>3, <2>4
  <2> QED
    BY <2>5
<1>5. Len(s) \in 0 .. Len(s)
  BY <1>1
<1>6. f[Len(s)] = g[Len(s)] + h[Len(s)]
  BY <1>4, <1>5
<1> QED
  BY <1>6 DEF Total, f, g, h

LEMMA TotalType == ASSUME NEW s \in Seq(Nat), NEW S PROVE Total(s, S) \in Nat
BY SumsType, LenProperties DEF Total

\* Another number counts where its place does.
LEMMA TotalOfAppend ==
  ASSUME NEW s \in Seq(Nat), NEW n \in Nat, NEW S
  PROVE  Total(Append(s, n), S) = Total(s, S) + (IF Len(s) + 1 \in S THEN n ELSE 0)
<1> DEFINE r == Append(s, n)
           f == Sums(s, S)
           g == Sums(r, S)
           T == {i \in 0 .. Len(s) : f[i] # g[i]}
<1>1. /\ Len(s) \in Nat /\ r \in Seq(Nat) /\ Len(r) = Len(s) + 1 /\ r[Len(s) + 1] = n
      /\ \A i \in 1 .. Len(s) : r[i] = s[i]
  BY LenProperties, AppendProperties
<1>2. /\ f[0] = 0
      /\ \A i \in 1 .. Len(s) : f[i] = f[i - 1] + (IF i \in S THEN s[i] ELSE 0)
  BY SumsStep
<1>3. /\ g[0] = 0
      /\ \A i \in 1 .. Len(r) : g[i] = g[i - 1] + (IF i \in S THEN r[i] ELSE 0)
  <2> HIDE DEF r
  <2> QED
    BY <1>1, SumsStep
<1> HIDE DEF f, g, r
<1>4. T = {}
  <2> SUFFICES ASSUME T # {} PROVE FALSE
    OBVIOUS
  <2>1. PICK k \in T : \A j \in T : k <= j
    BY LeastElement, T \subseteq Nat, <1>1
  <2>2. k \in 1 .. Len(s) /\ k \in 1 .. Len(r) /\ k - 1 \in 0 .. Len(s) /\ k - 1 \notin T
    BY <1>1, <1>2, <1>3, <2>1
  <2>3. f[k - 1] = g[k - 1] /\ r[k] = s[k]
    BY <1>1, <2>2
  <2> QED
    BY <1>2, <1>3, <2>1, <2>2, <2>3
<1>5. g[Len(s)] = f[Len(s)]
  BY <1>1, <1>4
<1>6. g[Len(r)] = g[Len(s)] + (IF Len(s) + 1 \in S THEN n ELSE 0)
  BY <1>1, <1>3
<1> QED
  BY <1>5, <1>6 DEF Total, f, g, r

-----------------------------------------------------------------------------
(* The mixer. *)

\* The counts of a pool and of a reseed do not exceed the samples of the inputs they stand
\* for: they fall behind by a reset, which keeps the digests, and by wrapping.
MixInv ==
  /\ \A i \in Pools : pools[i].nsamples <= Total(inputs, pools[i].data)
  /\ \A t \in Threads :
       /\ pc[t] = "schedreseed" => frame[t].nsamples <= Total(inputs, Digest(t))
       /\ pc[t] = "addentropy" => frame[t].n \in SampleCounts

LEMMA NoMoreThanWhole ==
  ASSUME NEW k \in Nat, NEW d \in Nat \ {0} PROVE k % d \in Nat /\ k % d <= k
OBVIOUS

LEMMA MixStep ==
  ASSUME Sound, Typed, LockOwned, Conserved, MixInv, [Next]_vars
  PROVE  MixInv'
<1> USE DEF Typed, TypeOK, Goto
<1>0. NPOOLS \in Nat \ {0} /\ U32 \in Nat \ {0} /\ inputs \in Seq(Nat)
  BY ConstantsAssumption
<1>a. \A t, u \in Threads :
        pc[t] \in Critical /\ pc[u] \in {"addentropy", "schedreseed"} => t = u
  BY DEF LockOwned, Critical, Labels
<1>1. CASE UNCHANGED vars
  BY <1>1 DEF vars, ctx, history, MixInv, Digest
<1>2. ASSUME NEW t \in Threads,
             \/ GenerateCall(t) \/ GenerateLock(t) \/ GenerateCheck(t) \/ GenerateOutput(t)
             \/ RefreshTryLock(t) \/ RefreshNothing(t)
      PROVE  MixInv'
  <2>1. /\ UNCHANGED <<pools, inputs, key>>
        /\ \A u \in Threads : /\ pc'[u] = "schedreseed" <=> pc[u] = "schedreseed"
                              /\ pc[u] = "schedreseed" => frame'[u] = frame[u]
                              /\ pc'[u] = "addentropy" =>
                                   pc[u] = "addentropy" /\ frame'[u] = frame[u]
    BY <1>2, QuietStep DEF Reseeding
  <2>2. \A u \in Threads : Digest(u)' = Digest(u)
    BY <2>1 DEF Digest
  <2> QED
    BY <2>1, <2>2 DEF MixInv
<1>3. ASSUME NEW t \in Threads, RefreshFailure(t) \/ schedule(t) PROVE MixInv'
  <2>1. pc[t] = "getentropy" /\ UNCHANGED inputs
    BY <1>3 DEF RefreshFailure, schedule, history
  <2>2. \A u \in Threads : pc[u] \notin {"addentropy", "schedreseed"}
    BY <1>a, <2>1 DEF Critical, Labels
  <2>3. \A i \in Pools : pools'[i].nsamples <= Total(inputs', pools'[i].data)
    <3>1. CASE RefreshFailure(t)
      <4>1. \A i \in Pools : pools'[i].nsamples = 0
        BY <3>1 DEF RefreshFailure, reset
      <4> QED
        BY <1>0, <2>1, <4>1, TotalType
    <3>2. CASE schedule(t)
      BY <2>1, <3>2 DEF schedule, MixInv
    <3> QED
      BY <1>3, <3>1, <3>2
  <2>4. \A u \in Threads : /\ pc'[u] # "schedreseed"
                           /\ pc'[u] = "addentropy" => frame'[u].n \in SampleCounts
    <3>1. CASE RefreshFailure(t)
      BY <2>2, <3>1 DEF RefreshFailure, UnlockAndReturn, Return
    <3>2. CASE schedule(t)
      BY <2>2, <3>2 DEF schedule
    <3> QED
      BY <1>3, <3>1, <3>2
  <2> QED
    BY <2>3, <2>4 DEF MixInv
<1>4. ASSUME NEW t \in Threads, addentropy(t) PROVE MixInv'
  <2> DEFINE new == Len(inputs) + 1
  <2>1. PICK d, n : d = frame[t].pool_in /\ n = frame[t].n
    OBVIOUS
  <2>2. /\ pc[t] = "addentropy" /\ d \in Pools /\ n \in Nat
        /\ inputs' = Append(inputs, n) /\ inputs' \in Seq(Nat)
    BY <1>4, <2>1, AppendProperties DEF addentropy, Frame
  <2>3. /\ pools'[d].data = pools[d].data \cup {new}
        /\ pools'[d].nsamples = pools[d].nsamples + n
        /\ \A i \in Pools \ {d} : pools'[i] = pools[i]
    BY <1>4, <2>1, <2>2 DEF addentropy
  <2>4. \A u \in Threads : pc[u] # "schedreseed"
    BY <1>a, <2>2 DEF Critical, Labels
  <2>5. \A u \in Threads : /\ pc'[u] # "addentropy"
                           /\ pc'[u] = "schedreseed" => frame'[u].nsamples = 0
    <3>1. \A u \in Threads \ {t} : pc[u] # "addentropy"
      BY <1>a, <2>2 DEF Critical, Labels
    <3> QED
      BY <1>4, <2>4, <3>1 DEF addentropy, UnlockAndReturn, Return
  <2>6. new \in Nat /\ \A i \in Pools : new \notin pools[i].data
    <3>1. new \in Nat /\ new \notin Inputs
      BY LenProperties DEF Inputs
    <3> QED
      BY <3>1 DEF Conserved
  <2>7. \A i \in Pools : Total(inputs', pools[i].data) = Total(inputs, pools[i].data)
    <3> SUFFICES ASSUME NEW i \in Pools
                 PROVE  Total(inputs', pools[i].data) = Total(inputs, pools[i].data)
      OBVIOUS
    <3>1. Total(inputs', pools[i].data) = Total(inputs, pools[i].data) + 0
      BY <2>2, <2>6, TotalOfAppend
    <3> QED
      BY <3>1, TotalType
  <2>8. Total(inputs', {new}) = Total(inputs, {new}) + n
    BY <2>2, TotalOfAppend
  <2>9. Total(inputs', pools[d].data \cup {new})
          = Total(inputs', pools[d].data) + Total(inputs', {new})
    <3>1. new \notin pools[d].data
      BY <2>2, <2>6
    <3>2. pools[d].data \cap {new} = {}
      BY <3>1
    <3>3. \A A, B : A \cap B = {} =>
            Total(inputs', A \cup B) = Total(inputs', A) + Total(inputs', B)
      BY <2>2, TotalOfBoth
    <3> QED
      BY <3>2, <3>3, Zenon
  <2> HIDE DEF new
  <2>10. pools'[d].nsamples <= Total(inputs', pools'[d].data)
    <3>1. /\ pools[d].nsamples \in Nat /\ pools[d].nsamples <= Total(inputs, pools[d].data)
          /\ Total(inputs, pools[d].data) \in Nat /\ Total(inputs, {new}) \in Nat
      BY <2>2, TotalType DEF MixInv, Pool
    <3> QED
      BY <2>2, <2>3, <2>7, <2>8, <2>9, <3>1
  <2>11. \A i \in Pools : pools'[i].nsamples <= Total(inputs', pools'[i].data)
    BY <2>3, <2>7, <2>10 DEF MixInv
  <2>12. \A u \in Threads :
           pc'[u] = "schedreseed" => frame'[u].nsamples <= Total(inputs', Digest(u)')
    <3>1. \A S : Total(inputs', S) \in Nat
      BY <2>2, TotalType
    <3> QED
      BY <2>5, <3>1
  <2> QED
    BY <2>5, <2>11, <2>12 DEF MixInv
<1>5. ASSUME NEW t \in Threads, schedreseed_drain(t) PROVE MixInv'
  <2>1. PICK d, n, m : d = frame[t].i /\ n = frame[t].nsamples /\ m = pools[d].nsamples
    OBVIOUS
  <2>2. /\ pc[t] = "schedreseed" /\ d \in Pools /\ n \in Nat
        /\ frame'[t].sha = frame[t].sha \cup pools[d].data
        /\ frame'[t].nsamples = (n + m) % U32
        /\ UNCHANGED <<pc, inputs, key>>
    BY <1>5, <2>1 DEF schedreseed_drain, history, Frame
  <2>3. pools'[d].nsamples = 0 /\ \A i \in Pools \ {d} : pools'[i] = pools[i]
    BY <1>5, <2>1, <2>2 DEF schedreseed_drain, emptied
  <2>4. \A u \in Threads \ {t} : pc[u] \notin {"addentropy", "schedreseed"}
    BY <1>a, <2>2 DEF Critical, Labels
  <2>5. pools[d].data \cap key = {} /\ Digest(t) \cap pools[d].data = {}
    BY <2>2 DEF Conserved
  <2>6. Digest(t)' = Digest(t) \cup pools[d].data
    BY <2>2, <2>5 DEF Digest
  <2>7. Total(inputs, Digest(t)') = Total(inputs, Digest(t)) + Total(inputs, pools[d].data)
    BY <1>0, <2>5, <2>6, TotalOfBoth
  <2>8. n <= Total(inputs, Digest(t)) /\ m <= Total(inputs, pools[d].data) /\ m \in Nat
    BY <2>1, <2>2 DEF MixInv, Pool
  <2>9. Total(inputs, Digest(t)) \in Nat /\ Total(inputs, pools[d].data) \in Nat
    BY <1>0, TotalType
  <2>10. (n + m) % U32 \in Nat /\ (n + m) % U32 <= n + m
    BY <1>0, <2>2, <2>8, NoMoreThanWhole, n + m \in Nat
  <2>11. frame'[t].nsamples <= Total(inputs', Digest(t)')
    BY <2>2, <2>7, <2>8, <2>9, <2>10
  <2>12. \A i \in Pools : pools'[i].nsamples <= Total(inputs', pools'[i].data)
    <3>1. \A S : Total(inputs, S) \in Nat
      BY <1>0, TotalType
    <3>2. 0 <= Total(inputs, pools'[d].data)
      BY <3>1
    <3> QED
      BY <2>2, <2>3, <3>2 DEF MixInv
  <2> QED
    BY <2>2, <2>4, <2>11, <2>12 DEF MixInv
<1>6. ASSUME NEW t \in Threads, schedreseed_final(t) PROVE MixInv'
  <2>1. /\ pc[t] = "schedreseed" /\ pc' = [pc EXCEPT ![t] = "idle"]
        /\ UNCHANGED <<pools, inputs>>
    BY <1>6 DEF schedreseed_final, UnlockAndReturn, Return, history
  <2>2. \A u \in Threads : pc'[u] \notin {"addentropy", "schedreseed"}
    BY <1>a, <2>1 DEF Critical, Labels
  <2> QED
    BY <2>1, <2>2 DEF MixInv
<1> QED
  BY <1>1, <1>2, <1>3, <1>4, <1>5, <1>6 DEF Next, Step, Inside

\* Every step is one of the mixer's or changes nothing of it.
LEMMA MixerStep ==
  ASSUME Sound, Typed, LockOwned, SeedInv, Conserved, MixInv, [Next]_vars
  PROVE  [Mixer!MixerNext]_(Mixer!mixerVars)
<1> USE DEF Typed, TypeOK, Mixer!mixerVars
<1>1. CASE UNCHANGED vars
  BY <1>1 DEF vars, ctx, history
<1>2. ASSUME NEW t \in Threads,
             \/ GenerateCall(t) \/ GenerateLock(t) \/ GenerateCheck(t) \/ RefreshTryLock(t)
             \/ RefreshNothing(t) \/ schedule(t) \/ schedreseed_drain(t)
      PROVE  UNCHANGED Mixer!mixerVars
  BY <1>2 DEF GenerateCall, GenerateLock, GenerateCheck, RefreshTryLock, RefreshNothing,
     schedule, schedreseed_drain, ctx, history
<1>3. ASSUME NEW t \in Threads, GenerateOutput(t) PROVE Mixer!Output
  BY <1>3 DEF GenerateOutput, SeedInv, history, Mixer!Output
<1>4. ASSUME NEW t \in Threads, RefreshFailure(t) PROVE Mixer!SourceFails
  BY <1>4 DEF RefreshFailure, reset, Mixer!SourceFails
<1>5. ASSUME NEW t \in Threads, addentropy(t) PROVE Mixer!Accept
  BY <1>5 DEF addentropy, MixInv, Mixer!Accept
<1>6. ASSUME NEW t \in Threads, schedreseed_final(t) PROVE Mixer!Mix
  <2>1. PICK n : n = frame[t].nsamples
    OBVIOUS
  <2>2. /\ pc[t] = "schedreseed" /\ key' = frame[t].sha /\ UNCHANGED <<inputs, ctr>>
        /\ seeded' = (seeded \/ Enough(n))
    BY <1>6, <2>1 DEF schedreseed_final, history
  <2>3. key' = key \cup Digest(t)
    BY <2>2 DEF Conserved, Digest
  <2>4. Digest(t) \in SUBSET (DOMAIN inputs \ key)
    <3>1. \A x \in Digest(t) : x \in Nat /\ x \notin key
      BY <2>2 DEF Digest, Frame
    <3>2. \A x \in Digest(t) : x \in Inputs
      BY <3>1 DEF Conserved
    <3>3. Inputs = DOMAIN inputs
      BY LenProperties DEF Inputs
    <3> QED
      BY <3>1, <3>2, <3>3
  <2>5. n \in Nat /\ n <= Total(inputs, Digest(t)) /\ Total(inputs, Digest(t)) \in Nat
    BY <2>1, <2>2, TotalType DEF MixInv, Frame
  <2>6. Enough(n) => Mixer!Samples(Digest(t)) >= MinSamples
    BY <2>5, SamplesAreTotal, ConstantsAssumption DEF Enough
  <2>7. seeded' \in {seeded, Mixer!Samples(Digest(t)) >= MinSamples \/ seeded}
    <3>1. seeded' = seeded \/ seeded' = (Mixer!Samples(Digest(t)) >= MinSamples \/ seeded)
      BY <2>2, <2>6, Zenon
    <3> QED
      BY <3>1, Zenon
  <2> QED
    BY <2>2, <2>3, <2>4, <2>7, Zenon DEF Mixer!Mix
<1> QED
  BY <1>1, <1>2, <1>3, <1>4, <1>5, <1>6 DEF Next, Step, Inside, Mixer!MixerNext

\* Fortuna is an entropy mixer: whatever the pools, the schedule and the threads do, each
\* input is mixed into the key once at most, and only enough samples at once seed it.
THEOREM FortunaIsMixer == ASSUME Sound PROVE Spec => ImplementsMixer
<1> DEFINE Inv == Typed /\ LockOwned /\ SeedInv /\ Conserved /\ MixInv
<1>1. Init => Inv /\ Mixer!MixerInit
  <2> SUFFICES ASSUME Init PROVE Conserved /\ MixInv /\ Mixer!MixerInit
    BY InitTyped DEF Init, LockOwned, Critical, SeedInv
  <2>1. Inputs = {} /\ \A t \in Threads : Digest(t) = {}
    BY DEF Init, Inputs, Digest
  <2>2. Conserved
    BY <2>1 DEF Init, Conserved
  <2>3. inputs \in Seq(Nat) /\ \A i \in Pools : pools[i].nsamples = 0
    BY DEF Init
  <2>4. MixInv
    <3>1. \A S : Total(inputs, S) \in Nat
      BY <2>3, TotalType
    <3>2. \A i \in Pools : pools[i].nsamples <= Total(inputs, pools[i].data)
      BY <2>3, <3>1
    <3> QED
      BY <3>2 DEF Init, MixInv
  <2> QED
    BY <2>2, <2>4 DEF Init, Mixer!MixerInit
<1>2. Inv /\ [Next]_vars => Inv'
  BY TypeStep, OwnedStep, SeedStep, ConservedStep, MixStep
<1>3. Inv /\ [Next]_vars => [Mixer!MixerNext]_(Mixer!mixerVars)
  BY MixerStep
<1> QED
  BY <1>1, <1>2, <1>3, PTL DEF Spec, ImplementsMixer, Mixer!MixerSpec

-----------------------------------------------------------------------------
(* Seeded in time. *)

\* The 32-bit count of the samples that a reseed drains does not wrap.
CountFits ==
  \A t \in Threads :
    pc[t] = "schedreseed" /\ frame[t].i \in Pools /\ frame[t].i < frame[t].pool_out =>
      frame[t].nsamples + pools[frame[t].i].nsamples < U32

\* How many inputs came to pool i, not the first, since it was drained last, if s reseeds
\* are done and the input of this round is in (or not).  The drain comes when the first
\* pool has had its input of a round and the others have not.
Since(i, s) == (s % 2^i) + (IF s >= 2^i THEN 1 ELSE 0)
Quota(i, in) == Since(i, reseed_sched) - (IF in THEN 0 ELSE 1)

Holds(i, n) == pools[i].nsamples >= n
Later == Pools \ {0}

InputUnderWay(t) ==
  LET f == frame[t]
  IN  /\ f.n >= 1 /\ pool_idx = (f.pool_in + 1) % NPOOLS
      /\ f.pool_in = 0 =>
           f.pool_out # -1 /\ \A i \in Later : Holds(i, Since(i, reseed_sched - 1))
      /\ f.pool_in # 0 =>
           f.pool_out = -1 /\ \A i \in Later : Holds(i, Quota(i, i < f.pool_in))

ReseedUnderWay(t) ==
  LET f == frame[t]
  IN  /\ pool_idx = 1 % NPOOLS
      /\ \A i \in Later : i >= f.i => Holds(i, Since(i, reseed_sched - 1))
      /\ f.i = 0 => Holds(0, 1)
      /\ f.i # 0 =>
           /\ f.nsamples >= 2^(f.i) - 2
           /\ (f.i = 1 \/ reseed_sched > 2^(f.i - 1)) => f.nsamples >= 2^(f.i) - 1

\* Reseed s, if it drains as many samples as it has to, seeds the generator.
SeededBy(s) ==
  \A k \in 1 .. NPOOLS - 1 : 2^(k + 1) - 2 >= MinSamples /\ s >= 2^k => seeded

TimeInv ==
  /\ (\A t \in Threads : pc[t] \notin {"addentropy", "schedreseed"}) =>
       \A i \in Later : Holds(i, Quota(i, pool_idx = 0 \/ i < pool_idx))
  /\ \A t \in Threads :
       /\ pc[t] = "addentropy" => InputUnderWay(t)
       /\ pc[t] = "schedreseed" => ReseedUnderWay(t)
  /\ (\A t \in Threads : ~Reseeding(t)) => SeededBy(reseed_sched)
  /\ \A t \in Threads : Reseeding(t) => SeededBy(reseed_sched - 1)

LEMMA SmallRemainder ==
  ASSUME NEW k \in Nat, NEW d \in Nat \ {0}, k < d PROVE k % d = k
OBVIOUS

LEMMA RemainderStep ==
  ASSUME NEW s \in Nat, NEW d \in Nat \ {0}
  PROVE  /\ s % d \in Nat
         /\ (s + 1) % d # 0 => (s + 1) % d = (s % d) + 1 /\ (s + 1 >= d <=> s >= d)
         /\ (s + 1) % d = 0 => s % d = d - 1 /\ s + 1 >= d
<1>1. s % d \in 0 .. d - 1 /\ (s + 1) % d \in 0 .. d - 1
  OBVIOUS
<1>2. (s + 1) \div d = IF (s + 1) % d = 0 THEN (s \div d) + 1 ELSE s \div d
  BY QuotientStep
<1>3. s = d * (s \div d) + (s % d) /\ s + 1 = d * ((s + 1) \div d) + ((s + 1) % d)
  OBVIOUS
<1>4. s \div d \in Nat
  OBVIOUS
<1>5. PICK q \in Nat, r \in 0 .. d - 1, v \in 0 .. d - 1 :
        q = s \div d /\ r = s % d /\ v = (s + 1) % d
  BY <1>1, <1>4
<1>6. d * (q + 1) = d * q + d /\ d * q \in Nat
  OBVIOUS
<1>7. CASE v # 0
  <2>1. v = r + 1
    BY <1>2, <1>3, <1>5, <1>6, <1>7
  <2>2. q = 0 => s + 1 < d
    <3>1. q = 0 => s = r
      BY <1>3, <1>5
    <3> QED
      BY <2>1, <3>1
  <2>3. q # 0 => d * q >= d
    OBVIOUS
  <2> QED
    BY <1>3, <1>5, <1>6, <1>7, <2>1, <2>2, <2>3
<1>8. CASE v = 0
  <2>1. r = d - 1
    BY <1>2, <1>3, <1>5, <1>6, <1>8
  <2> QED
    BY <1>3, <1>5, <1>6, <1>8, <2>1
<1> QED
  BY <1>7, <1>8

LEMMA LaterPools ==
  \A i \in Later : i \in Pools /\ i \in 1 .. NPOOLS - 1 /\ i \in Nat /\ 2^i \in Nat \ {0}
<1>1. NPOOLS \in Nat \ {0}
  BY ConstantsAssumption
<1>2. \A i \in Later : i \in Pools /\ i \in 1 .. NPOOLS - 1 /\ i \in 0 .. NPOOLS + 1
  BY <1>1 DEF Later, Pools
<1> QED
  BY <1>2, Powers

\* What a pool has had between reseeds s and s + 1, undrained or drained.
LEMMA SinceStep ==
  ASSUME NEW s \in Nat, NEW i \in Later
  PROVE  /\ Since(i, s) \in Nat
         /\ (s + 1) % 2^i # 0 => Since(i, s + 1) - 1 = Since(i, s)
         /\ (s + 1) % 2^i = 0 =>
              /\ s + 1 >= 2^i /\ Since(i, s + 1) = 1
              /\ Since(i, s) = 2^i - 1 + (IF s + 1 > 2^i THEN 1 ELSE 0)
<1> DEFINE d == 2^i
<1>1. d \in Nat \ {0}
  BY LaterPools
<1>2. /\ Since(i, s) = (s % d) + (IF s >= d THEN 1 ELSE 0)
      /\ Since(i, s + 1) = ((s + 1) % d) + (IF s + 1 >= d THEN 1 ELSE 0)
  BY DEF Since
<1> HIDE DEF d
<1>3. /\ s % d \in Nat
      /\ (s + 1) % d # 0 => (s + 1) % d = (s % d) + 1 /\ (s + 1 >= d <=> s >= d)
      /\ (s + 1) % d = 0 => s % d = d - 1 /\ s + 1 >= d
  BY <1>1, RemainderStep
<1>4. /\ Since(i, s) \in Nat
      /\ (s + 1) % d # 0 => Since(i, s + 1) - 1 = Since(i, s)
      /\ (s + 1) % d = 0 =>
           /\ s + 1 >= d /\ Since(i, s + 1) = 1
           /\ Since(i, s) = d - 1 + (IF s + 1 > d THEN 1 ELSE 0)
  BY <1>1, <1>2, <1>3
<1> QED
  BY <1>4 DEF d

LEMMA NothingSince == \A i \in Later : Since(i, 0) = 0
<1>1. \A d \in Nat \ {0} : 0 % d = 0 /\ ~(0 >= d)
  OBVIOUS
<1> QED
  BY <1>1, LaterPools DEF Since

\* The seed is there when the count of reseeds reaches 2^k.
LEMMA ReseedOfAllUpTo ==
  ASSUME NEW s \in Nat, s < 2^NPOOLS, NEW k \in 1 .. NPOOLS - 1, s = 2^k
  PROVE  ffs64(s) = k + 1
<1>0. NPOOLS \in Nat \ {0} /\ k \in Pools /\ k \in 0 .. NPOOLS
  BY ConstantsAssumption DEF Pools
<1>1. 2^k \in Nat \ {0} /\ 2^(k + 1) = 2 * 2^k
  BY <1>0, Powers
<1>2. ffs64(s) \in 1 .. NPOOLS /\ \A i \in Pools : i < ffs64(s) <=> s % 2^i = 0
  BY <1>1, FirstSetBit
<1>3. k < ffs64(s)
  <2>1. \A d \in Nat \ {0} : d % d = 0
    OBVIOUS
  <2> QED
    BY <1>0, <1>1, <1>2, <2>1
<1>4. ~(k + 1 < ffs64(s))
  <2>1. CASE k + 1 = NPOOLS
    BY <1>2, <2>1
  <2>2. CASE k + 1 # NPOOLS
    <3>1. k + 1 \in Pools
      BY <2>2, <1>0 DEF Pools
    <3>2. \A d \in Nat \ {0} : d % (2 * d) # 0
      OBVIOUS
    <3>3. s % 2^(k + 1) # 0
      BY <1>1, <3>2
    <3> QED
      BY <1>2, <3>1, <3>3
  <2> QED
    BY <2>1, <2>2
<1> QED
  BY <1>0, <1>2, <1>3, <1>4

LEMMA TimeScheduleStep ==
  ASSUME Sound, Typed, LockOwned, DrainInv, TimeInv, NEW t \in Threads, schedule(t)
  PROVE  TimeInv'
<1> USE DEF Typed, TypeOK, Goto
<1>0. NPOOLS \in Nat \ {0} /\ MaxSched \in Nat /\ 2^NPOOLS \in Nat /\ MaxSched < 2^NPOOLS
  BY ConstantsAssumption, Powers DEF Sound
<1>1. pc[t] = "getentropy" /\ pc' = [pc EXCEPT ![t] = "addentropy"]
  BY DEF schedule
<1>2. \A u \in Threads : pc[u] \notin {"addentropy", "schedreseed"} /\ ~Reseeding(u)
  BY <1>1 DEF LockOwned, Critical, Labels, Reseeding
<1>3. \A u \in Threads \ {t} : pc'[u] \notin {"addentropy", "schedreseed"} /\ ~Reseeding(u)'
  BY <1>1, <1>2 DEF Reseeding
<1>4. PICK n \in SampleCounts : frame' = [frame EXCEPT ![t] =
        [n |-> n, pool_in |-> pool_idx, pool_out |-> pool_out(reseed_sched),
         i |-> 0, nsamples |-> 0, sha |-> {}]]
  BY DEF schedule
<1>5. /\ frame'[t].n >= 1 /\ frame'[t].pool_in = pool_idx
      /\ frame'[t].pool_out = pool_out(reseed_sched)
  BY <1>4, ConstantsAssumption
<1>6. pool_idx' = (pool_idx + 1) % NPOOLS /\ UNCHANGED <<pools, seeded>>
  BY DEF schedule, NextPool
<1>7. /\ \A i \in Later : Holds(i, Quota(i, pool_idx = 0 \/ i < pool_idx))
      /\ SeededBy(reseed_sched)
  BY <1>2 DEF TimeInv
<1>8. CASE pool_idx = 0
  <2>1. reseed_sched' = reseed_sched + 1 /\ reseed_sched + 1 < 2^NPOOLS
    BY <1>0, <1>8 DEF schedule
  <2>2. frame'[t].pool_out # -1
    <3>1. ffs64(reseed_sched + 1) \in 1 .. NPOOLS
      BY <2>1, FirstSetBit, reseed_sched + 1 \in Nat \ {0}
    <3> QED
      BY <1>0, <1>5, <1>8, <3>1 DEF pool_out
  <2>3. reseed_sched' - 1 = reseed_sched
    BY <2>1
  <2>4. \A i \in Later : Holds(i, Since(i, reseed_sched))
    <3> TAKE i \in Later
    <3>1. Holds(i, Since(i, reseed_sched) - 0)
      BY <1>7, <1>8 DEF Quota
    <3> QED
      BY <3>1, SinceStep
  <2>5. InputUnderWay(t)'
    BY <1>5, <1>6, <1>8, <2>2, <2>3, <2>4 DEF InputUnderWay, Holds, Since
  <2>6. Reseeding(t)'
    BY <1>1, <2>2 DEF Reseeding
  <2>7. SeededBy(reseed_sched - 1)'
    BY <1>6, <1>7, <2>3 DEF SeededBy
  <2> QED
    BY <1>1, <1>3, <2>5, <2>6, <2>7 DEF TimeInv
<1>9. CASE pool_idx # 0
  <2>1. reseed_sched' = reseed_sched /\ frame'[t].pool_out = -1
    BY <1>5, <1>9 DEF schedule, pool_out
  <2>2. InputUnderWay(t)'
    BY <1>5, <1>6, <1>7, <1>9, <2>1 DEF InputUnderWay, Holds, Quota, Since
  <2>3. ~Reseeding(t)' /\ SeededBy(reseed_sched)'
    BY <1>1, <1>6, <1>7, <2>1 DEF Reseeding, SeededBy
  <2> QED
    BY <1>1, <1>3, <2>2, <2>3 DEF TimeInv
<1> QED
  BY <1>8, <1>9

LEMMA TimeInputStep ==
  ASSUME Sound, Typed, LockOwned, DrainInv, TimeInv, NEW t \in Threads, addentropy(t)
  PROVE  TimeInv'
<1> USE DEF Typed, TypeOK, Goto
<1>0. NPOOLS \in Nat \ {0} /\ 0 \in Pools
  BY ConstantsAssumption DEF Pools
<1>1. PICK p, n : p = frame[t].pool_in /\ n = frame[t].n
  OBVIOUS
<1>2. pc[t] = "addentropy" /\ p \in Pools /\ n \in Nat
  BY <1>1 DEF addentropy, Frame
<1>3. \A u \in Threads \ {t} : pc[u] \notin {"addentropy", "schedreseed"} /\ ~Reseeding(u)
  BY <1>2 DEF LockOwned, Critical, Labels, Reseeding
<1>4. InputUnderWay(t)
  BY <1>2 DEF TimeInv
<1>5. n >= 1 /\ pool_idx = (p + 1) % NPOOLS
  BY <1>1, <1>4 DEF InputUnderWay
<1>6. /\ pools'[p].nsamples = pools[p].nsamples + n /\ pools[p].nsamples \in Nat
      /\ \A i \in Pools \ {p} : pools'[i] = pools[i]
      /\ UNCHANGED <<seeded, reseed_sched, pool_idx>>
  BY <1>1, <1>2 DEF addentropy, sched, Pool
<1>7. CASE frame[t].pool_out = -1
  <2>1. pc' = [pc EXCEPT ![t] = "idle"]
    BY <1>7 DEF addentropy, UnlockAndReturn, Return
  <2>2. \A u \in Threads : /\ pc'[u] \notin {"addentropy", "schedreseed"}
                           /\ ~Reseeding(u)' /\ ~Reseeding(u)
    BY <1>2, <1>3, <1>7, <2>1 DEF Reseeding
  <2>3. SeededBy(reseed_sched)'
    BY <1>6, <2>2 DEF TimeInv, SeededBy
  <2>4. p # 0 /\ \A i \in Later : Holds(i, Quota(i, i < p))
    BY <1>1, <1>4, <1>7 DEF InputUnderWay
  <2>5. \A i \in Later : (pool_idx = 0 \/ i < pool_idx) <=> i < p \/ i = p
    <3> TAKE i \in Later
    <3>1. i \in 1 .. NPOOLS - 1 /\ p \in 1 .. NPOOLS - 1
      BY <1>0, <1>2, <2>4, LaterPools DEF Pools
    <3>2. CASE p + 1 = NPOOLS
      <4>1. pool_idx = 0
        BY <1>0, <1>5, <3>2
      <4> QED
        BY <3>1, <3>2, <4>1
    <3>3. CASE p + 1 # NPOOLS
      <4>1. pool_idx = p + 1
        BY <1>0, <1>5, <3>1, <3>3, SmallRemainder, p + 1 \in Nat, p + 1 < NPOOLS
      <4> QED
        BY <3>1, <4>1
    <3> QED
      BY <3>2, <3>3
  <2>6. \A i \in Later : Holds(i, Quota(i, pool_idx = 0 \/ i < pool_idx))'
    <3> SUFFICES ASSUME NEW i \in Later
                 PROVE  pools'[i].nsamples >= Quota(i, i < p \/ i = p)
      BY <1>6, <2>5 DEF Holds, Quota, Since
    <3>1. Holds(i, Quota(i, i < p)) /\ Since(i, reseed_sched) \in Nat
      BY <2>4, SinceStep
    <3>2. i \in Pools /\ ~(p < p)
      BY <1>0, <1>2, LaterPools DEF Pools
    <3>3. CASE i = p
      BY <1>2, <1>5, <1>6, <3>1, <3>2, <3>3 DEF Holds, Quota
    <3>4. CASE i # p
      BY <1>6, <3>1, <3>2, <3>4 DEF Holds, Quota
    <3> QED
      BY <3>3, <3>4
  <2> QED
    BY <2>2, <2>3, <2>6 DEF TimeInv
<1>8. CASE frame[t].pool_out # -1
  <2>1. /\ pc' = [pc EXCEPT ![t] = "schedreseed"]
        /\ frame'[t].i = 0
    BY <1>8 DEF addentropy
  <2>2. p = 0 /\ \A i \in Later : Holds(i, Since(i, reseed_sched - 1))
    BY <1>1, <1>4, <1>8 DEF InputUnderWay
  <2>3. \A i \in Later : Holds(i, Since(i, reseed_sched - 1))'
    <3>1. \A i \in Later : i \in Pools \ {p}
      BY <2>2, LaterPools DEF Later
    <3> QED
      BY <1>6, <2>2, <3>1 DEF Holds, Since
  <2>4. Holds(0, 1)'
    BY <1>2, <1>5, <1>6, <2>2 DEF Holds
  <2>5. pool_idx' = 1 % NPOOLS
    BY <1>5, <1>6, <2>2
  <2>6. ReseedUnderWay(t)'
    BY <2>1, <2>3, <2>4, <2>5 DEF ReseedUnderWay
  <2>7. Reseeding(t) /\ Reseeding(t)'
    BY <1>2, <1>8, <2>1 DEF Reseeding
  <2>8. SeededBy(reseed_sched - 1)'
    BY <1>6, <2>7 DEF TimeInv, SeededBy
  <2>9. \A u \in Threads \ {t} : pc'[u] \notin {"addentropy", "schedreseed"} /\ ~Reseeding(u)'
    BY <1>3, <2>1 DEF Reseeding
  <2> QED
    BY <2>1, <2>6, <2>7, <2>8, <2>9 DEF TimeInv
<1> QED
  BY <1>7, <1>8

LEMMA TimeDrainStep ==
  ASSUME Sound, Typed, LockOwned, DrainInv, CountFits, TimeInv,
         NEW t \in Threads, schedreseed_drain(t)
  PROVE  TimeInv'
<1> USE DEF Typed, TypeOK, Goto
<1>0. /\ NPOOLS \in Nat \ {0} /\ 0 \in Pools /\ U32 \in Nat \ {0}
      /\ MaxSched \in Nat /\ 2^NPOOLS \in Nat /\ MaxSched < 2^NPOOLS
  BY ConstantsAssumption, Powers DEF Sound, Pools
<1>1. PICK j, n, m, s : /\ j = frame[t].i /\ n = frame[t].nsamples
                        /\ m = pools[j].nsamples /\ s = reseed_sched
  OBVIOUS
<1>2. /\ pc[t] = "schedreseed" /\ j < frame[t].pool_out /\ j \in Pools
      /\ frame'[t].i = j + 1 /\ frame'[t].nsamples = (n + m) % U32
      /\ frame'[t].pool_out = frame[t].pool_out
      /\ UNCHANGED <<pc, reseed_sched, pool_idx, seeded>>
  BY <1>1 DEF schedreseed_drain, sched
<1>3. /\ n \in Nat /\ m \in Nat /\ s \in Nat
      /\ j \in Nat /\ j \in 0 .. NPOOLS /\ j + 1 \in 0 .. NPOOLS
  <2>1. n \in Nat /\ m \in Nat /\ s \in Nat
    BY <1>1, <1>2 DEF Frame, Pool
  <2>2. j \in Nat /\ j \in 0 .. NPOOLS /\ j + 1 \in 0 .. NPOOLS
    BY <1>0, <1>2 DEF Pools
  <2> QED
    BY <2>1, <2>2
<1>4. frame'[t].nsamples = n + m
  <2>1. n + m < U32
    BY <1>1, <1>2 DEF CountFits
  <2> QED
    BY <1>0, <1>2, <1>3, <2>1, SmallRemainder, n + m \in Nat
<1>5. \A u \in Threads \ {t} : pc[u] \notin {"addentropy", "schedreseed"} /\ ~Reseeding(u)
  BY <1>2 DEF LockOwned, Critical, Labels, Reseeding
<1>6. \A i \in Pools \ {j} : pools'[i] = pools[i]
  BY <1>1, <1>2 DEF schedreseed_drain
<1>7. ReseedUnderWay(t) /\ Reseeding(t) /\ Reseeding(t)' /\ SeededBy(s - 1)
  BY <1>1, <1>2 DEF TimeInv, Reseeding
<1>8. Behind(t)
  BY <1>7 DEF DrainInv
<1>9. s >= 1 /\ s < 2^NPOOLS /\ s % 2^j = 0
  <2>1. s >= 1 /\ s < 2^NPOOLS /\ j < ffs64(s)
    BY <1>0, <1>1, <1>2, <1>8 DEF Behind
  <2> QED
    BY <1>2, <1>3, <2>1, FirstSetBit
<1>10. 2^j \in Nat \ {0} /\ 2^(j + 1) = 2 * 2^j
  BY <1>0, <1>3, Powers
<1>11. CASE j = 0
  <2>1. m >= 1
    BY <1>1, <1>7, <1>11 DEF ReseedUnderWay, Holds
  <2>2. 2^(j + 1) = 2
    BY <1>10, <1>11, Powers
  <2> QED
    <3>1. /\ frame'[t].nsamples >= 2^(frame'[t].i) - 2
          /\ frame'[t].nsamples >= 2^(frame'[t].i) - 1
      BY <1>2, <1>3, <1>4, <2>1, <2>2
    <3>2. \A i \in Later : Holds(i, Since(i, reseed_sched - 1))'
      <4>1. \A i \in Later : i \in Pools \ {j} /\ i >= j
        BY <1>11, LaterPools DEF Later
      <4> QED
        BY <1>1, <1>2, <1>6, <1>7, <4>1 DEF ReseedUnderWay, Holds, Since
    <3>3. frame'[t].i # 0
      BY <1>2, <1>3
    <3>4. ReseedUnderWay(t)'
      BY <1>2, <1>7, <3>1, <3>2, <3>3 DEF ReseedUnderWay
    <3> QED
      BY <1>1, <1>2, <1>5, <1>7, <3>4 DEF TimeInv, SeededBy, Reseeding
<1>12. CASE j # 0
  <2>1. j \in Later /\ j - 1 \in 0 .. NPOOLS /\ (j - 1) + 1 = j
    BY <1>0, <1>2, <1>3, <1>12 DEF Later
  <2>2. 2^(j - 1) \in Nat \ {0} /\ 2^j = 2 * 2^(j - 1)
    <3>1. 2^(j - 1) \in Nat \ {0} /\ 2^((j - 1) + 1) = 2 * 2^(j - 1)
      <4>1. j - 1 \in 0 .. NPOOLS /\ j - 1 \in 0 .. NPOOLS + 1
        BY <1>0, <2>1
      <4> QED
        BY <4>1, Powers
    <3> QED
      BY <2>1, <3>1
  <2>3. s >= 2^j /\ Since(j, s - 1) = 2^j - 1 + (IF s > 2^j THEN 1 ELSE 0)
    <3> DEFINE r == s - 1
    <3>1. r \in Nat /\ r + 1 = s
      BY <1>3, <1>9
    <3> HIDE DEF r
    <3>2. (r + 1) % 2^j = 0
      BY <1>9, <3>1
    <3>3. r + 1 >= 2^j /\ Since(j, r) = 2^j - 1 + (IF r + 1 > 2^j THEN 1 ELSE 0)
      BY <2>1, <3>1, <3>2, SinceStep
    <3> QED
      BY <3>1, <3>3 DEF r
  <2>4. s > 2^(j - 1)
    BY <1>3, <2>2, <2>3
  <2>5. n >= 2^j - 1
    BY <1>1, <1>7, <1>12, <2>4 DEF ReseedUnderWay
  <2>6. m >= Since(j, s - 1)
    <3>1. j >= j
      BY <1>3
    <3> QED
      BY <1>1, <1>7, <2>1, <3>1 DEF ReseedUnderWay, Holds
  <2>7. /\ n + m >= 2^(j + 1) - 2
        /\ s > 2^j => n + m >= 2^(j + 1) - 1
    BY <1>3, <1>10, <2>3, <2>5, <2>6
  <2>8. frame'[t].i # 0 /\ frame'[t].i # 1 /\ frame'[t].i - 1 = j
    BY <1>2, <1>3, <1>12
  <2>9. /\ frame'[t].nsamples >= 2^(frame'[t].i) - 2
        /\ (frame'[t].i = 1 \/ reseed_sched' > 2^(frame'[t].i - 1)) =>
              frame'[t].nsamples >= 2^(frame'[t].i) - 1
    BY <1>1, <1>2, <1>4, <2>7, <2>8
  <2>10. \A i \in Later : i >= j + 1 => Holds(i, Since(i, reseed_sched - 1))'
    <3>1. \A i \in Later : i >= j + 1 => i \in Pools \ {j} /\ i >= j
      BY <1>3, LaterPools
    <3> QED
      BY <1>1, <1>2, <1>6, <1>7, <3>1 DEF ReseedUnderWay, Holds, Since
  <2>11. ReseedUnderWay(t)'
    BY <1>2, <1>7, <2>8, <2>9, <2>10 DEF ReseedUnderWay
  <2> QED
    BY <1>1, <1>2, <1>5, <1>7, <2>11 DEF TimeInv, SeededBy, Reseeding
<1> QED
  BY <1>11, <1>12

LEMMA TimeReseedStep ==
  ASSUME Sound, Typed, LockOwned, DrainInv, TimeInv, NEW t \in Threads, schedreseed_final(t)
  PROVE  TimeInv'
<1> USE DEF Typed, TypeOK, Goto
<1>0. /\ NPOOLS \in Nat \ {0} /\ MinSamples \in Nat
      /\ MaxSched \in Nat /\ 2^NPOOLS \in Nat /\ MaxSched < 2^NPOOLS
  BY ConstantsAssumption, Powers DEF Sound
<1>1. PICK n, s : n = frame[t].nsamples /\ s = reseed_sched
  OBVIOUS
<1>2. /\ pc[t] = "schedreseed" /\ pc' = [pc EXCEPT ![t] = "idle"]
      /\ seeded' = (seeded \/ Enough(n)) /\ UNCHANGED <<pools, reseed_sched, pool_idx>>
      /\ frame[t].i = frame[t].pool_out
  BY <1>1 DEF schedreseed_final, UnlockAndReturn, Return, sched
<1>3. \A u \in Threads : pc'[u] \notin {"addentropy", "schedreseed"} /\ ~Reseeding(u)'
  BY <1>2 DEF LockOwned, Critical, Labels, Reseeding
<1>4. ReseedUnderWay(t) /\ Reseeding(t) /\ SeededBy(s - 1)
  BY <1>1, <1>2 DEF TimeInv, Reseeding
<1>5. /\ s \in Nat /\ s >= 1 /\ s < 2^NPOOLS /\ n \in Nat
      /\ frame[t].i = ffs64(s)
  BY <1>0, <1>1, <1>2, <1>4 DEF DrainInv, Behind, Frame
<1>6. ffs64(s) \in 1 .. NPOOLS /\ \A i \in Pools : i < ffs64(s) <=> s % 2^i = 0
  BY <1>5, FirstSetBit
<1>7. \A i \in Later : Holds(i, Quota(i, pool_idx = 0 \/ i < pool_idx))'
  <2>5. \A i \in Later : ~(pool_idx = 0 \/ i < pool_idx)
    <3> TAKE i \in Later
    <3>1. pool_idx = 1 % NPOOLS /\ i \in 1 .. NPOOLS - 1
      BY <1>4, LaterPools DEF ReseedUnderWay
    <3>2. pool_idx = 1
      BY <1>0, <3>1
    <3> QED
      BY <3>1, <3>2
  <2> SUFFICES ASSUME NEW i \in Later PROVE Holds(i, Quota(i, FALSE))
    BY <1>2, <2>5 DEF Holds, Quota, Since
  <2> DEFINE r == s - 1
  <2>1. r \in Nat /\ r + 1 = s
    BY <1>5
  <2>2. i \in Pools /\ i \in Nat /\ pools[i].nsamples \in Nat
    BY LaterPools DEF Pool
  <2> HIDE DEF r
  <2>3. CASE s % 2^i = 0
    <3>1. Since(i, r + 1) = 1
      BY <2>1, <2>3, SinceStep
    <3> QED
      BY <1>1, <2>1, <2>2, <3>1 DEF Holds, Quota
  <2>4. CASE s % 2^i # 0
    <3>1. Since(i, r + 1) - 1 = Since(i, r)
      BY <2>1, <2>4, SinceStep
    <3>2. ~(i < ffs64(s))
      BY <1>6, <2>2, <2>4
    <3>3. i >= frame[t].i
      BY <1>5, <1>6, <2>2, <3>2
    <3>4. Holds(i, Since(i, reseed_sched - 1))
      BY <1>4, <3>3 DEF ReseedUnderWay
    <3> QED
      BY <1>1, <2>1, <3>1, <3>4 DEF Holds, Quota, r
  <2> QED
    BY <2>3, <2>4
<1>8. SeededBy(reseed_sched)'
  <2> SUFFICES ASSUME NEW k \in 1 .. NPOOLS - 1, 2^(k + 1) - 2 >= MinSamples, s >= 2^k
               PROVE  seeded'
    BY <1>1, <1>2 DEF SeededBy
  <2>1. k \in 0 .. NPOOLS /\ k + 1 \in 0 .. NPOOLS + 1
    BY <1>0
  <2>2. 2^k \in Nat \ {0} /\ 2^(k + 1) \in Nat
    BY <2>1, Powers
  <2>3. CASE s - 1 >= 2^k
    BY <1>2, <1>4, <2>3 DEF SeededBy
  <2>4. CASE ~(s - 1 >= 2^k)
    <3>1. s = 2^k
      BY <1>5, <2>2, <2>4
    <3>2. frame[t].i = k + 1
      BY <1>5, <3>1, ReseedOfAllUpTo
    <3>3. n >= 2^(k + 1) - 2
      BY <1>0, <1>1, <1>4, <3>2 DEF ReseedUnderWay
    <3>4. Enough(n)
      BY <1>0, <1>5, <2>2, <3>3 DEF Enough
    <3> QED
      BY <1>2, <3>4
  <2> QED
    BY <2>3, <2>4
<1> QED
  BY <1>3, <1>7, <1>8 DEF TimeInv

\* A reset starts from nothing, the schedule included.
LEMMA TimeFailureStep ==
  ASSUME Sound, Typed, LockOwned, NEW t \in Threads, RefreshFailure(t)
  PROVE  TimeInv'
<1> USE DEF Typed, TypeOK, Goto
<1>0. NPOOLS \in Nat \ {0}
  BY ConstantsAssumption
<1>1. /\ pc[t] = "getentropy" /\ pc' = [pc EXCEPT ![t] = "idle"]
      /\ reseed_sched' = 0 /\ pool_idx' = 0
      /\ \A i \in Pools : pools'[i].nsamples = 0
  BY DEF RefreshFailure, reset, UnlockAndReturn, Return
<1>2. \A u \in Threads : pc'[u] \notin {"addentropy", "schedreseed"} /\ ~Reseeding(u)'
  BY <1>1 DEF LockOwned, Critical, Labels, Reseeding
<1>3. \A i \in Later : Holds(i, Quota(i, pool_idx = 0 \/ i < pool_idx))'
  <2> SUFFICES ASSUME NEW i \in Later PROVE pools'[i].nsamples >= Since(i, 0) - 0
    BY <1>1 DEF Holds, Quota, Since
  <2> QED
    BY <1>1, NothingSince, LaterPools
<1>4. SeededBy(reseed_sched)'
  <2>1. \A k \in 1 .. NPOOLS - 1 : ~(0 >= 2^k)
    <3>1. \A k \in 1 .. NPOOLS - 1 : k \in 0 .. NPOOLS + 1
      BY <1>0
    <3> QED
      BY <3>1, Powers
  <2> QED
    BY <1>1, <2>1 DEF SeededBy
<1> QED
  BY <1>2, <1>3, <1>4 DEF TimeInv

LEMMA TimeStep ==
  ASSUME Sound, Typed, LockOwned, DrainInv, CountFits, TimeInv, [Next]_vars
  PROVE  TimeInv'
<1>1. CASE UNCHANGED vars
  BY <1>1 DEF vars, ctx, sched, TimeInv, InputUnderWay, ReseedUnderWay, SeededBy, Reseeding,
     Holds, Quota, Since
<1>2. ASSUME NEW t \in Threads,
             \/ GenerateCall(t) \/ GenerateLock(t) \/ GenerateCheck(t) \/ GenerateOutput(t)
             \/ RefreshTryLock(t) \/ RefreshNothing(t)
      PROVE  TimeInv'
  <2>1. /\ UNCHANGED <<reseed_sched, pool_idx, pools, seeded>>
        /\ \A u \in Threads : /\ Reseeding(u)' <=> Reseeding(u)
                              /\ pc'[u] = "schedreseed" <=> pc[u] = "schedreseed"
                              /\ Reseeding(u) => frame'[u] = frame[u]
                              /\ pc'[u] = "addentropy" <=> pc[u] = "addentropy"
                              /\ pc[u] = "addentropy" => frame'[u] = frame[u]
    BY <1>2, QuietStep
  <2>3. (\A u \in Threads : pc'[u] \notin {"addentropy", "schedreseed"}) =>
          \A i \in Later : Holds(i, Quota(i, pool_idx = 0 \/ i < pool_idx))'
    BY <2>1 DEF TimeInv, Holds, Quota, Since
  <2>4. ASSUME NEW u \in Threads, pc'[u] = "addentropy" PROVE InputUnderWay(u)'
    <3>1. InputUnderWay(u) /\ frame'[u] = frame[u]
      BY <2>1, <2>4 DEF TimeInv
    <3> QED
      BY <2>1, <3>1 DEF InputUnderWay, Holds, Quota, Since
  <2>5. ASSUME NEW u \in Threads, pc'[u] = "schedreseed" PROVE ReseedUnderWay(u)'
    <3>1. ReseedUnderWay(u) /\ frame'[u] = frame[u]
      BY <2>1, <2>5 DEF TimeInv, Reseeding
    <3> QED
      BY <2>1, <3>1 DEF ReseedUnderWay, Holds, Since
  <2>6. /\ (\A u \in Threads : ~Reseeding(u)') => SeededBy(reseed_sched)'
        /\ \A u \in Threads : Reseeding(u)' => SeededBy(reseed_sched - 1)'
    BY <2>1 DEF TimeInv, SeededBy
  <2> QED
    BY <2>3, <2>4, <2>5, <2>6 DEF TimeInv
<1> QED
  BY <1>1, <1>2, TimeFailureStep, TimeScheduleStep, TimeInputStep, TimeDrainStep,
     TimeReseedStep DEF Next, Step, Inside

\* However the threads' calls and the samples come, the generator is seeded by the first
\* reseed that drains enough inputs of one sample each, until the source fails: schedule's
\* round robin, ffs64 and the drain loop of schedreseed keep no pool waiting longer.
\* Assumed along the behaviour: the 32-bit count of the samples drained does not wrap.
THEOREM SeededBySchedule == ASSUME Sound PROVE Spec /\ []CountFits => []SeededInTime
<1> DEFINE Inv == Typed /\ LockOwned /\ DrainInv /\ TimeInv
<1>1. Init => Inv
  <2> SUFFICES ASSUME Init PROVE DrainInv /\ TimeInv
    BY InitTyped DEF Init, LockOwned, Critical
  <2>0. NPOOLS \in Nat \ {0}
    BY ConstantsAssumption
  <2>1. \A i \in Pools : 0 \div 2^i = 0
    BY ConstantsAssumption, Powers DEF Pools
  <2>2. DrainInv
    BY <2>1 DEF Init, DrainInv, OnSchedule, Reseeding
  <2>3. \A u \in Threads : pc[u] \notin {"addentropy", "schedreseed"} /\ ~Reseeding(u)
    BY DEF Init, Reseeding
  <2>4. \A i \in Later : Holds(i, Quota(i, pool_idx = 0 \/ i < pool_idx))
    <3> SUFFICES ASSUME NEW i \in Later PROVE pools[i].nsamples >= Since(i, 0) - 0
      BY DEF Init, Holds, Quota, Since
    <3> QED
      BY NothingSince, LaterPools DEF Init
  <2>5. SeededBy(reseed_sched)
    <3>1. \A k \in 1 .. NPOOLS - 1 : k \in 0 .. NPOOLS + 1
      BY <2>0
    <3>2. \A k \in 1 .. NPOOLS - 1 : ~(0 >= 2^k)
      BY <3>1, Powers
    <3> QED
      BY <3>2 DEF Init, SeededBy
  <2> QED
    BY <2>2, <2>3, <2>4, <2>5 DEF TimeInv
<1>2. Inv /\ CountFits /\ [Next]_vars => Inv'
  BY TypeStep, OwnedStep, DrainStep, TimeStep
<1>3. Inv => SeededInTime
  <2> SUFFICES ASSUME Inv, lock = NoThread PROVE SeededBy(reseed_sched)
    BY DEF SeededInTime, SeededBy
  <2>1. \A t \in Threads : ~Reseeding(t)
    BY ConstantsAssumption DEF LockOwned, Critical, Labels, Reseeding
  <2> QED
    BY <2>1 DEF TimeInv
<1> QED
  BY <1>1, <1>2, <1>3, PTL DEF Spec
=============================================================================
