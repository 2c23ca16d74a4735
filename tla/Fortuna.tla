------------------------------ MODULE Fortuna ------------------------------
(***************************************************************************)
(* ccrng_fortuna: the Fortuna-style entropy accumulator behind the kernel  *)
(* PRNG (src/ccrng/src/ccrng_fortuna.c).                                   *)
(*                                                                         *)
(* Threads call ccrng_fortuna_generate, which takes the context's mutex,   *)
(* and ccrng_fortuna_refresh, which only tries to.  A call is a sequence   *)
(* of small steps, so that what the mutex is for is checked and not        *)
(* assumed.  An entropy input is the number of its arrival; a digest or a  *)
(* key is the set of the inputs it has absorbed.                           *)
(***************************************************************************)
EXTENDS FortunaConstants, Sequences

VARIABLES
  lock,             \* ctx->lock.mutex: its owner
  pc,               \* where each thread is
  frame,            \* the locals of each thread's call
  ret,              \* what each thread's last call returned
  key,              \* ctx->key: the inputs the root secret depends on
  ctr,              \* ctx->ctr
  seeded,           \* ctx->seeded
  reseed_sched,     \* ctx->sched.reseed_sched
  pool_idx,         \* ctx->sched.pool_idx
  pools,            \* ctx->pools
  nreseeds,                   \* ctx->nreseeds
  schedreseed_nsamples_max,   \* ctx->schedreseed_nsamples_max
  addentropy_nsamples_max,    \* ctx->addentropy_nsamples_max
  inputs,           \* history: the sample counts of the inputs accepted
  since             \* history: reseed_sched when a pool's oldest input came

sched == <<reseed_sched, pool_idx>>
stats == <<nreseeds, schedreseed_nsamples_max, addentropy_nsamples_max>>
ctx == <<key, ctr, seeded, sched, pools, stats>>
history == <<inputs, since>>
vars == <<lock, pc, frame, ret, ctx, history>>

Pools == 0 .. NPOOLS - 1
Inputs == 1 .. Len(inputs)

Larger(a, b) == IF a >= b THEN a ELSE b

\* One plus the index of the least significant set bit of n, that is of the
\* largest power of 2 that divides n; 0 for 0.
ffs64(n) ==
  IF n = 0 THEN 0
  ELSE CHOOSE b \in 1 .. NPOOLS + 1 : n % 2^(b - 1) = 0 /\ n % 2^b # 0

NoFrame ==
  [n |-> 0, pool_in |-> 0, pool_out |-> -1, i |-> 0, nsamples |-> 0, sha |-> {}]

\* ccrng_fortuna_init clears the context.
Init ==
  /\ lock = NoThread
  /\ pc = [t \in Threads |-> "idle"]
  /\ frame = [t \in Threads |-> NoFrame]
  /\ ret = [t \in Threads |-> "none"]
  /\ key = {} /\ ctr = 0 /\ seeded = FALSE
  /\ reseed_sched = 0 /\ pool_idx = 0
  /\ pools = [i \in Pools |->
       [data |-> {}, nsamples |-> 0, ndrains |-> 0, nsamples_max |-> 0]]
  /\ nreseeds = 0 /\ schedreseed_nsamples_max = 0 /\ addentropy_nsamples_max = 0
  /\ inputs = <<>>
  /\ since = [i \in Pools |-> 0]

Goto(t, label) == pc' = [pc EXCEPT ![t] = label]

Return(t, r) ==
  /\ Goto(t, "idle")
  /\ ret' = [ret EXCEPT ![t] = r]
  /\ frame' = [frame EXCEPT ![t] = NoFrame]

UnlockAndReturn(t, r) == lock' = NoThread /\ Return(t, r)

-----------------------------------------------------------------------------
(* ccrng_fortuna_generate *)

\* The call is made: it blocks in CCRNG_FORTUNA_LOCK_LOCK.
GenerateCall(t) ==
  /\ pc[t] = "idle"
  /\ Goto(t, "generate_lock")
  /\ UNCHANGED <<lock, frame, ret, ctx, history>>

\* Mutant: the mutex is taken without waiting for its owner.
GenerateLockBarging(t) ==
  /\ pc[t] = "generate_lock"
  /\ lock' = t /\ Goto(t, "generate_check")
  /\ UNCHANGED <<frame, ret, ctx, history>>

GenerateLock(t) ==
  /\ pc[t] = "generate_lock" /\ lock = NoThread
  /\ lock' = t /\ Goto(t, "generate_check")
  /\ UNCHANGED <<frame, ret, ctx, history>>

GenerateCheck(t) ==
  /\ pc[t] = "generate_check"
  /\ IF seeded THEN Goto(t, "generate_output") /\ UNCHANGED <<lock, frame, ret>>
               ELSE UnlockAndReturn(t, "CCERR_RNG_NOT_SEEDED")
  /\ UNCHANGED <<ctx, history>>

\* The key is replaced by keystream under itself, so it depends on the same
\* inputs; the output is drawn from the rest of the keystream.
GenerateOutput(t) ==
  /\ pc[t] = "generate_output"
  /\ ctr' = (ctr + 1) % U64
  /\ UnlockAndReturn(t, "CCERR_OK")
  /\ UNCHANGED <<key, seeded, sched, pools, stats, history>>

-----------------------------------------------------------------------------
(* ccrng_fortuna_refresh *)

\* if (!CCRNG_FORTUNA_LOCK_TRYLOCK(ctx)) return false.  The kernel's and the
\* os_unfair_lock macro yield true when they take the mutex, that of
\* CC_LINUX is pthread_mutex_trylock, which yields 0.
RefreshTryLock(t) ==
  LET taken == lock = NoThread
      macro == IF PthreadTryLock THEN ~taken ELSE taken
  IN  /\ pc[t] = "idle"
      /\ lock' = IF taken THEN t ELSE lock
      /\ \/ macro /\ Goto(t, "getentropy") /\ UNCHANGED <<frame, ret>>
         \/ ~macro /\ Return(t, "not_reseeded")
      /\ UNCHANGED <<ctx, history>>

\* getentropy returns 0: nothing to do.
RefreshNothing(t) ==
  /\ pc[t] = "getentropy"
  /\ UnlockAndReturn(t, "not_reseeded")
  /\ UNCHANGED <<ctx, history>>

\* All but the key, the counter and the pools' digests is as after init.
reset ==
  /\ seeded' = FALSE
  /\ nreseeds' = 0 /\ schedreseed_nsamples_max' = 0 /\ addentropy_nsamples_max' = 0
  /\ pools' = [i \in Pools |->
       [data |-> pools[i].data, nsamples |-> 0, ndrains |-> 0, nsamples_max |-> 0]]
  /\ reseed_sched' = 0 /\ pool_idx' = 0
  /\ since' = [i \in Pools |-> 0]

\* getentropy returns n < 0: the source failed.
RefreshFailure(t) ==
  /\ pc[t] = "getentropy"
  /\ reset
  /\ UnlockAndReturn(t, "not_reseeded")
  /\ UNCHANGED <<key, ctr, inputs>>

\* Mutant: the round-robin index is not reduced.
NextPoolUnreduced == pool_idx + 1

NextPool == (pool_idx + 1) % NPOOLS

\* Mutants: one pool too many is drained; the counter is read before it moves.
pool_outOffByOne(s) == IF pool_idx = 0 THEN ffs64(s + 1) + 1 ELSE -1
pool_outBeforeIncrement(s) == IF pool_idx = 0 THEN ffs64(s) ELSE -1

\* How many pools to drain, -1 between two rounds.
pool_out(s) == IF pool_idx = 0 THEN ffs64(s + 1) ELSE -1

\* getentropy returns n > 0 samples: schedule picks the pool that takes the
\* input and, once a round, the number of pools to drain.
schedule(t) ==
  /\ pc[t] = "getentropy"
  /\ Len(inputs) < MaxInputs /\ (reseed_sched < MaxSched \/ pool_idx # 0)
  /\ \E n \in SampleCounts :
       frame' = [frame EXCEPT ![t] =
         [n |-> n, pool_in |-> pool_idx, pool_out |-> pool_out(reseed_sched),
          i |-> 0, nsamples |-> 0, sha |-> {}]]
  /\ reseed_sched' = IF pool_idx = 0 THEN reseed_sched + 1 ELSE reseed_sched
  /\ pool_idx' = NextPool
  /\ Goto(t, "addentropy")
  /\ UNCHANGED <<lock, ret, key, ctr, seeded, pools, stats, history>>

\* Mutant: the reseed digest forgets the old key.
DigestStartForgetful == {}

DigestStart == key

\* The input is hashed into its pool; without a reseed the call ends here.
addentropy(t) ==
  LET f == frame[t]
      p == pools[f.pool_in]
  IN  /\ pc[t] = "addentropy"
      /\ pools' = [pools EXCEPT ![f.pool_in] =
           [data |-> p.data \cup {Len(inputs) + 1},
            nsamples |-> p.nsamples + f.n,
            ndrains |-> p.ndrains,
            nsamples_max |-> Larger(p.nsamples_max, p.nsamples + f.n)]]
      /\ addentropy_nsamples_max' = Larger(addentropy_nsamples_max, f.n)
      /\ inputs' = Append(inputs, f.n)
      /\ since' = IF p.data = {} THEN [since EXCEPT ![f.pool_in] = reseed_sched] ELSE since
      /\ \/ f.pool_out = -1 /\ UnlockAndReturn(t, "not_reseeded")
         \/ /\ f.pool_out # -1
            /\ Goto(t, "schedreseed")
            /\ frame' = [frame EXCEPT ![t] =
                 [n |-> f.n, pool_in |-> f.pool_in, pool_out |-> f.pool_out,
                  i |-> 0, nsamples |-> 0, sha |-> DigestStart]]
            /\ UNCHANGED <<lock, ret>>
      /\ UNCHANGED <<key, ctr, seeded, sched, nreseeds, schedreseed_nsamples_max>>

\* Mutant: a drained pool's digest is not cleared.
emptiedButData(p) == [p EXCEPT !.nsamples = 0, !.ndrains = @ + 1]

emptied(p) ==
  [data |-> {}, nsamples |-> 0, ndrains |-> p.ndrains + 1, nsamples_max |-> p.nsamples_max]

\* One turn of schedreseed's loop.  Past the last pool (reseed_sched would
\* have to reach 2^NPOOLS) the loop runs out of the array: no step.
schedreseed_drain(t) ==
  LET f == frame[t]
      p == pools[f.i]
  IN  /\ pc[t] = "schedreseed"
      /\ f.i < f.pool_out /\ f.i \in Pools
      /\ frame' = [frame EXCEPT ![t] =
           [n |-> f.n, pool_in |-> f.pool_in, pool_out |-> f.pool_out, i |-> f.i + 1,
            nsamples |-> (f.nsamples + p.nsamples) % U32, sha |-> f.sha \cup p.data]]
      /\ pools' = [pools EXCEPT ![f.i] = emptied(p)]
      /\ UNCHANGED <<lock, pc, ret, key, ctr, seeded, sched, stats, history>>

\* Mutants: any reseed seeds the generator; the threshold is missed by one.
EnoughAlways(n) == TRUE
EnoughStrict(n) == n > MinSamples

Enough(n) == n >= MinSamples

\* The digest becomes the key.
schedreseed_final(t) ==
  LET f == frame[t]
      now == seeded \/ Enough(f.nsamples)
  IN  /\ pc[t] = "schedreseed" /\ f.i = f.pool_out
      /\ key' = f.sha
      /\ seeded' = now
      /\ nreseeds' = nreseeds + 1
      /\ schedreseed_nsamples_max' = Larger(schedreseed_nsamples_max, f.nsamples)
      /\ UnlockAndReturn(t, IF now THEN "reseeded" ELSE "not_reseeded")
      /\ UNCHANGED <<ctr, sched, pools, addentropy_nsamples_max, history>>

-----------------------------------------------------------------------------
\* The steps of a call past its (try)lock, which nothing but the thread
\* itself can hold up.
Inside(t) ==
  \/ GenerateCheck(t) \/ GenerateOutput(t)
  \/ RefreshNothing(t) \/ RefreshFailure(t) \/ schedule(t) \/ addentropy(t)
  \/ schedreseed_drain(t) \/ schedreseed_final(t)

Step(t) == GenerateCall(t) \/ GenerateLock(t) \/ RefreshTryLock(t) \/ Inside(t)

Next == \E t \in Threads : Step(t)

Spec == Init /\ [][Next]_vars

-----------------------------------------------------------------------------
Labels == {"idle", "generate_lock", "generate_check", "generate_output",
           "getentropy", "addentropy", "schedreseed"}
Results == {"none", "CCERR_OK", "CCERR_RNG_NOT_SEEDED", "reseeded", "not_reseeded"}
Frame == [n : Nat, pool_in : Pools, pool_out : Nat \cup {-1}, i : Nat,
          nsamples : Nat, sha : SUBSET Nat]
Pool == [data : SUBSET Nat, nsamples : Nat, ndrains : Nat, nsamples_max : Nat]

\* Every variable holds a value of its C type.
TypeOK ==
  /\ lock \in Threads \cup {NoThread}
  /\ pc \in [Threads -> Labels]
  /\ frame \in [Threads -> Frame]
  /\ ret \in [Threads -> Results]
  /\ key \in SUBSET Nat /\ ctr \in Nat /\ seeded \in BOOLEAN
  /\ reseed_sched \in Nat /\ pool_idx \in Pools
  /\ pools \in [Pools -> Pool]
  /\ nreseeds \in Nat /\ schedreseed_nsamples_max \in Nat /\ addentropy_nsamples_max \in Nat
  /\ inputs \in Seq(Nat)
  /\ since \in [Pools -> Nat]

\* The places reached only with the mutex held.
Critical == Labels \ {"idle", "generate_lock"}

\* CCRNG_FORTUNA_LOCK_ASSERT: a thread past the lock of generate or the
\* trylock of refresh owns the mutex, so no two are there together.
LockOwned == \A t \in Threads : pc[t] \in Critical => lock = t

\* The check of ctx->seeded still holds when the output is drawn: no reset
\* comes in between, and a reseed of enough samples came before.
SeededAtOutput ==
  \A t \in Threads : pc[t] = "generate_output" =>
    seeded /\ schedreseed_nsamples_max >= MinSamples

\* A reseed digest being computed by t, as long as it is not yet the key.
Digest(t) == IF pc[t] = "schedreseed" THEN frame[t].sha \ key ELSE {}

\* Every accepted input is in exactly one pool, in the running reseed digest
\* or in the key: addentropy, the drain loop and reset lose none and feed none
\* twice.
InputsConserved ==
  /\ key \cup (UNION {pools[i].data : i \in Pools})
         \cup (UNION {Digest(t) : t \in Threads}) = Inputs
  /\ \A i \in Pools :
       /\ pools[i].data \cap key = {}
       /\ \A j \in Pools \ {i} : pools[i].data \cap pools[j].data = {}
       /\ \A t \in Threads : pools[i].data \cap Digest(t) = {}

\* Between calls pool i has been drained once every 2^i scheduled reseeds
\* since the last reset, and every scheduled reseed was done.
DrainSchedule ==
  lock = NoThread =>
    /\ nreseeds = reseed_sched
    /\ \A i \in Pools : pools[i].ndrains = reseed_sched \div 2^i

\* No input stays in pool i past the next reseed whose number 2^i divides:
\* the round robin and the drain schedule keep step, also across resets.
BoundedDelay ==
  lock = NoThread =>
    \A i \in Pools : pools[i].data # {} => since[i] \div 2^i = reseed_sched \div 2^i

\* However the samples come (one each at least), the generator is seeded by
\* reseed 2^k for the first k where 2^(k+1) - 2 inputs are drained at once,
\* provided the 32-bit count of the drained samples does not wrap.
SeededInTime ==
  \A k \in 1 .. NPOOLS - 1 :
    lock = NoThread /\ 2^(k + 1) - 2 >= MinSamples /\ reseed_sched >= 2^k => seeded

Mixer == INSTANCE EntropyMixer WITH mixed <- key, outputs <- ctr, OutputModulus <- U64

\* Fortuna is an entropy mixer.
ImplementsMixer == Mixer!MixerSpec
=============================================================================
