------------------------------- MODULE Kprng -------------------------------
(***************************************************************************)
(* cckprng: the kernel PRNG (src/cckprng/src).  A Csprng that draws its    *)
(* reseeds from a Fortuna, and the flag with which the Fortuna tells it,   *)
(* across two mutexes and outside of both, that it has something new.      *)
(*                                                                         *)
(* Every action is an action of one component, or of both, joined to the   *)
(* glue of cckprng_init.c, cckprng_refresh.c, cckprng_generate.c and       *)
(* cckprng_reseed.c.  A thread's place in the glue is kpc.                 *)
(***************************************************************************)
EXTENDS FortunaConstants, Sequences

CONSTANTS
  CacheSize, MaxRequest, MaxRetry, ReseedInterval, ProvidesAbort, DrbgFails,
  Requests, MaxCalls,
  UserSeedResults,  \* what ccdrbg_reseed says of the seeds users supply
  KprngPools,       \* NPOOLS and MaxInputs of this Fortuna
  KprngInputs

ASSUME KprngAssumption == KprngPools \in Nat \ {0} /\ KprngInputs \in Nat

VARIABLES
  csprng_lock, csprng_pc, csprng_frame, csprng_ret, aborted, made, counter, buf, pos,
  calls, output, fence,
  fortuna_lock, fortuna_pc, fortuna_frame, fortuna_ret, fortuna_key, fortuna_ctr, fortuna_seeded,
  fortuna_reseed_sched, fortuna_pool_idx, fortuna_pools, fortuna_nreseeds,
  fortuna_schedreseed_nsamples_max, fortuna_addentropy_nsamples_max, fortuna_inputs,
  fortuna_since,
  needreseed,     \* ctx->needreseed
  kpc,            \* the cckprng function each thread is in
  panicked,       \* cckprng_reseed reached its cc_abort
  drawn,          \* history: the inputs behind the entropy drawn last
  mixedIn,        \* history: the inputs the DRBG's state depends on
  announced,      \* history: the inputs behind completed, reseeding refreshes
  due,            \* history: announced, when each thread's generate began
  sourceFailed    \* history: the entropy source has signalled a failure

C == INSTANCE Csprng WITH
  lock <- csprng_lock, pc <- csprng_pc, frame <- csprng_frame, ret <- csprng_ret
F == INSTANCE Fortuna WITH
  NPOOLS <- KprngPools, MaxInputs <- KprngInputs,
  lock <- fortuna_lock, pc <- fortuna_pc, frame <- fortuna_frame, ret <- fortuna_ret,
  key <- fortuna_key, ctr <- fortuna_ctr, seeded <- fortuna_seeded,
  reseed_sched <- fortuna_reseed_sched, pool_idx <- fortuna_pool_idx, pools <- fortuna_pools,
  nreseeds <- fortuna_nreseeds, schedreseed_nsamples_max <- fortuna_schedreseed_nsamples_max,
  addentropy_nsamples_max <- fortuna_addentropy_nsamples_max, inputs <- fortuna_inputs,
  since <- fortuna_since

csprng == <<csprng_lock, csprng_pc, csprng_frame, csprng_ret, aborted, made, counter,
            buf, pos, calls, output, fence>>
fortuna == <<fortuna_lock, fortuna_pc, fortuna_frame, fortuna_ret, fortuna_key, fortuna_ctr,
             fortuna_seeded, fortuna_reseed_sched, fortuna_pool_idx, fortuna_pools,
             fortuna_nreseeds, fortuna_schedreseed_nsamples_max,
             fortuna_addentropy_nsamples_max, fortuna_inputs, fortuna_since>>
glue == <<needreseed, kpc, panicked>>
kprng_history == <<drawn, mixedIn, announced, due, sourceFailed>>
kprng_vars == <<csprng, fortuna, glue, kprng_history>>

\* cckprng_init: its own seed goes to the DRBG, Fortuna starts empty.
KprngInit ==
  /\ C!Init /\ F!Init
  /\ needreseed = FALSE
  /\ kpc = [t \in Threads |-> "idle"]
  /\ panicked = FALSE
  /\ drawn = {} /\ mixedIn = {} /\ announced = {}
  /\ due = [t \in Threads |-> {}]
  /\ sourceFailed = FALSE

Enter(t, place) == kpc' = [kpc EXCEPT ![t] = place]

-----------------------------------------------------------------------------
(* cckprng_generate *)

CckprngGenerate(t) ==
  /\ kpc[t] = "idle"
  /\ C!GenerateCall(t)
  /\ Enter(t, "generate")
  /\ due' = [due EXCEPT ![t] = announced]
  /\ UNCHANGED <<fortuna, needreseed, panicked, drawn, mixedIn, announced, sourceFailed>>

\* The steps that are the Csprng's alone.
CsprngLock(t) ==
  C!GenerateLock(t) /\ UNCHANGED <<fortuna, glue, kprng_history>>
CsprngOutput(t) ==
  (C!GenerateCached(t) \/ C!GenerateDirect(t)) /\ UNCHANGED <<fortuna, glue, kprng_history>>

\* Mutant: the flag is not looked at as long as the cache has a unit left.
NeedReseedWhenEmpty(t) ==
  /\ C!GenerateNeedReseed(t, needreseed /\ pos = CacheSize)
  /\ needreseed' = (needreseed /\ pos # CacheSize)
  /\ UNCHANGED <<fortuna, kpc, panicked, kprng_history>>

\* csprng_needreseed: the flag is read and cleared in one atomic step.
NeedReseed(t) ==
  /\ C!GenerateNeedReseed(t, needreseed)
  /\ needreseed' = FALSE
  /\ UNCHANGED <<fortuna, kpc, panicked, kprng_history>>

\* csprng_getentropy calls ccrng_fortuna_generate, with the Csprng locked ...
GetEntropyCall(t) ==
  /\ kpc[t] = "generate" /\ csprng_pc[t] = "getentropy"
  /\ F!GenerateCall(t)
  /\ Enter(t, "getentropy")
  /\ UNCHANGED <<csprng, needreseed, panicked, kprng_history>>

\* ... and hands its result on.
GetEntropyReturn(t) ==
  /\ kpc[t] = "getentropy" /\ fortuna_pc[t] = "idle"
  /\ C!GetEntropy(t, fortuna_ret[t])
  /\ Enter(t, "generate")
  /\ UNCHANGED <<fortuna, needreseed, panicked, kprng_history>>

\* Mutant: the flag is cleared when the reseed is complete.
GenerateReseedClears(t) ==
  /\ C!GenerateReseed(t, C!OK)
  /\ mixedIn' = mixedIn \cup drawn
  /\ needreseed' = FALSE
  /\ UNCHANGED <<fortuna, kpc, panicked, drawn, announced, due, sourceFailed>>

\* 64 bytes of entropy are always an acceptable seed.
GenerateReseed(t) ==
  /\ C!GenerateReseed(t, C!OK)
  /\ mixedIn' = mixedIn \cup drawn
  /\ UNCHANGED <<fortuna, glue, drawn, announced, due, sourceFailed>>

\* An error of the Csprng would have aborted before (cc_try_abort).
GenerateReturn(t) ==
  /\ C!GenerateReturn(t)
  /\ Enter(t, "idle")
  /\ due' = [due EXCEPT ![t] = {}]
  /\ UNCHANGED <<fortuna, needreseed, panicked, drawn, mixedIn, announced, sourceFailed>>

-----------------------------------------------------------------------------
(* cckprng_refresh, cckprng_reseed *)

RefreshCall(t) ==
  /\ kpc[t] = "idle"
  /\ F!RefreshTryLock(t)
  /\ Enter(t, "refresh")
  /\ UNCHANGED <<csprng, needreseed, panicked, kprng_history>>

\* Mutant: the flag is set after every refresh.
RefreshReturnAlways(t) ==
  /\ kpc[t] = "refresh" /\ fortuna_pc[t] = "idle"
  /\ needreseed' = TRUE /\ announced' = fortuna_key
  /\ Enter(t, "idle")
  /\ UNCHANGED <<csprng, fortuna, panicked, drawn, mixedIn, due, sourceFailed>>

\* ccrng_fortuna_refresh is back, its mutex released; the flag is set if it
\* says it reseeded.
RefreshReturn(t) ==
  /\ kpc[t] = "refresh" /\ fortuna_pc[t] = "idle"
  /\ IF fortuna_ret[t] = "reseeded"
     THEN needreseed' = TRUE /\ announced' = fortuna_key
     ELSE UNCHANGED <<needreseed, announced>>
  /\ Enter(t, "idle")
  /\ UNCHANGED <<csprng, fortuna, panicked, drawn, mixedIn, due, sourceFailed>>

ReseedCall(t) ==
  /\ kpc[t] = "idle"
  /\ C!ReseedCall(t, "reseed_user")
  /\ Enter(t, "reseed")
  /\ UNCHANGED <<fortuna, needreseed, panicked, kprng_history>>

\* cc_abort if the DRBG does not take the seed.
Reseed(t) ==
  /\ \E s \in UserSeedResults : C!ReseedUser(t, s) /\ panicked' = (s # C!OK)
  /\ Enter(t, "idle")
  /\ UNCHANGED <<fortuna, needreseed, kprng_history>>

-----------------------------------------------------------------------------
(* Inside ccrng_fortuna_generate and ccrng_fortuna_refresh *)

FortunaOutput(t) ==
  /\ F!GenerateOutput(t)
  /\ drawn' = fortuna_key
  /\ UNCHANGED <<csprng, glue, mixedIn, announced, due, sourceFailed>>

FortunaFailure(t) ==
  /\ F!RefreshFailure(t)
  /\ sourceFailed' = TRUE
  /\ UNCHANGED <<csprng, glue, drawn, mixedIn, announced, due>>

FortunaStep(t) ==
  /\ \/ F!GenerateLock(t) \/ F!GenerateCheck(t) \/ F!RefreshNothing(t)
     \/ F!schedule(t) \/ F!addentropy(t)
     \/ F!schedreseed_drain(t) \/ F!schedreseed_final(t)
  /\ UNCHANGED <<csprng, glue, kprng_history>>

Call(t) == CckprngGenerate(t) \/ RefreshCall(t) \/ ReseedCall(t)

Advance(t) ==
  \/ CsprngLock(t) \/ NeedReseed(t) \/ GetEntropyCall(t) \/ GetEntropyReturn(t)
  \/ GenerateReseed(t) \/ CsprngOutput(t) \/ GenerateReturn(t)
  \/ RefreshReturn(t) \/ Reseed(t)
  \/ FortunaOutput(t) \/ FortunaFailure(t) \/ FortunaStep(t)

Halted == aborted \/ panicked

\* After an abort nothing more happens.
Stop == Halted /\ UNCHANGED kprng_vars

KprngNext == Stop \/ (~Halted /\ \E t \in Threads : Call(t) \/ Advance(t))

KprngSpec == KprngInit /\ [][KprngNext]_kprng_vars

\* A thread inside a call goes on whenever it could all along.
Fairness == \A t \in Threads : WF_kprng_vars(~Halted /\ Advance(t))

FairSpec == KprngSpec /\ Fairness

-----------------------------------------------------------------------------
\* A refresh that has reseeded Fortuna and not yet set the flag.
Announcing(t) ==
  kpc[t] = "refresh" /\ fortuna_pc[t] = "idle" /\ fortuna_ret[t] = "reseeded"

\* No reseed of Fortuna is forgotten: unless the flag is up, about to be put
\* up, or being acted upon, the DRBG has absorbed all that the seeded Fortuna
\* has.  The flag is consumed before the entropy is drawn, never after.
NoLostReseed ==
  fortuna_seeded /\ ~needreseed /\ csprng_lock = NoThread /\ (\A t \in Threads : ~Announcing(t))
    => fortuna_key \subseteq mixedIn

\* Output of a generate call depends on every input that a refresh which
\* returned before the call mixed into Fortuna, whatever was cached.
PromptReseed ==
  \A t \in Threads : csprng_pc[t] = "generate" => due[t] \subseteq mixedIn

\* The machine panics for want of a reseed only if the entropy source failed:
\* the flag is never up for a Fortuna that was not seeded.
PanicOnlyOnFailure == aborted => sourceFailed

\* Neither mutex is held for ever, nested as they are.  A thread that holds
\* the Csprng's waits for Fortuna's, and the mutexes promise it no turn: only
\* an endless stream of refreshes, which take Fortuna's, can keep it there.
LocksReleased ==
  /\ []<>(fortuna_lock = NoThread \/ Halted)
  /\ \/ []<>(csprng_lock = NoThread \/ Halted)
     \/ []<><<\E t \in Threads : RefreshCall(t)>>_kprng_vars
=============================================================================
