---------------------------- MODULE KprngProofs ----------------------------
(***************************************************************************)
(* Proofs about Kprng.tla: no reseed of Fortuna is lost on its way to the  *)
(* DRBG, and none comes late, for any threads, pools, sizes and inputs.    *)
(***************************************************************************)
EXTENDS Kprng, TLAPS

-----------------------------------------------------------------------------
(* Where a thread is: its place in the glue goes with its places in the    *)
(* two components, and the mutex of the Csprng has the owner it should.    *)

Distinguished == NoThread \notin Threads

LockedPlaces == {"needreseed", "getentropy", "reseed", "generate"}
Generating == {"generate_lock", "generate_check", "generate_output"}
Refreshing == {"getentropy", "addentropy", "schedreseed"}

PlacesOf(t) ==
  \/ /\ kpc[t] = "idle" /\ csprng_pc[t] = "idle" /\ fortuna_pc[t] = "idle"
  \/ /\ kpc[t] = "generate" /\ csprng_pc[t] \in LockedPlaces \union {"loop", "idle"}
     /\ fortuna_pc[t] = "idle"
  \/ /\ kpc[t] = "getentropy" /\ csprng_pc[t] = "getentropy"
     /\ fortuna_pc[t] \in Generating \union {"idle"}
  \/ /\ kpc[t] = "refresh" /\ csprng_pc[t] = "idle"
     /\ fortuna_pc[t] \in Refreshing \union {"idle"}
  \/ /\ kpc[t] = "reseed" /\ csprng_pc[t] = "reseed_user" /\ fortuna_pc[t] = "idle"

OwnerOf(t) == csprng_pc[t] \in LockedPlaces => csprng_lock = t

Domains ==
  /\ DOMAIN kpc = Threads /\ DOMAIN csprng_pc = Threads /\ DOMAIN fortuna_pc = Threads
  /\ DOMAIN fortuna_ret = Threads /\ DOMAIN fortuna_frame = Threads /\ DOMAIN due = Threads

Control == Domains /\ \A t \in Threads : PlacesOf(t) /\ OwnerOf(t)

\* The places of the other threads are as they were.
Others(t) ==
  \A u \in Threads \ {t} :
    /\ kpc'[u] = kpc[u] /\ csprng_pc'[u] = csprng_pc[u]
    /\ fortuna_pc'[u] = fortuna_pc[u] /\ fortuna_ret'[u] = fortuna_ret[u]

LEMMA ControlStep ==
  ASSUME Control, NEW t \in Threads, Domains', Others(t), PlacesOf(t)', OwnerOf(t)',
         csprng_lock' = csprng_lock \/ csprng_lock \in {t, NoThread}, Distinguished
  PROVE  Control'
<1> SUFFICES ASSUME NEW u \in Threads PROVE PlacesOf(u)' /\ OwnerOf(u)'
  BY DEF Control
<1>1. CASE u = t
  BY <1>1
<1>2. CASE u # t
  <2>1. PlacesOf(u) /\ OwnerOf(u)
    BY DEF Control
  <2>2. kpc'[u] = kpc[u] /\ csprng_pc'[u] = csprng_pc[u] /\ fortuna_pc'[u] = fortuna_pc[u]
    BY <1>2 DEF Others
  <2>3. csprng_pc[u] \in LockedPlaces => csprng_lock' = u
    BY <1>2, <2>1 DEF OwnerOf, Distinguished
  <2> QED
    BY <2>1, <2>2, <2>3 DEF PlacesOf, OwnerOf
<1> QED
  BY <1>1, <1>2

-----------------------------------------------------------------------------
(* What the threads are doing about a reseed. *)

Pending == needreseed \/ \E t \in Threads : Announcing(t)

\* The flag is consumed and the entropy not yet drawn.
AboutToDraw(t) ==
  csprng_pc[t] = "getentropy" /\ (kpc[t] = "generate" \/ fortuna_pc[t] # "idle")

\* The entropy is drawn and not yet in the DRBG.
HasDrawn(t) ==
  \/ csprng_pc[t] = "reseed"
  \/ /\ csprng_pc[t] = "getentropy" /\ kpc[t] = "getentropy"
     /\ fortuna_pc[t] = "idle" /\ fortuna_ret[t] = "CCERR_OK"

\* What the seeded Fortuna has is in the DRBG, or on its way.
OnItsWay ==
  \/ Pending \/ ~fortuna_seeded
  \/ \E t \in Threads : AboutToDraw(t)
  \/ \E t \in Threads : HasDrawn(t) /\ fortuna_key \subseteq mixedIn \cup drawn
  \/ fortuna_key \subseteq mixedIn

IInv == Control /\ OnItsWay

\* A thread's step that leaves flag, Fortuna and the DRBG alone: what is on its way
\* stays there if the thread does not give it up.
LEMMA OnItsWayStep ==
  ASSUME OnItsWay, NEW t \in Threads, Others(t),
         UNCHANGED <<needreseed, fortuna_key, fortuna_seeded, mixedIn, drawn>>,
         Announcing(t) => Announcing(t)' , AboutToDraw(t) => AboutToDraw(t)',
         HasDrawn(t) => HasDrawn(t)'
  PROVE  OnItsWay'
<1>1. \A u \in Threads : /\ Announcing(u) => Announcing(u)'
                         /\ AboutToDraw(u) => AboutToDraw(u)'
                         /\ HasDrawn(u) => HasDrawn(u)'
  BY DEF Others, Announcing, AboutToDraw, HasDrawn
<1> QED
  BY <1>1 DEF OnItsWay, Pending

LEMMA InitIInv == KprngInit => IInv
BY DEF KprngInit, C!Init, F!Init, IInv, Control, Domains, PlacesOf, OwnerOf, LockedPlaces,
       OnItsWay

-----------------------------------------------------------------------------
(* The effects of the steps, as far as the theorems look. *)

seen == <<fortuna_lock, fortuna_pc, fortuna_ret, fortuna_frame, fortuna_key, fortuna_seeded>>

LEMMA GenerateCallEffect ==
  ASSUME NEW t \in Threads, CckprngGenerate(t)
  PROVE  /\ kpc[t] = "idle" /\ kpc' = [kpc EXCEPT ![t] = "generate"]
         /\ csprng_pc[t] = "idle" /\ csprng_pc' = [csprng_pc EXCEPT ![t] = "loop"]
         /\ due' = [due EXCEPT ![t] = announced]
         /\ UNCHANGED <<csprng_lock, aborted, seen, needreseed, drawn, mixedIn, announced>>
BY DEF CckprngGenerate, Enter, C!GenerateCall, C!Goto, fortuna, seen

LEMMA GenerateLockEffect ==
  ASSUME NEW t \in Threads, CsprngLock(t)
  PROVE  /\ csprng_pc[t] = "loop" /\ csprng_pc' = [csprng_pc EXCEPT ![t] = "needreseed"]
         /\ csprng_lock = NoThread /\ csprng_lock' = t
         /\ UNCHANGED <<kpc, aborted, seen, needreseed, kprng_history>>
BY DEF CsprngLock, C!GenerateLock, C!Goto, fortuna, glue, seen

LEMMA GenerateOutputEffect ==
  ASSUME NEW t \in Threads, CsprngOutput(t)
  PROVE  /\ csprng_pc[t] = "generate" /\ csprng_pc' = [csprng_pc EXCEPT ![t] = "loop"]
         /\ csprng_lock' = NoThread
         /\ UNCHANGED <<kpc, aborted, seen, needreseed, kprng_history>>
<1>1. UNCHANGED <<kpc, seen, needreseed, kprng_history>>
  BY DEF CsprngOutput, fortuna, glue, seen
<1>2. CASE C!GenerateCached(t)
  BY <1>1, <1>2 DEF C!GenerateCached, C!Write, C!Goto
<1>3. CASE C!GenerateDirect(t)
  BY <1>1, <1>3 DEF C!GenerateDirect, C!Write, C!Goto
<1> QED
  BY <1>2, <1>3 DEF CsprngOutput

LEMMA NeedReseedEffect ==
  ASSUME NEW t \in Threads, NeedReseed(t)
  PROVE  /\ csprng_pc[t] = "needreseed" /\ needreseed' = FALSE
         /\ \/ csprng_pc' = [csprng_pc EXCEPT ![t] = "getentropy"]
            \/ ~needreseed /\ csprng_pc' = [csprng_pc EXCEPT ![t] = "generate"]
         /\ UNCHANGED <<kpc, csprng_lock, aborted, seen, kprng_history>>
<1>1. C!GenerateNeedReseed(t, needreseed)
  BY DEF NeedReseed
<1>2. /\ csprng_pc[t] = "needreseed" /\ UNCHANGED <<csprng_lock, aborted>>
      /\ csprng_pc' = [csprng_pc EXCEPT ![t] =
           IF needreseed \/ csprng_frame[t].drbg_status = C!NEED_RESEED
           THEN "getentropy" ELSE "generate"]
  BY <1>1 DEF C!GenerateNeedReseed, C!Goto
<1>3. needreseed' = FALSE /\ UNCHANGED <<kpc, seen, kprng_history>>
  BY DEF NeedReseed, fortuna, seen
<1>4. CASE needreseed \/ csprng_frame[t].drbg_status = C!NEED_RESEED
  BY <1>2, <1>3, <1>4
<1>5. CASE ~(needreseed \/ csprng_frame[t].drbg_status = C!NEED_RESEED)
  BY <1>2, <1>3, <1>5
<1> QED
  BY <1>4, <1>5

LEMMA GetEntropyCallEffect ==
  ASSUME NEW t \in Threads, GetEntropyCall(t)
  PROVE  /\ kpc[t] = "generate" /\ kpc' = [kpc EXCEPT ![t] = "getentropy"]
         /\ csprng_pc[t] = "getentropy"
         /\ fortuna_pc[t] = "idle"
         /\ fortuna_pc' = [fortuna_pc EXCEPT ![t] = "generate_lock"]
         /\ UNCHANGED <<csprng_pc, csprng_lock, aborted, needreseed, kprng_history,
                        fortuna_lock, fortuna_ret, fortuna_frame, fortuna_key, fortuna_seeded>>
BY DEF GetEntropyCall, Enter, F!GenerateCall, F!Goto, F!ctx, csprng

LEMMA GetEntropyReturnEffect ==
  ASSUME NEW t \in Threads, GetEntropyReturn(t)
  PROVE  /\ kpc[t] = "getentropy" /\ kpc' = [kpc EXCEPT ![t] = "generate"]
         /\ fortuna_pc[t] = "idle" /\ csprng_pc[t] = "getentropy"
         /\ UNCHANGED <<seen, needreseed, kprng_history>>
         /\ \/ /\ fortuna_ret[t] = "CCERR_OK"
               /\ csprng_pc' = [csprng_pc EXCEPT ![t] = "reseed"]
               /\ UNCHANGED <<csprng_lock, aborted>>
            \/ /\ fortuna_ret[t] # "CCERR_OK"
               /\ csprng_pc' = [csprng_pc EXCEPT ![t] = "getentropy"]
               /\ UNCHANGED <<csprng_lock, aborted>>
            \/ /\ fortuna_ret[t] # "CCERR_OK"
               /\ csprng_pc' = [csprng_pc EXCEPT ![t] = "idle"]
               /\ csprng_lock' = NoThread /\ (ProvidesAbort => aborted')
<1>1. /\ kpc[t] = "getentropy" /\ kpc' = [kpc EXCEPT ![t] = "generate"]
      /\ fortuna_pc[t] = "idle" /\ UNCHANGED <<seen, needreseed, kprng_history>>
      /\ C!GetEntropy(t, fortuna_ret[t])
  BY DEF GetEntropyReturn, Enter, fortuna, seen
<1>2. csprng_pc[t] = "getentropy"
  BY <1>1 DEF C!GetEntropy
<1>3. CASE fortuna_ret[t] = C!OK
  BY <1>1, <1>2, <1>3 DEF C!GetEntropy, C!Goto, C!OK
<1>4. CASE fortuna_ret[t] # C!OK
  <2>1. C!Retry(t, fortuna_ret[t]) /\ fortuna_ret[t] # "CCERR_OK"
    BY <1>1, <1>4 DEF C!GetEntropy, C!OK
  <2>2. \/ /\ csprng_pc' = [csprng_pc EXCEPT ![t] = "getentropy"]
           /\ UNCHANGED <<csprng_lock, aborted>>
        \/ /\ csprng_pc' = [csprng_pc EXCEPT ![t] = "idle"]
           /\ csprng_lock' = NoThread
           /\ aborted' = (fortuna_ret[t] # C!OK /\ ProvidesAbort)
    BY <2>1 DEF C!Retry, C!Return, C!Goto
  <2>3. aborted' = (fortuna_ret[t] # C!OK /\ ProvidesAbort) => (ProvidesAbort => aborted')
    BY <1>4, Zenon
  <2> QED
    BY <1>1, <1>2, <1>4, <2>1, <2>2, <2>3
<1> QED
  BY <1>3, <1>4

LEMMA GenerateReseedEffect ==
  ASSUME NEW t \in Threads, GenerateReseed(t)
  PROVE  /\ csprng_pc[t] = "reseed" /\ csprng_pc' = [csprng_pc EXCEPT ![t] = "generate"]
         /\ mixedIn' = mixedIn \cup drawn
         /\ UNCHANGED <<kpc, csprng_lock, aborted, seen, needreseed, drawn, announced, due>>
BY DEF GenerateReseed, C!GenerateReseed, C!Goto, C!OK, fortuna, glue, seen

LEMMA GenerateReturnEffect ==
  ASSUME NEW t \in Threads, GenerateReturn(t)
  PROVE  /\ kpc' = [kpc EXCEPT ![t] = "idle"]
         /\ csprng_pc[t] = "loop" /\ csprng_pc' = [csprng_pc EXCEPT ![t] = "idle"]
         /\ due' = [due EXCEPT ![t] = {}]
         /\ UNCHANGED <<csprng_lock, seen, needreseed, drawn, mixedIn, announced>>
BY DEF GenerateReturn, Enter, C!GenerateReturn, C!Return, C!Goto, fortuna, seen

LEMMA RefreshCallEffect ==
  ASSUME NEW t \in Threads, RefreshCall(t)
  PROVE  /\ kpc[t] = "idle" /\ kpc' = [kpc EXCEPT ![t] = "refresh"]
         /\ fortuna_pc[t] = "idle"
         /\ \/ /\ fortuna_pc' = [fortuna_pc EXCEPT ![t] = "getentropy"]
               /\ UNCHANGED <<fortuna_ret, fortuna_frame>>
               /\ ~PthreadTryLock => fortuna_lock = NoThread
            \/ /\ fortuna_pc' = [fortuna_pc EXCEPT ![t] = "idle"]
               /\ fortuna_ret' = [fortuna_ret EXCEPT ![t] = "not_reseeded"]
               /\ fortuna_frame' = [fortuna_frame EXCEPT ![t] = F!NoFrame]
               /\ ~PthreadTryLock => fortuna_lock # NoThread
         /\ fortuna_lock' = IF fortuna_lock = NoThread THEN t ELSE fortuna_lock
         /\ UNCHANGED <<csprng_pc, csprng_lock, aborted, needreseed, kprng_history,
                        fortuna_key, fortuna_seeded>>
<1>1. /\ kpc[t] = "idle" /\ kpc' = [kpc EXCEPT ![t] = "refresh"]
      /\ UNCHANGED <<csprng_pc, csprng_lock, aborted, needreseed, kprng_history>>
      /\ F!RefreshTryLock(t)
  BY DEF RefreshCall, Enter, csprng
<1> QED
  BY <1>1 DEF F!RefreshTryLock, F!Return, F!Goto, F!ctx

LEMMA RefreshReturnEffect ==
  ASSUME NEW t \in Threads, RefreshReturn(t)
  PROVE  /\ kpc[t] = "refresh" /\ kpc' = [kpc EXCEPT ![t] = "idle"]
         /\ fortuna_pc[t] = "idle"
         /\ \/ /\ fortuna_ret[t] = "reseeded" /\ needreseed' = TRUE /\ announced' = fortuna_key
            \/ /\ fortuna_ret[t] # "reseeded" /\ UNCHANGED <<needreseed, announced>>
         /\ UNCHANGED <<csprng_pc, csprng_lock, aborted, seen, drawn, mixedIn, due>>
BY DEF RefreshReturn, Enter, csprng, fortuna, seen

LEMMA ReseedCallEffect ==
  ASSUME NEW t \in Threads, ReseedCall(t)
  PROVE  /\ kpc[t] = "idle" /\ kpc' = [kpc EXCEPT ![t] = "reseed"]
         /\ csprng_pc' = [csprng_pc EXCEPT ![t] = "reseed_user"]
         /\ UNCHANGED <<csprng_lock, aborted, seen, needreseed, kprng_history>>
BY DEF ReseedCall, Enter, C!ReseedCall, C!Goto, fortuna, seen

LEMMA ReseedEffect ==
  ASSUME NEW t \in Threads, Reseed(t)
  PROVE  /\ csprng_pc[t] = "reseed_user" /\ kpc' = [kpc EXCEPT ![t] = "idle"]
         /\ csprng_pc' = [csprng_pc EXCEPT ![t] = "idle"]
         /\ UNCHANGED <<csprng_lock, aborted, seen, needreseed, kprng_history>>
BY DEF Reseed, Enter, C!ReseedUser, C!Goto, fortuna, seen

LEMMA FortunaOutputEffect ==
  ASSUME NEW t \in Threads, FortunaOutput(t)
  PROVE  /\ fortuna_pc[t] = "generate_output"
         /\ fortuna_pc' = [fortuna_pc EXCEPT ![t] = "idle"]
         /\ fortuna_ret' = [fortuna_ret EXCEPT ![t] = "CCERR_OK"]
         /\ fortuna_frame' = [fortuna_frame EXCEPT ![t] = F!NoFrame]
         /\ fortuna_lock' = NoThread /\ drawn' = fortuna_key
         /\ UNCHANGED <<kpc, csprng_pc, csprng_lock, aborted, needreseed,
                        fortuna_key, fortuna_seeded,
                        mixedIn, announced, due>>
BY DEF FortunaOutput, F!GenerateOutput, F!UnlockAndReturn, F!Return, F!Goto, csprng, glue

LEMMA FortunaFailureEffect ==
  ASSUME NEW t \in Threads, FortunaFailure(t)
  PROVE  /\ fortuna_pc[t] = "getentropy"
         /\ fortuna_pc' = [fortuna_pc EXCEPT ![t] = "idle"]
         /\ fortuna_ret' = [fortuna_ret EXCEPT ![t] = "not_reseeded"]
         /\ fortuna_frame' = [fortuna_frame EXCEPT ![t] = F!NoFrame]
         /\ fortuna_lock' = NoThread /\ fortuna_seeded' = FALSE
         /\ UNCHANGED <<kpc, csprng_pc, csprng_lock, aborted, needreseed, fortuna_key,
                        drawn, mixedIn, announced, due>>
BY DEF FortunaFailure, F!RefreshFailure, F!reset, F!UnlockAndReturn, F!Return, F!Goto,
       csprng, glue

\* The steps inside Fortuna that leave key and seeded alone: from where to where.
Moves(t, from, to) ==
  /\ fortuna_pc[t] = from /\ fortuna_pc' = [fortuna_pc EXCEPT ![t] = to]
  /\ fortuna_key' = fortuna_key /\ fortuna_seeded' = fortuna_seeded
Stays(t, from, to) ==
  Moves(t, from, to) /\ UNCHANGED <<fortuna_ret, fortuna_lock>>
Ends(t, from, r) ==
  /\ Moves(t, from, "idle") /\ fortuna_lock' = NoThread
  /\ fortuna_ret' = [fortuna_ret EXCEPT ![t] = r]
  /\ fortuna_frame' = [fortuna_frame EXCEPT ![t] = F!NoFrame]

FortunaMoves(t) ==
  \/ /\ Moves(t, "generate_lock", "generate_check")
     /\ fortuna_lock = NoThread /\ fortuna_lock' = t
     /\ UNCHANGED <<fortuna_ret, fortuna_frame>>
  \/ Stays(t, "generate_check", "generate_output") /\ fortuna_seeded /\ UNCHANGED fortuna_frame
  \/ Ends(t, "generate_check", "CCERR_RNG_NOT_SEEDED") /\ ~fortuna_seeded
  \/ Ends(t, "getentropy", "not_reseeded")
  \/ /\ Stays(t, "getentropy", "addentropy")
     /\ \E f : fortuna_frame' = [fortuna_frame EXCEPT ![t] = f]
  \/ Ends(t, "addentropy", "not_reseeded")
  \/ /\ Stays(t, "addentropy", "schedreseed")
     /\ \E f : fortuna_frame' = [fortuna_frame EXCEPT ![t] = f] /\ f.sha = fortuna_key
  \/ /\ fortuna_pc[t] = "schedreseed"
     /\ UNCHANGED <<fortuna_pc, fortuna_lock, fortuna_ret, fortuna_key, fortuna_seeded>>
     /\ \E f : /\ fortuna_frame' = [fortuna_frame EXCEPT ![t] = f]
               /\ fortuna_frame[t].sha \subseteq f.sha

\* The step that ends a reseed.
FortunaReseeds(t) ==
  /\ fortuna_pc[t] = "schedreseed" /\ fortuna_pc' = [fortuna_pc EXCEPT ![t] = "idle"]
  /\ fortuna_key' = fortuna_frame[t].sha /\ fortuna_lock' = NoThread
  /\ \/ fortuna_ret' = [fortuna_ret EXCEPT ![t] = "reseeded"]
     \/ fortuna_ret' = [fortuna_ret EXCEPT ![t] = "not_reseeded"] /\ ~fortuna_seeded'
  /\ fortuna_frame' = [fortuna_frame EXCEPT ![t] = F!NoFrame]

LEMMA FortunaStepEffect ==
  ASSUME NEW t \in Threads, FortunaStep(t)
  PROVE  /\ FortunaMoves(t) \/ FortunaReseeds(t)
         /\ UNCHANGED <<kpc, csprng_pc, csprng_lock, aborted, needreseed, kprng_history>>
<1>1. UNCHANGED <<kpc, csprng_pc, csprng_lock, aborted, needreseed, kprng_history>>
  BY DEF FortunaStep, csprng, glue
<1>2. CASE F!GenerateLock(t)
  BY <1>1, <1>2 DEF F!GenerateLock, F!Goto, F!ctx, FortunaMoves, Moves
<1>3. CASE F!GenerateCheck(t)
  <2>1. CASE fortuna_seeded
    BY <1>1, <1>3, <2>1 DEF F!GenerateCheck, F!Goto, F!ctx, FortunaMoves, Stays, Moves
  <2>2. CASE ~fortuna_seeded
    BY <1>1, <1>3, <2>2
    DEF F!GenerateCheck, F!UnlockAndReturn, F!Return, F!Goto, F!ctx, FortunaMoves, Ends, Moves
  <2> QED
    BY <2>1, <2>2
<1>4. CASE F!RefreshNothing(t)
  BY <1>1, <1>4
  DEF F!RefreshNothing, F!UnlockAndReturn, F!Return, F!Goto, F!ctx, FortunaMoves, Ends, Moves
<1>5. CASE F!schedule(t)
  <2>1. /\ fortuna_pc[t] = "getentropy" /\ fortuna_pc' = [fortuna_pc EXCEPT ![t] = "addentropy"]
        /\ UNCHANGED <<fortuna_lock, fortuna_ret, fortuna_key, fortuna_seeded>>
    BY <1>5 DEF F!schedule, F!Goto
  <2>2. PICK n \in SampleCounts : fortuna_frame' = [fortuna_frame EXCEPT ![t] =
          [n |-> n, pool_in |-> fortuna_pool_idx, pool_out |-> F!pool_out(fortuna_reseed_sched),
           i |-> 0, nsamples |-> 0, sha |-> {}]]
    BY <1>5 DEF F!schedule
  <2>3. \E f : fortuna_frame' = [fortuna_frame EXCEPT ![t] = f]
    BY <2>2, Zenon
  <2> QED
    BY <1>1, <2>1, <2>3 DEF FortunaMoves, Stays, Moves
<1>6. CASE F!addentropy(t)
  <2>1. fortuna_pc[t] = "addentropy" /\ UNCHANGED <<fortuna_key, fortuna_seeded>>
    BY <1>6 DEF F!addentropy
  <2>2. CASE F!UnlockAndReturn(t, "not_reseeded")
    BY <1>1, <2>1, <2>2 DEF F!UnlockAndReturn, F!Return, F!Goto, FortunaMoves, Ends, Moves
  <2>3. CASE ~F!UnlockAndReturn(t, "not_reseeded")
    <3> DEFINE f == fortuna_frame[t]
               g == [n |-> f.n, pool_in |-> f.pool_in, pool_out |-> f.pool_out,
                     i |-> 0, nsamples |-> 0, sha |-> F!DigestStart]
    <3>1. /\ fortuna_pc' = [fortuna_pc EXCEPT ![t] = "schedreseed"]
          /\ fortuna_frame' = [fortuna_frame EXCEPT ![t] = g]
          /\ UNCHANGED <<fortuna_lock, fortuna_ret>>
      BY <1>6, <2>3 DEF F!addentropy, F!Goto
    <3>2. g.sha = fortuna_key
      BY DEF F!DigestStart
    <3>3. \E h : fortuna_frame' = [fortuna_frame EXCEPT ![t] = h] /\ h.sha = fortuna_key
      <4> HIDE DEF g
      <4> QED
        BY <3>1, <3>2
    <3> QED
      BY <1>1, <2>1, <3>1, <3>3 DEF FortunaMoves, Stays, Moves
  <2> QED
    BY <2>2, <2>3
<1>7. CASE F!schedreseed_drain(t)
  <2> DEFINE f == fortuna_frame[t]
             p == fortuna_pools[f.i]
             g == [n |-> f.n, pool_in |-> f.pool_in, pool_out |-> f.pool_out, i |-> f.i + 1,
                   nsamples |-> (f.nsamples + p.nsamples) % U32, sha |-> f.sha \cup p.data]
  <2>1. /\ fortuna_pc[t] = "schedreseed"
        /\ UNCHANGED <<fortuna_lock, fortuna_pc, fortuna_ret, fortuna_key, fortuna_seeded>>
        /\ fortuna_frame' = [fortuna_frame EXCEPT ![t] = g]
    BY <1>7 DEF F!schedreseed_drain
  <2>2. fortuna_frame[t].sha \subseteq g.sha
    OBVIOUS
  <2>3. \E h : /\ fortuna_frame' = [fortuna_frame EXCEPT ![t] = h]
               /\ fortuna_frame[t].sha \subseteq h.sha
    <3> HIDE DEF g
    <3> QED
      BY <2>1, <2>2
  <2> QED
    BY <1>1, <2>1, <2>3 DEF FortunaMoves
<1>8. CASE F!schedreseed_final(t)
  <2> DEFINE now == fortuna_seeded \/ F!Enough(fortuna_frame[t].nsamples)
  <2>1. /\ fortuna_pc[t] = "schedreseed"
        /\ fortuna_key' = fortuna_frame[t].sha /\ fortuna_seeded' = now
        /\ F!UnlockAndReturn(t, IF now THEN "reseeded" ELSE "not_reseeded")
    BY <1>8 DEF F!schedreseed_final
  <2> HIDE DEF now
  <2>2. CASE now
    BY <1>1, <2>1, <2>2 DEF F!UnlockAndReturn, F!Return, F!Goto, FortunaReseeds
  <2>3. CASE ~now
    BY <1>1, <2>1, <2>3 DEF F!UnlockAndReturn, F!Return, F!Goto, FortunaReseeds
  <2> QED
    BY <2>2, <2>3
<1> QED
  BY <1>2, <1>3, <1>4, <1>5, <1>6, <1>7, <1>8 DEF FortunaStep

-----------------------------------------------------------------------------
(* One lemma per action of the glue, and the theorem. *)

LEMMA GenerateCallStep ==
  ASSUME Distinguished, IInv, NEW t \in Threads, CckprngGenerate(t)
  PROVE  IInv'
<1>1. PlacesOf(t)
  BY DEF IInv, Control
<1>2. /\ kpc' = [kpc EXCEPT ![t] = "generate"] /\ csprng_pc' = [csprng_pc EXCEPT ![t] = "loop"]
      /\ kpc[t] = "idle" /\ due' = [due EXCEPT ![t] = announced]
      /\ UNCHANGED <<csprng_lock, seen, needreseed, drawn, mixedIn, announced>>
  BY GenerateCallEffect
<1>3. Domains' /\ Others(t)
  BY <1>2 DEF IInv, Control, Domains, Others, seen
<1>4. PlacesOf(t)' /\ OwnerOf(t)'
  BY <1>1, <1>2 DEF IInv, Control, Domains, PlacesOf, OwnerOf, LockedPlaces, seen
<1>5. OnItsWay'
  BY <1>1, <1>2, <1>3, OnItsWayStep
  DEF IInv, seen, Announcing, AboutToDraw, HasDrawn, PlacesOf
<1> QED
  BY <1>2, <1>3, <1>4, <1>5, ControlStep DEF IInv

LEMMA GenerateLockStep ==
  ASSUME Distinguished, IInv, NEW t \in Threads, CsprngLock(t)
  PROVE  IInv'
<1>1. PlacesOf(t)
  BY DEF IInv, Control
<1>2. /\ csprng_pc[t] = "loop" /\ csprng_pc' = [csprng_pc EXCEPT ![t] = "needreseed"]
      /\ csprng_lock = NoThread /\ csprng_lock' = t
      /\ UNCHANGED <<kpc, seen, needreseed, drawn, mixedIn, due>>
  BY GenerateLockEffect DEF kprng_history
<1>3. Domains' /\ Others(t)
  BY <1>2 DEF IInv, Control, Domains, Others, seen
<1>4. PlacesOf(t)' /\ OwnerOf(t)'
  BY <1>1, <1>2 DEF IInv, Control, Domains, PlacesOf, OwnerOf, LockedPlaces, seen, Generating,
     Refreshing
<1>5. OnItsWay'
  BY <1>1, <1>2, <1>3, OnItsWayStep
  DEF IInv, seen, Announcing, AboutToDraw, HasDrawn, PlacesOf
<1> QED
  BY <1>2, <1>3, <1>4, <1>5, ControlStep DEF IInv

LEMMA GenerateOutputStep ==
  ASSUME Distinguished, IInv, NEW t \in Threads, CsprngOutput(t)
  PROVE  IInv'
<1>1. PlacesOf(t) /\ OwnerOf(t)
  BY DEF IInv, Control
<1>2. /\ csprng_pc[t] = "generate" /\ csprng_pc' = [csprng_pc EXCEPT ![t] = "loop"]
      /\ csprng_lock' = NoThread
      /\ UNCHANGED <<kpc, seen, needreseed, drawn, mixedIn, due>>
  BY GenerateOutputEffect DEF kprng_history
<1>3. Domains' /\ Others(t)
  BY <1>2 DEF IInv, Control, Domains, Others, seen
<1>4. PlacesOf(t)' /\ OwnerOf(t)' /\ csprng_lock = t
  BY <1>1, <1>2 DEF IInv, Control, Domains, PlacesOf, OwnerOf, LockedPlaces, seen, Generating,
     Refreshing
<1>5. OnItsWay'
  BY <1>1, <1>2, <1>3, OnItsWayStep
  DEF IInv, seen, Announcing, AboutToDraw, HasDrawn, PlacesOf
<1> QED
  BY <1>2, <1>3, <1>4, <1>5, ControlStep DEF IInv

LEMMA NeedReseedStep ==
  ASSUME Distinguished, IInv, NEW t \in Threads, NeedReseed(t)
  PROVE  IInv'
<1>1. PlacesOf(t) /\ OwnerOf(t)
  BY DEF IInv, Control
<1>2. /\ csprng_pc[t] = "needreseed" /\ needreseed' = FALSE
      /\ \/ csprng_pc' = [csprng_pc EXCEPT ![t] = "getentropy"]
         \/ ~needreseed /\ csprng_pc' = [csprng_pc EXCEPT ![t] = "generate"]
      /\ UNCHANGED <<kpc, csprng_lock, seen, drawn, mixedIn, due>>
  BY NeedReseedEffect DEF kprng_history
<1>3. Domains' /\ Others(t)
  BY <1>2 DEF IInv, Control, Domains, Others, seen
<1>4. PlacesOf(t)' /\ OwnerOf(t)' /\ kpc[t] = "generate" /\ fortuna_pc[t] = "idle"
  BY <1>1, <1>2 DEF IInv, Control, Domains, PlacesOf, OwnerOf, LockedPlaces, seen, Generating,
     Refreshing
<1>5. OnItsWay'
  <2>1. CASE csprng_pc' = [csprng_pc EXCEPT ![t] = "getentropy"]
    <3>1. AboutToDraw(t)'
      BY <1>2, <1>4, <2>1 DEF AboutToDraw, IInv, Control, Domains
    <3> QED
      BY <3>1 DEF OnItsWay
  <2>2. CASE ~needreseed /\ csprng_pc' = [csprng_pc EXCEPT ![t] = "generate"]
    BY <1>1, <1>2, <1>3, <1>4, <2>2
    DEF IInv, OnItsWay, Pending, Others, seen, Announcing, AboutToDraw, HasDrawn
  <2> QED
    BY <1>2, <2>1, <2>2
<1> QED
  BY <1>2, <1>3, <1>4, <1>5, ControlStep DEF IInv

LEMMA GetEntropyCallStep ==
  ASSUME Distinguished, IInv, NEW t \in Threads, GetEntropyCall(t)
  PROVE  IInv'
<1>1. PlacesOf(t) /\ OwnerOf(t)
  BY DEF IInv, Control
<1>2. /\ kpc[t] = "generate" /\ kpc' = [kpc EXCEPT ![t] = "getentropy"]
      /\ csprng_pc[t] = "getentropy" /\ fortuna_pc[t] = "idle"
      /\ fortuna_pc' = [fortuna_pc EXCEPT ![t] = "generate_lock"]
      /\ UNCHANGED <<csprng_pc, csprng_lock, needreseed, drawn, mixedIn, due,
                     fortuna_ret, fortuna_frame, fortuna_key, fortuna_seeded>>
  BY GetEntropyCallEffect DEF kprng_history
<1>3. Domains' /\ Others(t)
  BY <1>2 DEF IInv, Control, Domains, Others
<1>4. PlacesOf(t)' /\ OwnerOf(t)'
  BY <1>1, <1>2 DEF IInv, Control, Domains, PlacesOf, OwnerOf, LockedPlaces, Generating
<1>5. OnItsWay'
  <2>1. AboutToDraw(t)'
    BY <1>2 DEF AboutToDraw, IInv, Control, Domains
  <2> QED
    BY <2>1 DEF OnItsWay
<1> QED
  BY <1>2, <1>3, <1>4, <1>5, ControlStep DEF IInv

LEMMA GetEntropyReturnStep ==
  ASSUME Distinguished, IInv, NEW t \in Threads, GetEntropyReturn(t)
  PROVE  IInv'
<1>1. PlacesOf(t) /\ OwnerOf(t)
  BY DEF IInv, Control
<1>2. /\ kpc[t] = "getentropy" /\ kpc' = [kpc EXCEPT ![t] = "generate"]
      /\ fortuna_pc[t] = "idle" /\ csprng_pc[t] = "getentropy"
      /\ UNCHANGED <<seen, needreseed, drawn, mixedIn, due>>
  BY GetEntropyReturnEffect DEF kprng_history
<1>a. csprng_lock = t
  BY <1>1, <1>2 DEF OwnerOf, LockedPlaces
<1>b. /\ csprng_lock' = csprng_lock \/ csprng_lock' = NoThread
      /\ \/ /\ fortuna_ret[t] = "CCERR_OK" /\ csprng_lock' = csprng_lock
            /\ csprng_pc' = [csprng_pc EXCEPT ![t] = "reseed"]
         \/ /\ fortuna_ret[t] # "CCERR_OK" /\ csprng_lock' = csprng_lock
            /\ csprng_pc' = [csprng_pc EXCEPT ![t] = "getentropy"]
         \/ /\ fortuna_ret[t] # "CCERR_OK"
            /\ csprng_pc' = [csprng_pc EXCEPT ![t] = "idle"]
  BY GetEntropyReturnEffect
<1>3. Domains' /\ Others(t)
  BY <1>2, <1>b DEF IInv, Control, Domains, Others, seen
<1>4. PlacesOf(t)' /\ OwnerOf(t)'
  BY <1>1, <1>2, <1>a, <1>b DEF IInv, Control, Domains, PlacesOf, OwnerOf, LockedPlaces, seen
<1>5. OnItsWay'
  <2>1. Announcing(t) => Announcing(t)'
    BY <1>2 DEF Announcing
  <2>2. AboutToDraw(t) => AboutToDraw(t)'
    BY <1>2 DEF AboutToDraw
  <2>3. HasDrawn(t) => HasDrawn(t)'
    BY <1>2, <1>b DEF HasDrawn, IInv, Control, Domains
  <2> QED
    BY <1>2, <1>3, <2>1, <2>2, <2>3, OnItsWayStep DEF IInv, seen
<1> QED
  BY <1>a, <1>3, <1>4, <1>5, ControlStep DEF IInv

LEMMA GenerateReseedStep ==
  ASSUME Distinguished, IInv, NEW t \in Threads, GenerateReseed(t)
  PROVE  IInv'
<1>1. PlacesOf(t) /\ OwnerOf(t)
  BY DEF IInv, Control
<1>2. /\ csprng_pc[t] = "reseed" /\ csprng_pc' = [csprng_pc EXCEPT ![t] = "generate"]
      /\ mixedIn' = mixedIn \cup drawn
      /\ UNCHANGED <<kpc, csprng_lock, seen, needreseed, drawn, due>>
  BY GenerateReseedEffect
<1>3. Domains' /\ Others(t)
  BY <1>2 DEF IInv, Control, Domains, Others, seen
<1>4. PlacesOf(t)' /\ OwnerOf(t)'
  BY <1>1, <1>2
  DEF IInv, Control, Domains, PlacesOf, OwnerOf, LockedPlaces, seen, Generating, Refreshing
<1>5. OnItsWay'
  <2>1. CASE Pending \/ ~fortuna_seeded
    BY <1>2, <2>1 DEF OnItsWay, Pending, Announcing, seen
  <2>2. ASSUME NEW u \in Threads, AboutToDraw(u) PROVE OnItsWay'
    <3>1. u # t
      BY <1>2, <2>2 DEF AboutToDraw
    <3>2. AboutToDraw(u)'
      BY <1>2, <1>3, <2>2, <3>1 DEF AboutToDraw, Others
    <3> QED
      BY <3>2 DEF OnItsWay
  <2>3. CASE fortuna_key \subseteq mixedIn \cup drawn
    <3>1. fortuna_key' \subseteq mixedIn'
      BY <1>2, <2>3 DEF seen
    <3> QED
      BY <3>1 DEF OnItsWay
  <2>4. CASE fortuna_key \subseteq mixedIn
    BY <2>3, <2>4
  <2> QED
    BY <2>1, <2>2, <2>3, <2>4 DEF IInv, OnItsWay
<1> QED
  BY <1>2, <1>3, <1>4, <1>5, ControlStep DEF IInv

LEMMA GenerateReturnStep ==
  ASSUME Distinguished, IInv, NEW t \in Threads, GenerateReturn(t)
  PROVE  IInv'
<1>1. PlacesOf(t) /\ OwnerOf(t)
  BY DEF IInv, Control
<1>2. /\ kpc' = [kpc EXCEPT ![t] = "idle"]
      /\ csprng_pc[t] = "loop" /\ csprng_pc' = [csprng_pc EXCEPT ![t] = "idle"]
      /\ due' = [due EXCEPT ![t] = {}]
      /\ UNCHANGED <<csprng_lock, seen, needreseed, drawn, mixedIn>>
  BY GenerateReturnEffect
<1>3. Domains' /\ Others(t)
  BY <1>2 DEF IInv, Control, Domains, Others, seen
<1>4. PlacesOf(t)' /\ OwnerOf(t)'
  BY <1>1, <1>2
  DEF IInv, Control, Domains, PlacesOf, OwnerOf, LockedPlaces, seen, Generating, Refreshing
<1>5. OnItsWay'
  BY <1>1, <1>2, <1>3, OnItsWayStep
  DEF IInv, Control, Domains, seen, Announcing, AboutToDraw, HasDrawn, PlacesOf, Refreshing
<1> QED
  BY <1>2, <1>3, <1>4, <1>5, ControlStep DEF IInv

LEMMA RefreshCallStep ==
  ASSUME Distinguished, IInv, NEW t \in Threads, RefreshCall(t)
  PROVE  IInv'
<1>1. PlacesOf(t) /\ OwnerOf(t)
  BY DEF IInv, Control
<1>2. /\ kpc[t] = "idle" /\ kpc' = [kpc EXCEPT ![t] = "refresh"]
      /\ fortuna_pc[t] = "idle"
      /\ \/ /\ fortuna_pc' = [fortuna_pc EXCEPT ![t] = "getentropy"]
            /\ UNCHANGED <<fortuna_ret, fortuna_frame>>
         \/ /\ fortuna_pc' = [fortuna_pc EXCEPT ![t] = "idle"]
            /\ fortuna_ret' = [fortuna_ret EXCEPT ![t] = "not_reseeded"]
            /\ fortuna_frame' = [fortuna_frame EXCEPT ![t] = F!NoFrame]
      /\ UNCHANGED <<csprng_pc, csprng_lock, needreseed, drawn, mixedIn, due,
                     fortuna_key, fortuna_seeded>>
  BY RefreshCallEffect DEF kprng_history
<1>3. Domains' /\ Others(t)
  BY <1>2 DEF IInv, Control, Domains, Others, seen
<1>4. PlacesOf(t)' /\ OwnerOf(t)'
  BY <1>1, <1>2
  DEF IInv, Control, Domains, PlacesOf, OwnerOf, LockedPlaces, seen, Generating, Refreshing
<1>5. OnItsWay'
  BY <1>1, <1>2, <1>3, OnItsWayStep
  DEF IInv, Control, Domains, seen, Announcing, AboutToDraw, HasDrawn, PlacesOf, Refreshing
<1> QED
  BY <1>2, <1>3, <1>4, <1>5, ControlStep DEF IInv

LEMMA RefreshReturnStep ==
  ASSUME Distinguished, IInv, NEW t \in Threads, RefreshReturn(t)
  PROVE  IInv'
<1>1. PlacesOf(t) /\ OwnerOf(t)
  BY DEF IInv, Control
<1>2. /\ kpc[t] = "refresh" /\ kpc' = [kpc EXCEPT ![t] = "idle"]
      /\ fortuna_pc[t] = "idle"
      /\ \/ fortuna_ret[t] = "reseeded" /\ needreseed' = TRUE
         \/ fortuna_ret[t] # "reseeded" /\ UNCHANGED needreseed
      /\ UNCHANGED <<csprng_pc, csprng_lock, seen, drawn, mixedIn, due>>
  BY RefreshReturnEffect
<1>3. Domains' /\ Others(t)
  BY <1>2 DEF IInv, Control, Domains, Others, seen
<1>4. PlacesOf(t)' /\ OwnerOf(t)'
  BY <1>1, <1>2
  DEF IInv, Control, Domains, PlacesOf, OwnerOf, LockedPlaces, seen, Generating, Refreshing
<1>5. OnItsWay'
  <2>1. CASE fortuna_ret[t] = "reseeded"
    BY <1>2, <2>1 DEF OnItsWay, Pending
  <2>2. CASE fortuna_ret[t] # "reseeded"
    <3>1. UNCHANGED <<needreseed, fortuna_key, fortuna_seeded, mixedIn, drawn>> /\ ~Announcing(t)
      BY <1>2, <2>2 DEF Announcing, seen
    <3>2. ~AboutToDraw(t) /\ ~HasDrawn(t)
      BY <1>1, <1>2 DEF AboutToDraw, HasDrawn, PlacesOf
    <3> QED
      BY <1>3, <3>1, <3>2, OnItsWayStep DEF IInv
  <2> QED
    BY <2>1, <2>2
<1> QED
  BY <1>2, <1>3, <1>4, <1>5, ControlStep DEF IInv

LEMMA ReseedCallStep ==
  ASSUME Distinguished, IInv, NEW t \in Threads, ReseedCall(t)
  PROVE  IInv'
<1>1. PlacesOf(t) /\ OwnerOf(t)
  BY DEF IInv, Control
<1>2. /\ kpc[t] = "idle" /\ kpc' = [kpc EXCEPT ![t] = "reseed"]
      /\ csprng_pc' = [csprng_pc EXCEPT ![t] = "reseed_user"]
      /\ UNCHANGED <<csprng_lock, seen, needreseed, drawn, mixedIn, due>>
  BY ReseedCallEffect DEF kprng_history
<1>3. Domains' /\ Others(t)
  BY <1>2 DEF IInv, Control, Domains, Others, seen
<1>4. PlacesOf(t)' /\ OwnerOf(t)'
  BY <1>1, <1>2
  DEF IInv, Control, Domains, PlacesOf, OwnerOf, LockedPlaces, seen, Generating, Refreshing
<1>5. OnItsWay'
  BY <1>1, <1>2, <1>3, OnItsWayStep
  DEF IInv, Control, Domains, seen, Announcing, AboutToDraw, HasDrawn, PlacesOf, Refreshing
<1> QED
  BY <1>2, <1>3, <1>4, <1>5, ControlStep DEF IInv

LEMMA ReseedStep ==
  ASSUME Distinguished, IInv, NEW t \in Threads, Reseed(t)
  PROVE  IInv'
<1>1. PlacesOf(t) /\ OwnerOf(t)
  BY DEF IInv, Control
<1>2. /\ csprng_pc[t] = "reseed_user" /\ kpc' = [kpc EXCEPT ![t] = "idle"]
      /\ csprng_pc' = [csprng_pc EXCEPT ![t] = "idle"]
      /\ UNCHANGED <<csprng_lock, seen, needreseed, drawn, mixedIn, due>>
  BY ReseedEffect DEF kprng_history
<1>3. Domains' /\ Others(t)
  BY <1>2 DEF IInv, Control, Domains, Others, seen
<1>4. PlacesOf(t)' /\ OwnerOf(t)'
  BY <1>1, <1>2
  DEF IInv, Control, Domains, PlacesOf, OwnerOf, LockedPlaces, seen, Generating, Refreshing
<1>5. OnItsWay'
  BY <1>1, <1>2, <1>3, OnItsWayStep
  DEF IInv, Control, Domains, seen, Announcing, AboutToDraw, HasDrawn, PlacesOf, Refreshing
<1> QED
  BY <1>2, <1>3, <1>4, <1>5, ControlStep DEF IInv

LEMMA FortunaOutputStep ==
  ASSUME Distinguished, IInv, NEW t \in Threads, FortunaOutput(t)
  PROVE  IInv'
<1>1. PlacesOf(t) /\ OwnerOf(t)
  BY DEF IInv, Control
<1>2. /\ fortuna_pc[t] = "generate_output"
      /\ fortuna_pc' = [fortuna_pc EXCEPT ![t] = "idle"]
      /\ fortuna_ret' = [fortuna_ret EXCEPT ![t] = "CCERR_OK"]
      /\ fortuna_frame' = [fortuna_frame EXCEPT ![t] = F!NoFrame]
      /\ drawn' = fortuna_key
      /\ UNCHANGED <<kpc, csprng_pc, csprng_lock, needreseed, fortuna_key, fortuna_seeded,
                     mixedIn, due>>
  BY FortunaOutputEffect
<1>3. Domains' /\ Others(t)
  BY <1>2 DEF IInv, Control, Domains, Others, seen
<1>4. PlacesOf(t)' /\ OwnerOf(t)'
  BY <1>1, <1>2
  DEF IInv, Control, Domains, PlacesOf, OwnerOf, LockedPlaces, seen, Generating, Refreshing
<1>5. OnItsWay'
  <2>1. HasDrawn(t)'
    BY <1>1, <1>2 DEF IInv, Control, Domains, PlacesOf, HasDrawn, Refreshing
  <2>2. fortuna_key' \subseteq mixedIn' \cup drawn'
    BY <1>2
  <2> QED
    BY <2>1, <2>2 DEF OnItsWay
<1> QED
  BY <1>2, <1>3, <1>4, <1>5, ControlStep DEF IInv

LEMMA FortunaFailureStep ==
  ASSUME Distinguished, IInv, NEW t \in Threads, FortunaFailure(t)
  PROVE  IInv'
<1>1. PlacesOf(t) /\ OwnerOf(t)
  BY DEF IInv, Control
<1>2. /\ fortuna_pc[t] = "getentropy"
      /\ fortuna_pc' = [fortuna_pc EXCEPT ![t] = "idle"]
      /\ fortuna_ret' = [fortuna_ret EXCEPT ![t] = "not_reseeded"]
      /\ fortuna_frame' = [fortuna_frame EXCEPT ![t] = F!NoFrame]
      /\ fortuna_seeded' = FALSE
      /\ UNCHANGED <<kpc, csprng_pc, csprng_lock, needreseed, due>>
  BY FortunaFailureEffect
<1>3. Domains' /\ Others(t)
  BY <1>2 DEF IInv, Control, Domains, Others, seen
<1>4. PlacesOf(t)' /\ OwnerOf(t)'
  BY <1>1, <1>2
  DEF IInv, Control, Domains, PlacesOf, OwnerOf, LockedPlaces, seen, Generating, Refreshing
<1>5. OnItsWay'
  BY <1>2 DEF OnItsWay
<1> QED
  BY <1>2, <1>3, <1>4, <1>5, ControlStep DEF IInv

LEMMA FortunaStepStep ==
  ASSUME Distinguished, IInv, NEW t \in Threads, FortunaStep(t)
  PROVE  IInv'
<1>1. PlacesOf(t) /\ OwnerOf(t)
  BY DEF IInv, Control
<1>2. /\ FortunaMoves(t) \/ FortunaReseeds(t)
      /\ UNCHANGED <<kpc, csprng_pc, csprng_lock, needreseed, drawn, mixedIn, due>>
  BY FortunaStepEffect DEF kprng_history
<1>3. Domains' /\ Others(t)
  <2>1. CASE FortunaMoves(t)
    BY <1>2, <2>1
    DEF IInv, Control, Domains, Others, FortunaMoves, Stays, Ends, Moves
  <2>2. CASE FortunaReseeds(t)
    BY <1>2, <2>2 DEF IInv, Control, Domains, Others, FortunaReseeds
  <2> QED
    BY <1>2, <2>1, <2>2
<1>4. PlacesOf(t)' /\ OwnerOf(t)'
  <2>1. CASE FortunaMoves(t)
    BY <1>1, <1>2, <2>1 DEF IInv, Control, Domains, PlacesOf, OwnerOf, LockedPlaces,
      Generating, Refreshing, FortunaMoves, Stays, Ends, Moves
  <2>2. CASE FortunaReseeds(t)
    BY <1>1, <1>2, <2>2 DEF IInv, Control, Domains, PlacesOf, OwnerOf, LockedPlaces,
      Generating, Refreshing, FortunaReseeds
  <2> QED
    BY <1>2, <2>1, <2>2
<1>5. OnItsWay'
  <2>1. CASE FortunaMoves(t)
    <3>1. UNCHANGED <<needreseed, fortuna_key, fortuna_seeded, mixedIn, drawn>>
      BY <1>2, <2>1 DEF FortunaMoves, Stays, Ends, Moves
    <3>2. (Announcing(t) => Announcing(t)') /\ (HasDrawn(t) => HasDrawn(t)')
      BY <1>1, <1>2, <2>1 DEF IInv, Control, Domains, Announcing, HasDrawn, PlacesOf,
        FortunaMoves, Stays, Ends, Moves
    <3>3. CASE ~fortuna_seeded
      BY <3>1, <3>3 DEF OnItsWay
    <3>4. CASE fortuna_seeded
      <4>1. AboutToDraw(t) => AboutToDraw(t)'
        BY <1>1, <1>2, <2>1, <3>4 DEF IInv, Control, Domains, AboutToDraw, PlacesOf,
          FortunaMoves, Stays, Ends, Moves, Generating
      <4> QED
        BY <1>3, <3>1, <3>2, <4>1, OnItsWayStep DEF IInv
    <3> QED
      BY <3>3, <3>4
  <2>2. CASE FortunaReseeds(t)
    <3>1. CASE ~fortuna_seeded'
      BY <3>1 DEF OnItsWay
    <3>2. CASE fortuna_seeded'
      <4>1. Announcing(t)'
        BY <1>1, <1>2, <2>2, <3>2 DEF IInv, Control, Domains, PlacesOf, FortunaReseeds,
          Announcing, Generating
      <4> QED
        BY <4>1 DEF OnItsWay, Pending
    <3> QED
      BY <3>1, <3>2
  <2> QED
    BY <1>2, <2>1, <2>2
<1> QED
  BY <1>2, <1>3, <1>4, <1>5, ControlStep DEF IInv

LEMMA NextIInv == ASSUME Distinguished PROVE IInv /\ [KprngNext]_kprng_vars => IInv'
<1> SUFFICES ASSUME IInv, [KprngNext]_kprng_vars PROVE IInv'
  OBVIOUS
<1>1. CASE UNCHANGED kprng_vars
  BY <1>1 DEF kprng_vars, csprng, fortuna, glue, kprng_history, IInv, Control, Domains, PlacesOf,
     OwnerOf, OnItsWay, Pending, Announcing, AboutToDraw, HasDrawn
<1>2. ASSUME NEW t \in Threads, Call(t) PROVE IInv'
  BY <1>2, GenerateCallStep, RefreshCallStep, ReseedCallStep DEF Call
<1>3. ASSUME NEW t \in Threads, Advance(t) PROVE IInv'
  BY <1>3, GenerateLockStep, NeedReseedStep, GetEntropyCallStep, GetEntropyReturnStep,
     GenerateReseedStep, GenerateOutputStep, GenerateReturnStep, RefreshReturnStep,
     ReseedStep, FortunaOutputStep, FortunaFailureStep, FortunaStepStep DEF Advance
<1> QED
  BY <1>1, <1>2, <1>3 DEF KprngNext, Stop

\* The inductive invariant: places, mutex owner, and where what Fortuna has is.
THEOREM Invariance == ASSUME Distinguished PROVE KprngSpec => []IInv
<1>1. IInv /\ [KprngNext]_kprng_vars => IInv'
  BY NextIInv
<1> QED
  BY InitIInv, <1>1, PTL DEF KprngSpec

LEMMA NoReseedLostIn == IInv /\ Distinguished => NoLostReseed
<1> SUFFICES ASSUME IInv, Distinguished, csprng_lock = NoThread,
                    fortuna_seeded, ~needreseed, \A t \in Threads : ~Announcing(t)
             PROVE  fortuna_key \subseteq mixedIn
  BY DEF NoLostReseed
<1>1. \A t \in Threads : csprng_pc[t] \notin LockedPlaces
  BY DEF IInv, Control, OwnerOf, Distinguished
<1>2. \A t \in Threads : ~AboutToDraw(t) /\ ~HasDrawn(t)
  BY <1>1 DEF AboutToDraw, HasDrawn, LockedPlaces
<1> QED
  BY <1>2 DEF IInv, OnItsWay, Pending

\* What the seeded Fortuna has reaches the DRBG: the flag that refresh sets, consumed
\* before the entropy is drawn, is never lost between the two mutexes of cckprng_generate
\* and cckprng_refresh.
THEOREM NoReseedForgotten == ASSUME Distinguished PROVE KprngSpec => []NoLostReseed
<1>1. IInv => NoLostReseed
  BY NoReseedLostIn
<1> QED
  BY Invariance, <1>1, PTL

-----------------------------------------------------------------------------
(* None comes late, either: where the trylock macro tells the truth about  *)
(* Fortuna's mutex, what a refresh announced before a call of generate is  *)
(* behind the output of the call.                                          *)

Exclusive == Distinguished /\ PthreadTryLock = FALSE

FortunaOwnerOf(t) == fortuna_pc[t] \notin {"idle", "generate_lock"} => fortuna_lock = t
FortunaOwned == \A t \in Threads : FortunaOwnerOf(t)

LEMMA FortunaOwnedStep ==
  ASSUME Exclusive, IInv, FortunaOwned, NEW t \in Threads, FortunaOwnerOf(t)', Others(t),
         fortuna_lock' = fortuna_lock \/ fortuna_lock \in {t, NoThread}
  PROVE  FortunaOwned'
<1> SUFFICES ASSUME NEW u \in Threads, u # t PROVE FortunaOwnerOf(u)'
  BY DEF FortunaOwned
<1>1. fortuna_pc'[u] = fortuna_pc[u] /\ FortunaOwnerOf(u)
  BY DEF FortunaOwned, Others
<1> QED
  BY <1>1 DEF FortunaOwnerOf, Exclusive, Distinguished

LEMMA FortunaOwnedNext ==
  ASSUME Exclusive, IInv, FortunaOwned, NEW t \in Threads, Call(t) \/ Advance(t)
  PROVE  FortunaOwned'
<1>1. FortunaOwnerOf(t) /\ PlacesOf(t) /\ Domains
  BY DEF FortunaOwned, IInv, Control
<1>2. CASE UNCHANGED <<fortuna_pc, fortuna_lock>>
  BY <1>2 DEF FortunaOwned, FortunaOwnerOf
<1>3. CASE CckprngGenerate(t)
  BY <1>2, <1>3, GenerateCallEffect DEF seen
<1>4. CASE CsprngLock(t)
  BY <1>2, <1>4, GenerateLockEffect DEF seen
<1>5. CASE NeedReseed(t)
  BY <1>2, <1>5, NeedReseedEffect DEF seen
<1>6. CASE GetEntropyCall(t)
  <2>1. /\ fortuna_pc' = [fortuna_pc EXCEPT ![t] = "generate_lock"]
        /\ kpc' = [kpc EXCEPT ![t] = "getentropy"]
        /\ UNCHANGED <<csprng_pc, fortuna_lock, fortuna_ret>>
    BY <1>6, GetEntropyCallEffect
  <2>2. Others(t) /\ FortunaOwnerOf(t)'
    BY <1>1, <2>1 DEF Others, FortunaOwnerOf, Domains
  <2> QED
    BY <2>1, <2>2, FortunaOwnedStep
<1>7. CASE GetEntropyReturn(t)
  BY <1>2, <1>7, GetEntropyReturnEffect DEF seen
<1>8. CASE GenerateReseed(t)
  BY <1>2, <1>8, GenerateReseedEffect DEF seen
<1>9. CASE CsprngOutput(t)
  BY <1>2, <1>9, GenerateOutputEffect DEF seen
<1>10. CASE GenerateReturn(t)
  BY <1>2, <1>10, GenerateReturnEffect DEF seen
<1>11. CASE RefreshCall(t)
  <2>1. /\ kpc' = [kpc EXCEPT ![t] = "refresh"] /\ UNCHANGED csprng_pc
        /\ fortuna_lock' = IF fortuna_lock = NoThread THEN t ELSE fortuna_lock
        /\ \/ /\ fortuna_pc' = [fortuna_pc EXCEPT ![t] = "getentropy"]
              /\ UNCHANGED fortuna_ret /\ fortuna_lock = NoThread
           \/ /\ fortuna_pc' = [fortuna_pc EXCEPT ![t] = "idle"]
              /\ fortuna_ret' = [fortuna_ret EXCEPT ![t] = "not_reseeded"]
    BY <1>11, RefreshCallEffect DEF Exclusive
  <2>2. Others(t) /\ FortunaOwnerOf(t)'
    BY <1>1, <2>1 DEF Others, FortunaOwnerOf, Domains
  <2> QED
    BY <2>1, <2>2, FortunaOwnedStep
<1>12. CASE RefreshReturn(t)
  BY <1>2, <1>12, RefreshReturnEffect DEF seen
<1>13. CASE ReseedCall(t)
  BY <1>2, <1>13, ReseedCallEffect DEF seen
<1>14. CASE Reseed(t)
  BY <1>2, <1>14, ReseedEffect DEF seen
<1>15. CASE FortunaOutput(t)
  <2>1. /\ fortuna_pc[t] = "generate_output" /\ fortuna_lock' = NoThread
        /\ fortuna_pc' = [fortuna_pc EXCEPT ![t] = "idle"]
        /\ fortuna_ret' = [fortuna_ret EXCEPT ![t] = "CCERR_OK"]
        /\ UNCHANGED <<kpc, csprng_pc>>
    BY <1>15, FortunaOutputEffect
  <2>2. Others(t) /\ FortunaOwnerOf(t)' /\ fortuna_lock = t
    BY <1>1, <2>1 DEF Others, FortunaOwnerOf, Domains
  <2> QED
    BY <2>2, FortunaOwnedStep
<1>16. CASE FortunaFailure(t)
  <2>1. /\ fortuna_pc[t] = "getentropy" /\ fortuna_lock' = NoThread
        /\ fortuna_pc' = [fortuna_pc EXCEPT ![t] = "idle"]
        /\ fortuna_ret' = [fortuna_ret EXCEPT ![t] = "not_reseeded"]
        /\ UNCHANGED <<kpc, csprng_pc>>
    BY <1>16, FortunaFailureEffect
  <2>2. Others(t) /\ FortunaOwnerOf(t)' /\ fortuna_lock = t
    BY <1>1, <2>1 DEF Others, FortunaOwnerOf, Domains
  <2> QED
    BY <2>2, FortunaOwnedStep
<1>17. CASE FortunaStep(t)
  <2>1. (FortunaMoves(t) \/ FortunaReseeds(t)) /\ UNCHANGED <<kpc, csprng_pc>>
    BY <1>17, FortunaStepEffect
  <2>2. CASE FortunaMoves(t)
    <3>1. Others(t) /\ FortunaOwnerOf(t)'
      BY <1>1, <2>1, <2>2
      DEF Others, FortunaOwnerOf, Domains, FortunaMoves, Stays, Ends, Moves
    <3>2. fortuna_lock' = fortuna_lock \/ fortuna_lock \in {t, NoThread}
      BY <1>1, <2>2 DEF FortunaOwnerOf, FortunaMoves, Stays, Ends, Moves
    <3> QED
      BY <3>1, <3>2, FortunaOwnedStep
  <2>3. CASE FortunaReseeds(t)
    <3>1. Others(t) /\ FortunaOwnerOf(t)' /\ fortuna_lock = t
      BY <1>1, <2>1, <2>3 DEF Others, FortunaOwnerOf, Domains, FortunaReseeds
    <3> QED
      BY <3>1, FortunaOwnedStep
  <2> QED
    BY <2>1, <2>2, <2>3
<1> QED
  BY <1>3, <1>4, <1>5, <1>6, <1>7, <1>8, <1>9, <1>10, <1>11, <1>12, <1>13, <1>14, <1>15,
     <1>16, <1>17 DEF Call, Advance

\* Fortuna's key only grows, and keeps all that a refresh has announced.
Known ==
  /\ announced \subseteq fortuna_key
  /\ \A t \in Threads : fortuna_pc[t] = "schedreseed" => fortuna_key \subseteq fortuna_frame[t].sha
  /\ \A t \in Threads : due[t] \subseteq announced

LEMMA KnownNext ==
  ASSUME Exclusive, IInv, FortunaOwned, Known, NEW t \in Threads, Call(t) \/ Advance(t)
  PROVE  Known' /\ fortuna_key \subseteq fortuna_key' /\ announced \subseteq announced'
<1>1. Domains /\ PlacesOf(t)
  BY DEF IInv, Control
<1>2. ASSUME UNCHANGED <<fortuna_key, announced, fortuna_pc, fortuna_frame>>,
             UNCHANGED due \/ \E d \in {{}, announced} : due' = [due EXCEPT ![t] = d]
      PROVE  Known' /\ fortuna_key \subseteq fortuna_key' /\ announced \subseteq announced'
  BY <1>1, <1>2 DEF Known, Domains
<1>3. ASSUME UNCHANGED <<fortuna_key, announced, due>>, NEW label, NEW f,
             fortuna_pc' = [fortuna_pc EXCEPT ![t] = label],
             fortuna_frame' = [fortuna_frame EXCEPT ![t] = f],
             label = "schedreseed" => fortuna_key \subseteq f.sha
      PROVE  Known' /\ fortuna_key \subseteq fortuna_key' /\ announced \subseteq announced'
  BY <1>1, <1>3 DEF Known, Domains
<1>4. ASSUME UNCHANGED <<fortuna_key, announced, due, fortuna_frame>>, NEW label,
             fortuna_pc' = [fortuna_pc EXCEPT ![t] = label], label # "schedreseed"
      PROVE  Known' /\ fortuna_key \subseteq fortuna_key' /\ announced \subseteq announced'
  BY <1>1, <1>4 DEF Known, Domains
<1>5. CASE CckprngGenerate(t)
  BY <1>2, <1>5, GenerateCallEffect DEF seen
<1>6. CASE CsprngLock(t)
  BY <1>2, <1>6, GenerateLockEffect DEF seen, kprng_history
<1>7. CASE NeedReseed(t)
  BY <1>2, <1>7, NeedReseedEffect DEF seen, kprng_history
<1>8. CASE GetEntropyCall(t)
  BY <1>4, <1>8, GetEntropyCallEffect DEF kprng_history
<1>9. CASE GetEntropyReturn(t)
  BY <1>2, <1>9, GetEntropyReturnEffect DEF seen, kprng_history
<1>10. CASE GenerateReseed(t)
  BY <1>2, <1>10, GenerateReseedEffect DEF seen
<1>11. CASE CsprngOutput(t)
  BY <1>2, <1>11, GenerateOutputEffect DEF seen, kprng_history
<1>12. CASE GenerateReturn(t)
  BY <1>2, <1>12, GenerateReturnEffect DEF seen
<1>13. CASE RefreshCall(t)
  <2>1. UNCHANGED <<fortuna_key, announced, due>>
    BY <1>13, RefreshCallEffect DEF kprng_history
  <2>2. CASE fortuna_pc' = [fortuna_pc EXCEPT ![t] = "getentropy"] /\ UNCHANGED fortuna_frame
    BY <1>4, <2>1, <2>2
  <2>3. CASE /\ fortuna_pc' = [fortuna_pc EXCEPT ![t] = "idle"]
             /\ fortuna_frame' = [fortuna_frame EXCEPT ![t] = F!NoFrame]
    BY <1>3, <2>1, <2>3
  <2> QED
    BY <1>13, <2>2, <2>3, RefreshCallEffect
<1>14. CASE RefreshReturn(t)
  <2>1. /\ announced' = fortuna_key \/ announced' = announced
        /\ UNCHANGED <<fortuna_key, due, fortuna_pc, fortuna_frame>>
    BY <1>14, RefreshReturnEffect DEF seen
  <2> QED
    BY <2>1 DEF Known
<1>15. CASE ReseedCall(t)
  BY <1>2, <1>15, ReseedCallEffect DEF seen, kprng_history
<1>16. CASE Reseed(t)
  BY <1>2, <1>16, ReseedEffect DEF seen, kprng_history
<1>17. CASE FortunaOutput(t)
  BY <1>3, <1>17, FortunaOutputEffect
<1>18. CASE FortunaFailure(t)
  BY <1>3, <1>18, FortunaFailureEffect
<1>19. CASE FortunaStep(t)
  <2>1. (FortunaMoves(t) \/ FortunaReseeds(t)) /\ UNCHANGED <<announced, due>>
    BY <1>19, FortunaStepEffect DEF kprng_history
  <2>2. CASE FortunaMoves(t)
    <3>1. UNCHANGED fortuna_key
      BY <2>2 DEF FortunaMoves, Moves, Stays, Ends
    <3>2. CASE /\ fortuna_pc[t] = "schedreseed" /\ UNCHANGED fortuna_pc
               /\ \E f : /\ fortuna_frame' = [fortuna_frame EXCEPT ![t] = f]
                         /\ fortuna_frame[t].sha \subseteq f.sha
      BY <1>1, <2>1, <3>1, <3>2 DEF Known, Domains
    <3>3. CASE \E f : /\ fortuna_frame' = [fortuna_frame EXCEPT ![t] = f]
                      /\ f.sha = fortuna_key
                      /\ fortuna_pc' = [fortuna_pc EXCEPT ![t] = "schedreseed"]
      BY <1>3, <2>1, <3>1, <3>3
    <3>4. CASE \E f : /\ fortuna_frame' = [fortuna_frame EXCEPT ![t] = f]
                      /\ fortuna_pc' = [fortuna_pc EXCEPT ![t] = "addentropy"]
      BY <1>3, <2>1, <3>1, <3>4
    <3>5. CASE /\ fortuna_frame' = [fortuna_frame EXCEPT ![t] = F!NoFrame]
               /\ fortuna_pc' = [fortuna_pc EXCEPT ![t] = "idle"]
      BY <1>3, <2>1, <3>1, <3>5
    <3>6. CASE /\ UNCHANGED fortuna_frame
               /\ \/ fortuna_pc' = [fortuna_pc EXCEPT ![t] = "generate_check"]
                  \/ fortuna_pc' = [fortuna_pc EXCEPT ![t] = "generate_output"]
      BY <1>4, <2>1, <3>1, <3>6
    <3> QED
      BY <2>2, <3>2, <3>3, <3>4, <3>5, <3>6 DEF FortunaMoves, Moves, Stays, Ends
  <2>3. CASE FortunaReseeds(t)
    <3>1. /\ fortuna_pc[t] = "schedreseed" /\ fortuna_pc' = [fortuna_pc EXCEPT ![t] = "idle"]
          /\ fortuna_key' = fortuna_frame[t].sha
          /\ fortuna_frame' = [fortuna_frame EXCEPT ![t] = F!NoFrame]
      BY <2>3 DEF FortunaReseeds
    <3>2. fortuna_key \subseteq fortuna_key'
      BY <3>1 DEF Known
    <3>3. \A u \in Threads \ {t} : fortuna_pc[u] # "schedreseed"
      BY <3>1 DEF FortunaOwned, FortunaOwnerOf
    <3>4. \A u \in Threads : fortuna_pc'[u] # "schedreseed"
      BY <1>1, <3>1, <3>3 DEF Domains
    <3> QED
      BY <2>1, <3>2, <3>4 DEF Known
  <2> QED
    BY <2>1, <2>2, <2>3
<1> QED
  BY <1>5, <1>6, <1>7, <1>8, <1>9, <1>10, <1>11, <1>12, <1>13, <1>14, <1>15, <1>16, <1>17,
     <1>18, <1>19 DEF Call, Advance

\* The flag is consumed, and the entropy not drawn, or not to be had.
Trying(t) == csprng_pc[t] = "getentropy" /\ ~HasDrawn(t)

\* What was announced is in the DRBG, or acted upon.
Acted ==
  \/ aborted \/ needreseed
  \/ \E t \in Threads : Trying(t)
  \/ \E t \in Threads : HasDrawn(t) /\ announced \subseteq mixedIn \cup drawn
  \/ announced \subseteq mixedIn

DueOf(t) ==
  /\ HasDrawn(t) => due[t] \subseteq mixedIn \cup drawn
  /\ csprng_pc[t] = "generate" => due[t] \subseteq mixedIn

Prompt == Acted /\ \A t \in Threads : DueOf(t)

\* A thread's step that leaves the flag and the DRBG alone.
LEMMA PromptStep ==
  ASSUME Prompt, ~aborted, NEW t \in Threads, Others(t),
         UNCHANGED <<needreseed, announced, mixedIn, drawn>>,
         \A u \in Threads \ {t} : due'[u] = due[u],
         Trying(t) => Trying(t)', HasDrawn(t) => HasDrawn(t)', DueOf(t)'
  PROVE  Prompt'
<1>1. \A u \in Threads \ {t} :
        /\ Trying(u) <=> Trying(u)'
        /\ HasDrawn(u) <=> HasDrawn(u)'
        /\ DueOf(u) => DueOf(u)'
  BY DEF Others, Trying, HasDrawn, DueOf
<1>2. \A u \in Threads : (Trying(u) => Trying(u)') /\ (HasDrawn(u) => HasDrawn(u)')
  BY <1>1, Zenon
<1>3. Acted'
  BY <1>2 DEF Acted, Prompt
<1>4. \A u \in Threads : DueOf(u)'
  BY <1>1 DEF Prompt
<1> QED
  BY <1>3, <1>4 DEF Prompt

LEMMA OthersOf ==
  ASSUME IInv, NEW t \in Threads, NEW a, NEW b, NEW c, NEW d,
         kpc' = kpc \/ kpc' = [kpc EXCEPT ![t] = a],
         csprng_pc' = csprng_pc \/ csprng_pc' = [csprng_pc EXCEPT ![t] = b],
         fortuna_pc' = fortuna_pc \/ fortuna_pc' = [fortuna_pc EXCEPT ![t] = c],
         fortuna_ret' = fortuna_ret \/ fortuna_ret' = [fortuna_ret EXCEPT ![t] = d]
  PROVE  Others(t)
BY DEF IInv, Control, Domains, Others

LEMMA GeneratePrompt ==
  ASSUME Exclusive, IInv, Known, Prompt, ~aborted, NEW t \in Threads,
         \/ CckprngGenerate(t) \/ CsprngLock(t) \/ NeedReseed(t) \/ GenerateReseed(t)
         \/ CsprngOutput(t) \/ GenerateReturn(t)
  PROVE  Prompt'
<1>1. PlacesOf(t) /\ OwnerOf(t) /\ DueOf(t) /\ Domains
  BY DEF IInv, Control, Prompt
<1>2. CASE CckprngGenerate(t)
  <2>1. /\ kpc' = [kpc EXCEPT ![t] = "generate"] /\ csprng_pc[t] = "idle"
        /\ csprng_pc' = [csprng_pc EXCEPT ![t] = "loop"]
        /\ due' = [due EXCEPT ![t] = announced]
        /\ UNCHANGED <<fortuna_pc, fortuna_ret, needreseed, announced, mixedIn, drawn>>
    BY <1>2, GenerateCallEffect DEF seen
  <2>2. Others(t)
    BY <2>1, OthersOf
  <2>3. /\ \A u \in Threads \ {t} : due'[u] = due[u]
        /\ ~Trying(t) /\ ~HasDrawn(t) /\ DueOf(t)'
    BY <1>1, <2>1 DEF Domains, Trying, HasDrawn, DueOf
  <2> QED
    BY <2>1, <2>2, <2>3, PromptStep
<1>3. CASE CsprngLock(t)
  <2>1. /\ csprng_pc[t] = "loop" /\ csprng_pc' = [csprng_pc EXCEPT ![t] = "needreseed"]
        /\ UNCHANGED <<kpc, fortuna_pc, fortuna_ret, needreseed, announced, mixedIn, drawn, due>>
    BY <1>3, GenerateLockEffect DEF seen, kprng_history
  <2>2. Others(t)
    BY <2>1, OthersOf
  <2>3. ~Trying(t) /\ ~HasDrawn(t) /\ DueOf(t)'
    BY <1>1, <2>1 DEF Domains, Trying, HasDrawn, DueOf
  <2> QED
    BY <2>1, <2>2, <2>3, PromptStep
<1>4. CASE NeedReseed(t)
  <2>1. /\ csprng_pc[t] = "needreseed"
        /\ \/ csprng_pc' = [csprng_pc EXCEPT ![t] = "getentropy"]
           \/ ~needreseed /\ csprng_pc' = [csprng_pc EXCEPT ![t] = "generate"]
        /\ UNCHANGED <<kpc, fortuna_pc, fortuna_ret, announced, mixedIn, drawn, due>>
    BY <1>4, NeedReseedEffect DEF seen, kprng_history
  <2>2. Others(t)
    BY <2>1 DEF IInv, Control, Domains, Others
  <2>3. \A u \in Threads \ {t} : DueOf(u)'
    BY <2>1, <2>2 DEF Others, Prompt, DueOf, HasDrawn
  <2>4. kpc[t] = "generate"
    BY <1>1, <2>1 DEF PlacesOf, LockedPlaces
  <2>5. CASE csprng_pc' = [csprng_pc EXCEPT ![t] = "getentropy"]
    <3>1. Trying(t)' /\ ~HasDrawn(t)' /\ csprng_pc'[t] # "generate"
      BY <1>1, <2>1, <2>4, <2>5 DEF Domains, Trying, HasDrawn
    <3> QED
      BY <2>3, <3>1 DEF Prompt, Acted, DueOf
  <2>6. CASE ~needreseed /\ csprng_pc' = [csprng_pc EXCEPT ![t] = "generate"]
    <3>1. csprng_lock = t
      BY <1>1, <2>1 DEF OwnerOf, LockedPlaces
    <3>2. \A u \in Threads : ~Trying(u) /\ ~HasDrawn(u)
      BY <2>1, <3>1 DEF IInv, Control, OwnerOf, LockedPlaces, Trying, HasDrawn
    <3>3. announced \subseteq mixedIn
      BY <2>6, <3>2 DEF Prompt, Acted
    <3>4. DueOf(t)'
      BY <1>1, <2>1, <2>6, <3>3 DEF Known, DueOf, HasDrawn, Domains
    <3>5. Acted'
      BY <2>1, <3>3 DEF Acted
    <3> QED
      BY <2>3, <3>4, <3>5 DEF Prompt
  <2> QED
    BY <2>1, <2>5, <2>6
<1>5. CASE GenerateReseed(t)
  <2>1. /\ csprng_pc[t] = "reseed" /\ csprng_pc' = [csprng_pc EXCEPT ![t] = "generate"]
        /\ mixedIn' = mixedIn \cup drawn
        /\ UNCHANGED <<kpc, aborted, fortuna_pc, fortuna_ret, needreseed, announced, drawn, due>>
    BY <1>5, GenerateReseedEffect DEF seen
  <2>2. Others(t)
    BY <2>1 DEF IInv, Control, Domains, Others
  <2>3. \A u \in Threads \ {t} :
          (Trying(u) => Trying(u)') /\ (HasDrawn(u) <=> HasDrawn(u)')
    BY <2>2 DEF Others, Trying, HasDrawn
  <2>4. HasDrawn(t) /\ ~Trying(t) /\ ~HasDrawn(t)'
    BY <1>1, <2>1 DEF HasDrawn, Trying, Domains
  <2>5. Acted'
    BY <2>1, <2>3, <2>4 DEF Prompt, Acted
  <2>6. DueOf(t)'
    BY <1>1, <2>1, <2>4 DEF DueOf
  <2>7. \A u \in Threads \ {t} : DueOf(u)'
    BY <2>1, <2>2, <2>3 DEF Others, Prompt, DueOf
  <2> QED
    BY <2>5, <2>6, <2>7 DEF Prompt
<1>6. CASE CsprngOutput(t)
  <2>1. /\ csprng_pc[t] = "generate" /\ csprng_pc' = [csprng_pc EXCEPT ![t] = "loop"]
        /\ UNCHANGED <<kpc, fortuna_pc, fortuna_ret, needreseed, announced, mixedIn, drawn, due>>
    BY <1>6, GenerateOutputEffect DEF seen, kprng_history
  <2>2. Others(t)
    BY <2>1, OthersOf
  <2>3. ~Trying(t) /\ ~HasDrawn(t) /\ DueOf(t)'
    BY <1>1, <2>1 DEF Domains, Trying, HasDrawn, DueOf
  <2> QED
    BY <2>1, <2>2, <2>3, PromptStep
<1>7. CASE GenerateReturn(t)
  <2>1. /\ kpc' = [kpc EXCEPT ![t] = "idle"] /\ csprng_pc[t] = "loop"
        /\ csprng_pc' = [csprng_pc EXCEPT ![t] = "idle"]
        /\ due' = [due EXCEPT ![t] = {}]
        /\ UNCHANGED <<fortuna_pc, fortuna_ret, needreseed, announced, mixedIn, drawn>>
    BY <1>7, GenerateReturnEffect DEF seen
  <2>2. Others(t)
    BY <2>1, OthersOf
  <2>3. /\ \A u \in Threads \ {t} : due'[u] = due[u]
        /\ ~Trying(t) /\ ~HasDrawn(t) /\ DueOf(t)'
    BY <1>1, <2>1 DEF Domains, Trying, HasDrawn, DueOf
  <2> QED
    BY <2>1, <2>2, <2>3, PromptStep
<1> QED
  BY <1>2, <1>3, <1>4, <1>5, <1>6, <1>7

LEMMA GetEntropyPrompt ==
  ASSUME Exclusive, ProvidesAbort, IInv, Known, Prompt, ~aborted, NEW t \in Threads,
         GetEntropyCall(t) \/ GetEntropyReturn(t)
  PROVE  Prompt'
<1>1. PlacesOf(t) /\ OwnerOf(t) /\ DueOf(t) /\ Domains
  BY DEF IInv, Control, Prompt
<1>2. CASE GetEntropyCall(t)
  <2>1. /\ kpc[t] = "generate" /\ kpc' = [kpc EXCEPT ![t] = "getentropy"]
        /\ csprng_pc[t] = "getentropy"
        /\ fortuna_pc' = [fortuna_pc EXCEPT ![t] = "generate_lock"]
        /\ UNCHANGED <<csprng_pc, fortuna_ret, needreseed, announced, mixedIn, drawn, due>>
    BY <1>2, GetEntropyCallEffect DEF kprng_history
  <2>2. Others(t)
    BY <2>1, OthersOf
  <2>3. Trying(t)' /\ ~HasDrawn(t) /\ DueOf(t)'
    BY <1>1, <2>1 DEF Domains, Trying, HasDrawn, DueOf
  <2> QED
    BY <2>1, <2>2, <2>3, PromptStep
<1>3. CASE GetEntropyReturn(t)
  <2>1. /\ kpc[t] = "getentropy" /\ kpc' = [kpc EXCEPT ![t] = "generate"]
        /\ fortuna_pc[t] = "idle" /\ csprng_pc[t] = "getentropy"
        /\ UNCHANGED <<fortuna_pc, fortuna_ret, needreseed, announced, mixedIn, drawn, due>>
    BY <1>3, GetEntropyReturnEffect DEF seen, kprng_history
  <2>2. CASE /\ fortuna_ret[t] = "CCERR_OK"
             /\ csprng_pc' = [csprng_pc EXCEPT ![t] = "reseed"]
    <3>1. HasDrawn(t) /\ HasDrawn(t)' /\ ~Trying(t) /\ DueOf(t)'
      BY <1>1, <2>1, <2>2 DEF Domains, Trying, HasDrawn, DueOf
    <3>2. Others(t)
      BY <2>1, <2>2, OthersOf
    <3> QED
      BY <2>1, <3>1, <3>2, PromptStep
  <2>3. CASE /\ fortuna_ret[t] # "CCERR_OK"
             /\ csprng_pc' = [csprng_pc EXCEPT ![t] = "getentropy"]
    <3>1. ~HasDrawn(t) /\ Trying(t)' /\ DueOf(t)'
      BY <1>1, <2>1, <2>3 DEF Domains, Trying, HasDrawn, DueOf
    <3>2. Others(t)
      BY <2>1, <2>3, OthersOf
    <3> QED
      BY <2>1, <3>1, <3>2, PromptStep
  <2>4. CASE aborted' /\ csprng_pc' = [csprng_pc EXCEPT ![t] = "idle"]
    <3>1. DueOf(t)'
      BY <1>1, <2>1, <2>4 DEF Domains, HasDrawn, DueOf
    <3>2. Others(t)
      BY <2>1, <2>4, OthersOf
    <3>3. \A u \in Threads \ {t} : DueOf(u)'
      BY <2>1, <3>2 DEF Others, Prompt, DueOf, HasDrawn
    <3> QED
      BY <2>4, <3>1, <3>3 DEF Prompt, Acted
  <2> QED
    BY <1>3, <2>2, <2>3, <2>4, GetEntropyReturnEffect
<1> QED
  BY <1>2, <1>3

LEMMA RefreshPrompt ==
  ASSUME Exclusive, IInv, Known, Prompt, ~aborted, NEW t \in Threads,
         RefreshCall(t) \/ RefreshReturn(t) \/ ReseedCall(t) \/ Reseed(t)
  PROVE  Prompt'
<1>1. PlacesOf(t) /\ DueOf(t) /\ Domains
  BY DEF IInv, Control, Prompt
<1>2. CASE RefreshCall(t)
  <2>1. /\ kpc[t] = "idle" /\ kpc' = [kpc EXCEPT ![t] = "refresh"]
        /\ \/ fortuna_pc' = [fortuna_pc EXCEPT ![t] = "getentropy"]
           \/ fortuna_pc' = [fortuna_pc EXCEPT ![t] = "idle"]
        /\ \/ UNCHANGED fortuna_ret
           \/ fortuna_ret' = [fortuna_ret EXCEPT ![t] = "not_reseeded"]
        /\ UNCHANGED <<csprng_pc, needreseed, announced, mixedIn, drawn, due>>
    BY <1>2, RefreshCallEffect DEF kprng_history
  <2>2. Others(t)
    BY <2>1 DEF IInv, Control, Domains, Others
  <2>3. ~Trying(t) /\ ~HasDrawn(t) /\ DueOf(t)'
    BY <1>1, <2>1 DEF PlacesOf, Trying, HasDrawn, DueOf
  <2> QED
    BY <2>1, <2>2, <2>3, PromptStep
<1>3. CASE RefreshReturn(t)
  <2>1. /\ kpc[t] = "refresh" /\ kpc' = [kpc EXCEPT ![t] = "idle"]
        /\ \/ fortuna_ret[t] = "reseeded" /\ needreseed' = TRUE /\ announced' = fortuna_key
           \/ fortuna_ret[t] # "reseeded" /\ UNCHANGED <<needreseed, announced>>
        /\ UNCHANGED <<csprng_pc, fortuna_pc, fortuna_ret, mixedIn, drawn, due>>
    BY <1>3, RefreshReturnEffect DEF seen
  <2>2. Others(t)
    BY <2>1, OthersOf
  <2>3. ~Trying(t) /\ ~HasDrawn(t) /\ DueOf(t)'
    BY <1>1, <2>1 DEF PlacesOf, Trying, HasDrawn, DueOf
  <2>4. CASE UNCHANGED <<needreseed, announced>>
    BY <2>1, <2>2, <2>3, <2>4, PromptStep
  <2>5. CASE needreseed'
    <3>1. \A u \in Threads \ {t} : DueOf(u)'
      BY <2>1, <2>2 DEF Others, Prompt, DueOf, HasDrawn
    <3> QED
      BY <2>3, <2>5, <3>1 DEF Prompt, Acted
  <2> QED
    BY <2>1, <2>4, <2>5
<1>4. CASE ReseedCall(t)
  <2>1. /\ kpc[t] = "idle" /\ kpc' = [kpc EXCEPT ![t] = "reseed"]
        /\ csprng_pc' = [csprng_pc EXCEPT ![t] = "reseed_user"]
        /\ UNCHANGED <<fortuna_pc, fortuna_ret, needreseed, announced, mixedIn, drawn, due>>
    BY <1>4, ReseedCallEffect DEF seen, kprng_history
  <2>2. Others(t)
    BY <2>1, OthersOf
  <2>3. ~Trying(t) /\ ~HasDrawn(t) /\ DueOf(t)'
    BY <1>1, <2>1 DEF PlacesOf, Domains, Trying, HasDrawn, DueOf
  <2> QED
    BY <2>1, <2>2, <2>3, PromptStep
<1>5. CASE Reseed(t)
  <2>1. /\ csprng_pc[t] = "reseed_user" /\ kpc' = [kpc EXCEPT ![t] = "idle"]
        /\ csprng_pc' = [csprng_pc EXCEPT ![t] = "idle"]
        /\ UNCHANGED <<fortuna_pc, fortuna_ret, needreseed, announced, mixedIn, drawn, due>>
    BY <1>5, ReseedEffect DEF seen, kprng_history
  <2>2. Others(t)
    BY <2>1, OthersOf
  <2>3. ~Trying(t) /\ ~HasDrawn(t) /\ DueOf(t)'
    BY <1>1, <2>1 DEF Domains, Trying, HasDrawn, DueOf
  <2> QED
    BY <2>1, <2>2, <2>3, PromptStep
<1> QED
  BY <1>2, <1>3, <1>4, <1>5

LEMMA FortunaPrompt ==
  ASSUME Exclusive, IInv, Known, Prompt, ~aborted, NEW t \in Threads,
         FortunaOutput(t) \/ FortunaFailure(t) \/ FortunaStep(t)
  PROVE  Prompt'
<1>1. PlacesOf(t) /\ DueOf(t) /\ Domains
  BY DEF IInv, Control, Prompt
<1>2. CASE FortunaOutput(t)
  <2>1. /\ fortuna_pc[t] = "generate_output"
        /\ fortuna_pc' = [fortuna_pc EXCEPT ![t] = "idle"]
        /\ fortuna_ret' = [fortuna_ret EXCEPT ![t] = "CCERR_OK"]
        /\ drawn' = fortuna_key
        /\ UNCHANGED <<kpc, csprng_pc, announced, mixedIn, due>>
    BY <1>2, FortunaOutputEffect
  <2>2. HasDrawn(t)'
    BY <1>1, <2>1 DEF PlacesOf, Refreshing, Domains, HasDrawn
  <2>3. announced' \subseteq mixedIn' \cup drawn'
    BY <2>1 DEF Known
  <2>4. \A u \in Threads : due'[u] \subseteq mixedIn' \cup drawn'
    BY <2>1 DEF Known
  <2>5. \A u \in Threads : csprng_pc'[u] = "generate" => due'[u] \subseteq mixedIn'
    BY <2>1 DEF Prompt, DueOf
  <2> QED
    BY <2>2, <2>3, <2>4, <2>5 DEF Prompt, Acted, DueOf
<1>3. CASE FortunaFailure(t)
  <2>1. /\ fortuna_pc[t] = "getentropy"
        /\ fortuna_pc' = [fortuna_pc EXCEPT ![t] = "idle"]
        /\ fortuna_ret' = [fortuna_ret EXCEPT ![t] = "not_reseeded"]
        /\ UNCHANGED <<kpc, csprng_pc, needreseed, announced, mixedIn, drawn, due>>
    BY <1>3, FortunaFailureEffect
  <2>2. Others(t)
    BY <2>1, OthersOf
  <2>3. (Trying(t) => Trying(t)') /\ ~HasDrawn(t) /\ DueOf(t)'
    BY <1>1, <2>1 DEF PlacesOf, Generating, Domains, Trying, HasDrawn, DueOf
  <2> QED
    BY <2>1, <2>2, <2>3, PromptStep
<1>4. CASE FortunaStep(t)
  <2>1. /\ FortunaMoves(t) \/ FortunaReseeds(t)
        /\ UNCHANGED <<kpc, csprng_pc, needreseed, announced, mixedIn, drawn, due>>
    BY <1>4, FortunaStepEffect DEF kprng_history
  <2>2. CASE FortunaMoves(t)
    <3>1. Others(t)
      BY <1>1, <2>1, <2>2 DEF Domains, Others, FortunaMoves, Stays, Ends, Moves
    <3>2. (Trying(t) => Trying(t)') /\ (HasDrawn(t) <=> HasDrawn(t)')
      BY <1>1, <2>1, <2>2
      DEF PlacesOf, Domains, Trying, HasDrawn, FortunaMoves, Stays, Ends, Moves
    <3>3. DueOf(t)'
      BY <1>1, <2>1, <3>2 DEF DueOf
    <3> QED
      BY <2>1, <3>1, <3>2, <3>3, PromptStep
  <2>3. CASE FortunaReseeds(t)
    <3>1. Others(t)
      BY <1>1, <2>1, <2>3 DEF Domains, Others, FortunaReseeds
    <3>2. ~Trying(t) /\ ~HasDrawn(t) /\ DueOf(t)'
      BY <1>1, <2>1, <2>3
      DEF PlacesOf, Generating, Domains, Trying, HasDrawn, DueOf, FortunaReseeds
    <3> QED
      BY <2>1, <3>1, <3>2, PromptStep
  <2> QED
    BY <2>1, <2>2, <2>3
<1> QED
  BY <1>2, <1>3, <1>4

PInv == IInv /\ FortunaOwned /\ Known /\ Prompt

\* Output depends on all that was announced before the call: refresh sets the flag
\* before it returns, and generate acts on it before it looks at the cache.
THEOREM ReseedIsPrompt ==
  ASSUME Exclusive, ProvidesAbort PROVE KprngSpec => []PromptReseed
<1>1. KprngInit => PInv
  <2> SUFFICES ASSUME KprngInit PROVE PInv
    OBVIOUS
  <2>1. FortunaOwned /\ Known
    BY DEF KprngInit, F!Init, FortunaOwned, FortunaOwnerOf, Known
  <2>2. Prompt
    BY DEF KprngInit, C!Init, F!Init, Prompt, Acted, DueOf, HasDrawn
  <2> QED
    BY <2>1, <2>2, InitIInv DEF PInv
<1>2. PInv /\ [KprngNext]_kprng_vars => PInv'
  <2> SUFFICES ASSUME PInv, [KprngNext]_kprng_vars PROVE PInv'
    OBVIOUS
  <2>1. CASE UNCHANGED kprng_vars
    <3>1. IInv'
      BY <2>1, NextIInv DEF PInv, Exclusive
    <3>2. FortunaOwned' /\ Known'
      BY <2>1 DEF PInv, kprng_vars, fortuna, kprng_history, FortunaOwned, FortunaOwnerOf, Known
    <3>3. Prompt'
      BY <2>1 DEF PInv, kprng_vars, csprng, fortuna, glue, kprng_history, Prompt, Acted, Trying, DueOf,
         HasDrawn
    <3> QED
      BY <3>1, <3>2, <3>3 DEF PInv
  <2>2. ASSUME NEW t \in Threads, Call(t) \/ Advance(t), ~Halted PROVE PInv'
    <3>1. IInv'
      BY NextIInv DEF PInv, Exclusive
    <3>2. FortunaOwned' /\ Known'
      BY <2>2, FortunaOwnedNext, KnownNext DEF PInv
    <3>3. ~aborted
      BY <2>2 DEF Halted
    <3>4. Prompt'
      BY <2>2, <3>3, GeneratePrompt, GetEntropyPrompt, RefreshPrompt, FortunaPrompt
      DEF PInv, Call, Advance
    <3> QED
      BY <3>1, <3>2, <3>4 DEF PInv
  <2> QED
    BY <2>1, <2>2 DEF KprngNext, Stop
<1>3. PInv => PromptReseed
  BY DEF PInv, Prompt, DueOf, PromptReseed
<1> QED
  BY <1>1, <1>2, <1>3, PTL DEF KprngSpec

-----------------------------------------------------------------------------
(* No panic without a failure of the entropy source: the flag is up, and   *)
(* the Csprng asks for entropy, only when Fortuna is seeded.  The other    *)
(* ways to an abort are closed by two hypotheses the code lives by: the    *)
(* DRBG's cipher works (DrbgFails), and no seed is used 2^48 times.        *)

\* The condition on which ccdrbg_generate asks for a seed.
SeedUsedUp == counter > ReseedInterval

Working == {"loop", "needreseed", "getentropy", "reseed", "generate"}

FineOf(t) ==
  /\ csprng_pc[t] \in Working => csprng_frame[t].drbg_status = "CCERR_OK"
  /\ csprng_pc[t] = "getentropy" => fortuna_seeded
  /\ kpc[t] = "getentropy" /\ fortuna_pc[t] = "idle" => fortuna_ret[t] = "CCERR_OK"
  /\ Announcing(t) => fortuna_seeded

Fine ==
  /\ ~aborted /\ DOMAIN csprng_frame = Threads
  /\ needreseed => fortuna_seeded
  /\ \A t \in Threads : FineOf(t)

Warranted == sourceFailed \/ Fine

\* A thread's step, by which Fortuna does not lose its seed.
LEMMA FineStep ==
  ASSUME Fine, NEW t \in Threads, Others(t), ~aborted', DOMAIN csprng_frame' = Threads,
         \A u \in Threads \ {t} : csprng_frame'[u] = csprng_frame[u],
         fortuna_seeded => fortuna_seeded', needreseed' => fortuna_seeded', FineOf(t)'
  PROVE  Fine'
<1> SUFFICES ASSUME NEW u \in Threads, u # t PROVE FineOf(u)'
  BY DEF Fine
<1>1. FineOf(u) /\ csprng_frame'[u] = csprng_frame[u]
  BY DEF Fine
<1>2. /\ kpc'[u] = kpc[u] /\ csprng_pc'[u] = csprng_pc[u]
      /\ fortuna_pc'[u] = fortuna_pc[u] /\ fortuna_ret'[u] = fortuna_ret[u]
  BY DEF Others
<1> QED
  BY <1>1, <1>2 DEF FineOf, Announcing

\* The Csprng's locals, where they stay and where a call gets its status.
LEMMA FrameKept ==
  ASSUME NEW t \in Threads,
         \/ CsprngLock(t) \/ NeedReseed(t) \/ GetEntropyCall(t) \/ RefreshCall(t)
         \/ RefreshReturn(t) \/ ReseedCall(t) \/ Reseed(t) \/ FortunaOutput(t)
         \/ FortunaStep(t)
  PROVE  csprng_frame' = csprng_frame
BY DEF CsprngLock, NeedReseed, GetEntropyCall, RefreshCall, RefreshReturn, ReseedCall,
       Reseed, FortunaOutput, FortunaStep, C!GenerateLock, C!GenerateNeedReseed,
       C!ReseedCall, C!ReseedUser, csprng

LEMMA FrameReset ==
  ASSUME NEW t \in Threads, CckprngGenerate(t) \/ GenerateReseed(t)
  PROVE  \E f : /\ csprng_frame' = [csprng_frame EXCEPT ![t] = f]
                /\ f.drbg_status = "CCERR_OK"
<1>1. CASE CckprngGenerate(t)
  <2>1. PICK n \in Requests : csprng_frame' = [csprng_frame EXCEPT ![t] =
          [asked |-> n, nbytes |-> n, got |-> 0, drbg_status |-> C!OK, tries |-> 0]]
    BY <1>1 DEF CckprngGenerate, C!GenerateCall
  <2> DEFINE f == [asked |-> n, nbytes |-> n, got |-> 0, drbg_status |-> C!OK, tries |-> 0]
  <2>2. f.drbg_status = "CCERR_OK"
    BY DEF C!OK
  <2> HIDE DEF f
  <2> QED
    BY <2>1, <2>2 DEF f
<1>2. CASE GenerateReseed(t)
  <2> DEFINE f == C!WithStatus(csprng_frame[t], C!OK, 0)
  <2>1. csprng_frame' = [csprng_frame EXCEPT ![t] = f]
    BY <1>2 DEF GenerateReseed, C!GenerateReseed, C!OK
  <2>2. f.drbg_status = "CCERR_OK"
    BY DEF C!WithStatus, C!OK
  <2> HIDE DEF f
  <2> QED
    BY <2>1, <2>2
<1> QED
  BY <1>1, <1>2

\* With a working cipher and a seed not used up, output comes with success.
LEMMA FrameOutput ==
  ASSUME NEW t \in Threads, CsprngOutput(t), DrbgFails = FALSE, ~SeedUsedUp
  PROVE  \E f : /\ csprng_frame' = [csprng_frame EXCEPT ![t] = f]
                /\ f.drbg_status = "CCERR_OK"
<1>1. ASSUME NEW units, NEW rest, C!Write(t, units, rest, C!OK)
      PROVE  \E f : /\ csprng_frame' = [csprng_frame EXCEPT ![t] = f]
                    /\ f.drbg_status = "CCERR_OK"
  <2> DEFINE f == C!WithOutput(csprng_frame[t], Len(units), rest, C!OK)
  <2>1. csprng_frame' = [csprng_frame EXCEPT ![t] = f]
    BY <1>1 DEF C!Write
  <2>2. f.drbg_status = "CCERR_OK"
    BY DEF C!WithOutput, C!OK
  <2> HIDE DEF f
  <2> QED
    BY <2>1, <2>2
<1>2. \A n, s : C!DrbgGenerate(n, s) => s = C!OK
  BY DEF C!DrbgGenerate, SeedUsedUp
<1>3. C!OK # C!NEED_RESEED /\ C!OK # "CCDRBG_STATUS_ERROR"
  BY DEF C!OK, C!NEED_RESEED
<1>4. CASE C!GenerateCached(t)
  BY <1>1, <1>2, <1>3, <1>4, Zenon DEF C!GenerateCached
<1>5. CASE C!GenerateDirect(t)
  <2> DEFINE n == csprng_frame[t].nbytes
             req_size == C!Smaller(n, MaxRequest)
  <2>1. PICK s \in {C!OK, C!NEED_RESEED, "CCDRBG_STATUS_ERROR"} :
          /\ C!DrbgGenerate(req_size, s)
          /\ IF s = C!OK THEN C!Write(t, C!Fresh(req_size), n - req_size, C!OK)
                         ELSE C!Write(t, <<>>, n, s)
    BY <1>5, Zenon DEF C!GenerateDirect
  <2>2. s = C!OK
    BY <1>2, <2>1, Zenon
  <2> QED
    BY <1>1, <2>1, <2>2, Zenon
<1> QED
  BY <1>4, <1>5 DEF CsprngOutput

LEMMA FineCsprng ==
  ASSUME IInv, Fine, DrbgFails = FALSE, ~SeedUsedUp, NEW t \in Threads,
         \/ CckprngGenerate(t) \/ CsprngLock(t) \/ NeedReseed(t) \/ GenerateReseed(t)
         \/ CsprngOutput(t) \/ GenerateReturn(t)
  PROVE  Fine'
<1>1. PlacesOf(t) /\ FineOf(t) /\ Domains /\ DOMAIN csprng_frame = Threads
  BY DEF IInv, Control, Fine
<1>2. CASE CckprngGenerate(t)
  <2>1. /\ kpc' = [kpc EXCEPT ![t] = "generate"]
        /\ csprng_pc' = [csprng_pc EXCEPT ![t] = "loop"]
        /\ UNCHANGED <<aborted, needreseed, fortuna_seeded, fortuna_pc, fortuna_ret>>
    BY <1>2, GenerateCallEffect DEF seen
  <2>2. PICK f : /\ csprng_frame' = [csprng_frame EXCEPT ![t] = f]
                 /\ f.drbg_status = "CCERR_OK"
    BY <1>2, FrameReset
  <2>3. Others(t) /\ FineOf(t)'
    BY <1>1, <2>1, <2>2 DEF Domains, Others, FineOf, Announcing
  <2> QED
    BY <1>1, <2>1, <2>2, <2>3, FineStep DEF Fine
<1>3. CASE CsprngLock(t)
  <2>1. /\ csprng_pc' = [csprng_pc EXCEPT ![t] = "needreseed"] /\ csprng_pc[t] = "loop"
        /\ UNCHANGED <<kpc, aborted, needreseed, fortuna_seeded, fortuna_pc, fortuna_ret>>
    BY <1>3, GenerateLockEffect DEF seen
  <2>2. csprng_frame' = csprng_frame
    BY <1>3, FrameKept
  <2>3. Others(t) /\ FineOf(t)'
    BY <1>1, <2>1, <2>2 DEF Domains, Others, FineOf, Announcing, Working
  <2> QED
    BY <1>1, <2>1, <2>2, <2>3, FineStep DEF Fine
<1>4. CASE NeedReseed(t)
  <2>1. /\ csprng_pc[t] = "needreseed" /\ needreseed' = FALSE
        /\ \/ needreseed /\ csprng_pc' = [csprng_pc EXCEPT ![t] = "getentropy"]
           \/ ~needreseed /\ csprng_pc' = [csprng_pc EXCEPT ![t] = "generate"]
        /\ UNCHANGED <<kpc, aborted, fortuna_seeded, fortuna_pc, fortuna_ret>>
    <3>1. csprng_frame[t].drbg_status # C!NEED_RESEED
      BY <1>1, <1>4, NeedReseedEffect DEF FineOf, Working, C!NEED_RESEED
    <3>2. csprng_pc' = [csprng_pc EXCEPT ![t] =
             IF needreseed THEN "getentropy" ELSE "generate"]
      BY <1>4, <3>1 DEF NeedReseed, C!GenerateNeedReseed, C!Goto
    <3>3. \/ needreseed /\ csprng_pc' = [csprng_pc EXCEPT ![t] = "getentropy"]
          \/ ~needreseed /\ csprng_pc' = [csprng_pc EXCEPT ![t] = "generate"]
      BY <3>2
    <3> QED
      BY <1>4, <3>3, NeedReseedEffect DEF seen
  <2>2. csprng_frame' = csprng_frame
    BY <1>4, FrameKept
  <2>3. needreseed => fortuna_seeded
    BY DEF Fine
  <2>4. Others(t) /\ FineOf(t)'
    BY <1>1, <2>1, <2>2, <2>3 DEF Domains, PlacesOf, Others, FineOf, Announcing, Working
  <2> QED
    BY <1>1, <2>1, <2>2, <2>4, FineStep DEF Fine
<1>5. CASE GenerateReseed(t)
  <2>1. /\ csprng_pc[t] = "reseed" /\ csprng_pc' = [csprng_pc EXCEPT ![t] = "generate"]
        /\ UNCHANGED <<kpc, aborted, needreseed, fortuna_seeded, fortuna_pc, fortuna_ret>>
    BY <1>5, GenerateReseedEffect DEF seen
  <2>2. PICK f : /\ csprng_frame' = [csprng_frame EXCEPT ![t] = f]
                 /\ f.drbg_status = "CCERR_OK"
    BY <1>5, FrameReset
  <2>3. Others(t) /\ FineOf(t)'
    BY <1>1, <2>1, <2>2 DEF Domains, PlacesOf, Others, FineOf, Announcing
  <2> QED
    BY <1>1, <2>1, <2>2, <2>3, FineStep DEF Fine
<1>6. CASE CsprngOutput(t)
  <2>1. /\ csprng_pc[t] = "generate" /\ csprng_pc' = [csprng_pc EXCEPT ![t] = "loop"]
        /\ UNCHANGED <<kpc, aborted, needreseed, fortuna_seeded, fortuna_pc, fortuna_ret>>
    BY <1>6, GenerateOutputEffect DEF seen
  <2>2. PICK f : /\ csprng_frame' = [csprng_frame EXCEPT ![t] = f]
                 /\ f.drbg_status = "CCERR_OK"
    BY <1>6, FrameOutput
  <2>3. Others(t) /\ FineOf(t)'
    BY <1>1, <2>1, <2>2 DEF Domains, PlacesOf, Others, FineOf, Announcing
  <2> QED
    BY <1>1, <2>1, <2>2, <2>3, FineStep DEF Fine
<1>7. CASE GenerateReturn(t)
  <2>1. /\ kpc' = [kpc EXCEPT ![t] = "idle"]
        /\ csprng_pc[t] = "loop" /\ csprng_pc' = [csprng_pc EXCEPT ![t] = "idle"]
        /\ UNCHANGED <<needreseed, fortuna_seeded, fortuna_pc, fortuna_ret>>
    BY <1>7, GenerateReturnEffect DEF seen
  <2>2. csprng_frame[t].drbg_status = C!OK
    BY <1>1, <2>1 DEF FineOf, Working, C!OK
  <2>3. ~aborted' /\ csprng_frame' = [csprng_frame EXCEPT ![t] = C!NoFrame]
    <3>1. C!Return(t, csprng_frame[t].drbg_status)
      BY <1>7 DEF GenerateReturn, C!GenerateReturn
    <3>2. aborted' = (csprng_frame[t].drbg_status # C!OK /\ ProvidesAbort)
      BY <3>1 DEF C!Return
    <3>3. ~aborted'
      BY <2>2, <3>2, Zenon
    <3> QED
      BY <3>1, <3>3 DEF C!Return
  <2>4. Others(t) /\ FineOf(t)'
    BY <1>1, <2>1 DEF Domains, PlacesOf, Others, FineOf, Announcing, Working
  <2> QED
    BY <1>1, <2>1, <2>3, <2>4, FineStep DEF Fine
<1> QED
  BY <1>2, <1>3, <1>4, <1>5, <1>6, <1>7

LEMMA FineGlue ==
  ASSUME IInv, Fine, NEW t \in Threads,
         \/ GetEntropyCall(t) \/ GetEntropyReturn(t) \/ RefreshCall(t) \/ RefreshReturn(t)
         \/ ReseedCall(t) \/ Reseed(t)
  PROVE  Fine'
<1>1. PlacesOf(t) /\ FineOf(t) /\ Domains /\ DOMAIN csprng_frame = Threads
  BY DEF IInv, Control, Fine
<1>2. CASE GetEntropyCall(t)
  <2>1. /\ kpc' = [kpc EXCEPT ![t] = "getentropy"] /\ csprng_pc[t] = "getentropy"
        /\ fortuna_pc' = [fortuna_pc EXCEPT ![t] = "generate_lock"]
        /\ UNCHANGED <<csprng_pc, aborted, needreseed, fortuna_seeded, fortuna_ret>>
    BY <1>2, GetEntropyCallEffect
  <2>2. csprng_frame' = csprng_frame
    BY <1>2, FrameKept
  <2>3. Others(t) /\ FineOf(t)'
    BY <1>1, <2>1, <2>2 DEF Domains, Others, FineOf, Announcing, Working
  <2> QED
    BY <1>1, <2>1, <2>2, <2>3, FineStep DEF Fine
<1>3. CASE GetEntropyReturn(t)
  <2>1. fortuna_ret[t] = "CCERR_OK"
    BY <1>1, <1>3, GetEntropyReturnEffect DEF FineOf
  <2>2. /\ kpc' = [kpc EXCEPT ![t] = "generate"] /\ csprng_pc[t] = "getentropy"
        /\ csprng_pc' = [csprng_pc EXCEPT ![t] = "reseed"]
        /\ UNCHANGED <<aborted, needreseed, fortuna_seeded, fortuna_pc, fortuna_ret>>
    BY <1>3, <2>1, GetEntropyReturnEffect DEF seen
  <2>3. csprng_frame' = csprng_frame
    BY <1>3, <2>1 DEF GetEntropyReturn, C!GetEntropy, C!OK
  <2>4. Others(t) /\ FineOf(t)'
    BY <1>1, <2>2, <2>3 DEF Domains, Others, FineOf, Announcing, Working
  <2> QED
    BY <1>1, <2>2, <2>3, <2>4, FineStep DEF Fine
<1>4. CASE RefreshCall(t)
  <2>1. /\ kpc' = [kpc EXCEPT ![t] = "refresh"]
        /\ \/ /\ fortuna_pc' = [fortuna_pc EXCEPT ![t] = "getentropy"]
              /\ UNCHANGED fortuna_ret
           \/ /\ fortuna_pc' = [fortuna_pc EXCEPT ![t] = "idle"]
              /\ fortuna_ret' = [fortuna_ret EXCEPT ![t] = "not_reseeded"]
        /\ UNCHANGED <<csprng_pc, aborted, needreseed, fortuna_seeded>>
    BY <1>4, RefreshCallEffect
  <2>2. csprng_frame' = csprng_frame
    BY <1>4, FrameKept
  <2>3. Others(t) /\ FineOf(t)'
    BY <1>1, <2>1, <2>2 DEF Domains, PlacesOf, Others, FineOf, Announcing, Working
  <2> QED
    BY <1>1, <2>1, <2>2, <2>3, FineStep DEF Fine
<1>5. CASE RefreshReturn(t)
  <2>1. /\ kpc' = [kpc EXCEPT ![t] = "idle"]
        /\ Announcing(t) \/ UNCHANGED needreseed
        /\ UNCHANGED <<csprng_pc, aborted, fortuna_seeded, fortuna_pc, fortuna_ret>>
    BY <1>5, RefreshReturnEffect DEF seen, Announcing
  <2>2. csprng_frame' = csprng_frame
    BY <1>5, FrameKept
  <2>3. needreseed' => fortuna_seeded'
    BY <1>1, <2>1 DEF Fine, FineOf
  <2>4. Others(t) /\ FineOf(t)'
    BY <1>1, <2>1, <2>2 DEF Domains, Others, FineOf, Announcing
  <2> QED
    BY <1>1, <2>1, <2>2, <2>3, <2>4, FineStep DEF Fine
<1>6. CASE ReseedCall(t)
  <2>1. /\ kpc' = [kpc EXCEPT ![t] = "reseed"]
        /\ csprng_pc' = [csprng_pc EXCEPT ![t] = "reseed_user"]
        /\ UNCHANGED <<aborted, needreseed, fortuna_seeded, fortuna_pc, fortuna_ret>>
    BY <1>6, ReseedCallEffect DEF seen
  <2>2. csprng_frame' = csprng_frame
    BY <1>6, FrameKept
  <2>3. Others(t) /\ FineOf(t)'
    BY <1>1, <2>1, <2>2 DEF Domains, Others, FineOf, Announcing, Working
  <2> QED
    BY <1>1, <2>1, <2>2, <2>3, FineStep DEF Fine
<1>7. CASE Reseed(t)
  <2>1. /\ kpc' = [kpc EXCEPT ![t] = "idle"] /\ csprng_pc' = [csprng_pc EXCEPT ![t] = "idle"]
        /\ UNCHANGED <<aborted, needreseed, fortuna_seeded, fortuna_pc, fortuna_ret>>
    BY <1>7, ReseedEffect DEF seen
  <2>2. csprng_frame' = csprng_frame
    BY <1>7, FrameKept
  <2>3. Others(t) /\ FineOf(t)'
    BY <1>1, <2>1, <2>2 DEF Domains, Others, FineOf, Announcing, Working
  <2> QED
    BY <1>1, <2>1, <2>2, <2>3, FineStep DEF Fine
<1> QED
  BY <1>2, <1>3, <1>4, <1>5, <1>6, <1>7

LEMMA FineFortuna ==
  ASSUME IInv, Fine, NEW t \in Threads, FortunaOutput(t) \/ FortunaStep(t)
  PROVE  Fine'
<1>1. PlacesOf(t) /\ FineOf(t) /\ Domains /\ DOMAIN csprng_frame = Threads
  BY DEF IInv, Control, Fine
<1>2. csprng_frame' = csprng_frame
  BY FrameKept
<1>3. CASE FortunaOutput(t)
  <2>1. /\ fortuna_pc' = [fortuna_pc EXCEPT ![t] = "idle"]
        /\ fortuna_ret' = [fortuna_ret EXCEPT ![t] = "CCERR_OK"]
        /\ UNCHANGED <<kpc, csprng_pc, aborted, needreseed, fortuna_seeded>>
    BY <1>3, FortunaOutputEffect
  <2>2. Others(t) /\ FineOf(t)'
    BY <1>1, <1>2, <2>1 DEF Domains, Others, FineOf, Announcing, Working
  <2> QED
    BY <1>1, <1>2, <2>1, <2>2, FineStep DEF Fine
<1>4. CASE FortunaStep(t)
  <2>1. /\ FortunaMoves(t) \/ FortunaReseeds(t)
        /\ UNCHANGED <<kpc, csprng_pc, aborted, needreseed>>
    BY <1>4, FortunaStepEffect
  <2>2. CASE FortunaMoves(t)
    <3>1. Others(t) /\ fortuna_seeded' = fortuna_seeded
      BY <1>1, <2>1, <2>2 DEF Domains, Others, FortunaMoves, Stays, Ends, Moves
    <3>2. FineOf(t)'
      BY <1>1, <1>2, <2>1, <2>2 DEF Domains, PlacesOf, Refreshing, Generating, FineOf,
         Announcing, Working, FortunaMoves, Stays, Ends, Moves
    <3> QED
      BY <1>1, <1>2, <2>1, <3>1, <3>2, FineStep DEF Fine
  <2>3. CASE FortunaReseeds(t)
    <3>1. fortuna_seeded => fortuna_seeded'
      BY <1>4, <2>3 DEF FortunaStep, FortunaReseeds, F!GenerateLock, F!GenerateCheck,
         F!RefreshNothing, F!schedule, F!addentropy, F!schedreseed_drain,
         F!schedreseed_final, F!ctx
    <3>2. Others(t)
      BY <1>1, <2>1, <2>3 DEF Domains, Others, FortunaReseeds
    <3>4. fortuna_ret'[t] = "reseeded" => fortuna_seeded'
      <4>1. F!schedreseed_final(t)
        BY <1>1, <1>4, <2>3 DEF Domains, FortunaStep, FortunaReseeds, F!GenerateLock,
           F!GenerateCheck, F!RefreshNothing, F!schedule, F!addentropy,
           F!schedreseed_drain, F!Goto
      <4> DEFINE now == fortuna_seeded \/ F!Enough(fortuna_frame[t].nsamples)
      <4>2. /\ fortuna_seeded' = now
            /\ fortuna_ret' = [fortuna_ret EXCEPT ![t] =
                                 IF now THEN "reseeded" ELSE "not_reseeded"]
        BY <4>1 DEF F!schedreseed_final, F!UnlockAndReturn, F!Return
      <4> HIDE DEF now
      <4> QED
        BY <1>1, <4>2 DEF Domains
    <3>3. FineOf(t)'
      BY <1>1, <1>2, <2>1, <2>3, <3>1, <3>4 DEF Domains, PlacesOf, Refreshing, Generating, FineOf,
         Announcing, Working, FortunaReseeds
    <3> QED
      BY <1>1, <1>2, <2>1, <3>1, <3>2, <3>3, FineStep DEF Fine
  <2> QED
    BY <2>1, <2>2, <2>3
<1> QED
  BY <1>3, <1>4

\* The flag is never up for a Fortuna that was not seeded: only a failure of the entropy
\* source, which resets Fortuna, leads to the 100 refusals behind cc_try_abort.
THEOREM PanicIsWarranted ==
  ASSUME Distinguished, DrbgFails = FALSE
  PROVE  KprngSpec /\ []~SeedUsedUp => []PanicOnlyOnFailure
<1>1. KprngInit => Warranted
  BY DEF KprngInit, C!Init, C!NoFrame, C!OK, F!Init, Warranted, Fine, FineOf, Announcing, Working
<1>2. IInv /\ Warranted /\ ~SeedUsedUp /\ [KprngNext]_kprng_vars => Warranted'
  <2> SUFFICES ASSUME IInv, Warranted, ~SeedUsedUp, [KprngNext]_kprng_vars PROVE Warranted'
    OBVIOUS
  <2>1. CASE UNCHANGED kprng_vars
    <3>1. UNCHANGED <<aborted, csprng_frame, csprng_pc, kpc, fortuna_pc, fortuna_ret,
                      needreseed, fortuna_seeded, sourceFailed>>
      BY <2>1 DEF kprng_vars, csprng, fortuna, glue, kprng_history
    <3>2. \A t \in Threads : FineOf(t) => FineOf(t)'
      BY <3>1 DEF FineOf, Announcing
    <3> QED
      BY <3>1, <3>2 DEF Warranted, Fine
  <2>2. ASSUME NEW t \in Threads, Call(t) \/ Advance(t) PROVE Warranted'
    <3>1. CASE FortunaFailure(t)
      BY <3>1 DEF FortunaFailure, Warranted
    <3>2. CASE ~FortunaFailure(t)
      <4>1. sourceFailed => sourceFailed'
        BY <2>2, <3>2 DEF Call, Advance, CckprngGenerate, RefreshCall, ReseedCall,
           CsprngLock, NeedReseed, GetEntropyCall, GetEntropyReturn, GenerateReseed,
           CsprngOutput, GenerateReturn, RefreshReturn, Reseed, FortunaOutput,
           FortunaStep, kprng_history
      <4>2. Fine => Fine'
        BY <2>2, <3>2, FineCsprng, FineGlue, FineFortuna DEF Call, Advance
      <4> QED
        BY <4>1, <4>2 DEF Warranted
    <3> QED
      BY <3>1, <3>2
  <2> QED
    BY <2>1, <2>2 DEF KprngNext, Stop
<1>3. Warranted => PanicOnlyOnFailure
  BY DEF Warranted, Fine, PanicOnlyOnFailure
<1> QED
  BY <1>1, <1>2, <1>3, Invariance, PTL DEF KprngSpec

-----------------------------------------------------------------------------
(* The Fortuna inside. *)

LEMMA FortunaSeen == UNCHANGED fortuna => UNCHANGED F!vars
BY DEF fortuna, F!vars, F!ctx, F!sched, F!stats, F!history

\* Nothing the Csprng and the glue do disturbs Fortuna: what the kernel generator does to it
\* is a behaviour of Fortuna alone, so that all that holds of one holds of the other.
THEOREM FortunaRuns == KprngSpec => F!Spec
<1>1. KprngInit => F!Init
  BY DEF KprngInit
<1>2. [KprngNext]_kprng_vars => [F!Next]_(F!vars)
  <2>1. CASE UNCHANGED kprng_vars
    BY <2>1, FortunaSeen DEF kprng_vars
  <2>2. ASSUME NEW t \in Threads, Call(t) \/ Advance(t) PROVE F!Next \/ UNCHANGED F!vars
    <3>1. \/ UNCHANGED fortuna
          \/ GetEntropyCall(t) \/ RefreshCall(t)
          \/ FortunaOutput(t) \/ FortunaFailure(t) \/ FortunaStep(t)
      BY <2>2 DEF Call, Advance, CckprngGenerate, ReseedCall, CsprngLock, NeedReseed,
         GetEntropyReturn, GenerateReseed, CsprngOutput, GenerateReturn, RefreshReturn,
         Reseed
    <3>2. UNCHANGED fortuna \/ F!Step(t)
      BY <3>1 DEF GetEntropyCall, RefreshCall, FortunaOutput, FortunaFailure, FortunaStep,
         F!Step, F!Inside
    <3> QED
      BY <3>2, FortunaSeen DEF F!Next
  <2> QED
    BY <2>1, <2>2 DEF KprngNext, Stop
<1> QED
  BY <1>1, <1>2, PTL DEF KprngSpec, F!Spec
=============================================================================
