----------------------------- MODULE CryptoRng -----------------------------
(***************************************************************************)
(* ccrng_cryptographic: the process-wide generator behind ccrng(), shared  *)
(* by the threads of a process and copied by fork                          *)
(* (src/ccrng/src/ccrng_cryptographic.c, in its pthread build).            *)
(*                                                                         *)
(* There are a parent with several threads and, once one of them forks, a  *)
(* child with one.  A DRBG state is the number of the entropy it was last  *)
(* (re)seeded with and of the units it has made since: a fork copies it,   *)
(* and equal states make equal output.  A unit of output is <<entropy,     *)
(* number>>; Cleared is a cleared one.                                     *)
(*                                                                         *)
(* The reseed timer may have run out whenever it is looked at, and the     *)
(* RNG_MAX_SEED_RETRY attempts of a reseed, made under the mutex, are one  *)
(* step: one of them succeeds, or all fail.                                *)
(***************************************************************************)
EXTENDS Integers, Sequences

CONSTANTS
  Threads,          \* the threads of the parent
  ChildThread,      \* the thread of the child
  NoThread,
  CacheSize,        \* RANDOM_BUF_SIZE
  MaxRequest,       \* MAX_REQUEST_SIZE
  ReseedInterval,   \* CCDRBG_RESEED_INTERVAL
  Requests,         \* the sizes callers ask for
  MaxCalls          \* bound on the calls of generate

ASSUME ParametersAssumption ==
  /\ ChildThread \notin Threads /\ NoThread \notin Threads \cup {ChildThread}
  /\ CacheSize \in Nat \ {0} /\ MaxRequest \in Nat /\ CacheSize <= MaxRequest
  /\ ReseedInterval \in Nat \ {0}
  /\ Requests \subseteq Nat \ {0} /\ MaxCalls \in Nat

VARIABLES
  pc, frame,   \* where each thread is, and the locals of its call
  init,        \* per process: "no", or the outcome of ccrng_cryptographic_init_once
  lock,        \* per process: the owner of the mutex
  drbg,        \* per process: the DRBG's state
  buf, pos,    \* per process: the cache
  status,      \* per process: predictionbreak.status
  aborted,     \* the processes cc_try_abort has stopped
  entropies,   \* the blocks of entropy drawn so far, by anyone
  calls,       \* the calls of generate so far
  output,      \* history: the units written to callers, in order
  starved      \* history: all attempts of a reseed have failed

rng == <<lock, drbg, buf, pos, status>>
vars == <<pc, frame, init, rng, aborted, entropies, calls, output, starved>>

Processes == {"parent", "child"}
Actors == Threads \cup {ChildThread}
process(t) == IF t = ChildThread THEN "child" ELSE "parent"

Slots == 0 .. CacheSize - 1
Cleared == <<0, 0>>
OK == "CCDRBG_STATUS_OK"
NEED_RESEED == "CCDRBG_STATUS_NEED_RESEED"
FAILED == "CCERR_OUT_OF_ENTROPY"

Smaller(a, b) == IF a <= b THEN a ELSE b

NoFrame == [asked |-> 0, nbytes |-> 0, got |-> 0, drbg_status |-> OK]

\* The locals after a reseed, and after output.
Reseeded(f) == [asked |-> f.asked, nbytes |-> f.nbytes, got |-> f.got, drbg_status |-> OK]
WithOutput(f, count, rest, s) ==
  [asked |-> f.asked, nbytes |-> rest, got |-> f.got + count, drbg_status |-> s]

\* The static initialisers.
Init ==
  /\ pc = [t \in Actors |-> IF t = ChildThread THEN "unborn" ELSE "idle"]
  /\ frame = [t \in Actors |-> NoFrame]
  /\ init = [p \in Processes |-> "no"]
  /\ lock = [p \in Processes |-> NoThread]
  /\ drbg = [p \in Processes |-> [seed |-> 0, made |-> 0, counter |-> 0]]
  /\ buf = [p \in Processes |-> [i \in Slots |-> Cleared]]
  /\ pos = [p \in Processes |-> CacheSize]
  /\ status = [p \in Processes |-> NEED_RESEED]
  /\ aborted = {} /\ entropies = 0 /\ calls = 0 /\ output = <<>> /\ starved = FALSE

Goto(t, label) == pc' = [pc EXCEPT ![t] = label]
Unlock(t) == lock' = [lock EXCEPT ![process(t)] = NoThread]

-----------------------------------------------------------------------------
(* ccrng and ccrng_cryptographic_init_once *)

\* Fresh entropy and a nonce go to the DRBG of p.
Seeded(p) ==
  /\ entropies' = entropies + 1
  /\ drbg' = [drbg EXCEPT ![p] = [seed |-> entropies + 1, made |-> 0, counter |-> 1]]

\* The first call of ccrng() in a process; CC_INIT_ONCE makes the others wait.
\* It is kept out of a fork that began without handlers: whether a handler
\* registered meanwhile runs is up to the C library.
InitOnce(t) ==
  LET p == process(t)
  IN  /\ pc[t] = "idle" /\ init[p] = "no"
      /\ \A u \in Actors : pc[u] # "fork_early"
      /\ \/ /\ Seeded(p)
            /\ init' = [init EXCEPT ![p] = OK]
            /\ status' = [status EXCEPT ![p] = OK]
         \/ /\ init' = [init EXCEPT ![p] = FAILED]
            /\ status' = [status EXCEPT ![p] = FAILED]
            /\ UNCHANGED <<drbg, entropies>>
      /\ UNCHANGED <<pc, frame, lock, buf, pos, aborted, calls, output, starved>>

-----------------------------------------------------------------------------
(* ccrng_cryptographic_generate *)

\* A caller that ccrng() gave a generator asks for n units.
GenerateCall(t) ==
  /\ pc[t] = "idle" /\ init[process(t)] = OK /\ calls < MaxCalls
  /\ calls' = calls + 1
  /\ \E n \in Requests :
       frame' = [frame EXCEPT ![t] =
         [asked |-> n, nbytes |-> n, got |-> 0, drbg_status |-> OK]]
  /\ Goto(t, "loop")
  /\ UNCHANGED <<init, rng, aborted, entropies, output, starved>>

GenerateLock(t) ==
  LET p == process(t)
  IN  /\ pc[t] = "loop" /\ frame[t].nbytes > 0 /\ lock[p] = NoThread
      /\ lock' = [lock EXCEPT ![p] = t]
      /\ Goto(t, "reseed")
      /\ UNCHANGED <<frame, init, drbg, buf, pos, status, aborted, entropies, calls, output, starved>>

\* The buffer is full: only OK leaves the loop without an abort.
GenerateReturn(t) ==
  /\ pc[t] = "loop" /\ frame[t].nbytes = 0
  /\ Goto(t, "idle")
  /\ frame' = [frame EXCEPT ![t] = NoFrame]
  /\ UNCHANGED <<init, rng, aborted, entropies, calls, output, starved>>

\* needreseed_locked: by the DRBG's word, the flag or the timer.
needreseed_locked(t, expired) ==
  frame[t].drbg_status = NEED_RESEED \/ status[process(t)] # OK \/ expired

GenerateNoReseed(t) ==
  /\ pc[t] = "reseed" /\ ~needreseed_locked(t, FALSE)
  /\ Goto(t, "generate")
  /\ UNCHANGED <<frame, init, rng, aborted, entropies, calls, output, starved>>

\* Mutant: the predictionbreak that releases the mutex is called.
GenerateReseedUnlocks(t) ==
  LET p == process(t)
  IN  /\ pc[t] = "reseed" /\ \E expired \in BOOLEAN : needreseed_locked(t, expired)
      /\ Seeded(p)
      /\ pos' = [pos EXCEPT ![p] = CacheSize]
      /\ status' = [status EXCEPT ![p] = OK]
      /\ frame' = [frame EXCEPT ![t] = Reseeded(@)]
      /\ Goto(t, "generate") /\ Unlock(t)
      /\ UNCHANGED <<init, buf, aborted, calls, output, starved>>

\* reseed_locked succeeds: predictionbreak_locked empties the cache.
GenerateReseed(t) ==
  LET p == process(t)
  IN  /\ pc[t] = "reseed" /\ \E expired \in BOOLEAN : needreseed_locked(t, expired)
      /\ Seeded(p)
      /\ pos' = [pos EXCEPT ![p] = CacheSize]
      /\ status' = [status EXCEPT ![p] = OK]
      /\ frame' = [frame EXCEPT ![t] = Reseeded(@)]
      /\ Goto(t, "generate")
      /\ UNCHANGED <<init, lock, buf, aborted, calls, output, starved>>

\* Mutant: output goes on whatever the DRBG said.
GenerateReseedFailsSoft(t) ==
  LET p == process(t)
  IN  /\ pc[t] = "reseed" /\ \E expired \in BOOLEAN : needreseed_locked(t, expired)
      /\ starved' = TRUE
      /\ status' = [status EXCEPT ![p] = FAILED]
      /\ Goto(t, "generate")
      /\ UNCHANGED <<frame, init, lock, drbg, buf, pos, aborted, entropies, calls, output>>

\* reseed_locked fails: output goes on from the old state and the cache, unless
\* the DRBG itself had asked, in this call, for the reseed.
GenerateReseedFails(t) ==
  LET p == process(t)
  IN  /\ pc[t] = "reseed" /\ \E expired \in BOOLEAN : needreseed_locked(t, expired)
      /\ starved' = TRUE
      /\ status' = [status EXCEPT ![p] = FAILED]
      /\ IF frame[t].drbg_status = NEED_RESEED
         THEN aborted' = aborted \cup {p} /\ UNCHANGED pc
         ELSE Goto(t, "generate") /\ UNCHANGED aborted
      /\ UNCHANGED <<frame, init, lock, drbg, buf, pos, entropies, calls, output>>

\* ccdrbg_generate makes n units, or refuses when the seed is used up.
Willing(p) == drbg[p].counter <= ReseedInterval
Fresh(p, n) == [k \in 1 .. n |-> <<drbg[p].seed, drbg[p].made + k>>]
DrbgMakes(p, n) ==
  drbg' = [drbg EXCEPT ![p] =
    [seed |-> drbg[p].seed, made |-> drbg[p].made + n, counter |-> drbg[p].counter + 1]]

\* units are written, rest are still to come; UNLOCK.
Write(t, units, rest, s) ==
  /\ output' = output \o units
  /\ frame' = [frame EXCEPT ![t] = WithOutput(@, Len(units), rest, s)]
  /\ Unlock(t) /\ Goto(t, "loop")
  /\ UNCHANGED <<init, status, aborted, entropies, calls, starved>>

\* What a request of n units takes from the cache of p, and the cache after.
Take(p, n) == Smaller(n, CacheSize - pos[p])
Taken(p, n) == [k \in 1 .. Take(p, n) |-> buf[p][pos[p] + k - 1]]
AfterTake(p, n) ==
  [i \in Slots |-> IF pos[p] <= i /\ i < pos[p] + Take(p, n) THEN Cleared ELSE buf[p][i]]

\* The cache after a refill of which the first rest units are given away.
Refilled(p, rest) == [i \in Slots |-> IF i < rest THEN Cleared ELSE Fresh(p, CacheSize)[i + 1]]

SetCache(p, cache, position) ==
  buf' = [buf EXCEPT ![p] = cache] /\ pos' = [pos EXCEPT ![p] = position]

\* A small request, all in the cache.
CacheHit(t) ==
  LET p == process(t)
      n == frame[t].nbytes
  IN  /\ pc[t] = "generate" /\ n <= CacheSize - pos[p]
      /\ SetCache(p, AfterTake(p, n), pos[p] + n)
      /\ Write(t, Taken(p, n), 0, OK)
      /\ UNCHANGED drbg

\* Mutant: when the DRBG refuses, what the cache gave is not counted.
CacheMissForgets(t) ==
  LET p == process(t)
      n == frame[t].nbytes
      rest == n - Take(p, n)
  IN  /\ pc[t] = "generate" /\ n <= CacheSize /\ rest > 0
      /\ \/ /\ Willing(p)
            /\ DrbgMakes(p, CacheSize)
            /\ SetCache(p, Refilled(p, rest), rest)
            /\ Write(t, Taken(p, n) \o Fresh(p, rest), 0, OK)
         \/ /\ ~Willing(p)
            /\ SetCache(p, AfterTake(p, n), CacheSize)
            /\ Write(t, Taken(p, n), n, NEED_RESEED)
            /\ UNCHANGED drbg

\* A small request of which the cache has a part (or nothing).
CacheMiss(t) ==
  LET p == process(t)
      n == frame[t].nbytes
      rest == n - Take(p, n)
  IN  /\ pc[t] = "generate" /\ n <= CacheSize /\ rest > 0
      /\ \/ /\ Willing(p)
            /\ DrbgMakes(p, CacheSize)
            /\ SetCache(p, Refilled(p, rest), rest)
            /\ Write(t, Taken(p, n) \o Fresh(p, rest), 0, OK)
         \/ /\ ~Willing(p)
            /\ SetCache(p, AfterTake(p, n), CacheSize)
            /\ Write(t, Taken(p, n), rest, NEED_RESEED)
            /\ UNCHANGED drbg

\* A chunk of a large request, straight from the DRBG.
Chunk(t) ==
  LET p == process(t)
      n == frame[t].nbytes
      req_size == Smaller(n, MaxRequest)
  IN  /\ pc[t] = "generate" /\ n > CacheSize
      /\ \/ /\ Willing(p)
            /\ DrbgMakes(p, req_size)
            /\ Write(t, Fresh(p, req_size), n - req_size, OK)
         \/ ~Willing(p) /\ Write(t, <<>>, n, NEED_RESEED) /\ UNCHANGED drbg
      /\ UNCHANGED <<buf, pos>>

-----------------------------------------------------------------------------
(* fork; ccrng_cryptographic_init_once registers the handlers *)

\* There is one child, made by one fork.
MayFork(t) ==
  /\ pc[t] = "idle" /\ t \in Threads /\ pc[ChildThread] = "unborn"
  /\ \A u \in Actors : pc[u] \notin {"fork_early", "fork"}

\* Without handlers.
ForkEarly(t) ==
  /\ MayFork(t) /\ init["parent"] # OK
  /\ Goto(t, "fork_early")
  /\ UNCHANGED <<frame, init, rng, aborted, entropies, calls, output, starved>>

\* Mutant: no reseed is requested.
ForkPrepareNoRequest(t) ==
  /\ MayFork(t) /\ init["parent"] = OK /\ lock["parent"] = NoThread
  /\ lock' = [lock EXCEPT !["parent"] = t]
  /\ Goto(t, "fork")
  /\ UNCHANGED <<frame, init, drbg, buf, pos, status, aborted, entropies, calls, output, starved>>

\* atfork_prepare, in the thread that forks: the mutex is taken, a reseed is
\* requested of both processes to be.
ForkPrepare(t) ==
  /\ MayFork(t) /\ init["parent"] = OK /\ lock["parent"] = NoThread
  /\ lock' = [lock EXCEPT !["parent"] = t]
  /\ status' = [status EXCEPT !["parent"] = IF @ = OK THEN NEED_RESEED ELSE @]
  /\ Goto(t, "fork")
  /\ UNCHANGED <<frame, init, drbg, buf, pos, aborted, entropies, calls, output, starved>>

\* The memory is copied; with handlers, each process goes on in its own.
Fork(t) ==
  LET copy(f) == [f EXCEPT !["child"] = f["parent"]]
  IN  /\ \/ /\ pc[t] = "fork"
            /\ pc' = [pc EXCEPT ![t] = "atfork_parent", ![ChildThread] = "atfork_child"]
         \/ /\ pc[t] = "fork_early"
            /\ pc' = [pc EXCEPT ![t] = "idle", ![ChildThread] = "idle"]
      /\ init' = copy(init) /\ lock' = copy(lock) /\ drbg' = copy(drbg)
      /\ buf' = copy(buf) /\ pos' = copy(pos) /\ status' = copy(status)
      /\ UNCHANGED <<frame, aborted, entropies, calls, output, starved>>

AtforkParent(t) ==
  /\ pc[t] = "atfork_parent"
  /\ Unlock(t) /\ Goto(t, "idle")
  /\ UNCHANGED <<frame, init, drbg, buf, pos, status, aborted, entropies, calls, output, starved>>

\* The mutex of the child is made anew.
AtforkChild(t) ==
  /\ pc[t] = "atfork_child"
  /\ Unlock(t) /\ Goto(t, "idle")
  /\ UNCHANGED <<frame, init, drbg, buf, pos, status, aborted, entropies, calls, output, starved>>

-----------------------------------------------------------------------------
Call(t) == InitOnce(t) \/ GenerateCall(t) \/ ForkEarly(t) \/ ForkPrepare(t)

Advance(t) ==
  \/ GenerateLock(t) \/ GenerateReturn(t)
  \/ GenerateNoReseed(t) \/ GenerateReseed(t) \/ GenerateReseedFails(t)
  \/ CacheHit(t) \/ CacheMiss(t) \/ Chunk(t)
  \/ Fork(t) \/ AtforkParent(t) \/ AtforkChild(t)

Running(t) == process(t) \notin aborted

\* Nobody calls (any more).
Quiet ==
  /\ \A t \in Actors : Running(t) => pc[t] \in {"idle", "unborn"}
  /\ UNCHANGED vars

Next == Quiet \/ \E t \in Actors : Running(t) /\ (Call(t) \/ Advance(t))

Spec == Init /\ [][Next]_vars

\* A thread inside a call goes on whenever it could all along.
FairSpec == Spec /\ \A t \in Actors : WF_vars(Running(t) /\ Advance(t))

-----------------------------------------------------------------------------
\* As long as no reseed has failed, no two pieces of output are the same, in one
\* process or in two: a unit is made once, given out once, and the copies that
\* fork makes of the DRBG and of the cache are not used by either process.
OutputDistinct ==
  ~starved =>
    \A i, j \in DOMAIN output :
      output[i] # Cleared /\ (i # j => output[i] # output[j])

\* The same whether or not reseeds fail ("The random number generator is reseeded
\* upon fork, so that child and parent random number genetators have different
\* states", ccrng_cryptographic.c:50).
ProcessesDiffer ==
  \A i, j \in DOMAIN output :
    output[i] # Cleared /\ (i # j => output[i] # output[j])

\* A thread inside the generator, or between the handlers of a fork, owns its
\* process's mutex: so the state copied to the child is not half updated.
LockOwned ==
  \A t \in Actors :
    /\ pc[t] \in {"reseed", "generate"} => lock[process(t)] = t
    /\ pc[t] \in {"fork", "atfork_parent"} => lock["parent"] = t

\* "it means the DRBG seed is end-of-life" (the comment on the abort): a
\* process is stopped only when its DRBG refuses to go on.
AbortOnlyAtEndOfLife == \A p \in aborted : ~Willing(p)

\* A request is filled without a gap and without running over, whatever came
\* from the cache, in how many chunks, and between which reseeds.
OutputComplete ==
  \A t \in Actors : frame[t].got + frame[t].nbytes = frame[t].asked

\* In either process, as long as calls are under way calls end: the child
\* does not inherit a mutex that nobody will release.
CallsEnd ==
  \A p \in Processes :
    LET mine == {t \in Actors : process(t) = p}
    IN  \/ []<>(p \in aborted \/ \A t \in mine : pc[t] \in {"idle", "unborn"})
        \/ []<><<\E t \in mine : pc[t] # "idle" /\ pc'[t] = "idle">>_vars
=============================================================================
