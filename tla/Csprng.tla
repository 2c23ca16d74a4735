------------------------------- MODULE Csprng -------------------------------
(***************************************************************************)
(* ccrng_csprng: a thread-safe generator over a DRBG, with a small cache   *)
(* of output, reseeded on demand by callbacks                              *)
(* (src/ccrng/src/ccrng_csprng.c).                                         *)
(*                                                                         *)
(* Output is counted in units (a unit stands for a run of bytes).  The     *)
(* units the DRBG makes are numbered from 1 in the order it makes them; 0  *)
(* is a cleared unit.  The callbacks, and the DRBG's checks of a seed, are *)
(* parameters of the actions that call them: here they return anything     *)
(* they may, a composition says what.                                      *)
(***************************************************************************)
EXTENDS Integers, Sequences

CONSTANTS
  Threads, NoThread,
  CacheSize,        \* CCRNG_CSPRNG_CACHED_BUF_SIZE (256 bytes)
  MaxRequest,       \* CCRNG_CSPRNG_MAX_REQUEST_SIZE (4096 bytes)
  MaxRetry,         \* CCRNG_CSPRNG_MAX_RESEED_RETRY (100)
  ReseedInterval,   \* CCDRBG_RESEED_INTERVAL (2^48)
  ProvidesAbort,    \* CC_PROVIDES_ABORT: cc_try_abort stops the process
  DrbgFails,        \* drbg_update may find the halves of its keystream equal
  Requests,         \* the sizes callers ask for
  MaxCalls          \* bound on the calls of generate

ASSUME SizesAssumption ==
  /\ NoThread \notin Threads
  /\ CacheSize \in Nat \ {0} /\ MaxRequest \in Nat /\ CacheSize <= MaxRequest
  /\ MaxRetry \in Nat \ {0} /\ ReseedInterval \in Nat \ {0}
  /\ ProvidesAbort \in BOOLEAN /\ DrbgFails \in BOOLEAN
  /\ Requests \subseteq Nat /\ MaxCalls \in Nat

VARIABLES
  lock,       \* rng->lock_ctx: its owner
  pc, frame,  \* where each thread is, and the locals of its call
  ret,        \* what each thread's last call returned
  aborted,    \* cc_try_abort was reached where it does stop the process
  made,       \* the number of units the DRBG has made
  counter,    \* the DRBG's reseed_counter
  buf, pos,   \* rng->random
  calls,      \* the calls of generate so far
  output,     \* history: the units written to callers' buffers, in order
  fence       \* history: the value of made at the last reseed

drbg == <<made, counter>>
cache == <<buf, pos>>
history == <<calls, output, fence>>
vars == <<lock, pc, frame, ret, aborted, drbg, cache, history>>

Slots == 0 .. CacheSize - 1
OK == "CCERR_OK"
NEED_RESEED == "CCDRBG_STATUS_NEED_RESEED"

Smaller(a, b) == IF a <= b THEN a ELSE b

NoFrame == [asked |-> 0, nbytes |-> 0, got |-> 0, drbg_status |-> OK, tries |-> 0]

\* The locals after an attempt to reseed, and after output.
WithStatus(f, s, n) ==
  [asked |-> f.asked, nbytes |-> f.nbytes, got |-> f.got, drbg_status |-> s, tries |-> n]
WithOutput(f, count, rest, s) ==
  [asked |-> f.asked, nbytes |-> rest, got |-> f.got + count, drbg_status |-> s,
   tries |-> f.tries]

\* ccrng_csprng_init: the DRBG is instantiated, the cache is empty.
Init ==
  /\ lock = NoThread
  /\ pc = [t \in Threads |-> "idle"]
  /\ frame = [t \in Threads |-> NoFrame]
  /\ ret = [t \in Threads |-> OK]
  /\ aborted = FALSE
  /\ made = 0 /\ counter = 1
  /\ buf = [i \in Slots |-> 0] /\ pos = CacheSize
  /\ calls = 0 /\ output = <<>> /\ fence = 0

Goto(t, label) == pc' = [pc EXCEPT ![t] = label]

\* The call ends with status s; an error goes through cc_try_abort first.
Return(t, s) ==
  /\ aborted' = (s # OK /\ ProvidesAbort)
  /\ Goto(t, "idle")
  /\ ret' = [ret EXCEPT ![t] = s]
  /\ frame' = [frame EXCEPT ![t] = NoFrame]

-----------------------------------------------------------------------------
(* ccrng_csprng_generate *)

GenerateCall(t) ==
  /\ pc[t] = "idle" /\ calls < MaxCalls
  /\ calls' = calls + 1
  /\ \E n \in Requests :
       frame' = [frame EXCEPT ![t] =
         [asked |-> n, nbytes |-> n, got |-> 0, drbg_status |-> OK, tries |-> 0]]
  /\ Goto(t, "loop")
  /\ UNCHANGED <<lock, ret, aborted, drbg, cache, output, fence>>

\* The condition of the while loop.
More(f) == f.nbytes > 0 /\ f.drbg_status \in {OK, NEED_RESEED}

\* CSPRNG_LOCK, at the head of the loop's body.
GenerateLock(t) ==
  /\ pc[t] = "loop" /\ More(frame[t]) /\ lock = NoThread
  /\ lock' = t /\ Goto(t, "needreseed")
  /\ UNCHANGED <<frame, ret, aborted, drbg, cache, history>>

\* Mutant: the status is not returned.
GenerateReturnOK(t) ==
  /\ pc[t] = "loop" /\ ~More(frame[t])
  /\ Return(t, OK)
  /\ UNCHANGED <<lock, drbg, cache, history>>

\* After the loop.  (nbytes > 0 here means that drbg_status is an error.)
GenerateReturn(t) ==
  /\ pc[t] = "loop" /\ ~More(frame[t])
  /\ Return(t, frame[t].drbg_status)
  /\ UNCHANGED <<lock, drbg, cache, history>>

\* The callback needreseed says need; it is called whatever drbg_status is.
GenerateNeedReseed(t, need) ==
  /\ pc[t] = "needreseed"
  /\ Goto(t, IF need \/ frame[t].drbg_status = NEED_RESEED THEN "getentropy" ELSE "generate")
  /\ UNCHANGED <<lock, frame, ret, aborted, drbg, cache, history>>

\* Mutant: the attempts are not counted.
RetryForEver(t, s) ==
  /\ Goto(t, "getentropy")
  /\ frame' = [frame EXCEPT ![t] = WithStatus(@, s, @.tries)]
  /\ UNCHANGED <<lock, ret, aborted>>

\* Mutant: after the last attempt the error is forgotten.
RetryForgets(t, s) ==
  LET n == frame[t].tries + 1
  IN  \/ /\ n < MaxRetry
         /\ Goto(t, "getentropy")
         /\ frame' = [frame EXCEPT ![t] = WithStatus(@, s, n)]
         /\ UNCHANGED <<lock, ret, aborted>>
      \/ /\ n = MaxRetry
         /\ lock' = NoThread /\ Return(t, OK)

\* An attempt of getentropy_and_reseed failed with status s: the next one,
\* or, after the last, the call fails.
Retry(t, s) ==
  LET n == frame[t].tries + 1
  IN  \/ /\ n < MaxRetry
         /\ Goto(t, "getentropy")
         /\ frame' = [frame EXCEPT ![t] = WithStatus(@, s, n)]
         /\ UNCHANGED <<lock, ret, aborted>>
      \/ /\ n = MaxRetry
         /\ lock' = NoThread /\ Return(t, s)

\* The callback getentropy returns s.
GetEntropy(t, s) ==
  /\ pc[t] = "getentropy"
  /\ IF s = OK THEN Goto(t, "reseed") /\ UNCHANGED <<lock, frame, ret, aborted>>
               ELSE Retry(t, s)
  /\ UNCHANGED <<drbg, cache, history>>

\* Mutant: what is left in the cache survives the reseed.
ReseedDoneKeepCache ==
  counter' = 1 /\ fence' = made /\ UNCHANGED <<made, cache, calls, output>>

\* reseed_internal when ccdrbg_reseed succeeds: the cache is emptied.
ReseedDone ==
  /\ counter' = 1
  /\ pos' = CacheSize
  /\ fence' = made
  /\ UNCHANGED <<made, buf, calls, output>>

\* reseed_internal in getentropy_and_reseed; ccdrbg_reseed returns s.
GenerateReseed(t, s) ==
  /\ pc[t] = "reseed"
  /\ IF s = OK
     THEN /\ ReseedDone
          /\ Goto(t, "generate")
          /\ frame' = [frame EXCEPT ![t] = WithStatus(@, OK, 0)]
          /\ UNCHANGED <<lock, ret, aborted>>
     ELSE Retry(t, s) /\ UNCHANGED <<drbg, cache, history>>

\* ccdrbg_generate's outcome s for n units: a status alone when the seed is
\* used up, else units made and, unless drbg_update fails, one call counted.
DrbgGenerate(n, s) ==
  \/ /\ counter > ReseedInterval /\ s = NEED_RESEED
     /\ UNCHANGED drbg
  \/ /\ counter <= ReseedInterval
     /\ s = OK \/ (s = "CCDRBG_STATUS_ERROR" /\ DrbgFails)
     /\ made' = made + n
     /\ counter' = IF s = OK THEN counter + 1 ELSE counter

\* units are written to the caller's buffer, rest units are still to come;
\* CSPRNG_UNLOCK.
Write(t, units, rest, s) ==
  /\ output' = output \o units
  /\ frame' = [frame EXCEPT ![t] = WithOutput(@, Len(units), rest, s)]
  /\ lock' = NoThread /\ Goto(t, "loop")
  /\ UNCHANGED <<ret, aborted, calls, fence>>

\* The slots a request of n units takes from the cache, and the cache after.
Take(n) == Smaller(n, CacheSize - pos)
Taken(n) == [k \in 1 .. Take(n) |-> buf[pos + k - 1]]
Cleared(n) == [i \in Slots |-> IF pos <= i /\ i < pos + Take(n) THEN 0 ELSE buf[i]]

\* Mutant: a refill gives rest units away and does not clear them.
RefilledKept(rest) == [i \in Slots |-> made + 1 + i]

\* The cache after a refill of which the first rest units are given away.
Refilled(rest) == [i \in Slots |-> IF i < rest THEN 0 ELSE made + 1 + i]

Fresh(n) == [k \in 1 .. n |-> made + k]

\* Mutant: the position after a refill is one short.
RefillPosShort(rest) == rest - 1

RefillPos(rest) == rest

\* A small request is served from the cache, refilled at need.
GenerateCached(t) ==
  LET n == frame[t].nbytes
      rest == n - Take(n)
  IN  /\ pc[t] = "generate" /\ n <= CacheSize
      /\ \/ /\ rest = 0
            /\ buf' = Cleared(n) /\ pos' = pos + Take(n)
            /\ Write(t, Taken(n), 0, OK)
            /\ UNCHANGED drbg
         \/ /\ rest > 0
            /\ \E s \in {NEED_RESEED, "CCDRBG_STATUS_ERROR"} :
                 /\ DrbgGenerate(CacheSize, s)
                 /\ buf' = IF s = NEED_RESEED THEN Cleared(n) ELSE Refilled(0)
                 /\ pos' = CacheSize
                 /\ Write(t, Taken(n), rest, s)
         \/ /\ rest > 0
            /\ DrbgGenerate(CacheSize, OK)
            /\ buf' = Refilled(rest) /\ pos' = RefillPos(rest)
            /\ Write(t, Taken(n) \o Fresh(rest), 0, OK)

\* Mutant: the caller's buffer is moved on whatever the DRBG returns.
GenerateDirectBlind(t) ==
  LET n == frame[t].nbytes
      req_size == Smaller(n, MaxRequest)
  IN  /\ pc[t] = "generate" /\ n > CacheSize
      /\ \E s \in {OK, NEED_RESEED, "CCDRBG_STATUS_ERROR"} :
           /\ DrbgGenerate(req_size, s)
           /\ Write(t, IF s = OK THEN Fresh(req_size) ELSE <<>>, n - req_size, s)
      /\ UNCHANGED cache

\* A large request is served in chunks straight from the DRBG.
GenerateDirect(t) ==
  LET n == frame[t].nbytes
      req_size == Smaller(n, MaxRequest)
  IN  /\ pc[t] = "generate" /\ n > CacheSize
      /\ \E s \in {OK, NEED_RESEED, "CCDRBG_STATUS_ERROR"} :
           /\ DrbgGenerate(req_size, s)
           /\ IF s = OK THEN Write(t, Fresh(req_size), n - req_size, OK)
                        ELSE Write(t, <<>>, n, s)
      /\ UNCHANGED cache

-----------------------------------------------------------------------------
(* ccrng_csprng_reseed, ccrng_csprng_reseed_get_entropy *)

\* The call is made.  (A zero frame: no output is asked for.)
ReseedCall(t, label) ==
  /\ pc[t] = "idle"
  /\ Goto(t, label)
  /\ UNCHANGED <<lock, frame, ret, aborted, drbg, cache, history>>

\* A user's seed; ccdrbg_reseed returns s, refusing seeds of a wrong size.
ReseedUser(t, s) ==
  /\ pc[t] = "reseed_user" /\ lock = NoThread
  /\ IF s = OK THEN ReseedDone ELSE UNCHANGED <<drbg, cache, history>>
  /\ Goto(t, "idle") /\ ret' = [ret EXCEPT ![t] = s]
  /\ UNCHANGED <<lock, frame, aborted>>

\* A reseed forced by the caller: one attempt, g from getentropy and then s
\* from ccdrbg_reseed.
ForceLock(t) ==
  /\ pc[t] = "reseed_force" /\ lock = NoThread
  /\ lock' = t /\ Goto(t, "force_getentropy")
  /\ UNCHANGED <<frame, ret, aborted, drbg, cache, history>>

ForceReseed(t, g, s) ==
  /\ pc[t] = "force_getentropy"
  /\ IF g = OK /\ s = OK THEN ReseedDone ELSE UNCHANGED <<drbg, cache, history>>
  /\ lock' = NoThread /\ Goto(t, "idle")
  /\ ret' = [ret EXCEPT ![t] = IF g = OK THEN s ELSE g]
  /\ UNCHANGED <<frame, aborted>>

-----------------------------------------------------------------------------
GetEntropyResults == {OK, "CCERR_RNG_NOT_SEEDED"}
ReseedResults == {OK, "CCDRBG_STATUS_PARAM_ERROR"}

Call(t) ==
  GenerateCall(t) \/ ReseedCall(t, "reseed_user") \/ ReseedCall(t, "reseed_force")

\* The steps of a call from the first on.
Advance(t) ==
  \/ GenerateLock(t) \/ GenerateReturn(t)
  \/ \E need \in BOOLEAN : GenerateNeedReseed(t, need)
  \/ \E s \in GetEntropyResults : GetEntropy(t, s)
  \/ \E s \in ReseedResults : (s # OK => DrbgFails) /\ GenerateReseed(t, s)
  \/ GenerateCached(t) \/ GenerateDirect(t)
  \/ \E s \in ReseedResults : ReseedUser(t, s)
  \/ ForceLock(t)
  \/ \E g \in GetEntropyResults, s \in ReseedResults : ForceReseed(t, g, s)

Next == ~aborted /\ \E t \in Threads : Call(t) \/ Advance(t)

Spec == Init /\ [][Next]_vars

\* A call under way goes on whenever its thread could all along; a mutex that
\* others keep taking may starve it.
FairSpec == Spec /\ \A t \in Threads : WF_vars(~aborted /\ Advance(t))

-----------------------------------------------------------------------------
Labels == {"idle", "loop", "needreseed", "getentropy", "reseed", "generate",
           "reseed_user", "reseed_force", "force_getentropy"}
Generating == {"loop", "needreseed", "getentropy", "reseed", "generate"}
Statuses == {OK, NEED_RESEED, "CCERR_RNG_NOT_SEEDED", "CCDRBG_STATUS_PARAM_ERROR",
             "CCDRBG_STATUS_ERROR"}
Frame == [asked : Nat, nbytes : Nat, got : Nat, drbg_status : Statuses, tries : Nat]

\* Every variable holds a value of its C type, and pos stays inside the cache.
TypeOK ==
  /\ lock \in Threads \cup {NoThread}
  /\ pc \in [Threads -> Labels]
  /\ frame \in [Threads -> Frame]
  /\ ret \in [Threads -> Statuses]
  /\ aborted \in BOOLEAN
  /\ made \in Nat /\ counter \in Nat \ {0}
  /\ buf \in [Slots -> Nat] /\ pos \in 0 .. CacheSize
  /\ calls \in Nat /\ output \in Seq(Nat) /\ fence \in Nat

\* No unit is written to two places, and none that was cleared is written:
\* no two callers share output, however the cache, the refills, the chunks
\* and the reseeds of several threads interleave.
NoReuse ==
  \A i, j \in DOMAIN output : output[i] # 0 /\ (i # j => output[i] # output[j])

\* A unit that was given out is no longer in the cache's memory: taking
\* clears it.
Erased ==
  \A i \in Slots, j \in DOMAIN output : buf[i] # 0 => buf[i] # output[j]

\* What is written after a reseed was made after it: no step writes a unit
\* that was cached when the last reseed completed.
FreshAfterReseed ==
  [][\A j \in DOMAIN output' \ DOMAIN output : output'[j] > fence]_<<output, fence>>

\* A request is filled without a gap and without running over: across chunks,
\* refills and reseeds, what was written and what is to come add up.
OutputComplete ==
  \A t \in Threads : frame[t].got + frame[t].nbytes = frame[t].asked

\* generate reports success when and only when the buffer is full, by whichever way it
\* returns: after the loop, or out of it when the last of 100 attempts to reseed has
\* failed.  An error of the DRBG, of the entropy or of the reseed is never lost.
StatusHonest ==
  [][\A t \in Threads : pc[t] \in Generating /\ pc'[t] = "idle" =>
       (ret'[t] = OK <=> frame[t].got = frame[t].asked)]_vars

\* As long as calls are under way calls end (or the process aborts): the
\* retries are bounded and NEED_RESEED does not send the loop round for ever.
CallsEnd ==
  \/ []<>(aborted \/ \A t \in Threads : pc[t] = "idle")
  \/ []<><<\E t \in Threads : pc[t] # "idle" /\ pc'[t] = "idle">>_vars
=============================================================================
