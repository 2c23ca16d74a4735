--------------------------- MODULE CryptoRngProofs ---------------------------
(***************************************************************************)
(* Proofs about CryptoRng.tla, for any threads, sizes and limits.          *)
(***************************************************************************)
EXTENDS CryptoRng, SequenceTheorems, TLAPS

Unit == Nat \X Nat
Frame == [asked : Nat, nbytes : Nat, got : Nat, drbg_status : {OK, NEED_RESEED}]
State == [seed : Nat, made : Nat, counter : Nat]
Labels == {"unborn", "idle", "loop", "reseed", "generate", "fork", "fork_early",
           "atfork_parent", "atfork_child"}

\* A process's generator is usable: the DRBG's state is nobody else's.
Live(p) == init[p] = OK /\ status[p] = OK

\* Threads: where they are, what they own, and when a process is usable.
ControlOf(t) ==
  /\ pc[t] \in {"reseed", "generate"} => lock[process(t)] = t
  /\ pc[t] \in {"fork", "atfork_parent"} => t \in Threads /\ lock["parent"] = t
  /\ pc[t] \in {"loop", "reseed", "generate"} => init[process(t)] = OK
  /\ pc[t] = "fork" => init["parent"] = OK /\ status["parent"] # OK
  /\ pc[t] = "fork_early" => t \in Threads /\ init["parent"] # OK
  /\ pc[t] = "atfork_child" => t = ChildThread
  /\ pc[t] = "generate" /\ ~starved => Live(process(t))
  /\ frame[t].got + frame[t].nbytes = frame[t].asked

ControlTypes ==
  /\ pc \in [Actors -> Labels] /\ frame \in [Actors -> Frame]
  /\ init \in [Processes -> {"no", OK, FAILED}]
  /\ lock \in [Processes -> Actors \cup {NoThread}]
  /\ status \in [Processes -> {OK, NEED_RESEED, FAILED}]
  /\ starved \in BOOLEAN

Control == ControlTypes /\ \A t \in Actors : ControlOf(t)

DataTypes ==
  /\ drbg \in [Processes -> State]
  /\ buf \in [Processes -> [Slots -> Unit]] /\ pos \in [Processes -> 0 .. CacheSize]
  /\ entropies \in Nat /\ output \in Seq(Unit)

\* Output made with p's present seed was made before what it makes next.
OutputOf(p) ==
  \A j \in DOMAIN output :
    output[j][1] = drbg[p].seed => output[j][2] <= drbg[p].made

\* What the cache of p can still give.
CacheOf(p) ==
  /\ \A i \in Slots : pos[p] <= i =>
       /\ buf[p][i][1] = drbg[p].seed
       /\ buf[p][i][2] >= 1 /\ buf[p][i][2] <= drbg[p].made
       /\ \A j \in DOMAIN output : output[j] # buf[p][i]
  /\ \A i, k \in Slots : pos[p] <= i /\ pos[p] <= k /\ i # k => buf[p][i] # buf[p][k]

Data ==
  /\ \A p \in Processes : drbg[p].seed <= entropies
  /\ \A p \in Processes : init[p] # OK => pos[p] = CacheSize
  /\ \A j \in DOMAIN output : output[j][1] <= entropies
  /\ \A p \in Processes : Live(p) =>
       /\ drbg[p].seed >= 1 /\ OutputOf(p) /\ CacheOf(p)
       /\ \A q \in Processes \ {p} : drbg[q].seed # drbg[p].seed

IInv == Control /\ DataTypes /\ (~starved => Data /\ ProcessesDiffer)

-----------------------------------------------------------------------------
(* Control. *)

LEMMA Basics ==
  /\ CacheSize \in Nat \ {0} /\ MaxRequest \in Nat /\ CacheSize <= MaxRequest
  /\ NoThread \notin Actors /\ ChildThread \in Actors /\ Threads \subseteq Actors
  /\ \A t \in Actors : process(t) \in Processes
  /\ \A t \in Threads : process(t) = "parent"
  /\ process(ChildThread) = "child"
  /\ \A t \in Actors : t \in Threads \/ t = ChildThread
  /\ OK # NEED_RESEED /\ OK # FAILED /\ OK # "no" /\ NEED_RESEED # FAILED
  /\ {"parent", "child"} = Processes
BY ParametersAssumption DEF Actors, process, Processes, OK, NEED_RESEED, FAILED

\* A step of one thread that leaves to the others what they rely on.
LEMMA ControlStep ==
  ASSUME Control, NEW t \in Actors, NEW l \in Labels, NEW f \in Frame,
         pc' = [pc EXCEPT ![t] = l],
         frame' = [frame EXCEPT ![t] = f] \/ (frame' = frame /\ f = frame[t]),
         init' \in [Processes -> {"no", OK, FAILED}],
         lock' \in [Processes -> Actors \cup {NoThread}],
         status' \in [Processes -> {OK, NEED_RESEED, FAILED}],
         starved' \in BOOLEAN, starved => starved',
         \A u \in Actors \ {t} : lock[process(u)] = u => lock'[process(u)] = u,
         \A p \in Processes : init[p] = OK => init'[p] = OK,
         \A u \in Actors \ {t} : pc[u] = "fork_early" => init'["parent"] # OK,
         \A u \in Actors \ {t} : pc[u] = "fork" => status'["parent"] # OK,
         \A u \in Actors \ {t} : pc[u] = "generate" /\ ~starved' => status'[process(u)] = OK,
         f.got + f.nbytes = f.asked,
         l \in {"reseed", "generate"} => lock'[process(t)] = t,
         l \in {"fork", "atfork_parent"} => t \in Threads /\ lock'["parent"] = t,
         l \in {"loop", "reseed", "generate"} => init'[process(t)] = OK,
         l = "fork" => init'["parent"] = OK /\ status'["parent"] # OK,
         l = "fork_early" => t \in Threads /\ init'["parent"] # OK,
         l = "atfork_child" => t = ChildThread,
         l = "generate" /\ ~starved' => status'[process(t)] = OK
  PROVE  Control'
<1>1. /\ pc' \in [Actors -> Labels] /\ pc'[t] = l
      /\ \A u \in Actors \ {t} : pc'[u] = pc[u]
  BY DEF Control, ControlTypes
<1>2. /\ frame' \in [Actors -> Frame] /\ frame'[t] = f
      /\ \A u \in Actors \ {t} : frame'[u] = frame[u]
  BY DEF Control, ControlTypes
<1>3. ControlOf(t)'
  BY <1>1, <1>2 DEF ControlOf, Live
<1>4. ASSUME NEW u \in Actors \ {t} PROVE ControlOf(u)'
  <2>1. ControlOf(u) /\ pc'[u] = pc[u] /\ frame'[u] = frame[u]
    BY <1>1, <1>2 DEF Control
  <2>2. /\ lock[process(u)] = u => lock'[process(u)] = u
        /\ init[process(u)] = OK => init'[process(u)] = OK
        /\ init["parent"] = OK => init'["parent"] = OK
        /\ u \in Threads => process(u) = "parent"
    BY Basics
  <2> QED
    BY <2>1, <2>2 DEF ControlOf, Live
<1> QED
  BY <1>1, <1>2, <1>3, <1>4 DEF Control, ControlTypes

\* The same where frame, init, status and starved stay.
LEMMA MoveControl ==
  ASSUME Control, NEW t \in Actors, NEW l \in Labels, Goto(t, l),
         UNCHANGED <<frame, init, status, starved>>,
         lock' \in [Processes -> Actors \cup {NoThread}],
         \A u \in Actors \ {t} : lock[process(u)] = u => lock'[process(u)] = u,
         l \in {"reseed", "generate"} => lock'[process(t)] = t,
         l \in {"fork", "atfork_parent"} => t \in Threads /\ lock'["parent"] = t,
         l \in {"loop", "reseed", "generate"} => init[process(t)] = OK,
         l # "fork",
         l = "fork_early" => t \in Threads /\ init["parent"] # OK,
         l = "atfork_child" => t = ChildThread,
         l = "generate" /\ ~starved => status[process(t)] = OK
  PROVE  Control'
<1> DEFINE f == frame[t]
<1>1. f \in Frame /\ f.got + f.nbytes = f.asked
  BY DEF Control, ControlTypes, ControlOf
<1>2. /\ pc' = [pc EXCEPT ![t] = l] /\ frame' = frame /\ f = frame[t]
      /\ init' = init /\ status' = status /\ starved' = starved
  BY DEF Goto
<1>3. /\ init' \in [Processes -> {"no", OK, FAILED}]
      /\ status' \in [Processes -> {OK, NEED_RESEED, FAILED}] /\ starved' \in BOOLEAN
  BY <1>2 DEF Control, ControlTypes
<1>4. /\ \A u \in Actors \ {t} : pc[u] = "fork_early" => init'["parent"] # OK
      /\ \A u \in Actors \ {t} : pc[u] = "fork" => status'["parent"] # OK
      /\ \A u \in Actors \ {t} : pc[u] = "generate" /\ ~starved' => status'[process(u)] = OK
  BY <1>2 DEF Control, ControlOf, Live
<1>5. /\ l \in {"loop", "reseed", "generate"} => init'[process(t)] = OK
      /\ l = "fork" => init'["parent"] = OK /\ status'["parent"] # OK
      /\ l = "fork_early" => t \in Threads /\ init'["parent"] # OK
      /\ l = "generate" /\ ~starved' => status'[process(t)] = OK
  BY <1>2
<1>6. starved => starved'
  BY <1>2
<1>7. \A p \in Processes : init[p] = OK => init'[p] = OK
  BY <1>2
<1> HIDE DEF f
<1> QED
  BY <1>1, <1>2, <1>3, <1>4, <1>5, <1>6, <1>7, ControlStep, Zenon

\* The mutex of a thread's process, taken or released by its owner.
LEMMA LockStep ==
  ASSUME Control, NEW t \in Actors,
         \/ lock' = lock
         \/ lock[process(t)] = NoThread /\ lock' = [lock EXCEPT ![process(t)] = t]
         \/ lock[process(t)] = t /\ lock' = [lock EXCEPT ![process(t)] = NoThread]
         \/ t = ChildThread /\ lock' = [lock EXCEPT ![process(t)] = NoThread]
  PROVE  /\ lock' \in [Processes -> Actors \cup {NoThread}]
         /\ \A u \in Actors \ {t} : lock[process(u)] = u => lock'[process(u)] = u
<1>1. lock \in [Processes -> Actors \cup {NoThread}]
  BY DEF Control, ControlTypes
<1> QED
  BY <1>1, Basics

LEMMA LabelFacts == Labels = {"unborn", "idle", "loop", "reseed", "generate", "fork",
                              "fork_early", "atfork_parent", "atfork_child"}
BY DEF Labels

LEMMA ForkControl ==
  ASSUME Control, NEW t \in Actors,
         \/ ForkEarly(t) \/ AtforkParent(t) \/ AtforkChild(t)
  PROVE  Control'
<1>1. CASE ForkEarly(t)
  <2>1. /\ Goto(t, "fork_early") /\ UNCHANGED <<frame, init, status, starved>> /\ lock' = lock
        /\ t \in Threads /\ init["parent"] # OK
    BY <1>1 DEF ForkEarly, MayFork, rng
  <2>2. /\ lock' \in [Processes -> Actors \cup {NoThread}]
        /\ \A u \in Actors \ {t} : lock[process(u)] = u => lock'[process(u)] = u
    BY <2>1, LockStep
  <2> QED
    BY <2>1, <2>2, MoveControl, LabelFacts
<1>2. CASE AtforkParent(t)
  <2>1. /\ Goto(t, "idle") /\ UNCHANGED <<frame, init, status, starved>>
        /\ lock' = [lock EXCEPT ![process(t)] = NoThread] /\ pc[t] = "atfork_parent"
    BY <1>2 DEF AtforkParent, Unlock
  <2>2. lock[process(t)] = t
    BY <2>1, Basics DEF Control, ControlOf
  <2>3. /\ lock' \in [Processes -> Actors \cup {NoThread}]
        /\ \A u \in Actors \ {t} : lock[process(u)] = u => lock'[process(u)] = u
    BY <2>1, <2>2, LockStep
  <2> QED
    BY <2>1, <2>3, MoveControl, LabelFacts
<1>3. CASE AtforkChild(t)
  <2>1. /\ Goto(t, "idle") /\ UNCHANGED <<frame, init, status, starved>>
        /\ lock' = [lock EXCEPT ![process(t)] = NoThread] /\ pc[t] = "atfork_child"
    BY <1>3 DEF AtforkChild, Unlock
  <2>2. t = ChildThread
    BY <2>1 DEF Control, ControlOf
  <2>3. /\ lock' \in [Processes -> Actors \cup {NoThread}]
        /\ \A u \in Actors \ {t} : lock[process(u)] = u => lock'[process(u)] = u
    BY <2>1, <2>2, LockStep
  <2> QED
    BY <2>1, <2>3, MoveControl, LabelFacts
<1> QED
  BY <1>1, <1>2, <1>3

\* A call begins, takes the mutex, or ends; no reseed is due.
LEMMA CallControl ==
  ASSUME Control, NEW t \in Actors,
         GenerateCall(t) \/ GenerateLock(t) \/ GenerateReturn(t) \/ GenerateNoReseed(t)
  PROVE  Control'
<1>0. ControlOf(t) /\ ControlTypes /\ process(t) \in Processes
  BY Basics DEF Control
<1>1. CASE GenerateCall(t) \/ GenerateReturn(t)
  <2>1. PICK n \in Nat, l \in {"loop", "idle"} :
          /\ frame' = [frame EXCEPT ![t] =
               [asked |-> n, nbytes |-> n, got |-> 0, drbg_status |-> OK]]
          /\ Goto(t, l)
          /\ l = "loop" => init[process(t)] = OK
    <3>1. CASE GenerateCall(t)
      BY <3>1, ParametersAssumption DEF GenerateCall
    <3>2. CASE GenerateReturn(t)
      <4> DEFINE N == 0
      <4>1. /\ frame' = [frame EXCEPT ![t] =
                 [asked |-> N, nbytes |-> N, got |-> 0, drbg_status |-> OK]]
            /\ Goto(t, "idle") /\ N \in Nat
        BY <3>2 DEF GenerateReturn, NoFrame
      <4> HIDE DEF N
      <4> QED
        BY <4>1
    <3> QED
      BY <1>1, <3>1, <3>2
  <2> DEFINE f == [asked |-> n, nbytes |-> n, got |-> 0, drbg_status |-> OK]
  <2>2. f \in Frame /\ f.got = 0 /\ f.nbytes = n /\ f.asked = n
    BY DEF Frame
  <2>3. /\ pc' = [pc EXCEPT ![t] = l] /\ frame' = [frame EXCEPT ![t] = f] /\ l \in Labels
        /\ l \notin {"reseed", "generate", "fork", "fork_early", "atfork_parent", "atfork_child"}
    BY <2>1, LabelFacts DEF Goto
  <2>4. init' = init /\ lock' = lock /\ status' = status /\ starved' = starved
    BY <1>1 DEF GenerateCall, GenerateReturn, rng
  <2> HIDE DEF f
  <2>5. f.got + f.nbytes = f.asked
    BY <2>2
  <2>6. /\ \A u \in Actors \ {t} : pc[u] = "fork_early" => init'["parent"] # OK
        /\ \A u \in Actors \ {t} : pc[u] = "fork" => status'["parent"] # OK
        /\ \A u \in Actors \ {t} : pc[u] = "generate" /\ ~starved' => status'[process(u)] = OK
    BY <2>4 DEF Control, ControlOf, Live
  <2>7. /\ init' \in [Processes -> {"no", OK, FAILED}]
        /\ lock' \in [Processes -> Actors \cup {NoThread}]
        /\ status' \in [Processes -> {OK, NEED_RESEED, FAILED}]
        /\ starved' \in BOOLEAN /\ (starved => starved')
        /\ \A u \in Actors \ {t} : lock[process(u)] = u => lock'[process(u)] = u
        /\ \A p \in Processes : init[p] = OK => init'[p] = OK
        /\ l \in {"loop", "reseed", "generate"} => init'[process(t)] = OK
    BY <1>0, <2>1, <2>4 DEF ControlTypes
  <2> QED
    BY <2>2, <2>3, <2>5, <2>6, <2>7, ControlStep
<1>2. CASE GenerateLock(t)
  <2>1. /\ Goto(t, "reseed") /\ UNCHANGED <<frame, init, status, starved>>
        /\ lock[process(t)] = NoThread /\ lock' = [lock EXCEPT ![process(t)] = t]
        /\ init[process(t)] = OK
    BY <1>0, <1>2 DEF GenerateLock, ControlOf
  <2>2. /\ lock' \in [Processes -> Actors \cup {NoThread}]
        /\ \A u \in Actors \ {t} : lock[process(u)] = u => lock'[process(u)] = u
    BY <2>1, LockStep
  <2>3. lock'[process(t)] = t
    BY <1>0, <2>1 DEF ControlTypes
  <2> QED
    BY <2>1, <2>2, <2>3, MoveControl, LabelFacts
<1>3. CASE GenerateNoReseed(t)
  <2>1. /\ Goto(t, "generate") /\ UNCHANGED <<frame, init, status, starved>> /\ lock' = lock
        /\ pc[t] = "reseed" /\ status[process(t)] = OK
    BY <1>3 DEF GenerateNoReseed, needreseed_locked, rng
  <2>2. lock[process(t)] = t /\ init[process(t)] = OK
    BY <1>0, <2>1 DEF ControlOf
  <2>3. /\ lock' \in [Processes -> Actors \cup {NoThread}]
        /\ \A u \in Actors \ {t} : lock[process(u)] = u => lock'[process(u)] = u
    BY <2>1, LockStep
  <2> QED
    BY <2>1, <2>2, <2>3, MoveControl, LabelFacts
<1> QED
  BY <1>1, <1>2, <1>3

\* The first use of a process's generator.
LEMMA InitControl ==
  ASSUME Control, NEW t \in Actors, InitOnce(t)
  PROVE  Control'
<1> DEFINE p == process(t)
<1>0. ControlTypes /\ p \in Processes
  BY Basics DEF Control
<1>1. PICK s \in {OK, FAILED} :
        init' = [init EXCEPT ![p] = s] /\ status' = [status EXCEPT ![p] = s]
  BY DEF InitOnce
<1>2. /\ pc' = pc /\ frame' = frame /\ lock' = lock /\ starved' = starved
      /\ init[p] = "no" /\ \A u \in Actors : pc[u] # "fork_early"
  BY DEF InitOnce
<1>3. /\ init' \in [Processes -> {"no", OK, FAILED}]
      /\ status' \in [Processes -> {OK, NEED_RESEED, FAILED}]
      /\ init'[p] = s /\ status'[p] = s
      /\ \A q \in Processes \ {p} : init'[q] = init[q] /\ status'[q] = status[q]
  BY <1>0, <1>1 DEF ControlTypes
<1>4. ASSUME NEW u \in Actors PROVE ControlOf(u)'
  <2>1. ControlOf(u) /\ process(u) \in Processes /\ "parent" \in Processes
    BY Basics DEF Control, Processes
  <2>2. CASE pc[u] \in {"loop", "reseed", "generate"}
    <3>1. init[process(u)] = OK /\ process(u) # p
      BY <1>2, <2>1, <2>2, Basics DEF ControlOf
    <3>2. init'[process(u)] = init[process(u)] /\ status'[process(u)] = status[process(u)]
      BY <1>3, <2>1, <3>1
    <3> QED
      BY <1>2, <2>1, <2>2, <3>2 DEF ControlOf, Live
  <2>3. CASE pc[u] = "fork"
    <3>1. "parent" # p
      BY <1>2, <2>1, <2>3, Basics DEF ControlOf
    <3>2. init'["parent"] = init["parent"] /\ status'["parent"] = status["parent"]
      BY <1>3, <2>1, <3>1
    <3> QED
      BY <1>2, <2>1, <2>3, <3>2 DEF ControlOf, Live
  <2>4. CASE pc[u] \notin {"loop", "reseed", "generate", "fork"}
    BY <1>2, <2>1, <2>4 DEF ControlOf, Live
  <2> QED
    BY <2>2, <2>3, <2>4
<1> QED
  BY <1>0, <1>2, <1>3, <1>4 DEF Control, ControlTypes

\* The reseeds of generate.
LEMMA ReseedControl ==
  ASSUME Control, NEW t \in Actors, GenerateReseed(t) \/ GenerateReseedFails(t)
  PROVE  Control'
<1> DEFINE p == process(t)
<1>0. /\ ControlTypes /\ ControlOf(t) /\ p \in Processes /\ lock[p] = t /\ init[p] = OK
      /\ pc[t] = "reseed" /\ frame[t] \in Frame
  BY Basics DEF Control, ControlTypes, ControlOf, GenerateReseed, GenerateReseedFails
\* Nobody else of the process holds the mutex.
<1>1. \A u \in Actors \ {t} : pc[u] \in {"reseed", "generate"} => process(u) # p
  BY <1>0 DEF Control, ControlOf
<1>2. \A u \in Actors \ {t} : pc[u] = "fork" => p # "parent"
  BY <1>0 DEF Control, ControlOf
<1>3. CASE GenerateReseed(t)
  <2> DEFINE f == Reseeded(frame[t])
  <2>1. /\ init' = init /\ lock' = lock /\ starved' = starved
        /\ status' = [status EXCEPT ![p] = OK]
        /\ pc' = [pc EXCEPT ![t] = "generate"] /\ frame' = [frame EXCEPT ![t] = f]
    BY <1>3 DEF GenerateReseed, Goto
  <2>2. f = [asked |-> frame[t].asked, nbytes |-> frame[t].nbytes, got |-> frame[t].got,
             drbg_status |-> OK]
    BY DEF Reseeded
  <2>3. frame[t].asked \in Nat /\ frame[t].nbytes \in Nat /\ frame[t].got \in Nat
    BY <1>0 DEF Frame
  <2>4. f \in Frame
    BY <2>2, <2>3 DEF Frame
  <2>5. f.got = frame[t].got /\ f.nbytes = frame[t].nbytes /\ f.asked = frame[t].asked
    BY <2>2
  <2> HIDE DEF f
  <2>6. f.got + f.nbytes = f.asked
    BY <1>0, <2>5 DEF ControlOf
  <2>7. /\ status' \in [Processes -> {OK, NEED_RESEED, FAILED}] /\ status'[p] = OK
        /\ \A q \in Processes \ {p} : status'[q] = status[q]
    BY <1>0, <2>1 DEF ControlTypes
  <2>8. /\ \A u \in Actors \ {t} : pc[u] = "fork_early" => init'["parent"] # OK
        /\ \A u \in Actors \ {t} : pc[u] = "fork" => status'["parent"] # OK
        /\ \A u \in Actors \ {t} : pc[u] = "generate" /\ ~starved' => status'[process(u)] = OK
    BY <1>1, <1>2, <2>1, <2>7, Basics DEF Control, ControlOf, Live
  <2>9. /\ init' \in [Processes -> {"no", OK, FAILED}] /\ init'[p] = OK
        /\ lock' \in [Processes -> Actors \cup {NoThread}] /\ lock'[p] = t
        /\ starved' \in BOOLEAN /\ (starved => starved')
        /\ \A u \in Actors \ {t} : lock[process(u)] = u => lock'[process(u)] = u
        /\ \A q \in Processes : init[q] = OK => init'[q] = OK
        /\ "generate" \in Labels
    BY <1>0, <2>1, LabelFacts DEF ControlTypes
  <2> QED
    BY <2>1, <2>4, <2>6, <2>7, <2>8, <2>9, ControlStep
<1>4. CASE GenerateReseedFails(t)
  <2>1. /\ init' = init /\ lock' = lock /\ frame' = frame /\ starved' = TRUE
        /\ status' = [status EXCEPT ![p] = FAILED]
        /\ \E l \in {"reseed", "generate"} : pc' = [pc EXCEPT ![t] = l]
    <3>1. pc' = pc => pc' = [pc EXCEPT ![t] = "reseed"]
      BY <1>0 DEF ControlTypes
    <3> QED
      BY <1>4, <3>1 DEF GenerateReseedFails, Goto
  <2>2. PICK l \in {"reseed", "generate"} : pc' = [pc EXCEPT ![t] = l]
    BY <2>1
  <2> DEFINE f == frame[t]
  <2>3. f \in Frame /\ f.got + f.nbytes = f.asked /\ frame' = frame /\ f = frame[t]
    BY <1>0, <2>1 DEF ControlOf
  <2>4. /\ status' \in [Processes -> {OK, NEED_RESEED, FAILED}] /\ status'[p] = FAILED
        /\ \A q \in Processes \ {p} : status'[q] = status[q]
    BY <1>0, <2>1 DEF ControlTypes
  <2>5. /\ \A u \in Actors \ {t} : pc[u] = "fork_early" => init'["parent"] # OK
        /\ \A u \in Actors \ {t} : pc[u] = "fork" => status'["parent"] # OK
        /\ \A u \in Actors \ {t} : pc[u] = "generate" /\ ~starved' => status'[process(u)] = OK
    BY <1>1, <1>2, <2>1, <2>4, Basics DEF Control, ControlOf, Live
  <2>6. /\ init' \in [Processes -> {"no", OK, FAILED}] /\ init'[p] = OK
        /\ lock' \in [Processes -> Actors \cup {NoThread}] /\ lock'[p] = t
        /\ starved' \in BOOLEAN /\ (starved => starved') /\ starved'
        /\ \A u \in Actors \ {t} : lock[process(u)] = u => lock'[process(u)] = u
        /\ \A q \in Processes : init[q] = OK => init'[q] = OK
        /\ l \in Labels
    BY <1>0, <2>1, LabelFacts DEF ControlTypes
  <2> HIDE DEF f
  <2> QED
    BY <2>2, <2>3, <2>4, <2>5, <2>6, ControlStep
<1> QED
  BY <1>3, <1>4

\* The handlers' prologue: the mutex is taken and a reseed requested.
LEMMA PrepareControl ==
  ASSUME Control, NEW t \in Actors, ForkPrepare(t)
  PROVE  Control'
<1>0. ControlTypes /\ ControlOf(t) /\ t \in Threads /\ process(t) = "parent"
      /\ "parent" \in Processes
  BY Basics DEF Control, ForkPrepare, MayFork, Processes
<1>1. /\ init' = init /\ frame' = frame /\ starved' = starved /\ init["parent"] = OK
      /\ lock["parent"] = NoThread /\ lock' = [lock EXCEPT !["parent"] = t]
      /\ status' = [status EXCEPT !["parent"] = IF @ = OK THEN NEED_RESEED ELSE @]
      /\ pc' = [pc EXCEPT ![t] = "fork"]
  BY DEF ForkPrepare, Goto
<1>2. /\ status' \in [Processes -> {OK, NEED_RESEED, FAILED}] /\ status'["parent"] # OK
      /\ \A q \in Processes \ {"parent"} : status'[q] = status[q]
  BY <1>0, <1>1, Basics DEF ControlTypes
<1>3. \A u \in Actors : pc[u] = "generate" => process(u) # "parent"
  BY <1>1, Basics DEF Control, ControlOf
<1>4. /\ \A u \in Actors \ {t} : pc[u] = "fork_early" => init'["parent"] # OK
      /\ \A u \in Actors \ {t} : pc[u] = "fork" => status'["parent"] # OK
      /\ \A u \in Actors \ {t} : pc[u] = "generate" /\ ~starved' => status'[process(u)] = OK
  BY <1>1, <1>2, <1>3, Basics DEF Control, ControlOf, Live
<1>5. /\ lock' \in [Processes -> Actors \cup {NoThread}]
      /\ \A u \in Actors \ {t} : lock[process(u)] = u => lock'[process(u)] = u
      /\ lock'["parent"] = t
  <2>1. lock[process(t)] = NoThread /\ lock' = [lock EXCEPT ![process(t)] = t]
    BY <1>0, <1>1
  <2>2. /\ lock' \in [Processes -> Actors \cup {NoThread}]
        /\ \A u \in Actors \ {t} : lock[process(u)] = u => lock'[process(u)] = u
    BY <2>1, LockStep
  <2> QED
    BY <1>0, <1>1, <2>2 DEF ControlTypes
<1> DEFINE f == frame[t]
<1>6. f \in Frame /\ f.got + f.nbytes = f.asked /\ frame' = frame /\ f = frame[t]
  BY <1>0, <1>1 DEF ControlOf, ControlTypes
<1>7. /\ init' \in [Processes -> {"no", OK, FAILED}] /\ init'["parent"] = OK
      /\ starved' \in BOOLEAN /\ (starved => starved')
      /\ \A q \in Processes : init[q] = OK => init'[q] = OK /\ "fork" \in Labels
  BY <1>0, <1>1, LabelFacts DEF ControlTypes
<1>8. "fork" \in Labels
  BY LabelFacts
<1> HIDE DEF f
<1> QED
  BY <1>0, <1>1, <1>2, <1>4, <1>5, <1>6, <1>7, <1>8, ControlStep

\* The fork itself: the child is a copy of the parent, one of its threads running.
LEMMA ChildControl ==
  ASSUME Control, NEW t \in Actors, Fork(t)
  PROVE  Control'
<1>0. ControlTypes /\ ControlOf(t) /\ {"parent", "child"} = Processes
  BY Basics DEF Control
<1>1. t \in Threads /\ t # ChildThread /\ ChildThread \in Actors
  BY <1>0, Basics, ParametersAssumption DEF Fork, ControlOf
<1>2. /\ frame' = frame /\ starved' = starved
      /\ init' = [init EXCEPT !["child"] = init["parent"]]
      /\ lock' = [lock EXCEPT !["child"] = lock["parent"]]
      /\ status' = [status EXCEPT !["child"] = status["parent"]]
  BY DEF Fork
<1>3. /\ init'["parent"] = init["parent"] /\ lock'["parent"] = lock["parent"]
      /\ status'["parent"] = status["parent"]
      /\ init' \in [Processes -> {"no", OK, FAILED}]
      /\ lock' \in [Processes -> Actors \cup {NoThread}]
      /\ status' \in [Processes -> {OK, NEED_RESEED, FAILED}]
  BY <1>0, <1>2 DEF ControlTypes
<1>4. /\ pc' \in [Actors -> Labels]
      /\ \A u \in Threads \ {t} : pc'[u] = pc[u]
      /\ pc'[ChildThread] \in {"atfork_child", "idle"}
      /\ pc'[t] \in {"atfork_parent", "idle"}
      /\ pc'[t] = "atfork_parent" => pc[t] = "fork"
  BY <1>0, <1>1, LabelFacts, Basics DEF Fork, ControlTypes
<1>5. ASSUME NEW u \in Actors PROVE ControlOf(u)'
  <2>1. ControlOf(u) /\ (u \in Threads \/ u = ChildThread)
    BY Basics DEF Control
  <2>2. CASE u = ChildThread
    BY <1>2, <1>4, <2>1, <2>2 DEF ControlOf
  <2>3. CASE u = t
    BY <1>1, <1>2, <1>3, <1>4, <2>1, <2>3 DEF ControlOf
  <2>4. CASE u \in Threads \ {t}
    <3>1. process(u) = "parent" /\ pc'[u] = pc[u]
      BY <1>4, <2>4, Basics
    <3> QED
      BY <1>2, <1>3, <2>1, <3>1 DEF ControlOf, Live
  <2> QED
    BY <2>1, <2>2, <2>3, <2>4
<1>6. frame' \in [Actors -> Frame] /\ starved' \in BOOLEAN
  BY <1>0, <1>2 DEF ControlTypes
<1> QED
  BY <1>3, <1>4, <1>5, <1>6 DEF Control, ControlTypes

\* What the cache gives of a request, and the sequences a call writes.
LEMMA UnitsWritten ==
  ASSUME DataTypes, NEW p \in Processes, NEW n \in Nat
  PROVE  /\ Take(p, n) \in Nat /\ Take(p, n) <= n /\ Take(p, n) <= CacheSize - pos[p]
         /\ n - Take(p, n) \in Nat
         /\ Fresh(p, n) \in Seq(Unit) /\ Len(Fresh(p, n)) = n /\ DOMAIN Fresh(p, n) = 1 .. n
         /\ \A k \in 1 .. n : Fresh(p, n)[k] = <<drbg[p].seed, drbg[p].made + k>>
         /\ Taken(p, n) \in Seq(Unit) /\ Len(Taken(p, n)) = Take(p, n)
         /\ DOMAIN Taken(p, n) = 1 .. Take(p, n)
         /\ \A k \in 1 .. Take(p, n) :
              pos[p] + k - 1 \in Slots /\ Taken(p, n)[k] = buf[p][pos[p] + k - 1]
<1>1. /\ drbg[p] \in State /\ buf[p] \in [Slots -> Unit] /\ pos[p] \in 0 .. CacheSize
      /\ CacheSize \in Nat
  BY Basics DEF DataTypes
<1>2. drbg[p].seed \in Nat /\ drbg[p].made \in Nat
  BY <1>1 DEF State
<1>3. /\ Take(p, n) \in Nat /\ Take(p, n) <= n /\ Take(p, n) <= CacheSize - pos[p]
      /\ n - Take(p, n) \in Nat
  BY <1>1 DEF Take, Smaller
<1>4. \A k \in 1 .. Take(p, n) : pos[p] + k - 1 \in Slots
  BY <1>1, <1>3 DEF Slots
<1>5. \A k \in 1 .. Take(p, n) : buf[p][pos[p] + k - 1] \in Unit
  BY <1>1, <1>4
<1>6. \A k \in 1 .. n : <<drbg[p].seed, drbg[p].made + k>> \in Unit
  BY <1>2 DEF Unit
<1>7. Fresh(p, n) = [k \in 1 .. n |-> <<drbg[p].seed, drbg[p].made + k>>]
  BY DEF Fresh
<1>8. Fresh(p, n) \in Seq(Unit) /\ Len(Fresh(p, n)) = n
  BY <1>6, <1>7
<1>9. Taken(p, n) = [k \in 1 .. Take(p, n) |-> buf[p][pos[p] + k - 1]]
  BY DEF Taken
<1>10. Taken(p, n) \in Seq(Unit) /\ Len(Taken(p, n)) = Take(p, n)
  BY <1>3, <1>5, <1>9
<1> QED
  BY <1>3, <1>4, <1>7, <1>8, <1>9, <1>10

\* Output is written and the mutex released.
LEMMA WriteControl ==
  ASSUME Control, NEW t \in Actors, NEW units \in Seq(Unit), NEW rest \in Nat,
         NEW s \in {OK, NEED_RESEED}, Write(t, units, rest, s), pc[t] = "generate",
         Len(units) + rest = frame[t].nbytes
  PROVE  Control'
<1> DEFINE f == WithOutput(frame[t], Len(units), rest, s)
<1>0. /\ ControlTypes /\ ControlOf(t) /\ frame[t] \in Frame /\ Len(units) \in Nat
      /\ process(t) \in Processes /\ lock[process(t)] = t /\ init[process(t)] = OK
  BY Basics, LenProperties DEF Control, ControlTypes, ControlOf
<1>1. f = [asked |-> frame[t].asked, nbytes |-> rest, got |-> frame[t].got + Len(units),
           drbg_status |-> s]
  BY DEF WithOutput
<1>2. frame[t].asked \in Nat /\ frame[t].nbytes \in Nat /\ frame[t].got \in Nat
  BY <1>0 DEF Frame
<1>3. f \in Frame
  BY <1>0, <1>1, <1>2 DEF Frame
<1>4. f.got = frame[t].got + Len(units) /\ f.nbytes = rest /\ f.asked = frame[t].asked
  BY <1>1
<1>5. /\ init' = init /\ status' = status /\ starved' = starved
      /\ pc' = [pc EXCEPT ![t] = "loop"] /\ frame' = [frame EXCEPT ![t] = f]
      /\ lock' = [lock EXCEPT ![process(t)] = NoThread]
  BY DEF Write, Goto, Unlock
<1> HIDE DEF f
<1>6. f.got + f.nbytes = f.asked
  BY <1>0, <1>2, <1>4 DEF ControlOf
<1>7. /\ lock' \in [Processes -> Actors \cup {NoThread}]
      /\ \A u \in Actors \ {t} : lock[process(u)] = u => lock'[process(u)] = u
  BY <1>0, <1>5, LockStep
<1>8. /\ \A u \in Actors \ {t} : pc[u] = "fork_early" => init'["parent"] # OK
      /\ \A u \in Actors \ {t} : pc[u] = "fork" => status'["parent"] # OK
      /\ \A u \in Actors \ {t} : pc[u] = "generate" /\ ~starved' => status'[process(u)] = OK
  BY <1>5 DEF Control, ControlOf, Live
<1>9. /\ init' \in [Processes -> {"no", OK, FAILED}] /\ init'[process(t)] = OK
      /\ status' \in [Processes -> {OK, NEED_RESEED, FAILED}]
      /\ starved' \in BOOLEAN /\ (starved => starved')
      /\ \A q \in Processes : init[q] = OK => init'[q] = OK
      /\ "loop" \in Labels
  BY <1>0, <1>5, LabelFacts DEF ControlTypes
<1> QED
  BY <1>3, <1>5, <1>6, <1>7, <1>8, <1>9, ControlStep

\* The steps of generate that write.
LEMMA WrittenControl ==
  ASSUME Control, DataTypes, NEW t \in Actors, CacheHit(t) \/ CacheMiss(t) \/ Chunk(t)
  PROVE  Control'
<1> DEFINE p == process(t)
           n == frame[t].nbytes
           rest == n - Take(p, n)
           req_size == Smaller(n, MaxRequest)
           Wrote(units, left, s) ==
             Write(t, units, left, s) /\ Len(units) + left = frame[t].nbytes
           Some == \E units \in Seq(Unit), left \in Nat, s \in {OK, NEED_RESEED} :
                     Wrote(units, left, s)
<1>0. n \in Nat /\ p \in Processes /\ pc[t] = "generate" /\ pos[p] \in 0 .. CacheSize
  BY Basics DEF Control, ControlTypes, Frame, DataTypes, CacheHit, CacheMiss, Chunk
<1>1. /\ Take(p, n) \in Nat /\ Take(p, n) <= n /\ rest \in Nat
      /\ Taken(p, n) \in Seq(Unit) /\ Len(Taken(p, n)) = Take(p, n)
  BY <1>0, UnitsWritten
<1>2. Fresh(p, rest) \in Seq(Unit) /\ Len(Fresh(p, rest)) = rest
  BY <1>0, <1>1, UnitsWritten
<1>3. req_size \in Nat /\ n - req_size \in Nat
  BY <1>0, Basics DEF Smaller
<1>4. Fresh(p, req_size) \in Seq(Unit) /\ Len(Fresh(p, req_size)) = req_size
  BY <1>0, <1>3, UnitsWritten
<1>5. /\ Taken(p, n) \o Fresh(p, rest) \in Seq(Unit)
      /\ Len(Taken(p, n) \o Fresh(p, rest)) = Take(p, n) + rest
  <2> HIDE DEF n, rest
  <2> QED
    BY <1>1, <1>2, ConcatProperties
<1>6. <<>> \in Seq(Unit) /\ Len(<<>>) = 0
  BY EmptySeq
<1>7. CASE CacheHit(t)
  <2>1. Write(t, Taken(p, n), 0, OK) /\ n <= CacheSize - pos[p]
    BY <1>7 DEF CacheHit
  <2>2. Take(p, n) = n
    BY <1>0, <2>1 DEF Take, Smaller
  <2>3. Len(Taken(p, n)) + 0 = n
    BY <1>0, <1>1, <2>2
  <2>4. Some
    BY <1>1, <2>1, <2>3
  <2> QED
    BY <1>0, <2>4, WriteControl
<1>8. CASE CacheMiss(t)
  <2>1. \/ Write(t, Taken(p, n) \o Fresh(p, rest), 0, OK)
        \/ Write(t, Taken(p, n), rest, NEED_RESEED)
    BY <1>8 DEF CacheMiss
  <2>2. Len(Taken(p, n) \o Fresh(p, rest)) + 0 = n /\ Len(Taken(p, n)) + rest = n
    BY <1>0, <1>1, <1>5
  <2>3. Write(t, Taken(p, n) \o Fresh(p, rest), 0, OK) => Some
    BY <1>5, <2>2
  <2>4. Write(t, Taken(p, n), rest, NEED_RESEED) => Some
    <3>1. Write(t, Taken(p, n), rest, NEED_RESEED) => Wrote(Taken(p, n), rest, NEED_RESEED)
      BY <2>2
    <3> HIDE DEF Wrote, n, rest
    <3> QED
      BY <1>1, <3>1
  <2>5. Some
    BY <2>1, <2>3, <2>4
  <2> QED
    BY <1>0, <2>5, WriteControl
<1>9. CASE Chunk(t)
  <2>1. \/ Write(t, Fresh(p, req_size), n - req_size, OK)
        \/ Write(t, <<>>, n, NEED_RESEED)
    BY <1>9 DEF Chunk
  <2>2. Len(Fresh(p, req_size)) + (n - req_size) = n /\ Len(<<>>) + n = n
    BY <1>0, <1>3, <1>4, <1>6
  <2>3. Write(t, Fresh(p, req_size), n - req_size, OK) => Some
    <3>1. Write(t, Fresh(p, req_size), n - req_size, OK)
            => Wrote(Fresh(p, req_size), n - req_size, OK)
      BY <2>2
    <3> HIDE DEF Wrote, n, req_size
    <3> QED
      BY <1>3, <1>4, <3>1
  <2>4. Write(t, <<>>, n, NEED_RESEED) => Some
    <3>1. Write(t, <<>>, n, NEED_RESEED) => Wrote(<<>>, n, NEED_RESEED)
      BY <2>2
    <3> HIDE DEF Wrote, n
    <3> QED
      BY <1>0, <1>6, <3>1
  <2>5. Some
    BY <2>1, <2>3, <2>4
  <2> QED
    BY <1>0, <2>5, WriteControl
<1> QED
  BY <1>7, <1>8, <1>9

-----------------------------------------------------------------------------
(* Data. *)

\* The generators' states and the output stay, and no generator becomes usable.
LEMMA StillData ==
  ASSUME DataTypes, ~starved => Data /\ ProcessesDiffer, starved => starved',
         UNCHANGED <<drbg, buf, pos, entropies, output>>,
         \A p \in Processes : Live(p)' => Live(p),
         \A p \in Processes : init[p] = OK => init'[p] = OK
  PROVE  DataTypes' /\ (~starved' => Data' /\ ProcessesDiffer')
<1>1. DataTypes'
  BY DEF DataTypes
<1>2. ASSUME ~starved' PROVE Data' /\ ProcessesDiffer'
  <2>1. Data /\ ProcessesDiffer
    BY <1>2
  <2>2. ProcessesDiffer'
    BY <2>1 DEF ProcessesDiffer
  <2>3. \A p \in Processes : OutputOf(p)' <=> OutputOf(p)
    BY DEF OutputOf
  <2>4. \A p \in Processes : CacheOf(p)' <=> CacheOf(p)
    BY DEF CacheOf
  <2>5. Data'
    BY <2>1, <2>3, <2>4 DEF Data
  <2> QED
    BY <2>2, <2>5
<1> QED
  BY <1>1, <1>2

\* A generator is seeded with entropy of its own, its cache is empty.
LEMMA SeededData ==
  ASSUME DataTypes, ~starved => Data /\ ProcessesDiffer, starved => starved',
         NEW p \in Processes, Seeded(p), UNCHANGED <<buf, output>>,
         pos' = [pos EXCEPT ![p] = CacheSize],
         \A q \in Processes \ {p} : Live(q)' => Live(q),
         \A q \in Processes : init[q] = OK => init'[q] = OK
  PROVE  DataTypes' /\ (~starved' => Data' /\ ProcessesDiffer')
<1>0. /\ entropies \in Nat /\ drbg \in [Processes -> State] /\ pos \in [Processes -> 0 .. CacheSize]
      /\ entropies' = entropies + 1 /\ CacheSize \in Nat
      /\ drbg' = [drbg EXCEPT ![p] = [seed |-> entropies + 1, made |-> 0, counter |-> 1]]
  BY Basics DEF DataTypes, Seeded
<1> DEFINE new == [seed |-> entropies + 1, made |-> 0, counter |-> 1]
<1>1. new \in State /\ new.seed = entropies + 1 /\ new.made = 0
  BY <1>0 DEF State
<1>2. /\ drbg' \in [Processes -> State] /\ drbg'[p].seed = entropies + 1
      /\ \A q \in Processes \ {p} : drbg'[q] = drbg[q]
  BY <1>0, <1>1
<1>3. /\ pos' \in [Processes -> 0 .. CacheSize] /\ pos'[p] = CacheSize
      /\ \A q \in Processes \ {p} : pos'[q] = pos[q]
  BY <1>0
<1>4. DataTypes'
  BY <1>0, <1>2, <1>3 DEF DataTypes
<1>5. ASSUME ~starved' PROVE Data' /\ ProcessesDiffer'
  <2>1. Data /\ ProcessesDiffer
    BY <1>5
  <2>2. ProcessesDiffer'
    BY <2>1 DEF ProcessesDiffer
  <2>3. \A q \in Processes : drbg[q].seed \in Nat /\ drbg[q].seed <= entropies
    BY <1>0, <2>1 DEF Data, State
  <2>4. \A q \in Processes : drbg'[q].seed <= entropies'
    BY <1>0, <1>2, <2>3
  <2>5. \A j \in DOMAIN output : output[j] \in Unit /\ output[j][1] \in Nat
                                 /\ output[j][1] <= entropies
    <3>1. \A j \in DOMAIN output : output[j] \in Unit
      BY ElementOfSeq, LenProperties DEF DataTypes
    <3> QED
      BY <2>1, <3>1 DEF Unit, Data
  <2>6. \A j \in DOMAIN output' : output'[j][1] <= entropies'
    BY <1>0, <2>5
  <2>7. OutputOf(p)'
    BY <1>0, <1>2, <2>5 DEF OutputOf
  <2>8. CacheOf(p)'
    BY <1>0, <1>3 DEF CacheOf, Slots
  <2>9. \A q \in Processes \ {p} : (OutputOf(q)' <=> OutputOf(q)) /\ (CacheOf(q)' <=> CacheOf(q))
    BY <1>2, <1>3 DEF OutputOf, CacheOf
  <2>10. \A q \in Processes \ {p} : drbg'[q].seed # drbg'[p].seed
    BY <1>0, <1>2, <2>3
  <2>11. \A q \in Processes : init'[q] # OK => pos'[q] = CacheSize
    BY <1>3, <2>1 DEF Data
  <2>12. ASSUME NEW q \in Processes, Live(q)'
         PROVE  /\ drbg'[q].seed >= 1 /\ OutputOf(q)' /\ CacheOf(q)'
                /\ \A r \in Processes \ {q} : drbg'[r].seed # drbg'[q].seed
    <3>1. CASE q = p
      BY <1>0, <1>2, <2>7, <2>8, <2>10, <3>1
    <3>2. CASE q # p
      <4>1. Live(q)
        BY <2>12, <3>2
      <4>2. /\ drbg[q].seed >= 1 /\ OutputOf(q) /\ CacheOf(q)
            /\ \A r \in Processes \ {q} : drbg[r].seed # drbg[q].seed
        BY <2>1, <4>1 DEF Data
      <4> QED
        BY <1>2, <2>9, <2>10, <3>2, <4>2
    <3> QED
      BY <3>1, <3>2
  <2>13. Data'
    BY <2>4, <2>6, <2>11, <2>12 DEF Data
  <2> QED
    BY <2>2, <2>13
<1> QED
  BY <1>4, <1>5

\* The child's generator is the parent's, and neither is usable.
LEMMA ForkData ==
  ASSUME Control, DataTypes, ~starved => Data /\ ProcessesDiffer, NEW t \in Actors, Fork(t)
  PROVE  DataTypes' /\ (~starved' => Data' /\ ProcessesDiffer')
<1>0. {"parent", "child"} = Processes
  BY Basics
<1>1. ~Live("parent")
  BY DEF Control, ControlOf, Fork, Live
<1>2. /\ output' = output /\ entropies' = entropies /\ starved' = starved
      /\ init' = [init EXCEPT !["child"] = init["parent"]]
      /\ status' = [status EXCEPT !["child"] = status["parent"]]
      /\ drbg' = [drbg EXCEPT !["child"] = drbg["parent"]]
      /\ buf' = [buf EXCEPT !["child"] = buf["parent"]]
      /\ pos' = [pos EXCEPT !["child"] = pos["parent"]]
  BY DEF Fork
<1>3. DataTypes'
  BY <1>0, <1>2 DEF DataTypes
<1>4. \A p \in Processes : ~Live(p)'
  BY <1>0, <1>1, <1>2 DEF Control, ControlTypes, Live
<1>5. /\ \A p \in Processes : drbg'[p] = drbg["parent"] /\ pos'[p] = pos["parent"]
                              /\ init'[p] = init["parent"]
  BY <1>0, <1>2 DEF Control, ControlTypes, DataTypes
<1>6. ASSUME ~starved' PROVE Data' /\ ProcessesDiffer'
  <2>1. Data /\ ProcessesDiffer
    BY <1>2, <1>6
  <2> QED
    BY <1>0, <1>2, <1>4, <1>5, <2>1 DEF Data, ProcessesDiffer
<1> QED
  BY <1>3, <1>6

\* Where an element of a concatenation comes from.
LEMMA ConcatElement ==
  ASSUME NEW s \in Seq(Unit), NEW u \in Seq(Unit), NEW j \in DOMAIN (s \o u)
  PROVE  \/ j \in DOMAIN s /\ (s \o u)[j] = s[j]
         \/ j - Len(s) \in DOMAIN u /\ j \notin DOMAIN s /\ (s \o u)[j] = u[j - Len(s)]
<1>1. /\ s \o u \in Seq(Unit) /\ Len(s \o u) = Len(s) + Len(u)
      /\ \A i \in 1 .. Len(s) + Len(u) :
           (s \o u)[i] = IF i <= Len(s) THEN s[i] ELSE u[i - Len(s)]
  BY ConcatProperties
<1>2. /\ DOMAIN s = 1 .. Len(s) /\ DOMAIN u = 1 .. Len(u) /\ Len(s) \in Nat /\ Len(u) \in Nat
      /\ DOMAIN (s \o u) = 1 .. Len(s \o u)
  BY <1>1, LenProperties
<1> QED
  BY <1>1, <1>2

\* Units that are pairwise different, and none cleared.
Distinct(s) == \A i, j \in DOMAIN s : s[i] # Cleared /\ (i # j => s[i] # s[j])

LEMMA ConcatDistinct ==
  ASSUME NEW s \in Seq(Unit), NEW u \in Seq(Unit), Distinct(s), Distinct(u),
         \A i \in DOMAIN s, k \in DOMAIN u : s[i] # u[k]
  PROVE  Distinct(s \o u)
<1> SUFFICES ASSUME NEW i \in DOMAIN (s \o u), NEW j \in DOMAIN (s \o u)
             PROVE  (s \o u)[i] # Cleared /\ (i # j => (s \o u)[i] # (s \o u)[j])
  BY DEF Distinct
<1>1. Len(s) \in Nat /\ DOMAIN (s \o u) \subseteq Nat
  BY ConcatProperties, LenProperties
<1> QED
  BY ConcatElement, <1>1 DEF Distinct

\* Units of p, new to the output, are written.
LEMMA AddUnits ==
  ASSUME DataTypes, Data, ProcessesDiffer, NEW p \in Processes, Live(p),
         NEW u \in Seq(Unit), output' = output \o u,
         UNCHANGED <<entropies, init, status>>,
         drbg' \in [Processes -> State], buf' \in [Processes -> [Slots -> Unit]],
         pos' \in [Processes -> 0 .. CacheSize],
         drbg'[p].seed = drbg[p].seed, drbg[p].made <= drbg'[p].made,
         \A q \in Processes \ {p} : drbg'[q] = drbg[q] /\ buf'[q] = buf[q] /\ pos'[q] = pos[q],
         Distinct(u),
         \A k \in DOMAIN u : u[k][1] = drbg[p].seed /\ u[k][2] <= drbg'[p].made,
         \A j \in DOMAIN output, k \in DOMAIN u : output[j] # u[k],
         \A i \in Slots : pos'[p] <= i =>
           /\ buf'[p][i][1] = drbg[p].seed
           /\ buf'[p][i][2] >= 1 /\ buf'[p][i][2] <= drbg'[p].made
           /\ \A j \in DOMAIN output : output[j] # buf'[p][i]
           /\ \A k \in DOMAIN u : u[k] # buf'[p][i],
         \A i, k \in Slots : pos'[p] <= i /\ pos'[p] <= k /\ i # k => buf'[p][i] # buf'[p][k]
  PROVE  DataTypes' /\ Data' /\ ProcessesDiffer'
<1>1. output \in Seq(Unit) /\ output' \in Seq(Unit)
  BY ConcatProperties DEF DataTypes
<1>2. \A j \in DOMAIN output' :
        \/ j \in DOMAIN output /\ output'[j] = output[j]
        \/ \E k \in DOMAIN u : output'[j] = u[k]
  <2> TAKE j \in DOMAIN output'
  <2>1. \/ j \in DOMAIN output /\ output'[j] = output[j]
        \/ j - Len(output) \in DOMAIN u /\ output'[j] = u[j - Len(output)]
    BY <1>1, ConcatElement
  <2> QED
    BY <2>1
<1>3. ProcessesDiffer'
  <2>1. Distinct(output)
    BY DEF ProcessesDiffer, Distinct
  <2>2. Distinct(output \o u)
    BY <1>1, <2>1, ConcatDistinct
  <2> QED
    BY <2>2 DEF ProcessesDiffer, Distinct
<1>4. DataTypes'
  BY <1>1 DEF DataTypes
<1>5. /\ \A q \in Processes : Live(q)' <=> Live(q)
      /\ \A q \in Processes : drbg'[q].seed = drbg[q].seed
  BY DEF Live
<1>6. drbg[p].made \in Nat /\ drbg'[p].made \in Nat
  BY DEF DataTypes, State
<1>7. \A j \in DOMAIN output : output[j] \in Unit /\ output[j][2] \in Nat
  <2>1. \A j \in DOMAIN output : output[j] \in Unit
    BY <1>1, ElementOfSeq, LenProperties
  <2> QED
    BY <2>1 DEF Unit
<1>8. OutputOf(p)'
  <2>1. \A j \in DOMAIN output : output[j][1] = drbg[p].seed => output[j][2] <= drbg[p].made
    BY DEF Data, OutputOf
  <2>2. \A j \in DOMAIN output : output[j][1] = drbg[p].seed => output[j][2] <= drbg'[p].made
    BY <1>6, <1>7, <2>1
  <2>3. \A j \in DOMAIN output' :
          output'[j][1] = drbg'[p].seed => output'[j][2] <= drbg'[p].made
    BY <1>2, <2>2
  <2> QED
    BY <2>3 DEF OutputOf
<1>9. CacheOf(p)'
  <2>1. ASSUME NEW i \in Slots, pos'[p] <= i
        PROVE  \A j \in DOMAIN output' : output'[j] # buf'[p][i]
    BY <1>2, <2>1
  <2> QED
    BY <1>5, <2>1 DEF CacheOf
<1>10. ASSUME NEW q \in Processes \ {p}, Live(q)
       PROVE  OutputOf(q)' /\ CacheOf(q)'
  <2>1. OutputOf(q) /\ CacheOf(q) /\ drbg[p].seed # drbg[q].seed
    BY <1>10 DEF Data
  <2>2. drbg'[q] = drbg[q] /\ buf'[q] = buf[q] /\ pos'[q] = pos[q]
    OBVIOUS
  <2>3. OutputOf(q)'
    <3>1. \A j \in DOMAIN output : output[j][1] = drbg[q].seed => output[j][2] <= drbg[q].made
      BY <2>1 DEF OutputOf
    <3>2. \A k \in DOMAIN u : u[k][1] # drbg[q].seed
      BY <2>1
    <3>3. \A j \in DOMAIN output' :
            output'[j][1] = drbg[q].seed => output'[j][2] <= drbg[q].made
      <4> TAKE j \in DOMAIN output'
      <4>1. CASE j \in DOMAIN output /\ output'[j] = output[j]
        BY <3>1, <4>1
      <4>2. CASE \E k \in DOMAIN u : output'[j] = u[k]
        BY <3>2, <4>2
      <4> QED
        BY <1>2, <4>1, <4>2
    <3> QED
      BY <2>2, <3>3 DEF OutputOf
  <2>4. ASSUME NEW i \in Slots, pos[q] <= i
        PROVE  \A j \in DOMAIN output' : output'[j] # buf[q][i]
    <3>1. buf[q][i][1] = drbg[q].seed /\ \A j \in DOMAIN output : output[j] # buf[q][i]
      BY <2>1, <2>4 DEF CacheOf
    <3>2. \A k \in DOMAIN u : u[k] # buf[q][i]
      BY <2>1, <3>1
    <3> QED
      BY <1>2, <3>1, <3>2
  <2>5. CacheOf(q)'
    BY <2>1, <2>2, <2>4 DEF CacheOf
  <2> QED
    BY <2>3, <2>5
<1>11. \A j \in DOMAIN output' : output'[j][1] <= entropies'
  <2>1. drbg[p].seed <= entropies /\ \A j \in DOMAIN output : output[j][1] <= entropies
    BY DEF Data
  <2> QED
    BY <1>2, <2>1
<1>12. /\ \A q \in Processes : drbg'[q].seed <= entropies'
       /\ \A q \in Processes : init'[q] # OK => pos'[q] = CacheSize
  BY <1>5 DEF Data, Live
<1>13. ASSUME NEW q \in Processes, Live(q)'
       PROVE  /\ drbg'[q].seed >= 1 /\ OutputOf(q)' /\ CacheOf(q)'
              /\ \A r \in Processes \ {q} : drbg'[r].seed # drbg'[q].seed
  <2>1. Live(q) /\ drbg[q].seed >= 1 /\ \A r \in Processes \ {q} : drbg[r].seed # drbg[q].seed
    BY <1>5, <1>13 DEF Data
  <2> QED
    BY <1>5, <1>8, <1>9, <1>10, <2>1
<1>14. Data'
  BY <1>11, <1>12, <1>13 DEF Data
<1> QED
  BY <1>3, <1>4, <1>14

\* The units of a live cache.
LEMMA CachedUnits ==
  ASSUME DataTypes, Data, NEW p \in Processes, Live(p), NEW n \in Nat
  PROVE  /\ Taken(p, n) \in Seq(Unit) /\ Distinct(Taken(p, n))
         /\ \A k \in DOMAIN Taken(p, n) :
              /\ Taken(p, n)[k][1] = drbg[p].seed /\ Taken(p, n)[k][2] <= drbg[p].made
              /\ Taken(p, n)[k][2] >= 1
              /\ \A j \in DOMAIN output : output[j] # Taken(p, n)[k]
              /\ \A i \in Slots : pos[p] + Take(p, n) <= i => Taken(p, n)[k] # buf[p][i]
<1>1. /\ DOMAIN Taken(p, n) = 1 .. Take(p, n) /\ Taken(p, n) \in Seq(Unit)
      /\ \A k \in 1 .. Take(p, n) :
           pos[p] + k - 1 \in Slots /\ Taken(p, n)[k] = buf[p][pos[p] + k - 1]
      /\ Take(p, n) \in Nat
  BY UnitsWritten
<1>2. pos[p] \in Nat /\ CacheSize \in Nat
  BY Basics DEF DataTypes
<1>3. \A k \in 1 .. Take(p, n) : /\ pos[p] <= pos[p] + k - 1
                                 /\ pos[p] + k - 1 < pos[p] + Take(p, n)
  BY <1>1, <1>2
<1>4. CacheOf(p)
  BY DEF Data
<1>5. \A i \in Slots : pos[p] <= i =>
        /\ buf[p][i][1] = drbg[p].seed
        /\ buf[p][i][2] >= 1 /\ buf[p][i][2] <= drbg[p].made
        /\ \A j \in DOMAIN output : output[j] # buf[p][i]
        /\ buf[p][i] # Cleared
  BY <1>4 DEF CacheOf, Cleared
<1>6. \A i, k \in Slots : pos[p] <= i /\ pos[p] <= k /\ i # k => buf[p][i] # buf[p][k]
  BY <1>4 DEF CacheOf
<1>7. Distinct(Taken(p, n))
  <2>1. \A k, l \in 1 .. Take(p, n) : k # l => pos[p] + k - 1 # pos[p] + l - 1
    BY <1>2
  <2> QED
    BY <1>1, <1>3, <1>5, <1>6, <2>1 DEF Distinct
<1>8. \A k \in 1 .. Take(p, n), i \in Slots :
        pos[p] + Take(p, n) <= i => Taken(p, n)[k] # buf[p][i]
  <2> TAKE k \in 1 .. Take(p, n), i \in Slots
  <2> HAVE pos[p] + Take(p, n) <= i
  <2>1. i \in Int /\ pos[p] + k - 1 # i /\ pos[p] <= i /\ pos[p] <= pos[p] + k - 1
    BY <1>1, <1>2, <1>3 DEF Slots
  <2> QED
    BY <1>1, <1>6, <2>1
<1> QED
  BY <1>1, <1>3, <1>5, <1>7, <1>8

\* The units the DRBG of a live process makes next.
LEMMA FreshUnits ==
  ASSUME DataTypes, Data, NEW p \in Processes, Live(p), NEW n \in Nat
  PROVE  /\ Fresh(p, n) \in Seq(Unit) /\ Distinct(Fresh(p, n)) /\ DOMAIN Fresh(p, n) = 1 .. n
         /\ \A k \in DOMAIN Fresh(p, n) :
              /\ Fresh(p, n)[k] = <<drbg[p].seed, drbg[p].made + k>>
              /\ Fresh(p, n)[k][1] = drbg[p].seed
              /\ Fresh(p, n)[k][2] <= drbg[p].made + n /\ Fresh(p, n)[k][2] > drbg[p].made
              /\ Fresh(p, n)[k][2] \in Nat
              /\ \A j \in DOMAIN output : output[j] # Fresh(p, n)[k]
<1>1. /\ Fresh(p, n) \in Seq(Unit) /\ DOMAIN Fresh(p, n) = 1 .. n
      /\ \A k \in 1 .. n : Fresh(p, n)[k] = <<drbg[p].seed, drbg[p].made + k>>
  BY UnitsWritten
<1>2. drbg[p].made \in Nat /\ drbg[p].seed \in Nat
  BY DEF DataTypes, State
<1>3. drbg[p].seed >= 1 /\ OutputOf(p)
  BY DEF Data
<1>4. \A k \in 1 .. n : /\ drbg[p].made + k <= drbg[p].made + n
                        /\ drbg[p].made + k > drbg[p].made /\ drbg[p].made + k \in Nat
  BY <1>2
<1>5. \A k \in 1 .. n : Fresh(p, n)[k] # Cleared
  BY <1>1, <1>2, <1>3 DEF Cleared
<1>6. \A k, l \in 1 .. n : k # l => Fresh(p, n)[k] # Fresh(p, n)[l]
  <2>1. \A k, l \in 1 .. n : k # l => drbg[p].made + k # drbg[p].made + l
    BY <1>2
  <2> QED
    BY <1>1, <2>1
<1>7. \A k \in 1 .. n, j \in DOMAIN output : output[j] # Fresh(p, n)[k]
  <2> TAKE k \in 1 .. n, j \in DOMAIN output
  <2>1. output[j][1] = drbg[p].seed => output[j][2] <= drbg[p].made
    BY <1>3 DEF OutputOf
  <2>2. Fresh(p, n)[k][1] = drbg[p].seed /\ Fresh(p, n)[k][2] = drbg[p].made + k
    BY <1>1
  <2>3. ~(drbg[p].made + k <= drbg[p].made)
    BY <1>2
  <2> QED
    BY <2>1, <2>2, <2>3
<1> QED
  BY <1>1, <1>4, <1>5, <1>6, <1>7 DEF Distinct

\* A request served by the cache alone, whole or in part: u of the slots before the
\* new position are given out, those after it stay.
LEMMA HitData ==
  ASSUME DataTypes, Data, ProcessesDiffer, NEW p \in Processes, Live(p), NEW n \in Nat,
         NEW position \in 0 .. CacheSize, pos[p] + Take(p, n) <= position,
         output' = output \o Taken(p, n),
         SetCache(p, AfterTake(p, n), position),
         UNCHANGED <<drbg, entropies, init, status>>
  PROVE  DataTypes' /\ Data' /\ ProcessesDiffer'
<1> DEFINE u == Taken(p, n)
<1>0. /\ buf \in [Processes -> [Slots -> Unit]] /\ pos \in [Processes -> 0 .. CacheSize]
      /\ drbg' = drbg /\ drbg \in [Processes -> State] /\ CacheSize \in Nat
      /\ Take(p, n) \in Nat /\ pos[p] \in Nat /\ position \in Nat
  <2>1. CacheSize \in Nat /\ DataTypes
    BY Basics
  <2>2. Take(p, n) \in Nat
    BY UnitsWritten
  <2> QED
    BY <2>1, <2>2 DEF DataTypes
<1>1. AfterTake(p, n) \in [Slots -> Unit]
  BY <1>0 DEF AfterTake, Cleared, Unit
<1>2. /\ buf' = [buf EXCEPT ![p] = AfterTake(p, n)] /\ pos' = [pos EXCEPT ![p] = position]
  BY DEF SetCache
<1>3. /\ buf' \in [Processes -> [Slots -> Unit]] /\ buf'[p] = AfterTake(p, n)
      /\ pos' \in [Processes -> 0 .. CacheSize] /\ pos'[p] = position
      /\ \A q \in Processes \ {p} : drbg'[q] = drbg[q] /\ buf'[q] = buf[q] /\ pos'[q] = pos[q]
  BY <1>0, <1>1, <1>2
<1>4. \A i \in Slots : position <= i =>
        /\ pos[p] <= i /\ pos[p] + Take(p, n) <= i /\ AfterTake(p, n)[i] = buf[p][i]
  <2> TAKE i \in Slots
  <2> HAVE position <= i
  <2>1. i \in Nat
    BY <1>0 DEF Slots
  <2>2. pos[p] <= i /\ pos[p] + Take(p, n) <= i /\ ~(i < pos[p] + Take(p, n))
    BY <1>0, <2>1
  <2> QED
    BY <2>2 DEF AfterTake
<1>5. CacheOf(p)
  BY DEF Data
<1>6. /\ u \in Seq(Unit) /\ Distinct(u)
      /\ \A k \in DOMAIN u :
           /\ u[k][1] = drbg[p].seed /\ u[k][2] <= drbg[p].made
           /\ \A j \in DOMAIN output : output[j] # u[k]
           /\ \A i \in Slots : pos[p] + Take(p, n) <= i => u[k] # buf[p][i]
  BY CachedUnits
<1> HIDE DEF u
<1>7. \A i \in Slots : pos'[p] <= i =>
           /\ buf'[p][i][1] = drbg[p].seed
           /\ buf'[p][i][2] >= 1 /\ buf'[p][i][2] <= drbg'[p].made
           /\ \A j \in DOMAIN output : output[j] # buf'[p][i]
           /\ \A k \in DOMAIN u : u[k] # buf'[p][i]
  BY <1>0, <1>3, <1>4, <1>5, <1>6 DEF CacheOf
<1>8. \A i, k \in Slots : pos'[p] <= i /\ pos'[p] <= k /\ i # k => buf'[p][i] # buf'[p][k]
  BY <1>3, <1>4, <1>5 DEF CacheOf
<1>9. /\ drbg'[p].seed = drbg[p].seed /\ drbg[p].made <= drbg'[p].made
      /\ drbg' \in [Processes -> State]
  <2>1. drbg[p].made \in Nat
    BY <1>0 DEF State
  <2> QED
    BY <1>0, <2>1
<1>10. output' = output \o u /\ UNCHANGED <<entropies, init, status>>
  BY DEF u
<1>11. /\ \A k \in DOMAIN u : u[k][1] = drbg[p].seed /\ u[k][2] <= drbg'[p].made
       /\ \A j \in DOMAIN output, k \in DOMAIN u : output[j] # u[k]
  BY <1>0, <1>6
<1> QED
  BY <1>3, <1>6, <1>7, <1>8, <1>9, <1>10, <1>11, AddUnits

\* The state of the DRBG after it made n units.
LEMMA Made ==
  ASSUME DataTypes, NEW p \in Processes, NEW n \in Nat, DrbgMakes(p, n)
  PROVE  /\ drbg' \in [Processes -> State]
         /\ drbg'[p].seed = drbg[p].seed /\ drbg'[p].made = drbg[p].made + n
         /\ drbg[p].made \in Nat /\ drbg[p].made <= drbg'[p].made
         /\ \A q \in Processes \ {p} : drbg'[q] = drbg[q]
<1> DEFINE d == [seed |-> drbg[p].seed, made |-> drbg[p].made + n,
                 counter |-> drbg[p].counter + 1]
<1>1. drbg[p].seed \in Nat /\ drbg[p].made \in Nat /\ drbg[p].counter \in Nat
  BY DEF DataTypes, State
<1>2. d \in State /\ d.seed = drbg[p].seed /\ d.made = drbg[p].made + n
  BY <1>1 DEF State
<1>3. drbg' = [drbg EXCEPT ![p] = d]
  BY DEF DrbgMakes
<1> HIDE DEF d
<1>4. drbg' \in [Processes -> State] /\ drbg'[p] = d
      /\ \A q \in Processes \ {p} : drbg'[q] = drbg[q]
  BY <1>2, <1>3 DEF DataTypes
<1> QED
  BY <1>1, <1>2, <1>4

\* A chunk straight from the DRBG.
LEMMA ChunkData ==
  ASSUME DataTypes, Data, ProcessesDiffer, NEW p \in Processes, Live(p), NEW n \in Nat,
         DrbgMakes(p, n), output' = output \o Fresh(p, n),
         UNCHANGED <<buf, pos, entropies, init, status>>
  PROVE  DataTypes' /\ Data' /\ ProcessesDiffer'
<1> DEFINE u == Fresh(p, n)
<1>1. /\ drbg' \in [Processes -> State]
      /\ drbg'[p].seed = drbg[p].seed /\ drbg'[p].made = drbg[p].made + n
      /\ drbg[p].made \in Nat /\ drbg[p].made <= drbg'[p].made
      /\ \A q \in Processes \ {p} : drbg'[q] = drbg[q]
  BY Made
<1>2. /\ u \in Seq(Unit) /\ Distinct(u)
      /\ \A k \in DOMAIN u : /\ u[k][1] = drbg[p].seed /\ u[k][2] <= drbg[p].made + n
                             /\ u[k][2] > drbg[p].made /\ u[k][2] \in Nat
                             /\ \A j \in DOMAIN output : output[j] # u[k]
  BY FreshUnits
<1> HIDE DEF u
<1>3. /\ buf' = buf /\ pos' = pos
      /\ buf \in [Processes -> [Slots -> Unit]] /\ pos \in [Processes -> 0 .. CacheSize]
  BY DEF DataTypes
<1>4. CacheOf(p)
  BY DEF Data
<1>5. \A i \in Slots : buf[p][i][2] \in Nat
  BY <1>3 DEF Unit
<1>6. \A i \in Slots : pos'[p] <= i =>
           /\ buf'[p][i][1] = drbg[p].seed
           /\ buf'[p][i][2] >= 1 /\ buf'[p][i][2] <= drbg'[p].made
           /\ \A j \in DOMAIN output : output[j] # buf'[p][i]
           /\ \A k \in DOMAIN u : u[k] # buf'[p][i]
  <2> TAKE i \in Slots
  <2> HAVE pos'[p] <= i
  <2>1. /\ buf[p][i][1] = drbg[p].seed
        /\ buf[p][i][2] >= 1 /\ buf[p][i][2] <= drbg[p].made
        /\ \A j \in DOMAIN output : output[j] # buf[p][i]
    BY <1>3, <1>4 DEF CacheOf
  <2>2. \A k \in DOMAIN u : u[k] # buf[p][i]
    <3> SUFFICES ASSUME NEW k \in DOMAIN u, u[k] = buf[p][i] PROVE FALSE
      OBVIOUS
    <3>1. u[k][2] <= drbg[p].made /\ u[k][2] > drbg[p].made /\ u[k][2] \in Nat
      BY <1>2, <2>1
    <3> QED
      BY <1>1, <3>1
  <2>3. buf[p][i][2] <= drbg'[p].made
    BY <1>1, <1>5, <2>1
  <2> QED
    BY <1>3, <2>1, <2>2, <2>3
<1>7. \A i, k \in Slots : pos'[p] <= i /\ pos'[p] <= k /\ i # k => buf'[p][i] # buf'[p][k]
  BY <1>3, <1>4 DEF CacheOf
<1>8. output' = output \o u /\ UNCHANGED <<entropies, init, status>>
  BY DEF u
<1>9. /\ \A k \in DOMAIN u : u[k][1] = drbg[p].seed /\ u[k][2] <= drbg'[p].made
      /\ \A j \in DOMAIN output, k \in DOMAIN u : output[j] # u[k]
  BY <1>1, <1>2
<1>10. /\ \A q \in Processes \ {p} : drbg'[q] = drbg[q] /\ buf'[q] = buf[q] /\ pos'[q] = pos[q]
       /\ buf' \in [Processes -> [Slots -> Unit]] /\ pos' \in [Processes -> 0 .. CacheSize]
  BY <1>1, <1>3
<1> QED
  BY <1>1, <1>2, <1>6, <1>7, <1>8, <1>9, <1>10, AddUnits

\* The cache runs out and is filled again: r units of the new ones are given out.
LEMMA RefillData ==
  ASSUME DataTypes, Data, ProcessesDiffer, NEW p \in Processes, Live(p), NEW n \in Nat,
         NEW r \in 0 .. CacheSize, DrbgMakes(p, CacheSize),
         output' = output \o (Taken(p, n) \o Fresh(p, r)),
         SetCache(p, Refilled(p, r), r), UNCHANGED <<entropies, init, status>>
  PROVE  DataTypes' /\ Data' /\ ProcessesDiffer'
<1> DEFINE v == Taken(p, n)
           w == Fresh(p, r)
           u == v \o w
           made == drbg[p].made
<1>0. /\ CacheSize \in Nat /\ r \in Nat /\ r <= CacheSize
      /\ buf \in [Processes -> [Slots -> Unit]] /\ pos \in [Processes -> 0 .. CacheSize]
  BY Basics DEF DataTypes
<1>1. /\ drbg' \in [Processes -> State]
      /\ drbg'[p].seed = drbg[p].seed /\ drbg'[p].made = made + CacheSize
      /\ made \in Nat /\ made <= drbg'[p].made
      /\ \A q \in Processes \ {p} : drbg'[q] = drbg[q]
  BY <1>0, Made
<1>2. /\ v \in Seq(Unit) /\ Distinct(v)
      /\ \A k \in DOMAIN v : /\ v[k][1] = drbg[p].seed /\ v[k][2] <= made
                             /\ \A j \in DOMAIN output : output[j] # v[k]
  BY CachedUnits
<1>3. /\ w \in Seq(Unit) /\ Distinct(w)
      /\ \A k \in DOMAIN w : /\ w[k][1] = drbg[p].seed
                             /\ w[k][2] <= made + r /\ w[k][2] > made
                             /\ \A j \in DOMAIN output : output[j] # w[k]
  BY <1>0, FreshUnits
<1>4. Refilled(p, r) = [i \in Slots |-> IF i < r THEN Cleared
                                        ELSE <<drbg[p].seed, made + (i + 1)>>]
  <2>1. \A i \in Slots : i + 1 \in 1 .. CacheSize
    BY <1>0 DEF Slots
  <2>2. \A k \in 1 .. CacheSize : Fresh(p, CacheSize)[k] = <<drbg[p].seed, made + k>>
    BY <1>0, UnitsWritten
  <2>3. \A i \in Slots : Fresh(p, CacheSize)[i + 1] = <<drbg[p].seed, made + (i + 1)>>
    BY <2>1, <2>2
  <2> QED
    BY <2>3 DEF Refilled
<1> HIDE DEF v, w, made
<1>5. v \in Seq(Unit) /\ w \in Seq(Unit) /\ u \in Seq(Unit)
  BY <1>2, <1>3, ConcatProperties
<1>6. \A k \in DOMAIN v : v[k] \in Unit /\ v[k][2] \in Nat
  <2>1. \A k \in DOMAIN v : v[k] \in Unit
    BY <1>5, ElementOfSeq, LenProperties
  <2> QED
    BY <2>1 DEF Unit
<1>7. \A k \in DOMAIN w : w[k] \in Unit /\ w[k][2] \in Nat
  <2>1. \A k \in DOMAIN w : w[k] \in Unit
    BY <1>5, ElementOfSeq, LenProperties
  <2> QED
    BY <2>1 DEF Unit
<1>8. \A k \in DOMAIN v, l \in DOMAIN w : v[k] # w[l]
  <2> SUFFICES ASSUME NEW k \in DOMAIN v, NEW l \in DOMAIN w, v[k] = w[l] PROVE FALSE
    OBVIOUS
  <2>1. v[k][2] <= made /\ v[k][2] > made /\ v[k][2] \in Nat
    BY <1>2, <1>3, <1>6
  <2> QED
    BY <1>1, <2>1
<1>9. Distinct(u)
  BY <1>2, <1>3, <1>8, ConcatDistinct
<1>10. \A k \in DOMAIN u : \/ \E l \in DOMAIN v : u[k] = v[l]
                           \/ \E l \in DOMAIN w : u[k] = w[l]
  <2> TAKE k \in DOMAIN u
  <2>1. \/ k \in DOMAIN v /\ u[k] = v[k]
        \/ k - Len(v) \in DOMAIN w /\ u[k] = w[k - Len(v)]
    BY <1>5, ConcatElement
  <2> QED
    BY <2>1
<1> HIDE DEF u
<1>11. \A k \in DOMAIN u : u[k][1] = drbg[p].seed /\ u[k][2] <= made + r
  <2> TAKE k \in DOMAIN u
  <2>1. CASE \E l \in DOMAIN v : u[k] = v[l]
    <3>1. u[k][1] = drbg[p].seed /\ u[k][2] <= made /\ u[k][2] \in Nat
      BY <1>2, <1>6, <2>1
    <3> QED
      BY <1>0, <1>1, <3>1
  <2>2. CASE \E l \in DOMAIN w : u[k] = w[l]
    BY <1>3, <2>2
  <2> QED
    BY <1>10, <2>1, <2>2
<1>12. \A k \in DOMAIN u : u[k][2] \in Nat
  BY <1>6, <1>7, <1>10
<1>13. /\ \A k \in DOMAIN u : u[k][1] = drbg[p].seed /\ u[k][2] <= drbg'[p].made
       /\ \A j \in DOMAIN output, k \in DOMAIN u : output[j] # u[k]
  <2>1. \A k \in DOMAIN u : u[k][2] <= drbg'[p].made
    BY <1>0, <1>1, <1>11, <1>12
  <2>2. \A j \in DOMAIN output, k \in DOMAIN u : output[j] # u[k]
    BY <1>2, <1>3, <1>10
  <2> QED
    BY <1>11, <2>1, <2>2
<1>14. /\ buf' = [buf EXCEPT ![p] = Refilled(p, r)] /\ pos' = [pos EXCEPT ![p] = r]
  BY DEF SetCache
<1>15. drbg[p].seed \in Nat
  BY DEF DataTypes, State
<1>16. \A i \in Slots : i \in Nat /\ i + 1 <= CacheSize /\ made + (i + 1) \in Nat
  BY <1>0, <1>1 DEF Slots
<1>17. Refilled(p, r) \in [Slots -> Unit]
  BY <1>4, <1>15, <1>16 DEF Unit, Cleared
<1>18. /\ buf' \in [Processes -> [Slots -> Unit]] /\ buf'[p] = Refilled(p, r)
       /\ pos' \in [Processes -> 0 .. CacheSize] /\ pos'[p] = r
       /\ \A q \in Processes \ {p} : drbg'[q] = drbg[q] /\ buf'[q] = buf[q] /\ pos'[q] = pos[q]
  BY <1>0, <1>1, <1>14, <1>17
<1>19. \A i \in Slots : pos'[p] <= i => buf'[p][i] = <<drbg[p].seed, made + (i + 1)>>
  <2> TAKE i \in Slots
  <2> HAVE pos'[p] <= i
  <2>1. ~(i < r)
    BY <1>0, <1>16, <1>18
  <2> QED
    BY <1>4, <1>18, <2>1
<1>20. OutputOf(p) /\ \A j \in DOMAIN output : output[j][1] = drbg[p].seed => output[j][2] <= made
  BY DEF Data, OutputOf, made
<1>21. \A i \in Slots : pos'[p] <= i =>
           /\ buf'[p][i][1] = drbg[p].seed
           /\ buf'[p][i][2] >= 1 /\ buf'[p][i][2] <= drbg'[p].made
           /\ \A j \in DOMAIN output : output[j] # buf'[p][i]
           /\ \A k \in DOMAIN u : u[k] # buf'[p][i]
  <2> TAKE i \in Slots
  <2> HAVE pos'[p] <= i
  <2>1. buf'[p][i][1] = drbg[p].seed /\ buf'[p][i][2] = made + (i + 1)
    BY <1>19
  <2>2. /\ made + (i + 1) >= 1 /\ made + (i + 1) <= made + CacheSize
        /\ ~(made + (i + 1) <= made) /\ ~(made + (i + 1) <= made + r)
    BY <1>0, <1>1, <1>16, <1>18
  <2>3. \A j \in DOMAIN output : output[j] # buf'[p][i]
    BY <1>20, <2>1, <2>2
  <2>4. \A k \in DOMAIN u : u[k] # buf'[p][i]
    BY <1>11, <2>1, <2>2
  <2> QED
    BY <1>1, <2>1, <2>2, <2>3, <2>4
<1>22. \A i, k \in Slots : pos'[p] <= i /\ pos'[p] <= k /\ i # k => buf'[p][i] # buf'[p][k]
  <2> TAKE i, k \in Slots
  <2> HAVE pos'[p] <= i /\ pos'[p] <= k /\ i # k
  <2>1. made + (i + 1) # made + (k + 1)
    BY <1>1, <1>16
  <2> QED
    BY <1>19, <2>1
<1>23. output' = output \o u /\ UNCHANGED <<entropies, init, status>>
  BY DEF u, v, w
<1>24. drbg'[p].seed = drbg[p].seed /\ drbg[p].made <= drbg'[p].made
  BY <1>1 DEF made
<1> QED
  BY <1>1, <1>5, <1>9, <1>13, <1>18, <1>21, <1>22, <1>23, <1>24, AddUnits

\* The types of what a step that writes leaves, whatever reseeds failed.
LEMMA WrittenTypes ==
  ASSUME Control, DataTypes, NEW t \in Actors, CacheHit(t) \/ CacheMiss(t) \/ Chunk(t)
  PROVE  DataTypes'
<1> DEFINE p == process(t)
           n == frame[t].nbytes
           rest == n - Take(p, n)
           req_size == Smaller(n, MaxRequest)
<1>0. /\ n \in Nat /\ p \in Processes /\ CacheSize \in Nat /\ req_size \in Nat
      /\ buf \in [Processes -> [Slots -> Unit]] /\ pos \in [Processes -> 0 .. CacheSize]
      /\ drbg \in [Processes -> State] /\ entropies \in Nat /\ output \in Seq(Unit)
  <2>1. n \in Nat /\ p \in Processes /\ CacheSize \in Nat /\ MaxRequest \in Nat
    BY Basics DEF Control, ControlTypes, Frame
  <2> QED
    BY <2>1 DEF DataTypes, Smaller
<1>1. /\ Take(p, n) \in Nat /\ Take(p, n) <= n /\ rest \in Nat
      /\ Take(p, n) <= CacheSize - pos[p] /\ Taken(p, n) \in Seq(Unit)
  BY <1>0, UnitsWritten
<1>2. Fresh(p, rest) \in Seq(Unit) /\ Fresh(p, req_size) \in Seq(Unit)
  BY <1>0, <1>1, UnitsWritten
<1>3. Taken(p, n) \o Fresh(p, rest) \in Seq(Unit) /\ <<>> \in Seq(Unit)
  <2> HIDE DEF n, rest
  <2> QED
    BY <1>1, <1>2, ConcatProperties, EmptySeq
<1>4. AfterTake(p, n) \in [Slots -> Unit]
  BY <1>0 DEF AfterTake, Cleared, Unit
<1>5. Refilled(p, rest) \in [Slots -> Unit]
  <2>1. \A i \in Slots : i + 1 \in 1 .. CacheSize
    BY <1>0 DEF Slots
  <2>2. \A k \in 1 .. CacheSize : Fresh(p, CacheSize)[k] \in Unit
    BY <1>0, UnitsWritten, ElementOfSeq
  <2> QED
    BY <2>1, <2>2 DEF Refilled, Cleared, Unit
<1>6. ASSUME NEW u \in Seq(Unit), output' = output \o u PROVE output' \in Seq(Unit)
  BY <1>0, <1>6, ConcatProperties
<1>7. ASSUME NEW c \in [Slots -> Unit], NEW position \in 0 .. CacheSize, SetCache(p, c, position)
      PROVE  buf' \in [Processes -> [Slots -> Unit]] /\ pos' \in [Processes -> 0 .. CacheSize]
  BY <1>0, <1>7 DEF SetCache
<1>8. CASE CacheHit(t)
  <2>1. /\ SetCache(p, AfterTake(p, n), pos[p] + n) /\ output' = output \o Taken(p, n)
        /\ entropies' = entropies /\ drbg' = drbg /\ n <= CacheSize - pos[p]
    BY <1>8 DEF CacheHit, Write
  <2>2. pos[p] + n \in 0 .. CacheSize
    BY <1>0, <2>1
  <2> QED
    BY <1>0, <1>1, <1>4, <1>6, <1>7, <2>1, <2>2 DEF DataTypes
<1>9. CASE CacheMiss(t)
  <2>1. /\ entropies' = entropies /\ n <= CacheSize
        /\ \/ /\ DrbgMakes(p, CacheSize) /\ SetCache(p, Refilled(p, rest), rest)
              /\ output' = output \o (Taken(p, n) \o Fresh(p, rest))
           \/ /\ SetCache(p, AfterTake(p, n), CacheSize) /\ drbg' = drbg
              /\ output' = output \o Taken(p, n)
    BY <1>9 DEF CacheMiss, Write
  <2>2. rest \in 0 .. CacheSize /\ CacheSize \in 0 .. CacheSize
    BY <1>0, <1>1, <2>1
  <2>3. drbg' \in [Processes -> State]
    BY <1>0, <2>1, Made
  <2>4. output' \in Seq(Unit)
    BY <1>1, <1>3, <1>6, <2>1
  <2>5. buf' \in [Processes -> [Slots -> Unit]] /\ pos' \in [Processes -> 0 .. CacheSize]
    BY <1>4, <1>5, <1>7, <2>1, <2>2
  <2> QED
    BY <1>0, <2>1, <2>3, <2>4, <2>5 DEF DataTypes
<1>10. CASE Chunk(t)
  <2>1. /\ entropies' = entropies /\ buf' = buf /\ pos' = pos
        /\ \/ DrbgMakes(p, req_size) /\ output' = output \o Fresh(p, req_size)
           \/ drbg' = drbg /\ output' = output \o <<>>
    BY <1>10 DEF Chunk, Write
  <2>2. drbg' \in [Processes -> State]
    BY <1>0, <2>1, Made
  <2>3. output' \in Seq(Unit)
    BY <1>2, <1>3, <1>6, <2>1
  <2> QED
    BY <1>0, <2>1, <2>2, <2>3 DEF DataTypes
<1> QED
  BY <1>8, <1>9, <1>10

\* The same for what tells one unit of output from another.
LEMMA WrittenData ==
  ASSUME IInv, NEW t \in Actors, CacheHit(t) \/ CacheMiss(t) \/ Chunk(t)
  PROVE  DataTypes' /\ (~starved' => Data' /\ ProcessesDiffer')
<1> DEFINE p == process(t)
           n == frame[t].nbytes
           rest == n - Take(p, n)
           req_size == Smaller(n, MaxRequest)
<1>0. DataTypes' /\ DataTypes /\ Control
  BY WrittenTypes DEF IInv
<1>1. starved' = starved /\ UNCHANGED <<entropies, init, status>> /\ pc[t] = "generate"
  BY DEF CacheHit, CacheMiss, Chunk, Write
<1>2. SUFFICES ASSUME ~starved PROVE Data' /\ ProcessesDiffer'
  BY <1>0, <1>1
<1>3. Data /\ ProcessesDiffer
  BY <1>2 DEF IInv
<1>4. p \in Processes /\ Live(p) /\ n \in Nat /\ CacheSize \in Nat /\ req_size \in Nat
  <2>1. p \in Processes /\ Live(p) /\ n \in Nat /\ CacheSize \in Nat /\ MaxRequest \in Nat
    BY <1>0, <1>1, <1>2, Basics DEF Control, ControlOf, ControlTypes, Frame
  <2> QED
    BY <2>1 DEF Smaller
<1>5. /\ Take(p, n) \in Nat /\ Take(p, n) <= n /\ rest \in Nat
      /\ Take(p, n) <= CacheSize - pos[p] /\ pos[p] \in 0 .. CacheSize
  BY <1>0, <1>4, UnitsWritten DEF DataTypes
<1>6. CASE CacheHit(t)
  <2>1. /\ SetCache(p, AfterTake(p, n), pos[p] + n) /\ output' = output \o Taken(p, n)
        /\ UNCHANGED <<drbg, entropies, init, status>> /\ n <= CacheSize - pos[p]
    BY <1>1, <1>6 DEF CacheHit, Write
  <2>2. pos[p] + n \in 0 .. CacheSize /\ pos[p] + Take(p, n) <= pos[p] + n
    BY <1>4, <1>5, <2>1
  <2> HIDE DEF n, p
  <2> QED
    BY <1>0, <1>3, <1>4, <2>1, <2>2, HitData
<1>7. CASE CacheMiss(t)
  <2>1. \/ /\ DrbgMakes(p, CacheSize) /\ SetCache(p, Refilled(p, rest), rest)
           /\ output' = output \o (Taken(p, n) \o Fresh(p, rest))
        \/ /\ SetCache(p, AfterTake(p, n), CacheSize) /\ drbg' = drbg
           /\ output' = output \o Taken(p, n)
    BY <1>7 DEF CacheMiss, Write
  <2>2. rest \in 0 .. CacheSize /\ CacheSize \in 0 .. CacheSize
        /\ pos[p] + Take(p, n) <= CacheSize
    BY <1>4, <1>5, <1>7 DEF CacheMiss
  <2> HIDE DEF n, p, rest
  <2> QED
    BY <1>0, <1>1, <1>3, <1>4, <2>1, <2>2, HitData, RefillData
<1>8. CASE Chunk(t)
  <2>1. /\ buf' = buf /\ pos' = pos
        /\ \/ DrbgMakes(p, req_size) /\ output' = output \o Fresh(p, req_size)
           \/ drbg' = drbg /\ output' = output \o <<>>
    BY <1>8 DEF Chunk, Write
  <2>2. CASE DrbgMakes(p, req_size) /\ output' = output \o Fresh(p, req_size)
    <3> HIDE DEF p, req_size
    <3> QED
      BY <1>0, <1>1, <1>3, <1>4, <2>1, <2>2, ChunkData
  <2>3. CASE drbg' = drbg /\ output' = output \o <<>>
    <3>1. output' = output
      BY <1>0, <2>3, ConcatEmptySeq DEF DataTypes
    <3>2. \A q \in Processes : Live(q)' => Live(q)
      BY <1>1 DEF Live
    <3> QED
      BY <1>0, <1>1, <1>2, <1>3, <2>1, <2>3, <3>1, <3>2, StillData
  <2> QED
    BY <2>1, <2>2, <2>3
<1> QED
  BY <1>6, <1>7, <1>8

\* The steps that write nothing.
LEMMA OtherData ==
  ASSUME IInv, NEW t \in Actors,
         \/ InitOnce(t) \/ GenerateCall(t) \/ ForkEarly(t) \/ ForkPrepare(t)
         \/ GenerateLock(t) \/ GenerateReturn(t) \/ GenerateNoReseed(t)
         \/ GenerateReseed(t) \/ GenerateReseedFails(t)
         \/ Fork(t) \/ AtforkParent(t) \/ AtforkChild(t)
  PROVE  DataTypes' /\ (~starved' => Data' /\ ProcessesDiffer')
<1> DEFINE p == process(t)
<1>0. /\ DataTypes /\ Control /\ (~starved => Data /\ ProcessesDiffer) /\ p \in Processes
      /\ init \in [Processes -> {"no", OK, FAILED}]
      /\ status \in [Processes -> {OK, NEED_RESEED, FAILED}] /\ starved \in BOOLEAN
  BY Basics DEF IInv, Control, ControlTypes
<1>1. ASSUME UNCHANGED <<drbg, buf, pos, entropies, output, init, status, starved>>
      PROVE  DataTypes' /\ (~starved' => Data' /\ ProcessesDiffer')
  <2>1. /\ \A q \in Processes : Live(q)' => Live(q)
        /\ \A q \in Processes : init[q] = OK => init'[q] = OK
    BY <1>1 DEF Live
  <2> QED
    BY <1>0, <1>1, <2>1, StillData
<1>2. CASE \/ GenerateCall(t) \/ ForkEarly(t) \/ GenerateLock(t) \/ GenerateReturn(t)
           \/ GenerateNoReseed(t) \/ AtforkParent(t) \/ AtforkChild(t)
  BY <1>1, <1>2 DEF GenerateCall, ForkEarly, GenerateLock, GenerateReturn, GenerateNoReseed,
                    AtforkParent, AtforkChild, rng
<1>3. CASE InitOnce(t)
  <2>1. /\ starved' = starved /\ UNCHANGED <<buf, pos, output>> /\ init[p] = "no"
        /\ \/ Seeded(p) /\ init' = [init EXCEPT ![p] = OK] /\ status' = [status EXCEPT ![p] = OK]
           \/ /\ UNCHANGED <<drbg, entropies>> /\ init' = [init EXCEPT ![p] = FAILED]
              /\ status' = [status EXCEPT ![p] = FAILED]
    BY <1>3 DEF InitOnce
  <2>2. /\ \A q \in Processes \ {p} : Live(q)' => Live(q)
        /\ \A q \in Processes : init[q] = OK => init'[q] = OK
    BY <1>0, <2>1, Basics DEF Live
  <2>3. CASE Seeded(p) /\ ~starved
    <3>1. pos' = [pos EXCEPT ![p] = CacheSize]
      <4>1. pos[p] = CacheSize
        BY <1>0, <2>1, <2>3, Basics DEF Data
      <4> QED
        BY <1>0, <2>1, <4>1 DEF DataTypes
    <3> QED
      BY <1>0, <2>1, <2>2, <2>3, <3>1, SeededData
  <2>4. CASE Seeded(p) /\ starved
    <3> DEFINE new == [seed |-> entropies + 1, made |-> 0, counter |-> 1]
    <3>1. entropies + 1 \in Nat /\ new \in State
      BY <1>0 DEF DataTypes, State
    <3>2. drbg' \in [Processes -> State] /\ entropies' \in Nat
      BY <1>0, <2>4, <3>1 DEF Seeded, DataTypes
    <3> QED
      BY <1>0, <2>1, <2>4, <3>2 DEF DataTypes
  <2>5. CASE UNCHANGED <<drbg, entropies>> /\ status' = [status EXCEPT ![p] = FAILED]
    <3>1. \A q \in Processes : Live(q)' => Live(q)
      BY <1>0, <2>2, <2>5, Basics DEF Live
    <3> QED
      BY <1>0, <2>1, <2>2, <2>5, <3>1, StillData
  <2> QED
    BY <1>0, <2>1, <2>3, <2>4, <2>5
<1>4. CASE ForkPrepare(t)
  <2>1. /\ UNCHANGED <<drbg, buf, pos, entropies, output>> /\ init' = init /\ starved' = starved
        /\ status' = [status EXCEPT !["parent"] = IF @ = OK THEN NEED_RESEED ELSE @]
    BY <1>4 DEF ForkPrepare
  <2>2. \A q \in Processes : Live(q)' => Live(q)
    BY <1>0, <2>1, Basics DEF Live
  <2>3. \A q \in Processes : init[q] = OK => init'[q] = OK
    BY <2>1
  <2> QED
    BY <1>0, <2>1, <2>2, <2>3, StillData
<1>5. CASE GenerateReseed(t)
  <2>1. /\ Seeded(p) /\ pos' = [pos EXCEPT ![p] = CacheSize] /\ UNCHANGED <<buf, output>>
        /\ init' = init /\ starved' = starved /\ status' = [status EXCEPT ![p] = OK]
    BY <1>5 DEF GenerateReseed
  <2>2. /\ \A q \in Processes \ {p} : Live(q)' => Live(q)
        /\ \A q \in Processes : init[q] = OK => init'[q] = OK
    BY <1>0, <2>1 DEF Live
  <2> QED
    BY <1>0, <2>1, <2>2, SeededData
<1>6. CASE GenerateReseedFails(t)
  <2>1. /\ UNCHANGED <<drbg, buf, pos, entropies, output>> /\ init' = init /\ starved' = TRUE
        /\ status' = [status EXCEPT ![p] = FAILED]
    BY <1>6 DEF GenerateReseedFails
  <2>2. /\ \A q \in Processes : Live(q)' => Live(q)
        /\ \A q \in Processes : init[q] = OK => init'[q] = OK
    BY <1>0, <2>1, Basics DEF Live
  <2> QED
    BY <1>0, <2>1, <2>2, StillData
<1>7. CASE Fork(t)
  BY <1>0, <1>7, ForkData
<1> QED
  BY <1>2, <1>3, <1>4, <1>5, <1>6, <1>7

-----------------------------------------------------------------------------
(* The invariant and its consequences. *)

LEMMA InitIInv == Init => IInv
<1> SUFFICES ASSUME Init PROVE IInv
  OBVIOUS
<1>1. NoFrame \in Frame /\ NoFrame.got = 0 /\ NoFrame.nbytes = 0 /\ NoFrame.asked = 0
  BY DEF NoFrame, Frame
<1>2. NoFrame.got + NoFrame.nbytes = NoFrame.asked
  BY <1>1
<1>3. Control
  <2>1. pc \in [Actors -> Labels] /\ \A t \in Actors : pc[t] \in {"unborn", "idle"}
    BY LabelFacts DEF Init
  <2>2. frame \in [Actors -> Frame] /\ \A t \in Actors : frame[t] = NoFrame
    BY <1>1 DEF Init
  <2>3. /\ init \in [Processes -> {"no", OK, FAILED}]
        /\ lock \in [Processes -> Actors \cup {NoThread}]
        /\ status \in [Processes -> {OK, NEED_RESEED, FAILED}]
        /\ starved \in BOOLEAN
    BY DEF Init
  <2>4. \A t \in Actors : ControlOf(t)
    BY <1>2, <2>1, <2>2 DEF ControlOf
  <2> QED
    BY <2>1, <2>2, <2>3, <2>4 DEF Control, ControlTypes
<1>4. /\ \A p \in Processes : drbg[p] = [seed |-> 0, made |-> 0, counter |-> 0]
      /\ \A p \in Processes : init[p] = "no" /\ pos[p] = CacheSize
      /\ entropies = 0 /\ output = <<>> /\ DOMAIN output = {}
  <2>1. DOMAIN output = {} /\ output = <<>>
    BY EmptySeq, LenProperties DEF Init
  <2> QED
    BY <2>1 DEF Init
<1>5. DataTypes
  <2>1. [seed |-> 0, made |-> 0, counter |-> 0] \in State
    BY DEF State
  <2>2. output \in Seq(Unit) /\ entropies \in Nat /\ CacheSize \in Nat
    BY <1>4, Basics, EmptySeq
  <2>3. Cleared \in Unit
    BY DEF Cleared, Unit
  <2> QED
    BY <2>1, <2>2, <2>3 DEF Init, DataTypes
<1>6. Data
  <2>1. \A p \in Processes : ~Live(p) /\ drbg[p].seed = 0
    BY <1>4, Basics DEF Live
  <2> QED
    BY <1>4, <2>1 DEF Data
<1>7. ProcessesDiffer
  BY <1>4 DEF ProcessesDiffer
<1> QED
  BY <1>3, <1>5, <1>6, <1>7 DEF IInv

LEMMA StepIInv ==
  ASSUME IInv, [Next]_vars
  PROVE  IInv'
<1>1. CASE UNCHANGED vars
  <2>1. UNCHANGED <<pc, frame, init, lock, drbg, buf, pos, status, entropies, output, starved>>
    BY <1>1 DEF vars, rng
  <2>2. Control'
    BY <2>1 DEF IInv, Control, ControlTypes, ControlOf, Live
  <2>3. /\ \A q \in Processes : Live(q)' => Live(q)
        /\ \A q \in Processes : init[q] = OK => init'[q] = OK
    BY <2>1 DEF Live
  <2>4. DataTypes' /\ (~starved' => Data' /\ ProcessesDiffer')
    BY <2>1, <2>3, StillData DEF IInv
  <2> QED
    BY <2>2, <2>4 DEF IInv
<1>2. ASSUME NEW t \in Actors, Call(t) \/ Advance(t)
      PROVE  IInv'
  <2>0. Control /\ DataTypes
    BY DEF IInv
  <2>1. Control'
    BY <1>2, <2>0, InitControl, CallControl, ForkControl, PrepareControl, ReseedControl,
       ChildControl, WrittenControl DEF Call, Advance
  <2>2. DataTypes' /\ (~starved' => Data' /\ ProcessesDiffer')
    BY <1>2, WrittenData, OtherData DEF Call, Advance
  <2> QED
    BY <2>1, <2>2 DEF IInv
<1> QED
  BY <1>1, <1>2 DEF Next, Quiet

LEMMA Invariance == Spec => []IInv
<1>1. Init => IInv
  BY InitIInv
<1>2. IInv /\ [Next]_vars => IInv'
  BY StepIInv
<1> QED
  BY <1>1, <1>2, PTL DEF Spec

\* As long as no reseed has failed, no two units of output are the same, in a
\* process or in its child: the copy fork makes of a DRBG and of its cache is not
\* used before a reseed with entropy of its own (ccrng_cryptographic_generate and
\* the atfork handlers).
THEOREM OutputDiffers == Spec => []OutputDistinct
<1>1. IInv => OutputDistinct
  BY DEF IInv, ProcessesDiffer, OutputDistinct
<1> QED
  BY <1>1, Invariance, PTL

\* Whoever is between LOCK and UNLOCK, in generate or in a fork, owns the mutex.
THEOREM MutexOwned == Spec => []LockOwned
<1>1. IInv => LockOwned
  BY DEF IInv, Control, ControlOf, LockOwned
<1> QED
  BY <1>1, Invariance, PTL

\* What was written and what is to come add up to the request.
THEOREM RequestsComplete == Spec => []OutputComplete
<1>1. IInv => OutputComplete
  BY DEF IInv, Control, ControlOf, OutputComplete
<1> QED
  BY <1>1, Invariance, PTL
=============================================================================
