---------------------------- MODULE CsprngProofs ----------------------------
(***************************************************************************)
(* Proofs about the cached generator, for any number of threads, sizes and *)
(* calls, and about where entropy comes from: about SeedFile.tla, for      *)
(* seeds of any size and any number of boots, and about DevRandom.tla, for *)
(* buffers of any size, any table of descriptors and any number of calls.  *)
(***************************************************************************)
EXTENDS MCCsprng, SequenceTheorems, WellFoundedInduction, TLAPS

-----------------------------------------------------------------------------
(* Sequences of units. *)

\* Where an element of a concatenation comes from.
LEMMA ConcatElement ==
  ASSUME NEW s \in Seq(Nat), NEW u \in Seq(Nat), NEW j \in DOMAIN (s \o u)
  PROVE  \/ j \in DOMAIN s /\ (s \o u)[j] = s[j]
         \/ j - Len(s) \in DOMAIN u /\ j \notin DOMAIN s /\ (s \o u)[j] = u[j - Len(s)]
<1>1. /\ s \o u \in Seq(Nat) /\ Len(s \o u) = Len(s) + Len(u)
      /\ \A i \in 1 .. Len(s) + Len(u) :
           (s \o u)[i] = IF i <= Len(s) THEN s[i] ELSE u[i - Len(s)]
  BY ConcatProperties
<1>2. /\ DOMAIN s = 1 .. Len(s) /\ DOMAIN u = 1 .. Len(u) /\ Len(s) \in Nat /\ Len(u) \in Nat
      /\ DOMAIN (s \o u) = 1 .. Len(s \o u)
  BY <1>1, LenProperties
<1> QED
  BY <1>1, <1>2

\* Units that are nonzero and pairwise different.
Distinct(s) == \A i, j \in DOMAIN s : s[i] # 0 /\ (i # j => s[i] # s[j])

LEMMA ConcatDistinct ==
  ASSUME NEW s \in Seq(Nat), NEW u \in Seq(Nat), Distinct(s), Distinct(u),
         \A i \in DOMAIN s, k \in DOMAIN u : s[i] # u[k]
  PROVE  Distinct(s \o u)
<1> SUFFICES ASSUME NEW i \in DOMAIN (s \o u), NEW j \in DOMAIN (s \o u)
             PROVE  (s \o u)[i] # 0 /\ (i # j => (s \o u)[i] # (s \o u)[j])
  BY DEF Distinct
<1>1. Len(s) \in Nat /\ DOMAIN (s \o u) \subseteq Nat
  BY ConcatProperties, LenProperties
<1> QED
  BY ConcatElement, <1>1 DEF Distinct

-----------------------------------------------------------------------------
(* The inductive invariant. *)

\* Between lock and unlock.
Inside == {"needreseed", "getentropy", "reseed", "generate", "force_getentropy"}

\* Threads: where they are, and that each owns the mutex between lock and unlock.  A
\* call inside the loop has output to make; a status other than success is kept
\* only while output is missing.
ControlOf(t) ==
  /\ pc[t] \in Inside => lock = t
  /\ frame[t].got + frame[t].nbytes = frame[t].asked
  /\ frame[t].nbytes = 0 => frame[t].drbg_status = OK
  /\ pc[t] \in {"needreseed", "getentropy", "reseed", "generate"} => frame[t].nbytes > 0

Control ==
  /\ lock \in Threads \cup {NoThread}
  /\ pc \in [Threads -> Labels]
  /\ frame \in [Threads -> Frame]
  /\ ret \in [Threads -> Statuses]
  /\ aborted \in BOOLEAN
  /\ \A t \in Threads : ControlOf(t)

\* Where the units of the cache and of the output come from: the DRBG's, in order;
\* those the cache can still give were made after the last reseed, and each
\* is in one place.
Units ==
  /\ fence <= made
  /\ \A j \in DOMAIN output : output[j] <= made
  /\ \A i \in Slots : buf[i] <= made
  /\ \A i \in Slots : pos <= i => buf[i] > fence
  /\ \A i, k \in Slots : i # k /\ buf[i] # 0 => buf[i] # buf[k]
  /\ NoReuse /\ Erased

Data ==
  /\ made \in Nat /\ counter \in Nat \ {0}
  /\ buf \in [Slots -> Nat] /\ pos \in 0 .. CacheSize
  /\ calls \in Nat /\ output \in Seq(Nat) /\ fence \in Nat
  /\ Units

IInv == Control /\ Data

-----------------------------------------------------------------------------
(* Control: each step is one of one thread. *)

LEMMA ControlStep ==
  ASSUME Control, NEW t \in Threads, NEW l \in Labels, NEW f \in Frame,
         pc' = [pc EXCEPT ![t] = l],
         frame' = [frame EXCEPT ![t] = f] \/ (frame' = frame /\ f = frame[t]),
         lock' \in Threads \cup {NoThread},
         ret' \in [Threads -> Statuses], aborted' \in BOOLEAN,
         \A u \in Threads \ {t} : lock = u => lock' = u,
         l \in Inside => lock' = t,
         f.got + f.nbytes = f.asked,
         f.nbytes = 0 => f.drbg_status = OK,
         l \in {"needreseed", "getentropy", "reseed", "generate"} => f.nbytes > 0
  PROVE  Control'
<1>1. /\ pc' \in [Threads -> Labels] /\ pc'[t] = l
      /\ \A u \in Threads \ {t} : pc'[u] = pc[u]
  BY DEF Control
<1>2. /\ frame' \in [Threads -> Frame] /\ frame'[t] = f
      /\ \A u \in Threads \ {t} : frame'[u] = frame[u]
  BY DEF Control
<1>3. ControlOf(t)'
  BY <1>1, <1>2 DEF ControlOf
<1>4. ASSUME NEW u \in Threads \ {t} PROVE ControlOf(u)'
  <2>1. ControlOf(u) /\ pc'[u] = pc[u] /\ frame'[u] = frame[u]
    BY <1>1, <1>2 DEF Control
  <2>2. lock = u => lock' = u
    OBVIOUS
  <2> QED
    BY <2>1, <2>2 DEF ControlOf
<1> QED
  BY <1>1, <1>2, <1>3, <1>4 DEF Control

\* The frame of a call that begins.
LEMMA NewFrame ==
  ASSUME NEW n \in Nat
  PROVE  [asked |-> n, nbytes |-> n, got |-> 0, drbg_status |-> OK, tries |-> 0] \in Frame
BY DEF Frame, Statuses

\* What a request leaves to come, and what the cache gives of it.
LEMMA TakeBounds ==
  ASSUME Data, NEW n \in Nat
  PROVE  Take(n) \in Nat /\ Take(n) <= n /\ n - Take(n) \in Nat
BY SizesAssumption DEF Data, Take, Smaller

LEMMA ChunkBounds ==
  ASSUME NEW n \in Nat
  PROVE  /\ Smaller(n, MaxRequest) \in Nat /\ Smaller(n, MaxRequest) <= n
         /\ n - Smaller(n, MaxRequest) \in Nat
BY SizesAssumption DEF Smaller

\* Sequences a call writes.
LEMMA UnitsWritten ==
  ASSUME Data, NEW n \in Nat
  PROVE  /\ Fresh(n) \in Seq(Nat) /\ Len(Fresh(n)) = n
         /\ DOMAIN Fresh(n) = 1 .. n /\ \A k \in 1 .. n : Fresh(n)[k] = made + k
         /\ Taken(n) \in Seq(Nat) /\ Len(Taken(n)) = Take(n)
         /\ DOMAIN Taken(n) = 1 .. Take(n)
         /\ \A k \in 1 .. Take(n) : pos + k - 1 \in Slots /\ Taken(n)[k] = buf[pos + k - 1]
<1>1. made \in Nat /\ buf \in [Slots -> Nat] /\ pos \in 0 .. CacheSize /\ CacheSize \in Nat
  BY SizesAssumption DEF Data
<1>2. Take(n) \in Nat /\ Take(n) <= CacheSize - pos
  BY <1>1 DEF Take, Smaller
<1>3. \A k \in 1 .. Take(n) : pos + k - 1 \in Slots
  BY <1>1, <1>2 DEF Slots
<1>4. \A k \in 1 .. Take(n) : buf[pos + k - 1] \in Nat
  BY <1>1, <1>3
<1>5. Fresh(n) = [k \in 1 .. n |-> made + k] /\ \A k \in 1 .. n : made + k \in Nat
  BY <1>1 DEF Fresh
<1>6. Fresh(n) \in Seq(Nat) /\ Len(Fresh(n)) = n
  BY <1>5
<1>7. Taken(n) = [k \in 1 .. Take(n) |-> buf[pos + k - 1]]
  BY DEF Taken
<1>8. Taken(n) \in Seq(Nat) /\ Len(Taken(n)) = Take(n)
  BY <1>2, <1>4, <1>7
<1> QED
  BY <1>3, <1>5, <1>6, <1>7, <1>8

\* Output is written, and the mutex released.
LEMMA WriteControl ==
  ASSUME Control, NEW t \in Threads, NEW units \in Seq(Nat), NEW rest \in Nat,
         NEW s \in Statuses, Write(t, units, rest, s), lock = t,
         Len(units) + rest = frame[t].nbytes, rest = 0 => s = OK
  PROVE  Control'
<1> DEFINE f == WithOutput(frame[t], Len(units), rest, s)
<1>1. Len(units) \in Nat /\ frame[t] \in Frame /\ frame[t].got + frame[t].nbytes = frame[t].asked
  BY LenProperties DEF Control, ControlOf
<1>2. /\ f \in Frame /\ f.asked = frame[t].asked /\ f.nbytes = rest
      /\ f.got = frame[t].got + Len(units) /\ f.drbg_status = s
  <2>1. f = [asked |-> frame[t].asked, nbytes |-> rest, got |-> frame[t].got + Len(units),
             drbg_status |-> s, tries |-> frame[t].tries]
    BY DEF WithOutput
  <2>2. frame[t].asked \in Nat /\ frame[t].got \in Nat /\ frame[t].tries \in Nat
    BY <1>1 DEF Frame
  <2> QED
    BY <1>1, <2>1, <2>2 DEF Frame
<1>3. /\ pc' = [pc EXCEPT ![t] = "loop"] /\ frame' = [frame EXCEPT ![t] = f]
      /\ lock' = NoThread /\ ret' = ret /\ aborted' = aborted
  BY DEF Write, Goto
<1>4. frame[t].got \in Nat /\ frame[t].nbytes \in Nat
  BY <1>1 DEF Frame
<1>5. f.got + f.nbytes = f.asked /\ (f.nbytes = 0 => f.drbg_status = OK)
  BY <1>1, <1>2, <1>4
<1>6. ret \in [Threads -> Statuses] /\ aborted \in BOOLEAN /\ \A u \in Threads \ {t} : lock # u
  BY DEF Control
<1>7. "loop" \in Labels /\ "loop" \notin Inside
      /\ "loop" \notin {"needreseed", "getentropy", "reseed", "generate"}
  BY DEF Labels, Inside
<1> HIDE DEF f
<1> QED
  BY <1>2, <1>3, <1>5, <1>6, <1>7, ControlStep

\* The call ends.
LEMMA ReturnControl ==
  ASSUME Control, NEW t \in Threads, NEW s \in Statuses, Return(t, s),
         lock' \in {lock, NoThread}, \A u \in Threads \ {t} : lock = u => lock' = u
  PROVE  Control'
<1>1. /\ pc' = [pc EXCEPT ![t] = "idle"] /\ frame' = [frame EXCEPT ![t] = NoFrame]
      /\ ret' \in [Threads -> Statuses] /\ aborted' \in BOOLEAN
  BY DEF Return, Goto, Control
<1>2. /\ NoFrame \in Frame /\ NoFrame.got = 0 /\ NoFrame.nbytes = 0 /\ NoFrame.asked = 0
      /\ NoFrame.drbg_status = OK
  BY NewFrame DEF NoFrame
<1>3. "idle" \in Labels /\ "idle" \notin Inside
      /\ "idle" \notin {"needreseed", "getentropy", "reseed", "generate"}
  BY DEF Labels, Inside
<1>4. lock' \in Threads \cup {NoThread}
  BY DEF Control
<1>5. NoFrame.got + NoFrame.nbytes = NoFrame.asked
  BY <1>2
<1> QED
  BY <1>1, <1>2, <1>3, <1>4, <1>5, ControlStep

\* An attempt to reseed failed.
LEMMA RetryControl ==
  ASSUME Control, NEW t \in Threads, NEW s \in Statuses, Retry(t, s),
         lock = t, frame[t].nbytes > 0
  PROVE  Control'
<1> DEFINE f == WithStatus(frame[t], s, frame[t].tries + 1)
<1>0. /\ frame[t] \in Frame /\ frame[t].tries \in Nat /\ frame[t].nbytes \in Nat
      /\ frame[t].got + frame[t].nbytes = frame[t].asked
  BY DEF Control, ControlOf, Frame
<1>1. CASE /\ Goto(t, "getentropy") /\ frame' = [frame EXCEPT ![t] = f]
           /\ UNCHANGED <<lock, ret, aborted>>
  <2>1. /\ f \in Frame /\ f.asked = frame[t].asked /\ f.nbytes = frame[t].nbytes
        /\ f.got = frame[t].got
    <3>1. f = [asked |-> frame[t].asked, nbytes |-> frame[t].nbytes, got |-> frame[t].got,
               drbg_status |-> s, tries |-> frame[t].tries + 1]
      BY DEF WithStatus
    <3>2. frame[t].asked \in Nat /\ frame[t].got \in Nat
      BY <1>0 DEF Frame
    <3> QED
      BY <1>0, <3>1, <3>2 DEF Frame
  <2>2. pc' = [pc EXCEPT ![t] = "getentropy"] /\ "getentropy" \in Labels
    BY <1>1 DEF Goto, Labels
  <2>3. /\ lock' \in Threads \cup {NoThread} /\ ret' \in [Threads -> Statuses]
        /\ aborted' \in BOOLEAN /\ lock' = lock
    BY <1>1 DEF Control
  <2>4. f.got + f.nbytes = f.asked /\ f.nbytes # 0 /\ f.nbytes > 0
    BY <1>0, <2>1
  <2> HIDE DEF f
  <2> QED
    BY <1>1, <2>1, <2>2, <2>3, <2>4, ControlStep
<1>2. CASE lock' = NoThread /\ Return(t, s)
  BY <1>2, ReturnControl
<1> QED
  BY <1>1, <1>2 DEF Retry

\* A thread goes on, its frame as it was.
LEMMA MoveControl ==
  ASSUME Control, NEW t \in Threads, NEW l \in Labels, Goto(t, l), UNCHANGED frame,
         lock' \in Threads \cup {NoThread},
         ret' \in [Threads -> Statuses], aborted' \in BOOLEAN,
         \A u \in Threads \ {t} : lock = u => lock' = u,
         l \in Inside => lock' = t,
         l \in {"needreseed", "getentropy", "reseed", "generate"} => frame[t].nbytes > 0
  PROVE  Control'
<1>1. /\ frame[t] \in Frame /\ frame[t].got + frame[t].nbytes = frame[t].asked
      /\ (frame[t].nbytes = 0 => frame[t].drbg_status = OK)
  BY DEF Control, ControlOf
<1> DEFINE f == frame[t]
<1>2. frame' = frame /\ f = frame[t] /\ pc' = [pc EXCEPT ![t] = l]
  BY DEF Goto
<1> HIDE DEF f
<1> QED
  BY <1>1, <1>2, ControlStep

\* The labels.
LEMMA LabelFacts ==
  /\ Labels = {"idle", "loop", "needreseed", "getentropy", "reseed", "generate",
               "reseed_user", "reseed_force", "force_getentropy"}
  /\ GetEntropyResults \subseteq Statuses /\ ReseedResults \subseteq Statuses
  /\ {OK, NEED_RESEED, "CCDRBG_STATUS_ERROR"} \subseteq Statuses
BY DEF Labels, GetEntropyResults, ReseedResults, Statuses

\* Every step keeps Control.
LEMMA GenerateControl ==
  ASSUME IInv, NEW t \in Threads,
         \/ GenerateCall(t) \/ GenerateLock(t) \/ GenerateReturn(t)
         \/ \E need \in BOOLEAN : GenerateNeedReseed(t, need)
  PROVE  Control'
<1>0. Control /\ frame[t] \in Frame /\ frame[t].nbytes \in Nat
      /\ frame[t].drbg_status \in Statuses /\ ControlOf(t)
  BY DEF IInv, Control, Frame
<1>1. CASE GenerateCall(t)
  <2>1. PICK n \in Requests :
          frame' = [frame EXCEPT ![t] =
            [asked |-> n, nbytes |-> n, got |-> 0, drbg_status |-> OK, tries |-> 0]]
    BY <1>1 DEF GenerateCall
  <2> DEFINE f == [asked |-> n, nbytes |-> n, got |-> 0, drbg_status |-> OK, tries |-> 0]
  <2>2. n \in Nat
    BY SizesAssumption
  <2>3. f \in Frame
    BY <2>2, NewFrame
  <2>4. f.got = 0 /\ f.nbytes = n /\ f.asked = n /\ f.drbg_status = OK
    OBVIOUS
  <2>5. frame' = [frame EXCEPT ![t] = f]
    BY <2>1
  <2>6. pc' = [pc EXCEPT ![t] = "loop"] /\ "loop" \in Labels /\ "loop" \notin Inside
        /\ "loop" \notin {"needreseed", "getentropy", "reseed", "generate"}
    BY <1>1 DEF GenerateCall, Goto, Labels, Inside
  <2>7. /\ lock' \in Threads \cup {NoThread} /\ ret' \in [Threads -> Statuses]
        /\ aborted' \in BOOLEAN /\ lock' = lock
    BY <1>0, <1>1 DEF GenerateCall, Control
  <2> HIDE DEF f
  <2>8. f.got + f.nbytes = f.asked
    BY <2>2, <2>4
  <2> QED
    BY <1>0, <2>3, <2>4, <2>5, <2>6, <2>7, <2>8, ControlStep
<1>2. CASE GenerateLock(t)
  <2>1. /\ Goto(t, "needreseed") /\ UNCHANGED frame /\ lock = NoThread /\ lock' = t
        /\ ret' \in [Threads -> Statuses] /\ aborted' \in BOOLEAN
    BY <1>0, <1>2 DEF GenerateLock, Control
  <2>2. frame[t].nbytes > 0 /\ "needreseed" \in Labels
    BY <1>2, LabelFacts DEF GenerateLock, More
  <2> QED
    BY <1>0, <2>1, <2>2, MoveControl, SizesAssumption
<1>3. CASE GenerateReturn(t)
  <2>1. Return(t, frame[t].drbg_status) /\ lock' = lock
    BY <1>3 DEF GenerateReturn
  <2> QED
    BY <1>0, <2>1, ReturnControl
<1>4. ASSUME NEW need \in BOOLEAN, GenerateNeedReseed(t, need)
      PROVE  Control'
  <2>1. PICK l \in {"getentropy", "generate"} : Goto(t, l)
    BY <1>4 DEF GenerateNeedReseed
  <2>2. /\ UNCHANGED frame /\ lock' = lock /\ lock = t /\ frame[t].nbytes > 0
        /\ ret' \in [Threads -> Statuses] /\ aborted' \in BOOLEAN
    BY <1>0, <1>4 DEF GenerateNeedReseed, Control, ControlOf, Inside
  <2> QED
    BY <1>0, <2>1, <2>2, MoveControl, LabelFacts
<1> QED
  BY <1>1, <1>2, <1>3, <1>4

LEMMA ReseedControl ==
  ASSUME IInv, NEW t \in Threads,
         \/ \E s \in GetEntropyResults : GetEntropy(t, s)
         \/ \E s \in ReseedResults : GenerateReseed(t, s)
  PROVE  Control'
<1>0. Control /\ ControlOf(t) /\ frame[t] \in Frame /\ frame[t].nbytes \in Nat
      /\ frame[t].got + frame[t].nbytes = frame[t].asked
  BY DEF IInv, Control, ControlOf, Frame
<1>1. ASSUME NEW s \in GetEntropyResults, GetEntropy(t, s)
      PROVE  Control'
  <2>1. lock = t /\ frame[t].nbytes > 0 /\ s \in Statuses
    BY <1>0, <1>1, LabelFacts DEF GetEntropy, ControlOf, Inside
  <2>2. CASE s = OK
    <3>1. Goto(t, "reseed") /\ UNCHANGED <<lock, frame, ret, aborted>>
      BY <1>1, <2>2 DEF GetEntropy
    <3>2. /\ "reseed" \in Labels /\ lock' = t
          /\ ret' \in [Threads -> Statuses] /\ aborted' \in BOOLEAN /\ UNCHANGED frame
      BY <1>0, <2>1, <3>1, LabelFacts DEF Control
    <3> QED
      BY <1>0, <2>1, <3>1, <3>2, MoveControl
  <2>3. CASE s # OK
    BY <1>0, <1>1, <2>1, <2>3, RetryControl DEF GetEntropy
  <2> QED
    BY <2>2, <2>3
<1>2. ASSUME NEW s \in ReseedResults, GenerateReseed(t, s)
      PROVE  Control'
  <2>1. lock = t /\ frame[t].nbytes > 0 /\ s \in Statuses
    BY <1>0, <1>2, LabelFacts DEF GenerateReseed, ControlOf, Inside
  <2>2. CASE s = OK
    <3> DEFINE f == WithStatus(frame[t], OK, 0)
    <3>1. f = [asked |-> frame[t].asked, nbytes |-> frame[t].nbytes, got |-> frame[t].got,
               drbg_status |-> OK, tries |-> 0]
      BY DEF WithStatus
    <3>2. frame[t].asked \in Nat /\ frame[t].got \in Nat /\ OK \in Statuses
      BY <1>0, LabelFacts DEF Frame
    <3>3. f \in Frame
      BY <1>0, <3>1, <3>2 DEF Frame
    <3>4. f.got = frame[t].got /\ f.nbytes = frame[t].nbytes /\ f.asked = frame[t].asked
          /\ f.drbg_status = OK
      BY <3>1
    <3>5. /\ pc' = [pc EXCEPT ![t] = "generate"] /\ frame' = [frame EXCEPT ![t] = f]
          /\ UNCHANGED <<lock, ret, aborted>>
      BY <1>2, <2>2 DEF GenerateReseed, Goto
    <3>6. /\ lock' \in Threads \cup {NoThread} /\ ret' \in [Threads -> Statuses]
          /\ aborted' \in BOOLEAN /\ lock' = lock /\ "generate" \in Labels
      BY <1>0, <3>5, LabelFacts DEF Control
    <3> HIDE DEF f
    <3>7. f.got + f.nbytes = f.asked
      BY <1>0, <3>4
    <3> QED
      BY <1>0, <2>1, <3>3, <3>4, <3>5, <3>6, <3>7, ControlStep
  <2>3. CASE s # OK
    BY <1>0, <1>2, <2>1, <2>3, RetryControl DEF GenerateReseed
  <2> QED
    BY <2>2, <2>3
<1> QED
  BY <1>1, <1>2

LEMMA WrittenControl ==
  ASSUME IInv, NEW t \in Threads, GenerateCached(t) \/ GenerateDirect(t)
  PROVE  Control'
<1> DEFINE n == frame[t].nbytes
           rest == n - Take(n)
           req_size == Smaller(n, MaxRequest)
           Wrote(units, left, s) ==
             /\ Write(t, units, left, s)
             /\ Len(units) + left = frame[t].nbytes
             /\ left = 0 => s = OK
           Some == \E units \in Seq(Nat), left \in Nat,
                      s \in {OK, NEED_RESEED, "CCDRBG_STATUS_ERROR"} : Wrote(units, left, s)
<1>0. Control /\ Data /\ frame[t] \in Frame /\ n \in Nat /\ lock = t
  BY DEF IInv, Control, ControlOf, Inside, Frame, GenerateCached, GenerateDirect
<1>1. Take(n) \in Nat /\ Take(n) <= n /\ rest \in Nat
  BY <1>0, TakeBounds
<1>2. Taken(n) \in Seq(Nat) /\ Len(Taken(n)) = Take(n)
  BY <1>0, UnitsWritten
<1>3. Fresh(rest) \in Seq(Nat) /\ Len(Fresh(rest)) = rest
  BY <1>0, <1>1, UnitsWritten
<1>4. req_size \in Nat /\ n - req_size \in Nat
  BY <1>0, ChunkBounds
<1>5. Fresh(req_size) \in Seq(Nat) /\ Len(Fresh(req_size)) = req_size
  BY <1>0, <1>4, UnitsWritten
<1>6. <<>> \in Seq(Nat) /\ Len(<<>>) = 0
  BY EmptySeq
<1>7. Taken(n) \o Fresh(rest) \in Seq(Nat) /\ Len(Taken(n) \o Fresh(rest)) = Take(n) + rest
  BY <1>2, <1>3, ConcatProperties
<1>8. Some
  <2>1. CASE GenerateCached(t)
    <3>1. \/ rest = 0 /\ Write(t, Taken(n), 0, OK)
          \/ rest > 0 /\ \E s \in {NEED_RESEED, "CCDRBG_STATUS_ERROR"} :
               Write(t, Taken(n), rest, s)
          \/ rest > 0 /\ Write(t, Taken(n) \o Fresh(rest), 0, OK)
      BY <2>1 DEF GenerateCached
    <3>2. Take(n) + rest = n /\ (rest = 0 => Take(n) + 0 = n) /\ Take(n) + rest + 0 = n
      BY <1>0, <1>1
    <3>3. CASE rest = 0 /\ Write(t, Taken(n), 0, OK)
      <4>1. Len(Taken(n)) + 0 = n
        BY <1>2, <3>2, <3>3
      <4> QED
        BY <1>2, <3>3, <4>1
    <3>4. ASSUME rest > 0, NEW s \in {NEED_RESEED, "CCDRBG_STATUS_ERROR"},
                 Write(t, Taken(n), rest, s)
          PROVE  Some
      <4>1. Len(Taken(n)) + rest = n /\ rest # 0
        BY <1>1, <1>2, <3>2, <3>4
      <4> QED
        <5>1. Wrote(Taken(n), rest, s)
          BY <3>4, <4>1
        <5> HIDE DEF Wrote, n, rest
        <5> QED
          BY <1>1, <1>2, <5>1
    <3>5. CASE rest > 0 /\ Write(t, Taken(n) \o Fresh(rest), 0, OK)
      <4>1. Len(Taken(n) \o Fresh(rest)) + 0 = n
        BY <1>7, <3>2
      <4> QED
        BY <1>7, <3>5, <4>1
    <3> QED
      BY <3>1, <3>3, <3>4, <3>5
  <2>2. CASE GenerateDirect(t)
    <3>1. \/ Write(t, Fresh(req_size), n - req_size, OK)
          \/ \E s \in {NEED_RESEED, "CCDRBG_STATUS_ERROR"} : Write(t, <<>>, n, s)
      BY <2>2 DEF GenerateDirect
    <3>2. n > 0 /\ req_size + (n - req_size) = n
      BY <1>0, <1>4, <2>2, SizesAssumption DEF GenerateDirect
    <3>3. CASE Write(t, Fresh(req_size), n - req_size, OK)
      <4>1. Len(Fresh(req_size)) + (n - req_size) = n
        BY <1>5, <3>2
      <4> QED
        BY <1>4, <1>5, <3>3, <4>1
    <3>4. ASSUME NEW s \in {NEED_RESEED, "CCDRBG_STATUS_ERROR"}, Write(t, <<>>, n, s)
          PROVE  Some
      <4>1. Len(<<>>) + n = n /\ n # 0
        BY <1>0, <1>6, <3>2
      <4>2. Wrote(<<>>, n, s)
        BY <3>4, <4>1
      <4> HIDE DEF Wrote, n
      <4> QED
        BY <1>0, <1>6, <4>2
    <3> QED
      BY <3>1, <3>3, <3>4
  <2> QED
    BY <2>1, <2>2
<1> QED
  <2> HIDE DEF n, rest, req_size
  <2>1. PICK units \in Seq(Nat), left \in Nat, s \in {OK, NEED_RESEED, "CCDRBG_STATUS_ERROR"} :
         /\ Write(t, units, left, s)
         /\ Len(units) + left = frame[t].nbytes
         /\ left = 0 => s = OK
    BY <1>8
  <2>2. s \in Statuses
    BY LabelFacts
  <2> QED
    BY <1>0, <2>1, <2>2, WriteControl

LEMMA CallerControl ==
  ASSUME IInv, NEW t \in Threads,
         \/ ReseedCall(t, "reseed_user") \/ ReseedCall(t, "reseed_force")
         \/ \E s \in ReseedResults : ReseedUser(t, s)
         \/ ForceLock(t)
         \/ \E g \in GetEntropyResults, s \in ReseedResults : ForceReseed(t, g, s)
  PROVE  Control'
<1>0. Control /\ ControlOf(t) /\ ret \in [Threads -> Statuses] /\ aborted \in BOOLEAN
  BY DEF IInv, Control
<1>1. ASSUME NEW l \in {"reseed_user", "reseed_force"}, ReseedCall(t, l)
      PROVE  Control'
  <2>1. /\ Goto(t, l) /\ UNCHANGED frame /\ lock' = lock /\ l \in Labels /\ l \notin Inside
        /\ ret' \in [Threads -> Statuses] /\ aborted' \in BOOLEAN
    BY <1>0, <1>1, LabelFacts DEF ReseedCall, Inside
  <2> QED
    BY <1>0, <2>1, MoveControl DEF Control
<1>2. ASSUME NEW s \in ReseedResults, ReseedUser(t, s)
      PROVE  Control'
  <2>1. /\ Goto(t, "idle") /\ UNCHANGED frame /\ lock' = lock
        /\ ret' = [ret EXCEPT ![t] = s] /\ aborted' = aborted
    BY <1>2 DEF ReseedUser
  <2>2. ret' \in [Threads -> Statuses] /\ "idle" \in Labels /\ "idle" \notin Inside
    BY <1>0, <2>1, LabelFacts DEF Inside
  <2> QED
    BY <1>0, <2>1, <2>2, MoveControl DEF Control
<1>3. CASE ForceLock(t)
  <2>1. /\ Goto(t, "force_getentropy") /\ UNCHANGED frame /\ lock = NoThread /\ lock' = t
        /\ ret' = ret /\ aborted' = aborted /\ "force_getentropy" \in Labels
    BY <1>3, LabelFacts DEF ForceLock
  <2> QED
    BY <1>0, <2>1, MoveControl, SizesAssumption
<1>4. ASSUME NEW g \in GetEntropyResults, NEW s \in ReseedResults, ForceReseed(t, g, s)
      PROVE  Control'
  <2>1. /\ Goto(t, "idle") /\ UNCHANGED frame /\ lock = t /\ lock' = NoThread
        /\ aborted' = aborted /\ "idle" \in Labels /\ "idle" \notin Inside
    BY <1>0, <1>4, LabelFacts DEF ForceReseed, ControlOf, Inside
  <2>2. ret' \in [Threads -> Statuses]
    BY <1>0, <1>4, LabelFacts DEF ForceReseed
  <2> QED
    BY <1>0, <2>1, <2>2, MoveControl
<1> QED
  BY <1>1, <1>2, <1>3, <1>4

-----------------------------------------------------------------------------
(* Data: what the DRBG, the cache and the output hold. *)

\* The units a step adds to the output were made after the last reseed.
Later == \A j \in DOMAIN output' \ DOMAIN output : output'[j] > fence

LEMMA AddUnits ==
  ASSUME Data, NEW u \in Seq(Nat), output' = output \o u, fence' = fence, calls' = calls,
         made' \in Nat, made <= made', counter' \in Nat \ {0},
         buf' \in [Slots -> Nat], pos' \in 0 .. CacheSize,
         Distinct(u),
         \A k \in DOMAIN u : u[k] <= made' /\ u[k] > fence,
         \A j \in DOMAIN output, k \in DOMAIN u : output[j] # u[k],
         \A i \in Slots : buf'[i] <= made',
         \A i \in Slots : pos' <= i => buf'[i] > fence,
         \A i, k \in Slots : i # k /\ buf'[i] # 0 => buf'[i] # buf'[k],
         \A i \in Slots, j \in DOMAIN output : buf'[i] # 0 => buf'[i] # output[j],
         \A i \in Slots, k \in DOMAIN u : buf'[i] # 0 => buf'[i] # u[k]
  PROVE  Data' /\ Later
<1>1. output \in Seq(Nat) /\ output' \in Seq(Nat)
  BY ConcatProperties DEF Data
<1>2. \A j \in DOMAIN output' :
        \/ j \in DOMAIN output /\ output'[j] = output[j]
        \/ j - Len(output) \in DOMAIN u /\ j \notin DOMAIN output
             /\ output'[j] = u[j - Len(output)]
  BY <1>1, ConcatElement
<1>3. NoReuse'
  <2>1. Distinct(output)
    BY DEF Data, Units, NoReuse, Distinct
  <2>2. Distinct(output \o u)
    BY <1>1, <2>1, ConcatDistinct
  <2> QED
    BY <2>2 DEF NoReuse, Distinct
<1>4. \A j \in DOMAIN output' : output'[j] <= made'
  <2>1. \A j \in DOMAIN output : output[j] <= made /\ output[j] \in Nat
    BY <1>1, ElementOfSeq, LenProperties DEF Data, Units
  <2>2. made \in Nat
    BY DEF Data
  <2> QED
    BY <1>2, <2>1, <2>2
<1>5. Erased'
  BY <1>2 DEF Erased
<1>6. Later
  BY <1>2 DEF Later
<1>7. fence' \in Nat /\ fence' <= made' /\ calls' \in Nat
  BY DEF Data, Units
<1> QED
  BY <1>1, <1>3, <1>4, <1>5, <1>6, <1>7 DEF Data, Units

\* The cached units a request takes: where they were, and that no slot that is
\* kept holds them.
LEMMA TakenUnits ==
  ASSUME Data, NEW n \in Nat
  PROVE  /\ Distinct(Taken(n))
         /\ \A k \in DOMAIN Taken(n) : Taken(n)[k] <= made /\ Taken(n)[k] > fence
         /\ \A j \in DOMAIN output, k \in DOMAIN Taken(n) : output[j] # Taken(n)[k]
         /\ \A i \in Slots, k \in DOMAIN Taken(n) :
              ~(pos <= i /\ i < pos + Take(n)) /\ buf[i] # 0 => buf[i] # Taken(n)[k]
<1>1. /\ DOMAIN Taken(n) = 1 .. Take(n)
      /\ \A k \in 1 .. Take(n) : pos + k - 1 \in Slots /\ Taken(n)[k] = buf[pos + k - 1]
  BY UnitsWritten
<1>2. pos \in Nat /\ fence \in Nat /\ buf \in [Slots -> Nat] /\ Take(n) \in Nat
  <2>1. pos \in 0 .. CacheSize /\ CacheSize \in Nat /\ fence \in Nat /\ buf \in [Slots -> Nat]
    BY SizesAssumption DEF Data
  <2>2. Take(n) \in Nat
    BY TakeBounds
  <2> QED
    BY <2>1, <2>2
<1>3. \A k \in 1 .. Take(n) : pos <= pos + k - 1 /\ pos + k - 1 < pos + Take(n)
  BY <1>2
<1>4. \A k \in 1 .. Take(n) : buf[pos + k - 1] > fence /\ buf[pos + k - 1] <= made
                              /\ buf[pos + k - 1] # 0
  BY <1>1, <1>2, <1>3 DEF Data, Units
<1>5. \A i, k \in Slots : i # k /\ buf[i] # 0 => buf[i] # buf[k]
  BY DEF Data, Units
<1>6. Distinct(Taken(n))
  <2>1. \A k, l \in 1 .. Take(n) : k # l => pos + k - 1 # pos + l - 1
    BY <1>2
  <2> QED
    BY <1>1, <1>4, <1>5, <2>1 DEF Distinct
<1>7. \A j \in DOMAIN output, k \in DOMAIN Taken(n) : output[j] # Taken(n)[k]
  <2>1. \A i \in Slots, j \in DOMAIN output : buf[i] # 0 => buf[i] # output[j]
    BY DEF Data, Units, Erased
  <2> QED
    BY <1>1, <1>4, <2>1
<1>8. \A i \in Slots, k \in DOMAIN Taken(n) :
         ~(pos <= i /\ i < pos + Take(n)) /\ buf[i] # 0 => buf[i] # Taken(n)[k]
  BY <1>1, <1>3, <1>5
<1> QED
  BY <1>1, <1>4, <1>6, <1>7, <1>8

\* Output from the cache alone.
LEMMA HitData ==
  ASSUME Data, NEW n \in Nat, output' = output \o Taken(n), fence' = fence, calls' = calls,
         UNCHANGED drbg, buf' = Cleared(n), pos' \in 0 .. CacheSize, pos + Take(n) <= pos'
  PROVE  Data' /\ Later
<1> DEFINE u == Taken(n)
<1>0. /\ made \in Nat /\ made' = made /\ counter' \in Nat \ {0} /\ fence \in Nat
      /\ pos \in Nat /\ pos' \in Nat /\ Take(n) \in Nat /\ buf \in [Slots -> Nat]
      /\ \A i \in Slots : i \in Nat
  <2>1. /\ pos \in 0 .. CacheSize /\ CacheSize \in Nat /\ fence \in Nat /\ buf \in [Slots -> Nat]
        /\ made \in Nat /\ made' = made /\ counter' \in Nat \ {0}
    BY SizesAssumption DEF Data, drbg
  <2>2. Take(n) \in Nat
    BY TakeBounds
  <2>3. \A i \in Slots : i \in Nat
    BY <2>1 DEF Slots
  <2> QED
    BY <2>1, <2>2, <2>3
<1>1. u \in Seq(Nat)
  BY UnitsWritten
<1>2. /\ Distinct(u) /\ \A k \in DOMAIN u : u[k] <= made' /\ u[k] > fence
      /\ \A j \in DOMAIN output, k \in DOMAIN u : output[j] # u[k]
  BY <1>0, TakenUnits
<1>3. /\ buf' = [i \in Slots |-> IF pos <= i /\ i < pos + Take(n) THEN 0 ELSE buf[i]]
      /\ buf' \in [Slots -> Nat]
  BY <1>0 DEF Cleared
<1>4. \A i \in Slots : buf'[i] <= made'
  BY <1>0, <1>3 DEF Data, Units
<1>5. \A i \in Slots : pos' <= i => buf'[i] > fence
  <2>1. \A i \in Slots : pos' <= i => pos <= i /\ ~(i < pos + Take(n))
    BY <1>0
  <2>2. \A i \in Slots : pos <= i => buf[i] > fence
    BY DEF Data, Units
  <2> QED
    BY <1>3, <2>1, <2>2
<1>6. \A i, k \in Slots : i # k /\ buf'[i] # 0 => buf'[i] # buf'[k]
  <2>1. \A i, k \in Slots : i # k /\ buf[i] # 0 => buf[i] # buf[k]
    BY DEF Data, Units
  <2>2. \A i \in Slots : buf'[i] # 0 => buf'[i] = buf[i]
    BY <1>3
  <2>3. \A i \in Slots : buf'[i] = 0 \/ buf'[i] = buf[i]
    BY <1>3
  <2> QED
    BY <2>1, <2>2, <2>3
<1>7. \A i \in Slots, j \in DOMAIN output : buf'[i] # 0 => buf'[i] # output[j]
  BY <1>3 DEF Data, Units, Erased
<1>8. \A i \in Slots, k \in DOMAIN u : buf'[i] # 0 => buf'[i] # u[k]
  <2>1. \A i \in Slots, k \in DOMAIN u :
          ~(pos <= i /\ i < pos + Take(n)) /\ buf[i] # 0 => buf[i] # u[k]
    BY TakenUnits
  <2>2. \A i \in Slots : buf'[i] # 0 => buf'[i] = buf[i] /\ ~(pos <= i /\ i < pos + Take(n))
    BY <1>3
  <2> QED
    BY <2>1, <2>2
<1>9. output' = output \o u /\ made <= made'
  BY <1>0
<1> HIDE DEF u
<1> QED
  BY <1>0, <1>1, <1>2, <1>3, <1>4, <1>5, <1>6, <1>7, <1>8, <1>9, AddUnits

\* Units the DRBG has just made: later than all others.
LEMMA FreshUnits ==
  ASSUME Data, NEW n \in Nat
  PROVE  /\ Fresh(n) \in Seq(Nat) /\ Distinct(Fresh(n))
         /\ DOMAIN Fresh(n) = 1 .. n
         /\ \A k \in DOMAIN Fresh(n) : /\ Fresh(n)[k] = made + k
                                       /\ Fresh(n)[k] <= made + n /\ Fresh(n)[k] > made
         /\ \A j \in DOMAIN output, k \in DOMAIN Fresh(n) : output[j] # Fresh(n)[k]
<1>1. /\ Fresh(n) \in Seq(Nat) /\ DOMAIN Fresh(n) = 1 .. n
      /\ \A k \in 1 .. n : Fresh(n)[k] = made + k
  BY UnitsWritten
<1>2. made \in Nat /\ output \in Seq(Nat) /\ \A j \in DOMAIN output : output[j] <= made
  BY DEF Data, Units
<1>3. \A k \in 1 .. n : made + k <= made + n /\ made + k > made /\ made + k # 0
  BY <1>2
<1>4. Distinct(Fresh(n))
  <2>1. \A k, l \in 1 .. n : k # l => made + k # made + l
    BY <1>2
  <2> QED
    BY <1>1, <1>3, <2>1 DEF Distinct
<1>5. \A j \in DOMAIN output : output[j] \in Nat
  BY <1>2, LenProperties, ElementOfSeq
<1> QED
  BY <1>1, <1>2, <1>3, <1>4, <1>5

\* Output straight from the DRBG, or none.
LEMMA DirectData ==
  ASSUME Data, NEW n \in Nat, output' = output \o Fresh(n), fence' = fence, calls' = calls,
         made' = made + n, counter' \in Nat \ {0}, UNCHANGED cache
  PROVE  Data' /\ Later
<1> DEFINE u == Fresh(n)
<1>0. /\ made \in Nat /\ made' \in Nat /\ made <= made' /\ fence \in Nat /\ fence <= made
      /\ buf' = buf /\ pos' = pos /\ buf \in [Slots -> Nat] /\ pos \in 0 .. CacheSize
  BY DEF Data, Units, cache
<1>1. /\ u \in Seq(Nat) /\ Distinct(u)
      /\ \A k \in DOMAIN u : u[k] <= made + n /\ u[k] > made /\ u[k] = made + k
      /\ \A j \in DOMAIN output, k \in DOMAIN u : output[j] # u[k]
      /\ DOMAIN u = 1 .. n
  BY FreshUnits
<1>2. \A k \in DOMAIN u : u[k] <= made' /\ u[k] > fence
  BY <1>0, <1>1
<1>3. \A i \in Slots : buf[i] <= made /\ (pos <= i => buf[i] > fence)
  BY DEF Data, Units
<1>4. \A i \in Slots : buf'[i] <= made' /\ (pos' <= i => buf'[i] > fence)
  BY <1>0, <1>3
<1>5. \A i \in Slots, k \in DOMAIN u : buf'[i] # 0 => buf'[i] # u[k]
  BY <1>0, <1>1, <1>3
<1>6. /\ \A i, k \in Slots : i # k /\ buf'[i] # 0 => buf'[i] # buf'[k]
      /\ \A i \in Slots, j \in DOMAIN output : buf'[i] # 0 => buf'[i] # output[j]
  BY <1>0 DEF Data, Units, Erased
<1> HIDE DEF u
<1> QED
  BY <1>0, <1>1, <1>2, <1>4, <1>5, <1>6, AddUnits DEF u

\* The cache is refilled after it gave what it had; r of the new units are given
\* out if w is Fresh(r), and none if w is empty and r is 0.
LEMMA RefillData ==
  ASSUME Data, NEW n \in Nat, NEW r \in 0 .. CacheSize, NEW w \in {Fresh(r), <<>>},
         output' = output \o (Taken(n) \o w), fence' = fence, calls' = calls,
         made' = made + CacheSize, counter' \in Nat \ {0},
         buf' = Refilled(r), pos' \in 0 .. CacheSize, r <= pos'
  PROVE  Data' /\ Later
<1> DEFINE u == Taken(n) \o w
<1>0. /\ made \in Nat /\ CacheSize \in Nat /\ made' \in Nat /\ made <= made' /\ fence \in Nat
      /\ fence <= made /\ r \in Nat /\ r <= CacheSize /\ pos' \in Nat
  BY SizesAssumption DEF Data, Units
<1>1. /\ Taken(n) \in Seq(Nat) /\ Distinct(Taken(n))
      /\ \A k \in DOMAIN Taken(n) : Taken(n)[k] <= made /\ Taken(n)[k] > fence
      /\ \A j \in DOMAIN output, k \in DOMAIN Taken(n) : output[j] # Taken(n)[k]
  BY UnitsWritten, TakenUnits
<1>2. /\ w \in Seq(Nat) /\ Distinct(w)
      /\ \A k \in DOMAIN w : w[k] <= made + r /\ w[k] > made
      /\ \A j \in DOMAIN output, k \in DOMAIN w : output[j] # w[k]
  <2>1. CASE w = Fresh(r)
    BY <1>0, <2>1, FreshUnits
  <2>2. CASE w = <<>>
    <3>1. w \in Seq(Nat) /\ DOMAIN w = {}
      BY <2>2, EmptySeq, LenProperties
    <3> QED
      BY <3>1 DEF Distinct
  <2> QED
    BY <2>1, <2>2
<1>3. u \in Seq(Nat)
  BY <1>1, <1>2, ConcatProperties
<1>4. \A k \in DOMAIN Taken(n), l \in DOMAIN w : Taken(n)[k] # w[l]
  <2>1. \A k \in DOMAIN Taken(n) : Taken(n)[k] \in Nat
    BY <1>1, ElementOfSeq, LenProperties
  <2>2. \A l \in DOMAIN w : w[l] \in Nat
    BY <1>2, ElementOfSeq, LenProperties
  <2> QED
    BY <1>0, <1>1, <1>2, <2>1, <2>2
<1>5. Distinct(u)
  BY <1>1, <1>2, <1>4, ConcatDistinct
<1>6. \A k \in DOMAIN u : \/ \E l \in DOMAIN Taken(n) : u[k] = Taken(n)[l]
                          \/ \E l \in DOMAIN w : u[k] = w[l]
  <2> TAKE k \in DOMAIN u
  <2>1. \/ k \in DOMAIN Taken(n) /\ u[k] = Taken(n)[k]
        \/ k - Len(Taken(n)) \in DOMAIN w /\ u[k] = w[k - Len(Taken(n))]
    BY <1>1, <1>2, ConcatElement
  <2> QED
    BY <2>1
<1>7. \A k \in DOMAIN u : u[k] \in Nat
  BY <1>3, ElementOfSeq, LenProperties
<1> HIDE DEF u
<1>8. \A k \in DOMAIN u : u[k] <= made + r /\ u[k] > fence
  <2> TAKE k \in DOMAIN u
  <2>1. CASE \E l \in DOMAIN Taken(n) : u[k] = Taken(n)[l]
    <3>1. u[k] <= made /\ u[k] > fence /\ u[k] \in Nat
      BY <1>1, <1>7, <2>1
    <3> QED
      BY <1>0, <3>1
  <2>2. CASE \E l \in DOMAIN w : u[k] = w[l]
    <3>1. u[k] <= made + r /\ u[k] > made /\ u[k] \in Nat
      BY <1>2, <1>7, <2>2
    <3> QED
      BY <1>0, <3>1
  <2> QED
    BY <1>6, <2>1, <2>2
<1>9. \A k \in DOMAIN u : u[k] <= made' /\ u[k] > fence
  BY <1>0, <1>7, <1>8
<1>10. \A j \in DOMAIN output, k \in DOMAIN u : output[j] # u[k]
  BY <1>1, <1>2, <1>6
<1>11. /\ buf' = [i \in Slots |-> IF i < r THEN 0 ELSE made + 1 + i]
       /\ \A i \in Slots : i \in Nat /\ i + 1 <= CacheSize
  BY <1>0 DEF Refilled, Slots
<1>12. buf' \in [Slots -> Nat] /\ \A i \in Slots : buf'[i] <= made'
  BY <1>0, <1>11
<1>13. \A i \in Slots : pos' <= i => buf'[i] > fence
  BY <1>0, <1>11
<1>14. \A i, k \in Slots : i # k /\ buf'[i] # 0 => buf'[i] # buf'[k]
  BY <1>0, <1>11
<1>15. \A i \in Slots : buf'[i] # 0 => buf'[i] > made + r
  BY <1>0, <1>11
<1>16. \A i \in Slots, k \in DOMAIN u : buf'[i] # 0 => buf'[i] # u[k]
  BY <1>0, <1>7, <1>8, <1>12, <1>15
<1>17. \A i \in Slots, j \in DOMAIN output : buf'[i] # 0 => buf'[i] # output[j]
  <2>1. output \in Seq(Nat) /\ \A j \in DOMAIN output : output[j] <= made
    BY DEF Data, Units
  <2>2. \A j \in DOMAIN output : output[j] \in Nat
    BY <2>1, ElementOfSeq, LenProperties
  <2> QED
    BY <1>0, <1>12, <1>15, <2>1, <2>2
<1>18. output' = output \o u
  BY DEF u
<1> QED
  BY <1>0, <1>3, <1>5, <1>9, <1>10, <1>12, <1>13, <1>14, <1>16, <1>17, <1>18, AddUnits

\* No output; the DRBG may have made units that are lost.
LEMMA StillData ==
  ASSUME Data, made' \in Nat, made <= made', counter' \in Nat \ {0}, calls' \in Nat,
         UNCHANGED <<cache, output, fence>>
  PROVE  Data' /\ Later
<1>0. /\ made \in Nat /\ fence \in Nat /\ buf \in [Slots -> Nat] /\ output \in Seq(Nat)
      /\ pos \in 0 .. CacheSize
      /\ buf' = buf /\ pos' = pos /\ output' = output /\ fence' = fence
  BY DEF Data, cache
<1>1. fence <= made'
  BY <1>0 DEF Data, Units
<1>2. \A j \in DOMAIN output : output[j] <= made'
  <2>1. \A j \in DOMAIN output : output[j] \in Nat /\ output[j] <= made
    BY <1>0, ElementOfSeq, LenProperties DEF Data, Units
  <2> QED
    BY <1>0, <2>1
<1>3. \A i \in Slots : buf[i] <= made'
  BY <1>0 DEF Data, Units
<1>4. Units'
  BY <1>0, <1>1, <1>2, <1>3 DEF Data, Units, NoReuse, Erased
<1> QED
  BY <1>0, <1>4 DEF Data, Later

\* The reseed empties the cache.
LEMMA ReseedData ==
  ASSUME Data, ReseedDone
  PROVE  Data' /\ Later
<1>0. /\ made \in Nat /\ fence' = made /\ made' = made /\ buf' = buf /\ output' = output
      /\ counter' = 1 /\ pos' = CacheSize /\ calls' = calls /\ CacheSize \in Nat
  BY SizesAssumption DEF Data, ReseedDone
<1>1. \A i \in Slots : ~(pos' <= i)
  BY <1>0 DEF Slots
<1>2. Units'
  BY <1>0, <1>1 DEF Data, Units, NoReuse, Erased
<1> QED
  BY <1>0, <1>2 DEF Data, Later

\* What a call of the DRBG does.
LEMMA DrbgOutcome ==
  ASSUME Data, NEW n \in Nat, NEW s \in {OK, NEED_RESEED, "CCDRBG_STATUS_ERROR"},
         DrbgGenerate(n, s)
  PROVE  /\ counter' \in Nat \ {0}
         /\ s = NEED_RESEED => made' = made
         /\ s # NEED_RESEED => made' = made + n
<1>1. counter \in Nat \ {0} /\ made \in Nat
  BY DEF Data
<1>2. CASE s = NEED_RESEED /\ UNCHANGED drbg
  BY <1>1, <1>2 DEF drbg
<1>3. CASE /\ s = OK \/ (s = "CCDRBG_STATUS_ERROR" /\ DrbgFails)
           /\ made' = made + n
           /\ counter' = IF s = OK THEN counter + 1 ELSE counter
  BY <1>1, <1>3 DEF OK, NEED_RESEED
<1> QED
  BY <1>2, <1>3 DEF DrbgGenerate

LEMMA CachedData ==
  ASSUME IInv, NEW t \in Threads, GenerateCached(t)
  PROVE  Data' /\ Later
<1> DEFINE n == frame[t].nbytes
           rest == n - Take(n)
<1>0. Data /\ n \in Nat /\ n <= CacheSize
  BY DEF IInv, Control, Frame, GenerateCached
<1>1. /\ CacheSize \in Nat /\ pos \in 0 .. CacheSize /\ Take(n) \in Nat
      /\ pos + Take(n) <= CacheSize /\ rest \in Nat /\ rest <= CacheSize
      /\ pos + Take(n) \in 0 .. CacheSize
  <2>1. CacheSize \in Nat /\ pos \in 0 .. CacheSize
    BY <1>0, SizesAssumption DEF Data
  <2>2. Take(n) \in Nat /\ Take(n) <= CacheSize - pos /\ Take(n) <= n
    BY <1>0, <2>1 DEF Take, Smaller
  <2> HIDE DEF n
  <2> QED
    BY <1>0, <2>1, <2>2
<1>2. CASE /\ rest = 0
           /\ buf' = Cleared(n) /\ pos' = pos + Take(n)
           /\ Write(t, Taken(n), 0, OK)
           /\ UNCHANGED drbg
  <2>1. output' = output \o Taken(n) /\ fence' = fence /\ calls' = calls
    BY <1>2 DEF Write
  <2>2. pos + Take(n) <= pos'
    BY <1>1, <1>2
  <2> HIDE DEF n
  <2> QED
    BY <1>0, <1>1, <1>2, <2>1, <2>2, HitData
<1>3. ASSUME NEW s \in {NEED_RESEED, "CCDRBG_STATUS_ERROR"},
             DrbgGenerate(CacheSize, s),
             buf' = IF s = NEED_RESEED THEN Cleared(n) ELSE Refilled(0),
             pos' = CacheSize,
             Write(t, Taken(n), rest, s)
      PROVE  Data' /\ Later
  <2>1. output' = output \o Taken(n) /\ fence' = fence /\ calls' = calls
    BY <1>3 DEF Write
  <2>2. /\ counter' \in Nat \ {0}
        /\ s = NEED_RESEED => made' = made
        /\ s # NEED_RESEED => made' = made + CacheSize
    BY <1>0, <1>1, <1>3, DrbgOutcome
  <2>3. CASE s = NEED_RESEED
    <3>1. UNCHANGED drbg
      BY <1>3, <2>3 DEF DrbgGenerate, drbg, OK, NEED_RESEED
    <3>2. buf' = Cleared(n) /\ pos' \in 0 .. CacheSize /\ pos + Take(n) <= pos'
      BY <1>1, <1>3, <2>3
    <3> HIDE DEF n
    <3> QED
      BY <1>0, <2>1, <3>1, <3>2, HitData
  <2>4. CASE s # NEED_RESEED
    <3>1. Taken(n) \o <<>> = Taken(n)
      BY <1>0, UnitsWritten, ConcatEmptySeq
    <3>2. output' = output \o (Taken(n) \o <<>>)
      BY <2>1, <3>1
    <3>3. /\ buf' = Refilled(0) /\ pos' \in 0 .. CacheSize /\ 0 <= pos' /\ 0 \in 0 .. CacheSize
          /\ made' = made + CacheSize
      BY <1>1, <1>3, <2>2, <2>4
    <3> HIDE DEF n
    <3> QED
      BY <1>0, <2>1, <2>2, <3>2, <3>3, RefillData
  <2> QED
    BY <2>3, <2>4
<1>4. CASE /\ DrbgGenerate(CacheSize, OK)
           /\ buf' = Refilled(rest) /\ pos' = RefillPos(rest)
           /\ Write(t, Taken(n) \o Fresh(rest), 0, OK)
  <2>1. output' = output \o (Taken(n) \o Fresh(rest)) /\ fence' = fence /\ calls' = calls
    BY <1>4 DEF Write
  <2>2. counter' \in Nat \ {0} /\ made' = made + CacheSize
    BY <1>0, <1>1, <1>4, DrbgOutcome DEF OK, NEED_RESEED
  <2>3. /\ buf' = Refilled(rest) /\ pos' = rest /\ pos' \in 0 .. CacheSize /\ rest <= pos'
        /\ rest \in 0 .. CacheSize
    BY <1>1, <1>4 DEF RefillPos
  <2> HIDE DEF n, rest
  <2> QED
    BY <1>0, <2>1, <2>2, <2>3, RefillData
<1> QED
  BY <1>2, <1>3, <1>4 DEF GenerateCached

LEMMA DirectCallData ==
  ASSUME IInv, NEW t \in Threads, GenerateDirect(t)
  PROVE  Data' /\ Later
<1> DEFINE n == frame[t].nbytes
           req_size == Smaller(n, MaxRequest)
<1>0. Data /\ n \in Nat /\ req_size \in Nat /\ made \in Nat
  <2>1. Data /\ n \in Nat /\ made \in Nat
    BY DEF IInv, Control, Frame, Data
  <2> QED
    BY <2>1, ChunkBounds
<1>1. PICK s \in {OK, NEED_RESEED, "CCDRBG_STATUS_ERROR"} :
        /\ DrbgGenerate(req_size, s)
        /\ IF s = OK THEN Write(t, Fresh(req_size), n - req_size, OK)
                     ELSE Write(t, <<>>, n, s)
  BY DEF GenerateDirect
<1>2. UNCHANGED cache
  BY DEF GenerateDirect
<1>3. /\ counter' \in Nat \ {0}
      /\ s = NEED_RESEED => made' = made
      /\ s # NEED_RESEED => made' = made + req_size
  BY <1>0, <1>1, DrbgOutcome
<1>4. CASE s = OK
  <2>1. output' = output \o Fresh(req_size) /\ fence' = fence /\ calls' = calls
    BY <1>1, <1>4 DEF Write
  <2>2. made' = made + req_size
    BY <1>3, <1>4 DEF OK, NEED_RESEED
  <2> HIDE DEF req_size
  <2> QED
    BY <1>0, <1>2, <1>3, <2>1, <2>2, DirectData
<1>5. CASE s # OK
  <2>1. output' = output \o <<>> /\ fence' = fence /\ calls' = calls
    BY <1>1, <1>5 DEF Write
  <2>2. output \in Seq(Nat) /\ calls \in Nat
    BY <1>0 DEF Data
  <2>3. output' = output
    BY <2>1, <2>2, ConcatEmptySeq
  <2>4. made' \in Nat /\ made <= made'
    BY <1>0, <1>3
  <2> QED
    BY <1>0, <1>2, <1>3, <2>1, <2>2, <2>3, <2>4, StillData
<1> QED
  BY <1>4, <1>5

\* The steps that touch neither the DRBG nor the cache, and the reseeds.
LEMMA OtherData ==
  ASSUME IInv, NEW t \in Threads,
         \/ Call(t) \/ GenerateLock(t) \/ GenerateReturn(t)
         \/ \E need \in BOOLEAN : GenerateNeedReseed(t, need)
         \/ \E s \in GetEntropyResults : GetEntropy(t, s)
         \/ \E s \in ReseedResults : GenerateReseed(t, s)
         \/ \E s \in ReseedResults : ReseedUser(t, s)
         \/ ForceLock(t)
         \/ \E g \in GetEntropyResults, s \in ReseedResults : ForceReseed(t, g, s)
  PROVE  Data' /\ Later
<1>0. Data /\ made \in Nat /\ counter \in Nat \ {0} /\ calls \in Nat
  BY DEF IInv, Data
<1>1. ASSUME UNCHANGED <<drbg, cache, output, fence>>, calls' \in {calls, calls + 1}
      PROVE  Data' /\ Later
  <2>1. made' = made /\ counter' = counter /\ UNCHANGED <<cache, output, fence>>
        /\ calls' \in Nat
    BY <1>0, <1>1 DEF drbg
  <2> QED
    BY <1>0, <2>1, StillData
<1>2. ASSUME UNCHANGED <<drbg, cache, history>> PROVE Data' /\ Later
  <2>1. UNCHANGED <<drbg, cache, output, fence>> /\ calls' \in {calls, calls + 1}
    BY <1>2 DEF history
  <2> QED
    BY <1>1, <2>1
<1>3. CASE GenerateCall(t)
  <2>1. UNCHANGED <<drbg, cache, output, fence>> /\ calls' \in {calls, calls + 1}
    BY <1>3 DEF GenerateCall
  <2> QED
    BY <1>1, <2>1
<1>4. CASE ReseedCall(t, "reseed_user") \/ ReseedCall(t, "reseed_force")
  BY <1>2, <1>4 DEF ReseedCall
<1>5. CASE GenerateLock(t)
  BY <1>2, <1>5 DEF GenerateLock
<1>6. CASE GenerateReturn(t)
  BY <1>2, <1>6 DEF GenerateReturn
<1>7. ASSUME NEW need \in BOOLEAN, GenerateNeedReseed(t, need) PROVE Data' /\ Later
  BY <1>2, <1>7 DEF GenerateNeedReseed
<1>8. ASSUME NEW s \in GetEntropyResults, GetEntropy(t, s) PROVE Data' /\ Later
  BY <1>2, <1>8 DEF GetEntropy
<1>9. ASSUME NEW s \in ReseedResults, GenerateReseed(t, s) PROVE Data' /\ Later
  BY <1>0, <1>2, <1>9, ReseedData DEF GenerateReseed
<1>10. ASSUME NEW s \in ReseedResults, ReseedUser(t, s) PROVE Data' /\ Later
  BY <1>0, <1>2, <1>10, ReseedData DEF ReseedUser
<1>11. CASE ForceLock(t)
  BY <1>2, <1>11 DEF ForceLock
<1>12. ASSUME NEW g \in GetEntropyResults, NEW s \in ReseedResults, ForceReseed(t, g, s)
       PROVE  Data' /\ Later
  BY <1>0, <1>2, <1>12, ReseedData DEF ForceReseed
<1> QED
  BY <1>3, <1>4, <1>5, <1>6, <1>7, <1>8, <1>9, <1>10, <1>11, <1>12 DEF Call

-----------------------------------------------------------------------------
(* The theorems. *)

LEMMA InitIInv == Init => IInv
<1> SUFFICES ASSUME Init PROVE IInv
  OBVIOUS
<1>1. NoFrame \in Frame /\ NoFrame.got = 0 /\ NoFrame.nbytes = 0 /\ NoFrame.asked = 0
      /\ NoFrame.drbg_status = OK
  BY NewFrame DEF NoFrame
<1>2. NoFrame.got + NoFrame.nbytes = NoFrame.asked
  BY <1>1
<1>3. Control
  <2>1. lock \in Threads \cup {NoThread} /\ aborted \in BOOLEAN
    BY DEF Init
  <2>2. pc \in [Threads -> Labels] /\ \A t \in Threads : pc[t] = "idle"
    BY LabelFacts DEF Init
  <2>3. ret \in [Threads -> Statuses]
    BY LabelFacts DEF Init
  <2>4. frame \in [Threads -> Frame] /\ \A t \in Threads : frame[t] = NoFrame
    BY <1>1 DEF Init
  <2>5. \A t \in Threads : ControlOf(t)
    BY <1>1, <1>2, <2>2, <2>4 DEF ControlOf, Inside
  <2> QED
    BY <2>1, <2>2, <2>3, <2>4, <2>5 DEF Control
<1>4. Data
  <2>1. /\ made = 0 /\ counter = 1 /\ fence = 0 /\ calls = 0 /\ pos = CacheSize
        /\ output = <<>> /\ CacheSize \in Nat
    BY SizesAssumption DEF Init
  <2>2. output \in Seq(Nat) /\ DOMAIN output = {}
    BY <2>1, EmptySeq, LenProperties
  <2>3. buf \in [Slots -> Nat] /\ \A i \in Slots : buf[i] = 0 /\ ~(pos <= i)
    BY <2>1 DEF Init, Slots
  <2>4. Units
    BY <2>1, <2>2, <2>3 DEF Units, NoReuse, Erased
  <2> QED
    BY <2>1, <2>2, <2>3, <2>4 DEF Data
<1> QED
  BY <1>3, <1>4 DEF IInv

LEMMA StepIInv ==
  ASSUME IInv, [Next]_vars
  PROVE  IInv' /\ Later
<1>1. CASE UNCHANGED vars
  <2>1. /\ lock' = lock /\ pc' = pc /\ frame' = frame /\ ret' = ret /\ aborted' = aborted
        /\ UNCHANGED <<made, counter, buf, pos, calls, output, fence>>
    BY <1>1 DEF vars, drbg, cache, history
  <2>2. Control'
    BY <2>1 DEF IInv, Control, ControlOf
  <2>3. Data' /\ Later
    BY <2>1 DEF IInv, Data, Units, NoReuse, Erased, Later
  <2> QED
    BY <2>2, <2>3 DEF IInv
<1>2. ASSUME NEW t \in Threads, Call(t) \/ Advance(t)
      PROVE  IInv' /\ Later
  <2>1. Control'
    BY <1>2, GenerateControl, ReseedControl, WrittenControl, CallerControl DEF Call, Advance
  <2>2. Data' /\ Later
    BY <1>2, OtherData, CachedData, DirectCallData DEF Advance
  <2> QED
    BY <2>1, <2>2 DEF IInv
<1> QED
  BY <1>1, <1>2 DEF Next

LEMMA Invariance == Spec => []IInv
<1>1. Init => IInv
  BY InitIInv
<1>2. IInv /\ [Next]_vars => IInv'
  BY StepIInv
<1> QED
  BY <1>1, <1>2, PTL DEF Spec

\* No unit of output is ever given out twice, and none that was cleared: across
\* threads, refills, chunks and reseeds (ccrng_csprng_generate's cache and DRBG).
THEOREM OutputOnce == Spec => []NoReuse
<1>1. IInv => NoReuse
  BY DEF IInv, Data, Units
<1> QED
  BY <1>1, Invariance, PTL

\* A unit that was given out is nowhere in the cache: taking and refilling clear it.
THEOREM GivenErased == Spec => []Erased
<1>1. IInv => Erased
  BY DEF IInv, Data, Units
<1> QED
  BY <1>1, Invariance, PTL

\* What was written and what is to come add up to the request, in every loop.
THEOREM RequestsComplete == Spec => []OutputComplete
<1>1. IInv => OutputComplete
  BY DEF IInv, Control, ControlOf, OutputComplete
<1> QED
  BY <1>1, Invariance, PTL

\* No step gives out a unit made before the last reseed: reseed_internal empties
\* the cache.
THEOREM OutputFresh == Spec => FreshAfterReseed
<1>1. IInv /\ [Next]_vars
        => [\A j \in DOMAIN output' \ DOMAIN output : output'[j] > fence]_<<output, fence>>
  BY StepIInv DEF Later
<1> QED
  BY <1>1, Invariance, PTL DEF Spec, FreshAfterReseed

\* A step that ends a call of generate is the return after the loop, or the one after
\* the last attempt to reseed, with an error and output still to come.
LEMMA EndOfGenerate ==
  ASSUME IInv, NEW t \in Threads, Next, pc[t] \in Generating, pc'[t] = "idle"
  PROVE  \/ GenerateReturn(t)
         \/ /\ frame[t].nbytes > 0
            /\ \E s \in Statuses \ {OK} : Return(t, s)
<1>1. pc \in [Threads -> Labels] /\ ControlOf(t)
  BY DEF IInv, Control
<1>2. PICK u \in Threads : Call(u) \/ Advance(u)
  BY DEF Next
<1>3. \E l : pc' = [pc EXCEPT ![u] = l]
  <2>1. CASE Call(u)
    BY <2>1 DEF Call, GenerateCall, ReseedCall, Goto
  <2>2. CASE GenerateLock(u) \/ GenerateReturn(u) \/ \E need \in BOOLEAN : GenerateNeedReseed(u, need)
    BY <2>2 DEF GenerateLock, GenerateReturn, GenerateNeedReseed, Goto, Return
  <2>3. CASE \/ \E s \in GetEntropyResults : GetEntropy(u, s)
             \/ \E s \in ReseedResults : (s # OK => DrbgFails) /\ GenerateReseed(u, s)
    BY <2>3 DEF GetEntropy, GenerateReseed, Retry, Goto, Return
  <2>4. CASE GenerateCached(u) \/ GenerateDirect(u)
    BY <2>4 DEF GenerateCached, GenerateDirect, Write, Goto
  <2>5. CASE \/ \E s \in ReseedResults : ReseedUser(u, s)
             \/ ForceLock(u)
             \/ \E g \in GetEntropyResults, s \in ReseedResults : ForceReseed(u, g, s)
    BY <2>5 DEF ReseedUser, ForceLock, ForceReseed, Goto
  <2> QED
    BY <1>2, <2>1, <2>2, <2>3, <2>4, <2>5 DEF Advance
<1>4. u = t
  BY <1>1, <1>3 DEF Generating
<1>5. ~Call(t)
  BY <1>1 DEF Call, GenerateCall, ReseedCall, Generating
<1>6. ~GenerateLock(t) /\ \A need \in BOOLEAN : ~GenerateNeedReseed(t, need)
  BY <1>1 DEF GenerateLock, GenerateNeedReseed, Goto
<1>7. ~GenerateCached(t) /\ ~GenerateDirect(t)
  BY <1>1 DEF GenerateCached, GenerateDirect, Write, Goto
<1>8. /\ \A s \in ReseedResults : ~ReseedUser(t, s)
      /\ ~ForceLock(t)
      /\ \A g \in GetEntropyResults, s \in ReseedResults : ~ForceReseed(t, g, s)
  BY <1>1 DEF ReseedUser, ForceLock, ForceReseed, Generating
<1>9. ASSUME NEW s \in GetEntropyResults, GetEntropy(t, s)
      PROVE  frame[t].nbytes > 0 /\ s \in Statuses \ {OK} /\ Return(t, s)
  <2>1. s # OK /\ Retry(t, s)
    BY <1>1, <1>9 DEF GetEntropy, Goto
  <2>2. Return(t, s)
    BY <1>1, <2>1 DEF Retry, Goto
  <2> QED
    BY <1>1, <1>9, <2>1, <2>2, LabelFacts DEF GetEntropy, ControlOf
<1>10. ASSUME NEW s \in ReseedResults, GenerateReseed(t, s)
       PROVE  frame[t].nbytes > 0 /\ s \in Statuses \ {OK} /\ Return(t, s)
  <2>1. s # OK /\ Retry(t, s)
    BY <1>1, <1>10 DEF GenerateReseed, Goto
  <2>2. Return(t, s)
    BY <1>1, <2>1 DEF Retry, Goto
  <2> QED
    BY <1>1, <1>10, <2>1, <2>2, LabelFacts DEF GenerateReseed, ControlOf
<1> QED
  BY <1>2, <1>4, <1>5, <1>6, <1>7, <1>8, <1>9, <1>10 DEF Advance

\* generate returns success when the buffer is full and only then, whichever of its two
\* ways out it takes.
THEOREM ReturnHonest == Spec => StatusHonest
<1>1. ASSUME IInv, Next, NEW t \in Threads, pc[t] \in Generating, pc'[t] = "idle"
      PROVE  ret'[t] = OK <=> frame[t].got = frame[t].asked
  <2>1. /\ ret \in [Threads -> Statuses]
        /\ frame[t] \in Frame /\ frame[t].got + frame[t].nbytes = frame[t].asked
        /\ (frame[t].nbytes = 0 => frame[t].drbg_status = OK)
    BY <1>1 DEF IInv, Control, ControlOf
  <2>2. frame[t].got \in Nat /\ frame[t].nbytes \in Nat /\ frame[t].asked \in Nat
    BY <2>1 DEF Frame
  <2>3. frame[t].nbytes = 0 <=> frame[t].got = frame[t].asked
    BY <2>1, <2>2
  <2>4. CASE GenerateReturn(t)
    <3>1. ret'[t] = frame[t].drbg_status /\ ~More(frame[t])
      BY <2>1, <2>4 DEF GenerateReturn, Return
    <3>2. frame[t].drbg_status = OK => frame[t].nbytes = 0
      BY <2>2, <3>1 DEF More
    <3> QED
      BY <2>1, <2>3, <3>1, <3>2
  <2>5. ASSUME frame[t].nbytes > 0, NEW s \in Statuses \ {OK}, Return(t, s)
        PROVE  ret'[t] # OK /\ frame[t].nbytes # 0
    BY <2>1, <2>2, <2>5 DEF Return
  <2> QED
    BY <1>1, <2>3, <2>4, <2>5, EndOfGenerate
<1>2. IInv /\ [Next]_vars
        => [\A t \in Threads : pc[t] \in Generating /\ pc'[t] = "idle" =>
              (ret'[t] = OK <=> frame[t].got = frame[t].asked)]_vars
  BY <1>1
<1> QED
  BY <1>2, Invariance, PTL DEF Spec, StatusHonest

-----------------------------------------------------------------------------
(* Beginnings and ends of sequences. *)

LEMMA TakeProperties ==
  ASSUME NEW S, NEW s \in Seq(S), NEW n \in 0 .. Len(s)
  PROVE  /\ Prefix(s, n) \in Seq(S)
         /\ Len(Prefix(s, n)) = n
         /\ \A i \in 1 .. n : Prefix(s, n)[i] = s[i]
<1>1. Len(s) \in Nat /\ \A i \in 1 .. n : s[i] \in S
  BY LenProperties, ElementOfSeq
<1>2. /\ SubSeq(s, 1, n) \in Seq(S)
      /\ Len(SubSeq(s, 1, n)) = IF 1 <= n THEN n - 1 + 1 ELSE 0
      /\ \A i \in 1 .. n - 1 + 1 : SubSeq(s, 1, n)[i] = s[1 + i - 1]
  BY <1>1, SubSeqProperties
<1> QED
  BY <1>1, <1>2 DEF Prefix

LEMMA DropProperties ==
  ASSUME NEW S, NEW s \in Seq(S), NEW n \in 0 .. Len(s)
  PROVE  /\ Drop(s, n) \in Seq(S)
         /\ Len(Drop(s, n)) = Len(s) - n
         /\ \A i \in 1 .. Len(s) - n : Drop(s, n)[i] = s[n + i]
<1>1. Len(s) \in Nat /\ \A i \in n + 1 .. Len(s) : s[i] \in S
  BY LenProperties, ElementOfSeq
<1>2. /\ SubSeq(s, n + 1, Len(s)) \in Seq(S)
      /\ Len(SubSeq(s, n + 1, Len(s)))
           = IF n + 1 <= Len(s) THEN Len(s) - (n + 1) + 1 ELSE 0
      /\ \A i \in 1 .. Len(s) - (n + 1) + 1 :
           SubSeq(s, n + 1, Len(s))[i] = s[(n + 1) + i - 1]
  BY <1>1, SubSeqProperties
<1> QED
  BY <1>1, <1>2 DEF Drop

-----------------------------------------------------------------------------
(* The inductive invariant. *)

Byte == Nat \X Nat
Parts == {"load", "host", "store"}
Loading == {"load_open", "load_read", "load_write"}
BeforeStore == Loading \union {"host", "store_entropy", "store_open"}
Storing == {"store_owner", "store_write"}
Places == BeforeStore \union Storing \union {"exit", "off"}

\* The bytes of q are those of seed s from its start.
Begins(q, s) == \A i \in 1 .. Len(q) : q[i] = <<s, i>>

Types ==
  /\ boot \in Boots /\ call \in Places /\ offset \in Nat
  /\ file \in Seq(Byte) /\ atBoot \in Seq(Byte) /\ bytes \in Seq(Byte) /\ device \in Seq(Byte)
  /\ err \subseteq Parts
  /\ loaded \in [Boots -> SUBSET Byte] /\ completed \subseteq Boots

\* The file begins one seed: of an earlier boot until it is truncated, then this
\* boot's; and no older than the last seed that was stored in full.
FileInv ==
  /\ Len(file) <= SeedSize
  /\ \E s \in 0 .. MaxBoots :
       /\ Begins(file, s) /\ s <= boot
       /\ call \in BeforeStore => s < boot
       /\ call \in Storing \/ (call = "exit" /\ "store" \notin err) => s = boot
       /\ \A b \in completed : b <= s

\* Where the load is in the file.
LoadInv ==
  /\ call \in Loading => file = atBoot
  /\ call = "load_open" => bytes = <<>> /\ device = <<>>
  /\ call \in {"load_read", "load_write"} =>
       /\ Len(device) + Len(bytes) = offset /\ offset <= Len(atBoot)
       /\ \A i \in 1 .. Len(device) : device[i] = atBoot[i]
       /\ \A i \in 1 .. Len(bytes) : bytes[i] = atBoot[Len(device) + i]
  /\ call = "load_read" => bytes = <<>>

\* All the load gave the kernel: LoadedInFull with the lengths spelled out.
FullInv ==
  call \notin Loading \union {"off"} /\ "load" \notin err =>
    /\ Len(atBoot) <= Len(device)
    /\ \A i \in 1 .. Len(atBoot) : device[i] = atBoot[i]

\* Where the store is in the seed.
StoreInv ==
  /\ call \in {"store_open", "store_owner"} => bytes = Seed(boot)
  /\ call = "store_owner" => offset = 0
  /\ call \in Storing => Len(file) = offset
  /\ call = "store_write" => /\ Len(bytes) = SeedSize - offset /\ offset <= SeedSize
                           /\ \A i \in 1 .. Len(bytes) : bytes[i] = <<boot, offset + i>>

\* A boot is given seeds of earlier boots, but not of those before the last
\* that completed.
LoadedInv ==
  /\ \A b \in completed : b <= boot
  /\ boot \in completed => call = "off"
  /\ \A c \in Boots : c > boot => loaded[c] = {}
  /\ \A c \in Boots : \A x \in loaded[c] :
       x[1] < c /\ \A b \in completed : b < c => b <= x[1]

SeedInv == Types /\ FileInv /\ LoadInv /\ StoreInv /\ LoadedInv /\ FullInv

LEMMA SeedProperties ==
  ASSUME NEW s \in Nat
  PROVE  Seed(s) \in Seq(Byte) /\ Len(Seed(s)) = SeedSize /\ Begins(Seed(s), s)
<1>1. SeedSize \in Nat
  BY SeedFileAssumption
<1>2. Seed(s) \in [1 .. SeedSize -> Byte]
  BY <1>1 DEF Seed, Byte
<1>3. Seed(s) \in Seq(Byte) /\ Len(Seed(s)) = SeedSize
  BY <1>1, <1>2
<1> QED
  BY <1>1, <1>3 DEF Seed, Begins

LEMMA InitSeedInv == SeedInit => SeedInv
<1> SUFFICES ASSUME SeedInit PROVE SeedInv
  OBVIOUS
<1> USE SeedFileAssumption
<1>1. Seed(0) \in Seq(Byte) /\ Begins(Seed(0), 0) /\ <<>> \in Seq(Byte)
  BY SeedProperties, EmptySeq
<1>2. Types
  BY <1>1 DEF SeedInit, Types, Boots, Places, BeforeStore, Loading
<1>3. FileInv
  <2>1. /\ 0 \in 0 .. MaxBoots /\ boot = 1 /\ call = "load_open" /\ completed = {}
        /\ file = Seed(0) /\ Len(file) <= SeedSize
    BY SeedProperties DEF SeedInit
  <2> QED
    BY <1>1, <2>1 DEF FileInv, Storing, BeforeStore, Loading
<1>4. LoadInv /\ StoreInv /\ LoadedInv /\ FullInv
  BY DEF SeedInit, LoadInv, StoreInv, LoadedInv, FullInv, Storing, Loading, Boots
<1> QED
  BY <1>2, <1>3, <1>4 DEF SeedInv

-----------------------------------------------------------------------------
(* Each step preserves the invariant. *)

\* A step that leaves the file, the seeds loaded and the boot alone preserves
\* what is said of them, if it does not come from before the store or the end.
LEMMA FileKept ==
  ASSUME Types, FileInv, UNCHANGED <<boot, file, completed>>,
         call' \in BeforeStore => call \in BeforeStore,
         call' \in Storing => call \in Storing,
         call' = "exit" /\ "store" \notin err' =>
           call \in Storing \/ (call = "exit" /\ "store" \notin err)
  PROVE  FileInv'
<1> PICK s \in 0 .. MaxBoots :
      /\ Begins(file, s) /\ s <= boot
      /\ call \in BeforeStore => s < boot
      /\ call \in Storing \/ (call = "exit" /\ "store" \notin err) => s = boot
      /\ \A b \in completed : b <= s
  BY DEF FileInv
<1>1. Begins(file, s)'
  BY DEF Begins
<1> QED
  BY <1>1 DEF FileInv

LEMMA LoadedKept ==
  ASSUME LoadedInv, UNCHANGED <<boot, loaded, completed>>, boot \in completed => call' = "off"
  PROVE  LoadedInv'
BY DEF LoadedInv

LEMMA LoadOpenStep == ASSUME SeedInv, LoadOpen PROVE SeedInv'
<1>1. Types'
  <2>1. call' \in Places /\ offset' \in Nat /\ err' \subseteq Parts
    <3>1. CASE At("load_open", "load_read") /\ offset' = 0 /\ UNCHANGED err
      BY <3>1 DEF SeedInv, Types, At, Places, BeforeStore, Loading
    <3>2. CASE At("load_open", "host") /\ Failed("load") /\ UNCHANGED offset
      BY <3>2 DEF SeedInv, Types, At, Failed, Places, BeforeStore, Parts
    <3> QED
      BY <3>1, <3>2 DEF LoadOpen
  <2> QED
    BY <2>1 DEF SeedInv, Types, LoadOpen
<1>2. FileInv'
  <2>1. /\ UNCHANGED <<boot, file, completed>> /\ call = "load_open"
        /\ call' \in {"load_read", "host"}
    BY DEF LoadOpen, At
  <2> QED
    BY <2>1, FileKept DEF SeedInv, BeforeStore, Storing, Loading
<1>3. LoadInv'
  <2>1. Len(<<>>) = 0 /\ Len(atBoot) \in Nat
    BY LenProperties DEF SeedInv, Types
  <2>2. CASE At("load_open", "load_read") /\ offset' = 0
    BY <2>1, <2>2 DEF SeedInv, LoadInv, LoadOpen, At, Loading
  <2>3. CASE At("load_open", "host")
    BY <2>3 DEF LoadInv, At, Loading
  <2> QED
    BY <2>2, <2>3 DEF LoadOpen
<1>4. StoreInv'
  BY DEF StoreInv, LoadOpen, At, Storing
<1>5. LoadedInv'
  BY LoadedKept DEF SeedInv, LoadedInv, LoadOpen, At
<1>6. FullInv'
  BY DEF FullInv, LoadOpen, At, Failed, Loading
<1> QED
  BY <1>1, <1>2, <1>3, <1>4, <1>5, <1>6 DEF SeedInv

LEMMA LoadReadStep == ASSUME SeedInv, LoadRead PROVE SeedInv'
<1> DEFINE rest == Drop(file, offset)
<1>1. /\ call = "load_read" /\ call' \in {"load_write", "host"}
      /\ UNCHANGED <<boot, file, device, atBoot, loaded, completed>>
  BY DEF LoadRead, At
<1>2. /\ file = atBoot /\ bytes = <<>> /\ Len(device) = offset /\ offset \in 0 .. Len(file)
      /\ \A i \in 1 .. Len(device) : device[i] = atBoot[i]
  <2>1. Len(<<>>) = 0 /\ Len(device) \in Nat
    BY LenProperties DEF SeedInv, Types
  <2> QED
    BY <1>1, <2>1 DEF SeedInv, LoadInv, Types, Loading
<1>3. /\ rest \in Seq(Byte) /\ Len(rest) = Len(file) - offset /\ Len(rest) \in Nat
      /\ \A i \in 1 .. Len(rest) : rest[i] = file[offset + i]
  BY <1>2, DropProperties, LenProperties DEF SeedInv, Types
<1>4. FileInv'
  BY <1>1, FileKept DEF SeedInv, BeforeStore, Storing, Loading
<1>5. StoreInv'
  BY <1>1 DEF StoreInv, Storing
<1>6. LoadedInv'
  BY <1>1, LoadedKept DEF SeedInv, LoadedInv
<1>7. CASE At("load_read", "host") /\ Failed("load") /\ UNCHANGED <<offset, bytes>>
  <2>1. Types'
    BY <1>1, <1>7 DEF SeedInv, Types, Failed, At, Places, BeforeStore, Parts
  <2>2. LoadInv' /\ FullInv'
    BY <1>1, <1>7 DEF LoadInv, FullInv, Failed, At, Loading
  <2> QED
    BY <1>4, <1>5, <1>6, <2>1, <2>2 DEF SeedInv
<1>8. CASE rest = <<>> /\ At("load_read", "host") /\ UNCHANGED <<err, offset, bytes>>
  <2>1. Types'
    BY <1>1, <1>8 DEF SeedInv, Types, At, Places, BeforeStore
  <2>2. LoadInv'
    BY <1>1, <1>8 DEF LoadInv, At, Loading
  <2>3. Len(device) = Len(atBoot) /\ Len(device) \in Nat
    BY <1>2, <1>3, <1>8, LenProperties, EmptySeq DEF SeedInv, Types
  <2>4. FullInv'
    BY <1>1, <1>2, <2>3 DEF FullInv
  <2> QED
    BY <1>4, <1>5, <1>6, <2>1, <2>2, <2>4 DEF SeedInv
<1>9. ASSUME NEW n \in 1 .. Least(SeedSize, Len(rest)),
             At("load_read", "load_write"), bytes' = Prefix(rest, n), offset' = offset + n,
             UNCHANGED err
      PROVE  SeedInv'
  <2>1. n \in 0 .. Len(rest) /\ n \in Nat
    BY <1>3, <1>9, SeedFileAssumption DEF Least
  <2>2. /\ bytes' \in Seq(Byte) /\ Len(bytes') = n
        /\ \A i \in 1 .. n : bytes'[i] = rest[i]
    BY <1>3, <1>9, <2>1, TakeProperties
  <2>3. Types'
    BY <1>1, <1>9, <2>1, <2>2 DEF SeedInv, Types, At, Places, BeforeStore, Loading
  <2>4. LoadInv'
    <3>1. ASSUME NEW i \in 1 .. n PROVE bytes'[i] = atBoot[Len(device) + i]
      <4>1. i \in 1 .. Len(rest) /\ bytes'[i] = rest[i]
        BY <1>3, <2>1, <2>2
      <4> QED
        BY <1>2, <1>3, <4>1
    <3>2. /\ file' = atBoot' /\ Len(device)' + Len(bytes)' = offset' /\ offset' <= Len(atBoot)'
          /\ call' = "load_write"
      BY <1>1, <1>2, <1>3, <1>9, <2>1, <2>2 DEF At
    <3> QED
      BY <1>1, <1>2, <2>2, <3>1, <3>2 DEF LoadInv, Loading
  <2>5. FullInv'
    BY <1>9 DEF FullInv, At, Loading
  <2> QED
    BY <1>4, <1>5, <1>6, <2>3, <2>4, <2>5 DEF SeedInv
<1> QED
  BY <1>7, <1>8, <1>9 DEF LoadRead

LEMMA LoadWriteStep == ASSUME SeedInv, LoadWrite PROVE SeedInv'
<1>1. /\ call = "load_write" /\ call' \in {"load_read", "load_write", "host"}
      /\ UNCHANGED <<boot, file, offset, atBoot, completed>>
  BY DEF LoadWrite, At
<1>2. FileInv'
  BY <1>1, FileKept DEF SeedInv, BeforeStore, Storing, Loading
<1>3. StoreInv'
  BY <1>1 DEF StoreInv, Storing
<1>4. CASE At("load_write", "host") /\ Failed("load") /\ UNCHANGED <<bytes, device, loaded>>
  <2>1. Types'
    BY <1>1, <1>4 DEF SeedInv, Types, Failed, At, Places, BeforeStore, Parts
  <2>2. LoadInv' /\ FullInv'
    BY <1>1, <1>4 DEF LoadInv, FullInv, Failed, At, Loading
  <2>3. LoadedInv'
    BY <1>1, <1>4, LoadedKept DEF SeedInv, LoadedInv
  <2> QED
    BY <1>2, <1>3, <2>1, <2>2, <2>3 DEF SeedInv
<1>5. ASSUME NEW m \in 1 .. Len(bytes),
             At("load_write", IF m = Len(bytes) THEN "load_read" ELSE "load_write"),
             device' = device \o Prefix(bytes, m),
             loaded' = [loaded EXCEPT ![boot] = @ \union {bytes[i] : i \in 1 .. m}],
             bytes' = Drop(bytes, m), UNCHANGED err
      PROVE  SeedInv'
  <2>1. /\ Len(bytes) \in Nat /\ Len(device) \in Nat /\ Len(atBoot) \in Nat
        /\ m \in 0 .. Len(bytes) /\ m \in Nat
    BY LenProperties DEF SeedInv, Types
  <2>2. /\ Prefix(bytes, m) \in Seq(Byte) /\ Len(Prefix(bytes, m)) = m
        /\ \A i \in 1 .. m : Prefix(bytes, m)[i] = bytes[i]
    BY <2>1, TakeProperties DEF SeedInv, Types
  <2>3. /\ bytes' \in Seq(Byte) /\ Len(bytes') = Len(bytes) - m
        /\ \A i \in 1 .. Len(bytes) - m : bytes'[i] = bytes[m + i]
    BY <1>5, <2>1, DropProperties DEF SeedInv, Types
  <2>4. /\ device' \in Seq(Byte) /\ Len(device') = Len(device) + m
        /\ \A i \in 1 .. Len(device) + m :
             device'[i] = IF i <= Len(device) THEN device[i] ELSE Prefix(bytes, m)[i - Len(device)]
    <3> DEFINE piece == Prefix(bytes, m)
    <3>1. piece \in Seq(Byte) /\ Len(piece) = m /\ device \in Seq(Byte) /\ device' = device \o piece
      BY <1>5, <2>2 DEF SeedInv, Types
    <3> HIDE DEF piece
    <3>2. /\ device \o piece \in Seq(Byte) /\ Len(device \o piece) = Len(device) + Len(piece)
          /\ \A i \in 1 .. Len(device) + Len(piece) :
               (device \o piece)[i] = IF i <= Len(device) THEN device[i] ELSE piece[i - Len(device)]
      BY <3>1, ConcatProperties
    <3>3. /\ device' \in Seq(Byte) /\ Len(device') = Len(device) + m
          /\ \A i \in 1 .. Len(device) + m :
               device'[i] = IF i <= Len(device) THEN device[i] ELSE piece[i - Len(device)]
      BY <3>1, <3>2
    <3> QED
      BY <3>3 DEF piece
  <2>5. /\ file = atBoot /\ Len(device) + Len(bytes) = offset /\ offset <= Len(atBoot)
        /\ \A i \in 1 .. Len(device) : device[i] = atBoot[i]
        /\ \A i \in 1 .. Len(bytes) : bytes[i] = atBoot[Len(device) + i]
    BY <1>1 DEF SeedInv, LoadInv, Loading
  <2>6. \A i \in 1 .. m : bytes[i] \in Byte
    BY <2>1, ElementOfSeq DEF SeedInv, Types
  <2>7. boot \in Boots /\ loaded \in [Boots -> SUBSET Byte]
    BY DEF SeedInv, Types
  <2>8. loaded' \in [Boots -> SUBSET Byte]
    BY <1>5, <2>6, <2>7
  <2>9. Types'
    <3>1. call' \in Places
      BY <1>1 DEF Places, BeforeStore, Loading
    <3> QED
      BY <1>1, <1>5, <2>3, <2>4, <2>8, <3>1 DEF SeedInv, Types
  <2>10. call' = "load_read" => bytes' = <<>>
    BY <1>5, <2>1, <2>3, EmptySeq DEF At
  <2>11. LoadInv'
    <3>1. ASSUME NEW i \in 1 .. Len(device') PROVE device'[i] = atBoot[i]
      <4>1. i \in 1 .. Len(device) + m /\ i \in Nat
        BY <2>1, <2>4
      <4>2. CASE i <= Len(device)
        BY <2>1, <2>4, <2>5, <4>1, <4>2
      <4>3. CASE i > Len(device)
        <5>1. i - Len(device) \in 1 .. m /\ i - Len(device) \in 1 .. Len(bytes)
          BY <2>1, <4>1, <4>3
        <5>2. device'[i] = bytes[i - Len(device)]
          BY <2>1, <2>2, <2>4, <4>1, <4>3, <5>1
        <5>3. bytes[i - Len(device)] = atBoot[Len(device) + (i - Len(device))]
          BY <2>5, <5>1
        <5> QED
          BY <2>1, <4>1, <5>2, <5>3
      <4> QED
        BY <2>1, <4>1, <4>2, <4>3
    <3>2. ASSUME NEW i \in 1 .. Len(bytes') PROVE bytes'[i] = atBoot[Len(device') + i]
      <4>1. i \in 1 .. Len(bytes) - m /\ m + i \in 1 .. Len(bytes)
        BY <2>1, <2>3
      <4>2. bytes'[i] = bytes[m + i] /\ bytes[m + i] = atBoot[Len(device) + (m + i)]
        BY <2>3, <2>5, <4>1
      <4> QED
        BY <2>1, <2>4, <4>1, <4>2
    <3>3. call' \in {"load_read", "load_write"} /\ Len(device') + Len(bytes') = offset
      BY <1>5, <2>1, <2>3, <2>4, <2>5 DEF At
    <3> QED
      BY <1>1, <2>5, <2>10, <3>1, <3>2, <3>3 DEF LoadInv, Loading
  <2>12. FullInv'
    BY <1>5 DEF FullInv, At, Loading
  <2>13. LoadedInv'
    <3>1. PICK s \in 0 .. MaxBoots :
            Begins(file, s) /\ s < boot /\ \A b \in completed : b <= s
      BY <1>1 DEF SeedInv, FileInv, BeforeStore, Loading
    <3>2. ASSUME NEW i \in 1 .. m PROVE bytes[i][1] = s
      <4>1. i \in 1 .. Len(bytes) /\ Len(device) + i \in 1 .. Len(file)
        BY <2>1, <2>5
      <4>2. bytes[i] = <<s, Len(device) + i>>
        BY <2>5, <3>1, <4>1 DEF Begins
      <4> QED
        BY <4>2
    <3>3. boot \notin completed
      BY <1>1 DEF SeedInv, LoadedInv
    <3>4. \A c \in Boots : loaded'[c] =
             IF c = boot THEN loaded[c] \union {bytes[i] : i \in 1 .. m} ELSE loaded[c]
      BY <1>5, <2>7
    <3>5. boot \in Nat
      BY <2>7, SeedFileAssumption DEF Boots
    <3>6. \A c \in Boots : c > boot => loaded'[c] = {}
      <4>1. \A c \in Boots : c > boot => c # boot
        BY <3>5 DEF Boots
      <4> QED
        BY <3>4, <4>1 DEF SeedInv, LoadedInv
    <3>7. \A c \in Boots : \A x \in loaded'[c] :
            x[1] < c /\ \A b \in completed : b < c => b <= x[1]
      <4> SUFFICES ASSUME NEW c \in Boots, NEW x \in loaded'[c]
                   PROVE  x[1] < c /\ \A b \in completed : b < c => b <= x[1]
        OBVIOUS
      <4>1. CASE x \in loaded[c]
        BY <4>1 DEF SeedInv, LoadedInv
      <4>2. CASE c = boot /\ x \in {bytes[i] : i \in 1 .. m}
        BY <3>1, <3>2, <4>2
      <4> QED
        BY <3>4, <4>1, <4>2
    <3> QED
      BY <1>1, <3>3, <3>6, <3>7 DEF SeedInv, LoadedInv
  <2> QED
    BY <1>2, <1>3, <2>9, <2>11, <2>12, <2>13 DEF SeedInv
<1> QED
  BY <1>4, <1>5 DEF LoadWrite

\* Once the load is over the bytes of the host come after those of the file.
LEMMA HostWriteStep == ASSUME SeedInv, HostWrite PROVE SeedInv'
<1>1. /\ call = "host" /\ call' = "store_entropy"
      /\ UNCHANGED <<boot, file, offset, bytes, atBoot, loaded, completed>>
  BY DEF HostWrite, At
<1>2. PICK n \in 0 .. SeedSize :
        /\ device' = device \o Prefix(Seed(HostSeed), n)
        /\ IF n < SeedSize THEN Failed("host") ELSE UNCHANGED err
  BY DEF HostWrite
<1> DEFINE piece == Prefix(Seed(HostSeed), n)
<1>3. piece \in Seq(Byte) /\ device \in Seq(Byte) /\ device' = device \o piece
  <2>1. HostSeed \in Nat /\ SeedSize \in Nat
    BY SeedFileAssumption DEF HostSeed
  <2>2. Seed(HostSeed) \in Seq(Byte) /\ Len(Seed(HostSeed)) = SeedSize
    BY <2>1, SeedProperties
  <2> QED
    BY <1>2, <2>1, <2>2, TakeProperties DEF SeedInv, Types
<1> HIDE DEF piece
<1>4. /\ device' \in Seq(Byte) /\ Len(device') = Len(device) + Len(piece)
      /\ \A i \in 1 .. Len(device) + Len(piece) :
           device'[i] = IF i <= Len(device) THEN device[i] ELSE piece[i - Len(device)]
      /\ Len(device) \in Nat /\ Len(piece) \in Nat /\ Len(atBoot) \in Nat
  BY <1>3, ConcatProperties, LenProperties DEF SeedInv, Types
<1>5. err' \subseteq Parts /\ err \subseteq err' /\ ("load" \in err' => "load" \in err)
      /\ ("store" \in err' => "store" \in err)
  BY <1>2 DEF Failed, SeedInv, Types, Parts
<1>6. Types'
  BY <1>1, <1>4, <1>5 DEF SeedInv, Types, Places, BeforeStore
<1>7. FileInv'
  BY <1>1, FileKept DEF SeedInv, BeforeStore, Storing, Loading
<1>8. LoadInv' /\ StoreInv'
  BY <1>1 DEF LoadInv, StoreInv, Loading, Storing
<1>9. LoadedInv'
  BY <1>1, LoadedKept DEF SeedInv, LoadedInv
<1>10. FullInv'
  <2> SUFFICES ASSUME "load" \notin err'
               PROVE  /\ Len(atBoot) <= Len(device')
                      /\ \A i \in 1 .. Len(atBoot) : device'[i] = atBoot[i]
    BY <1>1 DEF FullInv
  <2>1. /\ Len(atBoot) <= Len(device)
        /\ \A i \in 1 .. Len(atBoot) : device[i] = atBoot[i]
    BY <1>1, <1>5 DEF SeedInv, FullInv, Loading
  <2> QED
    BY <1>4, <2>1
<1> QED
  BY <1>6, <1>7, <1>8, <1>9, <1>10 DEF SeedInv

\* What a step of the store, or after it, leaves alone.
LEMMA AfterLoad ==
  ASSUME SeedInv, call \notin Loading, call' \notin Loading, call # "off",
         UNCHANGED <<boot, device, atBoot, loaded, completed>>, err \subseteq err'
  PROVE  LoadInv' /\ LoadedInv' /\ FullInv'
<1>1. LoadInv' /\ FullInv'
  BY DEF SeedInv, LoadInv, FullInv, Loading
<1>2. boot \notin completed
  BY DEF SeedInv, LoadedInv
<1> QED
  BY <1>1, <1>2, LoadedKept DEF SeedInv

LEMMA StoreEntropyStep == ASSUME SeedInv, StoreEntropy PROVE SeedInv'
<1>1. /\ call = "store_entropy" /\ call' \in {"store_open", "exit"}
      /\ UNCHANGED <<boot, file, offset, device, atBoot, loaded, completed>>
      /\ err' \in {err, err \union {"store"}} /\ bytes' \in {bytes, Seed(boot)}
      /\ call' = "store_open" => bytes' = Seed(boot)
      /\ call' = "exit" => "store" \in err'
  BY DEF StoreEntropy, At, Failed
<1>2. boot \in Nat /\ Seed(boot) \in Seq(Byte)
  BY SeedProperties, SeedFileAssumption DEF SeedInv, Types, Boots
<1>3. Types'
  <2>1. call' \in Places
    BY <1>1 DEF Places, BeforeStore
  <2>2. err' \subseteq Parts
    BY <1>1 DEF SeedInv, Types, Parts
  <2>3. bytes' \in Seq(Byte)
    BY <1>1, <1>2 DEF SeedInv, Types
  <2> QED
    BY <1>1, <2>1, <2>2, <2>3 DEF SeedInv, Types
<1>4. FileInv'
  BY <1>1, FileKept DEF SeedInv, BeforeStore, Storing, Loading
<1>5. StoreInv'
  BY <1>1 DEF StoreInv, Storing
<1> QED
  BY <1>1, <1>3, <1>4, <1>5, AfterLoad DEF SeedInv, Loading

\* The file that is truncated is a beginning of this boot's seed.
LEMMA StoreOpenStep == ASSUME SeedInv, StoreOpen PROVE SeedInv'
<1>1. /\ call = "store_open" /\ call' \in {"store_owner", "exit"}
      /\ UNCHANGED <<boot, bytes, device, atBoot, loaded, completed>>
      /\ err' \in {err, err \union {"store"}}
      /\ call' = "store_owner" => file' = <<>> /\ offset' = 0
      /\ call' = "exit" => "store" \in err' /\ UNCHANGED <<file, offset>>
  BY DEF StoreOpen, At, Failed
<1>2. boot \in 0 .. MaxBoots /\ \A b \in completed : b <= boot
  BY SeedFileAssumption DEF SeedInv, Types, Boots, LoadedInv
<1>3. Types'
  <2>1. call' \in Places
    BY <1>1 DEF Places, Storing
  <2>2. err' \subseteq Parts
    BY <1>1 DEF SeedInv, Types, Parts
  <2>3. file' \in Seq(Byte) /\ offset' \in Nat
    <3>1. <<>> \in Seq(Byte) /\ file \in Seq(Byte) /\ offset \in Nat
      BY EmptySeq DEF SeedInv, Types
    <3>2. CASE call' = "store_owner"
      BY <1>1, <3>1, <3>2
    <3>3. CASE call' = "exit"
      BY <1>1, <3>1, <3>3
    <3> QED
      BY <1>1, <3>2, <3>3
  <2> QED
    BY <1>1, <2>1, <2>2, <2>3 DEF SeedInv, Types
<1>4. FileInv'
  <2>1. CASE call' = "exit"
    BY <1>1, <2>1, FileKept DEF SeedInv, BeforeStore, Storing, Loading
  <2>2. CASE call' = "store_owner"
    <3>1. Begins(file', boot) /\ Len(file') <= SeedSize
      BY <1>1, <2>2, EmptySeq, SeedFileAssumption DEF Begins
    <3> QED
      BY <1>1, <1>2, <2>2, <3>1 DEF FileInv, BeforeStore, Storing, Loading, Begins
  <2> QED
    BY <1>1, <2>1, <2>2
<1>5. StoreInv'
  <2>1. CASE call' = "exit"
    BY <2>1 DEF StoreInv, Storing
  <2>2. CASE call' = "store_owner"
    BY <1>1, <2>2 DEF SeedInv, StoreInv, Storing
  <2> QED
    BY <1>1, <2>1, <2>2
<1> QED
  BY <1>1, <1>3, <1>4, <1>5, AfterLoad DEF SeedInv, Loading

LEMMA StoreOwnerStep == ASSUME SeedInv, StoreOwner PROVE SeedInv'
<1>1. /\ call = "store_owner" /\ call' \in {"store_write", "exit"}
      /\ UNCHANGED <<boot, file, offset, bytes, device, atBoot, loaded, completed>>
      /\ err' \in {err, err \union {"store"}}
      /\ call' = "exit" => "store" \in err'
  BY DEF StoreOwner, At, Failed
<1>2. Types'
  BY <1>1 DEF SeedInv, Types, Places, Storing, Parts
<1>3. FileInv'
  BY <1>1, FileKept DEF SeedInv, BeforeStore, Storing, Loading
<1>4. StoreInv'
  <2>1. boot \in Nat /\ SeedSize \in Nat /\ bytes = Seed(boot) /\ offset = 0 /\ Len(file) = offset
    BY <1>1, SeedFileAssumption DEF SeedInv, Types, Boots, StoreInv, Storing
  <2>2. Len(bytes) = SeedSize /\ \A i \in 1 .. Len(bytes) : bytes[i] = <<boot, offset + i>>
    BY <2>1, SeedProperties DEF Begins
  <2> QED
    BY <1>1, <2>1, <2>2 DEF StoreInv, Storing
<1> QED
  BY <1>1, <1>2, <1>3, <1>4, AfterLoad DEF SeedInv, Loading

\* A write takes up where the last one ended.
LEMMA StoreWriteStep == ASSUME SeedInv, StoreWrite PROVE SeedInv'
<1>1. /\ call = "store_write" /\ call' \in {"store_write", "exit"}
      /\ UNCHANGED <<boot, device, atBoot, loaded, completed>>
  BY DEF StoreWrite, At
<1>2. CASE At("store_write", "exit") /\ Failed("store") /\ UNCHANGED <<file, offset, bytes>>
  <2>1. Types'
    BY <1>1, <1>2 DEF SeedInv, Types, Places, Parts, Failed
  <2>2. FileInv'
    BY <1>1, <1>2, FileKept DEF SeedInv, BeforeStore, Storing, Loading, Failed, At
  <2>3. StoreInv'
    BY <1>2 DEF StoreInv, Storing, At
  <2>4. err \subseteq err'
    BY <1>2 DEF Failed
  <2> QED
    BY <1>1, <2>1, <2>2, <2>3, <2>4, AfterLoad DEF SeedInv, Loading
<1>3. ASSUME NEW m \in 1 .. Len(bytes),
             At("store_write", IF m = Len(bytes) THEN "exit" ELSE "store_write"),
             file' = Prefix(file, Least(offset, Len(file))) \o Prefix(bytes, m)
                       \o Drop(file, Least(offset + m, Len(file))),
             offset' = offset + m, bytes' = Drop(bytes, m), UNCHANGED err
      PROVE  SeedInv'
  <2>1. /\ Len(file) = offset /\ Len(bytes) = SeedSize - offset /\ offset <= SeedSize
        /\ \A i \in 1 .. Len(bytes) : bytes[i] = <<boot, offset + i>>
        /\ file \in Seq(Byte) /\ bytes \in Seq(Byte) /\ offset \in Nat
    BY <1>1 DEF SeedInv, Types, StoreInv, Storing
  <2>2. SeedSize \in Nat /\ Len(bytes) \in Nat /\ m \in 0 .. Len(bytes) /\ m \in Nat
    BY <2>1, SeedFileAssumption, LenProperties
  <2>3. Least(offset, Len(file)) = Len(file) /\ Least(offset + m, Len(file)) = Len(file)
    BY <2>1, <2>2 DEF Least
  <2> DEFINE piece == Prefix(bytes, m)
             front == Prefix(file, Len(file))
             back == Drop(file, Len(file))
  <2>4. /\ front = file /\ back = <<>>
    BY <2>1, SubSeqFull, SubSeqEmpty DEF Prefix, Drop
  <2>5. /\ piece \in Seq(Byte) /\ Len(piece) = m
        /\ \A i \in 1 .. m : piece[i] = bytes[i]
    BY <2>1, <2>2, TakeProperties
  <2>6. file' = front \o piece \o back
    BY <1>3, <2>3
  <2> HIDE DEF piece, front, back
  <2>7. /\ file \o piece \in Seq(Byte) /\ Len(file \o piece) = offset + m
        /\ \A i \in 1 .. offset + m :
             (file \o piece)[i] = IF i <= offset THEN file[i] ELSE piece[i - offset]
    <3>1. /\ file \o piece \in Seq(Byte) /\ Len(file \o piece) = Len(file) + Len(piece)
          /\ \A i \in 1 .. Len(file) + Len(piece) :
               (file \o piece)[i] = IF i <= Len(file) THEN file[i] ELSE piece[i - Len(file)]
      BY <2>1, <2>5, ConcatProperties
    <3> QED
      BY <2>1, <2>5, <3>1
  <2>8. file' = file \o piece
    BY <2>4, <2>6, <2>7, ConcatEmptySeq
  <2>9. /\ bytes' \in Seq(Byte) /\ Len(bytes') = Len(bytes) - m
        /\ \A i \in 1 .. Len(bytes) - m : bytes'[i] = bytes[m + i]
    BY <1>3, <2>1, <2>2, DropProperties
  <2>10. Types'
    <3>1. call' \in Places
      BY <1>1 DEF Places, Storing
    <3>2. file' \in Seq(Byte)
      BY <2>7, <2>8
    <3>3. bytes' \in Seq(Byte) /\ offset' \in Nat
      BY <1>3, <2>1, <2>2, <2>9
    <3> QED
      BY <1>1, <1>3, <3>1, <3>2, <3>3 DEF SeedInv, Types
  <2>11. FileInv'
    <3>1. PICK s \in 0 .. MaxBoots :
            Begins(file, s) /\ s = boot /\ \A b \in completed : b <= s
      BY <1>1 DEF SeedInv, FileInv, Storing
    <3>2. ASSUME NEW i \in 1 .. Len(file') PROVE file'[i] = <<boot, i>>
      <4>1. i \in 1 .. offset + m /\ i \in Nat
        BY <2>1, <2>2, <2>7, <2>8
      <4>2. CASE i <= offset
        BY <2>1, <2>2, <2>7, <2>8, <3>1, <4>1, <4>2 DEF Begins
      <4>3. CASE i > offset
        <5>1. i - offset \in 1 .. m /\ i - offset \in 1 .. Len(bytes)
          BY <2>1, <2>2, <4>1, <4>3
        <5>2. file'[i] = bytes[i - offset]
          BY <2>1, <2>5, <2>7, <2>8, <4>1, <4>3, <5>1
        <5>3. bytes[i - offset] = <<boot, offset + (i - offset)>>
          BY <2>1, <5>1
        <5> QED
          BY <2>1, <4>1, <5>2, <5>3
      <4> QED
        BY <2>1, <4>1, <4>2, <4>3
    <3>3. Begins(file', boot)
      BY <3>2 DEF Begins
    <3>4. boot' = boot /\ boot <= boot /\ completed' = completed /\ call' \notin BeforeStore
      BY <1>1, SeedFileAssumption DEF SeedInv, Types, Boots, BeforeStore, Loading
    <3>5. Len(file') <= SeedSize
      BY <2>1, <2>2, <2>7, <2>8
    <3> QED
      BY <3>1, <3>3, <3>4, <3>5 DEF FileInv, Begins
  <2>12. StoreInv'
    <3>1. CASE call' = "exit"
      BY <3>1 DEF StoreInv, Storing
    <3>2. CASE call' = "store_write"
      <4>1. ASSUME NEW i \in 1 .. Len(bytes') PROVE bytes'[i] = <<boot, offset' + i>>
        <5>1. i \in 1 .. Len(bytes) - m /\ m + i \in 1 .. Len(bytes)
          BY <2>2, <2>9
        <5>2. bytes'[i] = <<boot, offset + (m + i)>>
          BY <2>1, <2>9, <5>1
        <5> QED
          BY <1>3, <2>1, <2>2, <5>1, <5>2
      <4>2. /\ Len(file)' = offset' /\ Len(bytes)' = SeedSize - offset' /\ offset' <= SeedSize
        <5>1. Len(file') = offset + m /\ Len(bytes') = Len(bytes) - m /\ offset' = offset + m
          BY <1>3, <2>7, <2>8, <2>9
        <5> QED
          BY <2>1, <2>2, <5>1
      <4> QED
        BY <1>1, <3>2, <4>1, <4>2 DEF StoreInv, Storing
    <3> QED
      BY <1>1, <3>1, <3>2
  <2> QED
    BY <1>1, <1>3, <2>10, <2>11, <2>12, AfterLoad DEF SeedInv, Loading
<1> QED
  BY <1>2, <1>3 DEF StoreWrite

\* What has been stored in full is the seed of the boot that completes.
LEMMA ExitStep == ASSUME SeedInv, Exit PROVE SeedInv'
<1>1. /\ call = "exit" /\ call' = "off"
      /\ UNCHANGED <<boot, file, offset, bytes, device, err, atBoot, loaded>>
      /\ completed' = IF err = {} THEN completed \union {boot} ELSE completed
  BY DEF Exit, At
<1>2. boot \in Boots /\ boot \in Nat /\ Boots \subseteq Nat
  BY SeedFileAssumption DEF SeedInv, Types, Boots
<1>3. Types'
  BY <1>1, <1>2 DEF SeedInv, Types, Places
<1>4. FileInv'
  <2>1. PICK s \in 0 .. MaxBoots :
          /\ Begins(file, s) /\ s <= boot
          /\ err = {} => s = boot
          /\ \A b \in completed : b <= s
    BY <1>1 DEF SeedInv, FileInv
  <2>3. Begins(file', s) /\ Len(file') <= SeedSize /\ s <= boot'
    BY <1>1, <2>1 DEF SeedInv, FileInv, Begins
  <2>2. \A b \in completed' : b <= s
    BY <1>1, <1>2, <2>1
  <2> QED
    BY <1>1, <2>1, <2>2, <2>3 DEF FileInv, BeforeStore, Loading, Storing
<1>5. LoadInv' /\ StoreInv' /\ FullInv'
  BY <1>1 DEF LoadInv, StoreInv, FullInv, Loading, Storing
<1>6. LoadedInv'
  <2>1. \A b \in completed' : b <= boot
    BY <1>1, <1>2 DEF SeedInv, LoadedInv
  <2>2. ASSUME NEW c \in Boots, NEW x \in loaded[c]
        PROVE  x[1] < c /\ \A b \in completed' : b < c => b <= x[1]
    <3>1. c <= boot
      BY <1>2, <2>2 DEF SeedInv, LoadedInv
    <3>2. \A b \in completed' : b < c => b \in completed
      BY <1>1, <1>2, <3>1
    <3> QED
      BY <2>2, <3>2 DEF SeedInv, LoadedInv
  <2> QED
    BY <1>1, <2>1, <2>2 DEF SeedInv, LoadedInv
<1> QED
  BY <1>3, <1>4, <1>5, <1>6 DEF SeedInv

\* A crash keeps the file as it is.
LEMMA CrashStep == ASSUME SeedInv, Crash PROVE SeedInv'
<1>1. Types'
  BY DEF SeedInv, Types, Crash, Places
<1>2. FileInv'
  BY FileKept DEF SeedInv, Crash, BeforeStore, Loading, Storing
<1>3. LoadInv' /\ StoreInv' /\ FullInv'
  BY DEF Crash, LoadInv, StoreInv, FullInv, Loading, Storing
<1>4. LoadedInv'
  BY LoadedKept DEF SeedInv, LoadedInv, Crash
<1> QED
  BY <1>1, <1>2, <1>3, <1>4 DEF SeedInv

LEMMA BootStep == ASSUME SeedInv, Boot PROVE SeedInv'
<1>1. /\ boot < MaxBoots /\ boot' = boot + 1 /\ call' = "load_open" /\ atBoot' = file
      /\ offset' = 0 /\ bytes' = <<>> /\ device' = <<>> /\ err' = {}
      /\ UNCHANGED <<file, loaded, completed>>
  BY DEF Boot, At
<1>2. boot \in Nat /\ boot' \in Boots /\ Boots \subseteq Nat
  BY <1>1, SeedFileAssumption DEF SeedInv, Types, Boots
<1>3. Types'
  BY <1>1, <1>2, EmptySeq DEF SeedInv, Types, Places, BeforeStore, Loading
<1>4. FileInv'
  <2>1. PICK s \in 0 .. MaxBoots :
          Begins(file, s) /\ s <= boot /\ \A b \in completed : b <= s
    BY DEF SeedInv, FileInv
  <2>2. Begins(file', s) /\ Len(file') <= SeedSize /\ s < boot'
    BY <1>1, <1>2, <2>1 DEF SeedInv, FileInv, Begins
  <2> QED
    BY <1>1, <2>1, <2>2 DEF FileInv, Storing
<1>5. LoadInv' /\ StoreInv' /\ FullInv'
  BY <1>1 DEF LoadInv, StoreInv, FullInv, Loading, Storing
<1>6. LoadedInv'
  <2>1. \A b \in completed : b <= boot /\ b \in Nat
    BY <1>2 DEF SeedInv, Types, LoadedInv
  <2>2. \A b \in completed' : b <= boot' /\ b # boot'
    BY <1>1, <1>2, <2>1
  <2>3. \A c \in Boots : c > boot' => c > boot
    BY <1>1, <1>2
  <2> QED
    BY <1>1, <2>2, <2>3 DEF SeedInv, LoadedInv
<1> QED
  BY <1>3, <1>4, <1>5, <1>6 DEF SeedInv

-----------------------------------------------------------------------------
(* The theorems. *)

\* The invariant that the theorems rest on: what cckprng_loadseed.c and
\* cckprng_storeseed.c have done so far, at each of their calls.
THEOREM SeedInvariance == SeedSpec => []SeedInv
<1>1. SeedInv /\ UNCHANGED seedVars => SeedInv'
  BY DEF seedVars, SeedInv, Types, FileInv, Begins, LoadInv, StoreInv, LoadedInv, FullInv
<1>2. SeedInv /\ [SeedNext]_seedVars => SeedInv'
  BY <1>1, LoadOpenStep, LoadReadStep, LoadWriteStep, HostWriteStep, StoreEntropyStep,
     StoreOpenStep, StoreOwnerStep, StoreWriteStep, ExitStep, CrashStep, BootStep DEF SeedNext
<1> QED
  BY InitSeedInv, <1>2, PTL DEF SeedSpec

\* The loops of cckprng_loadseed hand the kernel the whole file, in order, once, however
\* reads and writes are cut.
THEOREM LoadComplete == SeedSpec => []LoadedInFull
<1>1. SeedInv => LoadedInFull
  <2> SUFFICES ASSUME SeedInv, call \notin Loading \union {"off"}, "load" \notin err
               PROVE  Prefix(device, Len(atBoot)) = atBoot
    BY DEF LoadedInFull, Loading
  <2>1. /\ device \in Seq(Byte) /\ atBoot \in Seq(Byte)
        /\ Len(device) \in Nat /\ Len(atBoot) \in 0 .. Len(device)
        /\ \A i \in 1 .. Len(atBoot) : device[i] = atBoot[i]
    BY LenProperties DEF SeedInv, Types, FullInv
  <2>2. /\ Prefix(device, Len(atBoot)) \in Seq(Byte)
        /\ Len(Prefix(device, Len(atBoot))) = Len(atBoot)
        /\ \A i \in 1 .. Len(atBoot) : Prefix(device, Len(atBoot))[i] = device[i]
    BY <2>1, TakeProperties
  <2> QED
    BY <2>1, <2>2, SeqEqual
<1> QED
  BY SeedInvariance, <1>1, PTL

\* Wherever cckprng_storeseed fails or the machine goes down, the file holds the
\* beginning of one seed.
THEOREM OneSeed == SeedSpec => []FileIsOneSeed
<1>1. SeedInv => FileIsOneSeed
  <2> SUFFICES ASSUME SeedInv PROVE FileIsOneSeed
    OBVIOUS
  <2>1. PICK s \in 0 .. MaxBoots : Begins(file, s)
    BY DEF SeedInv, FileInv
  <2> QED
    <3>1. file \in Seq(Byte) /\ Len(file) \in Nat /\ Len(file) <= SeedSize
      BY LenProperties DEF SeedInv, Types, FileInv
    <3>2. Seed(s) \in Seq(Byte) /\ Len(Seed(s)) = SeedSize /\ Begins(Seed(s), s)
      BY SeedProperties
    <3>3. /\ Prefix(Seed(s), Len(file)) \in Seq(Byte) /\ Len(Prefix(Seed(s), Len(file))) = Len(file)
          /\ \A i \in 1 .. Len(file) : Prefix(Seed(s), Len(file))[i] = Seed(s)[i]
      BY <3>1, <3>2, TakeProperties
    <3>4. ASSUME NEW i \in 1 .. Len(file) PROVE Seed(s)[i] = file[i]
      <4>1. i \in 1 .. Len(Seed(s))
        BY <3>1, <3>2, SeedFileAssumption
      <4> QED
        BY <2>1, <3>2, <4>1 DEF Begins
    <3>5. file = Prefix(Seed(s), Len(file))
      BY <3>1, <3>3, <3>4, SeqEqual
    <3> QED
      BY <2>1, <3>5 DEF FileIsOneSeed
<1> QED
  BY SeedInvariance, <1>1, PTL

\* A boot whose program returned 0 has replaced the seed it used: no later boot gives
\* the kernel a byte of it.
THEOREM UsedOnce == SeedSpec => []SeedUsedOnce
<1>1. SeedInv => SeedUsedOnce
  <2> SUFFICES ASSUME SeedInv, NEW b \in Boots, NEW c \in Boots, b \in completed, b < c,
                      NEW x \in loaded[b], x \in loaded[c]
               PROVE  FALSE
    BY DEF SeedUsedOnce
  <2>1. x[1] < b /\ b <= x[1]
    BY DEF SeedInv, LoadedInv
  <2>2. b \in Nat /\ x[1] \in Nat
    BY SeedFileAssumption DEF SeedInv, Types, Boots, Byte
  <2> QED
    BY <2>1, <2>2
<1> QED
  BY SeedInvariance, <1>1, PTL

-----------------------------------------------------------------------------
(* The random device. *)

SoundDevice == Size \in Nat /\ Descriptors \subseteq Nat

LEMMA LowestExists ==
  ASSUME NEW S, S \subseteq Nat, S # {}
  PROVE  D!Lowest(S) \in S
<1> DEFINE R == OpToRel(<, Nat)
<1>1. IsWellFoundedOn(R, Nat)
  BY NatLessThanWellFounded
<1>2. \A k, m \in Nat : k < m => <<k, m>> \in R
  BY Zenon DEF OpToRel
<1> HIDE DEF R
<1>3. PICK m \in S : \A k \in S : ~(<<k, m>> \in R)
  BY <1>1, WFMin
<1>4. \A k \in S : k \in Nat /\ m \in Nat /\ ~(k < m)
  BY Zenon, <1>2, <1>3
<1>5. \E d \in S : \A e \in S : d <= e
  BY <1>4
<1> QED
  BY <1>5 DEF D!Lowest

\* The first n positions hold the n bytes that the device gave out last.
Filled(n) == \A i \in 1 .. n : entropy[i] = drawn - n + i

DeviceTypes ==
  /\ remaining \in 0 .. Size /\ drawn \in Int
  /\ entropy \in [1 .. Size -> Int]
  /\ dpc \in {"idle", "open", "read", "close"}

\* What a call has done where it stands: the descriptor it holds, next to descriptor 0
\* if an earlier call left it open, how far the buffer is filled, and that no status of
\* success is left over when it opens the device.
DeviceInv ==
  /\ DeviceTypes
  /\ dpc = "open" => mine \subseteq {0} /\ status # "OK" /\ remaining = Size
  /\ dpc = "read" => mine \subseteq {0, fd} /\ status = "OK" /\ Filled(Size - remaining)
  /\ dpc = "close" => mine \subseteq {0, fd} /\ (status = "OK" => Filled(Size))
  /\ dpc = "idle" => mine \subseteq {0} /\ (deviceCalls = 0 \/ (status = "OK" => Filled(Size)))

LEMMA DeviceInit == ASSUME SoundDevice, D!Init PROVE DeviceInv
BY DEF SoundDevice, D!Init, D!NoEntropy, DeviceInv, DeviceTypes

LEMMA DeviceCallStep == ASSUME SoundDevice, DeviceInv, D!Call PROVE DeviceInv'
BY DEF SoundDevice, D!Call, D!NoEntropy, DeviceInv, DeviceTypes

\* A positive descriptor is read from; the one that is not is 0, and the call is over.
LEMMA OpenDeviceStep == ASSUME SoundDevice, DeviceInv, D!OpenDevice PROVE DeviceInv'
<1>1. D!Free # {} /\ D!Free \subseteq Nat
  BY DEF SoundDevice, D!OpenDevice, D!Free
<1>2. fd' \in Nat
  BY <1>1, LowestExists DEF D!OpenDevice
<1>3. /\ dpc = "open" /\ mine' = mine \union {fd'}
      /\ IF fd' > 0 THEN status' = "OK" /\ dpc' = "read" ELSE UNCHANGED status /\ dpc' = "idle"
      /\ UNCHANGED <<remaining, entropy, drawn>>
  BY DEF D!OpenDevice
<1>4. mine' \subseteq {0, fd'} /\ Size - remaining' = 0
  BY <1>3 DEF SoundDevice, DeviceInv
<1>5. Filled(Size - remaining)'
  BY <1>4 DEF Filled
<1>6. DeviceTypes'
  BY <1>3 DEF DeviceInv, DeviceTypes
<1>7. CASE fd' > 0
  BY <1>3, <1>4, <1>5, <1>6, <1>7 DEF DeviceInv
<1>8. CASE ~(fd' > 0)
  <2>1. fd' = 0
    BY <1>2, <1>8
  <2>2. dpc' = "idle" /\ status' # "OK" /\ mine' \subseteq {0}
    BY <1>3, <1>4, <1>8, <2>1 DEF DeviceInv
  <2> QED
    BY <1>6, <2>2 DEF DeviceInv
<1> QED
  BY <1>7, <1>8

LEMMA OpenFailsStep == ASSUME DeviceInv, D!OpenFails PROVE DeviceInv'
<1>1. /\ dpc = "open" /\ status' # "OK"
      /\ UNCHANGED <<dpc, fd, remaining, entropy, drawn, mine, others, deviceCalls>>
  BY DEF D!OpenFails, D!Interrupt, DeviceInv
<1> QED
  BY <1>1 DEF DeviceInv, DeviceTypes

\* A read of n bytes, of none too, goes on where the one before stopped.
LEMMA ReadStep == ASSUME SoundDevice, DeviceInv, D!Read PROVE DeviceInv'
<1> DEFINE at == Size - remaining
<1>1. /\ dpc = "read" /\ remaining > 0
      /\ UNCHANGED <<dpc, fd, status, mine, others, deviceCalls>>
  BY DEF D!Read
<1>2. PICK n \in 0 .. remaining :
        /\ entropy' = [i \in 1 .. Size |-> IF i > at /\ i <= at + n THEN drawn + i - at
                                                                  ELSE entropy[i]]
        /\ remaining' = remaining - n
        /\ drawn' = drawn + n
  BY DEF D!Read
<1>3. /\ Size \in Nat /\ remaining \in 0 .. Size /\ drawn \in Int /\ at \in 0 .. Size
      /\ entropy \in [1 .. Size -> Int] /\ n \in 0 .. Size - at
  BY <1>2 DEF SoundDevice, DeviceInv, DeviceTypes
<1>4. Filled(at)
  BY <1>1 DEF DeviceInv
<1>5. remaining' \in 0 .. Size /\ drawn' \in Int /\ Size - remaining' = at + n
  BY <1>2, <1>3
<1>6. entropy' \in [1 .. Size -> Int]
  BY <1>2, <1>3
<1>7. Filled(Size - remaining)'
  <2> SUFFICES ASSUME NEW i \in 1 .. at + n PROVE entropy'[i] = drawn' - (at + n) + i
    BY <1>5 DEF Filled
  <2> HIDE DEF at
  <2>1. i \in 1 .. Size
    BY <1>3
  <2>2. entropy'[i] = IF i > at /\ i <= at + n THEN drawn + i - at ELSE entropy[i]
    BY <1>2, <2>1
  <2>3. CASE i > at
    BY <1>2, <1>3, <2>2, <2>3
  <2>4. CASE i <= at
    <3>1. entropy[i] = drawn - at + i
      BY <1>3, <1>4, <2>4 DEF Filled
    <3> QED
      BY <1>2, <1>3, <2>2, <2>4, <3>1
  <2> QED
    BY <1>3, <2>3, <2>4
<1> QED
  BY <1>1, <1>5, <1>6, <1>7 DEF DeviceInv, DeviceTypes

LEMMA DeviceOtherStep ==
  ASSUME SoundDevice, DeviceInv,
         \/ D!ReadFails \/ D!ReadDone \/ D!Close \/ D!OthersOpen \/ D!OthersClose
  PROVE  DeviceInv'
<1>1. CASE D!ReadFails
  <2>1. /\ dpc = "read" /\ dpc' = IF status' = "OK" THEN "read" ELSE "close"
        /\ status' = "OK" \/ dpc' = "close"
        /\ UNCHANGED <<fd, remaining, entropy, drawn, mine, others, deviceCalls>>
    BY <1>1 DEF D!ReadFails
  <2> QED
    BY <2>1 DEF DeviceInv, DeviceTypes, Filled
<1>2. CASE D!ReadDone
  <2>1. Size - remaining = Size
    BY <1>2 DEF D!ReadDone, SoundDevice
  <2> QED
    BY <1>2, <2>1 DEF D!ReadDone, DeviceInv, DeviceTypes, Filled
<1>3. CASE D!Close
  BY <1>3 DEF D!Close, DeviceInv, DeviceTypes, Filled
<1>4. CASE D!OthersOpen
  BY <1>4 DEF D!OthersOpen, DeviceInv, DeviceTypes, Filled
<1>5. CASE D!OthersClose
  BY <1>5 DEF D!OthersClose, DeviceInv, DeviceTypes, Filled
<1> QED
  BY <1>1, <1>2, <1>3, <1>4, <1>5

\* cc_get_entropy over the device: success means the buffer is full of consecutive bytes
\* of the device, however its reads were cut and interrupted, and no call that is over
\* keeps a descriptor other than 0, whatever else the process opens and closes.
THEOREM DeviceFillsBuffer ==
  ASSUME SoundDevice PROVE MCSpec => []FilledOnSuccess
<1>1. MCInit => DeviceInv
  BY DeviceInit DEF MCInit
<1>2. DeviceInv /\ [MCNext]_allVars => DeviceInv'
  <2> SUFFICES ASSUME DeviceInv, [MCNext]_allVars PROVE DeviceInv'
    OBVIOUS
  <2>1. CASE UNCHANGED deviceVars
    BY <2>1 DEF deviceVars, DeviceInv, DeviceTypes, Filled
  <2>2. CASE D!Next
    BY <2>2, DeviceCallStep, OpenDeviceStep, OpenFailsStep, ReadStep, DeviceOtherStep
    DEF D!Next
  <2> QED
    BY <2>1, <2>2 DEF MCNext, allVars
<1>3. DeviceInv => FilledOnSuccess
  BY DEF DeviceInv, Filled, FilledOnSuccess, D!FilledOnSuccess
<1> QED
  BY <1>1, <1>2, <1>3, PTL DEF MCSpec
=============================================================================
