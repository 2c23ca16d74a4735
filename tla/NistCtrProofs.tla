--------------------------- MODULE NistCtrProofs ---------------------------
(***************************************************************************)
(* NistCtr.tla implements CtrDrbgStandard.tla, for any sizes, inputs and   *)
(* number of calls.                                                        *)
(***************************************************************************)
EXTENDS NistCtr, TLAPS

-----------------------------------------------------------------------------
\* The seed length is a whole number of blocks (AES-128 and AES-256) and the
\* build enforces the reseed interval, as ccdrbg.h has it for FIPS.
Sound ==
  /\ Block \in Nat \ {0} /\ CounterValues \in Nat \ {0}
  /\ SeedLen \in Nat /\ SeedLen % Block = 0
  /\ Interval \in Nat /\ StrictFips = TRUE
  /\ Requests \subseteq Nat /\ Requests # {}

(* Arithmetic. *)

LEMMA ModUnique ==
  ASSUME NEW u \in Int, NEW d \in Nat \ {0}, NEW r \in 0 .. d - 1
  PROVE  (d * u + r) % d = r
<1> DEFINE x == d * u + r
           v == x \div d
           w == x % d
<1>1. x \in Int /\ x = d * u + r
  OBVIOUS
<1>2. v \in Int /\ w \in 0 .. d - 1 /\ x = d * v + w
  BY <1>1
<1> HIDE DEF x, v, w
<1>3. d * (u - v) = w - r
  BY <1>1, <1>2
<1>4. u - v \in Int /\ w - r < d /\ w - r > -d
  BY <1>2
<1>5. CASE u - v >= 1
  <2>1. d * (u - v) >= d
    BY <1>4, <1>5
  <2> QED
    BY <1>2, <1>3, <1>4, <2>1
<1>6. CASE u - v <= -1
  <2>1. d * (u - v) <= -d
    BY <1>4, <1>6
  <2> QED
    BY <1>2, <1>3, <1>4, <2>1
<1>7. CASE u - v = 0
  BY <1>2, <1>3, <1>7 DEF w, x
<1> QED
  BY <1>4, <1>5, <1>6, <1>7

LEMMA ModShift ==
  ASSUME NEW q \in Int, NEW j \in Int, NEW d \in Nat \ {0}
  PROVE  (d * q + j) % d = j % d
<1> DEFINE u == j \div d
           r == j % d
<1>1. u \in Int /\ r \in 0 .. d - 1 /\ j = d * u + r
  OBVIOUS
<1> HIDE DEF u, r
<1>2. d * q + j = d * (q + u) + r /\ q + u \in Int
  BY <1>1
<1>3. (d * (q + u) + r) % d = r
  BY <1>1, <1>2, ModUnique
<1> QED
  BY <1>2, <1>3 DEF r

LEMMA ModPlus ==
  ASSUME NEW a \in Int, NEW b \in Int, NEW m \in Nat \ {0}
  PROVE  ((a % m) + b) % m = (a + b) % m
<1> DEFINE r == a % m
           q == a \div m
<1>1. q \in Int /\ r \in Int /\ a = m * q + r
  OBVIOUS
<1> HIDE DEF q, r
<1>2. a + b = m * q + (r + b) /\ r + b \in Int
  BY <1>1
<1>3. (m * q + (r + b)) % m = (r + b) % m
  BY <1>1, <1>2, ModShift
<1>4. (a + b) % m = (r + b) % m
  BY <1>2, <1>3
<1> QED
  BY <1>4 DEF r

LEMMA WholeBlocks ==
  ASSUME NEW q \in Nat, NEW j \in Nat, NEW d \in Nat \ {0}
  PROVE  (d * q + j) \div d = q + (j \div d) /\ (d * q + j) % d = j % d
OBVIOUS

LEMMA RoundedUp ==
  ASSUME NEW n \in Nat, NEW d \in Nat \ {0}
  PROVE  n + ((d - (n % d)) % d) = d * ((n + d - 1) \div d)
OBVIOUS

LEMMA BlockTimes ==
  ASSUME NEW p \in Nat, NEW d \in Nat \ {0}, p % d = 0
  PROVE  p = d * (p \div d) /\ (p + d - 1) \div d = p \div d /\ p \div d \in Nat
OBVIOUS
-----------------------------------------------------------------------------
(* The context of the counter mode is one block ahead of the standard's V,  *)
(* and requests leave it at the start of a block.                          *)

IInv == start = 1 /\ pos \in Nat /\ pos % Block = 0 /\ reseed_counter \in Nat

\* The standard's V when b blocks were drawn.
V(b) == b % CounterValues

LEMMA VOfContext ==
  ASSUME Sound, NEW p \in Nat
  PROVE  (1 + (p \div Block) - 1) % CounterValues = V(p \div Block)
<1>1. p \div Block \in Int
  BY DEF Sound
<1>2. 1 + (p \div Block) - 1 = p \div Block
  BY <1>1
<1> QED
  BY <1>2 DEF V

LEMMA UpdateIsStandard ==
  ASSUME Sound, NEW k, NEW data, NEW p \in Nat, p % Block = 0
  PROVE  DrbgUpdate(k, 1, p, data) = Standard!Update(k, V(p \div Block), data)
<1> DEFINE b == p \div Block
           m == CounterValues
<1>1. b \in Int /\ m \in Nat \ {0}
  BY BlockTimes DEF Sound
<1> HIDE DEF b, m
<1>2. ((b % m) + 1) % m = (b + 1) % m
  BY <1>1, 1 \in Int, ModPlus, Zenon
<1>3. 1 + b = b + 1
  BY <1>1
<1>4. p % Block = 0
  OBVIOUS
<1> QED
  BY <1>2, <1>3, <1>4 DEF DrbgUpdate, Standard!Update, Standard!Plus, V, b, m

LEMMA DrawnIsStandard ==
  ASSUME Sound, NEW k, NEW n \in Nat, NEW p \in Nat, p % Block = 0
  PROVE  Drawn(k, 1, p, n) = Standard!Bytes(k, V(p \div Block), n)
<1> DEFINE b == p \div Block
           m == CounterValues
<1>1. /\ b \in Nat /\ m \in Nat \ {0} /\ p = Block * b /\ Block \in Nat \ {0}
  BY BlockTimes DEF Sound
<1> HIDE DEF b, m
<1>2. ASSUME NEW i \in 1 .. n
      PROVE  /\ (1 + ((p + i - 1) \div Block)) % m = ((b % m) + (1 + ((i - 1) \div Block))) % m
             /\ (p + i - 1) % Block = (i - 1) % Block
  <2> DEFINE j == i - 1
             c == j \div Block
             e == 1 + c
  <2>1. j \in Nat /\ p + i - 1 = Block * b + j
    BY <1>1
  <2>2. c \in Int /\ e \in Int /\ b \in Int
    BY <1>1, <2>1
  <2> HIDE DEF e, j
  <2>3. (p + i - 1) \div Block = b + c /\ (p + i - 1) % Block = j % Block
    <3>2. Block \in Nat \ {0} /\ b \in Nat /\ j \in Nat
      BY <1>1, <2>1
    <3>1. (Block * b + j) \div Block = b + (j \div Block) /\ (Block * b + j) % Block = j % Block
      BY <3>2, WholeBlocks, Zenon
    <3> QED
      BY <2>1, <3>1
  <2> HIDE DEF c
  <2>4. ((b % m) + e) % m = (b + e) % m
    BY <1>1, <2>2, ModPlus, Zenon
  <2>5. 1 + (b + c) = b + e
    BY <1>1, <2>2 DEF e
  <2> QED
    BY <2>3, <2>4, <2>5 DEF j, c, e
<1> QED
  BY <1>2 DEF Drawn, Standard!Bytes, Standard!Plus, V, b, m

\* A request with the rest of its last block, and an update, draw whole blocks.
LEMMA BlocksDrawn ==
  ASSUME Sound, NEW n \in Nat, NEW p \in Nat, p % Block = 0
  PROVE  LET used == p + n + Remainder(n)
         IN  /\ used \in Nat /\ used % Block = 0
             /\ V(used \div Block) = Standard!Plus(V(p \div Block), Standard!Blocks(n))
             /\ (used + SeedLen) \in Nat /\ (used + SeedLen) % Block = 0
             /\ V((used + SeedLen) \div Block)
                  = Standard!Plus(V(p \div Block), Standard!Blocks(n) + Standard!Blocks(SeedLen))
<1> DEFINE b == p \div Block
           c == (n + Block - 1) \div Block
           e == (SeedLen + Block - 1) \div Block
           m == CounterValues
<1>1. /\ b \in Nat /\ p = Block * b /\ Block \in Nat \ {0} /\ m \in Nat \ {0}
  BY BlockTimes DEF Sound
<1>2. n + Remainder(n) = Block * c /\ c \in Nat
  <2>1. n + ((Block - (n % Block)) % Block) = Block * c
    BY <1>1, RoundedUp
  <2>2. c \in Nat
    BY <1>1
  <2> QED
    BY <2>1, <2>2 DEF Remainder
<1>3. SeedLen = Block * e /\ e \in Nat
  BY BlockTimes DEF Sound
<1>9. Remainder(n) \in Int
  BY <1>1 DEF Remainder
<1> DEFINE used == p + n + Remainder(n)
<1> HIDE DEF b, c, e, m
<1>4. used = Block * (b + c) + 0 /\ used + SeedLen = Block * (b + (c + e)) + 0
  <2>1. used = p + (n + Remainder(n))
    BY <1>1, <1>9
  <2> QED
    BY <1>1, <1>2, <1>3, <2>1
<1>5. /\ b + c \in Nat /\ b + (c + e) \in Nat /\ 0 \div Block = 0 /\ 0 % Block = 0
  BY <1>1, <1>2, <1>3
<1>6. /\ used \in Nat /\ used % Block = 0 /\ used \div Block = b + c
  <2> DEFINE q == b + c
  <2>1. q \in Nat /\ 0 \in Nat
    BY <1>5
  <2> HIDE DEF q
  <2>5. Block \in Nat \ {0}
    BY <1>1
  <2>2. (Block * q + 0) \div Block = q + (0 \div Block) /\ (Block * q + 0) % Block = 0 % Block
    BY <2>1, <2>5, WholeBlocks, Zenon
  <2>3. Block * q + 0 \in Nat
    BY <1>1, <2>1
  <2>4. (Block * q + 0) \div Block = q /\ (Block * q + 0) % Block = 0
    BY <1>5, <2>1, <2>2
  <2> QED
    BY <1>4, <2>3, <2>4 DEF q
<1>7. /\ used + SeedLen \in Nat /\ (used + SeedLen) % Block = 0
      /\ (used + SeedLen) \div Block = b + (c + e)
  <2> DEFINE q == b + (c + e)
  <2>1. q \in Nat /\ 0 \in Nat
    BY <1>5
  <2> HIDE DEF q
  <2>5. Block \in Nat \ {0}
    BY <1>1
  <2>2. (Block * q + 0) \div Block = q + (0 \div Block) /\ (Block * q + 0) % Block = 0 % Block
    BY <2>1, <2>5, WholeBlocks, Zenon
  <2>3. Block * q + 0 \in Nat
    BY <1>1, <2>1
  <2>4. (Block * q + 0) \div Block = q /\ (Block * q + 0) % Block = 0
    BY <1>5, <2>1, <2>2
  <2> QED
    BY <1>4, <2>3, <2>4 DEF q
<1>8. /\ (b + c) % m = ((b % m) + c) % m
      /\ (b + (c + e)) % m = ((b % m) + (c + e)) % m
  <2>1. b \in Int /\ c \in Int /\ c + e \in Int
    BY <1>1, <1>2, <1>3
  <2> QED
    BY <1>1, <2>1, ModPlus, Zenon
<1> QED
  BY <1>6, <1>7, <1>8 DEF V, Standard!Plus, Standard!Blocks, b, c, e, m
-----------------------------------------------------------------------------
(* Each call is one of the standard's, or a stutter of it. *)

\* The standard's V in this state, by its refinement.
W == (start + (pos \div Block) - 1) % CounterValues

LEMMA VNow ==
  ASSUME Sound, IInv
  PROVE  W = V(pos \div Block)
BY VOfContext DEF IInv, W

LEMMA VNext ==
  ASSUME Sound, IInv'
  PROVE  W' = V(pos' \div Block)
BY VOfContext DEF IInv, W

LEMMA VZero == ASSUME Sound PROVE 0 \div Block = 0 /\ V(0) = 0 /\ 0 % Block = 0
BY DEF Sound, V

LEMMA RekeyedInv ==
  ASSUME Sound, NEW k, Rekeyed(k), reseed_counter' \in Nat
  PROVE  IInv' /\ W' = 0 /\ key' = k
<1>1. start' = 1 /\ pos' = 0 /\ key' = k
  BY DEF Rekeyed, FirstCounter
<1>2. IInv'
  BY <1>1, VZero DEF IInv
<1> QED
  BY <1>1, <1>2, VNext, VZero

LEMMA SeedingStep ==
  ASSUME Sound, IInv, NEW data \in Seeds, NistctrInit(data) \/ Reseed(data)
  PROVE  IInv' /\ Standard!Next
<1>1. CASE NistctrInit(data)
  <2>1. /\ reseed_counter = 0 /\ reseed_counter' = 1 /\ status' = "OK" /\ out' = <<>>
        /\ Rekeyed(DrbgUpdate(<<>>, 1, 0, data))
    BY <1>1 DEF NistctrInit
  <2>2. IInv' /\ W' = 0 /\ key' = DrbgUpdate(<<>>, 1, 0, data)
    BY <2>1, RekeyedInv
  <2>3. DrbgUpdate(<<>>, 1, 0, data) = Standard!Update(<<>>, 0, data)
    <3>1. DrbgUpdate(<<>>, 1, 0, data) = Standard!Update(<<>>, V(0 \div Block), data)
      BY VZero, UpdateIsStandard
    <3> QED
      BY <3>1, VZero
  <2>4. Standard!Instantiate(data)
    BY <2>1, <2>2, <2>3 DEF Standard!Instantiate, Standard!Seed, W
  <2> QED
    BY <2>2, <2>4 DEF Standard!Next
<1>2. CASE Reseed(data)
  <2>1. /\ reseed_counter > 0 /\ reseed_counter' = 1 /\ status' = "OK" /\ out' = <<>>
        /\ Rekeyed(DrbgUpdate(key, start, pos, data))
    BY <1>2 DEF Reseed
  <2>2. IInv' /\ W' = 0 /\ key' = DrbgUpdate(key, start, pos, data)
    BY <2>1, RekeyedInv
  <2>3. DrbgUpdate(key, start, pos, data) = Standard!Update(key, W, data)
    BY UpdateIsStandard, VNow DEF IInv
  <2>4. Standard!Reseed(data)
    BY <2>1, <2>2, <2>3 DEF Standard!Reseed, Standard!Seed, W
  <2> QED
    BY <2>2, <2>4 DEF Standard!Next
<1> QED
  BY <1>1, <1>2

LEMMA ClearedStep ==
  ASSUME Sound, IInv, NEW result \in {"OK", "PARAM_ERROR"}, Cleared(result),
         result = "OK" => reseed_counter > 0, result = "PARAM_ERROR" => reseed_counter = 0
  PROVE  IInv' /\ Standard!Next
<1>1. /\ Rekeyed(<<>>) /\ reseed_counter' = 0 /\ status' = result /\ out' = <<>>
  BY DEF Cleared, Rekeyed
<1>2. IInv' /\ W' = 0 /\ key' = <<>>
  BY <1>1, RekeyedInv
<1>3. Standard!Uninstantiate(result)
  BY <1>1, <1>2 DEF Standard!Uninstantiate, W
<1> QED
  BY <1>2, <1>3 DEF Standard!Next

\* A call that is refused changes nothing; the standard refuses it as well.
LEMMA RefusedStep ==
  ASSUME Sound, IInv, InvalidInput \/ \E n \in Requests : GenerateRefused(n)
  PROVE  IInv' /\ Standard!Next
<1>1. /\ out' = <<>> /\ UNCHANGED <<key, start, pos, reseed_counter>>
      /\ \/ status' = "PARAM_ERROR"
         \/ status' = "NEED_RESEED" /\ reseed_counter > Interval
  BY DEF InvalidInput, GenerateRefused, NeedsReseed
<1>2. IInv' /\ W' = W
  BY <1>1 DEF IInv, W
<1>3. CASE status' = "PARAM_ERROR"
  BY <1>1, <1>2, <1>3 DEF Standard!Next, Standard!Refuse, W
<1>4. CASE status' = "NEED_RESEED" /\ reseed_counter > Interval
  BY <1>1, <1>2, <1>4 DEF Standard!Next, Standard!Refuse, W
<1> QED
  BY <1>1, <1>2, <1>3, <1>4

\* An update that fails has drawn its blocks.
LEMMA FailedUpdateStep ==
  ASSUME Sound, IInv,
         ReseedFails \/ \E n \in Requests, data \in Additional \cup {NoData} :
                          GenerateFailsEarly(n, data)
  PROVE  IInv' /\ Standard!Next
<1>1. /\ reseed_counter > 0 /\ pos' = pos + SeedLen /\ status' \in {"ERROR", "PARAM_ERROR"}
      /\ out' = <<>> /\ UNCHANGED <<key, start, reseed_counter>>
  BY DEF ReseedFails, GenerateFailsEarly
<1>2. /\ pos' \in Nat /\ pos' % Block = 0
      /\ V(pos' \div Block) = Standard!Plus(V(pos \div Block), Standard!Blocks(SeedLen))
  <2>1. 0 \in Nat /\ pos \in Nat /\ pos % Block = 0 /\ SeedLen \in Nat
    BY DEF IInv, Sound
  <2>2. pos + 0 + Remainder(0) = pos /\ Standard!Blocks(0) = 0
    BY <2>1 DEF Remainder, Standard!Blocks, Sound
  <2>3. Standard!Blocks(SeedLen) \in Nat
    BY BlockTimes DEF Standard!Blocks, Sound
  <2>4. Standard!Blocks(0) + Standard!Blocks(SeedLen) = Standard!Blocks(SeedLen)
    BY <2>2, <2>3
  <2> QED
    BY <1>1, <2>1, <2>2, <2>4, BlocksDrawn
<1>3. IInv'
  BY <1>1, <1>2 DEF IInv
<1>4. W' = Standard!Plus(W, Standard!Blocks(SeedLen))
  BY <1>2, <1>3, VNow, VNext
<1>5. PICK n \in Requests : TRUE
  BY DEF Sound
<1>6. Standard!HealthFailure(n, NoData)
  BY <1>1, <1>4 DEF Standard!HealthFailure, W
<1> QED
  BY <1>3, <1>6 DEF Standard!Next
\* Key and position after the update with additional input, if there is any.
LEMMA AfterAdditional ==
  ASSUME Sound, IInv, NEW data,
         NEW k, k = IF data = NoData THEN key ELSE DrbgUpdate(key, start, pos, data),
         NEW p, p = IF data = NoData THEN pos ELSE 0
  PROVE  /\ (IF data = NoData THEN start ELSE FirstCounter) = 1
         /\ p \in Nat /\ p % Block = 0
         /\ k = IF data = NoData THEN key ELSE Standard!Update(key, W, data)
         /\ V(p \div Block) = IF data = NoData THEN W ELSE 0
<1>1. CASE data = NoData
  BY <1>1, VNow DEF IInv
<1>2. CASE data # NoData
  <2>1. DrbgUpdate(key, start, pos, data) = Standard!Update(key, W, data)
    BY UpdateIsStandard, VNow DEF IInv
  <2> QED
    BY <1>2, <2>1, VZero DEF FirstCounter
<1> QED
  BY <1>1, <1>2

LEMMA GenerateStep ==
  ASSUME Sound, IInv, NEW n \in Requests, NEW data \in Additional \cup {NoData},
         Generate(n, data)
  PROVE  IInv' /\ Standard!Next
<1> DEFINE k == IF data = NoData THEN key ELSE DrbgUpdate(key, start, pos, data)
           p == IF data = NoData THEN pos ELSE 0
           first == IF data = NoData THEN start ELSE FirstCounter
           w == IF data = NoData THEN W ELSE 0
           used == p + n + Remainder(n)
<1>1. /\ reseed_counter > 0 /\ n <= MaxRequest /\ reseed_counter <= Interval
      /\ n \in Nat /\ reseed_counter \in Nat /\ reseed_counter \in 1 .. Interval
  BY DEF Generate, NeedsReseed, Sound, IInv
<1>2. /\ out' = Drawn(k, first, p, n)
      /\ \/ /\ Rekeyed(DrbgUpdate(k, first, used, data))
            /\ reseed_counter' = reseed_counter + 1 /\ status' = "OK"
         \/ /\ key' = k /\ start' = first /\ pos' = used + SeedLen /\ status' = "ERROR"
            /\ UNCHANGED reseed_counter
  BY DEF Generate
<1>3. /\ first = 1 /\ p \in Nat /\ p % Block = 0 /\ V(p \div Block) = w
      /\ k = IF data = NoData THEN key ELSE Standard!Update(key, W, data)
  BY AfterAdditional
<1> HIDE DEF k, p, first, w
<1>4. /\ used \in Nat /\ used % Block = 0
      /\ V(used \div Block) = Standard!Plus(w, Standard!Blocks(n))
      /\ (used + SeedLen) \in Nat /\ (used + SeedLen) % Block = 0
      /\ V((used + SeedLen) \div Block)
           = Standard!Plus(w, Standard!Blocks(n) + Standard!Blocks(SeedLen))
  BY <1>1, <1>3, BlocksDrawn
<1>5. out' = Standard!Bytes(k, w, n)
  BY <1>1, <1>2, <1>3, DrawnIsStandard
<1> HIDE DEF used
<1>6. CASE /\ Rekeyed(DrbgUpdate(k, first, used, data))
           /\ reseed_counter' = reseed_counter + 1 /\ status' = "OK"
  <2>1. reseed_counter' \in Nat
    BY <1>1, <1>6
  <2>2. IInv' /\ W' = 0 /\ key' = DrbgUpdate(k, first, used, data)
    BY <1>6, <2>1, RekeyedInv
  <2>3. DrbgUpdate(k, 1, used, data) = Standard!Update(k, V(used \div Block), data)
    BY <1>4, UpdateIsStandard
  <2>4. key' = Standard!Update(k, Standard!Plus(w, Standard!Blocks(n)), data)
    BY <1>3, <1>4, <2>2, <2>3
  <2>5. Standard!Generate(n, data)
    BY <1>1, <1>3, <1>5, <1>6, <2>2, <2>4 DEF Standard!Generate, W, w
  <2> QED
    BY <2>2, <2>5 DEF Standard!Next
<1>7. CASE /\ key' = k /\ start' = first /\ pos' = used + SeedLen /\ status' = "ERROR"
           /\ UNCHANGED reseed_counter
  <2>1. IInv'
    BY <1>1, <1>3, <1>4, <1>7 DEF IInv
  <2>2. W' = Standard!Plus(w, Standard!Blocks(n) + Standard!Blocks(SeedLen))
    BY <1>4, <1>7, <2>1, VNext
  <2>3. Standard!HealthFailure(n, data)
    BY <1>1, <1>3, <1>5, <1>7, <2>2 DEF Standard!HealthFailure, W, w
  <2> QED
    BY <2>1, <2>3 DEF Standard!Next
<1> QED
  BY <1>2, <1>6, <1>7

LEMMA Step ==
  ASSUME Sound, IInv, [Next]_vars
  PROVE  IInv' /\ [Standard!Next]_(Standard!vars)
<1>1. CASE UNCHANGED vars
  <2>1. IInv' /\ W' = W /\ UNCHANGED <<key, reseed_counter, status, out>>
    BY <1>1 DEF vars, IInv, W
  <2> QED
    BY <2>1 DEF Standard!vars, W
<1>2. CASE \E data \in Seeds : NistctrInit(data) \/ Reseed(data)
  BY <1>2, SeedingStep
<1>3. CASE reseed_counter > 0 /\ Cleared("OK")
  BY <1>3, ClearedStep
<1>4. CASE reseed_counter = 0 /\ Cleared("PARAM_ERROR")
  BY <1>4, ClearedStep
<1>5. CASE InvalidInput \/ \E n \in Requests : GenerateRefused(n)
  BY <1>5, RefusedStep
<1>6. CASE ReseedFails \/ \E n \in Requests, data \in Additional \cup {NoData} :
                             GenerateFailsEarly(n, data)
  BY <1>6, FailedUpdateStep
<1>7. CASE \E n \in Requests, data \in Additional \cup {NoData} : Generate(n, data)
  BY <1>7, GenerateStep
<1> QED
  BY <1>1, <1>2, <1>3, <1>4, <1>5, <1>6, <1>7 DEF Next

\* "Increment V here to accommodate the difference between the NIST spec (pre-increment)
\* and our CTR implementation (post-increment)" (ccdrbg_nistctr.c): whatever calls are
\* made and whichever of them fail, the generator is the CTR_DRBG of the standard.
THEOREM GeneratorIsStandard == ASSUME Sound PROVE Spec => ImplementsStandard
<1>1. Init => IInv /\ Standard!Init
  <2> SUFFICES ASSUME Init PROVE IInv /\ Standard!Init
    OBVIOUS
  <2>1. start = 1 /\ pos = 0 /\ reseed_counter = 0
    BY DEF Init, FirstCounter
  <2>2. IInv
    BY <2>1, VZero DEF IInv
  <2>3. W = 0
    BY <2>1, <2>2, VNow, VZero
  <2> QED
    BY <2>2, <2>3 DEF Init, Standard!Init, W
<1>2. IInv /\ [Next]_vars => IInv' /\ [Standard!Next]_(Standard!vars)
  BY Step
<1> QED
  BY <1>1, <1>2, PTL DEF Spec, ImplementsStandard, Standard!Spec
=============================================================================
