---------------------------- MODULE StreamProofs ----------------------------
(***************************************************************************)
(* Proofs about the contexts of MCStreams.tla, for any sizes, pieces,      *)
(* messages and numbers of calls.                                          *)
(***************************************************************************)
EXTENDS MCStreams, GcmProofs, WellFoundedInduction

-----------------------------------------------------------------------------
(* The HMAC DRBG.  Every call ends with a new key, so the keys of the      *)
(* blocks given out are shorter than the one that is held.                 *)

\* What the proof needs of the constants.
DrbgSound == HmacBlock \in Nat \ {0} /\ Requests \subseteq Nat

DrbgData == Seeds \cup Additional \cup {NoData}
DrbgStep == Nat \X {0, 1} \X DrbgData
DrbgKey == Seq(DrbgStep)

DrbgTypes ==
    /\ hmacKey \in DrbgKey /\ n \in Nat /\ hmacReseedCounter \in Nat
    /\ hmacGiven \in Seq(DrbgKey \X Nat)
    /\ seeded \in DrbgData \X Nat /\ seeded[2] <= Len(hmacGiven)

\* Does a key depend on a seed?
DependsOn(k, seed) == \E step \in 1 .. Len(k) : k[step][3] = seed

BlocksOnce == \A i, h \in 1 .. Len(hmacGiven) : i # h => hmacGiven[i] # hmacGiven[h]
KeysShorter == \A i \in 1 .. Len(hmacGiven) : Len(hmacGiven[i][1]) < Len(hmacKey)
BlocksFresh == \A i \in seeded[2] + 1 .. Len(hmacGiven) : DependsOn(hmacGiven[i][1], seeded[1])

DrbgInv ==
    /\ DrbgTypes
    /\ BlocksOnce
    /\ hmacReseedCounter > 0 => KeysShorter /\ DependsOn(hmacKey, seeded[1])
    /\ BlocksFresh

\* An update makes a longer key, which depends on the data and on all the key before it did.
LEMMA UpdatedKey ==
    ASSUME NEW k \in DrbgKey, NEW m \in Nat, NEW input \in DrbgData
    PROVE  /\ Hmac!Updated(k, m, input) \in DrbgKey
           /\ Len(Hmac!Updated(k, m, input)) > Len(k)
           /\ DependsOn(Hmac!Updated(k, m, input), input)
           /\ \A seed : DependsOn(k, seed) => DependsOn(Hmac!Updated(k, m, input), seed)
<1> DEFINE first == Append(k, <<m, 0, input>>)
           second == Append(first, <<1, 1, input>>)
<1>1. <<m, 0, input>> \in DrbgStep /\ <<1, 1, input>> \in DrbgStep
  BY DEF DrbgStep
<1>2. /\ first \in DrbgKey /\ Len(first) = Len(k) + 1
      /\ \A i \in 1 .. Len(k) : first[i] = k[i]
      /\ first[Len(k) + 1] = <<m, 0, input>>
  BY <1>1 DEF DrbgKey
<1> HIDE DEF first
<1>3. /\ second \in DrbgKey /\ Len(second) = Len(first) + 1
      /\ \A i \in 1 .. Len(first) : second[i] = first[i]
  BY <1>1, <1>2 DEF DrbgKey
<1> HIDE DEF second
<1>4. Len(k) \in Nat
  BY DEF DrbgKey
<1>5. /\ \A i \in 1 .. Len(k) : second[i] = k[i]
      /\ second[Len(k) + 1] = <<m, 0, input>>
  BY <1>2, <1>3, <1>4
<1>6. Hmac!Updated(k, m, input) \in {first, second}
  BY DEF Hmac!Updated, first, second
<1>7. ASSUME NEW u \in {first, second}
      PROVE  /\ u \in DrbgKey /\ Len(u) > Len(k) /\ u[Len(k) + 1] = <<m, 0, input>>
             /\ \A i \in 1 .. Len(k) : u[i] = k[i]
  BY <1>2, <1>3, <1>4, <1>5
<1>8. \A i \in 1 .. Len(k) : i \in 1 .. Len(Hmac!Updated(k, m, input))
  BY <1>4, <1>6, <1>7 DEF DrbgKey
<1>9. Len(k) + 1 \in 1 .. Len(Hmac!Updated(k, m, input))
  BY <1>4, <1>6, <1>7 DEF DrbgKey
<1>10. <<m, 0, input>>[3] = input
  OBVIOUS
<1> QED  BY <1>6, <1>7, <1>8, <1>9, <1>10 DEF DependsOn

\* The blocks of a request: under one key, at least as long as the state's, all different.
LEMMA OutputBlocks ==
    ASSUME DrbgSound, DrbgTypes, NEW input \in DrbgData, NEW count \in Nat
    PROVE  /\ Hmac!Before(input)[1] \in DrbgKey /\ Hmac!Before(input)[2] \in Nat
           /\ Len(Hmac!Before(input)[1]) >= Len(hmacKey)
           /\ DependsOn(hmacKey, seeded[1]) => DependsOn(Hmac!Before(input)[1], seeded[1])
           /\ Hmac!Output(input, count) \in Seq(DrbgKey \X Nat)
           /\ Len(Hmac!Output(input, count)) = count
           /\ \A i \in 1 .. count : /\ Hmac!Output(input, count)[i][1] = Hmac!Before(input)[1]
                                    /\ Hmac!Output(input, count)[i][2] = Hmac!Before(input)[2] + i
<1>1. CASE input = NoData
  <2>1. Hmac!Before(input) = <<hmacKey, n>>
    BY <1>1 DEF Hmac!Before, Hmac!V
  <2>2. Hmac!Before(input)[1] = hmacKey /\ Hmac!Before(input)[2] = n /\ Len(hmacKey) \in Nat
    BY <2>1 DEF DrbgTypes, DrbgKey
  <2> QED  BY <2>2 DEF DrbgTypes, Hmac!Output, DrbgKey
<1>2. CASE input # NoData
  <2>1. Hmac!Before(input) = <<Hmac!Updated(hmacKey, n, input), 1>>
    BY <1>2 DEF Hmac!Before
  <2>2. Hmac!Before(input)[1] = Hmac!Updated(hmacKey, n, input) /\ Hmac!Before(input)[2] = 1
        /\ Len(hmacKey) \in Nat
    BY <2>1 DEF DrbgTypes, DrbgKey
  <2>3. /\ Hmac!Updated(hmacKey, n, input) \in DrbgKey
        /\ Len(Hmac!Updated(hmacKey, n, input)) > Len(hmacKey)
        /\ \A seed : DependsOn(hmacKey, seed) => DependsOn(Hmac!Updated(hmacKey, n, input), seed)
    <3>1. hmacKey \in DrbgKey /\ n \in Nat
      BY DEF DrbgTypes
    <3> QED  BY <3>1, UpdatedKey
  <2>4. Len(Hmac!Updated(hmacKey, n, input)) \in Nat
    BY <2>3 DEF DrbgKey
  <2> QED  BY <2>2, <2>3, <2>4 DEF Hmac!Output
<1> QED  BY <1>1, <1>2

\* What holds of the blocks given out when those of a request, whole or in part, follow them.
LEMMA GivenMore ==
    ASSUME DrbgSound, DrbgInv, hmacReseedCounter > 0, NEW input \in DrbgData, NEW count \in Nat,
           hmacGiven' = hmacGiven \o Hmac!Output(input, count), UNCHANGED seeded
    PROVE  /\ hmacGiven' \in Seq(DrbgKey \X Nat) /\ seeded'[2] <= Len(hmacGiven')
           /\ BlocksOnce' /\ BlocksFresh'
           /\ \A i \in 1 .. Len(hmacGiven') : Len(hmacGiven'[i][1]) <= Len(Hmac!Before(input)[1])
<1> DEFINE output == Hmac!Output(input, count)
<1>1. /\ Hmac!Before(input)[1] \in DrbgKey /\ Hmac!Before(input)[2] \in Nat
      /\ Len(Hmac!Before(input)[1]) >= Len(hmacKey)
      /\ DependsOn(Hmac!Before(input)[1], seeded[1])
      /\ output \in Seq(DrbgKey \X Nat) /\ Len(output) = count
      /\ \A i \in 1 .. count : /\ output[i][1] = Hmac!Before(input)[1]
                               /\ output[i][2] = Hmac!Before(input)[2] + i
  BY OutputBlocks DEF DrbgInv
<1> HIDE DEF output
<1>2. /\ hmacGiven \in Seq(DrbgKey \X Nat) /\ Len(hmacGiven) \in Nat /\ seeded[2] \in Nat
      /\ seeded[2] <= Len(hmacGiven) /\ hmacKey \in DrbgKey
  BY DEF DrbgInv, DrbgTypes
<1>3. /\ hmacGiven' \in Seq(DrbgKey \X Nat)
      /\ Len(hmacGiven') = Len(hmacGiven) + count
      /\ \A i \in 1 .. Len(hmacGiven) : hmacGiven'[i] = hmacGiven[i]
      /\ \A i \in Len(hmacGiven) + 1 .. Len(hmacGiven') : hmacGiven'[i] = output[i - Len(hmacGiven)]
  <2> DEFINE S == DrbgKey \X Nat
  <2>1. hmacGiven' = hmacGiven \o output
    BY DEF output
  <2>2. hmacGiven \in Seq(S) /\ output \in Seq(S)
    BY <1>1, <1>2
  <2> HIDE DEF S
  <2>3. /\ hmacGiven \o output \in Seq(S) /\ Len(hmacGiven \o output) = Len(hmacGiven) + Len(output)
        /\ \A i \in 1 .. Len(hmacGiven) : (hmacGiven \o output)[i] = hmacGiven[i]
        /\ \A i \in Len(hmacGiven) + 1 .. Len(hmacGiven) + Len(output) :
             (hmacGiven \o output)[i] = output[i - Len(hmacGiven)]
    BY <2>2
  <2> QED  BY <1>1, <2>1, <2>3 DEF S
<1>4. /\ Len(hmacKey) \in Nat /\ Len(Hmac!Before(input)[1]) \in Nat
      /\ \A i \in 1 .. Len(hmacGiven) : /\ Len(hmacGiven[i][1]) \in Nat
                                         /\ Len(hmacGiven[i][1]) < Len(hmacKey)
  <2>1. \A k \in DrbgKey : Len(k) \in Nat
    BY DEF DrbgKey
  <2>2. \A i \in 1 .. Len(hmacGiven) : hmacGiven[i][1] \in DrbgKey
    BY <1>2
  <2>3. hmacKey \in DrbgKey /\ Hmac!Before(input)[1] \in DrbgKey
    BY <1>1, <1>2
  <2>4. KeysShorter
    BY <1>1 DEF DrbgInv
  <2> QED  BY <2>1, <2>2, <2>3, <2>4 DEF KeysShorter
<1>5. \A i \in Len(hmacGiven) + 1 .. Len(hmacGiven') :
         i - Len(hmacGiven) \in 1 .. count
  BY <1>2, <1>3
<1>6. \A i \in Len(hmacGiven) + 1 .. Len(hmacGiven') :
         /\ hmacGiven'[i][1] = Hmac!Before(input)[1]
         /\ hmacGiven'[i][2] = Hmac!Before(input)[2] + (i - Len(hmacGiven))
  BY <1>1, <1>3, <1>5
<1>7. \A i \in 1 .. Len(hmacGiven') :
         i \in 1 .. Len(hmacGiven) \/ i \in Len(hmacGiven) + 1 .. Len(hmacGiven')
  BY <1>2, <1>3
<1>8. \A i \in 1 .. Len(hmacGiven') : Len(hmacGiven'[i][1]) <= Len(Hmac!Before(input)[1])
  <2>1. ASSUME NEW i \in 1 .. Len(hmacGiven)
        PROVE  Len(hmacGiven'[i][1]) <= Len(Hmac!Before(input)[1])
    BY <1>1, <1>3, <1>4
  <2>2. ASSUME NEW i \in Len(hmacGiven) + 1 .. Len(hmacGiven')
        PROVE  Len(hmacGiven'[i][1]) <= Len(Hmac!Before(input)[1])
    BY <1>4, <1>6
  <2> QED  BY <1>7, <2>1, <2>2
<1>9. BlocksOnce'
  <2> SUFFICES ASSUME NEW i \in 1 .. Len(hmacGiven'), NEW h \in 1 .. Len(hmacGiven'), i # h
               PROVE  hmacGiven'[i] # hmacGiven'[h]
    BY DEF BlocksOnce
  <2>1. CASE i \in 1 .. Len(hmacGiven) /\ h \in 1 .. Len(hmacGiven)
    BY <1>3, <2>1 DEF DrbgInv, BlocksOnce
  <2>2. CASE i \in 1 .. Len(hmacGiven) /\ h \in Len(hmacGiven) + 1 .. Len(hmacGiven')
    <3>1. Len(hmacGiven'[i][1]) < Len(hmacKey) /\ hmacGiven'[h][1] = Hmac!Before(input)[1]
      BY <1>3, <1>4, <1>6, <2>2
    <3>2. Len(hmacGiven'[i][1]) # Len(hmacGiven'[h][1])
      <4>1. Len(hmacGiven'[i][1]) \in Nat
        BY <1>3, <1>4, <2>2
      <4>2. Len(hmacGiven'[h][1]) = Len(Hmac!Before(input)[1])
        BY <3>1
      <4>3. Len(Hmac!Before(input)[1]) >= Len(hmacKey)
        BY <1>1
      <4> QED  BY <1>4, <3>1, <4>1, <4>2, <4>3
    <3> QED  BY <3>2
  <2>3. CASE i \in Len(hmacGiven) + 1 .. Len(hmacGiven') /\ h \in 1 .. Len(hmacGiven)
    <3>1. Len(hmacGiven'[h][1]) < Len(hmacKey) /\ hmacGiven'[i][1] = Hmac!Before(input)[1]
      BY <1>3, <1>4, <1>6, <2>3
    <3>2. Len(hmacGiven'[h][1]) # Len(hmacGiven'[i][1])
      <4>1. Len(hmacGiven'[h][1]) \in Nat
        BY <1>3, <1>4, <2>3
      <4>2. Len(hmacGiven'[i][1]) = Len(Hmac!Before(input)[1])
        BY <3>1
      <4>3. Len(Hmac!Before(input)[1]) >= Len(hmacKey)
        BY <1>1
      <4> QED  BY <1>4, <3>1, <4>1, <4>2, <4>3
    <3> QED  BY <3>2
  <2>4. CASE i \in Len(hmacGiven) + 1 .. Len(hmacGiven')
             /\ h \in Len(hmacGiven) + 1 .. Len(hmacGiven')
    <3>1. /\ hmacGiven'[i][2] = Hmac!Before(input)[2] + (i - Len(hmacGiven))
          /\ hmacGiven'[h][2] = Hmac!Before(input)[2] + (h - Len(hmacGiven))
      BY <1>6, <2>4
    <3>2. i \in Int /\ h \in Int /\ Hmac!Before(input)[2] \in Int /\ Len(hmacGiven) \in Int
      BY <1>1, <1>2
    <3>3. hmacGiven'[i][2] # hmacGiven'[h][2]
      BY <3>1, <3>2
    <3> QED  BY <3>3
  <2> QED  BY <1>7, <2>1, <2>2, <2>3, <2>4
<1>10. BlocksFresh'
  <2> SUFFICES ASSUME NEW i \in seeded[2] + 1 .. Len(hmacGiven')
               PROVE  DependsOn(hmacGiven'[i][1], seeded[1])
    BY DEF BlocksFresh, DependsOn
  <2>1. i \in 1 .. Len(hmacGiven')
    BY <1>2
  <2>2. CASE i \in 1 .. Len(hmacGiven)
    <3>1. i \in seeded[2] + 1 .. Len(hmacGiven)
      BY <1>2, <1>3, <2>2
    <3> QED  BY <1>3, <2>2, <3>1 DEF DrbgInv, BlocksFresh
  <2>3. CASE i \in Len(hmacGiven) + 1 .. Len(hmacGiven')
    BY <1>1, <1>6, <2>3
  <2> QED  BY <1>7, <2>1, <2>2, <2>3
<1> QED  BY <1>2, <1>3, <1>8, <1>9, <1>10

LEMMA BlocksNat == ASSUME DrbgSound, NEW size \in Requests PROVE Hmac!Blocks(size) \in Nat
<1>1. HmacBlock \in Nat \ {0} /\ size \in Nat
  BY DEF DrbgSound
<1>2. size + HmacBlock - 1 \in Nat
  BY <1>1
<1> QED  BY <1>1, <1>2 DEF Hmac!Blocks

LEMMA DrbgInitial == Hmac!Init => DrbgInv
<1> SUFFICES ASSUME Hmac!Init PROVE DrbgInv
  OBVIOUS
<1>1. DrbgTypes
  BY DEF Hmac!Init, DrbgTypes, DrbgKey, DrbgData
<1> QED  BY <1>1 DEF Hmac!Init, DrbgInv, BlocksOnce, BlocksFresh

\* A seed makes a longer key that depends on it; what was given out before is not asked to.
LEMMA DrbgSeedStep ==
    ASSUME DrbgInv, NEW seed \in Seeds, Hmac!Instantiate(seed) \/ Hmac!Reseed(seed)
    PROVE  DrbgInv'
<1> DEFINE k == IF hmacReseedCounter = 0 THEN <<>> ELSE hmacKey
           m == IF hmacReseedCounter = 0 THEN 0 ELSE n
<1>1. /\ hmacKey \in DrbgKey /\ n \in Nat /\ hmacReseedCounter \in Nat
      /\ hmacGiven \in Seq(DrbgKey \X Nat)
      /\ seed \in DrbgData
  BY DEF DrbgInv, DrbgTypes, DrbgData
<1>2. <<>> \in DrbgKey /\ Len(<<>>) = 0
  BY DEF DrbgKey
<1>3. /\ k \in DrbgKey /\ m \in Nat
      /\ hmacKey' = Hmac!Updated(k, m, seed) /\ n' = 1 /\ hmacReseedCounter' = 1
      /\ seeded' = <<seed, Len(hmacGiven')>>
      /\ hmacGiven' = <<>> \/ (hmacGiven' = hmacGiven /\ hmacReseedCounter > 0 /\ k = hmacKey)
  BY <1>1, <1>2 DEF Hmac!Instantiate, Hmac!Reseed, Hmac!SeedWith
<1> HIDE DEF k, m
<1>4. hmacKey' \in DrbgKey /\ Len(hmacKey') > Len(k) /\ DependsOn(hmacKey', seed)
  BY <1>1, <1>3, UpdatedKey
<1>5. hmacGiven' \in Seq(DrbgKey \X Nat) /\ Len(hmacGiven') \in Nat
  <2> DEFINE S == DrbgKey \X Nat
  <2>1. hmacGiven \in Seq(S)
    BY <1>1
  <2> HIDE DEF S
  <2>2. \A g \in Seq(S) : Len(g) \in Nat
    OBVIOUS
  <2>3. <<>> \in Seq(S)
    OBVIOUS
  <2>4. hmacGiven' = <<>> \/ hmacGiven' = hmacGiven
    BY <1>3
  <2>5. hmacGiven' \in Seq(S)
    BY <2>1, <2>3, <2>4, Zenon
  <2> QED  BY <2>2, <2>5 DEF S
<1>6. seeded'[1] = seed /\ seeded'[2] = Len(hmacGiven')
  BY <1>3
<1>7. DrbgTypes'
  BY <1>1, <1>3, <1>4, <1>5 DEF DrbgTypes
<1>8. BlocksOnce' /\ KeysShorter'
  <2>1. CASE hmacGiven' = <<>>
    BY <2>1 DEF BlocksOnce, KeysShorter
  <2>2. CASE hmacGiven' = hmacGiven /\ hmacReseedCounter > 0 /\ k = hmacKey
    <3>1. Len(hmacKey) \in Nat /\ Len(hmacKey') \in Nat
          /\ \A i \in 1 .. Len(hmacGiven) : Len(hmacGiven[i][1]) \in Nat
      BY <1>1, <1>4 DEF DrbgKey
    <3> QED  BY <1>4, <2>2, <3>1 DEF DrbgInv, BlocksOnce, KeysShorter
  <2> QED  BY <1>3, <2>1, <2>2
<1>9. BlocksFresh'
  BY <1>5, <1>6 DEF BlocksFresh
<1>10. DependsOn(hmacKey', seeded'[1])
  BY <1>4, <1>6
<1>11. DependsOn(hmacKey, seeded[1])'
  BY <1>10 DEF DependsOn
<1> QED  BY <1>7, <1>8, <1>9, <1>11 DEF DrbgInv

\* The last update makes a key longer than those of all blocks given out.
LEMMA DrbgGenerateStep ==
    ASSUME DrbgSound, DrbgInv, NEW size \in Requests, NEW input \in Additional \cup {NoData},
           Hmac!Generate(size, input)
    PROVE  DrbgInv'
<1> DEFINE k == Hmac!Before(input)[1]
           m == Hmac!Before(input)[2] + Hmac!Blocks(size)
<1>1. input \in DrbgData /\ Hmac!Blocks(size) \in Nat /\ DrbgTypes /\ hmacReseedCounter \in Nat
  BY BlocksNat DEF DrbgData, DrbgInv, DrbgTypes
<1>2. /\ k \in DrbgKey /\ Hmac!Before(input)[2] \in Nat
      /\ DependsOn(hmacKey, seeded[1]) => DependsOn(k, seeded[1])
  BY <1>1, OutputBlocks
<1>3. /\ hmacGiven' = hmacGiven \o Hmac!Output(input, Hmac!Blocks(size)) /\ UNCHANGED seeded
      /\ hmacReseedCounter' = hmacReseedCounter + 1 /\ hmacReseedCounter > 0
      /\ hmacKey' = Hmac!Updated(k, m, input) /\ n' = 1
  BY DEF Hmac!Generate, Hmac!Finished
<1>4. m \in Nat
  BY <1>1, <1>2
<1> HIDE DEF k, m
<1>5. /\ hmacKey' \in DrbgKey /\ Len(hmacKey') > Len(k)
      /\ DependsOn(k, seeded[1]) => DependsOn(hmacKey', seeded[1])
  BY <1>1, <1>2, <1>3, <1>4, UpdatedKey
<1>6. /\ hmacGiven' \in Seq(DrbgKey \X Nat) /\ seeded'[2] <= Len(hmacGiven') /\ BlocksOnce'
      /\ BlocksFresh'
      /\ \A i \in 1 .. Len(hmacGiven') : Len(hmacGiven'[i][1]) <= Len(k)
  BY <1>1, <1>3, GivenMore DEF k
<1>7. DrbgTypes'
  BY <1>1, <1>3, <1>5, <1>6 DEF DrbgTypes
<1>8. KeysShorter'
  <2>1. Len(hmacKey') \in Nat /\ Len(k) \in Nat
    BY <1>2, <1>5 DEF DrbgKey
  <2>2. \A i \in 1 .. Len(hmacGiven') : Len(hmacGiven'[i][1]) \in Nat
    BY <1>6 DEF DrbgKey
  <2> QED  BY <1>5, <1>6, <2>1, <2>2 DEF KeysShorter
<1>9. DependsOn(hmacKey, seeded[1])'
  BY <1>2, <1>3, <1>5 DEF DrbgInv, DependsOn
<1> QED  BY <1>6, <1>7, <1>8, <1>9 DEF DrbgInv

\* Without an instance only what was given out is left.
LEMMA DrbgAbortStep ==
    ASSUME DrbgSound, DrbgInv, NEW size \in Requests, NEW input \in Additional \cup {NoData},
           Hmac!GenerateAborts(size, input)
    PROVE  DrbgInv'
<1>1. input \in DrbgData /\ Hmac!Blocks(size) \in Nat /\ DrbgTypes
  BY BlocksNat DEF DrbgData, DrbgInv
<1>2. PICK count \in 0 .. Hmac!Blocks(size) - 1 :
             hmacGiven' = hmacGiven \o Hmac!Output(input, count)
  BY DEF Hmac!GenerateAborts
<1>3. /\ hmacKey' = <<>> /\ n' = 0 /\ hmacReseedCounter' = 0 /\ UNCHANGED seeded
      /\ hmacReseedCounter > 0
  BY DEF Hmac!GenerateAborts
<1>4. count \in Nat
  BY <1>1
<1>5. hmacGiven' \in Seq(DrbgKey \X Nat) /\ seeded'[2] <= Len(hmacGiven') /\ BlocksOnce'
      /\ BlocksFresh'
  BY <1>1, <1>2, <1>3, <1>4, GivenMore
<1>6. DrbgTypes'
  BY <1>1, <1>3, <1>5 DEF DrbgTypes, DrbgKey
<1> QED  BY <1>3, <1>5, <1>6 DEF DrbgInv

LEMMA DrbgNext == ASSUME DrbgSound, DrbgInv, [Hmac!Next]_hmacDrbg PROVE DrbgInv'
<1>1. ASSUME NEW seed \in Seeds, Hmac!Instantiate(seed) \/ Hmac!Reseed(seed)
      PROVE  DrbgInv'
  BY <1>1, DrbgSeedStep
<1>2. ASSUME UNCHANGED <<hmacKey, n, hmacReseedCounter, hmacGiven, seeded>>
      PROVE  DrbgInv'
  BY <1>2 DEF DrbgInv, DrbgTypes, BlocksOnce, KeysShorter, BlocksFresh, DependsOn
<1>3. ASSUME NEW size \in Requests, NEW input \in Additional \cup {NoData},
             Hmac!Generate(size, input) \/ Hmac!GenerateAborts(size, input)
      PROVE  DrbgInv'
  BY <1>3, DrbgGenerateStep, DrbgAbortStep
<1>4. CASE Hmac!Done
  <2>1. /\ hmacKey' = <<>> /\ n' = 0 /\ hmacReseedCounter' = 0 /\ UNCHANGED <<hmacGiven, seeded>>
    BY <1>4 DEF Hmac!Done
  <2>2. DrbgTypes'
    BY <2>1 DEF DrbgInv, DrbgTypes, DrbgKey
  <2> QED  BY <2>1, <2>2 DEF DrbgInv, BlocksOnce, BlocksFresh, DependsOn
<1>5. CASE Hmac!Refused
  BY <1>2, <1>5 DEF Hmac!Refused
<1>6. ASSUME NEW size \in Requests, Hmac!GenerateRefused(size)
      PROVE  DrbgInv'
  BY <1>2, <1>6 DEF Hmac!GenerateRefused
<1>7. CASE UNCHANGED hmacDrbg
  BY <1>2, <1>7 DEF hmacDrbg
<1> QED  BY <1>1, <1>3, <1>4, <1>5, <1>6, <1>7 DEF Hmac!Next

\* The blocks' keys are shorter than the one that is held, so none of them begins with it.
LEMMA DrbgIndependent == DrbgInv => Hmac!OutputIndependent
<1> SUFFICES ASSUME DrbgInv PROVE Hmac!OutputIndependent
  OBVIOUS
<1>1. hmacGiven \in Seq(DrbgKey \X Nat) /\ hmacKey \in DrbgKey
      /\ DOMAIN hmacGiven = 1 .. Len(hmacGiven)
  BY DEF DrbgInv, DrbgTypes
<1>2. ASSUME hmacReseedCounter > 0, NEW i \in DOMAIN hmacGiven
      PROVE  ~Hmac!Computable(hmacGiven[i])
  <2>1. Len(hmacGiven[i][1]) < Len(hmacKey) /\ Len(hmacGiven[i][1]) \in Nat /\ Len(hmacKey) \in Nat
    BY <1>1, <1>2 DEF DrbgInv, KeysShorter, DrbgKey
  <2> QED  BY <2>1 DEF Hmac!Computable, Hmac!Within
<1> QED  BY <1>1, <1>2 DEF DrbgInv, BlocksOnce, BlocksFresh, DependsOn, Hmac!OutputIndependent


LEMMA DrbgMoves == ASSUME MCNext \/ UNCHANGED mcVars PROVE [Hmac!Next]_hmacDrbg
BY DEF MCNext, mcVars

\* Whatever moves is GCM, or leaves GCM as it is.
LEMMA GcmMoves == ASSUME MCNext \/ UNCHANGED mcVars PROVE [Next]_vars
  BY DEF MCNext, mcVars

-----------------------------------------------------------------------------
(* What HMAC-SIV absorbs can be read back from its end.                    *)

\* A set of numbers with 0 and every successor is all of them.
LEMMA Successors ==
  ASSUME NEW S, S \subseteq Nat, 0 \in S, \A k \in S : k + 1 \in S
  PROVE  S = Nat
<1> DEFINE R == OpToRel(<, Nat)
           T == Nat \ S
<1>1. IsWellFoundedOn(R, Nat)
  BY NatLessThanWellFounded
<1>2. \A k, m \in Nat : k < m => <<k, m>> \in R
  BY Zenon DEF OpToRel
<1> HIDE DEF R
<1>3. CASE T # {}
  <2>1. PICK m \in T : \A k \in T : ~(<<k, m>> \in R)
    BY <1>1, <1>3, WFMin
  <2>2. m \in Nat /\ m # 0 /\ m \notin S
    OBVIOUS
  <2>3. m - 1 \in Nat /\ m - 1 < m /\ (m - 1) + 1 = m
    BY <2>2
  <2>4. m - 1 \in T
    BY <2>2, <2>3
  <2> QED
    BY <1>2, <2>1, <2>2, <2>3, <2>4
<1> QED
  BY <1>3

EncodedPiece == {1, 2, 3} \X Seq(Nat)

\* The first f[i] of the bytes m are those of the first i pieces of s.
Places(m, s, f) ==
  /\ f \in [0 .. Len(s) -> Nat] /\ f[0] = 0 /\ f[Len(s)] = Len(m)
  /\ \A i \in 0 .. Len(s) : f[i] <= Len(m)
  /\ \A i \in 1 .. Len(s) :
       /\ f[i] = f[i - 1] + Len(s[i][2]) + 2
       /\ m[f[i] - 1] = Len(s[i][2]) /\ m[f[i]] = s[i][1]
       /\ \A h \in 1 .. Len(s[i][2]) : m[f[i - 1] + h] = s[i][2][h]

Encodes(m, s) == m \in Seq(Nat) /\ s \in Seq(EncodedPiece) /\ \E f : Places(m, s, f)

LEMMA EncodingLength ==
  ASSUME NEW m \in Seq(Nat), NEW t \in Seq(Nat), NEW x \in Nat
  PROVE  Len(SivMode!AuthBackend(m, t, x)) = Len(m) + Len(t) + 2
<1>1. <<Len(t), x>> \in Seq(Nat) /\ Len(<<Len(t), x>>) = 2 /\ m \o t \in Seq(Nat)
      /\ Len(m \o t) = Len(m) + Len(t)
  OBVIOUS
<1>2. Len((m \o t) \o <<Len(t), x>>) = Len(m \o t) + Len(<<Len(t), x>>)
  BY <1>1
<1> QED
  BY <1>1, <1>2 DEF SivMode!AuthBackend

LEMMA EncodesNothing == Encodes(<<>>, <<>>)
<1> DEFINE f == [i \in 0 .. 0 |-> 0]
<1>1. Len(<<>>) = 0 /\ f \in [0 .. 0 -> Nat] /\ f[0] = 0 /\ 1 .. 0 = {}
  OBVIOUS
<1> HIDE DEF f
<1>2. Places(<<>>, <<>>, f)
  BY <1>1 DEF Places
<1>3. <<>> \in Seq(Nat) /\ <<>> \in Seq(EncodedPiece)
  OBVIOUS
<1> QED
  BY <1>2, <1>3 DEF Encodes

\* A further piece: its bytes, its length and its mark.
LEMMA EncodesMore ==
  ASSUME NEW m, NEW s, Encodes(m, s), NEW x \in {1, 2, 3}, NEW t \in Seq(Nat)
  PROVE  Encodes(SivMode!AuthBackend(m, t, x), Append(s, <<x, t>>))
<1> DEFINE w == m \o t \o <<Len(t), x>>
           z == Append(s, <<x, t>>)
<1>1. /\ m \in Seq(Nat) /\ s \in Seq(EncodedPiece) /\ Len(m) \in Nat /\ Len(s) \in Nat
      /\ Len(t) \in Nat
  BY DEF Encodes
<1>2. PICK f : Places(m, s, f)
  BY DEF Encodes
<1>3. /\ w \in Seq(Nat) /\ Len(w) = Len(m) + Len(t) + 2
      /\ \A i \in 1 .. Len(m) : w[i] = m[i]
      /\ \A h \in 1 .. Len(t) : w[Len(m) + h] = t[h]
      /\ w[Len(m) + Len(t) + 1] = Len(t) /\ w[Len(m) + Len(t) + 2] = x
  BY <1>1
<1>4. /\ z \in Seq(EncodedPiece) /\ Len(z) = Len(s) + 1
      /\ \A i \in 1 .. Len(s) : z[i] = s[i]
      /\ z[Len(s) + 1] = <<x, t>>
  <2>1. <<x, t>> \in EncodedPiece
    BY DEF EncodedPiece
  <2> QED
    BY <1>1, <2>1
<1> DEFINE g == [i \in 0 .. Len(z) |-> IF i <= Len(s) THEN f[i] ELSE Len(m) + Len(t) + 2]
<1> HIDE DEF w, z
<1>5. /\ f \in [0 .. Len(s) -> Nat] /\ f[0] = 0 /\ f[Len(s)] = Len(m)
      /\ \A i \in 0 .. Len(s) : f[i] <= Len(m)
  BY <1>2 DEF Places
<1>6. /\ g \in [0 .. Len(z) -> Nat] /\ g[0] = 0 /\ g[Len(z)] = Len(w)
      /\ \A i \in 0 .. Len(s) : g[i] = f[i]
      /\ g[Len(s) + 1] = Len(m) + Len(t) + 2
  BY <1>1, <1>3, <1>4, <1>5
<1> HIDE DEF g
<1>7. \A i \in 0 .. Len(z) : g[i] <= Len(w)
  <2> TAKE i \in 0 .. Len(z)
  <2>1. CASE i \in 0 .. Len(s)
    <3>1. g[i] = f[i] /\ f[i] \in Nat /\ f[i] <= Len(m)
      BY <1>5, <1>6, <2>1
    <3> QED
      BY <1>1, <1>3, <3>1
  <2>2. CASE i = Len(s) + 1
    BY <1>1, <1>3, <1>6, <2>2
  <2> QED
    BY <1>1, <1>4, <2>1, <2>2
<1>8. ASSUME NEW i \in 1 .. Len(z)
      PROVE  /\ g[i] = g[i - 1] + Len(z[i][2]) + 2
             /\ w[g[i] - 1] = Len(z[i][2]) /\ w[g[i]] = z[i][1]
             /\ \A h \in 1 .. Len(z[i][2]) : w[g[i - 1] + h] = z[i][2][h]
  <2>1. CASE i \in 1 .. Len(s)
    <3>1. /\ f[i] = f[i - 1] + Len(s[i][2]) + 2
          /\ m[f[i] - 1] = Len(s[i][2]) /\ m[f[i]] = s[i][1]
          /\ \A h \in 1 .. Len(s[i][2]) : m[f[i - 1] + h] = s[i][2][h]
      BY <1>2, <2>1 DEF Places
    <3>2. /\ g[i] = f[i] /\ g[i - 1] = f[i - 1] /\ z[i] = s[i]
          /\ f[i] \in Nat /\ f[i - 1] \in Nat /\ f[i] <= Len(m)
      <4>1. i - 1 \in 0 .. Len(s) /\ i \in 0 .. Len(s)
        BY <1>1, <2>1
      <4> QED
        BY <1>4, <1>5, <1>6, <2>1, <4>1
    <3>3. s[i][2] \in Seq(Nat) /\ Len(s[i][2]) \in Nat
      <4>1. s[i] \in EncodedPiece
        BY <1>1, <2>1
      <4> QED
        BY <4>1 DEF EncodedPiece
    <3>4. f[i] - 1 \in 1 .. Len(m) /\ f[i] \in 1 .. Len(m)
          /\ \A h \in 1 .. Len(s[i][2]) : f[i - 1] + h \in 1 .. Len(m)
      <4>1. PICK a \in Nat, b \in Nat, c \in Nat, d \in Nat :
              a = f[i - 1] /\ b = f[i] /\ c = Len(s[i][2]) /\ d = Len(m)
        BY <1>1, <3>2, <3>3
      <4>2. b = a + c + 2 /\ b <= d
        BY <3>1, <3>2, <4>1
      <4>3. b - 1 \in 1 .. d /\ b \in 1 .. d /\ \A h \in 1 .. c : a + h \in 1 .. d
        BY <4>2
      <4> QED
        BY <4>1, <4>3, Zenon
    <3>5. /\ w[f[i] - 1] = m[f[i] - 1] /\ w[f[i]] = m[f[i]]
          /\ \A h \in 1 .. Len(s[i][2]) : w[f[i - 1] + h] = m[f[i - 1] + h]
      BY <1>3, <3>4, Zenon
    <3>6. /\ w[f[i] - 1] = Len(s[i][2]) /\ w[f[i]] = s[i][1]
          /\ \A h \in 1 .. Len(s[i][2]) : w[f[i - 1] + h] = s[i][2][h]
      BY <3>1, <3>5, Zenon
    <3> QED
      BY <3>1, <3>2, <3>6, Zenon
  <2>2. CASE i = Len(s) + 1
    <3>1. /\ z[i] = <<x, t>> /\ g[i] = Len(m) + Len(t) + 2 /\ g[i - 1] = Len(m)
          /\ z[i][2] = t /\ z[i][1] = x
      <4>1. i - 1 = Len(s) /\ Len(s) \in 0 .. Len(s)
        BY <1>1, <2>2
      <4>2. z[i] = <<x, t>> /\ g[i] = Len(m) + Len(t) + 2
        BY <1>4, <1>6, <2>2
      <4>3. g[i - 1] = Len(m)
        BY <1>5, <1>6, <4>1
      <4>4. <<x, t>>[2] = t /\ <<x, t>>[1] = x
        OBVIOUS
      <4> QED
        BY <4>2, <4>3, <4>4
    <3>2. g[i] - 1 = Len(m) + Len(t) + 1
      BY <1>1, <3>1
    <3> QED
      BY <1>3, <3>1, <3>2
  <2> QED
    BY <1>1, <1>4, <2>1, <2>2
<1>9. Places(w, z, g)
  BY <1>6, <1>7, <1>8 DEF Places
<1>10. Encodes(w, z)
  BY <1>3, <1>4, <1>9 DEF Encodes
<1> QED
  BY <1>10 DEF SivMode!AuthBackend, w, z

\* The pieces are read back one by one from the end.
LEMMA ReadBack ==
  ASSUME NEW m, NEW s, NEW t, NEW f, NEW g, m \in Seq(Nat), s \in Seq(EncodedPiece),
         t \in Seq(EncodedPiece), Places(m, s, f), Places(m, t, g)
  PROVE  \A k \in Nat : k <= Len(s) /\ k <= Len(t) => f[Len(s) - k] = g[Len(t) - k]
<1>5. \A i \in 1 .. Len(s) : s[i][2] \in Seq(Nat)
  <2>1. \A i \in 1 .. Len(s) : s[i] \in EncodedPiece
    OBVIOUS
  <2> QED
    BY <2>1 DEF EncodedPiece
<1> DEFINE S == {k \in Nat : k <= Len(s) /\ k <= Len(t) => f[Len(s) - k] = g[Len(t) - k]}
<1>1. Len(s) \in Nat /\ Len(t) \in Nat
  OBVIOUS
<1>2. 0 \in S
  <2>1. f[Len(s)] = Len(m) /\ g[Len(t)] = Len(m) /\ Len(s) - 0 = Len(s) /\ Len(t) - 0 = Len(t)
    BY <1>1 DEF Places
  <2> QED
    BY <2>1
<1>3. ASSUME NEW k \in S
      PROVE  k + 1 \in S
  <2> SUFFICES ASSUME k + 1 <= Len(s), k + 1 <= Len(t)
               PROVE  f[Len(s) - (k + 1)] = g[Len(t) - (k + 1)]
    OBVIOUS
  <2>1. PICK i \in 1 .. Len(s) : i = Len(s) - k
    BY <1>1
  <2>2. PICK h \in 1 .. Len(t) : h = Len(t) - k
    BY <1>1
  <2>3. f[i] = g[h]
    BY <1>1, <2>1, <2>2
  <2>4. /\ f[i] = f[i - 1] + Len(s[i][2]) + 2 /\ m[f[i] - 1] = Len(s[i][2])
        /\ f \in [0 .. Len(s) -> Nat]
    BY DEF Places
  <2>5. /\ g[h] = g[h - 1] + Len(t[h][2]) + 2 /\ m[g[h] - 1] = Len(t[h][2])
        /\ g \in [0 .. Len(t) -> Nat]
    BY DEF Places
  <2>6. Len(s[i][2]) = Len(t[h][2])
    BY <2>3, <2>4, <2>5, Zenon
  <2>7. i - 1 \in 0 .. Len(s) /\ h - 1 \in 0 .. Len(t) /\ s[i][2] \in Seq(Nat)
    BY <1>1, <1>5
  <2>8. f[i - 1] \in Nat /\ g[h - 1] \in Nat /\ Len(s[i][2]) \in Nat
    <3>1. f[i - 1] \in Nat /\ g[h - 1] \in Nat
      BY <2>4, <2>5, <2>7
    <3>2. Len(s[i][2]) \in Nat
      BY <2>7
    <3> QED
      BY <3>1, <3>2
  <2>9. f[i - 1] = g[h - 1]
    <3>1. PICK a \in Nat, b \in Nat, c \in Nat :
            a = f[i - 1] /\ b = g[h - 1] /\ c = Len(s[i][2])
      BY <2>8
    <3>2. f[i] = a + c + 2 /\ g[h] = b + c + 2
      BY <2>4, <2>5, <2>6, <3>1, Zenon
    <3>3. a + c + 2 = b + c + 2
      BY <2>3, <3>2
    <3>4. a = b
      BY <3>3
    <3> QED
      BY <3>1, <3>4
  <2>10. i - 1 = Len(s) - (k + 1) /\ h - 1 = Len(t) - (k + 1)
    BY <1>1, <2>1, <2>2
  <2> QED
    BY <2>9, <2>10
<1> HIDE DEF S
<1>4. S = Nat
  <2>1. S \subseteq Nat
    BY DEF S
  <2> QED
    BY <1>2, <1>3, <2>1, Successors
<1> QED
  BY <1>4 DEF S

\* Bytes encode one sequence of pieces at most.
LEMMA DecodedOnce ==
  ASSUME NEW m, NEW s, NEW t, Encodes(m, s), Encodes(m, t)
  PROVE  s = t
<1>1. m \in Seq(Nat) /\ s \in Seq(EncodedPiece) /\ t \in Seq(EncodedPiece)
      /\ Len(s) \in Nat /\ Len(t) \in Nat
  BY DEF Encodes
<1>2. PICK f : Places(m, s, f)
  BY DEF Encodes
<1>3. PICK g : Places(m, t, g)
  BY DEF Encodes
<1>4. \A k \in Nat : k <= Len(s) /\ k <= Len(t) => f[Len(s) - k] = g[Len(t) - k]
  BY <1>1, <1>2, <1>3, ReadBack
<1>5. \A i \in 1 .. Len(s) : f[i] > 0
  <2> TAKE i \in 1 .. Len(s)
  <2>1. f[i] = f[i - 1] + Len(s[i][2]) + 2 /\ f \in [0 .. Len(s) -> Nat]
    BY <1>2 DEF Places
  <2>2. i - 1 \in 0 .. Len(s) /\ s[i][2] \in Seq(Nat)
    BY <1>1 DEF EncodedPiece
  <2> QED
    BY <2>1, <2>2
<1>6. \A i \in 1 .. Len(t) : g[i] > 0
  <2> TAKE i \in 1 .. Len(t)
  <2>1. g[i] = g[i - 1] + Len(t[i][2]) + 2 /\ g \in [0 .. Len(t) -> Nat]
    BY <1>3 DEF Places
  <2>2. i - 1 \in 0 .. Len(t) /\ t[i][2] \in Seq(Nat)
    BY <1>1 DEF EncodedPiece
  <2> QED
    BY <2>1, <2>2
<1>7. f[0] = 0 /\ g[0] = 0
  BY <1>2, <1>3 DEF Places
<1>8. Len(s) = Len(t)
  <2>1. CASE Len(s) < Len(t)
    <3>1. f[Len(s) - Len(s)] = g[Len(t) - Len(s)]
      BY <1>1, <1>4, <2>1
    <3>2. Len(s) - Len(s) = 0 /\ Len(t) - Len(s) \in 1 .. Len(t)
      BY <1>1, <2>1
    <3>3. g[Len(t) - Len(s)] = 0
      BY <1>7, <3>1, <3>2
    <3>4. g[Len(t) - Len(s)] > 0
      BY <1>6, <3>2
    <3> QED
      BY <3>3, <3>4
  <2>2. CASE Len(t) < Len(s)
    <3>1. f[Len(s) - Len(t)] = g[Len(t) - Len(t)]
      BY <1>1, <1>4, <2>2
    <3>2. Len(t) - Len(t) = 0 /\ Len(s) - Len(t) \in 1 .. Len(s)
      BY <1>1, <2>2
    <3>3. f[Len(s) - Len(t)] = 0
      BY <1>7, <3>1, <3>2
    <3>4. f[Len(s) - Len(t)] > 0
      BY <1>5, <3>2
    <3> QED
      BY <3>3, <3>4
  <2> QED
    BY <1>1, <2>1, <2>2
<1>9. \A i \in 0 .. Len(s) : f[i] = g[i]
  <2> TAKE i \in 0 .. Len(s)
  <2>1. PICK k \in Nat : k = Len(s) - i /\ k <= Len(s)
    <3>1. Len(s) - i \in Nat /\ Len(s) - i <= Len(s)
      BY <1>1
    <3> QED
      BY <3>1
  <2>2. Len(s) - k = i /\ Len(t) - k = i
    BY <1>1, <1>8, <2>1
  <2> QED
    BY <1>4, <1>8, <2>1, <2>2
<1>10. \A i \in 1 .. Len(s) : s[i] = t[i]
  <2> TAKE i \in 1 .. Len(s)
  <2>1. i - 1 \in 0 .. Len(s) /\ i \in 0 .. Len(s) /\ i \in 1 .. Len(t)
    BY <1>1, <1>8
  <2>2. f[i] = g[i] /\ f[i - 1] = g[i - 1]
    BY <1>9, <2>1
  <2>3. /\ m[f[i] - 1] = Len(s[i][2]) /\ m[f[i]] = s[i][1]
        /\ \A h \in 1 .. Len(s[i][2]) : m[f[i - 1] + h] = s[i][2][h]
    BY <1>2 DEF Places
  <2>4. /\ m[g[i] - 1] = Len(t[i][2]) /\ m[g[i]] = t[i][1]
        /\ \A h \in 1 .. Len(t[i][2]) : m[g[i - 1] + h] = t[i][2][h]
    BY <1>3, <2>1 DEF Places
  <2>5. Len(s[i][2]) = Len(t[i][2]) /\ s[i][1] = t[i][1]
    BY <2>2, <2>3, <2>4, Zenon
  <2>6. \A h \in 1 .. Len(s[i][2]) : s[i][2][h] = t[i][2][h]
    BY <2>2, <2>3, <2>4, <2>5, Zenon
  <2>7. s[i] \in EncodedPiece /\ t[i] \in EncodedPiece
    BY <1>1, <2>1
  <2>8. s[i][2] = t[i][2]
    <3>1. s[i][2] \in Seq(Nat) /\ t[i][2] \in Seq(Nat)
      BY <2>7 DEF EncodedPiece
    <3> QED
      BY <2>5, <2>6, <3>1, SeqEqual
  <2>9. s[i] = <<s[i][1], s[i][2]>> /\ t[i] = <<t[i][1], t[i][2]>>
    BY <2>7 DEF EncodedPiece
  <2> QED
    BY <2>5, <2>8, <2>9, Zenon
<1> QED
  BY <1>1, <1>8, <1>10, SeqEqual

\* Pieces are encoded in one way.
LEMMA EncodedOnce ==
  ASSUME NEW m, NEW l, NEW s, Encodes(m, s), Encodes(l, s)
  PROVE  m = l
<1>1. m \in Seq(Nat) /\ l \in Seq(Nat) /\ s \in Seq(EncodedPiece) /\ Len(s) \in Nat
  BY DEF Encodes
<1>2. PICK f : Places(m, s, f)
  BY DEF Encodes
<1>3. PICK g : Places(l, s, g)
  BY DEF Encodes
<1>4. /\ f \in [0 .. Len(s) -> Nat] /\ f[0] = 0 /\ f[Len(s)] = Len(m)
      /\ g \in [0 .. Len(s) -> Nat] /\ g[0] = 0 /\ g[Len(s)] = Len(l)
  BY <1>2, <1>3 DEF Places
<1> DEFINE S == {k \in Nat : k <= Len(s) =>
                   f[k] = g[k] /\ \A i \in 1 .. f[k] : m[i] = l[i]}
<1>5. 0 \in S
  BY <1>4
<1>6. ASSUME NEW k \in S
      PROVE  k + 1 \in S
  <2> SUFFICES ASSUME k + 1 <= Len(s)
               PROVE  f[k + 1] = g[k + 1] /\ \A i \in 1 .. f[k + 1] : m[i] = l[i]
    OBVIOUS
  <2> DEFINE z == s[k + 1][2]
  <2>1. k + 1 \in 1 .. Len(s) /\ (k + 1) - 1 = k /\ k \in 0 .. Len(s)
    BY <1>1
  <2>2. z \in Seq(Nat) /\ Len(z) \in Nat /\ f[k] \in Nat
    <3>1. s[k + 1] \in EncodedPiece
      BY <1>1, <2>1
    <3> QED
      BY <1>4, <2>1, <3>1 DEF EncodedPiece
  <2>3. f[k] = g[k] /\ \A i \in 1 .. f[k] : m[i] = l[i]
    BY <1>1, <2>1
  <2>4. /\ f[k + 1] = f[k] + Len(z) + 2
        /\ m[f[k + 1] - 1] = Len(z) /\ m[f[k + 1]] = s[k + 1][1]
        /\ \A h \in 1 .. Len(z) : m[f[k] + h] = z[h]
    BY <1>2, <2>1 DEF Places
  <2>5. /\ g[k + 1] = g[k] + Len(z) + 2
        /\ l[g[k + 1] - 1] = Len(z) /\ l[g[k + 1]] = s[k + 1][1]
        /\ \A h \in 1 .. Len(z) : l[g[k] + h] = z[h]
    BY <1>3, <2>1 DEF Places
  <2> HIDE DEF z
  <2>6. f[k + 1] = g[k + 1]
    BY <2>3, <2>4, <2>5
  <2>7. ASSUME NEW i \in 1 .. f[k + 1]
        PROVE  m[i] = l[i]
    <3>1. CASE i \in 1 .. f[k]
      BY <2>3, <3>1
    <3>2. CASE i - f[k] \in 1 .. Len(z)
      <4>1. f[k] + (i - f[k]) = i
        BY <2>2
      <4>2. m[f[k] + (i - f[k])] = z[i - f[k]] /\ l[f[k] + (i - f[k])] = z[i - f[k]]
        BY <2>3, <2>4, <2>5, <3>2
      <4> QED
        BY <4>1, <4>2
    <3>3. CASE i = f[k + 1] - 1
      BY <2>4, <2>5, <2>6, <3>3
    <3>4. CASE i = f[k + 1]
      BY <2>4, <2>5, <2>6, <3>4
    <3>5. PICK a \in Nat, b \in Nat : a = f[k] /\ b = Len(z)
      BY <2>2
    <3>6. i \in 1 .. a + b + 2
      BY <2>4, <3>5
    <3>7. i \in 1 .. a \/ i - a \in 1 .. b \/ i = (a + b + 2) - 1 \/ i = a + b + 2
      BY <3>6
    <3> QED
      BY <2>4, <3>1, <3>2, <3>3, <3>4, <3>5, <3>7, Zenon
  <2> QED
    BY <2>6, <2>7
<1> HIDE DEF S
<1>7. S = Nat
  <2>1. S \subseteq Nat
    BY DEF S
  <2> QED
    BY <1>5, <1>6, <2>1, Successors
<1>8. Len(m) = Len(l) /\ \A i \in 1 .. Len(m) : m[i] = l[i]
  <2>1. Len(s) \in S
    BY <1>1, <1>7
  <2> QED
    BY <1>1, <1>4, <2>1 DEF S
<1> QED
  BY <1>1, <1>8, SeqEqual

-----------------------------------------------------------------------------
(* The contexts of the two sides.                                          *)

LEMMA AppendedTo ==
  ASSUME NEW S, NEW m \in Seq(S), NEW x \in S
  PROVE  /\ Append(m, x) \in Seq(S) /\ Len(Append(m, x)) = Len(m) + 1
         /\ \A i \in 1 .. Len(m) : Append(m, x)[i] = m[i]
         /\ Append(m, x)[Len(m) + 1] = x /\ Append(m, x) # <<>>
BY AppendProperties

LEMMA Appended ==
  ASSUME NEW S, NEW m \in Seq(S), NEW x
  PROVE  /\ Append(m, x) \in Seq(S \union {x}) /\ Len(Append(m, x)) = Len(m) + 1
         /\ \A i \in 1 .. Len(m) : Append(m, x)[i] = m[i]
         /\ Append(m, x)[Len(m) + 1] = x
<1>1. m \in Seq(S \union {x}) /\ x \in S \union {x}
  OBVIOUS
<1> QED
  BY <1>1, AppendProperties

AadPiece == {1} \X Seq(Nat)

\* D has only been given CMACs; those of the empty string and of the pieces s.
AllCmac(m) == \A i \in 1 .. Len(m) : m[i][1] = "cmac"

CmacOf(m, s) ==
  /\ Len(m) = Len(s) + 1 /\ m[1] = <<"cmac", <<>>>>
  /\ \A i \in 1 .. Len(s) : m[i + 1] = <<"cmac", s[i][2]>>

\* A context of CMAC-SIV in state st after the pieces s and c calls to crypt. What an
\* encryption leaves in D comes first, so a sender's D tells whether it encrypted before.
CmacContext(side, s, c, st, m) ==
  /\ s \in Seq(AadPiece) /\ c \in Nat
  /\ m # <<>> /\ \E S : m \in Seq(S)
  /\ AllCmac(m) => CmacOf(m, s)
  /\ c = 0 => AllCmac(m) /\ ((st = "INIT" /\ s = <<>>) \/ (st = "AAD" /\ s # <<>>))
  /\ st = "INIT" => c = 0
  /\ side = "sender" => \A i \in 2 .. Len(m) : m[i][1] = "cmac"
  /\ side = "receiver" => m[1][1] = "cmac"

\* A context of HMAC-SIV holds the encoding of the pieces until crypt is called.
HmacContext(s, c, st, m) ==
  st \in {"INIT", "AAD", "NONCE"} => c = 0 /\ Encodes(m, s) /\ (st = "INIT" <=> s = <<>>)

SivContext(w, side, s, c, st, m) ==
  IF w = "siv" THEN CmacContext(side, s, c, st, m) ELSE HmacContext(s, c, st, m)

Final(w, st) == st \in {"INIT", "AAD"} \/ (w = "siv_hmac" /\ st = "NONCE")

LEMMA CmacStart ==
  ASSUME NEW side
  PROVE  CmacContext(side, <<>>, 0, "INIT", <<<<"cmac", <<>>>>>>)
<1> DEFINE m == <<<<"cmac", <<>>>>>>
<1>1. m \in Seq({<<"cmac", <<>>>>}) /\ Len(m) = 1 /\ m[1] = <<"cmac", <<>>>> /\ m # <<>>
  OBVIOUS
<1>2. Len(<<>>) = 0 /\ <<>> \in Seq(AadPiece) /\ m[1][1] = "cmac"
  OBVIOUS
<1> HIDE DEF m
<1>3. AllCmac(m)
  BY <1>1, <1>2 DEF AllCmac
<1>4. CmacOf(m, <<>>)
  BY <1>1, <1>2 DEF CmacOf
<1>5. \A i \in 2 .. Len(m) : m[i][1] = "cmac"
  BY <1>1
<1>6. \E S : m \in Seq(S)
  BY <1>1
<1>7. CmacContext(side, <<>>, 0, "INIT", m)
  BY <1>1, <1>2, <1>3, <1>4, <1>5, <1>6 DEF CmacContext
<1> QED
  BY <1>7 DEF m

\* Another piece of associated data.
LEMMA CmacAad ==
  ASSUME NEW side, NEW s, NEW c, NEW st, NEW m, CmacContext(side, s, c, st, m),
         NEW t \in Seq(Nat)
  PROVE  CmacContext(side, Append(s, <<1, t>>), c, "AAD", Append(m, <<"cmac", t>>))
<1> DEFINE z == Append(s, <<1, t>>)
           w == Append(m, <<"cmac", t>>)
<1>1. /\ s \in Seq(AadPiece) /\ c \in Nat /\ m # <<>>
      /\ AllCmac(m) => CmacOf(m, s)
      /\ c = 0 => AllCmac(m)
      /\ side = "sender" => \A i \in 2 .. Len(m) : m[i][1] = "cmac"
      /\ side = "receiver" => m[1][1] = "cmac"
  BY DEF CmacContext
<1>2. PICK S : m \in Seq(S)
  BY DEF CmacContext
<1>3. /\ w \in Seq(S \union {<<"cmac", t>>}) /\ Len(w) = Len(m) + 1
      /\ \A i \in 1 .. Len(m) : w[i] = m[i]
      /\ w[Len(m) + 1] = <<"cmac", t>>
  BY <1>2, Appended
<1>4. /\ z \in Seq(AadPiece) /\ Len(z) = Len(s) + 1 /\ z # <<>>
      /\ \A i \in 1 .. Len(s) : z[i] = s[i]
      /\ z[Len(s) + 1] = <<1, t>>
  <2>1. <<1, t>> \in AadPiece
    BY DEF AadPiece
  <2>2. /\ Append(s, <<1, t>>) \in Seq(AadPiece)
        /\ Len(Append(s, <<1, t>>)) = Len(s) + 1
        /\ \A i \in 1 .. Len(s) : Append(s, <<1, t>>)[i] = s[i]
        /\ Append(s, <<1, t>>)[Len(s) + 1] = <<1, t>>
    BY <1>1, <2>1, AppendedTo
  <2>3. Append(s, <<1, t>>) # <<>>
    BY <1>1, <2>1, AppendedTo
  <2> QED
    BY <2>2, <2>3
<1>5. Len(m) \in Nat /\ Len(m) >= 1 /\ Len(s) \in Nat /\ w # <<>>
  <2>1. Len(m) \in Nat /\ Len(m) >= 1 /\ Len(s) \in Nat
    BY <1>1, <1>2
  <2>2. Len(w) # 0
    BY <1>3, <2>1
  <2> QED
    BY <2>1, <2>2
<1>6. <<"cmac", t>>[1] = "cmac" /\ <<1, t>>[2] = t
  OBVIOUS
<1> HIDE DEF z, w
<1>7. AllCmac(m) => AllCmac(w)
  <2> SUFFICES ASSUME AllCmac(m), NEW i \in 1 .. Len(w)
               PROVE  w[i][1] = "cmac"
    BY DEF AllCmac
  <2>1. i \in 1 .. Len(m) \/ i = Len(m) + 1
    BY <1>3, <1>5
  <2>2. CASE i \in 1 .. Len(m)
    BY <1>3, <2>2 DEF AllCmac
  <2>3. CASE i = Len(m) + 1
    BY <1>3, <1>6, <2>3
  <2> QED
    BY <2>1, <2>2, <2>3
<1>8. AllCmac(w) => CmacOf(w, z)
  <2> SUFFICES ASSUME AllCmac(w)
               PROVE  CmacOf(w, z)
    OBVIOUS
  <2>1. ASSUME NEW i \in 1 .. Len(m)
        PROVE  m[i][1] = "cmac"
    <3>1. i \in 1 .. Len(w)
      BY <1>3, <1>5
    <3> QED
      BY <1>3, <3>1 DEF AllCmac
  <2>2. CmacOf(m, s)
    BY <1>1, <2>1 DEF AllCmac
  <2>3. Len(m) = Len(s) + 1 /\ m[1] = <<"cmac", <<>>>>
        /\ \A i \in 1 .. Len(s) : m[i + 1] = <<"cmac", s[i][2]>>
    BY <2>2 DEF CmacOf
  <2>4. Len(w) = Len(z) + 1 /\ w[1] = <<"cmac", <<>>>>
    BY <1>3, <1>4, <1>5, <2>3
  <2>5. ASSUME NEW i \in 1 .. Len(z)
        PROVE  w[i + 1] = <<"cmac", z[i][2]>>
    <3>1. CASE i \in 1 .. Len(s)
      <4>1. i + 1 \in 1 .. Len(m)
        BY <1>5, <2>3, <3>1
      <4> QED
        BY <1>3, <1>4, <2>3, <3>1, <4>1
    <3>2. CASE i = Len(s) + 1
      BY <1>3, <1>4, <1>6, <2>3, <3>2
    <3> QED
      BY <1>4, <1>5, <3>1, <3>2
  <2> QED
    BY <2>4, <2>5 DEF CmacOf
<1>9. side = "sender" => \A i \in 2 .. Len(w) : w[i][1] = "cmac"
  <2> SUFFICES ASSUME side = "sender", NEW i \in 2 .. Len(w)
               PROVE  w[i][1] = "cmac"
    OBVIOUS
  <2>1. i \in 2 .. Len(m) \/ i = Len(m) + 1
    BY <1>3, <1>5
  <2>2. CASE i \in 2 .. Len(m)
    <3>1. i \in 1 .. Len(m)
      BY <1>5, <2>2
    <3> QED
      BY <1>1, <1>3, <2>2, <3>1
  <2>3. CASE i = Len(m) + 1
    BY <1>3, <1>6, <2>3
  <2> QED
    BY <2>1, <2>2, <2>3
<1>10. side = "receiver" => w[1][1] = "cmac"
  <2>1. 1 \in 1 .. Len(m)
    BY <1>5
  <2> QED
    BY <1>1, <1>3, <2>1
<1>11. \E R : w \in Seq(R)
  BY <1>3
<1>12. CmacContext(side, z, c, "AAD", w)
  BY <1>1, <1>4, <1>5, <1>7, <1>8, <1>9, <1>10, <1>11 DEF CmacContext
<1> QED
  BY <1>12 DEF z, w

\* A text that was sealed leaves its counter block as D.
LEMMA CmacSealed ==
  ASSUME NEW s, NEW c, NEW st, NEW m, CmacContext("sender", s, c, st, m), NEW t
  PROVE  CmacContext("sender", s, c + 1, "TEXT", <<<<"q", t>>>>)
<1> DEFINE w == <<<<"q", t>>>>
<1>1. w \in Seq({<<"q", t>>}) /\ Len(w) = 1 /\ w[1][1] = "q" /\ w # <<>>
  OBVIOUS
<1> HIDE DEF w
<1>2. s \in Seq(AadPiece) /\ c \in Nat
  BY DEF CmacContext
<1>3. ~AllCmac(w)
  <2>1. 1 \in 1 .. Len(w)
    BY <1>1
  <2> QED
    BY <1>1, <2>1 DEF AllCmac
<1>4. c + 1 \in Nat /\ c + 1 # 0
  BY <1>2
<1>5. \A i \in 2 .. Len(w) : w[i][1] = "cmac"
  BY <1>1
<1>6. \E R : w \in Seq(R)
  BY <1>1
<1>7. CmacContext("sender", s, c + 1, "TEXT", w)
  BY <1>1, <1>2, <1>3, <1>4, <1>5, <1>6 DEF CmacContext
<1> QED
  BY <1>7 DEF w

\* A text that was opened leaves D, or its double.
LEMMA CmacOpened ==
  ASSUME NEW s, NEW c, NEW st, NEW m, CmacContext("receiver", s, c, st, m),
         NEW w \in {m, Append(m, <<"dbl", <<>>>>)}
  PROVE  CmacContext("receiver", s, c + 1, "TEXT", w)
<1>1. /\ s \in Seq(AadPiece) /\ c \in Nat /\ m # <<>>
      /\ AllCmac(m) => CmacOf(m, s)
      /\ m[1][1] = "cmac"
  BY DEF CmacContext
<1>2. PICK S : m \in Seq(S)
  BY DEF CmacContext
<1>3. c + 1 \in Nat /\ c + 1 # 0
  BY <1>1
<1>4. CASE w = m
  BY <1>1, <1>2, <1>3, <1>4 DEF CmacContext
<1>5. CASE w = Append(m, <<"dbl", <<>>>>)
  <2>1. /\ w \in Seq(S \union {<<"dbl", <<>>>>}) /\ Len(w) = Len(m) + 1
        /\ \A i \in 1 .. Len(m) : w[i] = m[i]
        /\ w[Len(m) + 1] = <<"dbl", <<>>>>
    BY <1>2, <1>5, Appended
  <2>2. Len(m) \in Nat /\ Len(m) >= 1
    BY <1>1, <1>2
  <2>3. <<"dbl", <<>>>>[1] = "dbl"
    OBVIOUS
  <2>4. ~AllCmac(w)
    <3>1. Len(m) + 1 \in 1 .. Len(w)
      BY <2>1, <2>2
    <3> QED
      BY <2>1, <2>3, <3>1 DEF AllCmac
  <2>5. w[1][1] = "cmac" /\ w # <<>>
    <3>1. 1 \in 1 .. Len(m) /\ Len(w) # 0
      BY <2>1, <2>2
    <3> QED
      BY <1>1, <2>1, <3>1
  <2>6. \E R : w \in Seq(R)
    BY <2>1
  <2> QED
    BY <1>1, <1>3, <2>4, <2>5, <2>6 DEF CmacContext
<1> QED
  BY <1>4, <1>5

LEMMA CmacRefused ==
  ASSUME NEW side, NEW s, NEW c, NEW st, NEW m, CmacContext(side, s, c, st, m),
         st \notin {"INIT", "AAD"}
  PROVE  CmacContext(side, s, c, "INVALID", m)
BY DEF CmacContext

LEMMA HmacStart == HmacContext(<<>>, 0, "INIT", <<>>)
BY EncodesNothing DEF HmacContext

\* Another piece, in the role x.
LEMMA HmacAad ==
  ASSUME NEW s, NEW c, NEW st \in {"INIT", "AAD"}, NEW m, HmacContext(s, c, st, m),
         NEW x \in {1, 2}, NEW t \in Seq(Nat)
  PROVE  HmacContext(Append(s, <<x, t>>), c, IF x = 1 THEN "AAD" ELSE "NONCE",
                     SivMode!AuthBackend(m, t, x))
<1>1. c = 0 /\ Encodes(m, s)
  BY DEF HmacContext
<1>2. Encodes(SivMode!AuthBackend(m, t, x), Append(s, <<x, t>>))
  BY <1>1, EncodesMore
<1>3. Append(s, <<x, t>>) # <<>>
  <2>1. s \in Seq(EncodedPiece) /\ <<x, t>> \in EncodedPiece
    BY <1>1 DEF Encodes, EncodedPiece
  <2> QED
    BY <2>1, AppendProperties
<1> QED
  BY <1>1, <1>2, <1>3 DEF HmacContext

-----------------------------------------------------------------------------
(* A tag says what was authenticated.                                      *)

\* The tag of SivMode!Synthetic, in mode w.
SivTerm(w, st, m, t) ==
  IF w = "siv"
  THEN IF t = <<>> /\ st = "INIT" THEN <<"one", <<>>, <<>>>>
       ELSE IF Len(t) >= SivBlock THEN <<"xorend", m, t>>
       ELSE <<"pad", Append(m, <<"dbl", <<>>>>), t>>
  ELSE IF t = <<>> /\ st = "INIT" THEN <<"hmac", <<4>>>>
       ELSE <<"hmac", SivMode!AuthBackend(m, t, 3)>>

LEMMA SyntheticIsTerm ==
  \A st, m, t : SivMode!Synthetic(st, m, t) = SivTerm(kind, st, m, t)
BY DEF SivMode!Synthetic, SivTerm, SivMode!EmptyEncoding, SivMode!PlaintextMark

LEMMA AppendedOnce ==
  ASSUME NEW m, NEW l, NEW x, \E S : m \in Seq(S), \E S : l \in Seq(S),
         Append(m, x) = Append(l, x)
  PROVE  m = l
<1>1. PICK S : m \in Seq(S)
  OBVIOUS
<1>2. PICK R : l \in Seq(R)
  OBVIOUS
<1>3. /\ Len(Append(m, x)) = Len(m) + 1 /\ Len(m) \in Nat
      /\ \A i \in 1 .. Len(m) : Append(m, x)[i] = m[i]
  BY <1>1, Appended
<1>4. /\ Len(Append(l, x)) = Len(l) + 1 /\ Len(l) \in Nat
      /\ \A i \in 1 .. Len(l) : Append(l, x)[i] = l[i]
  BY <1>2, Appended
<1>5. Len(m) = Len(l)
  BY <1>3, <1>4
<1>6. \A i \in 1 .. Len(m) : m[i] = l[i]
  BY <1>3, <1>4, <1>5, Zenon
<1>7. m \in Seq(S \union R) /\ l \in Seq(S \union R)
  BY <1>1, <1>2
<1> QED
  BY <1>5, <1>6, <1>7, SeqEqual

\* CMACs of the pieces in order: the pieces are determined.
LEMMA CmacPieces ==
  ASSUME NEW m, NEW s \in Seq(AadPiece), NEW z \in Seq(AadPiece), CmacOf(m, s), CmacOf(m, z)
  PROVE  s = z
<1>1. Len(s) \in Nat /\ Len(z) \in Nat /\ Len(s) = Len(z)
  BY DEF CmacOf
<1>2. ASSUME NEW i \in 1 .. Len(s)
      PROVE  s[i] = z[i]
  <2>1. i \in 1 .. Len(z)
    BY <1>1
  <2>2. m[i + 1] = <<"cmac", s[i][2]>> /\ m[i + 1] = <<"cmac", z[i][2]>>
    BY <2>1 DEF CmacOf
  <2>3. s[i][2] = z[i][2]
    BY <2>2
  <2>4. s[i] \in AadPiece /\ z[i] \in AadPiece
    BY <2>1
  <2>5. s[i] = <<1, s[i][2]>> /\ z[i] = <<1, z[i][2]>>
    BY <2>4 DEF AadPiece
  <2> QED
    BY <2>3, <2>5, Zenon
<1> QED
  BY <1>1, <1>2, SeqEqual

LEMMA CmacMatch ==
  ASSUME NEW s, NEW c, NEW st, NEW m, CmacContext("sender", s, c, st, m), NEW t \in Seq(Nat),
         NEW z, NEW d, NEW ts, NEW l, CmacContext("receiver", z, d, ts, l), NEW y \in Seq(Nat),
         SivTerm("siv", st, m, t) = SivTerm("siv", ts, l, y)
  PROVE  s = z /\ t = y
<1>1. s \in Seq(AadPiece) /\ (\E S : m \in Seq(S)) /\ m # <<>>
      /\ (AllCmac(m) => CmacOf(m, s)) /\ (c = 0 /\ st = "INIT" => s = <<>>)
      /\ (st = "INIT" => c = 0) /\ (\A i \in 2 .. Len(m) : m[i][1] = "cmac")
  BY DEF CmacContext
<1>2. z \in Seq(AadPiece) /\ (\E S : l \in Seq(S)) /\ l # <<>>
      /\ (AllCmac(l) => CmacOf(l, z)) /\ (d = 0 /\ ts = "INIT" => z = <<>>)
      /\ (ts = "INIT" => d = 0) /\ l[1][1] = "cmac"
  BY DEF CmacContext
<1> DEFINE D == Append(m, <<"dbl", <<>>>>)
           E == Append(l, <<"dbl", <<>>>>)
           Empty(q, u) == q = <<>> /\ u = "INIT"
<1>3. m = l => s = z
  <2> SUFFICES ASSUME m = l
               PROVE  s = z
    OBVIOUS
  <2>1. PICK S : m \in Seq(S)
    BY <1>1
  <2>2. Len(m) \in Nat /\ Len(m) >= 1
    BY <1>1, <2>1
  <2>3. AllCmac(m)
    <3> SUFFICES ASSUME NEW i \in 1 .. Len(m)
                 PROVE  m[i][1] = "cmac"
      BY DEF AllCmac
    <3>1. i = 1 \/ i \in 2 .. Len(m)
      BY <2>2
    <3> QED
      BY <1>1, <1>2, <3>1
  <2> QED
    BY <1>1, <1>2, <2>3, CmacPieces
<1>4. D = E => m = l
  BY <1>1, <1>2, AppendedOnce
<1>5. CASE Empty(t, st)
  <2>1. SivTerm("siv", st, m, t) = <<"one", <<>>, <<>>>>
    BY <1>5 DEF SivTerm
  <2>2. Empty(y, ts)
    <3> SUFFICES ASSUME ~Empty(y, ts)
                 PROVE  FALSE
      OBVIOUS
    <3>1. SivTerm("siv", ts, l, y) = <<"xorend", l, y>> \/ SivTerm("siv", ts, l, y) = <<"pad", E, y>>
      BY DEF SivTerm
    <3>2. <<"xorend", l, y>>[1] = "xorend" /\ <<"pad", E, y>>[1] = "pad"
          /\ <<"one", <<>>, <<>>>>[1] = "one"
      OBVIOUS
    <3> HIDE DEF E
    <3>3. SivTerm("siv", ts, l, y)[1] # SivTerm("siv", st, m, t)[1]
      BY <2>1, <3>1, <3>2
    <3> QED
      BY <3>3
  <2> QED
    BY <1>1, <1>2, <1>5, <2>2
<1>6. CASE ~Empty(t, st)
  <2>1. ~Empty(y, ts)
    <3> SUFFICES ASSUME Empty(y, ts)
                 PROVE  FALSE
      OBVIOUS
    <3>1. SivTerm("siv", st, m, t) = <<"xorend", m, t>> \/ SivTerm("siv", st, m, t) = <<"pad", D, t>>
      BY <1>6 DEF SivTerm
    <3>2. <<"xorend", m, t>>[1] = "xorend" /\ <<"pad", D, t>>[1] = "pad"
          /\ <<"one", <<>>, <<>>>>[1] = "one"
      OBVIOUS
    <3>3. SivTerm("siv", ts, l, y) = <<"one", <<>>, <<>>>>
      BY DEF SivTerm
    <3> HIDE DEF D
    <3>4. SivTerm("siv", ts, l, y)[1] # SivTerm("siv", st, m, t)[1]
      BY <3>1, <3>2, <3>3
    <3> QED
      BY <3>4
  <2>2. /\ SivTerm("siv", st, m, t) = IF Len(t) >= SivBlock THEN <<"xorend", m, t>>
                                      ELSE <<"pad", D, t>>
        /\ SivTerm("siv", ts, l, y) = IF Len(y) >= SivBlock THEN <<"xorend", l, y>>
                                      ELSE <<"pad", E, y>>
    BY <1>6, <2>1 DEF SivTerm
  <2> HIDE DEF D, E
  <2>3. t = y
    <3>1. <<"xorend", m, t>>[3] = t /\ <<"pad", D, t>>[3] = t
          /\ <<"xorend", l, y>>[3] = y /\ <<"pad", E, y>>[3] = y
      OBVIOUS
    <3>2. SivTerm("siv", st, m, t)[3] = t /\ SivTerm("siv", ts, l, y)[3] = y
      BY <2>2, <3>1
    <3> QED
      BY <3>2
  <2>4. m = l
    <3>1. CASE Len(t) >= SivBlock
      <4>1. <<"xorend", m, t>> = <<"xorend", l, y>>
        BY <2>2, <2>3, <3>1
      <4> QED
        BY <4>1
    <3>2. CASE ~(Len(t) >= SivBlock)
      <4>1. <<"pad", D, t>> = <<"pad", E, y>>
        BY <2>2, <2>3, <3>2
      <4>2. D = E
        BY <4>1
      <4> QED
        BY <1>4, <4>2
    <3> QED
      BY <3>1, <3>2
  <2> QED
    BY <1>3, <2>3, <2>4
<1> QED
  BY <1>5, <1>6

LEMMA HmacMatch ==
  ASSUME NEW s, NEW c, NEW st, NEW m, HmacContext(s, c, st, m), NEW t \in Seq(Nat),
         NEW z, NEW d, NEW ts, NEW l, HmacContext(z, d, ts, l), NEW y \in Seq(Nat),
         st \in {"INIT", "AAD", "NONCE"}, ts \in {"INIT", "AAD", "NONCE"},
         SivTerm("siv_hmac", st, m, t) = SivTerm("siv_hmac", ts, l, y)
  PROVE  s = z /\ t = y
<1>1. /\ Encodes(m, s) /\ Encodes(l, z) /\ (st = "INIT" <=> s = <<>>) /\ (ts = "INIT" <=> z = <<>>)
  BY DEF HmacContext
<1> DEFINE D == SivMode!AuthBackend(m, t, 3)
           E == SivMode!AuthBackend(l, y, 3)
           Empty(q, u) == q = <<>> /\ u = "INIT"
<1>2. Encodes(D, Append(s, <<3, t>>)) /\ Encodes(E, Append(z, <<3, y>>))
  <2>1. 3 \in {1, 2, 3}
    OBVIOUS
  <2> QED
    BY <1>1, <2>1, EncodesMore
<1>3. D # <<4>> /\ E # <<4>>
  <2>1. /\ m \in Seq(Nat) /\ l \in Seq(Nat)
    BY <1>1 DEF Encodes
  <2>2. Len(D) = Len(m) + Len(t) + 2 /\ Len(E) = Len(l) + Len(y) + 2 /\ Len(<<4>>) = 1
    BY <2>1, EncodingLength
  <2>3. Len(m) \in Nat /\ Len(t) \in Nat /\ Len(l) \in Nat /\ Len(y) \in Nat
    BY <2>1
  <2> HIDE DEF D, E
  <2>4. Len(D) # 1 /\ Len(E) # 1
    BY <2>2, <2>3
  <2> QED
    BY <2>2, <2>4
<1>4. /\ SivTerm("siv_hmac", st, m, t) = IF Empty(t, st) THEN <<"hmac", <<4>>>> ELSE <<"hmac", D>>
      /\ SivTerm("siv_hmac", ts, l, y) = IF Empty(y, ts) THEN <<"hmac", <<4>>>> ELSE <<"hmac", E>>
  BY DEF SivTerm
<1>5. D = E => s = z /\ t = y
  <2> SUFFICES ASSUME D = E
               PROVE  s = z /\ t = y
    OBVIOUS
  <2>1. Append(s, <<3, t>>) = Append(z, <<3, y>>)
    BY <1>2, DecodedOnce
  <2>2. s \in Seq(EncodedPiece) /\ z \in Seq(EncodedPiece)
    BY <1>1 DEF Encodes
  <2>3. /\ Len(Append(s, <<3, t>>)) = Len(s) + 1 /\ Append(s, <<3, t>>)[Len(s) + 1] = <<3, t>>
        /\ \A i \in 1 .. Len(s) : Append(s, <<3, t>>)[i] = s[i]
    BY <2>2, Appended
  <2>4. /\ Len(Append(z, <<3, y>>)) = Len(z) + 1 /\ Append(z, <<3, y>>)[Len(z) + 1] = <<3, y>>
        /\ \A i \in 1 .. Len(z) : Append(z, <<3, y>>)[i] = z[i]
    BY <2>2, Appended
  <2>5. Len(s) = Len(z)
    <3>1. Len(s) \in Nat /\ Len(z) \in Nat
      BY <2>2
    <3> QED
      BY <2>1, <2>3, <2>4, <3>1
  <2>6. <<3, t>> = <<3, y>> /\ \A i \in 1 .. Len(s) : s[i] = z[i]
    BY <2>1, <2>3, <2>4, <2>5, Zenon
  <2>7. t = y
    BY <2>6
  <2> QED
    BY <2>2, <2>5, <2>6, <2>7, SeqEqual
<1> HIDE DEF D, E
<1>6. (Empty(t, st) <=> Empty(y, ts)) /\ (~Empty(t, st) => D = E)
  BY <1>3, <1>4
<1> QED
  BY <1>1, <1>5, <1>6

\* After the same pieces and no call to crypt, the same text has the same tag.
LEMMA CmacSame ==
  ASSUME NEW s, NEW st, NEW m, CmacContext("sender", s, 0, st, m), NEW t,
         NEW ts, NEW l, CmacContext("receiver", s, 0, ts, l)
  PROVE  SivTerm("siv", st, m, t) = SivTerm("siv", ts, l, t)
<1>1. /\ s \in Seq(AadPiece) /\ (\E S : m \in Seq(S)) /\ (\E S : l \in Seq(S))
      /\ CmacOf(m, s) /\ CmacOf(l, s) /\ (st = "INIT" <=> ts = "INIT")
  BY DEF CmacContext
<1>2. PICK S, R : m \in Seq(S) /\ l \in Seq(R)
  BY <1>1
<1>3. Len(m) = Len(l) /\ Len(m) = Len(s) + 1 /\ Len(s) \in Nat
  BY <1>1 DEF CmacOf
<1>4. ASSUME NEW i \in 1 .. Len(m)
      PROVE  m[i] = l[i]
  <2>1. i = 1 \/ i - 1 \in 1 .. Len(s)
    BY <1>3
  <2>2. CASE i = 1
    BY <1>1, <2>2 DEF CmacOf
  <2>3. CASE i - 1 \in 1 .. Len(s)
    <3>1. (i - 1) + 1 = i
      BY <1>3
    <3>2. m[(i - 1) + 1] = <<"cmac", s[i - 1][2]>> /\ l[(i - 1) + 1] = <<"cmac", s[i - 1][2]>>
      BY <1>1, <2>3 DEF CmacOf
    <3> QED
      BY <3>1, <3>2
  <2> QED
    BY <2>1, <2>2, <2>3
<1>5. m = l
  <2>1. m \in Seq(S \union R) /\ l \in Seq(S \union R)
    BY <1>2
  <2> QED
    BY <1>3, <1>4, <2>1, SeqEqual
<1> QED
  BY <1>1, <1>5 DEF SivTerm

LEMMA HmacSame ==
  ASSUME NEW s, NEW c, NEW st \in {"INIT", "AAD", "NONCE"}, NEW m, HmacContext(s, c, st, m), NEW t,
         NEW d, NEW ts \in {"INIT", "AAD", "NONCE"}, NEW l, HmacContext(s, d, ts, l)
  PROVE  SivTerm("siv_hmac", st, m, t) = SivTerm("siv_hmac", ts, l, t)
<1>1. Encodes(m, s) /\ Encodes(l, s) /\ (st = "INIT" <=> ts = "INIT")
  BY DEF HmacContext
<1>2. m = l
  BY <1>1, EncodedOnce
<1> QED
  BY <1>1, <1>2 DEF SivTerm

\* A key of two units has none that is left unwritten.
SivKeys(w, tagged) == IF w = "siv" THEN {<<>>} ELSE SivMode!TempKeys(tagged)

LEMMA KeysAreMessageKeys == \A tagged : SivMode!MessageKeys(tagged) = SivKeys(kind, tagged)
BY DEF SivMode!MessageKeys, SivKeys

LEMMA OneKey ==
  ASSUME SivKeyUnits = 2, NEW w, NEW tagged, NEW k \in SivKeys(w, tagged), NEW l \in SivKeys(w, tagged)
  PROVE  k = l
<1>1. CASE w = "siv"
  BY <1>1 DEF SivKeys
<1>2. CASE w # "siv"
  <2>1. k \in SivMode!TempKeys(tagged) /\ l \in SivMode!TempKeys(tagged)
    BY <1>2 DEF SivKeys
  <2>2. 0 .. SivKeyUnits - 1 = {0, 1}
    OBVIOUS
  <2> DEFINE V == UNION {SivMode!UnitValues(tagged, u) : u \in {0, 1}}
  <2>3. /\ k \in [{0, 1} -> V] /\ l \in [{0, 1} -> V]
        /\ \A u \in DOMAIN k : k[u] \in SivMode!UnitValues(tagged, u)
        /\ \A u \in DOMAIN l : l[u] \in SivMode!UnitValues(tagged, u)
    BY <2>1, <2>2 DEF SivMode!TempKeys
  <2> HIDE DEF V
  <2>4. /\ k[0] \in SivMode!UnitValues(tagged, 0) /\ l[0] \in SivMode!UnitValues(tagged, 0)
        /\ k[1] \in SivMode!UnitValues(tagged, 1) /\ l[1] \in SivMode!UnitValues(tagged, 1)
    BY <2>3
  <2>5. /\ SivMode!UnitValues(tagged, 0) = {SivMode!ExpandedKey(tagged, 0)}
        /\ SivMode!UnitValues(tagged, 1) = {SivMode!ExpandedKey(tagged, 2)}
    <3>1. SivMode!Rounds = 1 /\ 1 % 2 = 1 /\ 1 \div 2 = 0 /\ 0 < 1 /\ 1 # 0 /\ 1 + 1 = 2
      BY DEF SivMode!Rounds
    <3> QED
      BY <3>1, Zenon DEF SivMode!UnitValues
  <2>6. k[0] = l[0] /\ k[1] = l[1]
    BY <2>4, <2>5, Zenon
  <2> QED
    BY <2>3, <2>6
<1> QED
  BY <1>1, <1>2

-----------------------------------------------------------------------------
(* The invariant: each context holds what its pieces and calls make it     *)
(* hold, each message and each decryption had such a context, and a tag    *)
(* that reaches the receiver names a term that was sent.                   *)

SentBy(w, m) ==
  \E st, l :
    /\ SivContext(w, "sender", m.inputs, m.crypts, st, l) /\ Final(w, st)
    /\ m.body.text \in Seq(Nat)
    /\ m.tag = SivMode!Tag(SivTerm(w, st, l, m.body.text), "none")
    /\ m.body.key \in SivKeys(w, m.tag)
    /\ m.body.iv = SivMode!CounterBlock(m.tag)

ReceivedBy(w, r) ==
  \E st, l, k, t :
    /\ SivContext(w, "receiver", r.inputs, r.crypts, st, l) /\ Final(w, st)
    /\ k \in SivKeys(w, r.tag)
    /\ t = SivMode!Decrypted(r.body, k, SivMode!CounterBlock(r.tag))
    /\ t \in Seq(Nat)
    /\ r.ok <=> SivMode!Tag(SivTerm(w, st, l, t), "none") = r.tag
    /\ r.ok => r.ok = TRUE /\ r.out = t

Sided(f) == f = [side \in {"sender", "receiver"} |-> f[side]]

SivContexts ==
  /\ kind \in {"siv", "siv_hmac"}
  /\ Sided(sivState) /\ Sided(sivMac) /\ Sided(inputs) /\ Sided(crypts)
  /\ \A side \in {"sender", "receiver"} :
       SivContext(kind, side, inputs[side], crypts[side], sivState[side], sivMac[side])

SivSent == \A m \in sent : SentBy(kind, m)
SivReceived ==
  \A r \in received : ReceivedBy(kind, r) /\ \E m \in sent : m.tag.term = r.tag.term

SivInv == SivContexts /\ SivSent /\ SivReceived

\* Associated data, nonces and texts are byte strings.
SivTyped == SivPieces \subseteq Seq(Nat) /\ Texts \subseteq Seq(Nat)

LEMMA SidedExcept ==
  ASSUME NEW f, Sided(f), NEW side \in {"sender", "receiver"}, NEW v
  PROVE  /\ Sided([f EXCEPT ![side] = v]) /\ [f EXCEPT ![side] = v][side] = v
         /\ \A q \in {"sender", "receiver"} : q # side => [f EXCEPT ![side] = v][q] = f[q]
BY DEF Sided

LEMMA SidedSame ==
  ASSUME NEW f, Sided(f), NEW side \in {"sender", "receiver"}
  PROVE  f = [f EXCEPT ![side] = f[side]]
BY DEF Sided

LEMMA DecryptedBytes ==
  ASSUME NEW b, b.text \in Seq(Nat), NEW k, NEW v
  PROVE  SivMode!Decrypted(b, k, v) \in Seq(Nat)
<1>1. PICK t : t = b.text /\ t \in Seq(Nat)
  OBVIOUS
<1>2. [i \in 1 .. Len(t) |-> 0] \in Seq(Nat)
  <2>1. Len(t) \in Nat
    BY <1>1
  <2> QED
    BY <2>1
<1> QED
  BY <1>1, <1>2 DEF SivMode!Decrypted

LEMMA SivStarts == ASSUME kind \in {"siv", "siv_hmac"}, NEW side
                   PROVE  SivContext(kind, side, <<>>, 0, "INIT", SivMode!Start)
BY CmacStart, HmacStart DEF SivContext, SivMode!Start

\* A call changes the context of one side.
LEMMA OneSide ==
  ASSUME SivContexts, NEW side \in {"sender", "receiver"}, kind' = kind,
         NEW s, NEW c, NEW st, NEW m, SivContext(kind, side, s, c, st, m),
         sivState' = [sivState EXCEPT ![side] = st], sivMac' = [sivMac EXCEPT ![side] = m],
         inputs' = [inputs EXCEPT ![side] = s], crypts' = [crypts EXCEPT ![side] = c]
  PROVE  SivContexts'
<1>1. kind' \in {"siv", "siv_hmac"}
  BY DEF SivContexts
<1>2. Sided(sivState') /\ Sided(sivMac') /\ Sided(inputs') /\ Sided(crypts')
  BY SidedExcept DEF SivContexts
<1>3. ASSUME NEW q \in {"sender", "receiver"}
      PROVE  SivContext(kind', q, inputs'[q], crypts'[q], sivState'[q], sivMac'[q])
  <2>1. CASE q = side
    <3>1. inputs'[q] = s /\ crypts'[q] = c /\ sivState'[q] = st /\ sivMac'[q] = m
      BY <2>1, SidedExcept DEF SivContexts
    <3> QED
      BY <2>1, <3>1
  <2>2. CASE q # side
    <3>1. /\ inputs'[q] = inputs[q] /\ crypts'[q] = crypts[q]
          /\ sivState'[q] = sivState[q] /\ sivMac'[q] = sivMac[q]
      BY <2>2, SidedExcept DEF SivContexts
    <3>2. SivContext(kind, q, inputs[q], crypts[q], sivState[q], sivMac[q])
      BY DEF SivContexts
    <3> QED
      BY <3>1, <3>2
  <2> QED
    BY <2>1, <2>2
<1> QED
  BY <1>1, <1>2, <1>3 DEF SivContexts

\* A call that changes one context and sends and receives nothing.
LEMMA OneContext ==
  ASSUME SivInv, NEW side \in {"sender", "receiver"}, kind' = kind, sent' = sent,
         received' = received, NEW s, NEW c, NEW st, NEW m, SivContext(kind, side, s, c, st, m),
         sivState' = [sivState EXCEPT ![side] = st], sivMac' = [sivMac EXCEPT ![side] = m],
         inputs' = [inputs EXCEPT ![side] = s], crypts' = [crypts EXCEPT ![side] = c]
  PROVE  SivInv'
<1>1. SivContexts'
  BY OneSide DEF SivInv
<1>2. SivSent'
  BY DEF SivInv, SivSent
<1>3. SivReceived'
  BY DEF SivInv, SivReceived
<1> QED
  BY <1>1, <1>2, <1>3 DEF SivInv

LEMMA SameContext ==
  ASSUME SivInv, NEW side \in {"sender", "receiver"}
  PROVE  /\ SivContext(kind, side, inputs[side], crypts[side], sivState[side], sivMac[side])
         /\ sivState = [sivState EXCEPT ![side] = sivState[side]]
         /\ sivMac = [sivMac EXCEPT ![side] = sivMac[side]]
         /\ inputs = [inputs EXCEPT ![side] = inputs[side]]
         /\ crypts = [crypts EXCEPT ![side] = crypts[side]]
         /\ kind \in {"siv", "siv_hmac"}
BY SidedSame DEF SivInv, SivContexts

LEMMA SivAuth ==
  ASSUME SivInv, SivTyped, NEW side \in {"sender", "receiver"}, NEW t \in SivPieces,
         SivMode!Auth(side, t)
  PROVE  SivInv'
<1>1. /\ kind = "siv" /\ kind' = kind /\ sent' = sent /\ received' = received /\ crypts' = crypts
      /\ sivState' = [sivState EXCEPT ![side] = "AAD"]
      /\ sivMac' = [sivMac EXCEPT ![side] = Append(sivMac[side], <<"cmac", t>>)]
      /\ inputs' = [inputs EXCEPT ![side] = Append(inputs[side], <<1, t>>)]
  BY DEF SivMode!Auth, SivMode!Call, SivMode!AdMark
<1>2. t \in Seq(Nat)
  BY DEF SivTyped
<1>3. CmacContext(side, inputs[side], crypts[side], sivState[side], sivMac[side])
  BY <1>1, SameContext DEF SivContext
<1>4. CmacContext(side, Append(inputs[side], <<1, t>>), crypts[side], "AAD",
                  Append(sivMac[side], <<"cmac", t>>))
  BY <1>2, <1>3, CmacAad
<1>5. SivContext(kind, side, Append(inputs[side], <<1, t>>), crypts[side], "AAD",
                 Append(sivMac[side], <<"cmac", t>>))
  BY <1>1, <1>4 DEF SivContext
<1>6. crypts' = [crypts EXCEPT ![side] = crypts[side]]
  BY <1>1, SameContext
<1> QED
  BY <1>1, <1>5, <1>6, OneContext

LEMMA SivHmacAuth ==
  ASSUME SivInv, SivTyped, NEW side \in {"sender", "receiver"}, NEW t \in SivPieces,
         NEW x \in {1, 2}, SivMode!HmacAuth(side, t, x)
  PROVE  SivInv'
<1> DEFINE st == IF x = 1 THEN "AAD" ELSE "NONCE"
           m == SivMode!AuthBackend(sivMac[side], t, x)
<1>1. /\ kind = "siv_hmac" /\ kind' = kind /\ sent' = sent /\ received' = received
      /\ crypts' = crypts /\ sivState[side] \in {"INIT", "AAD"}
      /\ sivState' = [sivState EXCEPT ![side] = st]
      /\ sivMac' = [sivMac EXCEPT ![side] = m]
      /\ inputs' = [inputs EXCEPT ![side] = Append(inputs[side], <<x, t>>)]
  BY DEF SivMode!HmacAuth, SivMode!Call, SivMode!AdMark
<1>2. t \in Seq(Nat) /\ kind # "siv"
  BY <1>1 DEF SivTyped
<1>3. HmacContext(inputs[side], crypts[side], sivState[side], sivMac[side])
  BY <1>2, SameContext DEF SivContext
<1>4. HmacContext(Append(inputs[side], <<x, t>>), crypts[side], st, m)
  BY <1>1, <1>2, <1>3, HmacAad
<1> HIDE DEF st, m
<1>5. SivContext(kind, side, Append(inputs[side], <<x, t>>), crypts[side], st, m)
  BY <1>2, <1>4 DEF SivContext
<1>6. crypts' = [crypts EXCEPT ![side] = crypts[side]]
  BY <1>1, SameContext
<1> QED
  BY <1>1, <1>5, <1>6, OneContext

LEMMA SivReset ==
  ASSUME SivInv, NEW side \in {"sender", "receiver"}, SivMode!Reset(side)
  PROVE  SivInv'
<1>1. /\ kind' = kind /\ sent' = sent /\ received' = received
      /\ sivState' = [sivState EXCEPT ![side] = "INIT"]
      /\ sivMac' = [sivMac EXCEPT ![side] = SivMode!Start]
      /\ inputs' = [inputs EXCEPT ![side] = <<>>] /\ crypts' = [crypts EXCEPT ![side] = 0]
  BY DEF SivMode!Reset, SivMode!Call
<1>2. SivContext(kind, side, <<>>, 0, "INIT", SivMode!Start)
  BY SivStarts, SameContext
<1> QED
  BY <1>1, <1>2, OneContext

LEMMA SivRefused ==
  ASSUME SivInv, SivMode!EncryptRefused
  PROVE  SivInv'
<1>1. /\ kind' = kind /\ sent' = sent /\ received' = received /\ sivMac' = sivMac
      /\ inputs' = inputs /\ crypts' = crypts /\ sivState["sender"] \notin {"INIT", "AAD"}
      /\ sivState' = [sivState EXCEPT !["sender"] = "INVALID"]
  BY DEF SivMode!EncryptRefused, SivMode!Call, SivMode!MayFinalize
<1>2. /\ SivContext(kind, "sender", inputs["sender"], crypts["sender"], sivState["sender"],
                    sivMac["sender"])
      /\ sivMac' = [sivMac EXCEPT !["sender"] = sivMac["sender"]]
      /\ inputs' = [inputs EXCEPT !["sender"] = inputs["sender"]]
      /\ crypts' = [crypts EXCEPT !["sender"] = crypts["sender"]]
      /\ kind \in {"siv", "siv_hmac"}
  BY <1>1, SameContext
<1>3. SivContext(kind, "sender", inputs["sender"], crypts["sender"], "INVALID", sivMac["sender"])
  <2>1. CASE kind = "siv"
    BY <1>1, <1>2, <2>1, CmacRefused DEF SivContext
  <2>2. CASE kind # "siv"
    BY <2>2 DEF SivContext, HmacContext
  <2> QED
    BY <2>1, <2>2
<1> QED
  BY <1>1, <1>2, <1>3, OneContext

LEMMA SivEncrypt ==
  ASSUME SivInv, SivTyped, NEW t \in Texts, SivMode!Encrypt(t)
  PROVE  SivInv'
<1> DEFINE st == sivState["sender"]
           l == sivMac["sender"]
           s == inputs["sender"]
           c == crypts["sender"]
           tagged == SivMode!Tag(SivTerm(kind, st, l, t), "none")
           after == IF kind = "siv" THEN <<<<"q", tagged.term>>>>
                    ELSE SivMode!AfterFinalize(st, l, t)
           message(k) == [inputs |-> s, crypts |-> c, tag |-> tagged,
                          body |-> [key |-> k, iv |-> SivMode!CounterBlock(tagged), text |-> t]]
<1>1. /\ kind' = kind /\ received' = received /\ inputs' = inputs /\ Final(kind, st)
      /\ sivState' = [sivState EXCEPT !["sender"] = "TEXT"]
      /\ crypts' = [crypts EXCEPT !["sender"] = c + 1]
  BY DEF SivMode!Encrypt, SivMode!Call, SivMode!MayFinalize, Final
<1>2. sivMac' = [sivMac EXCEPT !["sender"] = after]
  BY SyntheticIsTerm DEF SivMode!Encrypt
<1>3. PICK k \in SivKeys(kind, tagged) : sent' = sent \union {message(k)}
  <2>1. \E k \in SivMode!MessageKeys(tagged) : sent' = sent \union {message(k)}
    BY SyntheticIsTerm DEF SivMode!Encrypt
  <2> QED
    BY <2>1, KeysAreMessageKeys, Zenon
<1>4. /\ SivContext(kind, "sender", s, c, st, l) /\ inputs = [inputs EXCEPT !["sender"] = s]
      /\ kind \in {"siv", "siv_hmac"}
  BY SameContext
<1>5. t \in Seq(Nat)
  BY DEF SivTyped
<1>6. /\ message(k).inputs = s /\ message(k).crypts = c /\ message(k).tag = tagged
      /\ message(k).body.text = t /\ message(k).body.key = k
      /\ message(k).body.iv = SivMode!CounterBlock(tagged)
  OBVIOUS
<1> HIDE DEF message
<1>7. SentBy(kind, message(k))
  <2> HIDE DEF after, st, l, s, c
  <2>1. tagged = SivMode!Tag(SivTerm(kind, st, l, message(k).body.text), "none")
    BY <1>6
  <2> HIDE DEF tagged
  <2> QED
    BY <1>1, <1>3, <1>4, <1>5, <1>6, <2>1 DEF SentBy
<1>8. SivContext(kind, "sender", s, c + 1, "TEXT", after)
  <2>1. CASE kind = "siv"
    <3>1. CmacContext("sender", s, c, st, l) /\ after = <<<<"q", tagged.term>>>>
      BY <1>4, <2>1 DEF SivContext
    <3> HIDE DEF after, st, l, s, c, tagged
    <3> QED
      BY <2>1, <3>1, CmacSealed DEF SivContext
  <2>2. CASE kind # "siv"
    <3> HIDE DEF after, st, l, s, c, tagged
    <3> QED
      BY <2>2 DEF SivContext, HmacContext
  <2> QED
    BY <2>1, <2>2
<1> HIDE DEF after, st, l, s, c, tagged
<1>9. SivContexts'
  BY <1>1, <1>2, <1>4, <1>8, OneSide DEF SivInv
<1>10. SivSent'
  <2>1. \A m \in sent : SentBy(kind, m)
    BY DEF SivInv, SivSent
  <2>2. \A m \in sent' : SentBy(kind', m)
    BY <1>1, <1>3, <1>7, <2>1
  <2> QED
    BY <2>2 DEF SivSent
<1>11. SivReceived'
  <2>1. \A r \in received : ReceivedBy(kind, r) /\ \E m \in sent : m.tag.term = r.tag.term
    BY DEF SivInv, SivReceived
  <2>2. \A r \in received' : ReceivedBy(kind', r) /\ \E m \in sent' : m.tag.term = r.tag.term
    BY <1>1, <1>3, <2>1
  <2> QED
    BY <2>2 DEF SivReceived
<1> QED
  BY <1>9, <1>10, <1>11 DEF SivInv

\* The tag has the term of one message sent and the body is that of another.
LEMMA SivDecrypt ==
  ASSUME SivInv, NEW a \in sent, NEW b \in sent, NEW flip,
         SivMode!Decrypt(SivMode!Tag(a.tag.term, flip), b.body)
  PROVE  SivInv'
<1> DEFINE st == sivState["receiver"]
           l == sivMac["receiver"]
           s == inputs["receiver"]
           c == crypts["receiver"]
           tagged == SivMode!Tag(a.tag.term, flip)
           plain(k) == SivMode!Decrypted(b.body, k, SivMode!CounterBlock(tagged))
           good(k) == SivMode!Tag(SivTerm(kind, st, l, plain(k)), "none") = tagged
           resets(k) == ~good(k) /\ kind = "siv_hmac"
           outcome(k) == [inputs |-> s, crypts |-> c, tag |-> tagged, body |-> b.body,
                         ok |-> good(k), out |-> IF good(k) THEN plain(k) ELSE <<>>]
<1>1. kind' = kind /\ sent' = sent /\ Final(kind, st)
  BY DEF SivMode!Decrypt, SivMode!Call, SivMode!MayFinalize, Final
<1>2. PICK k \in SivKeys(kind, tagged) :
        /\ received' = received \union {outcome(k)}
        /\ sivState' = [sivState EXCEPT !["receiver"] = IF resets(k) THEN "INIT" ELSE "TEXT"]
        /\ sivMac' = [sivMac EXCEPT !["receiver"] =
                        IF resets(k) THEN SivMode!Start ELSE SivMode!AfterFinalize(st, l, plain(k))]
        /\ inputs' = [inputs EXCEPT !["receiver"] = IF resets(k) THEN <<>> ELSE s]
        /\ crypts' = [crypts EXCEPT !["receiver"] = IF resets(k) THEN 0 ELSE c + 1]
  <2>1. \E k \in SivMode!MessageKeys(tagged) :
          /\ received' = received \union {outcome(k)}
          /\ sivState' = [sivState EXCEPT !["receiver"] = IF resets(k) THEN "INIT" ELSE "TEXT"]
          /\ sivMac' = [sivMac EXCEPT !["receiver"] =
                          IF resets(k) THEN SivMode!Start ELSE SivMode!AfterFinalize(st, l, plain(k))]
          /\ inputs' = [inputs EXCEPT !["receiver"] = IF resets(k) THEN <<>> ELSE s]
          /\ crypts' = [crypts EXCEPT !["receiver"] = IF resets(k) THEN 0 ELSE c + 1]
    BY SyntheticIsTerm DEF SivMode!Decrypt
  <2> QED
    BY <2>1, KeysAreMessageKeys, Zenon
<1>3. /\ SivContext(kind, "receiver", s, c, st, l) /\ kind \in {"siv", "siv_hmac"}
  BY SameContext
<1> DEFINE y == plain(k)
           ok_ == good(k)
<1>4. y \in Seq(Nat)
  <2>1. b.body.text \in Seq(Nat)
    BY DEF SivInv, SivSent, SentBy
  <2> QED
    BY <2>1, DecryptedBytes
<1>5. /\ outcome(k).inputs = s /\ outcome(k).crypts = c /\ outcome(k).tag = tagged
      /\ outcome(k).body = b.body /\ outcome(k).ok = ok_ /\ (ok_ => outcome(k).out = y)
  OBVIOUS
<1>6. tagged.term = a.tag.term
  BY DEF SivMode!Tag
<1>7. ok_ \in BOOLEAN /\ (ok_ <=> SivMode!Tag(SivTerm(kind, st, l, y), "none") = tagged)
  OBVIOUS
<1>8. y = SivMode!Decrypted(b.body, k, SivMode!CounterBlock(tagged))
  OBVIOUS
<1> HIDE DEF st, l, s, c
<1>9. SivContext(kind, "receiver", IF resets(k) THEN <<>> ELSE s, IF resets(k) THEN 0 ELSE c + 1,
                 IF resets(k) THEN "INIT" ELSE "TEXT",
                 IF resets(k) THEN SivMode!Start ELSE SivMode!AfterFinalize(st, l, y))
  <2>1. CASE resets(k)
    BY <1>3, <2>1, SivStarts
  <2>2. CASE ~resets(k) /\ kind = "siv"
    <3>1. CmacContext("receiver", s, c, st, l)
      BY <1>3, <2>2 DEF SivContext
    <3>2. SivMode!AfterFinalize(st, l, y) \in {l, Append(l, <<"dbl", <<>>>>)}
      BY <2>2 DEF SivMode!AfterFinalize
    <3>3. CmacContext("receiver", s, c + 1, "TEXT", SivMode!AfterFinalize(st, l, y))
      BY <3>1, <3>2, CmacOpened
    <3> QED
      BY <2>2, <3>3 DEF SivContext
  <2>3. CASE ~resets(k) /\ kind # "siv"
    <3>1. HmacContext(s, c + 1, "TEXT", SivMode!AfterFinalize(st, l, y))
      BY DEF HmacContext
    <3> QED
      BY <2>3, <3>1 DEF SivContext
  <2> QED
    BY <2>1, <2>2, <2>3
<1>10. SivContexts'
  <2> DEFINE z == IF resets(k) THEN <<>> ELSE s
             d == IF resets(k) THEN 0 ELSE c + 1
             ts == IF resets(k) THEN "INIT" ELSE "TEXT"
             m == IF resets(k) THEN SivMode!Start ELSE SivMode!AfterFinalize(st, l, y)
  <2>1. /\ sivState' = [sivState EXCEPT !["receiver"] = ts]
        /\ sivMac' = [sivMac EXCEPT !["receiver"] = m]
        /\ inputs' = [inputs EXCEPT !["receiver"] = z]
        /\ crypts' = [crypts EXCEPT !["receiver"] = d]
    BY <1>2
  <2>2. SivContext(kind, "receiver", z, d, ts, m)
    BY <1>9
  <2> HIDE DEF z, d, ts, m
  <2> QED
    BY <1>1, <2>1, <2>2, OneSide DEF SivInv
<1> HIDE DEF outcome, y, ok_
<1>11. ReceivedBy(kind, outcome(k))
  <2> DEFINE r == outcome(k)
  <2>1. /\ r.inputs = s /\ r.crypts = c /\ r.tag = tagged /\ r.body = b.body
        /\ r.ok = ok_ /\ (ok_ => r.out = y)
    BY <1>5
  <2> HIDE DEF r, tagged
  <2>2. SivContext(kind, "receiver", r.inputs, r.crypts, st, l) /\ Final(kind, st)
        /\ k \in SivKeys(kind, r.tag)
    BY <1>1, <1>2, <1>3, <2>1, Zenon
  <2>3. y = SivMode!Decrypted(r.body, k, SivMode!CounterBlock(r.tag)) /\ y \in Seq(Nat)
    BY <1>4, <1>8, <2>1
  <2>4. (r.ok <=> SivMode!Tag(SivTerm(kind, st, l, y), "none") = r.tag)
        /\ (r.ok => r.ok = TRUE /\ r.out = y)
    BY <1>7, <2>1
  <2>5. ReceivedBy(kind, r)
    BY <2>2, <2>3, <2>4, Zenon DEF ReceivedBy
  <2> QED
    BY <2>5 DEF r
<1>12. SivSent'
  BY <1>1 DEF SivInv, SivSent
<1>13. SivReceived'
  <2>1. \A r \in received : ReceivedBy(kind, r) /\ \E m \in sent : m.tag.term = r.tag.term
    BY DEF SivInv, SivReceived
  <2>2. \E m \in sent : m.tag.term = outcome(k).tag.term
    BY <1>5, <1>6
  <2>3. \A r \in received' : ReceivedBy(kind', r) /\ \E m \in sent' : m.tag.term = r.tag.term
    BY <1>1, <1>2, <1>11, <2>1, <2>2
  <2> QED
    BY <2>3 DEF SivReceived
<1> QED
  BY <1>10, <1>12, <1>13 DEF SivInv

LEMMA SivStep ==
  ASSUME SivInv, SivTyped, SivMode!Next
  PROVE  SivInv'
<1>1. CASE \E side \in {"sender", "receiver"}, t \in SivPieces : SivMode!Auth(side, t)
  BY <1>1, SivAuth
<1>2. CASE \E side \in {"sender", "receiver"}, t \in SivPieces, x \in {1, 2} :
             SivMode!HmacAuth(side, t, x)
  BY <1>2, SivHmacAuth
<1>3. CASE \E side \in {"sender", "receiver"} : SivMode!Reset(side)
  BY <1>3, SivReset
<1>4. CASE \E t \in Texts : SivMode!Encrypt(t)
  BY <1>4, SivEncrypt
<1>5. CASE SivMode!EncryptRefused
  BY <1>5, SivRefused
<1>6. CASE \E a, b \in sent, flip \in SivMode!Flips :
             SivMode!Decrypt(SivMode!Tag(a.tag.term, flip), b.body)
  BY <1>6, SivDecrypt
<1> QED
  BY <1>1, <1>2, <1>3, <1>4, <1>5, <1>6
  DEF SivMode!Next, SivMode!Sides, SivMode!AdMark, SivMode!NonceMark

LEMMA SivInitially == SivMode!Init => SivInv
<1> SUFFICES ASSUME SivMode!Init
             PROVE  SivInv
  OBVIOUS
<1>1. /\ kind \in {"siv", "siv_hmac"} /\ sent = {} /\ received = {}
      /\ sivState = [q \in {"sender", "receiver"} |-> "INIT"]
      /\ sivMac = [q \in {"sender", "receiver"} |-> SivMode!Start]
      /\ inputs = [q \in {"sender", "receiver"} |-> <<>>]
      /\ crypts = [q \in {"sender", "receiver"} |-> 0]
  BY DEF SivMode!Init, SivMode!Kinds, SivMode!Sides
<1>2. Sided(sivState) /\ Sided(sivMac) /\ Sided(inputs) /\ Sided(crypts)
  BY <1>1 DEF Sided
<1>3. ASSUME NEW side \in {"sender", "receiver"}
      PROVE  SivContext(kind, side, inputs[side], crypts[side], sivState[side], sivMac[side])
  <2>1. /\ inputs[side] = <<>> /\ crypts[side] = 0 /\ sivState[side] = "INIT"
        /\ sivMac[side] = SivMode!Start
    BY <1>1
  <2> QED
    BY <1>1, <2>1, SivStarts
<1>4. SivContexts
  BY <1>1, <1>2, <1>3 DEF SivContexts
<1>5. SivSent /\ SivReceived
  BY <1>1 DEF SivSent, SivReceived
<1> QED
  BY <1>4, <1>5 DEF SivInv

-----------------------------------------------------------------------------
(* What is opened.                                                         *)

\* Contexts whose tags agree had the same pieces and the same text.
LEMMA SivMatch ==
  ASSUME NEW w \in {"siv", "siv_hmac"},
         NEW s, NEW c, NEW st, NEW m, SivContext(w, "sender", s, c, st, m), Final(w, st),
         NEW t \in Seq(Nat),
         NEW z, NEW d, NEW ts, NEW l, SivContext(w, "receiver", z, d, ts, l), Final(w, ts),
         NEW y \in Seq(Nat), SivTerm(w, st, m, t) = SivTerm(w, ts, l, y)
  PROVE  s = z /\ t = y
<1>1. CASE w = "siv"
  BY <1>1, CmacMatch DEF SivContext
<1>2. CASE w = "siv_hmac"
  <2>1. HmacContext(s, c, st, m) /\ HmacContext(z, d, ts, l)
    BY <1>2 DEF SivContext
  <2>2. st \in {"INIT", "AAD", "NONCE"} /\ ts \in {"INIT", "AAD", "NONCE"}
    BY <1>2 DEF Final
  <2> QED
    BY <1>2, <2>1, <2>2, HmacMatch
<1> QED
  BY <1>1, <1>2

LEMMA SivSame ==
  ASSUME NEW w \in {"siv", "siv_hmac"}, NEW s, NEW t,
         NEW st, NEW m, SivContext(w, "sender", s, 0, st, m), Final(w, st),
         NEW ts, NEW l, SivContext(w, "receiver", s, 0, ts, l), Final(w, ts)
  PROVE  SivTerm(w, st, m, t) = SivTerm(w, ts, l, t)
<1>1. CASE w = "siv"
  BY <1>1, CmacSame DEF SivContext
<1>2. CASE w = "siv_hmac"
  <2>1. HmacContext(s, 0, st, m) /\ HmacContext(s, 0, ts, l)
    BY <1>2 DEF SivContext
  <2>2. st \in {"INIT", "AAD", "NONCE"} /\ ts \in {"INIT", "AAD", "NONCE"}
    BY <1>2 DEF Final
  <2> QED
    BY <1>2, <2>1, <2>2, HmacSame
<1> QED
  BY <1>1, <1>2

LEMMA SivInvAuthentic == SivInv => SivMode!Authentic
<1> SUFFICES ASSUME SivInv, NEW r \in received, r.ok
             PROVE  \E m \in sent : m.inputs = r.inputs /\ m.body.text = r.out /\ m.tag = r.tag
  BY DEF SivMode!Authentic
<1>1. ReceivedBy(kind, r) /\ kind \in {"siv", "siv_hmac"}
  BY DEF SivInv, SivReceived, SivContexts
<1>2. PICK m \in sent : m.tag.term = r.tag.term
  BY DEF SivInv, SivReceived
<1>3. SentBy(kind, m)
  BY DEF SivInv, SivSent
<1>4. PICK ts, l, k, y :
        /\ SivContext(kind, "receiver", r.inputs, r.crypts, ts, l) /\ Final(kind, ts)
        /\ y \in Seq(Nat) /\ SivMode!Tag(SivTerm(kind, ts, l, y), "none") = r.tag /\ r.out = y
  BY <1>1 DEF ReceivedBy
<1>5. PICK st, q :
        /\ SivContext(kind, "sender", m.inputs, m.crypts, st, q) /\ Final(kind, st)
        /\ m.body.text \in Seq(Nat)
        /\ m.tag = SivMode!Tag(SivTerm(kind, st, q, m.body.text), "none")
  BY <1>3 DEF SentBy
<1>6. m.tag.term = SivTerm(kind, st, q, m.body.text) /\ r.tag.term = SivTerm(kind, ts, l, y)
  <2>1. \A x : SivMode!Tag(x, "none").term = x
    BY DEF SivMode!Tag
  <2> QED
    BY <1>4, <1>5, <2>1, Zenon
<1>7. SivTerm(kind, st, q, m.body.text) = SivTerm(kind, ts, l, y)
  BY <1>2, <1>6
<1>8. m.inputs = r.inputs /\ m.body.text = y
  BY <1>1, <1>4, <1>5, <1>7, SivMatch
<1>9. m.tag = r.tag
  BY <1>4, <1>5, <1>7
<1> QED
  BY <1>4, <1>8, <1>9

LEMMA SivInvRoundTrip == SivInv /\ SivKeyUnits = 2 => SivMode!RoundTrip
<1> SUFFICES ASSUME SivInv, SivKeyUnits = 2, NEW r \in received, NEW m \in sent,
                    r.tag = m.tag, r.body = m.body, r.inputs = m.inputs, r.crypts = 0, m.crypts = 0
             PROVE  r.ok /\ r.out = m.body.text
  BY DEF SivMode!RoundTrip
<1>1. ReceivedBy(kind, r) /\ kind \in {"siv", "siv_hmac"} /\ SentBy(kind, m)
  BY DEF SivInv, SivReceived, SivContexts, SivSent
<1>2. PICK ts, l, k, y :
        /\ SivContext(kind, "receiver", r.inputs, r.crypts, ts, l) /\ Final(kind, ts)
        /\ k \in SivKeys(kind, r.tag)
        /\ y = SivMode!Decrypted(r.body, k, SivMode!CounterBlock(r.tag)) /\ y \in Seq(Nat)
        /\ r.ok <=> SivMode!Tag(SivTerm(kind, ts, l, y), "none") = r.tag
        /\ r.ok => r.ok = TRUE /\ r.out = y
  BY <1>1 DEF ReceivedBy
<1>3. PICK st, q :
        /\ SivContext(kind, "sender", m.inputs, m.crypts, st, q) /\ Final(kind, st)
        /\ m.tag = SivMode!Tag(SivTerm(kind, st, q, m.body.text), "none")
        /\ m.body.key \in SivKeys(kind, m.tag)
        /\ m.body.iv = SivMode!CounterBlock(m.tag)
  BY <1>1 DEF SentBy
<1>4. k = m.body.key
  BY <1>2, <1>3, OneKey
<1>5. y = m.body.text
  <2>1. y = SivMode!Decrypted(m.body, m.body.key, m.body.iv)
    BY <1>2, <1>3, <1>4
  <2> QED
    BY <2>1, Zenon DEF SivMode!Decrypted
<1>6. SivTerm(kind, st, q, y) = SivTerm(kind, ts, l, y)
  BY <1>1, <1>2, <1>3, SivSame
<1>7. SivMode!Tag(SivTerm(kind, ts, l, y), "none") = r.tag
  BY <1>3, <1>5, <1>6
<1> QED
  BY <1>2, <1>5, <1>7

LEMMA SivMoves == ASSUME MCNext \/ UNCHANGED mcVars PROVE [SivMode!Next]_siv
BY DEF MCNext, mcVars

LEMMA SivNext ==
  ASSUME SivInv, SivTyped, [SivMode!Next]_siv
  PROVE  SivInv'
<1>1. CASE SivMode!Next
  BY <1>1, SivStep
<1>2. CASE UNCHANGED siv
  <2>1. /\ kind' = kind /\ sivState' = sivState /\ sivMac' = sivMac /\ inputs' = inputs
        /\ crypts' = crypts /\ sent' = sent /\ received' = received
    BY <1>2 DEF siv
  <2>2. SivContexts'
    BY <2>1 DEF SivInv, SivContexts
  <2>3. SivSent' /\ SivReceived'
    BY <2>1 DEF SivInv, SivSent, SivReceived
  <2> QED
    BY <2>2, <2>3 DEF SivInv
<1> QED
  BY <1>1, <1>2

-----------------------------------------------------------------------------
(* The theorems.                                                           *)

\* The HMAC DRBG gives no block twice, none that its state would give again, and after a
\* reseed none that does not depend on the seed (ccdrbg_nisthmac.c).
THEOREM OutputCannotBeRecomputed ==
  ASSUME DrbgSound
  PROVE  MCSpec => []Hmac!OutputIndependent
<1>1. MCInit => DrbgInv
  BY DrbgInitial DEF MCInit
<1>2. DrbgInv /\ [MCNext]_mcVars => DrbgInv'
  BY DrbgMoves, DrbgNext
<1>3. DrbgInv => Hmac!OutputIndependent
  BY DrbgIndependent
<1> QED
  BY <1>1, <1>2, <1>3, PTL DEF MCSpec

\* Of all contexts together, neither the keystream of GCM (ccmode_gcm_*.c) nor the output of
\* the HMAC DRBG (ccdrbg_nisthmac.c) is used twice.
THEOREM NothingIsUsedTwice ==
  ASSUME GcmSound, DrbgSound
  PROVE  MCSpec => []NothingTwice
<1>1. MCInit => GcmInv
  BY GcmInitial DEF MCInit
<1>2. GcmInv /\ [MCNext]_mcVars => GcmInv'
  <2>1. [MCNext]_mcVars => [Next]_vars
    BY GcmMoves
  <2> QED
    BY <2>1, GcmStep
<1>3. GcmInv => KeystreamOnce
  BY GcmPromises
<1>4. KeystreamOnce /\ Hmac!OutputIndependent => NothingTwice
  BY DEF NothingTwice
<1> QED
  BY <1>1, <1>2, <1>3, <1>4, OutputCannotBeRecomputed, PTL DEF MCSpec

\* What Siv opens was sealed with the same pieces in the same roles and order and with the
\* same plaintext, whatever tags, bodies and bits were joined, and for keys of any size
\* (ccmode_siv_decrypt.c, ccmode_siv_hmac_decrypt.c).
THEOREM OnlyTheSealedIsOpened ==
  ASSUME SivTyped
  PROVE  MCSpec => []SivMode!Authentic
<1>1. MCInit => SivInv
  BY SivInitially DEF MCInit
<1>2. SivInv /\ [MCNext]_mcVars => SivInv'
  BY SivMoves, SivNext
<1>3. SivInv => SivMode!Authentic
  BY SivInvAuthentic
<1> QED
  BY <1>1, <1>2, <1>3, PTL DEF MCSpec

\* With a key of two half blocks, the only size whose message key is all written, what was
\* sealed is opened besides (ccmode_siv_hmac_crypt.c; for the other sizes see SivHmacKey.cfg).
THEOREM WhatIsSealedOpens ==
  ASSUME SivTyped, SivKeyUnits = 2
  PROVE  MCSpec => []SivMatches
<1>1. MCInit => SivInv
  BY SivInitially DEF MCInit
<1>2. SivInv /\ [MCNext]_mcVars => SivInv'
  BY SivMoves, SivNext
<1>3. SivInv => SivMatches
  BY SivInvAuthentic, SivInvRoundTrip DEF SivMatches, SivRoundTrip
<1> QED
  BY <1>1, <1>2, <1>3, PTL DEF MCSpec
=============================================================================
