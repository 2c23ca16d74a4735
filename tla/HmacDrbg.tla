------------------------------ MODULE HmacDrbg ------------------------------
(***************************************************************************)
(* The HMAC DRBG (ccdrbg_nisthmac.c).  HMAC is ideal, so that a key is     *)
(* what it was made from: the sequence of HMACs since instantiation, each  *)
(* the number of the V that went into it, the byte and the data.  V is     *)
(* then the key it was last computed with and how often it was since.      *)
(***************************************************************************)
EXTENDS Integers, Sequences

CONSTANTS
    Block,        \* output_size
    Interval,     \* CCDRBG_RESEED_INTERVAL
    StrictFips,   \* custom->strictFIPS
    MaxRequest,   \* CCDRBG_MAX_REQUEST_SIZE
    Seeds,        \* entropy, with a nonce and a personalization or additional input
    Additional,   \* additional input to generate
    NoData,       \* none
    Requests,     \* numbers of bytes asked for
    MaxCalls      \* bound: calls

VARIABLES
    key,
    n,               \* of V = <<key, n>>
    reseed_counter,  \* 0 where there is no instance
    status,
    given,           \* history: the blocks of V an instance has given out, in order
    seeded,          \* history: the seed of the last init or reseed, and given's length then
    calls

vars == <<key, n, reseed_counter, status, given, seeded, calls>>

V == <<key, n>>

\* The key after update and what it needs of V: with data there is a second round.
Updated(k, m, data) ==
    LET first == Append(k, <<m, 0, data>>)
    IN  IF data = NoData THEN first ELSE Append(first, <<1, 1, data>>)

\* Mutant of Finished: the last update only when there is additional input.
FinishedIfInput(k, m, data) == IF data = NoData THEN <<k, m>> ELSE <<Updated(k, m, data), 1>>

\* V by the update after the output, with or without input.
Finished(k, m, data) == <<Updated(k, m, data), 1>>

Blocks(nbytes) == (nbytes + Block - 1) \div Block

Init ==
    /\ key = <<>> /\ n = 0 /\ reseed_counter = 0
    /\ status = "OK" /\ given = <<>> /\ seeded = <<NoData, 0>> /\ calls = 0

Call == calls < MaxCalls /\ calls' = calls + 1

SeedWith(k, m, seed) ==
    /\ key' = Updated(k, m, seed) /\ n' = 1
    /\ reseed_counter' = 1 /\ status' = "OK"
    /\ seeded' = <<seed, Len(given')>>

Instantiate(seed) == Call /\ reseed_counter = 0 /\ given' = <<>> /\ SeedWith(<<>>, 0, seed)
Reseed(seed) == Call /\ reseed_counter > 0 /\ given' = given /\ SeedWith(key, n, seed)

\* Entropy or input of the wrong length, by init, reseed or generate.
Refused ==
    /\ Call
    /\ status' = "PARAM_ERROR"
    /\ UNCHANGED <<key, n, reseed_counter, given, seeded>>

NeedsReseed == reseed_counter > Interval /\ StrictFips

GenerateRefused(nbytes) ==
    /\ Call /\ reseed_counter > 0
    /\ nbytes > MaxRequest \/ NeedsReseed
    /\ status' = IF nbytes > MaxRequest THEN "PARAM_ERROR" ELSE "NEED_RESEED"
    /\ UNCHANGED <<key, n, reseed_counter, given, seeded>>

\* V of a request's first block is the one behind these.
Before(data) ==
    IF data = NoData THEN V ELSE <<Updated(key, n, data), 1>>

Output(data, count) ==
    [i \in 1 .. count |-> <<Before(data)[1], Before(data)[2] + i>>]

Generate(nbytes, data) ==
    /\ Call /\ reseed_counter > 0
    /\ nbytes <= MaxRequest /\ ~NeedsReseed
    /\ given' = given \o Output(data, Blocks(nbytes))
    /\ LET before == Before(data)
           v == Finished(before[1], before[2] + Blocks(nbytes), data)
       IN  key' = v[1] /\ n' = v[2]
    /\ reseed_counter' = reseed_counter + 1 /\ status' = "OK"
    /\ UNCHANGED seeded

\* The health test fails after some blocks: the instance is gone, the blocks are given.
GenerateAborts(nbytes, data) ==
    /\ Call /\ reseed_counter > 0
    /\ nbytes <= MaxRequest /\ ~NeedsReseed
    /\ \E done \in 0 .. Blocks(nbytes) - 1 : given' = given \o Output(data, done)
    /\ key' = <<>> /\ n' = 0 /\ reseed_counter' = 0 /\ status' = "ABORT"
    /\ UNCHANGED seeded

Done ==
    /\ Call /\ reseed_counter > 0
    /\ key' = <<>> /\ n' = 0 /\ reseed_counter' = 0 /\ status' = "OK"
    /\ UNCHANGED <<given, seeded>>

Next ==
    \/ \E seed \in Seeds : Instantiate(seed) \/ Reseed(seed)
    \/ Refused
    \/ \E nbytes \in Requests : GenerateRefused(nbytes)
    \/ \E nbytes \in Requests, data \in Additional \cup {NoData} :
        Generate(nbytes, data) \/ GenerateAborts(nbytes, data)
    \/ Done

Spec == Init /\ [][Next]_vars

----------------------------------------------------------------------------
\* The blocks that who has the state can compute: those V goes on to, under this key or any
\* that is made from it.
Within(k) == Len(k) >= Len(key) /\ SubSeq(k, 1, Len(key)) = key
Computable(block) == Within(block[1]) /\ (block[1] = key => block[2] >= n)

\* No block is given out twice; none that was given can be computed from the state between
\* calls, be it V itself; and those since a reseed depend on its seed.
OutputIndependent ==
    /\ \A i, j \in DOMAIN given : i # j => given[i] # given[j]
    /\ reseed_counter > 0 => \A i \in DOMAIN given : ~Computable(given[i])
    /\ \A i \in seeded[2] + 1 .. Len(given) :
         \E step \in 1 .. Len(given[i][1]) : given[i][1][step][3] = seeded[1]
=============================================================================
