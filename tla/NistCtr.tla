------------------------------ MODULE NistCtr ------------------------------
(***************************************************************************)
(* The CTR DRBG (ccdrbg_nistctr.c) over a counter mode context that        *)
(* increments after each block and keeps the unused bytes of a block for   *)
(* the next call.  Inputs are seed material, already condensed or padded   *)
(* to the seed length (the derivation function is in Streams).  The seed   *)
(* length is a whole number of blocks, as it is with AES-128 and AES-256.  *)
(***************************************************************************)
EXTENDS Integers, Sequences

CONSTANTS
    Block,          \* bytes of a cipher block
    SeedLen,        \* key and block together, in bytes
    CounterValues,  \* values of the half of V that counts
    Interval,       \* CCDRBG_RESEED_INTERVAL
    StrictFips,     \* whether the interval is enforced
    MaxRequest,     \* CCDRBG_MAX_REQUEST_SIZE
    Seeds,          \* seed material for instantiation and reseeding
    Additional,     \* additional input to generate
    NoData,         \* its absence, and the zeros used in its place
    Requests,       \* output lengths asked for
    MaxCalls        \* bound on the calls made

VARIABLES
    key,            \* the updates since instantiation, which fix the key
    start,          \* the counter the context was set to, from V's last value
    pos,            \* bytes drawn from the context since
    reseed_counter, \* 0 where there is no instance
    status,         \* the last call's result
    out,            \* and its output
    calls

vars == <<key, start, pos, reseed_counter, status, out, calls>>

----------------------------------------------------------------------------
(* ccctr_update: byte i from the context set to counter s, drawn when p    *)
(* bytes were.                                                             *)
Drawn(k, s, p, n) ==
    [i \in 1 .. n |->
        <<k, (s + ((p + i - 1) \div Block)) % CounterValues, (p + i - 1) % Block>>]

(* The key made from the next SeedLen bytes.                               *)
DrbgUpdate(k, s, p, data) ==
    Append(k, <<(s + (p \div Block)) % CounterValues, p % Block, data>>)

(* Mutant of FirstCounter: V is not incremented after an update.           *)
FirstCounterIsV == 0

(* After an update V is incremented once before it is loaded, since the    *)
(* context increments after a block and the standard before.               *)
FirstCounter == 1

(* Mutant of Remainder: the rest of the last block is kept.                *)
RemainderKept(n) == 0

(* The rest of a request's last block, drawn and discarded.                *)
Remainder(n) == (Block - (n % Block)) % Block

----------------------------------------------------------------------------
Init ==
    /\ key = <<>>
    /\ start = FirstCounter
    /\ pos = 0
    /\ reseed_counter = 0
    /\ status = "UNINSTANTIATED"
    /\ out = <<>>
    /\ calls = 0

Call ==
    /\ calls < MaxCalls
    /\ calls' = calls + 1

Rekeyed(k) ==
    /\ key' = k
    /\ start' = FirstCounter
    /\ pos' = 0

(* nistctr_init: a zero key and V = 1.                                     *)
NistctrInit(data) ==
    /\ Call
    /\ reseed_counter = 0
    /\ Rekeyed(DrbgUpdate(<<>>, 1, 0, data))
    /\ reseed_counter' = 1
    /\ status' = "OK"
    /\ out' = <<>>

Reseed(data) ==
    /\ Call
    /\ reseed_counter > 0
    /\ Rekeyed(DrbgUpdate(key, start, pos, data))
    /\ reseed_counter' = 1
    /\ status' = "OK"
    /\ out' = <<>>

(* done, and nistctr_init when it refuses its inputs or its update fails.   *)
Cleared(result) ==
    /\ Call
    /\ key' = <<>>
    /\ start' = FirstCounter
    /\ pos' = 0
    /\ reseed_counter' = 0
    /\ status' = result
    /\ out' = <<>>

(* The two halves of the update's bytes are the same: the bytes are gone,  *)
(* nothing else has changed.                                               *)
ReseedFails ==
    /\ Call
    /\ reseed_counter > 0
    /\ pos' = pos + SeedLen
    /\ status' = "PARAM_ERROR"
    /\ out' = <<>>
    /\ UNCHANGED <<key, start, reseed_counter>>

(* Entropy, personalization or additional input of the wrong length.       *)
InvalidInput ==
    /\ Call
    /\ reseed_counter > 0
    /\ status' = "PARAM_ERROR"
    /\ out' = <<>>
    /\ UNCHANGED <<key, start, pos, reseed_counter>>

NeedsReseed == StrictFips /\ reseed_counter > Interval

GenerateRefused(n) ==
    /\ Call
    /\ reseed_counter > 0
    /\ n > MaxRequest \/ NeedsReseed
    /\ status' = IF n > MaxRequest THEN "PARAM_ERROR" ELSE "NEED_RESEED"
    /\ out' = <<>>
    /\ UNCHANGED <<key, start, pos, reseed_counter>>

(* Generate: update with the additional input if there is any, draw the    *)
(* output and the rest of its last block, update again.                    *)
Generate(n, data) ==
    /\ Call
    /\ reseed_counter > 0
    /\ n <= MaxRequest
    /\ ~NeedsReseed
    /\ LET k == IF data = NoData THEN key ELSE DrbgUpdate(key, start, pos, data)
           s == IF data = NoData THEN start ELSE FirstCounter
           p == IF data = NoData THEN pos ELSE 0
           used == p + n + Remainder(n)
       IN  \/ /\ out' = Drawn(k, s, p, n)
              /\ Rekeyed(DrbgUpdate(k, s, used, data))
              /\ reseed_counter' = reseed_counter + 1
              /\ status' = "OK"
           \/ /\ out' = Drawn(k, s, p, n)     \* the last update fails
              /\ key' = k
              /\ start' = s
              /\ pos' = used + SeedLen
              /\ status' = "ERROR"
              /\ UNCHANGED reseed_counter

(* The update before the output fails.                                     *)
GenerateFailsEarly(n, data) ==
    /\ Call
    /\ reseed_counter > 0
    /\ n <= MaxRequest
    /\ ~NeedsReseed
    /\ data # NoData
    /\ pos' = pos + SeedLen
    /\ status' = "ERROR"
    /\ out' = <<>>
    /\ UNCHANGED <<key, start, reseed_counter>>

Next ==
    \/ \E data \in Seeds : NistctrInit(data) \/ Reseed(data)
    \/ reseed_counter > 0 /\ Cleared("OK")
    \/ reseed_counter = 0 /\ Cleared("PARAM_ERROR")
    \/ ReseedFails
    \/ InvalidInput
    \/ \E n \in Requests : GenerateRefused(n)
    \/ \E n \in Requests, data \in Additional \cup {NoData} :
        Generate(n, data) \/ GenerateFailsEarly(n, data)

Spec == Init /\ [][Next]_vars

----------------------------------------------------------------------------
(* The standard's V is one behind the next block of the context.           *)
Standard == INSTANCE CtrDrbgStandard
                WITH v <- (start + (pos \div Block) - 1) % CounterValues

(* "Increment V here to accommodate the difference between the NIST spec   *)
(* (pre-increment) and our CTR implementation (post-increment)": over any  *)
(* sequence of calls, failed updates included, the generator's keys and    *)
(* output are those of the standard's CTR_DRBG.                            *)
ImplementsStandard == Standard!Spec
=============================================================================
