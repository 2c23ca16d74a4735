--------------------------- MODULE CtrDrbgStandard ---------------------------
(***************************************************************************)
(* What a CTR_DRBG promises (NIST SP 800-90A, 10.2.1, as the step comments *)
(* of ccdrbg_nistctr.c restate it): Update, Instantiate, Reseed and        *)
(* Generate over the working state Key, V and reseed_counter.  V is        *)
(* incremented before each block is made.                                  *)
(*                                                                         *)
(* A key is the sequence of updates that led to it, each the counter it    *)
(* started from and the data it was given; V is an offset from the value   *)
(* the last update left in it.                                             *)
(***************************************************************************)
EXTENDS Integers, Sequences

CONSTANTS Block, SeedLen, CounterValues, Interval, MaxRequest,
          Seeds, Additional, NoData, Requests

VARIABLES key, v, reseed_counter, status, out

vars == <<key, v, reseed_counter, status, out>>

Plus(w, n) == (w + n) % CounterValues
Blocks(n) == (n + Block - 1) \div Block

(* The bytes of a request, block after block.                              *)
Bytes(k, w, n) ==
    [i \in 1 .. n |-> <<k, Plus(w, 1 + ((i - 1) \div Block)), (i - 1) % Block>>]

Update(k, w, data) == Append(k, <<Plus(w, 1), 0, data>>)

Init ==
    /\ key = <<>>
    /\ v = 0
    /\ reseed_counter = 0
    /\ status = "UNINSTANTIATED"
    /\ out = <<>>

Seed(data, before) ==
    /\ key' = Update(before[1], before[2], data)
    /\ v' = 0
    /\ reseed_counter' = 1
    /\ status' = "OK"
    /\ out' = <<>>

Instantiate(data) == reseed_counter = 0 /\ Seed(data, <<<<>>, 0>>)

Reseed(data) == reseed_counter > 0 /\ Seed(data, <<key, v>>)

Uninstantiate(result) ==
    /\ key' = <<>>
    /\ v' = 0
    /\ reseed_counter' = 0
    /\ status' = result
    /\ out' = <<>>

(* With additional input Update runs before the output and after it.       *)
Generate(n, data) ==
    /\ reseed_counter \in 1 .. Interval
    /\ n <= MaxRequest
    /\ LET k == IF data = NoData THEN key ELSE Update(key, v, data)
           w == IF data = NoData THEN v ELSE 0
       IN  /\ out' = Bytes(k, w, n)
           /\ key' = Update(k, Plus(w, Blocks(n)), data)
    /\ v' = 0
    /\ reseed_counter' = reseed_counter + 1
    /\ status' = "OK"

Refuse(error) ==
    /\ status' = error
    /\ out' = <<>>
    /\ UNCHANGED <<key, v, reseed_counter>>

(* The health test on an update's blocks fails: the blocks are used up and *)
(* the key stays; the output of a request may have been delivered.         *)
HealthFailure(n, data) ==
    /\ reseed_counter > 0
    /\ status' \in {"ERROR", "PARAM_ERROR"}
    /\ UNCHANGED reseed_counter
    /\ \/ /\ v' = Plus(v, Blocks(SeedLen))
          /\ out' = <<>>
          /\ UNCHANGED key
       \/ /\ reseed_counter <= Interval
          /\ LET k == IF data = NoData THEN key ELSE Update(key, v, data)
                 w == IF data = NoData THEN v ELSE 0
             IN  /\ key' = k
                 /\ out' = Bytes(k, w, n)
                 /\ v' = Plus(w, Blocks(n) + Blocks(SeedLen))

Next ==
    \/ \E data \in Seeds : Instantiate(data) \/ Reseed(data)
    \/ \E n \in Requests, data \in Additional \cup {NoData} :
        Generate(n, data) \/ HealthFailure(n, data)
    \/ \E n \in Requests : n > MaxRequest /\ Refuse("PARAM_ERROR")
    \/ Refuse("PARAM_ERROR")
    \/ reseed_counter > 0 /\ Uninstantiate("OK")
    \/ reseed_counter = 0 /\ Uninstantiate("PARAM_ERROR")
    \/ reseed_counter > Interval /\ Refuse("NEED_RESEED")

Spec == Init /\ [][Next]_vars
=============================================================================
