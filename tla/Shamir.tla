------------------------------- MODULE Shamir -------------------------------
(***************************************************************************)
(* Secret sharing (ccss): a generator with a random polynomial whose       *)
(* constant is the secret, a share that is written by one call and copied  *)
(* by another, and a bag of shares that gives the secret back.             *)
(***************************************************************************)
EXTENDS Integers, Sequences

CONSTANTS
    Prime,
    Threshold,  \* at least 2, below the prime
    Secrets,    \* values offered as secrets, the prime and above included
    Indices     \* and as indices of shares

VARIABLES
    coefficients,   \* of the generator, <<>> while it has none
    secret,         \* what it shares
    share,          \* x and y
    bag,
    result,         \* status of the last call
    recovered

vars == <<coefficients, secret, share, bag, result, recovered>>

Field == 0 .. Prime - 1
None == -1
NoShare == [x |-> None, y |-> None]

Init ==
    /\ coefficients = <<>> /\ secret = None
    /\ share = NoShare /\ bag = <<>>
    /\ result = "OK" /\ recovered = None

----------------------------------------------------------------------------
(* The generator                                                           *)

\* Any coefficients, the highest of them not zero, and then the secret.  One that does
\* not fit is cleared, and leaves a generator that shares zero.
GeneratorInit(s) ==
    /\ coefficients = <<>>
    /\ \E c \in [1 .. Threshold -> Field] :
          /\ c[1] = IF s \in Field THEN s ELSE 0
          /\ c[Threshold] # 0
          /\ coefficients' = c /\ secret' = c[1]
    /\ result' = IF s \in Field THEN "OK" ELSE "ELEMENT_TOO_LARGE_FOR_FIELD"
    /\ UNCHANGED <<share, bag, recovered>>

\* Sum of x^i * c_i, with the power of x kept along.
Evaluate(c, x) ==
    LET term[i \in 1 .. Threshold] ==
            IF i = 1 THEN [y |-> c[1], xpower |-> x]
            ELSE LET before == term[i - 1]
                 IN  [y |-> (before.y + before.xpower * c[i]) % Prime,
                      xpower |-> (before.xpower * x) % Prime]
    IN  term[Threshold].y

\* The share of index 0 would be the secret; beyond the prime indices meet again.
GenerateShare(index) ==
    /\ coefficients # <<>>
    /\ IF index = 0 \/ index >= Prime
       THEN result' = "INDEX_OUT_OF_RANGE" /\ UNCHANGED share
       ELSE share' = [x |-> index, y |-> Evaluate(coefficients, index)] /\ result' = "OK"
    /\ UNCHANGED <<coefficients, secret, bag, recovered>>

----------------------------------------------------------------------------
(* The bag                                                                 *)

\* Mutant: a share is compared with the last one only.
AddShareLastOnly ==
    /\ share # NoShare
    /\ IF Len(bag) >= Threshold THEN result' = "SHARE_BAG_FULL" /\ UNCHANGED bag
       ELSE IF bag # <<>> /\ bag[Len(bag)].x = share.x
       THEN result' = "SHARE_ALREADY_PRESENT_IN_SHARE_BAG" /\ UNCHANGED bag
       ELSE bag' = Append(bag, share) /\ result' = "OK"
    /\ UNCHANGED <<coefficients, secret, share, recovered>>

AddShare ==
    /\ share # NoShare
    /\ IF Len(bag) >= Threshold THEN result' = "SHARE_BAG_FULL" /\ UNCHANGED bag
       ELSE IF \E i \in 1 .. Len(bag) : bag[i].x = share.x
       THEN result' = "SHARE_ALREADY_PRESENT_IN_SHARE_BAG" /\ UNCHANGED bag
       ELSE bag' = Append(bag, share) /\ result' = "OK"
    /\ UNCHANGED <<coefficients, secret, share, recovered>>

\* (-1)^degree times the product of all x, from which each share takes its own.
LagrangeProduct ==
    LET product[i \in 1 .. Threshold] ==
            IF i = 1 THEN bag[1].x ELSE (product[i - 1] * bag[i].x) % Prime
    IN  IF (Threshold - 1) % 2 = 1 THEN Prime - product[Threshold] ELSE product[Threshold]

\* x_i - x_j in the field, computed on one word: xs are below the prime.
Difference(i, j) ==
    IF bag[i].x > bag[j].x THEN bag[i].x - bag[j].x ELSE Prime - (bag[j].x - bag[i].x)

Inverse(x) == CHOOSE i \in Field : (i * x) % Prime = 1

Lagrange ==
    LET others(i) ==
            LET w[j \in 0 .. Threshold] ==
                    IF j = 0 THEN 1
                    ELSE IF i = j THEN w[j - 1] ELSE (w[j - 1] * Difference(i, j)) % Prime
            IN  w[Threshold]
        sum[i \in 0 .. Threshold] ==
            IF i = 0 THEN 0
            ELSE (sum[i - 1]
                    + LagrangeProduct * Inverse((others(i) * bag[i].x) % Prime) * bag[i].y) % Prime
    IN  sum[Threshold]

RecoverSecret ==
    /\ IF Len(bag) < Threshold
       THEN result' = "NOT_ENOUGH_SHARES" /\ UNCHANGED recovered
       ELSE IF \E i, j \in 1 .. Threshold : i # j /\ bag[i].x = bag[j].x
       THEN result' = "TWO_SHARES_FOR_SAME_X" /\ UNCHANGED recovered
       ELSE recovered' = Lagrange /\ result' = "OK"
    /\ UNCHANGED <<coefficients, secret, share, bag>>

Next ==
    \/ \E s \in Secrets : GeneratorInit(s)
    \/ \E i \in Indices : GenerateShare(i)
    \/ AddShare
    \/ RecoverSecret

Spec == Init /\ [][Next]_vars

----------------------------------------------------------------------------
\* Any shares that fill a bag, in any order and whatever calls were refused in between,
\* give the secret (ccss_shamir_share_bag_recover_secret.c), and a full bag is never
\* refused: no two shares of one index get into it.
SecretRecovered ==
    /\ recovered \in {None, secret}
    /\ result # "TWO_SHARES_FOR_SAME_X"
=============================================================================
