------------------------------ MODULE MCKprng ------------------------------
(***************************************************************************)
(* The kernel PRNG, with its accumulator, and another accumulator that is  *)
(* called directly, with more pools and more inputs.  The two share no     *)
(* state: a behaviour is one of them, chosen by part, and the other keeps  *)
(* its initial state.                                                      *)
(***************************************************************************)
EXTENDS Fortuna, Kprng

VARIABLES part

allVars == <<part, vars, kprng_vars>>

MCInit == part \in {"kprng", "fortuna"} /\ Init /\ KprngInit

MCNext ==
  \/ part = "kprng" /\ KprngNext /\ UNCHANGED <<part, vars>>
  \/ part = "fortuna" /\ Next /\ UNCHANGED <<part, kprng_vars>>

MCSpec == MCInit /\ [][MCNext]_allVars /\ (part = "kprng" => Fairness)
=============================================================================
