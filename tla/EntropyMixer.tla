---------------------------- MODULE EntropyMixer ----------------------------
(***************************************************************************)
(* What an entropy accumulator promises its users, with nothing said of    *)
(* pools, schedules or threads: inputs are accepted, each is mixed into    *)
(* the root secret at most once and never lost from it, the generator      *)
(* becomes seeded only by mixing in enough samples at once, a failure of   *)
(* the source unseeds it, and output is produced only while it is seeded.  *)
(* Fortuna.tla implements it.                                              *)
(***************************************************************************)
EXTENDS Integers, Sequences

CONSTANTS
  SampleCounts,   \* the sizes, in samples, an input can have
  MinSamples,     \* samples to mix at once to become seeded
  OutputModulus   \* outputs are counted modulo this

VARIABLES
  inputs,    \* the sizes of the inputs accepted so far, in order
  mixed,     \* the inputs (by number) the root secret depends on
  seeded,
  outputs

mixerVars == <<inputs, mixed, seeded, outputs>>

\* The samples of the inputs in S, added up in the order in which they came.
Samples(S) ==
  LET sum[i \in 0 .. Len(inputs)] ==
        IF i = 0 THEN 0 ELSE sum[i - 1] + (IF i \in S THEN inputs[i] ELSE 0)
  IN  sum[Len(inputs)]

MixerInit == inputs = <<>> /\ mixed = {} /\ seeded = FALSE /\ outputs = 0

Accept ==
  /\ \E n \in SampleCounts : inputs' = Append(inputs, n)
  /\ UNCHANGED <<mixed, seeded, outputs>>

Mix ==
  /\ \E S \in SUBSET (DOMAIN inputs \ mixed) :
       /\ mixed' = mixed \cup S
       /\ seeded' \in {seeded, Samples(S) >= MinSamples \/ seeded}
  /\ UNCHANGED <<inputs, outputs>>

SourceFails ==
  /\ seeded' = FALSE
  /\ UNCHANGED <<inputs, mixed, outputs>>

Output ==
  /\ seeded
  /\ outputs' = (outputs + 1) % OutputModulus
  /\ UNCHANGED <<inputs, mixed, seeded>>

MixerNext == Accept \/ Mix \/ SourceFails \/ Output

MixerSpec == MixerInit /\ [][MixerNext]_mixerVars
=============================================================================
