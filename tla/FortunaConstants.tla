-------------------------- MODULE FortunaConstants --------------------------
(***************************************************************************)
(* The parameters of the accumulator (src/ccrng/corecrypto/ccrng_fortuna.h *)
(* and src/ccrng/src/ccrng_fortuna.c), for the modules that share it.      *)
(***************************************************************************)
EXTENDS Integers

CONSTANTS
  Threads,          \* the threads that call into the generator
  NoThread,         \* owner of a free mutex
  NPOOLS,           \* CCRNG_FORTUNA_NPOOLS (32)
  MinSamples,       \* samples a reseed must drain to seed (1024)
  U32,              \* modulus of the uint32_t accumulator (2^32)
  U64,              \* modulus of the 8-byte CTR-mode counter (2^64)
  SampleCounts,     \* the positive estimates the entropy source returns
  PthreadTryLock,   \* CC_LINUX: the TRYLOCK macro yields 0 on success
  MaxSched,         \* bound on reseed_sched
  MaxInputs         \* bound on the entropy inputs accepted

ASSUME ConstantsAssumption ==
  /\ NoThread \notin Threads
  /\ NPOOLS \in Nat \ {0} /\ MinSamples \in Nat \ {0}
  /\ U32 \in Nat \ {0} /\ U64 \in Nat \ {0}
  /\ SampleCounts \subseteq Nat \ {0}
  /\ PthreadTryLock \in BOOLEAN
  /\ MaxSched \in Nat /\ MaxInputs \in Nat

\* Doubling, for the exponents the schedule uses.
ASSUME PowerAssumption ==
  2^0 = 1 /\ \A k \in 0 .. NPOOLS : 2^k \in Nat \ {0} /\ 2^(k + 1) = 2 * 2^k
=============================================================================
