------------------------------ MODULE MCCsprng ------------------------------
(***************************************************************************)
(* The cached generator, the DRBG underneath it, and where entropy comes   *)
(* from: the random device and the seed file across boots.  The four share *)
(* no state, for the cached generator counts what its DRBG makes, so a     *)
(* behaviour is one of them, chosen by part; the others keep their initial *)
(* state.  The generator may not stop, the others do.                      *)
(***************************************************************************)
EXTENDS Csprng, SeedFile

CONSTANTS Size, MaxInterrupts, Descriptors

VARIABLES part,
  dpc, fd, status, interrupts, remaining, entropy, drawn, mine, others, deviceCalls,
  key, start, drawnBytes, reseed_counter, drbgStatus, drbgOut, drbgCalls

deviceVars == <<dpc, fd, status, interrupts, remaining, entropy, drawn, mine, others, deviceCalls>>
drbgVars == <<key, start, drawnBytes, reseed_counter, drbgStatus, drbgOut, drbgCalls>>
allVars == <<part, vars, seedVars, deviceVars, drbgVars>>

D == INSTANCE DevRandom WITH pc <- dpc, calls <- deviceCalls

Drbg == INSTANCE NistCtr WITH
  Block <- 2, SeedLen <- 4, CounterValues <- 4, Interval <- 2, StrictFips <- TRUE,
  MaxRequest <- 5, Seeds <- {"seed1", "seed2"}, Additional <- {"additional"}, NoData <- "zeros",
  Requests <- {0, 1, 2, 3, 5, 6}, MaxCalls <- 5, pos <- drawnBytes, status <- drbgStatus,
  out <- drbgOut, calls <- drbgCalls

MCInit ==
  /\ part \in {"generator", "seed_file", "device", "drbg"}
  /\ Init /\ SeedInit /\ D!Init /\ Drbg!Init

MCNext ==
  \/ part = "generator" /\ Next /\ UNCHANGED <<part, seedVars, deviceVars, drbgVars>>
  \/ part = "seed_file" /\ SeedNext /\ UNCHANGED <<part, vars, deviceVars, drbgVars>>
  \/ part = "device" /\ D!Next /\ UNCHANGED <<part, vars, seedVars, drbgVars>>
  \/ part = "drbg" /\ Drbg!Next /\ UNCHANGED <<part, vars, seedVars, deviceVars>>
  \/ part # "generator" /\ UNCHANGED allVars

\* Each part's own fairness; a part that is not chosen has nothing enabled.
MCFairness ==
  /\ \A t \in Threads : WF_vars(part = "generator" /\ ~aborted /\ Advance(t))
  /\ part = "device" => D!Fairness

MCSpec == MCInit /\ [][MCNext]_allVars /\ MCFairness

\* DevRandom's properties (ccrng_entropy.c).
FilledOnSuccess == D!FilledOnSuccess
CallReturns == D!CallReturns

\* NistCtr is the generator of the standard (ccdrbg_nistctr.c).
ImplementsStandard == Drbg!ImplementsStandard
=============================================================================
