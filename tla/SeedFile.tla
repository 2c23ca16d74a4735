------------------------------ MODULE SeedFile ------------------------------
(***************************************************************************)
(* The kernel generator's seed file: prng_seedctl (src/prng_seedctl/main.c) *)
(* with cckprng_loadseed and cckprng_storeseed.  Once in a boot the        *)
(* program feeds the file to the kernel and replaces it by a new seed;     *)
(* every call may fail, reads and writes may be short, and the machine may *)
(* go down between any two calls.                                          *)
(*                                                                         *)
(* A byte of a seed is <<s, i>>: byte i of seed s.  The seed that boot b   *)
(* obtains from the kernel is number b; the one of the factory, with which *)
(* the file starts, is 0, and the bytes of the virtual machine's host are  *)
(* those of HostSeed.                                                      *)
(***************************************************************************)
EXTENDS Integers, Sequences

CONSTANTS
  SeedSize,   \* CCKPRNG_SEEDSIZE, bytes
  MaxBoots    \* bound: boots

ASSUME SeedFileAssumption == SeedSize \in Nat \ {0} /\ MaxBoots \in Nat \ {0}

VARIABLES
  boot,       \* number of the current boot
  call,       \* the call the program is about to make
  file,       \* contents of the seed file
  offset,     \* of the next read of, or write to, the seed file
  bytes,      \* the local buffer: the bytes still to write
  device,     \* bytes the kernel has been given in this boot
  err,        \* main's err: the parts that failed
  atBoot,     \* history: the file as the boot found it
  loaded,     \* history: boot -> bytes of the seed file given to the kernel
  completed   \* history: boots whose program returned 0

seedVars == <<boot, call, file, offset, bytes, device, err, atBoot, loaded, completed>>

HostSeed == MaxBoots + 1
Seed(s) == [i \in 1..SeedSize |-> <<s, i>>]
Boots == 1..MaxBoots
Least(a, b) == IF a < b THEN a ELSE b
Drop(s, n) == SubSeq(s, n + 1, Len(s))
Prefix(s, n) == SubSeq(s, 1, n)

SeedInit ==
  /\ boot = 1 /\ call = "load_open"
  /\ file = Seed(0) /\ atBoot = Seed(0)
  /\ offset = 0 /\ bytes = <<>> /\ device = <<>> /\ err = {}
  /\ loaded = [b \in Boots |-> {}]
  /\ completed = {}

At(place, next) == call = place /\ call' = next
Failed(part) == err' = err \union {part}

(***************************************************************************)
(* cckprng_loadseed.                                                       *)
(***************************************************************************)

\* Opening the seed file, then the device; either may fail.
LoadOpen ==
  /\ \/ At("load_open", "load_read") /\ offset' = 0 /\ UNCHANGED err
     \/ At("load_open", "host") /\ Failed("load") /\ UNCHANGED offset
  /\ UNCHANGED <<boot, file, bytes, device, atBoot, loaded, completed>>

\* read fails, finds the end of the file, or yields some of what fits the buffer.
LoadRead ==
  LET rest == Drop(file, offset) IN
  /\ \/ /\ At("load_read", "host") /\ Failed("load") /\ UNCHANGED <<offset, bytes>>
     \/ /\ rest = <<>>
        /\ At("load_read", "host") /\ UNCHANGED <<err, offset, bytes>>
     \/ \E n \in 1..Least(SeedSize, Len(rest)) :
          /\ At("load_read", "load_write")
          /\ bytes' = Prefix(rest, n) /\ offset' = offset + n
          /\ UNCHANGED err
  /\ UNCHANGED <<boot, file, device, atBoot, loaded, completed>>

\* Mutant: the index is not advanced after a short write.
LoadWriteRestarts ==
  /\ \/ /\ At("load_write", "host") /\ Failed("load")
        /\ UNCHANGED <<bytes, device, loaded>>
     \/ \E m \in 1..Len(bytes) :
          /\ At("load_write", IF m = Len(bytes) THEN "load_read" ELSE "load_write")
          /\ device' = device \o Prefix(bytes, m)
          /\ loaded' = [loaded EXCEPT ![boot] = @ \union {bytes[i] : i \in 1..m}]
          /\ bytes' = Prefix(bytes, Len(bytes) - m)
          /\ UNCHANGED err
  /\ UNCHANGED <<boot, file, offset, atBoot, completed>>

\* The inner loop: the device takes some of the n bytes, or refuses them.
LoadWrite ==
  /\ \/ /\ At("load_write", "host") /\ Failed("load")
        /\ UNCHANGED <<bytes, device, loaded>>
     \/ \E m \in 1..Len(bytes) :
          /\ At("load_write", IF m = Len(bytes) THEN "load_read" ELSE "load_write")
          /\ device' = device \o Prefix(bytes, m)
          /\ loaded' = [loaded EXCEPT ![boot] = @ \union {bytes[i] : i \in 1..m}]
          /\ bytes' = Drop(bytes, m)
          /\ UNCHANGED err
  /\ UNCHANGED <<boot, file, offset, atBoot, completed>>

\* load_virtrand: bytes of the host, of which an error may cut off the rest.
HostWrite ==
  /\ At("host", "store_entropy")
  /\ \E n \in 0..SeedSize :
       /\ device' = device \o Prefix(Seed(HostSeed), n)
       /\ IF n < SeedSize THEN Failed("host") ELSE UNCHANGED err
  /\ UNCHANGED <<boot, file, offset, bytes, atBoot, loaded, completed>>

(***************************************************************************)
(* cckprng_storeseed.                                                      *)
(***************************************************************************)

\* getentropy.
StoreEntropy ==
  /\ \/ At("store_entropy", "store_open") /\ bytes' = Seed(boot) /\ UNCHANGED err
     \/ At("store_entropy", "exit") /\ Failed("store") /\ UNCHANGED bytes
  /\ UNCHANGED <<boot, file, offset, device, atBoot, loaded, completed>>

\* Mutant: the file is opened without O_TRUNC.
StoreOpenKeeps ==
  /\ \/ At("store_open", "store_owner") /\ offset' = 0 /\ UNCHANGED <<file, err>>
     \/ At("store_open", "exit") /\ Failed("store") /\ UNCHANGED <<file, offset>>
  /\ UNCHANGED <<boot, bytes, device, atBoot, loaded, completed>>

\* Mutant: a failed open is not reported.
StoreOpenSilent ==
  /\ \/ At("store_open", "store_owner") /\ file' = <<>> /\ offset' = 0 /\ UNCHANGED err
     \/ At("store_open", "exit") /\ UNCHANGED <<file, offset, err>>
  /\ UNCHANGED <<boot, bytes, device, atBoot, loaded, completed>>

\* open with O_CREAT | O_TRUNC.
StoreOpen ==
  /\ \/ At("store_open", "store_owner") /\ file' = <<>> /\ offset' = 0 /\ UNCHANGED err
     \/ At("store_open", "exit") /\ Failed("store") /\ UNCHANGED <<file, offset>>
  /\ UNCHANGED <<boot, bytes, device, atBoot, loaded, completed>>

\* fchmod and fchown.
StoreOwner ==
  /\ \/ At("store_owner", "store_write") /\ UNCHANGED err
     \/ At("store_owner", "exit") /\ Failed("store")
  /\ UNCHANGED <<boot, file, offset, bytes, device, atBoot, loaded, completed>>

\* One turn of the loop; the bytes go over whatever the file holds at the offset.
StoreWrite ==
  /\ \/ At("store_write", "exit") /\ Failed("store") /\ UNCHANGED <<file, offset, bytes>>
     \/ \E m \in 1..Len(bytes) :
          /\ At("store_write", IF m = Len(bytes) THEN "exit" ELSE "store_write")
          /\ file' = Prefix(file, Least(offset, Len(file))) \o Prefix(bytes, m)
                       \o Drop(file, Least(offset + m, Len(file)))
          /\ offset' = offset + m
          /\ bytes' = Drop(bytes, m)
          /\ UNCHANGED err
  /\ UNCHANGED <<boot, device, atBoot, loaded, completed>>

\* main returns err.
Exit ==
  /\ At("exit", "off")
  /\ completed' = IF err = {} THEN completed \union {boot} ELSE completed
  /\ UNCHANGED <<boot, file, offset, bytes, device, err, atBoot, loaded>>

(***************************************************************************)
(* The machine: it may go down at any time and starts the program anew.    *)
(***************************************************************************)
Crash ==
  /\ call # "off" /\ call' = "off"
  /\ UNCHANGED <<boot, file, offset, bytes, device, err, atBoot, loaded, completed>>

Boot ==
  /\ boot < MaxBoots /\ boot' = boot + 1
  /\ At("off", "load_open")
  /\ atBoot' = file
  /\ offset' = 0 /\ bytes' = <<>> /\ device' = <<>> /\ err' = {}
  /\ UNCHANGED <<file, loaded, completed>>

SeedNext ==
  \/ LoadOpen \/ LoadRead \/ LoadWrite
  \/ HostWrite
  \/ StoreEntropy \/ StoreOpen \/ StoreOwner \/ StoreWrite
  \/ Exit
  \/ Crash \/ Boot

SeedSpec == SeedInit /\ [][SeedNext]_seedVars

(***************************************************************************)
(* Properties.                                                             *)
(***************************************************************************)

\* However reads and writes are cut, a program that reports no failure of the load has
\* given the kernel the file as the boot found it: every byte, once, in order
\* (cckprng_internal.h: "Read the full seed file and provide its contents").
LoadedInFull ==
  (call \notin {"off", "load_open", "load_read", "load_write"} /\ "load" \notin err)
    => Prefix(device, Len(atBoot)) = atBoot

\* Whatever failed and wherever the machine went down, the file is a part of one seed
\* from its start, never bytes of two (the truncation comes before the first write).
FileIsOneSeed ==
  \E s \in 0..MaxBoots : file = Prefix(Seed(s), Len(file))

\* The bytes a boot gave the kernel are never given to it again if that boot's
\* program returned 0: the new seed replaced the one that was used.
SeedUsedOnce ==
  \A b, c \in Boots : (b \in completed /\ b < c) => loaded[b] \intersect loaded[c] = {}
=============================================================================
