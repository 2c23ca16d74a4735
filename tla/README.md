# A verification development of corecrypto

TLA+ models of the parts of corecrypto that keep state between calls or whose
arithmetic needs a correction at the end, the TLC runs that check them on small
instances, and TLAPS proofs about them. Most of the library is pure functions of
buffers, best tested against vectors; this development is about the rest: the random
generators, shared between threads, processes and boots; the contexts that are fed in
pieces; the protocols whose calls come in sequences, over a network; and the number
algorithms that are right only because of how far off their approximations can be.

## 1. Inventory

### The generators

They are layered, and each keeps state under a mutex of its own.

| component | state | operations | interacts with |
|---|---|---|---|
| `ccrng_fortuna` | 32 pools, the schedule (round-robin index, reseed counter), the key, a CTR counter, `seeded`, statistics, a mutex | `init`, `generate`, `refresh` | calls back `getentropy` with the mutex held |
| `ccrng_csprng` | a DRBG, a cache of 256 bytes with a position, a mutex | `init`, `generate`, `reseed` | callbacks `needreseed`, `getentropy`, with the mutex held |
| `cckprng` | one of each of the above, the flag `needreseed` | `init`, `initgen`, `generate`, `refresh`, `reseed`, seed files | the callbacks of the Csprng read the flag and call Fortuna; `refresh` sets the flag outside both mutexes |
| `ccrng_cryptographic` | a DRBG, a cache, a status that carries the request for a reseed, a mutex; one per process | `ccrng()` (first use), `generate`, the `atfork` handlers | `cc_get_entropy`; `fork` copies all of it |
| `ccrng_entropy` | a descriptor for the device | `cc_get_entropy` | the system |
| seed files, `prng_seedctl` | a file | load, store | `cckprng_reseed`, the file system |
| `ccdrbg` (CTR, HMAC) | key, counter, reseed counter | init, reseed, generate, done | the ciphers |

What is hard about them: two mutexes and a flag outside both (`cckprng`); a
trylock whose failure must be silent (`fortuna`); a mutex that is given up in the
middle of a request (`csprng`, `cryptographic`); a cache that outlives a reseed; a
fork that copies generator, cache and mutex; sources that fail, requests refused in
the middle, retries that must end; transfers that are cut short and a machine that goes
down between two of them. What makes them correct: no output is given
twice, to anyone; none comes from an unseeded generator, and none that was made
before a reseed after it; no entropy is lost or counted twice, and none waits in a
pool past its period; a reseed that was announced happens; a seed is used once; calls
end, with the buffer full if they say so.

### Contexts, protocols and numbers

| component | state between calls | what is hard |
|---|---|---|
| `ccmode` GCM | context: state, flags, X, Y, Y_0, pad, lengths | pieces of any length, refused calls, the counter's 32 bits, IVs across resets |
| CCM, SIV, SIV-HMAC, ChaCha20-Poly1305 | contexts of the same kind | the same; the keys and the encoding of the pieces in SIV |
| CTR, CFB, CFB8, OFB | the pad left over | pieces of any length |
| CBC, XTS, and what ends them (`ccpad`) | an IV or a tweak | the end of the message: in place, in pieces, the last two blocks exchanged |
| digests, HMAC, CMAC | a partial block and a count | block boundaries, padding |
| SPAKE2+, SRP, SAE, SIGMA, CKG, HPKE | a context driven by messages | order of messages, repeated and missing steps, failures half-way |
| Shamir sharing | a bag of shares | duplicates, refused shares |
| `ccn`, `cczp`, `ccprime` | none | carries, corrections, the ends of loops of fixed length |
| key wrap, DER | none | boundaries of lengths; two decoders that must agree; what a refusal leaves behind |
| KDFs, OMAC, ECIES, VRF, HPKE's one-shots | none | boundaries of lengths |
| `ccec` | none | the points an addition formula does not cover, blinding, points that are not on the curve |
| `ccrsa` | none | masks, faults, encodings that another message also has, lengths that are not whole bytes |
| `ccz`, `ccdh`, ciphers | none | arithmetic |
| FIPS self tests, runtime, assembly, tools | a table of results | none to speak of |

`PROJECT.json` lists every component with its status and, under `hazards`, what in
this code a test would hardly reach, each at its line.

## 2. Modules

### Fortuna, EntropyMixer

`Fortuna.tla` models `ccrng_fortuna.c`. Threads run its two calls in small steps: a
step per lock operation, per check and per turn of the drain loop, although the
mutex is meant to make the calls atomic, because whether it does is one of the
questions. `lock` is the mutex; `frame[t]` holds the locals of thread `t`'s call. The
entropy inputs are numbered as they come; a pool's digest, the running digest of a
reseed and the key are the sets of the inputs they depend on, so that hashing is
union and clearing is `{}`. The sizes of inputs (samples) are numbers.

| action | code |
|---|---|
| `GenerateCall`, `GenerateLock`, `GenerateCheck`, `GenerateOutput` | `ccrng_fortuna_generate` |
| `RefreshTryLock`, `RefreshNothing`, `RefreshFailure` | `ccrng_fortuna_refresh` and its three outcomes of `getentropy` |
| `schedule`, `addentropy`, `schedreseed_drain`, `schedreseed_final` | the functions of these names |
| `reset` | `reset` |

`EntropyMixer.tla` is what a user of an accumulator relies on: inputs accepted,
mixed into the root secret at most once, seeded only by enough at once, output only
while seeded. Fortuna implements it under the mapping `mixed <- key`,
`outputs <- ctr` (`ImplementsMixer`). The constants and what is assumed of them are in
`FortunaConstants.tla`, which Kprng extends as well.

### Csprng

`Csprng.tla` models `ccrng_csprng.c`: `generate` with its loop (lock, ask
`needreseed`, try to reseed, serve from the cache or directly, one chunk, until the
request is filled), `reseed` by the caller, the bounded retries and what happens when
they run out. Output is counted in units which the DRBG numbers as it makes them; 0
is a cleared unit. `made` and `counter` are what the callers see of the DRBG
(`ccdrbg_nistctr.c`): units made, and the count that makes it answer `NEED_RESEED`. The
results of callbacks are parameters of the actions, so that a composition can say
what they are; on its own the module lets them return anything they may.

### Kprng

`Kprng.tla` composes the two: `C == INSTANCE Csprng`, `F == INSTANCE Fortuna` (whose
variables are here named `fortuna_...`). Every action is an action of one of them, or of
both, joined to the glue: `CckprngGenerate` is the call of `cckprng_generate`, whose steps
in the Csprng are `CsprngLock` and `CsprngOutput`, `NeedReseed` the callback that reads and clears the flag (one atomic exchange),
`GetEntropyCall`/`GetEntropyReturn` the callback that runs `ccrng_fortuna_generate`
under the Csprng's mutex, `RefreshReturn` the store of the flag after Fortuna's mutex
was released, `Reseed` the user's seed and the `cc_abort` when the DRBG refuses it.
History variables record what entropy the DRBG has absorbed (`mixedIn`), what
refreshes have announced (`announced`) and what a running generate is owed (`due`).

### CryptoRng

`CryptoRng.tla` models `ccrng_cryptographic.c` in the POSIX build: first use
(`InitOnce`), `generate` step by step, and `fork`: `ForkPrepare`, `Fork`,
`AtforkParent`, `AtforkChild`, or `ForkEarly` when the process has not used the
generator and no handlers are registered. Each process has a copy of all the state; a
DRBG is the entropy it was seeded with and how many units it has made since, so two
copies of one DRBG make the same units, which is what `OutputDistinct` compares.

### SeedFile, DevRandom, NistCtr (composed by MCCsprng)

`SeedFile.tla` is `prng_seedctl` with `cckprng_loadseed` and `cckprng_storeseed`:
one action per system call (`LoadOpen`, `LoadRead`, `LoadWrite`, `HostWrite`,
`StoreEntropy`, `StoreOpen`, `StoreOwner`, `StoreWrite`, `Exit`), each of which may
fail or, for reads and writes, be cut short; `Crash` and `Boot` may come between any
two of them. A byte of a seed is a pair: which seed, and its place in it.

`DevRandom.tla` is `cc_get_entropy` over the random device: `OpenDevice`,
`OpenFails`, `Read` (of any length), `ReadFails`, `ReadDone`, `Close`, while the rest of the process
opens and closes descriptors (`OthersOpen`, `OthersClose`).

`NistCtr.tla` (`ccdrbg_nistctr.c`) is the CTR DRBG over a counter-mode context that
increments after use and keeps the unused bytes of a block. `CtrDrbgStandard.tla` is
SP 800-90A's generator, which increments before; NistCtr implements it with `v` mapped to
one block behind the context.

### Gcm, Ccm, ChaChaPoly, Siv, PadModes, Streams, HmacDrbg (composed by MCStreams)

All of them are contexts of one caller, and the question is the same: whatever the
cuts, the refused calls and the resets, is the result that of the whole message? A
byte is a pair, its kind and its place; a cipher's output is named by its input; the
reference takes the message as a whole and knows nothing of calls.

* `Gcm.tla` (`ccmode_gcm_*.c`, `ccgcm_*.c`): X is the sequence of the blocks multiplied
  so far, with the block being filled as a set of `<<offset, byte>>`; the pad is named
  by the counter block it encrypts. `PiecesOf` is how `aad`, `encrypt` and `decrypt` cut
  their input, each piece with its place in its block and in the call; `XorPieces` and `Met`
  say byte by byte what the loops over the pieces do to X and which keystream they use. `Update` closes the AAD before it looks at the length, as the code does.
* `Ccm.tla` (`ccmode_ccm_*.c`): lengths declared with the nonce, `Cbcmac`, `Crypt`, `Finalize`.
* `ChaChaPoly.tla` (`ccchacha20poly1305.c`): leftover keystream, the buffer of Poly1305,
  limits, and the state that refuses calls out of order.
* `Siv.tla` (`ccmode_siv_*.c`, `ccmode_siv_hmac_*.c`): sender and receiver with contexts
  under one key, and tags and bodies joined at will. `TempKeys` is the derivation of the
  message key of HMAC-SIV, with what its loop leaves unwritten.
* `PadModes.tla`: CTR, OFB, CFB, CFB8.
* `Streams.tla`: `ccdigest_update`/`final_64be`, HMAC on top of it with keys of any length
  (`KeyData`: one longer than a block is hashed), CMAC, and the derivation
  function of the CTR DRBG with its `BCC` over all its passes.
* `HmacDrbg.tla` (`ccdrbg_nisthmac.c`): HMAC is ideal, so a key is the sequence of the
  HMACs it was made by and V the number of steps since under that key. `OutputIndependent`
  asks what a reader of the state between two calls could compute of the output before.

### BigNum, RabinMiller, Shamir, Points, Curve, EcKeys (composed by MCStreams)

`BigNum.tla` translates Montgomery reduction and multiplication (`cczp_mm.c`), the
three exponentiations (`cczp_power*.c`), square roots and residues, division by a
reciprocal (`ccn_make_recip.c`, `ccn_div.c`, `cczp_mod.c`), `ccn_gcd.c`,
`ccn_invmod.c` and `cczp_inv.c`. A number of n words is its value; where the code
drops or looks at a carry the operation is taken modulo 2^(word bits * n). `Ask`
chooses a call and each action answers one, so that one invariant, `Exact`,
compares every answer with the arithmetic of integers. `RabinMiller.tla` is the
primality test with its generator failing anywhere. `Shamir.tla` is `ccss`: the
generator, a share, the bag and the interpolation.

`Points.tla` has the point arithmetic of `ccec` in Jacobian coordinates over a small
prime (doubling, addition, subtraction, the co-Z ladder of `ccec_mult.c`, the joint
multiplication of `ccec_twin_mult.c`, conversions, validation) and, next to it, the group by
its definition in affine coordinates. Two modules extend it. `Curve.tla` has the calls on points,
with the blinded multiplication a step per product and any mask; `Exact` compares what comes out
with the group, for every pair of points and every scalar. `EcKeys.tla` has the calls on keys:
the ways a scalar is made (retry, a given sequence, extra bits, PKA, legacy) with the check of
the new pair that follows, compact keys, ECDSA signing with its tries, masks and failing
generator, verification, and the diversified pair made from the private key and from the public one.
There a multiple by a secret is the group's, for that is what Curve shows
`ccec_mult` gives, while verification and the quick check of an agreement key are computed as the code
computes them. `KeysRight` compares all of it with ECDSA's definition.

### Der, Padding, Rsa (composed by MCStreams)

Each chooses a call and its input, answers it as the code does, and hands the answer to the
reverse call, of which the invariants speak.

* `Der.tla` has the number formats of `ccn` and the encoders and decoders of `ccder`, which
  write backwards into the room that is left and read forwards. Everything scales with the
  bits of a byte, so that all lengths of a length and of a tag are met, and a decoder is
  asked about every string of a few chosen bytes, strictly and leniently.
* `Padding.tla` encrypts a message in pieces, in place or not, with one of the endings of
  `ccpad`, and decrypts it in other pieces; XTS's tail and the stealing of the decryption
  take their blocks in the order of the code. A wrapped key is also opened after being
  changed, cut or wrapped under another IV. A byte is a set of symbols, with the symmetric
  difference for xor, and the references are written from the standards' block diagrams.
* `Rsa.tla` has keys of small primes, made from them (`ccrsa_make_priv.c`) or recovered from
  the exponents (`ccrsa_recover_priv.c`, a draw at a time), the private operation with its masks and the
  check of its result against a fault (`ccrsa_priv_crypt_blinded.c`), blind signatures,
  and the encodings, in which a byte is a set of symbols of its high or low bits and the
  decoder is given encodings changed at one place.

### Spake, Srp, Sae, Ckg, Sigma, Hpke, SealedChannel (composed by MCHandshakes)

Each module has the contexts of both parties and a network: messages, once sent, may
be delivered to anyone, any number of times, in any order or never. Every call of
the interface is an action that any context may take at any time it does not refuse,
so calls are repeated, left out and reordered as well; failures in the middle of a
call (randomness, memory) are actions of their own (`KexFail`, `FinalizeFails`, `KeyFail`,
`CommitFail`). Group elements are named by what they are made of, hashes and MACs by
what goes into them; combining a share with a wrong password or side gives an
element nobody else knows.

`SealedChannel.tla` says what a channel of sealed messages promises. HPKE's contexts and
the sealed messages of SIGMA implement it (`ImplementsChannel`), the messages of
SIGMA's own signatures included.

### Composition for checking

`MCStreams`, `MCCsprng`, `MCHandshakes` and `MCKprng` run several components that share no
state: a variable chooses one, and the others keep their initial state. In MCKprng the
components are the kernel generator, which is a real composition, and a Fortuna called
directly, with more pools and inputs (`NPOOLS`, `MaxInputs`) than the one inside Kprng
(`KprngPools`, `KprngInputs`). `MCCryptoRng` adds symmetry. The other runs check a module as it is.

## 3. Runs

Sizes are scaled down so that every boundary is met: a cache smaller than a request, a
request longer than the maximum, retries that run out, counters that wrap.

| run | question | instance |
|---|---|---|
| `csprng` | no unit twice, none after it was erased, none from before a reseed, requests filled and reported honestly by both ways out, calls end; of its sources: a success means a complete transfer, no descriptor but 0 is left open, the file is part of one seed, no seed is used twice, `cc_get_entropy` returns; the CTR DRBG is the standard's | 2 threads, cache 2, maximum 3, requests of 0, 1, 2 and 5 units, 2 retries, a reseed due every 2 blocks, every callback result, a DRBG that may fail; seeds of 3 bytes, 3 boots; 3 bytes of the device, 2 interrupts, 3 descriptors; blocks of 2 bytes, a counter of 4 values, requests of 0 to 6 bytes |
| `kprng`, Fortuna alone | mutual exclusion, no output unseeded, no input lost or doubled, pools drained on schedule, no input past its period, seeded in time, the mixer implemented | 2 threads, 3 pools, 4 scheduled reseeds, 10 inputs of one sample, two to seed, a 32-bit count that wraps at 5: in the fourth reseed, which drains 6 |
| `kprng`, the kernel generator | no reseed lost, none late, panic only when the source failed, mutexes released | 2 threads, 2 pools, 5 inputs, 2 generates of a cache of 2 |
| `crypto_rng` | no output twice in parent and child, the mutex held where it must be, requests filled, calls end | 2 threads and the child's, cache 2, requests of 1, 2 and 5 units, the seed used up every two calls |
| `streams` | results do not depend on cuts or refused calls; SIV opens what was sealed and nothing else; the HMAC DRBG gives nothing twice; numbers, points and RSA come out exact; keys and signatures are what ECDSA defines; encodings are undone by their decoders, and what these accept besides is told exactly | blocks of 2 to 4 bytes, pieces below, at and above a block, counters that wrap; keys of HMAC of none to two blocks; words of 3 and 6 bits, divisors of up to 14 for the reciprocal; a curve of order 23 over 31 elements, every scalar, masks of 2 bits; every r and s, digests of fewer and of more bits than the order, 2 tries; bytes of 4 bits and words of 3 bytes; messages of up to four blocks less a byte; keys of none to four semiblocks, whole or not; moduli of two primes up to 31 and PSS moduli around whole bytes |
| `handshakes` | who accepts has one partner with the same key; partners do accept, in SRP exactly if the keys are those sent; sealed channels | two or three contexts a side, two passwords, one failure; up to 3 key pairs in SRP, 6 scalars in CKG, 2 messages sealed, a counter of 2 bits in HPKE |

Why these bounds are enough. In Fortuna the schedule has period 2^NPOOLS in
`reseed_sched`; four reseeds of three pools drain every pool, the last one included
(number 4). Two threads are what a mutex and a flag can tell apart; a
third adds no new pair of steps (in `kprng` a third would only add a second refresh,
which the trylock refuses). With a cache of 2, requests of 1 to 5 begin at every
position, end at every position and cross refills and chunks. Of GCM `streams` runs a
decryptor, which does all that an encryptor does and compares a tag besides. In the contexts two
messages exercise everything that survives a reset; one piece can finish a partial block,
cover a whole one and leave a remainder. In the protocols two contexts of one
side and one of the other are what a replay or a misdelivery needs, and a third key
pair what running again needs. In BigNum words are small enough that every operand of
the small primes is tried, with carries into a second word; the reciprocal is
made with the precisions of `ccn_make_recip.c` and, because TLC's integers have 32 bits, again with
smaller ones that satisfy the condition the code asserts of its own: with these a divisor of
8 bits is a long one and the rounds leave words out. The curve has two points with x = 0
and every pair of its points is added. In Der a tag and a length have each of their lengths, with
room for one byte fewer, as many and more; in Rsa the blocks lie next to the shortest that an
encoding fits in. Histories bound the state
space, not the code.

Runs that find a disagreement between the code and what is said of it:

| run | what TLC shows |
|---|---|
| `fortuna_pthread` | With `CC_LINUX` the trylock macro is `pthread_mutex_trylock`, 0 on success, and is read as a Boolean: two threads inside, and a mutex kept for ever (`LockOwned`) |
| `device_descriptor` | A process without a standard input is given descriptor 0, which counts as a failure and stays open, where the comment says "No need to close the file" (`NoNeedToClose`) |
| `crypto_rng_fork` | When no entropy is to be had after a fork, parent and child give out the same bytes (`ProcessesDiffer`) |
| `crypto_rng_abort` | A status from before the mutex was released aborts a process whose DRBG another thread has reseeded (`AbortOnlyAtEndOfLife`) |
| `sae_keys` | `ccsae_verify_confirmation` moves the state on before it compares, so `ccsae_get_keys` gives out keys after a failed verification (`KeysOnVerification`) |
| `siv_hmac_key` | With keys of 48 and 64 bytes the message key of HMAC-SIV has parts nobody writes, so the receiver cannot decrypt (`SivRoundTrip`, at 64 bytes) |
| `point_sub` | `ccec_full_sub` of a point and its negative doubles the second as it was given, without the sign: (-T) - T comes out as 2T (`DifferenceExact`) |

### What else was met

Read, modelled as it is, and without a run of its own:

* `cczp_power_blinded.c:86` returns `CCERR_OK` whatever happened, although
  `cczp_internal.h:339` says "@return 0 on success, non-zero on failure". When
  the generator fails, the Rabin-Miller test goes on with a result nobody wrote and may
  call a prime composite. RabinMiller has the failure (`masked`), and `VerdictRight` is stated
  without it.
* Outside Montgomery form `cczp_power_ws` gives p, not 0, for 0 to a multiple of four, as
  `cczp_negate` of 0 is p; `ccz_expmod` is the caller that uses the plain form.
* The comment at `ccn_div.c:55` lists reciprocals, "(1,3)(2,7)(3,5)(4,15)", that
  `ccn_make_recip` does not make (1 gives 4, 2 gives 8).
* A call of SRP that fails after it drew its private key leaves it with the public key of the call
  before (`ccsrp_server.c:96`, `ccsrp_client.c:109`): its session and its partner's then refuse each
  other. `PartnersAccept` says so: they expect each other's tokens if and only if each computed with
  the private key of the public key it sent.
* `ccsrp_generate_K_from_S.c` fills E and F the other way round than its comments say, on
  both sides, so both still agree. `ccsrp_is_authenticated` keeps its value when a context
  runs again.
* CMAC-SIV accepts associated data after the nonce and after a crypt, its decryption
  leaves the context used when the tag is wrong, and `ccmode_siv.h` says otherwise of each.
* A refused `ccss_shamir_share_generator` leaves a generator that shares 0;
  `ccss_shamir_generator_deserialize` takes a degree before it checks it.
* The sequence numbers of HPKE (64 bits) have no limit, and `ccsigma_mfi.c` writes a
  static structure at each call, always with the same values.
* Exceptions that `EncodingsExact` states as the code has them:
  * `ccn_write_uint.c:86-107`, given room for less than a word when the bytes it keeps lie in two
    words, writes 0 for those of the upper one, although `ccn.h:419` says it keeps "the most
    significant bytes" (`MostSignificant`). The test (`crypto_test_ccn.c:104`) cuts one byte.
  * `ccder_blob_encode_implicit_octet_string.c:21-24` reserves the size of an unsigned number
    and writes a signed one: a number that fills its bytes becomes 0 and all but its last byte,
    and of 0 the zero is written over what follows (`OctetsWritten`).
  * Strict decoding (`ccder_blob_decode_tl.c`) is strict about lengths; `ccder_blob_decode_tag.c`
    takes the long form of a small tag number either way. `DerExact` says that the strict decoder
    accepts exactly what has the encoder's form of its lengths.
  * `ccpad.h:45` says that a bad PKCS 7 padding removes a block; `ccpad_pkcs7_padding_decode.c`
    removes none.
  * `ccrsa_verify_pss.c:65-67`: when the modulus has 8k + 1 bits, the encoding is a byte shorter than
    the modulus, and the byte above it is not looked at. The signatures that are verified have 0
    or 1 there.
* `ccpad_xts_encrypt.c` and `ccpad_xts_decrypt.c:28-33` do not look whether
  `ccmode_xts_crypt` returned NULL, as it does past 2^20 blocks of a data unit.
* `ccrsa_recover_priv.c:276` refuses a
  private exponent that was made modulo (p-1)(q-1) and not its least common multiple.
* `ccpbkdf2_hmac.c:79` compares the quotient, not the length, with the largest count, so that the last
  partial block is not counted; the 32-bit loop of `ccnistkdf_ctr_cmac.c:64` does not end
  with 2^32 - 1 whole blocks; `ccansikdf_x963_final` takes one from the number of blocks, which is 0 for a key of no bytes.
* The two consistency checks of `ccec_blinding_keys.c:84` and `:89` leave by `err` with the result
  of the call before them, `CCERR_OK`: a pair of keys that failed one would be returned as good.

### Fairness

Only liveness uses it. Csprng, Kprng and CryptoRng give weak fairness to `Advance(t)`: a
thread that can always go on does; code waits for nothing but mutexes and callbacks.
Acquiring a mutex is not assumed fair: a POSIX mutex promises no turn. Calls are never
obliged to start. Their `CallsEnd` therefore says that calls end as long as calls are
under way, by whichever thread, and Kprng's `LocksReleased` excepts an endless stream
of refreshes, which keep Fortuna's mutex from a thread that waits for it. DevRandom gives
weak fairness to its own steps that need nobody (`ReadDone`, `Close`), strong fairness
to opening the device and to a read that yields something, for the environment is assumed to
let each succeed now and then, and weak fairness to `OthersClose`, so that the table of
descriptors is not full for ever. Without the two strong ones the loops of
`ccrng_entropy.c` do not end, on a permanent error or an end of file, which is as the
code is.

Deadlock is checked where the program never stops by itself. `streams`, `handshakes`,
`sae_keys`, `siv_hmac_key` and `point_sub` stop when their caller has made all its calls, as do the
parts of `csprng` other than the cached generator, which then stutter; elsewhere
a process that has stopped or has nothing left to do takes an explicit stuttering
step (`Stop`, `Quiet`).

### Assumptions of the models

* Atomics are sequentially consistent. `needreseed` is exchanged and stored with the
  orders the code names; the mutexes around the data order everything else.
* Release build: `cc_assert` is off (`ccrng_cryptographic.c:386`), `cc_abort` stops
  the machine or the process, `cc_try_abort` only where it is provided (`ProvidesAbort`).
* In Kprng the DRBG does not fail and `ReseedInterval` is out of reach: both are
  Csprng's questions, and the composition would hide the flag behind them.
* In CryptoRng the DRBG's only refusal is `NEED_RESEED`; there is one fork, with one
  thread in the child. A fork that overlaps the very first `ccrng()` is left out:
  whether handlers registered meanwhile run is the C library's affair.
* In Gcm callers use an IV once per key, as the header asks, and do not call
  `set_iv_legacy` on a context that manages its IVs (`LegacyAfterInitWithIv`; the
  comment at `ccgcm_one_shot.c:57` leaves that to them: with it the IVs start over from zero).
  Input and output do not overlap. A decryptor hands out plaintext before the tag
  is checked, as the code does: the model says nothing of its use.
* CCM's callers keep to the lengths they declared; a reset drops the message. Digests
  are not copied half-way. In Siv the primitives are ideal, and what is sent is
  claimed to open for callers that encrypt once per reset, as documented.
* NistCtr has seeds of whole blocks (AES-128, AES-256), and counts requests as the
  strict FIPS build does.
* The DRBG, cipher and hash calls that cannot fail for the parameters used do not.
* In SRP, SIGMA and HPKE, whose calls no state machine orders, callers pass messages to the
  call they are meant for; the agreement of SRP is stated of the session verified.
* In BigNum a divisor has one word in the division (`WideUnitBits`), so the shrinking of n1 there
  is not exercised. The words that Newton's iteration leaves out are, by the smaller of the two
  `Precisions` only, and so is the first approximation of a long divisor.
  RabinMiller names numbers by their values outside Montgomery form. Shamir is the variant
  for secrets less than the prime.
* In Padding the cipher yields a new value for every block it has not seen; XTS's data units have fewer
  than 2^20 blocks. In Rsa digests and mask generators are ideal, primes are given, and a fault
  of the private operation is a residue that is off by one. Der is asked by callers
  whose tag numbers fit in the multi-byte form (five bytes of seven bits).
* In HmacDrbg a digest of HMAC is never repeated by chance, except that the health test may
  find one that is (`GenerateAborts`). Callers do not use an instance that is not initialised.
* In Curve coordinates are residues, the order is prime and a = -3, as for the curves of
  `ccec_cp.c`. Points given to the arithmetic are on the curve, except to the import and
  the key agreement, which must find those that are not. `Exact` is stated of a joint multiplication
  that did not meet the case of `point_sub` on its way.
* In EcKeys a byte has 3 bits, so that a digest of three is cut to the bits of the order. `KeysRight`
  excepts a verification, and a check of a new pair, whose joint multiplication met the case of
  `point_sub` or had two scalars of fewer than four bits (the first window of `ccec_twin_mult.c` takes
  four bits whatever the length), and an agreement key whose secret is 0: on curves of real size none
  of them happens by chance.

## 4. Proofs

TLC checks an instance; these hold of every number of threads, pools, sizes, calls and inputs.

| module | theorem | property |
|---|---|---|
| `FortunaProofs` | `TypeCorrect` | `TypeOK` |
| | `MutualExclusion` | `LockOwned` |
| | `NoOutputUnseeded` | `SeededAtOutput` |
| | `PoolsOnSchedule` | `DrainSchedule` |
| | `InputsInTime` | `BoundedDelay` |
| | `InputsKept` | `InputsConserved` |
| | `PoolsInRange` | no pool outside the array is drained |
| | `FortunaIsMixer` | `ImplementsMixer` |
| | `SeededBySchedule` | `SeededInTime` |
| `CsprngProofs` | `OutputOnce` | `NoReuse` |
| | `GivenErased` | `Erased` |
| | `RequestsComplete` | `OutputComplete` |
| | `OutputFresh` | `FreshAfterReseed` |
| | `ReturnHonest` | `StatusHonest` |
| | `LoadComplete` | `LoadedInFull` |
| | `OneSeed` | `FileIsOneSeed` |
| | `UsedOnce` | `SeedUsedOnce` |
| | `DeviceFillsBuffer` | `FilledOnSuccess` |
| `CryptoRngProofs` | `OutputDiffers` | `OutputDistinct` |
| | `MutexOwned` | `LockOwned` |
| | `RequestsComplete` | `OutputComplete` |
| `KprngProofs` | `NoReseedForgotten` | `NoLostReseed` |
| | `ReseedIsPrompt` | `PromptReseed` |
| | `PanicIsWarranted` | `PanicOnlyOnFailure` |
| | `FortunaRuns` | its Fortuna behaves as `Fortuna` |
| `NistCtrProofs` | `GeneratorIsStandard` | `ImplementsStandard` |
| `GcmProofs` | `GcmInvariance` | the state of a context is that of the bytes it accepted |
| | `GcmRight` | `KeystreamOnce`, GCM's part of `NothingTwice`; `TagIsReference` and `KeystreamIsReference`, GCM's part of `PiecesDoNotMatter` |
| `StreamProofs` | `OutputCannotBeRecomputed` | `OutputIndependent`, the HMAC DRBG's part of `NothingTwice` |
| | `NothingIsUsedTwice` | `NothingTwice` |
| | `OnlyTheSealedIsOpened` | `Authentic`, a part of `SivMatches`, for keys of any size |
| | `WhatIsSealedOpens` | `SivMatches` |
| `HandshakeProofs` | `SaePartners` | `ConfirmedAgreement` |
| | `SpakePartners` | `SpakeAgreement` |
| | `SrpPartners` | `SrpAgreement` |
| | `CkgPartners` | `CkgAgreement` |
| | `SigmaPartners` | `SigmaAgreement` |
| | `PartnersAlwaysAccept` | `PartnersAccept` |
| | `SealedInOrder` | `ImplementsChannel` |

**Fortuna.** Each theorem assumes `Sound`: the trylock macro yields true when it takes the
mutex (without it `fortuna_pthread` is a counterexample), and `MaxSched < 2^NPOOLS`:
fewer scheduled reseeds since the last reset than 2^32, beyond which the drain loop
leaves the array of pools. `ConstantsAssumption` and `PowerAssumption` (how 2^k
doubles, which the provers do not know) are evaluated by TLC in `kprng` and `fortuna_pthread`.
`Typed` adds the bound on `reseed_sched` to `TypeOK`, so that `FirstSetBit` bounds
the number of pools to drain by NPOOLS. `LockOwned` is inductive with it. `SeedInv`
says that a seeded generator has had a reseed of enough samples, and that a thread
about to output sees `seeded`: a reset by another thread would need the mutex, so
this needs `LockOwned`. `DrainInv` says where the drain loop is: while nobody reseeds
every pool has been drained `reseed_sched \div 2^i` times; while `t` does, the pools
below `frame[t].i` have and the others up to `pool_out` are one behind (`FallBehind`:
incrementing the counter to s + 1 moves its quotient by 2^i exactly for the i below
`ffs64(s + 1)`). `DelayInv` says of the same loop that the pools behind it are empty and
those it will not reach are not yet due, and `Conserved` follows one input from pool to digest
to key. The arithmetic is in lemmas of its own: `QuotientStep`,
`QuotientDouble`, `DivisorHalf`, `LeastElement`, `FirstSetBit`.

`FortunaIsMixer` maps each step to a step of `EntropyMixer` or to a stutter (`MixerStep`): `Accept` for
`addentropy`, `Mix` for the end of `schedreseed`. What it has to show is that a reseed that counts enough samples
had enough: `MixInv` says that the count of a pool, and of a reseed, is never
more than the samples of the inputs behind its digest (it may be less, after a reset or where 32 bits wrap).
That needs sums by order of arrival to grow with an input (`TotalOfAppend`) and to add over
sets that share none (`TotalOfBoth`). Both are proved by the least length at which they fail, and so is that the
recursive function behind them is defined at all (`SumsExist`).

`SeededBySchedule` counts the other way: how many samples a pool has at least. `TimeInv` says that, s
reseeds after the last reset, a later pool i has `Since(i, s)` of them once its turn of the round has come, and one fewer
before (`Quota`): one for each reseed since 2^i last divided s, and one for that one, whose
input came after its drain. A drain of the first i pools has therefore counted 2^i - 2 inputs,
or 2^i - 1 where the last of them was drained before; the first reseed that drains pool k is the one numbered 2^k
(`ReseedOfAllUpTo`), and it drains 2^(k+1) - 2. Assumed along the behaviour is `CountFits`, that no
addition of the drain wraps its 32 bits: where one does, the reseed may count too little
and not seed.

**Csprng.** `IInv` is `Control` and `Data`. `Control` types the frames, says who
owns the mutex, and that what is written and what is to come add up to the request.
`Data` numbers the units in the order in which the DRBG makes them: what was given out
and what the cache holds was made already, the cached units are distinct, and none of
them was given out, because a slot is cleared as it is taken (`NoReuse`, `Erased`). From
`pos` on all units are newer than `fence`, the number made before the last reseed,
because a reseed empties the cache and a refill starts at its end. `ReturnHonest`
needs of the loop that a status other than OK ends it, and of the retries that the status with which
the last one leaves is not OK.

**CryptoRng.** `IInv` is `Control /\ DataTypes /\ (~starved => Data /\ ProcessesDiffer)`.
A process is *live* when it is initialised and no reseed is asked of it
(`predictionbreak.status`). `Data` says of each live process that its seed is that of
no other process and that output and cache were made from it, each unit once; the
prepare handler asks for a reseed before the fork, so that after it neither the
parent nor its copy is live until it has drawn entropy of its own. `Control` carries the mutex through
the handlers: prepare takes it, the child's copy is held by the child's thread, and both
release it. A reseed that fails sets `starved`, the case of `crypto_rng_fork`.

**Kprng.** `NoReseedForgotten` assumes only that `NoThread` is no thread; `ReseedIsPrompt`
assumes besides that trylock tells the truth and that a failure stops the machine
(`Exclusive`, `ProvidesAbort`). `Control` ties the place of a thread in the glue to its places in
the two components, and gives the Csprng's mutex its owner. `OnItsWay` follows what
Fortuna has: either the flag is up or a refresh is about to raise it, or Fortuna is
not seeded, or a thread has consumed the flag and not yet drawn (`AboutToDraw`), or has
drawn and holds it (`HasDrawn`), or it is in the DRBG. Of the thread's steps only the exchange
of the flag, the draw and the reseed move it, each one place further; a failed draw
leaves a Fortuna that is not seeded. With the mutex free nobody is between two places, which is
the theorem. For the second, `Known` says that the key only grows and that a thread is
due at most what was announced, and `Prompt` repeats `OnItsWay` for what was announced:
when a thread finds the flag down it owns the mutex, so nothing is under way and
all of it is in the DRBG. `PanicIsWarranted` assumes that the DRBG does not fail and, along
the behaviour, that its seed is not used up (`SeedUsedUp`), as in Assumptions above: either
asks for a reseed whatever Fortuna has. `Warranted` says that until a reset of Fortuna for want of
entropy every thread is `Fine`: if it found the flag up, or is about to raise it, Fortuna is seeded, so that the
draw of the new seed is not refused. `FortunaRuns` says that the glue and the Csprng leave
Fortuna's state to Fortuna's own actions, so what is proved of `Fortuna`'s specification, `SeededInTime` among it, is true
inside the kernel generator; the last substitution of names is not
mechanical, as the prover cannot use a theorem of an instance that has variables. The effects of the components' actions on what the proof looks at
are lemmas of their own, one an action.

**Entropy.** Of seed files the only assumption is that of the constants' types. The invariant says at
each call which bytes are where: `LoadInv` that what was written to the kernel is the
beginning of the file up to the offset of the loop, `StoreInv` and `FileInv` the same of the
file and the seed being stored, so that a crash leaves a beginning; `LoadedInv`
and `FullInv` that a boot that ended well replaced the file with a seed drawn later than any
that was used. Of the device, `SoundDevice` takes descriptors to be numbers. A process without a
descriptor 0 may be given it by `open`, which the code takes for a failure and does not close:
it is the one descriptor that a call may leave behind. `DeviceInv` says that at each step of the two
loops the buffer begins with the last bytes drawn, as many as were counted, and that a call holds one descriptor besides 0
between its `open` and its `close` and none otherwise.

**NistCtr.** `Sound`: whole blocks in a seed, whole seeds in the range of the counter,
the strict FIPS count, and sizes of requests that are numbers. The mapping puts the
standard's V one block before the context's counter; the invariant says that between calls
no part of a block is left and that the position is a multiple of a block, and the
lemmas on remainders (`ModUnique`, `ModShift`, `ModPlus`, `WholeBlocks`, `RoundedUp`) show that
incrementing after use from there is incrementing before use from here.

**Gcm.** `GcmSound` is what the code leaves to its callers: `set_iv_legacy` is not used on a context
that manages its IVs, and a key has at most as many messages as the counter inside an IV has values
(2^64). Together with `SizesAssumption` it is all that is assumed; blocks, counters, IVs,
pieces and the number of messages and calls are arbitrary. Neither property is inductive:
a tag shows nothing of the blocks filled on the way, and the keystream of one message says
nothing of the next. `GcmInv` therefore says what the context must hold at every
call: X is the blocks of the AAD and of the text accepted so far, the last one open or
closed as the state says (`XRight`); the working counter is the original one plus the whole blocks of
text, and the last bytes of keystream used are the text's, each with the counter and offset
that its place defines (`TextRight`); what earlier messages used carries other IVs and
is pairwise different (`OldOnce`). Inside a message two bytes differ because the
limit on the text keeps the counter from coming back to where it was, nor to the block of the
tag (`BytesDiffer`); between messages because the IVs do, which for incremented IVs rests on
how long ago each one was current (`Since`, `IvsRight`). The lemma the rest
hangs on is about one call: its pieces cut the bytes from the offset the last call left
(`PiecesCut`), so byte i falls in the block and at the offset that division by the block
size gives (`PieceOfByte`), and xoring the pieces into X makes the blocks of a longer
message (`Absorbed`). TLC checked `GcmInv` with three messages before it was proved.

**HMAC DRBG.** `DrbgSound`: a block has bytes and requests are numbers. Every call that gives output
ends with a new key, and a key is the sequence of what made it: the keys of the blocks given out
are shorter than the one held (`KeysShorter`), so none of them begins with it, and a block of a later
request has another key. That a key depends on the last seed survives each update
(`UpdatedKey`), and with it what is given out since.

`NothingIsUsedTwice` puts the two together for MCStreams: a step of the composition is a step
of GCM or leaves it as it is (`GcmMoves`), and the same of the DRBG (`DrbgMoves`).

**SIV.** `SivTyped`: associated data, nonces and texts are byte strings. What the proof has to show
of HMAC-SIV is that the bytes it absorbs determine the pieces. `Encodes` says where each piece
ends in them; read from the end, the length before each mark leads to the piece before
(`ReadBack`), so one byte string encodes one sequence of pieces (`DecodedOnce`) and the reverse
(`EncodedOnce`), and no encoding is the one of nothing. Of CMAC-SIV it is that a context that was
not reset after a text is never taken for a fresh one: a sender's D then begins with the
counter block it kept, a receiver's with a CMAC and perhaps a doubling inside, and only a D of CMACs
throughout says which pieces it had (`CmacContext`). `SivInv` keeps for each message and for
each decryption the context it was made with, and that the tag of a decryption has the term of a
message sent. Two contexts with equal tags then had equal pieces and texts
(`SivMatch`), which is `Authentic`. The converse, that the receiver computes the sender's tag,
needs besides that the message key is a function of the tag (`OneKey`): true of keys of two
half blocks, and false of the longer ones, whose key is partly unwritten (`SivHmacKey.cfg`), so
`WhatIsSealedOpens` assumes `SivKeyUnits = 2`.

**Handshakes.** Where a proof needs it, `Disjoint` says that a context belongs to one side; the bounds on
draws, failures and texts (`MaxKeys`, `MaxScalars`, `MaxSealed`, `MaxFailures`) are arbitrary. What
somebody else said cannot be read off a context, so no agreement is inductive by itself. Each invariant
says who can have sent each kind of message, and
that the sender has not since changed what it said; the agreement follows because a message that a
context accepts names its contents. In SAE the own commitment is made once and a peer's
is somebody else's that was sent (`CommitsSent`, `ConfirmsSent`, `ConfirmedBy`): reflections are
refused, and an element of the wrong password makes a key of its own. In SPAKE2+
`SharesSent` and `MacsSent` say the same, and `Flagged` that a MAC goes out only
when the share is final; `Keyed` ties a session key to a MAC that was on the network. In SRP contexts run again, so that
`Sent` speaks of the session a client had or a server verified, and
not of the one it has now. In CKG `Settled` fixes a context's scalar and nonce once it has left its first
state, and `CommittedFirst` orders the draws: the owner's comes after those of the contributor it is
bound to. In SIGMA `Derived` and `Verified` say that session keys name the two shares and
who accepts names their owner (`KeyHolder`, `KeyPartner`). `PartnersAlwaysAccept` follows from the same invariants, without
steps of its own; of SRP it is an equivalence, for two sessions of the same A and B have one key exactly
if each was computed from the private key of what was sent.

For `SealedInOrder` the invariants (`SigmaCts`, `Opened`, `Counted`; `SenderInv`,
`ReceiverInv`, `CtInv`) say that a sender's counter is the number of messages it sealed, a
receiver's the number it opened, and that a ciphertext carries the place it has in its sender's
sequence; one opens only at that place, so a step of either opens the channel's next
message or changes nothing of the channel. `SoundHpke` says that fewer messages are
sealed than HPKE's counter has values. SIGMA's IV is not taken modulo anything: nothing in
the model lets it wrap.

**Model-checked only.** Of the properties of `streams`, `PiecesDoNotMatter` is proved for GCM; for the
other contexts, and for `ArithmeticExact` and `EncodingsExact`, it rests on what
recursive functions and folds compute of numbers and sequences: induction over data. `CallsEnd`,
`CallReturns` and `LocksReleased` are liveness under fairness.

## 5. Not modelled

* The hash, cipher and field arithmetic everywhere, GCM's multiplication, assembly and
  tables: pure functions, best tested against vectors. Together with the tests, the
  benchmarks, the headers (much of them generated or constants) and the perf tools they are
  most of the repository's lines, which is why the share of lines these modules
  translate is small.
* The DER and x963 formats of `ccec`, its blinding keys and plain diversification, Curve25519 and
  Curve448, the generation of RSA primes, DH, ECIES, VRF, hash to curve: number theory in sequential functions that keep no
  state; what they rest on is in BigNum, Points and Curve.
* The DER of RSA and Diffie-Hellman keys, which are sequences of the calls in Der.
* Key derivation, OMAC, FIPS self tests, logging, platform glue: see the notes in `PROJECT.json`.
