------------------------------ MODULE MCStreams ------------------------------
(***************************************************************************)
(* The components that one caller drives through a context of its own:     *)
(* those that take their input in pieces under one key, and those that     *)
(* compute with numbers.  The contexts share no state: a behaviour is one  *)
(* of them, chosen by part, and the others keep their initial state.       *)
(***************************************************************************)
EXTENDS Gcm

CONSTANTS
  PieceLengths,
  HmacBlock, Interval, StrictFips, MaxRequest, Seeds, Additional, NoData, Requests, HmacCalls,
  SivBlock, SivKeyUnits, Stack, SivPieces, Texts, SivSteps,
  ChaBlock, PolyBlock, ChaCounterValues, ChaPieces, ChaMaxAad, ChaMessages

VARIABLES part,
  stream, key_len, chain, data, nbytes, todo, given, out,
  padMode, padCtx, padText,
  chaState, counter, leftover, buffer, poly, buf, chaAad, chaText, ok, chaPads, chaTag, messages,
  mode, mac, b_i, b_i_len, ccmCounter, ccmPad, buflen, MAC, declared, aad, text, pads, calls,
  ccmTag,
  kind, sivState, sivMac, inputs, crypts, sent, received, steps,
  hmacKey, n, hmacReseedCounter, hmacStatus, hmacGiven, seeded, hmacCalls,
  call, answer,
  coefficients, secret, share, bag, result, recovered,
  p, mr_depth, pc, j, tries, base, rv, bases, masked,
  curveCall, curveAnswer, mask, products,
  keyCall, keyAnswer, pair, keyTries,
  derCall, derAnswer,
  scheme, phase, length, memory, blockChain, done, cipher, returned,
  rsaCall, rsaAnswer

digests == <<stream, key_len, chain, data, nbytes, todo, given, out>>
padModes == <<padMode, padCtx, padText>>
chaCha == <<chaState, counter, leftover, buffer, poly, buf, chaAad, chaText, ok, chaPads,
            chaTag, messages>>
ccm == <<mode, mac, b_i, b_i_len, ccmCounter, ccmPad, buflen, MAC, declared, aad, text, pads,
         calls, ccmTag>>
siv == <<kind, sivState, sivMac, inputs, crypts, sent, received, steps>>
numbers == <<call, answer>>
shamir == <<coefficients, secret, share, bag, result, recovered>>
prime == <<p, mr_depth, pc, j, tries, base, rv, bases, masked>>
curve == <<curveCall, curveAnswer, mask, products>>
keys == <<keyCall, keyAnswer, pair, keyTries>>
der == <<derCall, derAnswer>>
padding == <<scheme, phase, length, memory, blockChain, done, cipher, returned>>
rsa == <<rsaCall, rsaAnswer>>
hmacDrbg == <<hmacKey, n, hmacReseedCounter, hmacStatus, hmacGiven, seeded, hmacCalls>>

Digests == INSTANCE Streams WITH
  LengthBytes <- 1, OutputSize <- 2, HeaderBytes <- 1, Passes <- 2,
  Pieces <- PieceLengths, KeyLengths <- {0, 2, 3, 4, 6}, MaxBytes <- 8, MaxPieces <- 3

Pads == INSTANCE PadModes WITH
  Pieces <- PieceLengths, MaxText <- 8, mode <- padMode, ctx <- padCtx, text <- padText

Cha == INSTANCE ChaChaPoly WITH
  Block <- ChaBlock, CounterValues <- ChaCounterValues, Pieces <- ChaPieces,
  MaxAad <- ChaMaxAad, MaxMessages <- ChaMessages, state <- chaState, aad_nbytes <- chaAad,
  text_nbytes <- chaText, pads <- chaPads, tag <- chaTag

CcmMode == INSTANCE Ccm WITH
  CounterValues <- 8, AadHeader <- 2, Pieces <- {0, 1, 2, 4}, AadLengths <- {0, 1, 3, 4},
  TextLengths <- {0, 1, 4, 6}, MaxCalls <- 5, counter <- ccmCounter, pad <- ccmPad, tag <- ccmTag

SivMode == INSTANCE Siv WITH
  Block <- SivBlock, KeyUnits <- SivKeyUnits, Garbage <- Stack, Pieces <- SivPieces,
  MaxSteps <- SivSteps, state <- sivState, mac <- sivMac

Hmac == INSTANCE HmacDrbg WITH
  Block <- HmacBlock, MaxCalls <- HmacCalls, key <- hmacKey,
  reseed_counter <- hmacReseedCounter, status <- hmacStatus, given <- hmacGiven,
  calls <- hmacCalls

\* Words small enough for numbers of two words with a carry; next to powers of two, and
\* the largest product, quotient and difference.  Reciprocals with the code's precisions,
\* and with some that make 8 bits a long divisor and round after round cut words off.
Big == INSTANCE BigNum WITH
  UnitBits <- 3, GcdUnitBits <- 6, WideUnitBits <- 32, SmallExponent <- 2, MaskBits <- 2,
  Primes <- {3, 5, 7, 11, 13, 17, 41, 61}, LargePrimes <- {67, 2053, 4093},
  Precisions <- {[init |-> 10, r0 |-> 4, unit |-> 32], [init |-> 4, r0 |-> 2, unit |-> 4]},
  Divisors <- (0 .. 40) \union {63, 64, 65, 127, 128, 129, 255, 256, 511, 513, 1023, 1500, 2047,
                                3001, 4096, 5793, 8191, 8193, 11585, 13001, 16383},
  Dividends <- (0 .. 130) \union {1023, 1024, 1025, 32767, 65535, 65536, 1048575, 4194303},
  GcdOperands <- (0 .. 20) \union {32, 48, 63, 64, 65, 96, 127, 128, 129, 960, 1023, 1024,
                                  2047, 2048, 3072, 4032, 4095},
  Operands <- (0 .. 16) \union {21, 32, 35, 47, 48, 62, 63}

Ss == INSTANCE Shamir WITH
  Prime <- 5, Threshold <- 3, Secrets <- 0 .. 5, Indices <- {0, 1, 2, 4, 5}

\* Composites with bases they pass with, primes at either side of the limit of s.
Mr == INSTANCE RabinMiller WITH
  Candidates <- {0, 1, 2, 3, 9, 13, 17, 25, 35, 41, 49, 65}, SmallPrimes <- {3},
  MaxPowerOfTwo <- 4, MaxDepth <- 2, Retries <- 2

\* The points of y^2 = x^3 - 3x + 25, two of them with x = 0.
Ec == INSTANCE Curve WITH
  P <- 31, B <- 25, Order <- 23, MaskBits <- 2, Scales <- {1, 9}, Bases <- {9},
  call <- curveCall, answer <- curveAnswer

\* Two tries, digests of less and of more bits than the order, keys that are no scalars, and
\* points with x = 0, the generator, its opposite and one that is not on the curve.
Ek == INSTANCE EcKeys WITH
  P <- 31, B <- 25, Order <- 23, Generator <- [x |-> 9, y |-> 13], MaxRetries <- 2, ByteBits <- 3,
  MinCandidates <- 2, ReferenceScalar <- 13, FakeDigest <- <<1, 2>>,
  DigestValues <- {<<6>>, <<7, 3, 5>>}, Privates <- 0 .. 23, SignMasks <- {1, 9, 22},
  Publics <- {a \in Ec!OnCurve : a.x \in {0, 6, 9} /\ (a.x # 9 => 2 * a.y < 31)}
               \union {[x |-> 0, y |-> 0]},
  Entropies <- {0, 1, 21, 22, 23, 31, 45, 60}, Diversifiers <- {1, 2, 5, 22},
  CandidateLists <- {<<30>>, <<31, 30>>, <<22, 23, 21>>, <<4, 3>>},
  call <- keyCall, answer <- keyAnswer, key <- pair, tries <- keyTries

\* Bytes of four bits: lengths and tags next to what each form holds.
DerForms == INSTANCE Der WITH
  ByteBits <- 4, UnitBytes <- 3, ClassBits <- 1, TagBytes <- 5,
  Numbers <- (0 .. 17) \union {127, 128, 255, 256, 2047, 2048, 4095, 4096, 65535, 65536,
                              1193046, 8388607, 11259375, 16777215},
  Tags <- {0, 1} \X {0, 2, 6, 7, 8, 63, 64, 511, 512, 4095, 4096, 32767},
  Lengths <- {0, 1, 7, 8, 15, 16, 255, 256, 4095, 4096, 65535, 65536},
  Octets <- {<<>>, <<0>>, <<5>>, <<9>>, <<0, 9>>, <<0, 5>>, <<5, 1, 2, 3>>, <<0, 9, 1, 2>>},
  Alphabet <- {0, 1, 7, 8, 9, 10, 12, 13, 15}, call <- derCall, answer <- derAnswer

\* Messages of up to four blocks; keys of less than two semiblocks, of none whole and too long.
Paddings == INSTANCE Padding WITH
  Block <- 3, MaxText <- 11, Byte <- 256, SemiBytes <- 8, MaxSemiblocks <- 4,
  KeyBytes <- {0, 8, 15, 16, 17, 24, 32}, chain <- blockChain

\* Moduli with divisors of a square, of two, of one length and of too different ones; blocks
\* next to the least each encoding fits in, and signatures of 8k + 1 bits.
RsaKeys == INSTANCE Rsa WITH
  Capacity <- 8, MaskBits <- 2, MaxTries <- 2, Hash <- 2, Primes <- {2, 3, 5, 7, 11, 13, 17, 31},
  Exponents <- {3, 4, 5, 7}, Pairs <- {<<11, 5>>, <<11, 7>>, <<17, 11>>},
  Masks <- {m \in [1 .. 6 -> {0, 3}] : m[2] = m[5] /\ m[3] = m[6] /\ m[2] # m[3]},
  BlindTexts <- {2, 10, 54},
  Moduli <- {35, 36, 49, 55, 77, 91, 105, 143}, Draws <- {0, 2, 6, 29},
  Sizes <- {5, 6, 11, 12, 14}, SignSizes <- {10, 12, 13, 22, 23, 24, 25},
  ModBits <- {25, 26, 33, 34, 41, 42, 43, 50, 56}, call <- rsaCall, answer <- rsaAnswer

\* Of two IVs with one salt, the first follows the other when its counter wraps.
MCIVs == {[salt |-> "s", invocation |-> 0], [salt |-> "s", invocation |-> InvocationValues - 1]}
MCLongIVs == {[salt |-> "hash", invocation |-> 0]}

\* Pieces that look like the length and the mark that follow one.
MCSivPieces == {<<>>, <<1>>, <<1, 1>>}
MCTexts == {<<>>, <<1>>, <<1, 3>>}

\* The first initial state, where a part that is not chosen has several.
\* Of GCM a decryptor: it does all that an encryptor does, and refuses tags besides.
MCInit ==
  /\ part \in {"gcm", "digests", "pads", "chacha", "ccm", "siv", "hmac drbg", "numbers",
               "shamir", "prime", "curve", "keys", "der", "padding", "rsa"}
  /\ Init /\ encdec = "decrypt"
  /\ Digests!Init /\ (part # "digests" => stream = "digest")
  /\ Pads!Init /\ (part # "pads" => padMode = "ctr")
  /\ Cha!Init /\ CcmMode!Init
  /\ SivMode!Init /\ (part # "siv" => kind = "siv")
  /\ Hmac!Init /\ Big!Init /\ Ss!Init /\ Ec!Init /\ Ek!Init
  /\ DerForms!Init /\ Paddings!Init /\ RsaKeys!Init
  /\ Mr!Init /\ (part # "prime" => p = 2 /\ mr_depth = 0)

MCNext ==
  \/ /\ part = "gcm" /\ Next
     /\ UNCHANGED <<part, digests, padModes, chaCha, ccm, siv, hmacDrbg, numbers,
                   shamir, prime, curve, keys, der, padding, rsa>>
  \/ /\ part = "digests" /\ Digests!Next
     /\ UNCHANGED <<part, vars, padModes, chaCha, ccm, siv, hmacDrbg, numbers, shamir,
                   prime, curve, keys, der, padding, rsa>>
  \/ /\ part = "pads" /\ Pads!Next
     /\ UNCHANGED <<part, vars, digests, chaCha, ccm, siv, hmacDrbg, numbers, shamir,
                   prime, curve, keys, der, padding, rsa>>
  \/ /\ part = "chacha" /\ Cha!Next
     /\ UNCHANGED <<part, vars, digests, padModes, ccm, siv, hmacDrbg, numbers,
                   shamir, prime, curve, keys, der, padding, rsa>>
  \/ /\ part = "ccm" /\ CcmMode!Next
     /\ UNCHANGED <<part, vars, digests, padModes, chaCha, siv, hmacDrbg, numbers,
                   shamir, prime, curve, keys, der, padding, rsa>>
  \/ /\ part = "siv" /\ SivMode!Next
     /\ UNCHANGED <<part, vars, digests, padModes, chaCha, ccm, hmacDrbg, numbers,
                   shamir, prime, curve, keys, der, padding, rsa>>
  \/ /\ part = "hmac drbg" /\ Hmac!Next
     /\ UNCHANGED <<part, vars, digests, padModes, chaCha, ccm, siv, numbers, shamir,
                   prime, curve, keys, der, padding, rsa>>
  \/ /\ part = "numbers" /\ Big!Next
     /\ UNCHANGED <<part, vars, digests, padModes, chaCha, ccm, siv, hmacDrbg, shamir,
                   prime, curve, keys, der, padding, rsa>>
  \/ /\ part = "shamir" /\ Ss!Next
     /\ UNCHANGED <<part, vars, digests, padModes, chaCha, ccm, siv, hmacDrbg,
                   numbers, prime, curve, keys, der, padding, rsa>>
  \/ /\ part = "prime" /\ Mr!Next
     /\ UNCHANGED <<part, vars, digests, padModes, chaCha, ccm, siv, hmacDrbg,
                   numbers, shamir, curve, keys, der, padding, rsa>>
  \/ /\ part = "curve" /\ Ec!Next
     /\ UNCHANGED <<part, vars, digests, padModes, chaCha, ccm, siv, hmacDrbg,
                   numbers, shamir, prime, keys, der, padding, rsa>>
  \/ /\ part = "keys" /\ Ek!Next
     /\ UNCHANGED <<part, vars, digests, padModes, chaCha, ccm, siv, hmacDrbg,
                   numbers, shamir, prime, curve, der, padding, rsa>>
  \/ /\ part = "der" /\ DerForms!Next
     /\ UNCHANGED <<part, vars, digests, padModes, chaCha, ccm, siv, hmacDrbg,
                   numbers, shamir, prime, curve, keys, padding, rsa>>
  \/ /\ part = "padding" /\ Paddings!Next
     /\ UNCHANGED <<part, vars, digests, padModes, chaCha, ccm, siv, hmacDrbg,
                   numbers, shamir, prime, curve, keys, der, rsa>>
  \/ /\ part = "rsa" /\ RsaKeys!Next
     /\ UNCHANGED <<part, vars, digests, padModes, chaCha, ccm, siv, hmacDrbg,
                   numbers, shamir, prime, curve, keys, der, padding>>

mcVars == <<part, vars, digests, padModes, chaCha, ccm, siv, hmacDrbg, numbers, shamir, prime,
            curve, keys, der, padding, rsa>>

MCSpec == MCInit /\ [][MCNext]_mcVars

\* No keystream of GCM is used twice (ccmode_gcm_*.c), and the HMAC DRBG gives no block
\* twice, none that can be computed from its state afterwards and, after a reseed, none that
\* does not depend on the seed (ccdrbg_nisthmac.c).
NothingTwice == KeystreamOnce /\ Hmac!OutputIndependent

\* However the input is cut into calls, each context computes what its reference defines of
\* the whole: digests, HMAC, CMAC and the derivation function of the DRBG (cccmac_update.c,
\* ccdigest_update.c, ccdrbg_nistctr.c), the keystream modes (ccmode_ctr_crypt.c and the
\* like), and, in every order of calls they allow or refuse, GCM (ccmode_gcm_*.c),
\* ChaCha20-Poly1305 (ccchacha20poly1305.c) and CCM (ccmode_ccm_*.c).
PiecesDoNotMatter ==
  /\ Digests!PiecesDoNotMatter /\ Pads!PadMatches
  /\ TagIsReference /\ KeystreamIsReference /\ Cha!MessageMatches /\ CcmMode!CcmMatches

\* What Siv seals opens again, and it opens nothing else (ccmode_siv_*.c,
\* ccmode_siv_hmac_*.c).
SivRoundTrip == SivMode!RoundTrip
SivMatches == SivRoundTrip /\ SivMode!Authentic

\* Arithmetic on words is arithmetic: of numbers (cczp_mm.c, cczp_power.c, cczp_inv.c,
\* ccn_make_recip.c, ccn_gcd.c, ccn_invmod.c), in the test of a prime
\* (ccprime_rabin_miller.c), of the shares of a secret (ccss), of points (ccec_mult.c,
\* ccec_full_add.c, ccec_twin_mult.c), of keys and signatures (ccec_sign_internal.c,
\* ccec_verify_internal.c), and of RSA under its masks (ccrsa_priv_crypt_blinded.c,
\* ccrsa_recover_priv.c).
ArithmeticExact ==
  /\ Big!Exact /\ Mr!VerdictRight /\ Ss!SecretRecovered /\ Ec!Exact /\ Ek!KeysRight
  /\ RsaKeys!KeysExact

\* What an encoder writes its decoder reads, and what is accepted besides is told exactly: DER
\* (ccder_blob_encode_*.c, ccder_blob_decode_*.c), messages padded, stolen from or wrapped, in
\* place or not (ccpad_*.c, ccwrap_*.c), and the encodings of RSA (ccrsa_eme_*.c,
\* ccrsa_oaep_*.c, ccrsa_emsa_*.c).  The exceptions are part of it, as the code has them: an
\* octet string of whole bytes loses its last one; strict decoding takes any form of a tag;
\* fewer bytes than a word, written from two words, are zeros in front; bad padding removes
\* nothing; and no one looks above a PSS encoding under a modulus of 8k + 1 bits.
EncodingsExact == DerForms!DerExact /\ Paddings!MessagesExact /\ RsaKeys!EncodingsRight
=============================================================================
