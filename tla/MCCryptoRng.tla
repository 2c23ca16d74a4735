---------------------------- MODULE MCCryptoRng ----------------------------
EXTENDS CryptoRng, TLC

\* The parent's threads are interchangeable.
Symmetry == Permutations(Threads)
=============================================================================
