-------------------------------- MODULE Sae --------------------------------
(***************************************************************************)
(* The SAE handshake (src/ccsae/src).  Both parties run the same calls:    *)
(* a commitment, found by hunting and pecking in several calls or by       *)
(* hashing to the curve; the peer's commitment; a confirmation; the peer's *)
(* confirmation; the keys.  A party may start over in a new context; the   *)
(* network loses, repeats, reorders and misdelivers.                       *)
(*                                                                         *)
(* A commitment is named by its two scalars (rand and mask, one draw) and  *)
(* the password element.  The key seed of two commitments over the same    *)
(* element is the set of both draws and the element; over different ones   *)
(* it is a point nobody else knows, named by all that went into it.        *)
(***************************************************************************)
EXTENDS Integers, FiniteSets

CONSTANTS
  Contexts,
  Passwords,       \* with the identities: what the password element derives from
  Iterations,      \* SAE_HUNT_AND_PECK_ITERATIONS
  Batches,         \* max_num_iterations of a call, > 0
  MaxFailures      \* bound: calls that fail for want of randomness

ASSUME SaeAssumption ==
  /\ Iterations \in Nat \ {0} /\ Batches \in SUBSET (Nat \ {0})
  /\ MaxFailures \in Nat

VARIABLES
  state,       \* context -> its flags, CCSAE_STATE_*
  password,
  loop,        \* context -> current_loop_iteration - 1: iterations done
  found,       \* context -> found_qr
  roots,       \* context -> square roots taken of the y^2 in PWE_y: 1 makes a point
  own, peer,   \* context -> our commitment and the peer's, sets of at most one
  drawn,       \* context -> draws so far
  key,         \* context -> KCK and PMK, sets of at most one
  given,       \* context -> the keys given to the caller
  confirmed,   \* history: contexts whose verification succeeded
  commits, confirms,   \* network: messages sent
  failures

vars == <<state, password, loop, found, roots, own, peer, drawn, key, given, confirmed,
          commits, confirms, failures>>

INIT == {"init"}
COMMIT_INIT == INIT \union {"commit_init"}
COMMIT_UPDATE == COMMIT_INIT \union {"commit_update"}
COMMIT_GENERATED == COMMIT_UPDATE \union {"commit_generated"}
COMMIT_VERIFIED == COMMIT_UPDATE \union {"commit_verified"}
COMMIT_BOTH == COMMIT_GENERATED \union COMMIT_VERIFIED
CONFIRMATION_GENERATED == COMMIT_BOTH \union {"confirmation_generated"}
CONFIRMATION_VERIFIED == COMMIT_BOTH \union {"confirmation_verified"}
CONFIRMATION_BOTH == CONFIRMATION_GENERATED \union CONFIRMATION_VERIFIED

Expect(c, states) == state[c] \in states
AddState(c, s) == state' = [state EXCEPT ![c] = @ \union s]
The(S) == CHOOSE x \in S : TRUE
None == [c \in Contexts |-> {}]
Least(a, b) == IF a < b THEN a ELSE b

Init ==
  /\ state = [c \in Contexts |-> INIT]
  /\ password \in [Contexts -> Passwords]
  /\ loop = [c \in Contexts |-> 0] /\ found = [c \in Contexts |-> FALSE]
  /\ roots = [c \in Contexts |-> 0]
  /\ own = None /\ peer = None /\ drawn = [c \in Contexts |-> 0]
  /\ key = None /\ given = None /\ confirmed = {}
  /\ commits = {} /\ confirms = {}
  /\ failures = 0

(***************************************************************************)
(* Our commitment.                                                         *)
(***************************************************************************)

\* ccsae_generate_commitment_init.
CommitInit(c) ==
  /\ Expect(c, {INIT})
  /\ loop' = [loop EXCEPT ![c] = 0] /\ found' = [found EXCEPT ![c] = FALSE]
  /\ AddState(c, COMMIT_INIT)
  /\ UNCHANGED <<password, roots, own, peer, drawn, key, given, confirmed, commits,
                 confirms, failures>>

\* Iterations that look for an x with a y; the first found is kept by those that follow.
Hunt(c, hit) == found' = [found EXCEPT ![c] = @ \/ hit]

\* ccsae_generate_commitment_partial.  Nothing is done when all iterations are.
CommitPartial(c, batch) ==
  /\ Expect(c, {COMMIT_UPDATE, COMMIT_INIT})
  /\ loop[c] < Iterations
  /\ loop' = [loop EXCEPT ![c] = @ + Least(batch, Iterations - @)]
  /\ \E hit \in BOOLEAN : Hunt(c, hit)
  /\ AddState(c, COMMIT_UPDATE)
  /\ UNCHANGED <<password, roots, own, peer, drawn, key, given, confirmed, commits,
                 confirms, failures>>

Commitment(c, n, r) == [draw |-> <<c, n>>, pwe |-> [of |-> password[c], roots |-> r]]

\* ccsae_generate_commitment_shared, successful: rand and mask are drawn, the
\* commitment is written out.
Publish(c, r) ==
  /\ drawn' = [drawn EXCEPT ![c] = @ + 1]
  /\ own' = [own EXCEPT ![c] = {Commitment(c, drawn'[c], r)}]
  /\ commits' = commits \union own'[c]
  /\ roots' = [roots EXCEPT ![c] = r]
  /\ AddState(c, COMMIT_GENERATED)

\* ccsae_generate_commitment_finalize: the root is taken in place.  It is refused
\* before the last iteration and fails when no x was found.
Finalize(c) ==
  /\ Expect(c, {COMMIT_UPDATE})
  /\ loop[c] = Iterations /\ found[c]
  /\ Publish(c, roots[c] + 1)
  /\ UNCHANGED <<password, loop, found, peer, key, given, confirmed, confirms, failures>>

\* The randomness for projectify, the scalars or the blinding fails when PWE_y is
\* replaced already; the state stays, and the caller may try again.
FinalizeFails(c) ==
  /\ Expect(c, {COMMIT_UPDATE})
  /\ loop[c] = Iterations /\ found[c]
  /\ failures < MaxFailures /\ failures' = failures + 1
  /\ roots' = [roots EXCEPT ![c] = @ + 1]
  /\ UNCHANGED <<state, password, loop, found, own, peer, drawn, key, given, confirmed,
                 commits, confirms>>

\* ccsae_generate_h2c_commit.
HashToCurveCommit(c) ==
  /\ Expect(c, {INIT})
  /\ Publish(c, 1)
  /\ UNCHANGED <<password, loop, found, peer, key, given, confirmed, confirms, failures>>

(***************************************************************************)
(* The peer's commitment, and the keys.                                    *)
(***************************************************************************)

\* Mutant: the context is made of our scalar only.
DeriveOwnOnly(mine, theirs) ==
  [seed |-> IF mine.pwe = theirs.pwe THEN {mine.draw, theirs.draw} ELSE {mine.draw},
   stray |-> IF mine.pwe = theirs.pwe THEN {} ELSE {mine, theirs},
   context |-> {mine.draw}]

\* I2 = rand * (peer_scalar * PWE + PEER_CE); KCK and PMK derive from it and from the
\* sum of the two commit scalars.
Derive(mine, theirs) ==
  [seed |-> IF mine.pwe = theirs.pwe THEN {mine.draw, theirs.draw} ELSE {mine.draw},
   stray |-> IF mine.pwe = theirs.pwe THEN {} ELSE {mine, theirs},
   context |-> {mine.draw, theirs.draw}]

\* The element of a commitment is a point of the curve.
OnCurve(m) == m.pwe.roots = 1

\* ccsae_verify_commitment: neither scalar nor element may be our own.
VerifyCommitment(c, m) ==
  /\ Expect(c, {COMMIT_GENERATED})
  /\ m.draw # The(own[c]).draw /\ OnCurve(m)
  /\ peer' = [peer EXCEPT ![c] = {m}]
  /\ key' = [key EXCEPT ![c] = {Derive(The(own[c]), m)}]
  /\ AddState(c, COMMIT_VERIFIED)
  /\ UNCHANGED <<password, loop, found, roots, own, drawn, given, confirmed, commits,
                 confirms, failures>>

\* A refusal, or want of randomness for the blinding, after the peer's values were read.
VerifyCommitmentFails(c, m) ==
  /\ Expect(c, {COMMIT_GENERATED})
  /\ \/ (m.draw = The(own[c]).draw \/ ~OnCurve(m)) /\ UNCHANGED failures
     \/ failures < MaxFailures /\ failures' = failures + 1
  /\ peer' = [peer EXCEPT ![c] = {m}]
  /\ UNCHANGED <<state, password, loop, found, roots, own, drawn, key, given, confirmed,
                 commits, confirms>>

(***************************************************************************)
(* Confirmations.                                                          *)
(***************************************************************************)
Confirmation(kck, first, second) == [kck |-> kck, first |-> first, second |-> second]

\* ccsae_generate_confirmation: our commitment, then the peer's.
GenerateConfirmation(c) ==
  /\ Expect(c, {COMMIT_BOTH, CONFIRMATION_VERIFIED})
  /\ confirms' = confirms
       \union {Confirmation(The(key[c]), The(own[c]), The(peer[c]))}
  /\ AddState(c, CONFIRMATION_GENERATED)
  /\ UNCHANGED <<password, loop, found, roots, own, peer, drawn, key, given, confirmed,
                 commits, failures>>

\* Mutant: both directions hash the commitments in one order.
ExpectedOwnOrder(c) == Confirmation(The(key[c]), The(own[c]), The(peer[c]))

\* What the peer's confirmation is compared with: its commitment, then ours.
Expected(c) == Confirmation(The(key[c]), The(peer[c]), The(own[c]))

\* ccsae_verify_confirmation: the flag is set, then the comparison is returned.
VerifyConfirmation(c, m) ==
  /\ Expect(c, {COMMIT_BOTH, CONFIRMATION_GENERATED})
  /\ AddState(c, CONFIRMATION_VERIFIED)
  /\ confirmed' = IF m = Expected(c) THEN confirmed \union {c} ELSE confirmed
  /\ UNCHANGED <<password, loop, found, roots, own, peer, drawn, key, given, commits,
                 confirms, failures>>

\* ccsae_get_keys.
GetKeys(c) ==
  /\ Expect(c, {CONFIRMATION_BOTH})
  /\ given' = [given EXCEPT ![c] = key[c]]
  /\ UNCHANGED <<state, password, loop, found, roots, own, peer, drawn, key, confirmed,
                 commits, confirms, failures>>

Next ==
  \E c \in Contexts :
    \/ CommitInit(c) \/ \E n \in Batches : CommitPartial(c, n)
    \/ Finalize(c) \/ FinalizeFails(c)
    \/ HashToCurveCommit(c)
    \/ \E m \in commits : VerifyCommitment(c, m) \/ VerifyCommitmentFails(c, m)
    \/ GenerateConfirmation(c)
    \/ \E m \in confirms : VerifyConfirmation(c, m)
    \/ GetKeys(c)

Spec == Init /\ [][Next]_vars

(***************************************************************************)
(* Properties.                                                             *)
(***************************************************************************)

\* Types: a context holds at most one commitment of its own, made from its password
\* with its last draw, at most one key, and never more iterations than it needs.
TypeOK ==
  /\ \A c \in Contexts :
       /\ loop[c] \in 0..Iterations /\ found[c] \in BOOLEAN
       /\ own[c] \in {{}, {Commitment(c, drawn[c], roots[c])}}
       /\ key[c] \in {{}} \union {{Derive(m, n)} : m \in own[c], n \in peer[c]}
       /\ given[c] \in {{}, key[c]}
  /\ confirmed \subseteq Contexts
  /\ failures \in 0..MaxFailures


\* A context whose verification succeeded has a partner, one only, that committed over
\* the same element, took our commitment as we took its own, sent its confirmation
\* and has the same keys.
ConfirmedAgreement ==
  \A c \in confirmed :
    \E d \in Contexts \ {c} :
      /\ password[d] = password[c]
      /\ peer[c] = own[d] /\ peer[d] = own[c] /\ key[c] = key[d]
      /\ CONFIRMATION_GENERATED \subseteq state[d]
      /\ \A e \in Contexts \ {d} : key[e] = key[c] => e = c

\* Two contexts with one password that took each other's commitment accept each
\* other's confirmation, whatever failed on the way.
PartnersConfirm ==
  \A c, d \in Contexts :
    (/\ password[c] = password[d] /\ key[c] # {} /\ key[d] # {}
     /\ The(peer[c]).draw[1] = d /\ The(peer[d]).draw[1] = c)
      => Expected(c) = Confirmation(The(key[d]), The(own[d]), The(peer[d]))

\* The keys are given out on verification success (ccsae.h:304).
KeysOnVerification == \A c \in Contexts : given[c] # {} => c \in confirmed
=============================================================================
