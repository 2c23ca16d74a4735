-------------------------- MODULE HandshakeProofs --------------------------
(***************************************************************************)
(* Proofs about the handshakes of MCHandshakes.tla, for any contexts,      *)
(* passwords, messages and bounds.                                         *)
(***************************************************************************)
EXTENDS MCHandshakes, SequenceTheorems, TLAPS

\* A context is a prover's or a verifier's.
Disjoint == Provers \intersect Verifiers = {}

-----------------------------------------------------------------------------
(* SAE.                                                                    *)

SaeTypes ==
  /\ DOMAIN state = Contexts /\ DOMAIN roots = Contexts /\ DOMAIN own = Contexts
  /\ DOMAIN peer = Contexts /\ DOMAIN key = Contexts /\ confirmed \subseteq Contexts

\* A commitment is generated once, of the element as it was then.
Committed(c) ==
  IF "commit_generated" \in state[c]
  THEN \E n : own[c] = {Commitment(c, n, roots[c])}
  ELSE own[c] = {}

\* The peer's commitment that was verified was sent, is no echo, and makes the key.
PeerVerified(c) ==
  IF "commit_verified" \in state[c]
  THEN /\ "commit_generated" \in state[c]
       /\ \E m \in commits : /\ peer[c] = {m} /\ OnCurve(m) /\ m.draw # The(own[c]).draw
                             /\ key[c] = {Derive(The(own[c]), m)}
  ELSE key[c] = {}

ConfirmsLast(c) ==
  "confirmation_generated" \in state[c] =>
    CONFIRMATION_GENERATED \subseteq state[c] /\ "commit_verified" \in state[c]

SaeContexts == \A c \in Contexts : Committed(c) /\ PeerVerified(c) /\ ConfirmsLast(c)

Generated(c) == Confirmation(The(key[c]), The(own[c]), The(peer[c]))
CommitsSent ==
  \A m \in commits : \E d \in Contexts : "commit_generated" \in state[d] /\ own[d] = {m}
ConfirmsSent ==
  \A m \in confirms : \E d \in Contexts : "confirmation_generated" \in state[d] /\ m = Generated(d)
ConfirmedBy == \A c \in confirmed : "commit_verified" \in state[c] /\ Expected(c) \in confirms

SaeInv == SaeTypes /\ SaeContexts /\ CommitsSent /\ ConfirmsSent /\ ConfirmedBy

LEMMA SaeInit == ASSUME Init PROVE SaeInv
<1>1. SaeTypes
  BY DEF Init, None, SaeTypes
<1>2. SaeContexts
  BY DEF Init, None, INIT, SaeContexts, Committed, PeerVerified, ConfirmsLast
<1>3. CommitsSent /\ ConfirmsSent /\ ConfirmedBy
  BY DEF Init, CommitsSent, ConfirmsSent, ConfirmedBy
<1> QED
  BY <1>1, <1>2, <1>3 DEF SaeInv

\* What no step takes back.
SaeGrows ==
  /\ password' = password /\ commits \subseteq commits' /\ confirms \subseteq confirms'
  /\ \A d \in Contexts :
       /\ state[d] \subseteq state'[d]
       /\ "commit_generated" \in state[d] => own'[d] = own[d] /\ roots'[d] = roots[d]
       /\ "commit_verified" \in state[d] => peer'[d] = peer[d] /\ key'[d] = key[d]

LEMMA SaeKept ==
  ASSUME SaeInv, SaeGrows
  PROVE  /\ \A m \in commits : \E d \in Contexts : "commit_generated" \in state'[d] /\ own'[d] = {m}
         /\ \A m \in confirms :
              \E d \in Contexts : "confirmation_generated" \in state'[d] /\ m = Generated(d)'
         /\ \A c \in confirmed : "commit_verified" \in state'[c] /\ Expected(c)' \in confirms'
<1>1. ASSUME NEW d \in Contexts, "commit_verified" \in state[d]
      PROVE  Generated(d)' = Generated(d) /\ Expected(d)' = Expected(d)
  <2>1. "commit_generated" \in state[d]
    BY <1>1 DEF SaeInv, SaeContexts, PeerVerified
  <2> QED
    BY <1>1, <2>1 DEF SaeGrows, Generated, Expected, Confirmation
<1>2. \A m \in commits : \E d \in Contexts : "commit_generated" \in state'[d] /\ own'[d] = {m}
  BY DEF SaeInv, CommitsSent, SaeGrows
<1>3. ASSUME NEW m \in confirms
      PROVE  \E d \in Contexts : "confirmation_generated" \in state'[d] /\ m = Generated(d)'
  <2>1. PICK d \in Contexts : "confirmation_generated" \in state[d] /\ m = Generated(d)
    BY DEF SaeInv, ConfirmsSent
  <2>2. "commit_verified" \in state[d]
    BY <2>1 DEF SaeInv, SaeContexts, ConfirmsLast
  <2> QED
    BY <1>1, <2>1, <2>2 DEF SaeGrows
<1>4. \A c \in confirmed : "commit_verified" \in state'[c] /\ Expected(c)' \in confirms'
  BY <1>1 DEF SaeInv, SaeTypes, ConfirmedBy, SaeGrows
<1> QED
  BY <1>2, <1>3, <1>4

\* A context whose step it is not.
LEMMA OtherSae ==
  ASSUME SaeInv, SaeGrows, NEW d \in Contexts, state'[d] = state[d], own'[d] = own[d],
         roots'[d] = roots[d], key'[d] = key[d],
         "commit_verified" \in state[d] => peer'[d] = peer[d]
  PROVE  Committed(d)' /\ PeerVerified(d)' /\ ConfirmsLast(d)'
<1>1. Committed(d) /\ PeerVerified(d) /\ ConfirmsLast(d)
  BY DEF SaeInv, SaeContexts
<1>2. Committed(d)' /\ ConfirmsLast(d)'
  BY <1>1 DEF SaeGrows, Committed, ConfirmsLast, Commitment
<1>3. PeerVerified(d)'
  BY <1>1 DEF SaeGrows, PeerVerified, Derive, OnCurve
<1> QED
  BY <1>2, <1>3

\* The iterations, and a root that is taken before a call fails.
LEMMA HuntStep ==
  ASSUME SaeInv, NEW c \in Contexts,
         CommitInit(c) \/ (\E n \in Batches : CommitPartial(c, n)) \/ FinalizeFails(c)
  PROVE  SaeInv'
<1>1. /\ state[c] \in {INIT, COMMIT_INIT, COMMIT_UPDATE}
      /\ \/ state' = state
         \/ state' = [state EXCEPT ![c] = @ \union COMMIT_INIT]
         \/ state' = [state EXCEPT ![c] = @ \union COMMIT_UPDATE]
      /\ roots' = roots \/ roots' = [roots EXCEPT ![c] = @ + 1]
      /\ UNCHANGED <<password, own, peer, key, confirmed, commits, confirms>>
  BY DEF CommitInit, CommitPartial, FinalizeFails, Expect, AddState
<1>2. /\ "commit_generated" \notin state[c] /\ "commit_verified" \notin state[c]
      /\ "confirmation_generated" \notin state[c]
  BY <1>1 DEF INIT, COMMIT_INIT, COMMIT_UPDATE
<1>3. /\ state[c] \subseteq state'[c]
      /\ "commit_generated" \notin state'[c] /\ "commit_verified" \notin state'[c]
      /\ "confirmation_generated" \notin state'[c]
      /\ \A d \in Contexts \ {c} : state'[d] = state[d] /\ roots'[d] = roots[d]
      /\ SaeTypes'
  BY <1>1, <1>2 DEF SaeInv, SaeTypes, INIT, COMMIT_INIT, COMMIT_UPDATE
<1>4. SaeGrows
  BY <1>1, <1>2, <1>3 DEF SaeGrows
<1>5. \A d \in Contexts \ {c} : Committed(d)' /\ PeerVerified(d)' /\ ConfirmsLast(d)'
  BY <1>1, <1>3, <1>4, OtherSae
<1>6. Committed(c)' /\ PeerVerified(c)' /\ ConfirmsLast(c)'
  BY <1>1, <1>2, <1>3 DEF SaeInv, SaeContexts, Committed, PeerVerified, ConfirmsLast
<1> QED
  BY <1>1, <1>3, <1>4, <1>5, <1>6, SaeKept
  DEF SaeInv, SaeContexts, CommitsSent, ConfirmsSent, ConfirmedBy

LEMMA PublishStep ==
  ASSUME SaeInv, NEW c \in Contexts, Finalize(c) \/ HashToCurveCommit(c)
  PROVE  SaeInv'
<1>1. /\ state[c] \in {INIT, COMMIT_UPDATE}
      /\ \E r : Publish(c, r)
      /\ UNCHANGED <<password, peer, key, confirmed, confirms>>
  BY DEF Finalize, HashToCurveCommit, Expect
<1>2. PICK r : Publish(c, r)
  BY <1>1
<1>3. PICK n : n = drawn'[c]
  OBVIOUS
<1>4. /\ own'[c] = {Commitment(c, n, r)} /\ roots'[c] = r
      /\ \A d \in Contexts \ {c} :
           own'[d] = own[d] /\ roots'[d] = roots[d] /\ state'[d] = state[d]
      /\ state'[c] = state[c] \union COMMIT_GENERATED
      /\ commits' = commits \union own'[c]
      /\ SaeTypes'
  BY <1>1, <1>2, <1>3 DEF Publish, AddState, SaeInv, SaeTypes
<1>5. /\ "commit_generated" \notin state[c] /\ "commit_verified" \notin state[c]
      /\ "confirmation_generated" \notin state[c]
  BY <1>1 DEF INIT, COMMIT_INIT, COMMIT_UPDATE
<1>6. /\ "commit_generated" \in state'[c] /\ "commit_verified" \notin state'[c]
      /\ "confirmation_generated" \notin state'[c]
  BY <1>4, <1>5 DEF INIT, COMMIT_INIT, COMMIT_UPDATE, COMMIT_GENERATED
<1>7. SaeGrows
  BY <1>1, <1>4, <1>5 DEF SaeGrows
<1>8. \A d \in Contexts \ {c} : Committed(d)' /\ PeerVerified(d)' /\ ConfirmsLast(d)'
  BY <1>1, <1>4, <1>7, OtherSae
<1>9. Committed(c)' /\ PeerVerified(c)' /\ ConfirmsLast(c)'
  <2>1. Committed(c)' /\ ConfirmsLast(c)'
    BY <1>1, <1>4, <1>6 DEF Committed, ConfirmsLast, Commitment
  <2>2. PeerVerified(c)'
    BY <1>1, <1>5, <1>6 DEF SaeInv, SaeContexts, PeerVerified
  <2> QED
    BY <2>1, <2>2
<1>10. CommitsSent'
  BY <1>4, <1>6, <1>7, SaeKept DEF CommitsSent
<1> QED
  BY <1>1, <1>4, <1>7, <1>8, <1>9, <1>10, SaeKept
  DEF SaeInv, SaeContexts, ConfirmsSent, ConfirmedBy

LEMMA VerifyCommitmentStep ==
  ASSUME SaeInv, NEW c \in Contexts, NEW m \in commits, VerifyCommitment(c, m)
  PROVE  SaeInv'
<1>1. /\ state[c] = COMMIT_GENERATED /\ m.draw # The(own[c]).draw /\ OnCurve(m)
      /\ peer'[c] = {m} /\ key'[c] = {Derive(The(own[c]), m)}
      /\ state'[c] = state[c] \union COMMIT_VERIFIED
      /\ \A d \in Contexts \ {c} :
           peer'[d] = peer[d] /\ key'[d] = key[d] /\ state'[d] = state[d]
      /\ UNCHANGED <<password, roots, own, confirmed, commits, confirms>>
      /\ SaeTypes'
  BY DEF VerifyCommitment, Expect, AddState, SaeInv, SaeTypes
<1>2. /\ "commit_generated" \in state[c] /\ "commit_verified" \notin state[c]
      /\ "confirmation_generated" \notin state[c]
      /\ "commit_generated" \in state'[c] /\ "commit_verified" \in state'[c]
      /\ "confirmation_generated" \notin state'[c]
  BY <1>1 DEF INIT, COMMIT_INIT, COMMIT_UPDATE, COMMIT_GENERATED, COMMIT_VERIFIED
<1>3. SaeGrows
  BY <1>1, <1>2 DEF SaeGrows
<1>4. \A d \in Contexts \ {c} : Committed(d)' /\ PeerVerified(d)' /\ ConfirmsLast(d)'
  BY <1>1, <1>3, OtherSae
<1>5. Committed(c)' /\ PeerVerified(c)' /\ ConfirmsLast(c)'
  <2>1. Committed(c)' /\ ConfirmsLast(c)'
    BY <1>1, <1>2 DEF SaeInv, SaeContexts, Committed, ConfirmsLast, Commitment
  <2>2. PeerVerified(c)'
    BY <1>1, <1>2 DEF PeerVerified, Derive, OnCurve
  <2> QED
    BY <2>1, <2>2
<1> QED
  BY <1>1, <1>3, <1>4, <1>5, SaeKept
  DEF SaeInv, SaeContexts, CommitsSent, ConfirmsSent, ConfirmedBy

LEMMA VerifyCommitmentFailsStep ==
  ASSUME SaeInv, NEW c \in Contexts, NEW m \in commits, VerifyCommitmentFails(c, m)
  PROVE  SaeInv'
<1>1. /\ state[c] = COMMIT_GENERATED
      /\ \A d \in Contexts \ {c} : peer'[d] = peer[d]
      /\ UNCHANGED <<state, password, roots, own, key, confirmed, commits, confirms>>
      /\ SaeTypes'
  BY DEF VerifyCommitmentFails, Expect, SaeInv, SaeTypes
<1>2. "commit_verified" \notin state[c]
  BY <1>1 DEF INIT, COMMIT_INIT, COMMIT_UPDATE, COMMIT_GENERATED
<1>3. SaeGrows
  BY <1>1, <1>2 DEF SaeGrows
<1>4. \A d \in Contexts : Committed(d)' /\ PeerVerified(d)' /\ ConfirmsLast(d)'
  BY <1>1, <1>2, <1>3, OtherSae
<1> QED
  BY <1>1, <1>3, <1>4, SaeKept
  DEF SaeInv, SaeContexts, CommitsSent, ConfirmsSent, ConfirmedBy

\* The calls that confirm add flags and a confirmation, and take nothing back.
LEMMA ConfirmationStep ==
  ASSUME SaeInv, NEW c \in Contexts,
         GenerateConfirmation(c) \/ (\E m \in confirms : VerifyConfirmation(c, m)) \/ GetKeys(c)
  PROVE  SaeInv'
<1>1. /\ UNCHANGED <<password, roots, own, peer, key, commits>>
      /\ \A d \in Contexts \ {c} : state'[d] = state[d]
      /\ state[c] \subseteq state'[c]
      /\ "commit_generated" \in state[c] /\ "commit_verified" \in state[c]
      /\ "confirmation_generated" \in state'[c] /\ "confirmation_generated" \notin state[c] =>
           CONFIRMATION_GENERATED \subseteq state'[c]
      /\ confirms \subseteq confirms'
      /\ SaeTypes'
  <2>1. CASE GenerateConfirmation(c)
    BY <2>1 DEF GenerateConfirmation, Expect, AddState, SaeInv, SaeTypes, CONFIRMATION_GENERATED,
       COMMIT_BOTH, CONFIRMATION_VERIFIED, COMMIT_GENERATED, COMMIT_VERIFIED
  <2>2. CASE \E m \in confirms : VerifyConfirmation(c, m)
    BY <2>2 DEF VerifyConfirmation, Expect, AddState, SaeInv, SaeTypes, CONFIRMATION_GENERATED,
       COMMIT_BOTH, CONFIRMATION_VERIFIED, COMMIT_GENERATED, COMMIT_VERIFIED, COMMIT_UPDATE,
       COMMIT_INIT, INIT
  <2>3. CASE GetKeys(c)
    BY <2>3 DEF GetKeys, Expect, SaeInv, SaeTypes, CONFIRMATION_BOTH, CONFIRMATION_GENERATED,
       COMMIT_BOTH, CONFIRMATION_VERIFIED, COMMIT_GENERATED, COMMIT_VERIFIED
  <2> QED
    BY <2>1, <2>2, <2>3
<1>2. SaeGrows
  BY <1>1 DEF SaeGrows
<1>3. \A d \in Contexts \ {c} : Committed(d)' /\ PeerVerified(d)' /\ ConfirmsLast(d)'
  BY <1>1, <1>2, OtherSae
<1>4. Committed(c)' /\ PeerVerified(c)' /\ ConfirmsLast(c)'
  <2>1. Committed(c) /\ PeerVerified(c) /\ ConfirmsLast(c)
    BY DEF SaeInv, SaeContexts
  <2>2. Committed(c)' /\ ConfirmsLast(c)'
    BY <1>1, <2>1 DEF Committed, ConfirmsLast, Commitment
  <2>3. PeerVerified(c)'
    BY <1>1, <2>1 DEF PeerVerified, Derive, OnCurve
  <2> QED
    BY <2>2, <2>3
<1>5. ConfirmsSent'
  <2>1. \A m \in confirms' \ confirms :
          "confirmation_generated" \in state'[c] /\ m = Generated(c)'
    <3>1. CASE GenerateConfirmation(c)
      <4>1. /\ confirms' = confirms \union {Generated(c)} /\ Generated(c)' = Generated(c)
            /\ state'[c] = state[c] \union CONFIRMATION_GENERATED
        BY <3>1 DEF GenerateConfirmation, AddState, Generated, SaeInv, SaeTypes
      <4> QED
        BY <4>1 DEF CONFIRMATION_GENERATED
    <3>2. CASE (\E m \in confirms : VerifyConfirmation(c, m)) \/ GetKeys(c)
      BY <3>2 DEF VerifyConfirmation, GetKeys
    <3> QED
      BY <3>1, <3>2
  <2> QED
    BY <1>2, <2>1, SaeKept DEF ConfirmsSent
<1>6. ConfirmedBy'
  <2>1. \A d \in confirmed' \ confirmed : d = c /\ Expected(c) \in confirms
    BY DEF GenerateConfirmation, VerifyConfirmation, GetKeys
  <2>2. Expected(c)' = Expected(c)
    BY <1>1 DEF Expected, Confirmation
  <2> QED
    BY <1>1, <1>2, <2>1, <2>2, SaeKept DEF ConfirmedBy
<1> QED
  BY <1>1, <1>2, <1>3, <1>4, <1>5, <1>6, SaeKept DEF SaeInv, SaeContexts, CommitsSent

LEMMA SaeStep == ASSUME SaeInv, [Next]_vars PROVE SaeInv'
<1>1. CASE UNCHANGED vars
  <2>1. UNCHANGED <<state, password, roots, own, peer, key, confirmed, commits, confirms>>
    BY <1>1 DEF vars
  <2>2. SaeGrows /\ SaeTypes'
    BY <2>1 DEF SaeGrows, SaeInv, SaeTypes
  <2>3. SaeContexts'
    BY <2>1, <2>2, OtherSae DEF SaeContexts
  <2> QED
    BY <2>1, <2>2, <2>3, SaeKept DEF SaeInv, CommitsSent, ConfirmsSent, ConfirmedBy
<1>2. CASE Next
  BY <1>2, HuntStep, PublishStep, VerifyCommitmentStep, VerifyCommitmentFailsStep,
     ConfirmationStep DEF Next
<1> QED
  BY <1>1, <1>2

LEMMA SaeInvariance == MCSpec => []SaeInv
<1>1. MCInit => SaeInv
  BY SaeInit DEF MCInit
<1>2. SaeInv /\ [MCNext]_mcVars => SaeInv'
  <2>1. [MCNext]_mcVars => [Next]_vars
    BY DEF MCNext, mcVars
  <2> QED
    BY <2>1, SaeStep
<1> QED
  BY <1>1, <1>2, PTL DEF MCSpec

\* What a context that has verified a commitment holds.
LEMMA SaeHolds ==
  ASSUME SaeInv, NEW c \in Contexts, "commit_verified" \in state[c]
  PROVE  \E n, m :
           /\ own[c] = {Commitment(c, n, roots[c])} /\ The(own[c]) = Commitment(c, n, roots[c])
           /\ peer[c] = {m} /\ The(peer[c]) = m
           /\ m \in commits /\ OnCurve(m) /\ m.draw # <<c, n>>
           /\ key[c] = {Derive(Commitment(c, n, roots[c]), m)}
           /\ The(key[c]) = Derive(Commitment(c, n, roots[c]), m)
<1>0. \A x : The({x}) = x
  BY DEF The
<1>1. Committed(c) /\ PeerVerified(c)
  BY DEF SaeInv, SaeContexts
<1>2. PICK n : own[c] = {Commitment(c, n, roots[c])}
  BY <1>1 DEF Committed, PeerVerified
<1>3. PICK m \in commits : /\ peer[c] = {m} /\ OnCurve(m) /\ m.draw # The(own[c]).draw
                           /\ key[c] = {Derive(The(own[c]), m)}
  BY <1>1 DEF PeerVerified
<1>4. The(own[c]) = Commitment(c, n, roots[c]) /\ The(peer[c]) = m
  BY <1>0, <1>2, <1>3
<1>5. m.draw # <<c, n>>
  BY <1>3, <1>4 DEF Commitment
<1>6. key[c] = {Derive(Commitment(c, n, roots[c]), m)}
  BY <1>3, <1>4
<1>7. The(key[c]) = Derive(Commitment(c, n, roots[c]), m)
  BY <1>0, <1>6
<1> QED
  BY <1>2, <1>3, <1>4, <1>5, <1>6, <1>7

\* The confirmation that was expected is the one its sender generated: with the same key,
\* and of the same commitments crossed.  Over different elements each side's seed is its own.
LEMMA SaeAgree == SaeInv => ConfirmedAgreement
<1> SUFFICES ASSUME SaeInv, NEW c \in confirmed
             PROVE  \E d \in Contexts \ {c} :
                      /\ password[d] = password[c]
                      /\ peer[c] = own[d] /\ peer[d] = own[c] /\ key[c] = key[d]
                      /\ CONFIRMATION_GENERATED \subseteq state[d]
                      /\ \A e \in Contexts \ {d} : key[e] = key[c] => e = c
  BY DEF ConfirmedAgreement
<1>1. c \in Contexts /\ "commit_verified" \in state[c] /\ Expected(c) \in confirms
  BY DEF SaeInv, SaeTypes, ConfirmedBy
<1>2. PICK d \in Contexts : "confirmation_generated" \in state[d] /\ Expected(c) = Generated(d)
  BY <1>1 DEF SaeInv, ConfirmsSent
<1>3. CONFIRMATION_GENERATED \subseteq state[d] /\ "commit_verified" \in state[d]
  BY <1>2 DEF SaeInv, SaeContexts, ConfirmsLast
<1>4. PICK n, m :
        /\ own[c] = {Commitment(c, n, roots[c])} /\ The(own[c]) = Commitment(c, n, roots[c])
        /\ peer[c] = {m} /\ The(peer[c]) = m /\ m.draw # <<c, n>>
        /\ key[c] = {Derive(Commitment(c, n, roots[c]), m)}
        /\ The(key[c]) = Derive(Commitment(c, n, roots[c]), m)
  BY <1>1, SaeHolds
<1>5. PICK k, l :
        /\ own[d] = {Commitment(d, k, roots[d])} /\ The(own[d]) = Commitment(d, k, roots[d])
        /\ peer[d] = {l} /\ The(peer[d]) = l /\ l.draw # <<d, k>>
        /\ key[d] = {Derive(Commitment(d, k, roots[d]), l)}
        /\ The(key[d]) = Derive(Commitment(d, k, roots[d]), l)
  BY <1>3, SaeHolds
<1>6. /\ The(key[c]) = The(key[d]) /\ The(peer[c]) = The(own[d]) /\ The(own[c]) = The(peer[d])
  BY <1>2 DEF Expected, Generated, Confirmation
<1>7. peer[c] = own[d] /\ peer[d] = own[c] /\ key[c] = key[d]
  BY <1>4, <1>5, <1>6
<1>8. m = Commitment(d, k, roots[d]) /\ l = Commitment(c, n, roots[c]) /\ m.draw = <<d, k>>
  BY <1>4, <1>5, <1>6 DEF Commitment
<1>9. c # d
  <2> SUFFICES ASSUME c = d PROVE FALSE
    OBVIOUS
  <2>1. m = Commitment(c, n, roots[c])
    BY <1>4, <1>7
  <2> QED
    BY <1>4, <2>1 DEF Commitment
<1> DEFINE C == Commitment(c, n, roots[c])
           D == Commitment(d, k, roots[d])
<1>10. Derive(C, D) = Derive(D, C) /\ C.draw = <<c, n>> /\ D.draw = <<d, k>>
  BY <1>4, <1>5, <1>6, <1>8 DEF Commitment
<1>11. C.pwe = D.pwe
  <2> SUFFICES ASSUME C.pwe # D.pwe PROVE FALSE
    OBVIOUS
  <2> HIDE DEF C, D
  <2>1. (Derive(C, D)).seed = {C.draw} /\ (Derive(D, C)).seed = {D.draw}
    BY DEF Derive
  <2>2. <<c, n>> = <<d, k>>
    BY <1>10, <2>1
  <2> QED
    BY <1>9, <2>2
<1>12. password[c] = password[d]
  BY <1>11 DEF Commitment
<1>13. ASSUME NEW e \in Contexts \ {d}, key[e] = key[c] PROVE e = c
  <2>1. "commit_verified" \in state[e]
    BY <1>4, <1>13 DEF SaeInv, SaeContexts, PeerVerified
  <2>2. PICK i, x : key[e] = {Derive(Commitment(e, i, roots[e]), x)}
    BY <2>1, SaeHolds
  <2>3. Derive(Commitment(e, i, roots[e]), x) = Derive(C, D)
    BY <1>4, <1>8, <1>13, <2>2
  <2>4. {<<e, i>>, x.draw} = {<<c, n>>, <<d, k>>}
    <3>1. /\ (Derive(Commitment(e, i, roots[e]), x)).context = {<<e, i>>, x.draw}
          /\ (Derive(C, D)).context = {<<c, n>>, <<d, k>>}
      BY DEF Derive, Commitment
    <3> QED
      BY <2>3, <3>1
  <2>5. <<e, i>> = <<c, n>> \/ <<e, i>> = <<d, k>>
    BY <2>4
  <2> QED
    BY <1>13, <2>5
<1> QED
  BY <1>3, <1>7, <1>9, <1>12, <1>13

\* Commitments of one element that are crossed make one key.
LEMMA SaeConfirm == SaeInv => PartnersConfirm
<1> SUFFICES ASSUME SaeInv, NEW c \in Contexts, NEW d \in Contexts,
                    password[c] = password[d], key[c] # {}, key[d] # {},
                    (The(peer[c]).draw)[1] = d, (The(peer[d]).draw)[1] = c
             PROVE  Expected(c) = Confirmation(The(key[d]), The(own[d]), The(peer[d]))
  BY DEF PartnersConfirm
<1>1. "commit_verified" \in state[c] /\ "commit_verified" \in state[d]
  BY DEF SaeInv, SaeContexts, PeerVerified
<1>2. PICK n, m :
        /\ own[c] = {Commitment(c, n, roots[c])} /\ The(own[c]) = Commitment(c, n, roots[c])
        /\ The(peer[c]) = m /\ m \in commits /\ OnCurve(m)
        /\ The(key[c]) = Derive(Commitment(c, n, roots[c]), m)
  BY <1>1, SaeHolds
<1>3. PICK k, l :
        /\ own[d] = {Commitment(d, k, roots[d])} /\ The(own[d]) = Commitment(d, k, roots[d])
        /\ The(peer[d]) = l /\ l \in commits /\ OnCurve(l)
        /\ The(key[d]) = Derive(Commitment(d, k, roots[d]), l)
  BY <1>1, SaeHolds
<1>4. ASSUME NEW x \in commits, NEW a \in Contexts, (x.draw)[1] = a PROVE own[a] = {x}
  <2>1. PICK b \in Contexts : "commit_generated" \in state[b] /\ own[b] = {x}
    BY DEF SaeInv, CommitsSent
  <2>2. PICK i : own[b] = {Commitment(b, i, roots[b])}
    BY <2>1 DEF SaeInv, SaeContexts, Committed
  <2>3. x = Commitment(b, i, roots[b])
    BY <2>1, <2>2
  <2>4. b = a
    BY <1>4, <2>3 DEF Commitment
  <2> QED
    BY <2>1, <2>4
<1>5. own[d] = {m} /\ own[c] = {l}
  BY <1>2, <1>3, <1>4
<1>6. m = Commitment(d, k, roots[d]) /\ l = Commitment(c, n, roots[c])
  BY <1>2, <1>3, <1>5
<1>7. m.pwe = l.pwe
  <2>1. roots[d] = 1 /\ roots[c] = 1
    BY <1>2, <1>3, <1>6 DEF OnCurve, Commitment
  <2> QED
    BY <1>6, <2>1 DEF Commitment
<1>8. Derive(l, m) = Derive(m, l)
  <2>1. {l.draw, m.draw} = {m.draw, l.draw}
    OBVIOUS
  <2> QED
    BY <1>7, <2>1 DEF Derive
<1>9. The(key[c]) = The(key[d]) /\ The(peer[c]) = The(own[d]) /\ The(own[c]) = The(peer[d])
  BY <1>2, <1>3, <1>6, <1>8
<1> QED
  BY <1>9 DEF Expected

\* ccsae_verify_confirmation succeeds for the confirmation of one partner only, that has
\* the same password, the commitments crossed and the same keys.
THEOREM SaePartners == MCSpec => []ConfirmedAgreement
BY SaeInvariance, SaeAgree, PTL

-----------------------------------------------------------------------------
(* SPAKE2+.                                                                *)

SpakeTypes ==
  /\ DOMAIN skState = Sp!Parties /\ DOMAIN xy = Sp!Parties /\ DOMAIN XY = Sp!Parties
  /\ DOMAIN skDrawn = Sp!Parties /\ DOMAIN Q = Sp!Parties /\ DOMAIN Z = Sp!Parties
  /\ DOMAIN V = Sp!Parties /\ DOMAIN sk = Sp!Parties

\* The scalar is drawn once, and the share is made of it.
Made(c) ==
  \/ xy[c] = {} /\ XY[c] = {}
  \/ \E n : xy[c] = {<<c, n>>} /\ XY[c] = {Sp!Share(c, <<c, n>>)}

\* The peer's share is one that was sent, and both products are made with it.
Taken(c) ==
  IF "kex_process" \in skState[c]
  THEN \E q \in shares :
         /\ Q[c] = {q} /\ XY[c] # {}
         /\ Z[c] = {Sp!ProductZ(c, xy[c], q)} /\ V[c] = {Sp!ProductV(c, xy[c], q)}
  ELSE Q[c] = {}

\* A session key is given for the MAC of the peer.
Keyed(c) ==
  sk[c] # {} =>
    sk[c] = {Sp!SharedKey(c)} /\ "kex_process" \in skState[c] /\ Sp!ExpectedMac(c) \in macs

Flagged(c) ==
  "mac_generate" \in skState[c] =>
    Sp!MAC_GENERATE \subseteq skState[c] /\ "kex_process" \in skState[c]

SpakeContexts == \A c \in Sp!Parties : Made(c) /\ Taken(c) /\ Keyed(c) /\ Flagged(c)

\* What is on the network was sent by a context that has not changed its mind.
SharesSent == \A q \in shares : \E d \in Sp!Parties : XY[d] = {q}
MacOf(d) == Sp!Mac(Sp!SharedKey(d), d \notin Provers, Sp!The(Q[d]))
MacsSent ==
  \A m \in macs : \E d \in Sp!Parties : "mac_generate" \in skState[d] /\ m = MacOf(d)

SpakeInv == SpakeTypes /\ SpakeContexts /\ SharesSent /\ MacsSent

LEMMA SpakeThe == ASSUME NEW x PROVE Sp!The({x}) = x
BY DEF Sp!The

LEMMA SpakeInit == ASSUME Sp!Init PROVE SpakeInv
<1>1. SpakeTypes
  BY DEF Sp!Init, Sp!None, SpakeTypes
<1>2. SpakeContexts
  BY DEF Sp!Init, Sp!None, Sp!INIT, SpakeContexts, Made, Taken, Keyed, Flagged
<1>3. SharesSent /\ MacsSent
  BY DEF Sp!Init, SharesSent, MacsSent
<1> QED
  BY <1>1, <1>2, <1>3 DEF SpakeInv

\* ccspake_lazy_gen_xy_XY_ws leaves a share where there was none and keeps one where
\* there was.
LEMMA LazyEffect ==
  ASSUME SpakeInv, NEW c \in Sp!Parties, Sp!LazyGenerate(c)
  PROVE  /\ DOMAIN xy' = Sp!Parties /\ DOMAIN XY' = Sp!Parties /\ DOMAIN skDrawn' = Sp!Parties
         /\ \A d \in Sp!Parties :
              d # c \/ XY[d] # {} => xy'[d] = xy[d] /\ XY'[d] = XY[d]
         /\ \E n : xy'[c] = {<<c, n>>} /\ XY'[c] = {Sp!Share(c, <<c, n>>)}
<1>1. Made(c) /\ SpakeTypes
  BY DEF SpakeInv, SpakeContexts
<1>2. CASE xy[c] # {}
  <2>1. UNCHANGED <<skDrawn, xy, XY>>
    BY <1>2 DEF Sp!LazyGenerate
  <2> QED
    BY <1>1, <1>2, <2>1 DEF Made, SpakeTypes
<1>3. CASE xy[c] = {}
  <2>1. /\ skDrawn' = [skDrawn EXCEPT ![c] = @ + 1]
        /\ xy' = [xy EXCEPT ![c] = {<<c, skDrawn'[c]>>}]
        /\ XY' = [XY EXCEPT ![c] = {Sp!Share(c, <<c, skDrawn'[c]>>)}]
    BY <1>3 DEF Sp!LazyGenerate
  <2>2. XY[c] = {}
    BY <1>1, <1>3 DEF Made
  <2>3. /\ xy'[c] = {<<c, skDrawn'[c]>>} /\ XY'[c] = {Sp!Share(c, <<c, skDrawn'[c]>>)}
        /\ \A d \in Sp!Parties \ {c} : xy'[d] = xy[d] /\ XY'[d] = XY[d]
        /\ DOMAIN xy' = Sp!Parties /\ DOMAIN XY' = Sp!Parties /\ DOMAIN skDrawn' = Sp!Parties
    BY <1>1, <2>1 DEF SpakeTypes
  <2> QED
    BY <2>2, <2>3
<1> QED
  BY <1>2, <1>3

\* A context that has taken its peer's share keeps all that its key is made of.
Fixed(c) ==
  skPassword'[c] = skPassword[c] /\ xy'[c] = xy[c] /\ XY'[c] = XY[c] /\ Q'[c] = Q[c]
  /\ Z'[c] = Z[c] /\ V'[c] = V[c]

LEMMA FixedKey ==
  ASSUME NEW c \in Sp!Parties, Fixed(c)
  PROVE  /\ Sp!SharedKey(c)' = Sp!SharedKey(c) /\ Sp!ExpectedMac(c)' = Sp!ExpectedMac(c)
         /\ MacOf(c)' = MacOf(c)
<1>1. Sp!SharedKey(c)' = Sp!SharedKey(c)
  BY DEF Fixed, Sp!SharedKey
<1> QED
  BY <1>1 DEF Fixed, Sp!ExpectedMac, MacOf, Sp!Mac

\* Steps that only add flags and messages keep the messages' senders.
LEMMA MacsKept ==
  ASSUME SpakeInv,
         \A d \in Sp!Parties :
           "kex_process" \in skState[d] => Fixed(d) /\ skState[d] \subseteq skState'[d]
  PROVE  \A m \in macs : \E d \in Sp!Parties : "mac_generate" \in skState'[d] /\ m = MacOf(d)'
<1> SUFFICES ASSUME NEW m \in macs
             PROVE  \E d \in Sp!Parties : "mac_generate" \in skState'[d] /\ m = MacOf(d)'
  OBVIOUS
<1>1. PICK d \in Sp!Parties : "mac_generate" \in skState[d] /\ m = MacOf(d)
  BY DEF SpakeInv, MacsSent
<1>2. Fixed(d) /\ skState[d] \subseteq skState'[d]
  BY <1>1 DEF SpakeInv, SpakeContexts, Flagged
<1> QED
  BY <1>1, <1>2, FixedKey

\* Another context than the one whose step it is.
LEMMA OtherContext ==
  ASSUME SpakeInv, NEW d \in Sp!Parties, Fixed(d), skState'[d] = skState[d], sk'[d] = sk[d],
         shares \subseteq shares', macs \subseteq macs'
  PROVE  Made(d)' /\ Taken(d)' /\ Keyed(d)' /\ Flagged(d)'
<1>1. Made(d) /\ Taken(d) /\ Keyed(d) /\ Flagged(d)
  BY DEF SpakeInv, SpakeContexts
<1>2. Made(d)' /\ Flagged(d)'
  BY <1>1 DEF Fixed, Made, Flagged, Sp!Share
<1>3. Taken(d)'
  BY <1>1 DEF Fixed, Taken, Sp!ProductZ, Sp!ProductV, Sp!PeerScalar, Sp!Stray, Sp!Fits
<1>4. Keyed(d)'
  BY <1>1, FixedKey DEF Keyed
<1> QED
  BY <1>2, <1>3, <1>4

LEMMA KexGenerateStep ==
  ASSUME SpakeInv, NEW c \in Sp!Parties, Sp!KexGenerate(c)
  PROVE  SpakeInv'
<1>1. /\ skState[c] = Sp!INIT \/ skState[c] = Sp!KEX_PROCESS
      /\ skState' = [skState EXCEPT ![c] = @ \union Sp!KEX_GENERATE]
      /\ shares' = shares \union XY'[c]
      /\ UNCHANGED <<skPassword, Q, Z, V, sk, macs>>
  BY DEF Sp!KexGenerate, Sp!ExpectStates, Sp!AddState
<1>2. /\ DOMAIN xy' = Sp!Parties /\ DOMAIN XY' = Sp!Parties /\ DOMAIN skDrawn' = Sp!Parties
      /\ \A d \in Sp!Parties : d # c \/ XY[d] # {} => xy'[d] = xy[d] /\ XY'[d] = XY[d]
      /\ \E n : xy'[c] = {<<c, n>>} /\ XY'[c] = {Sp!Share(c, <<c, n>>)}
  BY LazyEffect DEF Sp!KexGenerate
<1>3. /\ \A d \in Sp!Parties \ {c} : skState'[d] = skState[d] /\ Fixed(d)
      /\ skState'[c] = skState[c] \union Sp!KEX_GENERATE
      /\ XY[c] # {} => Fixed(c)
  BY <1>1, <1>2 DEF SpakeInv, SpakeTypes, Fixed
<1>4. Made(c) /\ Taken(c) /\ Keyed(c) /\ Flagged(c) /\ SpakeTypes
  BY DEF SpakeInv, SpakeContexts
<1>5. \A d \in Sp!Parties \ {c} : Made(d)' /\ Taken(d)' /\ Keyed(d)' /\ Flagged(d)'
  BY <1>1, <1>3, OtherContext
<1>6. Made(c)' /\ Taken(c)' /\ Keyed(c)' /\ Flagged(c)'
  <2>1. Made(c)' /\ Flagged(c)'
    BY <1>1, <1>2, <1>3, <1>4
    DEF Made, Flagged, Sp!INIT, Sp!KEX_PROCESS, Sp!KEX_GENERATE, Sp!Share
  <2>2. "kex_process" \in skState'[c] <=> "kex_process" \in skState[c]
    BY <1>3 DEF Sp!KEX_GENERATE, Sp!INIT
  <2>3. CASE "kex_process" \in skState[c]
    <3>1. Fixed(c)
      BY <1>3, <1>4, <2>3 DEF Taken
    <3>2. Taken(c)'
      BY <1>1, <1>4, <2>2, <2>3, <3>1
      DEF Fixed, Taken, Sp!ProductZ, Sp!ProductV, Sp!PeerScalar, Sp!Stray, Sp!Fits
    <3>3. Keyed(c)'
      BY <1>1, <1>4, <2>2, <2>3, <3>1, FixedKey DEF Keyed
    <3> QED
      BY <2>1, <3>2, <3>3
  <2>4. CASE "kex_process" \notin skState[c]
    BY <1>1, <1>4, <2>1, <2>2, <2>4 DEF Taken, Keyed
  <2> QED
    BY <2>3, <2>4
<1>7. SpakeTypes'
  BY <1>1, <1>2, <1>4 DEF SpakeTypes
<1>8. SharesSent'
  <2> SUFFICES ASSUME NEW q \in shares' PROVE \E d \in Sp!Parties : XY'[d] = {q}
    BY DEF SharesSent
  <2>1. CASE q \in XY'[c]
    BY <1>2, <2>1
  <2>2. CASE q \in shares
    <3>1. PICK d \in Sp!Parties : XY[d] = {q}
      BY <2>2 DEF SpakeInv, SharesSent
    <3> QED
      BY <1>2, <3>1
  <2> QED
    BY <1>1, <2>1, <2>2
<1>9. MacsSent'
  <2>1. \A d \in Sp!Parties :
          "kex_process" \in skState[d] => Fixed(d) /\ skState[d] \subseteq skState'[d]
    BY <1>3, <1>4 DEF Taken
  <2> QED
    BY <1>1, <2>1, MacsKept DEF MacsSent
<1> QED
  BY <1>5, <1>6, <1>7, <1>8, <1>9 DEF SpakeInv, SpakeContexts

LEMMA KexProcessStep ==
  ASSUME SpakeInv, NEW c \in Sp!Parties, NEW q \in shares, Sp!KexProcess(c, q)
  PROVE  SpakeInv'
<1>1. /\ skState[c] = Sp!INIT \/ skState[c] = Sp!KEX_GENERATE
      /\ skState' = [skState EXCEPT ![c] = @ \union Sp!KEX_PROCESS]
      /\ Q' = [Q EXCEPT ![c] = {q}]
      /\ Z' = [Z EXCEPT ![c] = {Sp!ProductZ(c, xy'[c], q)}]
      /\ V' = [V EXCEPT ![c] = {Sp!ProductV(c, xy'[c], q)}]
      /\ UNCHANGED <<skPassword, sk, shares, macs>>
  BY DEF Sp!KexProcess, Sp!ExpectStates, Sp!AddState
<1>2. /\ DOMAIN xy' = Sp!Parties /\ DOMAIN XY' = Sp!Parties /\ DOMAIN skDrawn' = Sp!Parties
      /\ \A d \in Sp!Parties : d # c \/ XY[d] # {} => xy'[d] = xy[d] /\ XY'[d] = XY[d]
      /\ \E n : xy'[c] = {<<c, n>>} /\ XY'[c] = {Sp!Share(c, <<c, n>>)}
  BY LazyEffect DEF Sp!KexProcess
<1>3. Made(c) /\ Taken(c) /\ Keyed(c) /\ Flagged(c) /\ SpakeTypes
  BY DEF SpakeInv, SpakeContexts
<1>4. "kex_process" \notin skState[c] /\ "mac_generate" \notin skState[c] /\ sk[c] = {}
  BY <1>1, <1>3 DEF Sp!INIT, Sp!KEX_GENERATE, Keyed
<1>5. /\ \A d \in Sp!Parties \ {c} : skState'[d] = skState[d] /\ Fixed(d)
      /\ skState'[c] = skState[c] \union Sp!KEX_PROCESS
      /\ Q'[c] = {q} /\ Z'[c] = {Sp!ProductZ(c, xy'[c], q)}
      /\ V'[c] = {Sp!ProductV(c, xy'[c], q)} /\ sk'[c] = {}
  BY <1>1, <1>2, <1>3, <1>4 DEF SpakeTypes, Fixed
<1>6. \A d \in Sp!Parties \ {c} : Made(d)' /\ Taken(d)' /\ Keyed(d)' /\ Flagged(d)'
  BY <1>1, <1>5, OtherContext
<1>7. Made(c)' /\ Taken(c)' /\ Keyed(c)' /\ Flagged(c)'
  <2>1. Made(c)' /\ XY'[c] # {}
    BY <1>1, <1>2 DEF Made, Sp!Share
  <2>2. "kex_process" \in skState'[c] /\ "mac_generate" \notin skState'[c]
    BY <1>4, <1>5 DEF Sp!KEX_PROCESS, Sp!INIT
  <2>3. /\ Sp!ProductZ(c, xy[c], q)' = Sp!ProductZ(c, xy'[c], q)
        /\ Sp!ProductV(c, xy[c], q)' = Sp!ProductV(c, xy'[c], q)
    BY <1>1 DEF Sp!ProductZ, Sp!ProductV, Sp!PeerScalar, Sp!Stray, Sp!Fits
  <2>4. Taken(c)'
    BY <1>1, <1>5, <2>1, <2>2, <2>3 DEF Taken
  <2> QED
    BY <1>5, <2>1, <2>2, <2>4 DEF Keyed, Flagged
<1>8. SpakeTypes'
  BY <1>1, <1>2, <1>3 DEF SpakeTypes
<1>9. SharesSent'
  <2> SUFFICES ASSUME NEW p \in shares PROVE \E d \in Sp!Parties : XY'[d] = {p}
    BY <1>1 DEF SharesSent
  <2>1. PICK d \in Sp!Parties : XY[d] = {p}
    BY DEF SpakeInv, SharesSent
  <2> QED
    BY <1>2, <2>1
<1>10. MacsSent'
  <2>1. \A d \in Sp!Parties :
          "kex_process" \in skState[d] => Fixed(d) /\ skState[d] \subseteq skState'[d]
    BY <1>4, <1>5
  <2> QED
    BY <1>1, <2>1, MacsKept DEF MacsSent
<1> QED
  BY <1>6, <1>7, <1>8, <1>9, <1>10 DEF SpakeInv, SpakeContexts

LEMMA KexFailStep ==
  ASSUME SpakeInv, NEW c \in Sp!Parties, Sp!KexFail(c)
  PROVE  SpakeInv'
<1>1. UNCHANGED <<skState, skPassword, Q, Z, V, sk, shares, macs>>
  BY DEF Sp!KexFail
<1>2. /\ DOMAIN xy' = Sp!Parties /\ DOMAIN XY' = Sp!Parties /\ DOMAIN skDrawn' = Sp!Parties
      /\ \A d \in Sp!Parties : d # c \/ XY[d] # {} => xy'[d] = xy[d] /\ XY'[d] = XY[d]
      /\ \E n : xy'[c] = {<<c, n>>} /\ XY'[c] = {Sp!Share(c, <<c, n>>)}
  BY LazyEffect DEF Sp!KexFail
<1>3. \A d \in Sp!Parties : d # c \/ XY[d] # {} => Fixed(d)
  BY <1>1, <1>2 DEF Fixed
<1>4. Made(c) /\ Taken(c) /\ Keyed(c) /\ Flagged(c) /\ SpakeTypes
  BY DEF SpakeInv, SpakeContexts
<1>5. \A d \in Sp!Parties : d # c \/ XY[d] # {} =>
        Made(d)' /\ Taken(d)' /\ Keyed(d)' /\ Flagged(d)'
  BY <1>1, <1>3, OtherContext
<1>6. ASSUME XY[c] = {} PROVE Made(c)' /\ Taken(c)' /\ Keyed(c)' /\ Flagged(c)'
  <2>1. "kex_process" \notin skState[c]
    BY <1>4, <1>6 DEF Taken
  <2>2. Made(c)'
    BY <1>1, <1>2 DEF Made, Sp!Share
  <2> QED
    BY <1>1, <1>4, <2>1, <2>2 DEF Taken, Keyed, Flagged
<1>7. SpakeTypes'
  BY <1>1, <1>2, <1>4 DEF SpakeTypes
<1>8. SharesSent'
  <2> SUFFICES ASSUME NEW p \in shares PROVE \E d \in Sp!Parties : XY'[d] = {p}
    BY <1>1 DEF SharesSent
  <2>1. PICK d \in Sp!Parties : XY[d] = {p}
    BY DEF SpakeInv, SharesSent
  <2> QED
    BY <1>2, <2>1
<1>9. MacsSent'
  <2>1. \A d \in Sp!Parties :
          "kex_process" \in skState[d] => Fixed(d) /\ skState[d] \subseteq skState'[d]
    BY <1>1, <1>3, <1>4 DEF Taken
  <2> QED
    BY <1>1, <2>1, MacsKept DEF MacsSent
<1> QED
  BY <1>5, <1>6, <1>7, <1>8, <1>9 DEF SpakeInv, SpakeContexts

\* The two calls of key confirmation: everything but flags, MACs and session key stays.
LEMMA ConfirmStep ==
  ASSUME SpakeInv, NEW c \in Sp!Parties,
         Sp!MacCompute(c) \/ \E m \in macs : Sp!MacAccept(c, m)
  PROVE  SpakeInv'
<1>1. /\ UNCHANGED <<skPassword, xy, XY, skDrawn, Q, Z, V, shares>>
      /\ skState[c] = Sp!KEX_BOTH \/ skState[c] = Sp!MAC_VERIFY \/ skState[c] = Sp!MAC_GENERATE
  BY DEF Sp!MacCompute, Sp!MacAccept, Sp!ExpectStates
<1>2. "kex_process" \in skState[c]
  BY <1>1 DEF Sp!KEX_BOTH, Sp!MAC_VERIFY, Sp!MAC_GENERATE, Sp!KEX_GENERATE, Sp!KEX_PROCESS
<1>3. \A d \in Sp!Parties : Fixed(d)
  BY <1>1 DEF Fixed
<1>4. /\ Made(c) /\ Taken(c) /\ Keyed(c) /\ Flagged(c) /\ SpakeTypes
      /\ SharesSent /\ MacsSent
  BY DEF SpakeInv, SpakeContexts
<1>5. SharesSent'
  BY <1>1, <1>4 DEF SharesSent
<1>6. ASSUME NEW S, skState' = [skState EXCEPT ![c] = @ \union S], macs \subseteq macs',
             \A d \in Sp!Parties \ {c} : sk'[d] = sk[d],
             DOMAIN sk' = Sp!Parties, Keyed(c)', Flagged(c)'
      PROVE  /\ SpakeTypes' /\ SpakeContexts'
             /\ \A m \in macs :
                  \E d \in Sp!Parties : "mac_generate" \in skState'[d] /\ m = MacOf(d)'
  <2>1. /\ \A d \in Sp!Parties \ {c} : skState'[d] = skState[d]
        /\ skState'[c] = skState[c] \union S
    BY <1>4, <1>6 DEF SpakeTypes
  <2>2. \A d \in Sp!Parties \ {c} : Made(d)' /\ Taken(d)' /\ Keyed(d)' /\ Flagged(d)'
    BY <1>1, <1>3, <1>6, <2>1, OtherContext
  <2>3. Made(c)' /\ Taken(c)'
    BY <1>1, <1>2, <1>4, <2>1
    DEF Made, Taken, Sp!Share, Sp!ProductZ, Sp!ProductV, Sp!PeerScalar, Sp!Stray, Sp!Fits
  <2>4. SpakeContexts'
    BY <1>6, <2>2, <2>3 DEF SpakeContexts
  <2>5. SpakeTypes'
    BY <1>1, <1>4, <1>6 DEF SpakeTypes
  <2>6. \A d \in Sp!Parties : Fixed(d) /\ skState[d] \subseteq skState'[d]
    BY <1>3, <2>1
  <2> QED
    BY <2>4, <2>5, <2>6, MacsKept
<1>7. CASE Sp!MacCompute(c)
  <2>1. /\ skState' = [skState EXCEPT ![c] = @ \union Sp!MAC_GENERATE]
        /\ macs' = macs \union {MacOf(c)} /\ sk' = sk
    BY <1>7 DEF Sp!MacCompute, Sp!AddState, MacOf
  <2>2. skState'[c] = skState[c] \union Sp!MAC_GENERATE
    BY <1>4, <2>1 DEF SpakeTypes
  <2>3. Keyed(c)'
    BY <1>2, <1>3, <1>4, <2>1, <2>2, FixedKey DEF Keyed
  <2>4. Flagged(c)'
    BY <1>2, <2>2 DEF Flagged, Sp!MAC_GENERATE
  <2>5. DOMAIN sk' = Sp!Parties /\ macs \subseteq macs'
        /\ \A d \in Sp!Parties \ {c} : sk'[d] = sk[d]
    BY <1>4, <2>1 DEF SpakeTypes
  <2>6. /\ SpakeTypes' /\ SpakeContexts'
        /\ \A m \in macs : \E d \in Sp!Parties : "mac_generate" \in skState'[d] /\ m = MacOf(d)'
    BY <1>6, <2>1, <2>3, <2>4, <2>5
  <2>7. "mac_generate" \in skState'[c] /\ MacOf(c)' = MacOf(c)
    BY <1>3, <2>2, FixedKey DEF Sp!MAC_GENERATE
  <2>8. MacsSent'
    BY <2>1, <2>6, <2>7 DEF MacsSent
  <2> QED
    BY <1>5, <2>6, <2>8 DEF SpakeInv
<1>8. CASE \E m \in macs : Sp!MacAccept(c, m)
  <2>1. /\ skState' = [skState EXCEPT ![c] = @ \union Sp!MAC_VERIFY]
        /\ macs' = macs /\ sk' = [sk EXCEPT ![c] = {Sp!SharedKey(c)}]
        /\ Sp!ExpectedMac(c) \in macs
    BY <1>8 DEF Sp!MacAccept, Sp!AddState
  <2>2. skState'[c] = skState[c] \union Sp!MAC_VERIFY /\ sk'[c] = {Sp!SharedKey(c)}
    BY <1>4, <2>1 DEF SpakeTypes
  <2>3. Keyed(c)'
    BY <1>2, <1>3, <2>1, <2>2, FixedKey DEF Keyed
  <2>4. Flagged(c)'
    <3>1. "mac_generate" \in skState'[c] => "mac_generate" \in skState[c]
      BY <2>2 DEF Sp!MAC_VERIFY, Sp!KEX_BOTH, Sp!KEX_GENERATE, Sp!KEX_PROCESS, Sp!INIT
    <3> QED
      BY <1>2, <1>4, <2>2, <3>1 DEF Flagged
  <2>5. DOMAIN sk' = Sp!Parties /\ macs \subseteq macs'
        /\ \A d \in Sp!Parties \ {c} : sk'[d] = sk[d]
    BY <1>4, <2>1 DEF SpakeTypes
  <2>6. /\ SpakeTypes' /\ SpakeContexts'
        /\ \A m \in macs : \E d \in Sp!Parties : "mac_generate" \in skState'[d] /\ m = MacOf(d)'
    BY <1>6, <2>1, <2>3, <2>4, <2>5
  <2> QED
    BY <1>5, <2>1, <2>6 DEF SpakeInv, MacsSent
<1> QED
  BY <1>7, <1>8

LEMMA SpakeStep == ASSUME SpakeInv, [Sp!Next]_spake PROVE SpakeInv'
<1>1. CASE UNCHANGED spake
  <2>1. UNCHANGED <<skState, skPassword, xy, XY, skDrawn, Q, Z, V, sk, shares, macs>>
    BY <1>1 DEF spake
  <2>2. \A d \in Sp!Parties : Fixed(d)
    BY <2>1 DEF Fixed
  <2>3. \A d \in Sp!Parties : Made(d)' /\ Taken(d)' /\ Keyed(d)' /\ Flagged(d)'
    BY <2>1, <2>2, OtherContext
  <2>4. MacsSent'
    BY <2>1, <2>2, MacsKept DEF MacsSent
  <2> QED
    BY <2>1, <2>3, <2>4 DEF SpakeInv, SpakeTypes, SpakeContexts, SharesSent
<1>2. ASSUME NEW c \in Sp!Parties,
             \/ Sp!KexGenerate(c) \/ Sp!KexFail(c) \/ \E q \in shares : Sp!KexProcess(c, q)
             \/ Sp!MacCompute(c) \/ \E m \in macs : Sp!MacAccept(c, m)
      PROVE  SpakeInv'
  BY <1>2, KexGenerateStep, KexProcessStep, KexFailStep, ConfirmStep
<1>3. ASSUME NEW c \in Sp!Parties, Sp!KexRefuse(c) \/ \E m \in macs : Sp!MacRefuse(c, m)
      PROVE  UNCHANGED spake
  BY <1>3 DEF Sp!KexRefuse, Sp!MacRefuse, Sp!vars, spake
<1> QED
  BY <1>1, <1>2, <1>3 DEF Sp!Next

LEMMA SpakeInvariance == MCSpec => []SpakeInv
<1>1. MCInit => SpakeInv
  BY SpakeInit DEF MCInit
<1>2. SpakeInv /\ [MCNext]_mcVars => SpakeInv'
  <2>1. [MCNext]_mcVars => [Sp!Next]_spake
    BY DEF MCNext, mcVars
  <2> QED
    BY <2>1, SpakeStep
<1> QED
  BY <1>1, <1>2, PTL DEF MCSpec

\* The sender of the MAC a context expects is its partner: the MAC is made with the same
\* key, in which both shares stand, and of the share that the context sent.
LEMMA SpakeAgree == SpakeInv => SpakeAgreement
<1> SUFFICES ASSUME SpakeInv, NEW c \in Sp!Parties, sk[c] # {}
             PROVE  \E d \in Sp!Parties :
                      /\ Sp!Side(d) # Sp!Side(c) /\ skPassword[d] = skPassword[c]
                      /\ Q[c] = XY[d] /\ Q[d] = XY[c]
                      /\ Sp!MAC_GENERATE \subseteq skState[d]
                      /\ sk[c] = {Sp!SharedKey(d)}
                      /\ \A e \in Sp!Parties \ {d} : Q[e] # XY[c] \/ Q[c] # XY[e]
  BY DEF SpakeAgreement, Sp!Agreement
<1>1. Made(c) /\ Taken(c) /\ Keyed(c)
  BY DEF SpakeInv, SpakeContexts
<1>2. PICK d \in Sp!Parties : "mac_generate" \in skState[d] /\ Sp!ExpectedMac(c) = MacOf(d)
  BY <1>1 DEF SpakeInv, MacsSent, Keyed
<1>3. Made(d) /\ Taken(d) /\ Sp!MAC_GENERATE \subseteq skState[d] /\ "kex_process" \in skState[d]
  BY <1>2 DEF SpakeInv, SpakeContexts, Flagged
<1>4. /\ Sp!SharedKey(c) = Sp!SharedKey(d) /\ (c \in Provers) = (d \notin Provers)
      /\ Sp!The(XY[c]) = Sp!The(Q[d])
  BY <1>2 DEF Sp!ExpectedMac, MacOf, Sp!Mac
<1>5. /\ skPassword[c] = skPassword[d]
      /\ (IF c \in Provers THEN Sp!The(Q[c]) ELSE Sp!The(XY[c]))
           = (IF d \in Provers THEN Sp!The(Q[d]) ELSE Sp!The(XY[d]))
      /\ (IF c \in Provers THEN Sp!The(XY[c]) ELSE Sp!The(Q[c]))
           = (IF d \in Provers THEN Sp!The(XY[d]) ELSE Sp!The(Q[d]))
  BY <1>4 DEF Sp!SharedKey
<1>6. Sp!The(Q[c]) = Sp!The(XY[d]) /\ Sp!Side(d) # Sp!Side(c)
  BY <1>4, <1>5 DEF Sp!Side
<1>7. /\ (\E x : XY[c] = {x}) /\ (\E x : Q[c] = {x})
      /\ (\E n : XY[d] = {Sp!Share(d, <<d, n>>)}) /\ (\E x : Q[d] = {x})
  BY <1>1, <1>3 DEF Made, Taken, Keyed
<1>8. Q[c] = XY[d] /\ Q[d] = XY[c]
  <2>1. PICK x1, x2, y1, y2 : XY[c] = {x1} /\ Q[c] = {x2} /\ XY[d] = {y1} /\ Q[d] = {y2}
    BY <1>7
  <2>2. /\ Sp!The(XY[c]) = x1 /\ Sp!The(Q[c]) = x2 /\ Sp!The(XY[d]) = y1
        /\ Sp!The(Q[d]) = y2
    BY <2>1, SpakeThe
  <2>3. x1 = y2 /\ x2 = y1
    BY <1>4, <1>6, <2>2
  <2> QED
    BY <2>1, <2>3
<1>9. \A e \in Sp!Parties \ {d} : Q[c] # XY[e]
  <2> SUFFICES ASSUME NEW e \in Sp!Parties, XY[d] = XY[e] PROVE e = d
    BY <1>8
  <2>1. PICK n : XY[d] = {Sp!Share(d, <<d, n>>)}
    BY <1>7
  <2>2. PICK k : XY[e] = {Sp!Share(e, <<e, k>>)}
    BY <2>1 DEF SpakeInv, SpakeContexts, Made
  <2>3. Sp!Share(d, <<d, n>>) = Sp!Share(e, <<e, k>>)
    BY <2>1, <2>2
  <2>4. <<d, n>> = <<e, k>>
    BY <2>3 DEF Sp!Share
  <2> QED
    BY <2>4
<1> QED
  BY <1>1, <1>3, <1>4, <1>5, <1>6, <1>8, <1>9 DEF Keyed

\* ccspake_mac_verify_and_get_session_key gives a key only for the MAC of one partner, of
\* the other side, that has the same password, the shares crossed and the same key.
THEOREM SpakePartners == MCSpec => []SpakeAgreement
BY SpakeInvariance, SpakeAgree, PTL

\* Two contexts of one password whose shares are crossed compute the same products.
LEMMA SpakeConfirm == ASSUME Disjoint, SpakeInv PROVE Sp!PartnersConfirm
<1> SUFFICES ASSUME NEW p \in Provers, NEW v \in Verifiers, skPassword[p] = skPassword[v],
                    Sp!Took(p, v), Sp!Took(v, p)
             PROVE  /\ Sp!ExpectedMac(p) = Sp!Mac(Sp!SharedKey(v), TRUE, Sp!The(Q[v]))
                    /\ Sp!ExpectedMac(v) = Sp!Mac(Sp!SharedKey(p), FALSE, Sp!The(Q[p]))
  BY DEF Sp!PartnersConfirm
<1>1. p \in Sp!Parties /\ v \in Sp!Parties /\ v \notin Provers
  BY DEF Sp!Parties, Disjoint
<1>2. ASSUME NEW c \in Sp!Parties, NEW d \in Sp!Parties, Sp!Took(c, d)
      PROVE  \E n : /\ Q[c] = {Sp!Share(d, <<d, n>>)} /\ XY[d] = {Sp!Share(d, <<d, n>>)}
                    /\ xy[d] = {<<d, n>>}
                    /\ Z[c] = {Sp!ProductZ(c, xy[c], Sp!Share(d, <<d, n>>))}
                    /\ V[c] = {Sp!ProductV(c, xy[c], Sp!Share(d, <<d, n>>))}
  <2>1. PICK q \in shares :
          /\ Q[c] = {q} /\ Z[c] = {Sp!ProductZ(c, xy[c], q)} /\ V[c] = {Sp!ProductV(c, xy[c], q)}
    BY <1>2 DEF Sp!Took, SpakeInv, SpakeContexts, Taken
  <2>2. PICK e \in Sp!Parties : XY[e] = {q}
    BY DEF SpakeInv, SharesSent
  <2>3. PICK n : xy[e] = {<<e, n>>} /\ XY[e] = {Sp!Share(e, <<e, n>>)}
    BY <2>2 DEF SpakeInv, SpakeContexts, Made
  <2>4. q = Sp!Share(e, <<e, n>>) /\ (q.scalar)[1] = d
    <3>1. Sp!The(Q[c]) = q
      BY <2>1, SpakeThe
    <3> QED
      BY <1>2, <2>2, <2>3, <3>1 DEF Sp!Took
  <2>5. e = d
    BY <2>4 DEF Sp!Share
  <2> QED
    BY <2>1, <2>3, <2>4, <2>5
<1>3. PICK n : /\ Q[p] = {Sp!Share(v, <<v, n>>)} /\ XY[v] = {Sp!Share(v, <<v, n>>)}
               /\ xy[v] = {<<v, n>>}
               /\ Z[p] = {Sp!ProductZ(p, xy[p], Sp!Share(v, <<v, n>>))}
               /\ V[p] = {Sp!ProductV(p, xy[p], Sp!Share(v, <<v, n>>))}
  BY <1>1, <1>2
<1>4. PICK k : /\ Q[v] = {Sp!Share(p, <<p, k>>)} /\ XY[p] = {Sp!Share(p, <<p, k>>)}
               /\ xy[p] = {<<p, k>>}
               /\ Z[v] = {Sp!ProductZ(v, xy[v], Sp!Share(p, <<p, k>>))}
               /\ V[v] = {Sp!ProductV(v, xy[v], Sp!Share(p, <<p, k>>))}
  BY <1>1, <1>2
<1>5. Sp!Fits(p, Sp!Share(v, <<v, n>>)) /\ Sp!Fits(v, Sp!Share(p, <<p, k>>))
  BY <1>1 DEF Sp!Fits, Sp!Share, Sp!Side
<1>6. /\ Sp!PeerScalar(p, Sp!Share(v, <<v, n>>)) = {<<v, n>>}
      /\ Sp!PeerScalar(v, Sp!Share(p, <<p, k>>)) = {<<p, k>>}
      /\ Sp!Stray(p, Sp!Share(v, <<v, n>>)) = {} /\ Sp!Stray(v, Sp!Share(p, <<p, k>>)) = {}
  BY <1>5 DEF Sp!PeerScalar, Sp!Stray, Sp!Share
<1>7. Sp!ProductZ(p, xy[p], Sp!Share(v, <<v, n>>)) = Sp!ProductZ(v, xy[v], Sp!Share(p, <<p, k>>))
  <2>1. {<<p, k>>} \union {<<v, n>>} = {<<v, n>>} \union {<<p, k>>}
    OBVIOUS
  <2> QED
    BY <1>3, <1>4, <1>6, <2>1 DEF Sp!ProductZ
<1>8. Sp!ProductV(p, xy[p], Sp!Share(v, <<v, n>>)) = Sp!ProductV(v, xy[v], Sp!Share(p, <<p, k>>))
  BY <1>1, <1>3, <1>4, <1>6 DEF Sp!ProductV
<1>9. /\ Sp!The(Z[p]) = Sp!The(Z[v]) /\ Sp!The(V[p]) = Sp!The(V[v])
      /\ Sp!The(XY[p]) = Sp!The(Q[v]) /\ Sp!The(XY[v]) = Sp!The(Q[p])
  BY <1>3, <1>4, <1>7, <1>8
<1>10. Sp!SharedKey(p) = Sp!SharedKey(v)
  BY <1>1, <1>9 DEF Sp!SharedKey
<1>11. (p \in Provers) = TRUE /\ (v \in Provers) = FALSE
  BY <1>1
<1> QED
  BY <1>9, <1>10, <1>11, Zenon DEF Sp!ExpectedMac

-----------------------------------------------------------------------------
(* SRP.                                                                    *)

SrpTypes ==
  /\ DOMAIN public = Sr!Peers /\ DOMAIN private = Sr!Peers
  /\ DOMAIN session = Sr!Peers /\ DOMAIN verified = Sr!Peers

\* A public key names the context that drew it, and a server's the account in it.
ClientKey(c, A) == \E n : A = [a |-> <<c, n>>]
ServerKey(s, B) == \E n : B = [b |-> <<s, n>>, v |-> account[s]]

\* What a client can compute: the private key may be a later one than the A.
ClientSession(c, t) ==
  \E k, A, B :
    /\ A = Sr!Zero \/ ClientKey(c, A)
    /\ \E s \in Verifiers : ServerKey(s, B)
    /\ t = Sr!Session(A, B, [a |-> k, b |-> B.b, u |-> <<A, B>>, x |-> <<account[c], B.v>>],
                      account[c])

\* What a server can compute: the private key may be a later one than the B.
ServerSession(s, t) ==
  \E k, A, B :
    /\ \E c \in Provers : ClientKey(c, A)
    /\ ServerKey(s, B)
    /\ t = Sr!Session(A, B, [a |-> A.a, b |-> k, u |-> <<A, B>>, x |-> <<account[s], account[s]>>],
                      account[s])

SrpClients ==
  \A c \in Provers :
    /\ public[c] = Sr!Zero \/ ClientKey(c, public[c])
    /\ \A t \in session[c] : ClientSession(c, t)
    /\ \A t \in verified[c] : ClientSession(c, t) /\ Sr!HAMK(t) \in srpWire

SrpServers ==
  \A s \in Verifiers :
    /\ public[s] = Sr!Zero \/ ServerKey(s, public[s])
    /\ \A t \in session[s] : ServerSession(s, t)
    /\ \A t \in verified[s] : ServerSession(s, t) /\ Sr!M(t) \in srpWire

\* Who can have sent a message.
Sent(m) ==
  \/ m.type = "A" /\ \E c \in Provers : ClientKey(c, m.key)
  \/ m.type = "B" /\ \E s \in Verifiers : ServerKey(s, m.key)
  \/ \E c \in Provers : \E t : ClientSession(c, t) /\ m = Sr!M(t)
  \/ \E s \in Verifiers : \E t \in verified[s] : m = Sr!HAMK(t)

SrpInv == SrpTypes /\ SrpClients /\ SrpServers /\ \A m \in srpWire : Sent(m)

LEMMA SrpInit == ASSUME Sr!Init PROVE SrpInv
BY DEF Sr!Init, SrpInv, SrpTypes, SrpClients, SrpServers, Sr!Peers

\* What was sent stays so, whatever else is verified.
LEMMA SentKept ==
  ASSUME SrpInv, account' = account, \A s \in Verifiers : verified[s] \subseteq verified'[s]
  PROVE  \A m \in srpWire : Sent(m)'
<1> SUFFICES ASSUME NEW m \in srpWire PROVE Sent(m)'
  OBVIOUS
<1>1. Sent(m)
  BY DEF SrpInv
<1>2. /\ \A c \in Provers : \A x : ClientKey(c, x)' = ClientKey(c, x)
      /\ \A s \in Verifiers : \A x : ServerKey(s, x)' = ServerKey(s, x)
  BY DEF ClientKey, ServerKey
<1>3. \A c \in Provers : \A t : ClientSession(c, t)' = ClientSession(c, t)
  BY DEF ClientSession, ClientKey, ServerKey
<1> QED
  BY <1>1, <1>2, <1>3, Zenon DEF Sent

\* The steps that draw a key: what is sent with it is the new public key, if anything is.
LEMMA SrpDraws ==
  ASSUME Disjoint, SrpInv, NEW c \in Sr!Peers,
         Sr!ClientStart(c) \/ Sr!ServerGenerate(c) \/ Sr!KeyFail(c)
  PROVE  SrpInv'
<1>1. /\ DOMAIN private' = Sr!Peers
      /\ UNCHANGED <<account, session, verified>>
      /\ srpWire \subseteq srpWire'
  BY DEF Sr!ClientStart, Sr!ServerGenerate, Sr!KeyFail, Sr!DrawKey, SrpInv, SrpTypes
<1>2. /\ \A d \in Provers : \A x : ClientKey(d, x)' = ClientKey(d, x)
      /\ \A s \in Verifiers : \A x : ServerKey(s, x)' = ServerKey(s, x)
      /\ \A d \in Provers : \A t : ClientSession(d, t)' = ClientSession(d, t)
      /\ \A s \in Verifiers : \A t : ServerSession(s, t)' = ServerSession(s, t)
  BY <1>1 DEF ClientSession, ServerSession, ClientKey, ServerKey
<1>3. IF c \in Provers THEN ClientKey(c, Sr!PublicKey(c)) ELSE ServerKey(c, Sr!PublicKey(c))
  BY DEF Sr!PublicKey, Sr!NewKey, ClientKey, ServerKey
<1>4. /\ DOMAIN public' = Sr!Peers
      /\ \A d \in Sr!Peers :
           public'[d] = public[d] \/ (d = c /\ public'[d] = Sr!PublicKey(c))
  BY DEF Sr!ClientStart, Sr!ServerGenerate, Sr!KeyFail, SrpInv, SrpTypes
<1>5. \A m \in srpWire' \ srpWire : Sent(m)'
  <2>1. CASE Sr!ClientStart(c)
    BY <1>2, <1>3, <2>1 DEF Sr!ClientStart, Sent
  <2>2. CASE Sr!ServerGenerate(c)
    <3>1. c \in Verifiers /\ c \notin Provers
      BY <2>2 DEF Sr!ServerGenerate, Disjoint
    <3> QED
      BY <1>2, <1>3, <2>2, <3>1 DEF Sr!ServerGenerate, Sent
  <2>3. CASE Sr!KeyFail(c)
    BY <2>3 DEF Sr!KeyFail
  <2> QED
    BY <2>1, <2>2, <2>3
<1>6. \A m \in srpWire : Sent(m)'
  BY <1>1, SentKept
<1>7. SrpClients'
  <2>1. \A d \in Provers : public'[d] = Sr!Zero \/ ClientKey(d, public'[d])
    BY <1>3, <1>4 DEF SrpInv, SrpClients, Sr!Peers
  <2> QED
    BY <1>1, <1>2, <2>1 DEF SrpInv, SrpClients, Sr!HAMK, Sr!M
<1>8. SrpServers'
  <2>1. \A s \in Verifiers : public'[s] = Sr!Zero \/ ServerKey(s, public'[s])
    BY <1>3, <1>4 DEF SrpInv, SrpServers, Sr!Peers, Disjoint
  <2> QED
    BY <1>1, <1>2, <2>1 DEF SrpInv, SrpServers, Sr!M
<1> QED
  BY <1>1, <1>4, <1>5, <1>6, <1>7, <1>8 DEF SrpInv, SrpTypes

LEMMA SrpClientProcess ==
  ASSUME Disjoint, SrpInv, NEW c \in Sr!Peers, NEW m \in srpWire, m.type = "B",
         Sr!ClientProcess(c, m.key)
  PROVE  SrpInv'
<1> DEFINE B == m.key
           t == Sr!Session(public[c], B, Sr!ClientS(c, B), account[c])
<1>1. /\ c \in Provers
      /\ session' = [session EXCEPT ![c] = {t}]
      /\ srpWire' = srpWire \union {Sr!M(s) : s \in session'[c]}
      /\ UNCHANGED <<account, private, public, verified>>
  BY DEF Sr!ClientProcess
<1>2. /\ \A d \in Provers : \A x : ClientKey(d, x)' = ClientKey(d, x)
      /\ \A s \in Verifiers : \A x : ServerKey(s, x)' = ServerKey(s, x)
      /\ \A d \in Provers : \A x : ClientSession(d, x)' = ClientSession(d, x)
      /\ \A s \in Verifiers : \A x : ServerSession(s, x)' = ServerSession(s, x)
  BY <1>1 DEF ClientSession, ServerSession, ClientKey, ServerKey
<1>3. \E s \in Verifiers : ServerKey(s, B)
  <2>1. Sent(m)
    BY DEF SrpInv
  <2> QED
    BY <2>1 DEF Sent, Sr!M, Sr!HAMK
<1>4. ClientSession(c, t)
  <2>1. public[c] = Sr!Zero \/ ClientKey(c, public[c])
    BY <1>1 DEF SrpInv, SrpClients
  <2> QED
    BY <1>3, <2>1 DEF ClientSession, Sr!ClientS
<1>5. /\ session'[c] = {t} /\ \A d \in Sr!Peers \ {c} : session'[d] = session[d]
      /\ DOMAIN session' = Sr!Peers
  BY <1>1 DEF SrpInv, SrpTypes
<1>6. \A x \in srpWire' : Sent(x)'
  <2>1. \A x \in srpWire : Sent(x)'
    BY <1>1, SentKept
  <2>2. \A x : x = Sr!M(t) => Sent(x)'
    BY <1>1, <1>2, <1>4, Zenon DEF Sent
  <2> QED
    BY <1>1, <1>5, <2>1, <2>2
<1>7. SrpClients'
  BY <1>1, <1>2, <1>4, <1>5 DEF SrpInv, SrpClients, Sr!Peers, Sr!HAMK, Sr!M
<1>8. SrpServers'
  BY <1>1, <1>2, <1>5 DEF SrpInv, SrpServers, Sr!Peers, Sr!M, Disjoint
<1> QED
  BY <1>1, <1>5, <1>6, <1>7, <1>8 DEF SrpInv, SrpTypes

LEMMA SrpServerCompute ==
  ASSUME Disjoint, SrpInv, NEW c \in Sr!Peers, NEW m \in srpWire, m.type = "A",
         Sr!ServerCompute(c, m.key)
  PROVE  SrpInv'
<1> DEFINE A == m.key
           t == Sr!Session(A, public[c], Sr!ServerS(c, A), account[c])
<1>1. /\ c \in Verifiers /\ public[c] # Sr!Zero
      /\ session' = [session EXCEPT ![c] = {t}]
      /\ UNCHANGED <<account, private, public, verified, srpWire>>
  BY DEF Sr!ServerCompute
<1>2. /\ \A d \in Provers : \A x : ClientKey(d, x)' = ClientKey(d, x)
      /\ \A s \in Verifiers : \A x : ServerKey(s, x)' = ServerKey(s, x)
      /\ \A d \in Provers : \A x : ClientSession(d, x)' = ClientSession(d, x)
      /\ \A s \in Verifiers : \A x : ServerSession(s, x)' = ServerSession(s, x)
  BY <1>1 DEF ClientSession, ServerSession, ClientKey, ServerKey
<1>3. \E d \in Provers : ClientKey(d, A)
  <2>1. Sent(m)
    BY DEF SrpInv
  <2> QED
    BY <2>1 DEF Sent, Sr!M, Sr!HAMK
<1>4. ServerSession(c, t)
  <2>1. ServerKey(c, public[c])
    BY <1>1 DEF SrpInv, SrpServers
  <2> QED
    BY <1>3, <2>1 DEF ServerSession, Sr!ServerS
<1>5. /\ session'[c] = {t} /\ \A d \in Sr!Peers \ {c} : session'[d] = session[d]
      /\ DOMAIN session' = Sr!Peers
  BY <1>1 DEF SrpInv, SrpTypes
<1>6. \A x \in srpWire' : Sent(x)'
  BY <1>1, SentKept
<1>7. SrpClients'
  BY <1>1, <1>2, <1>5 DEF SrpInv, SrpClients, Sr!Peers, Sr!HAMK, Sr!M, Disjoint
<1>8. SrpServers'
  BY <1>1, <1>2, <1>4, <1>5 DEF SrpInv, SrpServers, Sr!Peers, Sr!M
<1> QED
  BY <1>1, <1>5, <1>6, <1>7, <1>8 DEF SrpInv, SrpTypes

\* The steps that verify: what is added to verified[c] is a session the message fits.
LEMMA SrpVerifies ==
  ASSUME Disjoint, SrpInv, NEW c \in Sr!Peers, NEW m \in srpWire,
         Sr!ServerVerify(c, m) \/ Sr!ClientVerify(c, m)
  PROVE  SrpInv'
<1>1. PICK fits : 
        /\ fits \subseteq session[c]
        /\ verified' = [verified EXCEPT ![c] = @ \union fits]
        /\ UNCHANGED <<account, private, public, session>>
        /\ \/ c \in Verifiers /\ \A t \in fits : Sr!M(t) = m
           \/ c \in Provers /\ \A t \in fits : Sr!HAMK(t) = m
        /\ \/ srpWire' = srpWire
           \/ c \in Verifiers
              /\ \E new \in SUBSET verified'[c] : srpWire' = srpWire \union {Sr!HAMK(t) : t \in new}
  <2>1. CASE Sr!ServerVerify(c, m)
    <3>1. Sr!Verdict(c, {t \in session[c] : Sr!M(t) = m})
      BY <2>1 DEF Sr!ServerVerify
    <3>2. verified'[c] \intersect {t \in session[c] : Sr!M(t) = m} \in SUBSET verified'[c]
      OBVIOUS
    <3>3. c \in Verifiers /\ srpWire' = srpWire \union
             {Sr!HAMK(t) : t \in verified'[c] \intersect {t \in session[c] : Sr!M(t) = m}}
      BY <2>1 DEF Sr!ServerVerify
    <3> DEFINE fits == {t \in session[c] : Sr!M(t) = m}
    <3>4. /\ verified' = [verified EXCEPT ![c] = @ \union fits]
          /\ UNCHANGED <<account, private, public, session>>
      BY <3>1 DEF Sr!Verdict
    <3>5. fits \subseteq session[c] /\ \A t \in fits : Sr!M(t) = m
      OBVIOUS
    <3> HIDE DEF fits
    <3>6. \E new \in SUBSET verified'[c] : srpWire' = srpWire \union {Sr!HAMK(t) : t \in new}
      BY <3>2, <3>3
    <3> QED
      BY <3>3, <3>4, <3>5, <3>6, Zenon
  <2>2. CASE Sr!ClientVerify(c, m)
    <3>1. Sr!Verdict(c, {t \in session[c] : Sr!HAMK(t) = m}) /\ c \in Provers /\ srpWire' = srpWire
      BY <2>2 DEF Sr!ClientVerify
    <3> DEFINE fits == {t \in session[c] : Sr!HAMK(t) = m}
    <3>4. /\ verified' = [verified EXCEPT ![c] = @ \union fits]
          /\ UNCHANGED <<account, private, public, session>>
      BY <3>1 DEF Sr!Verdict
    <3>5. fits \subseteq session[c] /\ \A t \in fits : Sr!HAMK(t) = m
      OBVIOUS
    <3> HIDE DEF fits
    <3> QED
      BY <3>1, <3>4, <3>5, Zenon
  <2> QED
    BY <2>1, <2>2
<1>2. /\ \A d \in Provers : \A x : ClientKey(d, x)' = ClientKey(d, x)
      /\ \A s \in Verifiers : \A x : ServerKey(s, x)' = ServerKey(s, x)
      /\ \A d \in Provers : \A x : ClientSession(d, x)' = ClientSession(d, x)
      /\ \A s \in Verifiers : \A x : ServerSession(s, x)' = ServerSession(s, x)
  BY <1>1 DEF ClientSession, ServerSession, ClientKey, ServerKey
<1>3. /\ verified'[c] = verified[c] \union fits
      /\ \A d \in Sr!Peers \ {c} : verified'[d] = verified[d]
      /\ DOMAIN verified' = Sr!Peers
      /\ srpWire \subseteq srpWire'
  BY <1>1 DEF SrpInv, SrpTypes
<1>4. \A x \in srpWire' : Sent(x)'
  <2>1. \A x \in srpWire : Sent(x)'
    <3>1. \A s \in Verifiers : verified[s] \subseteq verified'[s]
      BY <1>3 DEF Sr!Peers
    <3> QED
      BY <1>1, <3>1, SentKept
  <2>2. \A x \in srpWire' \ srpWire : c \in Verifiers /\ \E t \in verified'[c] : x = Sr!HAMK(t)
    BY <1>1, Zenon
  <2>3. \A x \in srpWire' \ srpWire : Sent(x)'
    BY <2>2 DEF Sent, Sr!HAMK, Sr!M
  <2> QED
    BY <2>1, <2>3
<1>5. SrpClients'
  <2> SUFFICES ASSUME NEW d \in Provers, NEW t \in verified'[d]
               PROVE  ClientSession(d, t)' /\ Sr!HAMK(t) \in srpWire'
    BY <1>1, <1>2 DEF SrpInv, SrpClients, Sr!HAMK, Sr!M
  <2>1. CASE t \in verified[d]
    BY <1>2, <1>3, <2>1 DEF SrpInv, SrpClients
  <2>2. CASE d = c /\ t \in fits
    <3>1. Sr!HAMK(t) = m /\ t \in session[d]
      BY <1>1, <2>2 DEF Disjoint
    <3> QED
      BY <1>2, <1>3, <3>1 DEF SrpInv, SrpClients
  <2> QED
    BY <1>3, <2>1, <2>2 DEF Sr!Peers
<1>6. SrpServers'
  <2> SUFFICES ASSUME NEW d \in Verifiers, NEW t \in verified'[d]
               PROVE  ServerSession(d, t)' /\ Sr!M(t) \in srpWire'
    BY <1>1, <1>2 DEF SrpInv, SrpServers, Sr!M
  <2>1. CASE t \in verified[d]
    BY <1>2, <1>3, <2>1 DEF SrpInv, SrpServers
  <2>2. CASE d = c /\ t \in fits
    <3>1. Sr!M(t) = m /\ t \in session[d]
      BY <1>1, <2>2 DEF Disjoint
    <3> QED
      BY <1>2, <1>3, <3>1 DEF SrpInv, SrpServers
  <2> QED
    BY <1>3, <2>1, <2>2 DEF Sr!Peers
<1> QED
  BY <1>1, <1>3, <1>4, <1>5, <1>6 DEF SrpInv, SrpTypes

LEMMA SrpStep == ASSUME Disjoint, SrpInv, [Sr!Next]_srp PROVE SrpInv'
<1>1. CASE UNCHANGED srp
  <2>1. UNCHANGED <<account, private, public, session, verified, srpWire>>
    BY <1>1 DEF srp
  <2>2. /\ \A d \in Provers : \A x : ClientKey(d, x)' = ClientKey(d, x)
        /\ \A s \in Verifiers : \A x : ServerKey(s, x)' = ServerKey(s, x)
        /\ \A d \in Provers : \A x : ClientSession(d, x)' = ClientSession(d, x)
        /\ \A s \in Verifiers : \A x : ServerSession(s, x)' = ServerSession(s, x)
    BY <2>1 DEF ClientSession, ServerSession, ClientKey, ServerKey
  <2>3. \A m \in srpWire' : Sent(m)'
    BY <2>1, SentKept
  <2>4. SrpClients' /\ SrpServers'
    BY <2>1, <2>2 DEF SrpInv, SrpClients, SrpServers, Sr!M, Sr!HAMK
  <2> QED
    BY <2>1, <2>3, <2>4 DEF SrpInv, SrpTypes
<1>2. CASE Sr!Next
  BY <1>2, SrpDraws, SrpClientProcess, SrpServerCompute, SrpVerifies DEF Sr!Next
<1> QED
  BY <1>1, <1>2

LEMMA SrpInvariance == ASSUME Disjoint PROVE MCSpec => []SrpInv
<1>1. MCInit => SrpInv
  BY SrpInit DEF MCInit
<1>2. SrpInv /\ [MCNext]_mcVars => SrpInv'
  <2>1. [MCNext]_mcVars => [Sr!Next]_srp
    BY DEF MCNext, mcVars
  <2> QED
    BY <2>1, SrpStep
<1> QED
  BY <1>1, <1>2, PTL DEF MCSpec

\* Every M on the wire is a client's.
LEMMA SrpAgree == SrpInv => SrpAgreement
<1> SUFFICES ASSUME SrpInv PROVE SrpAgreement
  OBVIOUS
<1>1. ASSUME NEW s \in Verifiers, NEW t \in verified[s]
      PROVE  \E c \in Provers :
               /\ account[c] = account[s] /\ (t.A.a)[1] = c /\ Sr!M(t) \in srpWire
               /\ t.K = [a |-> t.A.a, b |-> t.B.b, u |-> <<t.A, t.B>>,
                         x |-> <<account[c], account[c]>>]
  <2>1. ServerSession(s, t) /\ Sr!M(t) \in srpWire /\ Sent(Sr!M(t))
    BY DEF SrpInv, SrpServers
  <2>0. PICK c \in Provers : \E r : ClientSession(c, r) /\ Sr!M(t) = Sr!M(r)
    BY <2>1 DEF Sent, Sr!M, Sr!HAMK
  <2>2. PICK r : ClientSession(c, r) /\ Sr!M(t) = Sr!M(r)
    BY <2>0
  <2>3. t.A = r.A /\ t.B = r.B /\ t.K = r.K /\ t.user = r.user
    BY <2>2 DEF Sr!M
  <2>4. PICK k, A, B :
          /\ A = Sr!Zero \/ ClientKey(c, A)
          /\ r = Sr!Session(A, B, [a |-> k, b |-> B.b, u |-> <<A, B>>,
                                   x |-> <<account[c], B.v>>], account[c])
    BY <2>2 DEF ClientSession
  <2>5. PICK h, X, Y :
          /\ \E d \in Provers : ClientKey(d, X)
          /\ t = Sr!Session(X, Y, [a |-> X.a, b |-> h, u |-> <<X, Y>>,
                                   x |-> <<account[s], account[s]>>], account[s])
    BY <2>1 DEF ServerSession
  <2>6. /\ t.A = X /\ t.B = Y /\ t.user = account[s]
        /\ t.K = [a |-> X.a, b |-> h, u |-> <<X, Y>>, x |-> <<account[s], account[s]>>]
    BY <2>5 DEF Sr!Session
  <2>7. /\ r.A = A /\ r.B = B /\ r.user = account[c]
        /\ r.K = [a |-> k, b |-> B.b, u |-> <<A, B>>, x |-> <<account[c], B.v>>]
    BY <2>4 DEF Sr!Session
  <2>8. h = B.b
    <3>1. (t.K).b = h /\ (r.K).b = B.b
      BY <2>6, <2>7
    <3> QED
      BY <2>3, <3>1
  <2>9. X # Sr!Zero
    BY <2>5 DEF ClientKey, Sr!Zero
  <2>10. (t.A.a)[1] = c
    BY <2>3, <2>4, <2>6, <2>7, <2>9 DEF ClientKey
  <2>11. account[c] = account[s]
    BY <2>3, <2>6, <2>7
  <2> QED
    BY <2>1, <2>3, <2>6, <2>7, <2>8, <2>10, <2>11
<1>2. ASSUME NEW c \in Provers, NEW t \in verified[c]
      PROVE  \E s \in Verifiers : (t.B.b)[1] = s /\ t \in verified[s]
  <2>1. ClientSession(c, t) /\ Sent(Sr!HAMK(t))
    BY DEF SrpInv, SrpClients
  <2>20. PICK s \in Verifiers : \E r \in verified[s] : Sr!HAMK(t) = Sr!HAMK(r)
    BY <2>1 DEF Sent, Sr!M, Sr!HAMK
  <2>2. PICK r \in verified[s] : Sr!HAMK(t) = Sr!HAMK(r)
    BY <2>20
  <2>3. ServerSession(s, r)
    BY DEF SrpInv, SrpServers
  <2>4. Sr!M(t) = Sr!M(r)
    BY <2>2 DEF Sr!HAMK
  <2>5. t.A = r.A /\ t.B = r.B /\ t.K = r.K /\ t.user = r.user
    BY <2>4 DEF Sr!M
  <2>6. \E A, B, K, u : t = [A |-> A, B |-> B, K |-> K, user |-> u]
    BY <2>1 DEF ClientSession, Sr!Session
  <2>7. \E A, B, K, u : r = [A |-> A, B |-> B, K |-> K, user |-> u]
    BY <2>3 DEF ServerSession, Sr!Session
  <2>8. t = r
    BY <2>5, <2>6, <2>7
  <2>9. (r.B.b)[1] = s
    BY <2>3 DEF ServerSession, Sr!Session, ServerKey
  <2> QED
    BY <2>2, <2>8, <2>9
<1> QED
  BY <1>1, <1>2 DEF SrpAgreement, Sr!Agreement

\* ccsrp_server_verify_session accepts the M of a client of its account only, and
\* ccsrp_client_verify_session the HAMK of the server that had verified that session.
THEOREM SrpPartners == ASSUME Disjoint PROVE MCSpec => []SrpAgreement
BY SrpInvariance, SrpAgree, PTL

\* Sessions of one A and B are one session where each is of the keys drawn with its
\* public key, and have different secrets where one is not.
LEMMA SrpConfirm == ASSUME SrpInv PROVE Sr!PartnersConfirm
<1> SUFFICES ASSUME NEW c \in Provers, NEW s \in Verifiers, NEW t \in session[c],
                    NEW r \in session[s], account[c] = account[s], t.A = r.A, t.B = r.B
             PROVE  /\ Sr!Consistent(t, r) => t = r
                    /\ Sr!M(t) = Sr!M(r) => Sr!Consistent(t, r)
                    /\ Sr!HAMK(t) = Sr!HAMK(r) => Sr!M(t) = Sr!M(r)
  BY DEF Sr!PartnersConfirm
<1>1. ClientSession(c, t) /\ ServerSession(s, r)
  BY DEF SrpInv, SrpClients, SrpServers
<1>2. PICK k, A, B :
        t = Sr!Session(A, B, [a |-> k, b |-> B.b, u |-> <<A, B>>, x |-> <<account[c], B.v>>],
                       account[c])
  BY <1>1 DEF ClientSession
<1>3. PICK h, X, Y :
        /\ ServerKey(s, Y)
        /\ r = Sr!Session(X, Y, [a |-> X.a, b |-> h, u |-> <<X, Y>>,
                                 x |-> <<account[s], account[s]>>], account[s])
  BY <1>1 DEF ServerSession
<1>4. /\ t.A = A /\ t.B = B
      /\ t.K = [a |-> k, b |-> B.b, u |-> <<A, B>>, x |-> <<account[c], B.v>>]
  BY <1>2 DEF Sr!Session
<1>5. /\ r.A = X /\ r.B = Y
      /\ r.K = [a |-> X.a, b |-> h, u |-> <<X, Y>>, x |-> <<account[s], account[s]>>]
  BY <1>3 DEF Sr!Session
<1>6. A = X /\ B = Y /\ B.v = account[s]
  <2>1. Y.v = account[s]
    BY <1>3 DEF ServerKey
  <2> QED
    BY <1>4, <1>5, <2>1
<1>7. (t.K).a = k /\ (t.K).b = B.b /\ (r.K).a = X.a /\ (r.K).b = h
  BY <1>4, <1>5
<1>8. Sr!Consistent(t, r) <=> k = A.a /\ h = B.b
  BY <1>4, <1>5, <1>6, <1>7 DEF Sr!Consistent
<1>9. Sr!Consistent(t, r) => t = r
  BY <1>2, <1>3, <1>6, <1>8
<1>10. ASSUME Sr!M(t) = Sr!M(r) PROVE Sr!Consistent(t, r)
  <2>1. t.K = r.K
    BY <1>10 DEF Sr!M
  <2> QED
    BY <1>6, <1>7, <1>8, <2>1
<1>11. Sr!HAMK(t) = Sr!HAMK(r) => Sr!M(t) = Sr!M(r)
  BY DEF Sr!HAMK
<1> QED
  BY <1>9, <1>10, <1>11

-----------------------------------------------------------------------------
(* CKG.                                                                    *)

CkgTypes ==
  /\ scalars \in Nat
  /\ DOMAIN ckgState = Ck!Members /\ DOMAIN ckgS = Ck!Members /\ DOMAIN ckgR = Ck!Members
  /\ DOMAIN ckgKey = Ck!Members /\ DOMAIN commitment = Verifiers

\* A context past its first message has the one scalar, and the nonce drawn with it, for good.
Settled(c, n) ==
  /\ ckgState[c] # "INIT"
  /\ ckgS[c] = {<<c, n>>} /\ ckgR[c] = {<<c, n>>} /\ n \in 1 .. scalars

CkgMembers ==
  \A c \in Ck!Members :
    /\ ckgState[c] # "INIT" => \E n : Settled(c, n)
    /\ ckgState[c] # "FINISH" => ckgKey[c] = {}

\* An owner's commitment was sent before the owner's scalar was drawn.
CommittedFirst(o) ==
  \/ commitment[o] = {}
  \/ \E c \in Provers : \E n :
       /\ commitment[o] = {Ck!Commitment(<<c, n>>, <<c, n>>)}
       /\ Settled(c, n) /\ \A k : Settled(o, k) => n < k

OwnerKey(o) ==
  ckgKey[o] # {} =>
    \E c \in Provers : \E n, k :
      /\ ckgKey[o] = {Ck!Key(<<c, n>>, <<o, k>>, <<c, n>>, <<o, k>>)}
      /\ Settled(c, n) /\ ckgState[c] = "FINISH" /\ Settled(o, k) /\ n < k

ContributorKey(c) ==
  ckgKey[c] # {} =>
    \E o \in Verifiers : \E n, k :
      /\ ckgKey[c] = {Ck!Key(<<o, k>>, <<c, n>>, <<c, n>>, <<o, k>>)}
      /\ Settled(c, n) /\ Settled(o, k)

CkgSent(m) ==
  \/ \E c \in Provers : \E n : Settled(c, n) /\ m = Ck!Commitment(<<c, n>>, <<c, n>>)
  \/ \E o \in Verifiers : \E k : Settled(o, k) /\ m = Ck!Share(<<o, k>>, <<o, k>>)
  \/ \E c \in Provers : \E n :
       /\ Settled(c, n) /\ ckgState[c] = "FINISH"
       /\ m = Ck!Opening(<<c, n>>, <<c, n>>)

CkgInv ==
  /\ CkgTypes /\ CkgMembers
  /\ \A o \in Verifiers : CommittedFirst(o) /\ OwnerKey(o)
  /\ \A c \in Provers : ContributorKey(c)
  /\ \A m \in ckgWire : CkgSent(m)

LEMMA CkgInit == ASSUME Ck!Init PROVE CkgInv
BY DEF Ck!Init, CkgInv, CkgTypes, CkgMembers, CommittedFirst, OwnerKey, ContributorKey,
       Ck!Members

\* What no step takes back.
CkgGrows ==
  /\ scalars' \in Nat /\ scalars <= scalars'
  /\ \A c \in Ck!Members : ckgState[c] # "INIT" =>
       /\ ckgS'[c] = ckgS[c] /\ ckgR'[c] = ckgR[c] /\ ckgState'[c] # "INIT"
       /\ ckgState[c] = "FINISH" => ckgState'[c] = "FINISH"

LEMMA CkgKept ==
  ASSUME CkgInv, CkgGrows
  PROVE  /\ \A c \in Ck!Members : \A n : Settled(c, n) => Settled(c, n)'
         /\ \A c \in Ck!Members : \A n : ckgState[c] # "INIT" /\ Settled(c, n)' => Settled(c, n)
         /\ \A m \in ckgWire : CkgSent(m)'
<1>1. \A c \in Ck!Members : \A n : Settled(c, n) => Settled(c, n)'
  BY DEF CkgInv, CkgTypes, CkgGrows, Settled
<1>2. \A c \in Ck!Members : \A n : ckgState[c] # "INIT" /\ Settled(c, n)' => Settled(c, n)
  <2> SUFFICES ASSUME NEW c \in Ck!Members, NEW n, ckgState[c] # "INIT", Settled(c, n)'
               PROVE  Settled(c, n)
    OBVIOUS
  <2>1. PICK k : Settled(c, k)
    BY DEF CkgInv, CkgMembers
  <2>2. {<<c, n>>} = {<<c, k>>}
    BY <2>1 DEF CkgGrows, Settled
  <2>3. n = k
    <3>1. <<c, n>> = <<c, k>>
      BY <2>2
    <3> QED
      BY <3>1
  <2> QED
    BY <2>1, <2>3
<1>3. ASSUME NEW m \in ckgWire PROVE CkgSent(m)'
  <2>1. CkgSent(m)
    BY DEF CkgInv
  <2>2. \A c \in Provers : c \in Ck!Members
    BY DEF Ck!Members
  <2>3. \A c \in Verifiers : c \in Ck!Members
    BY DEF Ck!Members
  <2>4. \A c \in Provers : \A n :
          Settled(c, n) /\ ckgState[c] = "FINISH" => Settled(c, n)' /\ ckgState'[c] = "FINISH"
    BY <1>1, <2>2 DEF CkgGrows, Settled
  <2> QED
    BY <1>1, <2>1, <2>2, <2>3, <2>4 DEF CkgSent
<1> QED
  BY <1>1, <1>2, <1>3

\* A context whose step it is not, as an owner and as a contributor.
LEMMA OwnerKept ==
  ASSUME CkgInv, CkgGrows, NEW o \in Verifiers, commitment'[o] = commitment[o],
         ckgKey'[o] = ckgKey[o], ckgState'[o] # "INIT" => ckgState[o] # "INIT"
  PROVE  CommittedFirst(o)' /\ OwnerKey(o)'
<1>1. o \in Ck!Members /\ \A c \in Provers : c \in Ck!Members
  BY DEF Ck!Members
<1>2. \A n : Settled(o, n)' => Settled(o, n)
  <2> SUFFICES ASSUME NEW n, Settled(o, n)' PROVE Settled(o, n)
    OBVIOUS
  <2>1. ckgState[o] # "INIT"
    BY DEF Settled
  <2> QED
    BY <1>1, <2>1, CkgKept
<1>3. CommittedFirst(o)'
  <2>1. CommittedFirst(o)
    BY DEF CkgInv
  <2> QED
    BY <1>1, <1>2, <2>1, CkgKept DEF CommittedFirst, Ck!Commitment
<1>4. OwnerKey(o)'
  <2> SUFFICES ASSUME ckgKey[o] # {}
               PROVE  \E c \in Provers : \E n, k :
                        /\ ckgKey[o] = {Ck!Key(<<c, n>>, <<o, k>>, <<c, n>>, <<o, k>>)}
                        /\ Settled(c, n)' /\ ckgState'[c] = "FINISH" /\ Settled(o, k)' /\ n < k
    BY DEF OwnerKey
  <2>1. PICK c \in Provers : \E n, k :
          /\ ckgKey[o] = {Ck!Key(<<c, n>>, <<o, k>>, <<c, n>>, <<o, k>>)}
          /\ Settled(c, n) /\ ckgState[c] = "FINISH" /\ Settled(o, k) /\ n < k
    BY DEF CkgInv, OwnerKey
  <2>2. ckgState'[c] = "FINISH"
    BY <1>1, <2>1 DEF CkgGrows
  <2> QED
    BY <1>1, <2>1, <2>2, CkgKept
<1> QED
  BY <1>3, <1>4

LEMMA ContributorKept ==
  ASSUME CkgInv, CkgGrows, NEW c \in Provers, ckgKey'[c] = ckgKey[c]
  PROVE  ContributorKey(c)'
<1>1. c \in Ck!Members /\ \A o \in Verifiers : o \in Ck!Members
  BY DEF Ck!Members
<1>2. ContributorKey(c)
  BY DEF CkgInv
<1> QED
  BY <1>1, <1>2, CkgKept DEF ContributorKey, Ck!Key

LEMMA MembersKept ==
  ASSUME CkgInv, CkgGrows, NEW d \in Ck!Members, ckgKey'[d] = ckgKey[d],
         ckgState'[d] = ckgState[d]
  PROVE  /\ ckgState'[d] # "INIT" => \E n : Settled(d, n)'
         /\ ckgState'[d] # "FINISH" => ckgKey'[d] = {}
BY CkgKept DEF CkgInv, CkgMembers

LEMMA CommitStep ==
  ASSUME Disjoint, CkgInv, NEW c \in Provers, Ck!Commit(c)
  PROVE  CkgInv'
<1>0. PICK n : n = scalars + 1
  OBVIOUS
<1>1. /\ c \in Ck!Members /\ c \notin Verifiers /\ ckgState[c] = "INIT"
      /\ scalars' = n /\ ckgS'[c] = {<<c, n>>} /\ ckgR'[c] = {<<c, n>>}
      /\ \A d \in Ck!Members \ {c} :
           ckgS'[d] = ckgS[d] /\ ckgR'[d] = ckgR[d] /\ ckgState'[d] = ckgState[d]
      /\ ckgState'[c] = "COMMIT"
      /\ UNCHANGED <<commitment, ckgKey>>
      /\ scalars \in Nat /\ CkgTypes'
  BY <1>0 DEF Ck!Commit, Ck!DrawBoth, Ck!DrawScalar, Ck!Fresh, Ck!SetState, CkgInv, CkgTypes,
         Ck!Members, Disjoint
<1>2. ckgWire' = ckgWire \union {Ck!Commitment(<<c, n>>, <<c, n>>)}
  <2>1. ckgWire' = ckgWire \union {Ck!Commitment(x, x) : x \in ckgS'[c]}
    BY DEF Ck!Commit
  <2> QED
    BY <1>1, <2>1
<1>3. CkgGrows
  BY <1>0, <1>1 DEF CkgGrows
<1>4. Settled(c, n)'
  BY <1>0, <1>1 DEF Settled
<1>5. \A m \in ckgWire' : CkgSent(m)'
  BY <1>2, <1>3, <1>4, CkgKept DEF CkgSent
<1>6. CkgMembers'
  <2>1. ckgKey[c] = {}
    BY <1>1 DEF CkgInv, CkgMembers
  <2>2. \A d \in Ck!Members \ {c} :
          /\ ckgState'[d] # "INIT" => \E k : Settled(d, k)'
          /\ ckgState'[d] # "FINISH" => ckgKey'[d] = {}
    BY <1>1, <1>3, MembersKept
  <2> QED
    BY <1>1, <1>4, <2>1, <2>2 DEF CkgMembers
<1>7. \A o \in Verifiers : CommittedFirst(o)' /\ OwnerKey(o)'
  BY <1>1, <1>3, OwnerKept DEF Ck!Members
<1>8. \A d \in Provers : ContributorKey(d)'
  BY <1>1, <1>3, ContributorKept
<1> QED
  BY <1>1, <1>5, <1>6, <1>7, <1>8 DEF CkgInv

LEMMA CommitFailStep ==
  ASSUME CkgInv, NEW c \in Provers, Ck!CommitFail(c)
  PROVE  CkgInv'
<1>1. /\ c \in Ck!Members /\ ckgState[c] = "INIT"
      /\ scalars' = scalars + 1
      /\ \A d \in Ck!Members \ {c} : ckgS'[d] = ckgS[d]
      /\ UNCHANGED <<ckgState, ckgR, commitment, ckgKey, ckgWire>>
      /\ scalars \in Nat /\ CkgTypes'
  BY DEF Ck!CommitFail, Ck!DrawScalar, CkgInv, CkgTypes, Ck!Members
<1>2. CkgGrows
  BY <1>1 DEF CkgGrows
<1>3. CkgMembers'
  BY <1>1, <1>2, MembersKept DEF CkgMembers
<1>4. \A o \in Verifiers : CommittedFirst(o)' /\ OwnerKey(o)'
  BY <1>1, <1>2, OwnerKept
<1>5. \A d \in Provers : ContributorKey(d)'
  BY <1>1, <1>2, ContributorKept
<1>6. \A m \in ckgWire' : CkgSent(m)'
  BY <1>1, <1>2, CkgKept
<1> QED
  BY <1>1, <1>3, <1>4, <1>5, <1>6 DEF CkgInv

\* The commitment is one that was sent; the scalar of the share is drawn after it.
LEMMA GenerateShareStep ==
  ASSUME Disjoint, CkgInv, NEW o \in Verifiers, NEW m \in ckgWire, m.type = "commitment",
         Ck!GenerateShare(o, m)
  PROVE  CkgInv'
<1>0. PICK k : k = scalars + 1
  OBVIOUS
<1>1. /\ o \in Ck!Members /\ o \notin Provers /\ ckgState[o] = "INIT"
      /\ commitment'[o] = {m}
      /\ \A d \in Verifiers \ {o} : commitment'[d] = commitment[d]
      /\ DOMAIN commitment' = Verifiers
      /\ ckgKey' = ckgKey /\ scalars \in Nat
  BY DEF Ck!GenerateShare, CkgInv, CkgTypes, Ck!Members, Disjoint
<1>2. PICK c \in Provers : \E n : Settled(c, n) /\ m = Ck!Commitment(<<c, n>>, <<c, n>>)
  <2>1. CkgSent(m)
    BY DEF CkgInv
  <2> QED
    BY <2>1 DEF CkgSent, Ck!Commitment, Ck!Share, Ck!Opening
<1>3. PICK n : Settled(c, n) /\ m = Ck!Commitment(<<c, n>>, <<c, n>>)
  BY <1>2
<1>4. c \in Ck!Members /\ n \in 1 .. scalars
  BY <1>3 DEF Ck!Members, Settled
<1>5. ckgKey[o] = {}
  BY <1>1 DEF CkgInv, CkgMembers
<1>6. CASE UNCHANGED <<ckgS, ckgR, scalars, ckgState, ckgWire>>
  <2>1. CkgGrows /\ CkgTypes'
    BY <1>1, <1>6 DEF CkgGrows, CkgInv, CkgTypes
  <2>2. CommittedFirst(o)'
    <3>1. \A x : ~ Settled(o, x)'
      BY <1>1, <1>6 DEF Settled
    <3>2. Settled(c, n)'
      BY <1>3, <1>4, <2>1, CkgKept
    <3> QED
      BY <1>1, <1>3, <3>1, <3>2 DEF CommittedFirst, Ck!Commitment
  <2>3. OwnerKey(o)'
    BY <1>1, <1>5 DEF OwnerKey
  <2>4. \A d \in Verifiers \ {o} : CommittedFirst(d)' /\ OwnerKey(d)'
    BY <1>1, <1>6, <2>1, OwnerKept
  <2>5. CkgMembers'
    BY <1>1, <1>6, <2>1, MembersKept DEF CkgMembers
  <2>6. \A d \in Provers : ContributorKey(d)'
    BY <1>1, <2>1, ContributorKept
  <2>7. \A x \in ckgWire' : CkgSent(x)'
    BY <1>6, <2>1, CkgKept
  <2> QED
    BY <2>1, <2>2, <2>3, <2>4, <2>5, <2>6, <2>7 DEF CkgInv
<1>7. CASE /\ Ck!DrawBoth(o)
           /\ ckgWire' = ckgWire \union {Ck!Share(x, x) : x \in ckgS'[o]}
           /\ Ck!SetState(o, "SHARE")
  <2>1. /\ scalars' = k /\ ckgS'[o] = {<<o, k>>} /\ ckgR'[o] = {<<o, k>>}
        /\ \A d \in Ck!Members \ {o} :
             ckgS'[d] = ckgS[d] /\ ckgR'[d] = ckgR[d] /\ ckgState'[d] = ckgState[d]
        /\ ckgState'[o] = "SHARE" /\ CkgTypes'
    BY <1>0, <1>1, <1>7 DEF Ck!DrawBoth, Ck!DrawScalar, Ck!Fresh, Ck!SetState, CkgInv, CkgTypes
  <2>2. ckgWire' = ckgWire \union {Ck!Share(<<o, k>>, <<o, k>>)}
    BY <1>7, <2>1
  <2>3. CkgGrows
    BY <1>0, <1>1, <2>1 DEF CkgGrows
  <2>4. Settled(o, k)'
    BY <1>0, <1>1, <2>1 DEF Settled
  <2>5. CommittedFirst(o)'
    <3>1. ASSUME NEW x, Settled(o, x)' PROVE x = k
      <4>1. {<<o, x>>} = {<<o, k>>}
        BY <2>1, <3>1 DEF Settled
      <4>2. <<o, x>> = <<o, k>>
        BY <4>1
      <4> QED
        BY <4>2
    <3>2. Settled(c, n)' /\ n < k
      BY <1>0, <1>1, <1>3, <1>4, <2>3, CkgKept
    <3> QED
      BY <1>1, <1>3, <3>1, <3>2 DEF CommittedFirst, Ck!Commitment
  <2>6. OwnerKey(o)'
    BY <1>1, <1>5 DEF OwnerKey
  <2>7. \A d \in Verifiers \ {o} : CommittedFirst(d)' /\ OwnerKey(d)'
    BY <1>1, <2>1, <2>3, OwnerKept DEF Ck!Members
  <2>8. CkgMembers'
    <3>1. \A d \in Ck!Members \ {o} :
            /\ ckgState'[d] # "INIT" => \E x : Settled(d, x)'
            /\ ckgState'[d] # "FINISH" => ckgKey'[d] = {}
      BY <1>1, <2>1, <2>3, MembersKept
    <3> QED
      BY <1>1, <1>5, <2>1, <2>4, <3>1 DEF CkgMembers
  <2>9. \A d \in Provers : ContributorKey(d)'
    BY <1>1, <2>3, ContributorKept
  <2>10. \A x \in ckgWire' : CkgSent(x)'
    BY <2>2, <2>3, <2>4, CkgKept DEF CkgSent
  <2> QED
    BY <2>1, <2>5, <2>6, <2>7, <2>8, <2>9, <2>10 DEF CkgInv
<1> QED
  BY <1>6, <1>7 DEF Ck!GenerateShare

LEMMA ContributorFinishStep ==
  ASSUME Disjoint, CkgInv, NEW c \in Provers, NEW m \in ckgWire, m.type = "share",
         Ck!ContributorFinish(c, m)
  PROVE  CkgInv'
<1>1. /\ c \in Ck!Members /\ c \notin Verifiers /\ ckgState[c] = "COMMIT"
      /\ ckgState'[c] = "FINISH"
      /\ \A d \in Ck!Members \ {c} : ckgState'[d] = ckgState[d]
      /\ UNCHANGED <<ckgS, ckgR, commitment, scalars>>
  BY DEF Ck!ContributorFinish, Ck!SetState, CkgInv, CkgTypes, Ck!Members, Disjoint
<1>2. PICK n : Settled(c, n)
  BY <1>1 DEF CkgInv, CkgMembers
<1>3. PICK o \in Verifiers : \E k : Settled(o, k) /\ m = Ck!Share(<<o, k>>, <<o, k>>)
  <2>1. CkgSent(m)
    BY DEF CkgInv
  <2> QED
    BY <2>1 DEF CkgSent, Ck!Commitment, Ck!Share, Ck!Opening
<1>4. PICK k : Settled(o, k) /\ m = Ck!Share(<<o, k>>, <<o, k>>)
  BY <1>3
<1>5. /\ ckgKey' = [ckgKey EXCEPT ![c] = {Ck!Key(m.X, <<c, n>>, <<c, n>>, m.r)}]
      /\ ckgWire' = ckgWire \union {Ck!Opening(<<c, n>>, <<c, n>>)}
  BY <1>2 DEF Ck!ContributorFinish, Settled
<1>6. m.X = <<o, k>> /\ m.r = <<o, k>>
  BY <1>4 DEF Ck!Share
<1>7. /\ ckgKey'[c] = {Ck!Key(<<o, k>>, <<c, n>>, <<c, n>>, <<o, k>>)}
      /\ \A d \in Ck!Members \ {c} : ckgKey'[d] = ckgKey[d]
  BY <1>1, <1>5, <1>6 DEF CkgInv, CkgTypes
<1>8. CkgTypes'
  BY <1>1, <1>5 DEF CkgInv, CkgTypes, Ck!ContributorFinish, Ck!SetState
<1>9. CkgGrows
  BY <1>1 DEF CkgGrows, CkgInv, CkgTypes
<1>10. Settled(c, n)' /\ Settled(o, k)'
  BY <1>1, <1>2, <1>4, <1>9, CkgKept DEF Ck!Members
<1>11. CkgMembers'
  <2>1. \A d \in Ck!Members \ {c} :
          /\ ckgState'[d] # "INIT" => \E x : Settled(d, x)'
          /\ ckgState'[d] # "FINISH" => ckgKey'[d] = {}
    BY <1>1, <1>7, <1>9, MembersKept
  <2> QED
    BY <1>1, <1>10, <2>1 DEF CkgMembers
<1>12. \A d \in Verifiers : CommittedFirst(d)' /\ OwnerKey(d)'
  BY <1>1, <1>7, <1>9, OwnerKept DEF Ck!Members
<1>13. \A d \in Provers : ContributorKey(d)'
  <2>1. \A d \in Provers \ {c} : ContributorKey(d)'
    BY <1>7, <1>9, ContributorKept DEF Ck!Members
  <2>2. ContributorKey(c)'
    BY <1>7, <1>10 DEF ContributorKey, Ck!Key
  <2> QED
    BY <2>1, <2>2
<1>14. \A x \in ckgWire' : CkgSent(x)'
  <2>1. \A x \in ckgWire : CkgSent(x)'
    BY <1>9, CkgKept
  <2>2. \A x : x = Ck!Opening(<<c, n>>, <<c, n>>) => CkgSent(x)'
    BY <1>1, <1>10 DEF CkgSent, Ck!Opening
  <2> QED
    BY <1>5, <2>1, <2>2
<1> QED
  BY <1>8, <1>11, <1>12, <1>13, <1>14 DEF CkgInv

\* The opening that fits is of the one commitment that was stored.
LEMMA OwnerFinishStep ==
  ASSUME Disjoint, CkgInv, NEW o \in Verifiers, NEW m \in ckgWire, m.type = "opening",
         Ck!OwnerFinish(o, m)
  PROVE  CkgInv'
<1>1. /\ o \in Ck!Members /\ o \notin Provers /\ ckgState[o] = "SHARE"
      /\ ckgState'[o] = "FINISH"
      /\ \A d \in Ck!Members \ {o} : ckgState'[d] = ckgState[d]
      /\ Ck!Commitment(m.s, m.r) \in commitment[o]
      /\ UNCHANGED <<ckgS, ckgR, commitment, scalars, ckgWire>>
  BY DEF Ck!OwnerFinish, Ck!Opens, Ck!SetState, CkgInv, CkgTypes, Ck!Members, Disjoint
<1>2. PICK k : Settled(o, k)
  BY <1>1 DEF CkgInv, CkgMembers
<1>3. PICK c \in Provers :
        \E n : Settled(c, n) /\ ckgState[c] = "FINISH" /\ m = Ck!Opening(<<c, n>>, <<c, n>>)
  <2>1. CkgSent(m)
    BY DEF CkgInv
  <2> QED
    BY <2>1 DEF CkgSent, Ck!Commitment, Ck!Share, Ck!Opening
<1>4. PICK n : Settled(c, n) /\ ckgState[c] = "FINISH" /\ m = Ck!Opening(<<c, n>>, <<c, n>>)
  BY <1>3
<1>5. m.s = <<c, n>> /\ m.r = <<c, n>>
  BY <1>4 DEF Ck!Opening
<1>6. n < k
  <2>1. CommittedFirst(o) /\ commitment[o] # {}
    BY <1>1 DEF CkgInv
  <2>2. PICK d \in Provers : \E j :
          commitment[o] = {Ck!Commitment(<<d, j>>, <<d, j>>)} /\ \A x : Settled(o, x) => j < x
    BY <2>1 DEF CommittedFirst
  <2>3. PICK j :
          commitment[o] = {Ck!Commitment(<<d, j>>, <<d, j>>)} /\ \A x : Settled(o, x) => j < x
    BY <2>2
  <2>4. Ck!Commitment(<<c, n>>, <<c, n>>) = Ck!Commitment(<<d, j>>, <<d, j>>)
    BY <1>1, <1>5, <2>3
  <2>5. <<c, n>> = <<d, j>>
    BY <2>4 DEF Ck!Commitment
  <2>6. n = j
    BY <2>5
  <2> QED
    BY <1>2, <2>3, <2>6
<1>7. ckgKey' = [ckgKey EXCEPT ![o] = {Ck!Key(<<c, n>>, <<o, k>>, <<c, n>>, <<o, k>>)}]
  BY <1>2, <1>5 DEF Ck!OwnerFinish, Settled
<1>8. /\ ckgKey'[o] = {Ck!Key(<<c, n>>, <<o, k>>, <<c, n>>, <<o, k>>)}
      /\ \A d \in Ck!Members \ {o} : ckgKey'[d] = ckgKey[d]
  BY <1>1, <1>7 DEF CkgInv, CkgTypes
<1>9. CkgTypes'
  BY <1>1, <1>7 DEF CkgInv, CkgTypes, Ck!OwnerFinish, Ck!SetState
<1>10. CkgGrows
  BY <1>1 DEF CkgGrows, CkgInv, CkgTypes
<1>11. Settled(c, n)' /\ Settled(o, k)'
  BY <1>1, <1>2, <1>4, <1>10, CkgKept DEF Ck!Members
<1>12. CkgMembers'
  <2>1. \A d \in Ck!Members \ {o} :
          /\ ckgState'[d] # "INIT" => \E x : Settled(d, x)'
          /\ ckgState'[d] # "FINISH" => ckgKey'[d] = {}
    BY <1>1, <1>8, <1>10, MembersKept
  <2> QED
    BY <1>1, <1>11, <2>1 DEF CkgMembers
<1>13. \A d \in Verifiers : CommittedFirst(d)' /\ OwnerKey(d)'
  <2>1. \A d \in Verifiers \ {o} : CommittedFirst(d)' /\ OwnerKey(d)'
    BY <1>1, <1>8, <1>10, OwnerKept DEF Ck!Members
  <2>2. ckgState'[c] = "FINISH"
    BY <1>1, <1>4 DEF Ck!Members
  <2>3. OwnerKey(o)'
    BY <1>6, <1>8, <1>11, <2>2 DEF OwnerKey, Ck!Key
  <2>4. CommittedFirst(o)'
    <3>1. CommittedFirst(o)
      BY DEF CkgInv
    <3>2. \A x : Settled(o, x)' => Settled(o, x)
      BY <1>1, <1>10, CkgKept
    <3>3. \A d \in Provers : \A x : Settled(d, x) => Settled(d, x)'
      BY <1>10, CkgKept DEF Ck!Members
    <3> QED
      BY <1>1, <3>1, <3>2, <3>3 DEF CommittedFirst, Ck!Commitment
  <2> QED
    BY <2>1, <2>3, <2>4
<1>14. \A d \in Provers : ContributorKey(d)'
  BY <1>1, <1>8, <1>10, ContributorKept DEF Ck!Members
<1>15. \A x \in ckgWire' : CkgSent(x)'
  BY <1>1, <1>10, CkgKept
<1> QED
  BY <1>9, <1>12, <1>13, <1>14, <1>15 DEF CkgInv

LEMMA CkgStep == ASSUME Disjoint, CkgInv, [Ck!Next]_ckg PROVE CkgInv'
<1>1. CASE UNCHANGED ckg
  <2>1. UNCHANGED <<ckgState, ckgS, ckgR, commitment, ckgKey, scalars, ckgWire>>
    BY <1>1 DEF ckg
  <2>2. CkgGrows /\ CkgTypes'
    BY <2>1 DEF CkgGrows, CkgInv, CkgTypes
  <2>3. CkgMembers'
    BY <2>1, <2>2, MembersKept DEF CkgMembers
  <2>4. /\ \A o \in Verifiers : CommittedFirst(o)' /\ OwnerKey(o)'
        /\ \A c \in Provers : ContributorKey(c)'
        /\ \A m \in ckgWire' : CkgSent(m)'
    BY <2>1, <2>2, OwnerKept, ContributorKept, CkgKept
  <2> QED
    BY <2>2, <2>3, <2>4 DEF CkgInv
<1>2. CASE Ck!Next
  BY <1>2, CommitStep, CommitFailStep, GenerateShareStep, ContributorFinishStep,
     OwnerFinishStep DEF Ck!Next
<1> QED
  BY <1>1, <1>2

LEMMA CkgInvariance == ASSUME Disjoint PROVE MCSpec => []CkgInv
<1>1. MCInit => CkgInv
  BY CkgInit DEF MCInit
<1>2. CkgInv /\ [MCNext]_mcVars => CkgInv'
  <2>1. [MCNext]_mcVars => [Ck!Next]_ckg
    BY DEF MCNext, mcVars
  <2> QED
    BY <2>1, CkgStep
<1> QED
  BY <1>1, <1>2, PTL DEF MCSpec

\* Keys of one half each are of both halves, and SK with them.
LEMMA CkgKeys ==
  ASSUME Disjoint, CkgInv, NEW c \in Provers, NEW o \in Verifiers,
         NEW k \in ckgKey[c], NEW j \in ckgKey[o]
  PROVE  /\ k.P = j.P => k = j
         /\ (ckgS[o] \subseteq k.P /\ ckgS[c] \subseteq j.P) => k = j
         /\ k = j => \A q \in Verifiers \ {o} : k \notin ckgKey[q]
<1>1. PICK o1 \in Verifiers : \E x, y :
        ckgKey[c] = {Ck!Key(<<o1, y>>, <<c, x>>, <<c, x>>, <<o1, y>>)} /\ Settled(c, x)
  BY DEF CkgInv, ContributorKey
<1>2. PICK x1, y1 :
        ckgKey[c] = {Ck!Key(<<o1, y1>>, <<c, x1>>, <<c, x1>>, <<o1, y1>>)} /\ Settled(c, x1)
  BY <1>1
<1>3. \A q \in Verifiers : ckgKey[q] # {} => \E c2 \in Provers : \E x, y :
        ckgKey[q] = {Ck!Key(<<c2, x>>, <<q, y>>, <<c2, x>>, <<q, y>>)} /\ Settled(q, y)
  BY DEF CkgInv, OwnerKey
<1>4. PICK c2 \in Provers : \E x, y :
        ckgKey[o] = {Ck!Key(<<c2, x>>, <<o, y>>, <<c2, x>>, <<o, y>>)} /\ Settled(o, y)
  BY <1>3
<1>5. PICK x2, y2 :
        ckgKey[o] = {Ck!Key(<<c2, x2>>, <<o, y2>>, <<c2, x2>>, <<o, y2>>)} /\ Settled(o, y2)
  BY <1>4
<1>6. /\ k = Ck!Key(<<o1, y1>>, <<c, x1>>, <<c, x1>>, <<o1, y1>>)
      /\ j = Ck!Key(<<c2, x2>>, <<o, y2>>, <<c2, x2>>, <<o, y2>>)
  BY <1>2, <1>5
<1>7. /\ k.P = {<<o1, y1>>, <<c, x1>>} /\ j.P = {<<c2, x2>>, <<o, y2>>}
      /\ k.r2 = <<o1, y1>> /\ j.r2 = <<o, y2>>
  BY <1>6 DEF Ck!Key
<1>8. c # o /\ o1 # c2 /\ c # o1 /\ c2 # o
  BY DEF Disjoint
<1>9. /\ <<c, x1>> # <<o, y2>> /\ <<o1, y1>> # <<c2, x2>>
      /\ <<c, x1>> # <<o1, y1>> /\ <<c2, x2>> # <<o, y2>>
  BY <1>8
<1>10. ASSUME <<c, x1>> = <<c2, x2>>, <<o1, y1>> = <<o, y2>> PROVE k = j
  <2>1. {<<o1, y1>>, <<c, x1>>} = {<<c2, x2>>, <<o, y2>>}
    BY <1>10
  <2> QED
    BY <1>6, <1>10, <2>1 DEF Ck!Key
<1>11. k.P = j.P => k = j
  BY <1>7, <1>9, <1>10
<1>12. (ckgS[o] \subseteq k.P /\ ckgS[c] \subseteq j.P) => k = j
  <2>1. ckgS[o] = {<<o, y2>>} /\ ckgS[c] = {<<c, x1>>}
    BY <1>2, <1>5 DEF Settled
  <2> QED
    BY <1>7, <1>9, <1>10, <2>1
<1>13. ASSUME k = j, NEW q \in Verifiers \ {o}, k \in ckgKey[q] PROVE FALSE
  <2>1. PICK c3 \in Provers : \E x, y :
          ckgKey[q] = {Ck!Key(<<c3, x>>, <<q, y>>, <<c3, x>>, <<q, y>>)}
    <3>1. ckgKey[q] # {} /\ q \in Verifiers
      BY <1>13
    <3>2. PICK c3 \in Provers : \E x, y :
            /\ ckgKey[q] = {Ck!Key(<<c3, x>>, <<q, y>>, <<c3, x>>, <<q, y>>)}
            /\ Settled(q, y)
      BY <1>3, <3>1, Zenon
    <3> QED
      BY <3>2
  <2>2. PICK x3, y3 :
          ckgKey[q] = {Ck!Key(<<c3, x3>>, <<q, y3>>, <<c3, x3>>, <<q, y3>>)}
    BY <2>1
  <2>3. k.r2 = <<q, y3>>
    BY <1>13, <2>2 DEF Ck!Key
  <2>4. <<q, y3>> = <<o, y2>>
    BY <1>7, <1>13, <2>3
  <2> QED
    BY <2>4
<1> QED
  BY <1>11, <1>12, <1>13

\* The half of the contributor is older than the owner's, and in no other key.
LEMMA CkgFair ==
  ASSUME Disjoint, CkgInv, NEW o \in Verifiers, NEW k \in ckgKey[o]
  PROVE  \E c \in Provers, x \in k.P, y \in k.P :
           /\ x[1] = c /\ y[1] = o /\ x[2] < y[2]
           /\ ckgState[c] = "FINISH" /\ x \in ckgS[c]
           /\ \A d \in Provers \ {c} : \A j \in ckgKey[d] : x \notin j.P
<1>1. PICK c \in Provers : \E n, i :
        /\ ckgKey[o] = {Ck!Key(<<c, n>>, <<o, i>>, <<c, n>>, <<o, i>>)}
        /\ Settled(c, n) /\ ckgState[c] = "FINISH" /\ n < i
  BY DEF CkgInv, OwnerKey
<1>2. PICK n, i :
        /\ ckgKey[o] = {Ck!Key(<<c, n>>, <<o, i>>, <<c, n>>, <<o, i>>)}
        /\ Settled(c, n) /\ ckgState[c] = "FINISH" /\ n < i
  BY <1>1
<1>3. k.P = {<<c, n>>, <<o, i>>}
  BY <1>2 DEF Ck!Key
<1>4. <<c, n>>[1] = c /\ <<o, i>>[1] = o /\ <<c, n>>[2] < <<o, i>>[2] /\ <<c, n>> \in ckgS[c]
  BY <1>2 DEF Settled
<1>5. ASSUME NEW d \in Provers \ {c}, NEW j \in ckgKey[d] PROVE <<c, n>> \notin j.P
  <2>1. PICK q \in Verifiers : \E x, y :
          ckgKey[d] = {Ck!Key(<<q, y>>, <<d, x>>, <<d, x>>, <<q, y>>)}
    <3>1. ckgKey[d] # {} /\ ContributorKey(d)
      BY <1>5 DEF CkgInv
    <3> QED
      BY <3>1 DEF ContributorKey
  <2>2. PICK x, y : j = Ck!Key(<<q, y>>, <<d, x>>, <<d, x>>, <<q, y>>)
    BY <2>1
  <2>3. j.P = {<<q, y>>, <<d, x>>}
    BY <2>2 DEF Ck!Key
  <2>4. q # c /\ d # c
    BY DEF Disjoint
  <2> QED
    BY <2>3, <2>4
<1> QED
  BY <1>2, <1>3, <1>4, <1>5

\* The owner's half of a key is drawn after the contributor has committed to its own
\* (ccckg_owner_generate_share), the opening that is accepted is that commitment's
\* (ccckg_owner_finish), and keys that agree in a half agree in SK (ccckg_derive_sk).
THEOREM CkgPartners == ASSUME Disjoint PROVE MCSpec => []CkgAgreement
<1>1. CkgInv => CkgAgreement
  <2> SUFFICES ASSUME CkgInv PROVE Ck!Unbiased /\ Ck!Agreement
    BY DEF CkgAgreement
  <2>1. Ck!Unbiased
    BY CkgFair DEF Ck!Unbiased
  <2>2. Ck!Agreement
    BY CkgKeys, Zenon DEF Ck!Agreement
  <2> QED
    BY <2>1, <2>2
<1> QED
  BY <1>1, CkgInvariance, PTL

\* A beginning of a sequence is one of what the sequence grows to.
LEMMA BeginningKept ==
  ASSUME NEW S, NEW s \in Seq(S), NEW e \in S, NEW n \in 0 .. Len(s)
  PROVE  /\ Append(s, e) \in Seq(S) /\ Len(Append(s, e)) = Len(s) + 1
         /\ SubSeq(Append(s, e), 1, n) = SubSeq(s, 1, n)
         /\ \A i \in 1 .. Len(s) : Append(s, e)[i] = s[i]
         /\ Append(s, e)[Len(s) + 1] = e
<1>1. /\ Append(s, e) \in Seq(S) /\ Len(Append(s, e)) = Len(s) + 1
      /\ \A i \in 1 .. Len(s) : Append(s, e)[i] = s[i]
      /\ Append(s, e)[Len(s) + 1] = e
      /\ Len(s) \in Nat
  BY LenProperties
<1>2. \A i \in 1 .. n : s[i] \in S /\ Append(s, e)[i] \in S /\ Append(s, e)[i] = s[i]
  BY <1>1, ElementOfSeq
<1>3. /\ SubSeq(s, 1, n) \in Seq(S) /\ SubSeq(Append(s, e), 1, n) \in Seq(S)
      /\ Len(SubSeq(s, 1, n)) = Len(SubSeq(Append(s, e), 1, n))
      /\ \A i \in 1 .. Len(SubSeq(s, 1, n)) :
           SubSeq(s, 1, n)[i] = SubSeq(Append(s, e), 1, n)[i]
  <2>1. /\ SubSeq(s, 1, n) \in Seq(S)
        /\ Len(SubSeq(s, 1, n)) = IF 1 <= n THEN n - 1 + 1 ELSE 0
        /\ \A i \in 1 .. n - 1 + 1 : SubSeq(s, 1, n)[i] = s[1 + i - 1]
    BY <1>1, <1>2, SubSeqProperties
  <2>2. /\ SubSeq(Append(s, e), 1, n) \in Seq(S)
        /\ Len(SubSeq(Append(s, e), 1, n)) = IF 1 <= n THEN n - 1 + 1 ELSE 0
        /\ \A i \in 1 .. n - 1 + 1 : SubSeq(Append(s, e), 1, n)[i] = Append(s, e)[1 + i - 1]
    BY <1>1, <1>2, SubSeqProperties
  <2>3. Len(SubSeq(s, 1, n)) = n /\ n \in Nat
    BY <1>1, <2>1
  <2>4. ASSUME NEW i \in 1 .. n
        PROVE  SubSeq(s, 1, n)[i] = SubSeq(Append(s, e), 1, n)[i]
    <3>1. SubSeq(s, 1, n)[i] = s[i] /\ SubSeq(Append(s, e), 1, n)[i] = Append(s, e)[i]
      BY <2>1, <2>2, <2>3
    <3> QED
      BY <1>2, <3>1
  <2> QED
    BY <2>1, <2>2, <2>3, <2>4
<1>4. SubSeq(Append(s, e), 1, n) = SubSeq(s, 1, n)
  <2> DEFINE u == SubSeq(s, 1, n)
             v == SubSeq(Append(s, e), 1, n)
  <2>1. /\ u \in Seq(S) /\ v \in Seq(S) /\ Len(u) = Len(v)
        /\ \A i \in 1 .. Len(u) : u[i] = v[i]
    BY <1>3
  <2> HIDE DEF u, v
  <2>2. u = v
    BY <2>1, SeqEqual
  <2> QED
    BY <2>2 DEF u, v
<1> QED
  BY <1>1, <1>4

-----------------------------------------------------------------------------
(* SIGMA.                                                                  *)

\* What contexts seal: messages and their own signatures, with their names on.
SigmaText == Si!Parties \X Si!Sealable

SigmaTypes ==
  /\ DOMAIN peerShare = Si!Parties /\ DOMAIN sessionKeys = Si!Parties
  /\ DOMAIN siAccepted = Si!Parties
  /\ iv \in [Si!Parties -> [Si!Roles -> Nat]]
  /\ siSent \in [Si!Parties -> Seq(SigmaText)] /\ siReceived \in [Si!Parties -> Seq(SigmaText)]

\* The keys derive from our share and the one that was imported.
Derived(c) ==
  \/ peerShare[c] = {} /\ sessionKeys[c] = {}
  \/ \E x \in Si!Parties : /\ peerShare[c] = {x}
                           /\ sessionKeys[c] = {} \/ sessionKeys[c] = {Si!Ordered(c, x)}

\* The IV of either role counts the messages of that role.
Counted(c) ==
  /\ iv[c][Si!Role(c)] = Len(siSent[c]) /\ iv[c][Si!PeerRole(c)] = Len(siReceived[c])
  /\ sessionKeys[c] = {} => siSent[c] = <<>> /\ siReceived[c] = <<>> /\ siAccepted[c] = {}

OwnText(a, text) ==
  /\ text[1] = a
  /\ text[2] \in Texts \/ \E k \in sessionKeys[a] : text[2] = Si!Signature(a, k)

\* What was opened is what the peer in the keys had sealed, from its first message on.
Opened(c) ==
  /\ \A i \in 1 .. Len(siReceived[c]) : \E a \in Si!Parties : OwnText(a, siReceived[c][i])
  /\ siReceived[c] # <<>> =>
       \E a \in Si!Parties :
         /\ Si!Role(a) = Si!PeerRole(c) /\ sessionKeys[a] = sessionKeys[c]
         /\ Len(siReceived[c]) <= Len(siSent[a])
         /\ siReceived[c] = SubSeq(siSent[a], 1, Len(siReceived[c]))

\* A verified identity is the peer in the keys.
Verified(c) ==
  \A d \in siAccepted[c] :
    /\ d \in Si!Parties /\ Si!Role(d) # Si!Role(c) /\ peerShare[c] = {d}
    /\ sessionKeys[d] = sessionKeys[c]

SigmaContexts == \A c \in Si!Parties : Derived(c) /\ Counted(c) /\ Opened(c) /\ Verified(c)

\* A sealed message is the one of its IV in the context that has its keys and its role.
SealedBy(ct, a) ==
  /\ \E k \in sessionKeys[a] : ct.keys = <<k, Si!Role(a)>>
  /\ ct.iv \in Nat /\ ct.iv < Len(siSent[a])
  /\ ct.text = siSent[a][ct.iv + 1] /\ OwnText(a, ct.text)
SigmaCts == \A ct \in siCts : \E a \in Si!Parties : SealedBy(ct, a)

SigmaInv == SigmaTypes /\ SigmaContexts /\ SigmaCts

\* The keys name the context of either role.
LEMMA KeyHolder ==
  ASSUME SigmaInv, NEW a \in Si!Parties, NEW c \in Si!Parties, sessionKeys[a] # {},
         sessionKeys[a] = sessionKeys[c], Si!Role(a) = Si!Role(c)
  PROVE  a = c
<1>1. PICK x, y : sessionKeys[a] = {Si!Ordered(a, x)} /\ sessionKeys[c] = {Si!Ordered(c, y)}
  BY DEF SigmaInv, SigmaContexts, Derived
<1>2. Si!Ordered(a, x) = Si!Ordered(c, y)
  BY <1>1
<1> QED
  BY <1>2 DEF Si!Ordered

\* ... and of opposite roles each names the other.
LEMMA KeyPartner ==
  ASSUME SigmaInv, NEW a \in Si!Parties, NEW c \in Si!Parties, sessionKeys[a] # {},
         sessionKeys[a] = sessionKeys[c], Si!Role(a) = Si!PeerRole(c)
  PROVE  peerShare[c] = {a} /\ Si!Role(a) # Si!Role(c)
<1>1. PICK x, y : /\ sessionKeys[a] = {Si!Ordered(a, x)} /\ sessionKeys[c] = {Si!Ordered(c, y)}
                  /\ peerShare[c] = {y}
  BY DEF SigmaInv, SigmaContexts, Derived
<1>2. Si!Ordered(a, x) = Si!Ordered(c, y)
  BY <1>1
<1>3. Si!Role(a) # Si!Role(c)
  BY DEF Si!PeerRole, Si!Role
<1>4. a = y
  BY <1>2, <1>3 DEF Si!Ordered, Si!Role
<1> QED
  BY <1>1, <1>3, <1>4

LEMMA SigmaRoles ==
  ASSUME NEW c
  PROVE  /\ Si!Role(c) \in Si!Roles /\ Si!PeerRole(c) \in Si!Roles
         /\ Si!Role(c) # Si!PeerRole(c)
BY DEF Si!Role, Si!PeerRole, Si!Roles

LEMMA SigmaInit == ASSUME Si!Init PROVE SigmaInv
<1>1. <<>> \in Seq(SigmaText) /\ Len(<<>>) = 0
  BY EmptySeq
<1>2. SigmaTypes
  BY <1>1 DEF Si!Init, SigmaTypes
<1>3. \A c \in Si!Parties : Derived(c) /\ Opened(c) /\ Verified(c)
  BY <1>1 DEF Si!Init, Derived, Opened, Verified
<1>4. \A c \in Si!Parties : Counted(c)
  BY <1>1, SigmaRoles DEF Si!Init, Counted
<1>5. SigmaCts
  BY DEF Si!Init, SigmaCts
<1> QED
  BY <1>2, <1>3, <1>4, <1>5 DEF SigmaInv, SigmaContexts

LEMMA ImportStep ==
  ASSUME SigmaInv, NEW c \in Si!Parties, NEW share \in Si!Parties,
         Si!ImportPeerKeyShare(c, share)
  PROVE  SigmaInv'
<1>1. /\ sessionKeys[c] = {}
      /\ DOMAIN peerShare' = Si!Parties /\ peerShare'[c] = {share}
      /\ \A d \in Si!Parties \ {c} : peerShare'[d] = peerShare[d]
      /\ UNCHANGED <<sessionKeys, iv, siSent, siReceived, siAccepted, siCts>>
  BY DEF Si!ImportPeerKeyShare, SigmaInv, SigmaTypes
<1>2. SigmaTypes'
  BY <1>1 DEF SigmaInv, SigmaTypes
<1>3. \A a \in Si!Parties : \A text : OwnText(a, text)' = OwnText(a, text)
  BY <1>1 DEF OwnText
<1>4. \A d \in Si!Parties : Derived(d)'
  BY <1>1 DEF SigmaInv, SigmaContexts, Derived
<1>5. \A d \in Si!Parties : Counted(d)' /\ Opened(d)'
  BY <1>1, <1>3 DEF SigmaInv, SigmaContexts, Counted, Opened
<1>6. \A d \in Si!Parties : Verified(d)'
  BY <1>1 DEF SigmaInv, SigmaContexts, Verified, Counted
<1>7. SigmaCts'
  BY <1>1, <1>3 DEF SigmaInv, SigmaCts, SealedBy
<1> QED
  BY <1>2, <1>4, <1>5, <1>6, <1>7 DEF SigmaInv, SigmaContexts

LEMMA DeriveStep ==
  ASSUME SigmaInv, NEW c \in Si!Parties, Si!DeriveSessionKeys(c)
  PROVE  SigmaInv'
<1>1. /\ sessionKeys[c] = {} /\ peerShare[c] # {}
      /\ DOMAIN sessionKeys' = Si!Parties
      /\ sessionKeys'[c] = {Si!Ordered(c, x) : x \in peerShare[c]}
      /\ \A d \in Si!Parties \ {c} : sessionKeys'[d] = sessionKeys[d]
      /\ UNCHANGED <<peerShare, iv, siSent, siReceived, siAccepted, siCts>>
  BY DEF Si!DeriveSessionKeys, SigmaInv, SigmaTypes
<1>2. SigmaTypes'
  BY <1>1 DEF SigmaInv, SigmaTypes
<1>3. \A a \in Si!Parties : \A text : OwnText(a, text) => OwnText(a, text)'
  BY <1>1 DEF OwnText
<1>4. \A d \in Si!Parties : Derived(d)'
  BY <1>1 DEF SigmaInv, SigmaContexts, Derived
<1>5. siReceived[c] = <<>> /\ siSent[c] = <<>> /\ siAccepted[c] = {}
  BY <1>1 DEF SigmaInv, SigmaContexts, Counted
<1>6. \A d \in Si!Parties : Counted(d)'
  BY <1>1 DEF SigmaInv, SigmaContexts, Counted
<1>7. ASSUME NEW d \in Si!Parties PROVE Opened(d)'
  <2>1. \A i \in 1 .. Len(siReceived[d]) : \E a \in Si!Parties : OwnText(a, siReceived[d][i])'
    BY <1>1, <1>3 DEF SigmaInv, SigmaContexts, Opened
  <2>2. ASSUME siReceived[d] # <<>>
        PROVE  \E a \in Si!Parties :
                 /\ Si!Role(a) = Si!PeerRole(d) /\ sessionKeys'[a] = sessionKeys'[d]
                 /\ Len(siReceived[d]) <= Len(siSent[a])
                 /\ siReceived[d] = SubSeq(siSent[a], 1, Len(siReceived[d]))
    <3>1. PICK a \in Si!Parties :
            /\ Si!Role(a) = Si!PeerRole(d) /\ sessionKeys[a] = sessionKeys[d]
            /\ Len(siReceived[d]) <= Len(siSent[a])
            /\ siReceived[d] = SubSeq(siSent[a], 1, Len(siReceived[d]))
      BY <2>2 DEF SigmaInv, SigmaContexts, Opened
    <3>2. d # c /\ sessionKeys[d] # {}
      BY <1>5, <2>2 DEF SigmaInv, SigmaContexts, Counted
    <3>3. a # c
      BY <1>1, <3>1, <3>2
    <3> QED
      BY <1>1, <3>1, <3>2, <3>3
  <2> QED
    BY <1>1, <2>1, <2>2 DEF Opened
<1>8. \A d \in Si!Parties : Verified(d)'
  <2> SUFFICES ASSUME NEW d \in Si!Parties, NEW e \in siAccepted[d]
               PROVE  /\ e \in Si!Parties /\ Si!Role(e) # Si!Role(d) /\ peerShare[d] = {e}
                      /\ sessionKeys'[e] = sessionKeys'[d]
    BY <1>1 DEF Verified
  <2>1. /\ e \in Si!Parties /\ Si!Role(e) # Si!Role(d) /\ peerShare[d] = {e}
        /\ sessionKeys[e] = sessionKeys[d]
    BY DEF SigmaInv, SigmaContexts, Verified
  <2>2. d # c /\ sessionKeys[d] # {}
    BY <1>5 DEF SigmaInv, SigmaContexts, Counted
  <2> QED
    BY <1>1, <2>1, <2>2
<1>9. SigmaCts'
  <2> SUFFICES ASSUME NEW ct \in siCts PROVE \E a \in Si!Parties : SealedBy(ct, a)'
    BY <1>1 DEF SigmaCts
  <2>1. PICK a \in Si!Parties : SealedBy(ct, a)
    BY DEF SigmaInv, SigmaCts
  <2>2. a # c
    BY <1>1, <2>1 DEF SealedBy
  <2>3. SealedBy(ct, a)'
    BY <1>1, <1>3, <2>1, <2>2 DEF SealedBy
  <2> QED
    BY <2>3
<1> QED
  BY <1>2, <1>4, <1>6, <1>7, <1>8, <1>9 DEF SigmaInv, SigmaContexts

\* A context that seals seals one more text, of its own.
LEMMA SealEffect ==
  ASSUME SigmaInv, NEW c \in Si!Parties, NEW p \in Si!Plaintexts(c), Si!Seal(c, p)
  PROVE  /\ <<c, p>> \in SigmaText /\ OwnText(c, <<c, p>>)
         /\ siSent' = [siSent EXCEPT ![c] = Append(@, <<c, p>>)]
         /\ siSent'[c] = Append(siSent[c], <<c, p>>)
         /\ \A d \in Si!Parties \ {c} : siSent'[d] = siSent[d]
         /\ siSent[c] \in Seq(SigmaText) /\ Len(siSent[c]) \in Nat
         /\ siSent' \in [Si!Parties -> Seq(SigmaText)]
         /\ \E k \in sessionKeys[c] : siCts' = siCts \union
              {[keys |-> <<k, Si!Role(c)>>, iv |-> Len(siSent[c]), text |-> <<c, p>>]}
         /\ iv' \in [Si!Parties -> [Si!Roles -> Nat]]
         /\ iv'[c][Si!Role(c)] = Len(siSent[c]) + 1
         /\ \A d \in Si!Parties, r \in Si!Roles :
              d # c \/ r # Si!Role(c) => iv'[d][r] = iv[d][r]
         /\ UNCHANGED <<peerShare, sessionKeys, siReceived, siAccepted>>
<1>1. p \in Texts \/ \E k \in sessionKeys[c] : p = Si!Signature(c, k)
  BY DEF Si!Plaintexts
<1>2. p \in Si!Sealable
  <2>1. \A k \in sessionKeys[c] : \E x \in Si!Parties : k = Si!Ordered(c, x)
    BY DEF SigmaInv, SigmaContexts, Derived
  <2> QED
    BY <1>1, <2>1 DEF Si!Sealable
<1>3. <<c, p>> \in SigmaText /\ OwnText(c, <<c, p>>)
  BY <1>1, <1>2 DEF SigmaText, OwnText
<1>4. /\ siSent[c] \in Seq(SigmaText) /\ Len(siSent[c]) \in Nat
      /\ iv[c][Si!Role(c)] = Len(siSent[c]) /\ Si!Role(c) \in Si!Roles
  BY LenProperties, SigmaRoles DEF SigmaInv, SigmaTypes, SigmaContexts, Counted
<1>5. /\ iv' = [iv EXCEPT ![c][Si!Role(c)] = @ + 1]
      /\ siSent' = [siSent EXCEPT ![c] = Append(@, <<c, p>>)]
      /\ UNCHANGED <<peerShare, sessionKeys, siReceived, siAccepted>>
      /\ \E k \in sessionKeys[c] : siCts' = siCts \union
           {[keys |-> <<k, Si!Role(c)>>, iv |-> Len(siSent[c]), text |-> <<c, p>>]}
  BY <1>4 DEF Si!Seal, Si!NextIv
<1>6. /\ iv' \in [Si!Parties -> [Si!Roles -> Nat]]
      /\ iv'[c][Si!Role(c)] = Len(siSent[c]) + 1
      /\ \A d \in Si!Parties, r \in Si!Roles :
           d # c \/ r # Si!Role(c) => iv'[d][r] = iv[d][r]
  BY <1>4, <1>5 DEF SigmaInv, SigmaTypes
<1>7. /\ siSent'[c] = Append(siSent[c], <<c, p>>)
      /\ \A d \in Si!Parties \ {c} : siSent'[d] = siSent[d]
      /\ siSent' \in [Si!Parties -> Seq(SigmaText)]
  BY <1>3, <1>4, <1>5 DEF SigmaInv, SigmaTypes
<1> QED
  BY <1>3, <1>4, <1>5, <1>6, <1>7

LEMMA SealStep ==
  ASSUME SigmaInv, NEW c \in Si!Parties, NEW p \in Si!Plaintexts(c), Si!Seal(c, p)
  PROVE  SigmaInv'
<1> DEFINE n == Len(siSent[c])
           longer == Append(siSent[c], <<c, p>>)
<1>1. /\ <<c, p>> \in SigmaText /\ OwnText(c, <<c, p>>)
      /\ siSent'[c] = longer /\ \A d \in Si!Parties \ {c} : siSent'[d] = siSent[d]
      /\ siSent[c] \in Seq(SigmaText) /\ n \in Nat
      /\ siSent' \in [Si!Parties -> Seq(SigmaText)]
      /\ iv' \in [Si!Parties -> [Si!Roles -> Nat]]
      /\ iv'[c][Si!Role(c)] = n + 1
      /\ \A d \in Si!Parties, r \in Si!Roles :
           d # c \/ r # Si!Role(c) => iv'[d][r] = iv[d][r]
      /\ UNCHANGED <<peerShare, sessionKeys, siReceived, siAccepted>>
  BY SealEffect
<1>2. PICK k \in sessionKeys[c] : siCts' = siCts \union
        {[keys |-> <<k, Si!Role(c)>>, iv |-> n, text |-> <<c, p>>]}
  BY SealEffect
<1>3. /\ Len(longer) = n + 1 /\ longer[n + 1] = <<c, p>>
      /\ \A i \in 0 .. n : SubSeq(longer, 1, i) = SubSeq(siSent[c], 1, i)
      /\ \A i \in 1 .. n : longer[i] = siSent[c][i]
  <2>1. 0 \in 0 .. n
    BY <1>1
  <2> QED
    BY <1>1, <2>1, BeginningKept
<1> HIDE DEF n, longer
<1>4. \A a \in Si!Parties : \A text : OwnText(a, text)' = OwnText(a, text)
  BY <1>1 DEF OwnText
<1>5. SigmaTypes'
  BY <1>1 DEF SigmaInv, SigmaTypes
<1>6. ASSUME NEW d \in Si!Parties PROVE Counted(d)'
  <2>1. Counted(d) /\ Counted(c)
    BY DEF SigmaInv, SigmaContexts
  <2>2. CASE d = c
    <3>1. iv'[d][Si!PeerRole(d)] = iv[d][Si!PeerRole(d)]
      BY <1>1, <2>2, SigmaRoles
    <3> QED
      BY <1>1, <1>2, <1>3, <2>1, <2>2, <3>1 DEF Counted
  <2>3. CASE d # c
    BY <1>1, <2>1, <2>3, SigmaRoles DEF Counted
  <2> QED
    BY <2>2, <2>3
<1>7. \A a \in Si!Parties : \A i \in 0 .. Len(siSent[a]) :
        Len(siSent[a]) <= Len(siSent'[a]) /\ SubSeq(siSent'[a], 1, i) = SubSeq(siSent[a], 1, i)
  <2> SUFFICES ASSUME NEW a \in Si!Parties, NEW i \in 0 .. Len(siSent[a])
               PROVE  /\ Len(siSent[a]) <= Len(siSent'[a])
                      /\ SubSeq(siSent'[a], 1, i) = SubSeq(siSent[a], 1, i)
    OBVIOUS
  <2>1. CASE a = c
    BY <1>1, <1>3, <2>1 DEF n
  <2>2. CASE a # c
    <3>1. siSent'[a] = siSent[a] /\ Len(siSent[a]) \in Nat
      BY <1>1, <2>2, LenProperties DEF SigmaInv, SigmaTypes
    <3> QED
      BY <3>1
  <2> QED
    BY <2>1, <2>2
<1>8. ASSUME NEW d \in Si!Parties PROVE Opened(d)'
  <2>1. Opened(d)
    BY DEF SigmaInv, SigmaContexts
  <2>2. ASSUME siReceived[d] # <<>>
        PROVE  \E a \in Si!Parties :
                 /\ Si!Role(a) = Si!PeerRole(d) /\ sessionKeys[a] = sessionKeys[d]
                 /\ Len(siReceived[d]) <= Len(siSent'[a])
                 /\ siReceived[d] = SubSeq(siSent'[a], 1, Len(siReceived[d]))
    <3>1. PICK a \in Si!Parties :
            /\ Si!Role(a) = Si!PeerRole(d) /\ sessionKeys[a] = sessionKeys[d]
            /\ Len(siReceived[d]) <= Len(siSent[a])
            /\ siReceived[d] = SubSeq(siSent[a], 1, Len(siReceived[d]))
      BY <2>1, <2>2 DEF Opened
    <3>2. Len(siReceived[d]) \in Nat /\ Len(siSent[a]) \in Nat /\ Len(siSent'[a]) \in Nat
      BY <1>1, LenProperties DEF SigmaInv, SigmaTypes
    <3> QED
      BY <1>7, <3>1, <3>2
  <2>3. \A i \in 1 .. Len(siReceived[d]) : \E a \in Si!Parties : OwnText(a, siReceived[d][i])'
    BY <1>1, <1>4, <2>1 DEF Opened
  <2> QED
    BY <1>1, <2>2, <2>3 DEF Opened
<1>9. \A d \in Si!Parties : Derived(d)' /\ Verified(d)'
  BY <1>1 DEF SigmaInv, SigmaContexts, Derived, Verified
<1>10. SigmaCts'
  <2> SUFFICES ASSUME NEW ct \in siCts' PROVE \E a \in Si!Parties : SealedBy(ct, a)'
    BY DEF SigmaCts
  <2>1. CASE ct \in siCts
    <3>1. PICK a \in Si!Parties : SealedBy(ct, a)
      BY <2>1 DEF SigmaInv, SigmaCts
    <3>2. siSent'[a][ct.iv + 1] = siSent[a][ct.iv + 1] /\ ct.iv < Len(siSent'[a])
      <4>1. ct.iv \in Nat /\ ct.iv < Len(siSent[a])
        BY <3>1 DEF SealedBy
      <4>2. CASE a = c
        <5>1. ct.iv + 1 \in 1 .. n
          BY <1>1, <4>1, <4>2 DEF n
        <5>2. siSent'[a] = longer /\ ct.iv < Len(longer)
          BY <1>1, <1>3, <4>1, <4>2, <5>1
        <5> QED
          BY <1>3, <4>2, <5>1, <5>2
      <4>3. CASE a # c
        BY <1>1, <4>1, <4>3
      <4> QED
        BY <4>2, <4>3
    <3>3. SealedBy(ct, a)'
      BY <1>1, <1>4, <3>1, <3>2 DEF SealedBy
    <3> QED
      BY <3>3
  <2>2. CASE ct = [keys |-> <<k, Si!Role(c)>>, iv |-> n, text |-> <<c, p>>]
    <3>1. ct.keys = <<k, Si!Role(c)>> /\ ct.iv = n /\ ct.text = <<c, p>>
      BY <2>2
    <3>2. OwnText(c, ct.text)'
      BY <1>1, <1>4, <3>1 DEF OwnText
    <3>3. SealedBy(ct, c)'
      BY <1>1, <1>2, <1>3, <3>1, <3>2 DEF SealedBy
    <3> QED
      BY <3>3
  <2> QED
    BY <1>2, <2>1, <2>2
<1> QED
  BY <1>5, <1>6, <1>8, <1>9, <1>10 DEF SigmaInv, SigmaContexts

\* A message that opens is the next one of the context of the other role in the keys.
LEMMA OpenEffect ==
  ASSUME SigmaInv, NEW c \in Si!Parties, NEW ct \in siCts, Si!Open(c, ct)
  PROVE  \E a \in Si!Parties :
           /\ Si!Role(a) = Si!PeerRole(c) /\ sessionKeys[a] = sessionKeys[c]
           /\ Len(siReceived[c]) < Len(siSent[a]) /\ Len(siReceived[c]) \in Nat
           /\ siReceived[c] = SubSeq(siSent[a], 1, Len(siReceived[c]))
           /\ ct.text = siSent[a][Len(siReceived[c]) + 1] /\ ct.text \in SigmaText
           /\ OwnText(a, ct.text)
           /\ siReceived' = [siReceived EXCEPT ![c] = Append(@, siSent[a][Len(siReceived[c]) + 1])]
           /\ iv' = [iv EXCEPT ![c][Si!PeerRole(c)] = Len(siReceived[c]) + 1]
<1>1. PICK k \in sessionKeys[c] :
        ct.keys = <<k, Si!PeerRole(c)>> /\ ct.iv = iv[c][Si!PeerRole(c)]
  BY DEF Si!Open, Si!Opens
<1>2. PICK a \in Si!Parties : SealedBy(ct, a)
  BY DEF SigmaInv, SigmaCts
<1>3. Si!Role(a) = Si!PeerRole(c) /\ k \in sessionKeys[a]
  BY <1>1, <1>2 DEF SealedBy
<1>4. sessionKeys[a] = sessionKeys[c] /\ sessionKeys[a] # {}
  <2>1. Derived(a) /\ Derived(c)
    BY DEF SigmaInv, SigmaContexts
  <2>2. sessionKeys[a] = {k} /\ sessionKeys[c] = {k}
    BY <1>1, <1>3, <2>1 DEF Derived
  <2> QED
    BY <2>2
<1>5. ct.iv = Len(siReceived[c]) /\ Len(siReceived[c]) \in Nat /\ Len(siSent[a]) \in Nat
  BY <1>1, LenProperties DEF SigmaInv, SigmaTypes, SigmaContexts, Counted
<1>6. siReceived[c] = SubSeq(siSent[a], 1, Len(siReceived[c]))
  <2>1. CASE siReceived[c] = <<>>
    BY <1>5, <2>1, SubSeqEmpty DEF SigmaInv, SigmaTypes
  <2>2. CASE siReceived[c] # <<>>
    <3>1. PICK b \in Si!Parties :
            /\ Si!Role(b) = Si!PeerRole(c) /\ sessionKeys[b] = sessionKeys[c]
            /\ siReceived[c] = SubSeq(siSent[b], 1, Len(siReceived[c]))
      BY <2>2 DEF SigmaInv, SigmaContexts, Opened
    <3>2. a = b
      BY <1>3, <1>4, <3>1, KeyHolder
    <3> QED
      BY <3>1, <3>2
  <2> QED
    BY <2>1, <2>2
<1>7. /\ Len(siReceived[c]) < Len(siSent[a]) /\ OwnText(a, ct.text)
      /\ ct.text = siSent[a][Len(siReceived[c]) + 1]
  BY <1>2, <1>5 DEF SealedBy
<1>8. ct.text \in SigmaText
  <2>1. Len(siReceived[c]) + 1 \in 1 .. Len(siSent[a])
    BY <1>5, <1>7
  <2> QED
    BY <1>7, <2>1, ElementOfSeq DEF SigmaInv, SigmaTypes
<1>9. /\ siReceived' = [siReceived EXCEPT ![c] = Append(@, siSent[a][Len(siReceived[c]) + 1])]
      /\ iv' = [iv EXCEPT ![c][Si!PeerRole(c)] = Len(siReceived[c]) + 1]
  BY <1>1, <1>5, <1>7 DEF Si!Open, Si!NextIv
<1> QED
  BY <1>3, <1>4, <1>5, <1>6, <1>7, <1>8, <1>9

LEMMA OpenStep ==
  ASSUME SigmaInv, NEW c \in Si!Parties, NEW ct \in siCts, Si!Open(c, ct)
  PROVE  SigmaInv'
<1> DEFINE n == Len(siReceived[c])
           longer == Append(siReceived[c], ct.text)
<1>1. UNCHANGED <<peerShare, sessionKeys, siSent, siAccepted, siCts>>
  BY DEF Si!Open
<1>2. PICK a \in Si!Parties :
        /\ Si!Role(a) = Si!PeerRole(c) /\ sessionKeys[a] = sessionKeys[c]
        /\ n < Len(siSent[a]) /\ n \in Nat
        /\ siReceived[c] = SubSeq(siSent[a], 1, n)
        /\ ct.text = siSent[a][n + 1] /\ ct.text \in SigmaText
        /\ OwnText(a, ct.text)
        /\ siReceived' = [siReceived EXCEPT ![c] = Append(@, siSent[a][n + 1])]
        /\ iv' = [iv EXCEPT ![c][Si!PeerRole(c)] = n + 1]
  BY OpenEffect
<1>3. /\ siReceived[c] \in Seq(SigmaText) /\ longer \in Seq(SigmaText) /\ Len(longer) = n + 1
      /\ longer[n + 1] = ct.text /\ \A i \in 1 .. n : longer[i] = siReceived[c][i]
  <2>1. siReceived[c] \in Seq(SigmaText) /\ 0 \in 0 .. Len(siReceived[c])
    BY <1>2 DEF SigmaInv, SigmaTypes
  <2> QED
    BY <1>2, <2>1, BeginningKept
<1>4. /\ siSent[a] \in Seq(SigmaText) /\ Len(siSent[a]) \in Nat /\ n + 1 \in 1 .. Len(siSent[a])
  BY <1>2, LenProperties DEF SigmaInv, SigmaTypes
<1>5. longer = SubSeq(siSent[a], 1, n + 1)
  <2>1. SubSeq(siSent[a], 1, n + 1) = SubSeq(siSent[a], 1, (n + 1) - 1) \o <<siSent[a][n + 1]>>
    BY <1>4, SubSeqRecursiveSecond
  <2>2. SubSeq(siSent[a], 1, (n + 1) - 1) = siReceived[c]
    BY <1>2
  <2>3. Append(siReceived[c], ct.text) = siReceived[c] \o <<ct.text>>
    BY <1>2, <1>3, AppendIsConcat
  <2> QED
    BY <1>2, <2>1, <2>2, <2>3
<1>6. /\ siReceived'[c] = longer
      /\ \A d \in Si!Parties \ {c} : siReceived'[d] = siReceived[d]
      /\ siReceived' \in [Si!Parties -> Seq(SigmaText)]
  BY <1>2, <1>3 DEF SigmaInv, SigmaTypes
<1>7. /\ iv' \in [Si!Parties -> [Si!Roles -> Nat]]
      /\ iv'[c][Si!PeerRole(c)] = n + 1
      /\ \A d \in Si!Parties, r \in Si!Roles :
           d # c \/ r # Si!PeerRole(c) => iv'[d][r] = iv[d][r]
  BY <1>2, SigmaRoles DEF SigmaInv, SigmaTypes
<1> HIDE DEF n, longer
<1>8. \A b \in Si!Parties : \A text : OwnText(b, text)' = OwnText(b, text)
  BY <1>1 DEF OwnText
<1>9. SigmaTypes'
  BY <1>1, <1>6, <1>7 DEF SigmaInv, SigmaTypes
<1>10. ASSUME NEW d \in Si!Parties PROVE Counted(d)'
  <2>1. Counted(d)
    BY DEF SigmaInv, SigmaContexts
  <2>2. CASE d = c
    <3>1. iv'[d][Si!Role(d)] = iv[d][Si!Role(d)]
      BY <1>7, <2>2, SigmaRoles
    <3>2. sessionKeys[c] # {}
      BY DEF Si!Open, Si!Opens
    <3> QED
      BY <1>1, <1>3, <1>6, <1>7, <2>1, <2>2, <3>1, <3>2 DEF Counted
  <2>3. CASE d # c
    BY <1>1, <1>6, <1>7, <2>1, <2>3, SigmaRoles DEF Counted
  <2> QED
    BY <2>2, <2>3
<1>11. ASSUME NEW d \in Si!Parties PROVE Opened(d)'
  <2>1. Opened(d) /\ Opened(c)
    BY DEF SigmaInv, SigmaContexts
  <2>2. CASE d = c
    <3>1. \A i \in 1 .. Len(longer) : \E b \in Si!Parties : OwnText(b, longer[i])
      <4> SUFFICES ASSUME NEW i \in 1 .. n + 1
                   PROVE  \E b \in Si!Parties : OwnText(b, longer[i])
        BY <1>3
      <4>1. CASE i = n + 1
        BY <1>2, <1>3, <4>1
      <4>2. CASE i # n + 1
        <5>1. i \in 1 .. n
          BY <1>2, <4>2 DEF n
        <5> QED
          BY <1>3, <2>1, <5>1 DEF Opened, n
      <4> QED
        BY <4>1, <4>2
    <3>2. \A i \in 1 .. Len(longer) : \E b \in Si!Parties : \A x : x = longer[i] => OwnText(b, x)'
      BY <1>8, <3>1
    <3>3. Len(longer) <= Len(siSent[a]) /\ longer = SubSeq(siSent[a], 1, Len(longer))
      BY <1>3, <1>4, <1>5
    <3> QED
      BY <1>1, <1>2, <1>6, <2>2, <3>2, <3>3 DEF Opened
  <2>3. CASE d # c
    <3>1. siReceived'[d] = siReceived[d]
      BY <1>6, <2>3
    <3>3. \A i \in 1 .. Len(siReceived'[d]) : \E b \in Si!Parties : OwnText(b, siReceived[d][i])'
      BY <1>6, <1>8, <2>1, <2>3, <3>1 DEF Opened
    <3> QED
      BY <1>1, <2>1, <3>1, <3>3 DEF Opened
  <2> QED
    BY <2>2, <2>3
<1>12. \A d \in Si!Parties : Derived(d)' /\ Verified(d)'
  BY <1>1 DEF SigmaInv, SigmaContexts, Derived, Verified
<1>13. SigmaCts'
  BY <1>1, <1>8 DEF SigmaInv, SigmaCts, SealedBy
<1> QED
  BY <1>9, <1>10, <1>11, <1>12, <1>13 DEF SigmaInv, SigmaContexts

\* What is verified is the signature of the peer in the keys: the one in the digest.
LEMMA VerifyStep ==
  ASSUME SigmaInv, NEW c \in Si!Parties, NEW i \in DOMAIN siReceived[c], NEW d \in Si!Parties,
         Si!Verify(c, siReceived[c][i], d)
  PROVE  SigmaInv'
<1> DEFINE text == siReceived[c][i]
<1>1. /\ text[2] \notin Texts
      /\ siAccepted' = [siAccepted EXCEPT ![c] = @ \union {d}]
      /\ UNCHANGED <<peerShare, sessionKeys, iv, siSent, siReceived, siCts>>
  BY DEF Si!Verify
<1>2. PICK k \in sessionKeys[c] :
        (text[2]).signer = d /\ (text[2]).of = Si!Digest(k, Si!PeerRole(c), d)
  BY DEF Si!Verify, Si!Verifies
<1>3. PICK a \in Si!Parties : OwnText(a, text)
  <2>1. siReceived[c] \in Seq(SigmaText)
    BY DEF SigmaInv, SigmaTypes
  <2>2. i \in 1 .. Len(siReceived[c])
    BY <2>1, LenProperties
  <2> QED
    BY <2>2 DEF SigmaInv, SigmaContexts, Opened
<1>4. PICK h \in sessionKeys[a] : text[2] = Si!Signature(a, h)
  BY <1>1, <1>3 DEF OwnText
<1>5. a = d /\ Si!Digest(h, Si!Role(a), a) = Si!Digest(k, Si!PeerRole(c), d)
  BY <1>2, <1>4 DEF Si!Signature
<1>6. h = k /\ Si!Role(d) = Si!PeerRole(c)
  BY <1>5 DEF Si!Digest
<1>7. sessionKeys[d] = sessionKeys[c] /\ sessionKeys[d] # {}
  <2>1. Derived(d) /\ Derived(c)
    BY DEF SigmaInv, SigmaContexts
  <2>2. sessionKeys[d] = {k} /\ sessionKeys[c] = {k}
    BY <1>2, <1>4, <1>5, <1>6, <2>1 DEF Derived
  <2> QED
    BY <2>2
<1>8. peerShare[c] = {d} /\ Si!Role(d) # Si!Role(c)
  BY <1>6, <1>7, KeyPartner
<1>9. /\ siAccepted'[c] = siAccepted[c] \union {d} /\ DOMAIN siAccepted' = Si!Parties
      /\ \A b \in Si!Parties \ {c} : siAccepted'[b] = siAccepted[b]
  BY <1>1 DEF SigmaInv, SigmaTypes
<1>10. SigmaTypes' /\ SigmaCts'
  BY <1>1, <1>9 DEF SigmaInv, SigmaTypes, SigmaCts, SealedBy, OwnText
<1>11. \A b \in Si!Parties : Derived(b)' /\ Opened(b)'
  BY <1>1 DEF SigmaInv, SigmaContexts, Derived, Opened, OwnText
<1>12. \A b \in Si!Parties : Counted(b)'
  BY <1>1, <1>7, <1>9 DEF SigmaInv, SigmaContexts, Counted
<1>13. \A b \in Si!Parties : Verified(b)'
  BY <1>1, <1>7, <1>8, <1>9 DEF SigmaInv, SigmaContexts, Verified
<1> QED
  BY <1>10, <1>11, <1>12, <1>13 DEF SigmaInv, SigmaContexts

LEMMA SigmaStep == ASSUME SigmaInv, [Si!Next]_sigma PROVE SigmaInv'
<1>1. CASE UNCHANGED sigma
  <2>1. UNCHANGED <<peerShare, sessionKeys, iv, siSent, siReceived, siAccepted, siCts>>
    BY <1>1 DEF sigma
  <2>2. SigmaTypes' /\ SigmaCts'
    BY <2>1 DEF SigmaInv, SigmaTypes, SigmaCts, SealedBy, OwnText
  <2>3. SigmaContexts'
    BY <2>1 DEF SigmaInv, SigmaContexts, Derived, Counted, Opened, Verified, OwnText
  <2> QED
    BY <2>2, <2>3 DEF SigmaInv
<1>2. CASE Si!Next
  BY <1>2, ImportStep, DeriveStep, SealStep, OpenStep, VerifyStep DEF Si!Next
<1> QED
  BY <1>1, <1>2

LEMMA SigmaInvariance == MCSpec => []SigmaInv
<1>1. MCInit => SigmaInv
  BY SigmaInit DEF MCInit
<1>2. SigmaInv /\ [MCNext]_mcVars => SigmaInv'
  <2>1. [MCNext]_mcVars => [Si!Next]_sigma
    BY DEF MCNext, mcVars
  <2> QED
    BY <2>1, SigmaStep
<1> QED
  BY <1>1, <1>2, PTL DEF MCSpec

\* ccsigma_verify accepts one identity: that of the one peer with the same session keys,
\* whose share was imported.
THEOREM SigmaPartners == MCSpec => []SigmaAgreement
<1>1. SigmaInv => SigmaAgreement
  <2> SUFFICES ASSUME SigmaInv, NEW c \in Si!Parties, NEW d \in siAccepted[c]
               PROVE  /\ Si!Role(d) # Si!Role(c) /\ peerShare[c] = {d}
                      /\ sessionKeys[d] = sessionKeys[c] /\ siAccepted[c] = {d}
    BY DEF SigmaAgreement, Si!Agreement
  <2>1. Verified(c)
    BY DEF SigmaInv, SigmaContexts
  <2>2. \A e \in siAccepted[c] : e = d
    BY <2>1 DEF Verified
  <2> QED
    BY <2>1, <2>2 DEF Verified
<1> QED
  BY <1>1, SigmaInvariance, PTL

\* Every step of SIGMA sends one text, or receives the next one of the peer in the keys,
\* or is none of the channel's.
LEMMA SigmaMoves ==
  ASSUME SigmaInv, [Si!Next]_sigma
  PROVE  [Si!Channel!Next]_<<siSent, siReceived>>
<1>1. ASSUME NEW c \in Si!Parties, NEW p \in Si!Plaintexts(c), Si!Seal(c, p)
      PROVE  Si!Channel!Send(c)
  <2>1. siSent' = [siSent EXCEPT ![c] = Append(@, <<c, p>>)] /\ UNCHANGED siReceived
    BY <1>1, SealEffect
  <2>2. p \in Si!Sealable
    <3>1. <<c, p>> \in SigmaText
      BY <1>1, SealEffect
    <3> QED
      BY <3>1 DEF SigmaText
  <2> QED
    BY <2>1, <2>2 DEF Si!Channel!Send
<1>2. ASSUME NEW c \in Si!Parties, NEW ct \in siCts, Si!Open(c, ct)
      PROVE  \E a \in Si!Parties : Si!Channel!Receive(a, c)
  <2>1. PICK a \in Si!Parties :
           /\ Len(siReceived[c]) < Len(siSent[a])
           /\ siReceived[c] = SubSeq(siSent[a], 1, Len(siReceived[c]))
           /\ siReceived' = [siReceived EXCEPT ![c] = Append(@, siSent[a][Len(siReceived[c]) + 1])]
    BY <1>2, OpenEffect
  <2>2. UNCHANGED siSent
    BY <1>2 DEF Si!Open
  <2>3. Si!Channel!Receive(a, c)
    BY <2>1, <2>2, Zenon DEF Si!Channel!Receive
  <2> QED
    BY <2>3
<1>3. CASE UNCHANGED sigma
  BY <1>3 DEF sigma
<1>4. CASE Si!Next
  <2>1. PICK c \in Si!Parties :
          \/ Si!DeriveSessionKeys(c)
          \/ \E share \in Si!Parties : Si!ImportPeerKeyShare(c, share)
          \/ \E p \in Si!Plaintexts(c) : Si!Seal(c, p)
          \/ \E ct \in siCts : Si!Open(c, ct)
          \/ \E i \in DOMAIN siReceived[c], d \in Si!Parties : Si!Verify(c, siReceived[c][i], d)
    BY <1>4 DEF Si!Next
  <2>2. CASE \E p \in Si!Plaintexts(c) : Si!Seal(c, p)
    BY <1>1, <2>2, Zenon DEF Si!Channel!Next
  <2>3. CASE \E ct \in siCts : Si!Open(c, ct)
    BY <1>2, <2>3, Zenon DEF Si!Channel!Next
  <2>4. CASE \/ Si!DeriveSessionKeys(c)
             \/ \E share \in Si!Parties : Si!ImportPeerKeyShare(c, share)
             \/ \E i \in DOMAIN siReceived[c], d \in Si!Parties : Si!Verify(c, siReceived[c][i], d)
    BY <2>4 DEF Si!DeriveSessionKeys, Si!ImportPeerKeyShare, Si!Verify
  <2> QED
    BY <2>1, <2>2, <2>3, <2>4
<1> QED
  BY <1>3, <1>4

LEMMA SigmaImplements == MCSpec => Si!ImplementsChannel
<1>1. MCInit => Si!Channel!Init
  BY DEF MCInit, Si!Init, Si!Channel!Init
<1>2. SigmaInv /\ [MCNext]_mcVars => [Si!Channel!Next]_<<siSent, siReceived>>
  <2>1. [MCNext]_mcVars => [Si!Next]_sigma
    BY DEF MCNext, mcVars
  <2> QED
    BY <2>1, SigmaMoves
<1> QED
  BY <1>1, <1>2, SigmaInvariance, PTL DEF MCSpec, Si!ImplementsChannel, Si!Channel!Spec


-----------------------------------------------------------------------------
(* HPKE.                                                                   *)

\* No context seals so many messages that sequence_number wraps: 2^64 of them, where the
\* code has no check.  (That a power is a number is all the provers must be told of it.)
SoundHpke ==
  /\ Disjoint
  /\ 2 ^ CounterBits \in Nat /\ MaxSealed \in Nat /\ MaxSealed < 2 ^ CounterBits

HpkeText == Provers \X Texts
HpkeKeys == Provers \X Passwords

HpkeTypes ==
  /\ hpKey \in [Provers \union Verifiers -> SUBSET HpkeKeys]
  /\ sequence_number \in [Provers \union Verifiers -> Nat]
  /\ sent \in [Provers -> Seq(HpkeText)] /\ received \in [Verifiers -> Seq(HpkeText)]
  /\ encs \subseteq Provers

\* A context has one key, of its own if it is an initiator's, and has counted its
\* messages.
SenderInv ==
  \A a \in Provers :
    /\ \A k \in hpKey[a] : k[1] = a
    /\ Len(sent[a]) <= MaxSealed /\ sequence_number[a] = Len(sent[a])

ReceiverInv ==
  \A b \in Verifiers :
    /\ sequence_number[b] = Len(received[b])
    /\ hpKey[b] = {} => received[b] = <<>>
    /\ \A k \in hpKey[b] :
         /\ hpKey[b] = {k}
         /\ Len(received[b]) <= Len(sent[k[1]])
         /\ received[b] = SubSeq(sent[k[1]], 1, Len(received[b]))

\* A ciphertext is the message of its number in the context whose key it has.
CtInv ==
  \A ct \in cts :
    /\ ct.key \in HpkeKeys /\ ct.nonce \in Nat
    /\ ct.nonce < Len(sent[ct.key[1]])
    /\ ct.text = sent[ct.key[1]][ct.nonce + 1]

HpkeInv == HpkeTypes /\ SenderInv /\ ReceiverInv /\ CtInv

LEMMA HpkeInit == ASSUME SoundHpke, Hp!Init PROVE HpkeInv
<1>1. <<>> \in Seq(HpkeText) /\ Len(<<>>) = 0 /\ MaxSealed \in Nat
  BY EmptySeq DEF SoundHpke, Disjoint
<1>2. HpkeTypes
  BY <1>1 DEF Hp!Init, HpkeTypes
<1>3. SenderInv /\ ReceiverInv /\ CtInv
  BY <1>1 DEF Hp!Init, SenderInv, ReceiverInv, CtInv
<1> QED
  BY <1>2, <1>3 DEF HpkeInv

LEMMA InitiatorSetupStep ==
  ASSUME SoundHpke, HpkeInv, NEW a \in Provers, NEW i \in Passwords, Hp!InitiatorSetup(a, i)
  PROVE  HpkeInv'
<1>1. HpkeTypes'
  BY DEF Hp!InitiatorSetup, HpkeInv, HpkeTypes, HpkeKeys
<1>2. /\ \A c \in Provers \union Verifiers :
           hpKey'[c] = IF c = a THEN {<<a, i>>} ELSE hpKey[c]
      /\ UNCHANGED <<sequence_number, sent, received, cts>>
  BY DEF Hp!InitiatorSetup, HpkeInv, HpkeTypes
<1>3. SenderInv' /\ CtInv'
  BY <1>2 DEF HpkeInv, SenderInv, CtInv
<1>4. ReceiverInv'
  <2>1. \A b \in Verifiers : hpKey'[b] = hpKey[b]
    BY <1>2 DEF SoundHpke, Disjoint
  <2> QED
    BY <1>2, <2>1 DEF HpkeInv, ReceiverInv
<1> QED
  BY <1>1, <1>3, <1>4 DEF HpkeInv

LEMMA ResponderSetupStep ==
  ASSUME SoundHpke, HpkeInv, NEW b \in Verifiers, NEW e \in encs, NEW i \in Passwords,
         Hp!ResponderSetup(b, e, i)
  PROVE  HpkeInv'
<1>1. e \in Provers
  BY DEF HpkeInv, HpkeTypes
<1>2. HpkeTypes'
  BY <1>1 DEF Hp!ResponderSetup, HpkeInv, HpkeTypes, HpkeKeys
<1>3. /\ \A c \in Provers \union Verifiers :
           hpKey'[c] = IF c = b THEN {<<e, i>>} ELSE hpKey[c]
      /\ hpKey[b] = {}
      /\ UNCHANGED <<sequence_number, sent, received, cts>>
  BY DEF Hp!ResponderSetup, HpkeInv, HpkeTypes
<1>4. SenderInv' /\ CtInv'
  <2>1. \A a \in Provers : hpKey'[a] = hpKey[a]
    BY <1>3 DEF SoundHpke, Disjoint
  <2> QED
    BY <1>3, <2>1 DEF HpkeInv, SenderInv, CtInv
<1>5. ReceiverInv'
  <2> SUFFICES ASSUME NEW r \in Verifiers
               PROVE  /\ sequence_number[r] = Len(received[r])
                      /\ hpKey'[r] = {} => received[r] = <<>>
                      /\ \A k \in hpKey'[r] :
                           /\ hpKey'[r] = {k}
                           /\ Len(received[r]) <= Len(sent[k[1]])
                           /\ received[r] = SubSeq(sent[k[1]], 1, Len(received[r]))
    BY <1>3 DEF ReceiverInv
  <2>1. CASE r # b
    BY <1>3, <2>1 DEF HpkeInv, ReceiverInv
  <2>2. CASE r = b
    <3>1. received[b] = <<>> /\ sequence_number[b] = Len(received[b])
      BY <1>3 DEF HpkeInv, ReceiverInv
    <3>2. Len(<<>>) = 0 /\ Len(sent[e]) \in Nat /\ SubSeq(sent[e], 1, 0) = <<>>
      BY <1>1, EmptySeq, LenProperties, SubSeqEmpty DEF HpkeInv, HpkeTypes
    <3>3. hpKey'[r] = {<<e, i>>} /\ <<e, i>>[1] = e
      BY <1>3, <2>2
    <3> QED
      BY <2>2, <3>1, <3>2, <3>3
  <2> QED
    BY <2>1, <2>2
<1> QED
  BY <1>2, <1>4, <1>5 DEF HpkeInv

\* What a sender's step does to what it has sealed.
LEMMA EncryptEffect ==
  ASSUME SoundHpke, HpkeInv, NEW a \in Provers, NEW m \in Texts, Hp!Encrypt(a, m)
  PROVE  /\ \A c \in Provers :
              sent'[c] = IF c = a THEN Append(sent[a], <<a, m>>) ELSE sent[c]
         /\ sent' \in [Provers -> Seq(HpkeText)]
         /\ Len(sent[a]) < MaxSealed /\ Len(sent[a]) \in Nat
         /\ Len(Append(sent[a], <<a, m>>)) = Len(sent[a]) + 1
         /\ \A c \in Provers \union Verifiers :
              sequence_number'[c] = IF c = a THEN Len(sent[a]) + 1 ELSE sequence_number[c]
         /\ sequence_number' \in [Provers \union Verifiers -> Nat]
<1>1. sent[a] \in Seq(HpkeText) /\ <<a, m>> \in HpkeText /\ Len(sent[a]) \in Nat
  BY LenProperties DEF HpkeInv, HpkeTypes, HpkeText
<1>2. Append(sent[a], <<a, m>>) \in Seq(HpkeText)
      /\ Len(Append(sent[a], <<a, m>>)) = Len(sent[a]) + 1
  BY <1>1
<1>3. /\ Len(sent[a]) < MaxSealed /\ sequence_number[a] = Len(sent[a])
      /\ sent' = [sent EXCEPT ![a] = Append(@, <<a, m>>)]
      /\ sequence_number' =
           [sequence_number EXCEPT ![a] = (@ + 1) % 2 ^ CounterBits]
  BY DEF Hp!Encrypt, Hp!Advance, HpkeInv, SenderInv
<1>4. (Len(sent[a]) + 1) % 2 ^ CounterBits = Len(sent[a]) + 1
  <2> DEFINE M == 2 ^ CounterBits
             n == Len(sent[a]) + 1
  <2>1. M \in Nat /\ n \in Nat /\ n < M
    BY <1>1, <1>3 DEF SoundHpke, Disjoint
  <2> HIDE DEF M, n
  <2>2. n % M = n
    BY <2>1
  <2> QED
    BY <2>2 DEF M, n
<1> QED
  BY <1>1, <1>2, <1>3, <1>4 DEF HpkeInv, HpkeTypes

LEMMA EncryptStep ==
  ASSUME SoundHpke, HpkeInv, NEW a \in Provers, NEW m \in Texts, Hp!Encrypt(a, m)
  PROVE  HpkeInv'
<1>1. UNCHANGED <<hpKey, received, encs>>
  BY DEF Hp!Encrypt
<1>2. sent[a] \in Seq(HpkeText) /\ <<a, m>> \in HpkeText
  BY DEF HpkeInv, HpkeTypes, HpkeText
<1> DEFINE longer == Append(sent[a], <<a, m>>)
<1>10. /\ \A c \in Provers : sent'[c] = IF c = a THEN longer ELSE sent[c]
       /\ sent' \in [Provers -> Seq(HpkeText)]
       /\ Len(sent[a]) < MaxSealed /\ Len(sent[a]) \in Nat /\ Len(longer) = Len(sent[a]) + 1
       /\ \A c \in Provers \union Verifiers :
            sequence_number'[c] = IF c = a THEN Len(sent[a]) + 1 ELSE sequence_number[c]
       /\ sequence_number' \in [Provers \union Verifiers -> Nat]
  BY EncryptEffect
<1>11. /\ \A n \in 0 .. Len(sent[a]) : SubSeq(longer, 1, n) = SubSeq(sent[a], 1, n)
       /\ \A i \in 1 .. Len(sent[a]) : longer[i] = sent[a][i]
       /\ longer[Len(sent[a]) + 1] = <<a, m>>
  <2>1. 0 \in 0 .. Len(sent[a])
    BY <1>10
  <2> QED
    BY <1>2, <2>1, BeginningKept
<1> HIDE DEF longer
<1>3. HpkeTypes'
  BY <1>1, <1>10 DEF HpkeInv, HpkeTypes
<1>4. SenderInv'
  <2>1. \A c \in Provers : Len(sent'[c]) <= MaxSealed /\ sequence_number'[c] = Len(sent'[c])
    <3>1. ASSUME NEW c \in Provers
          PROVE  Len(sent'[c]) <= MaxSealed /\ sequence_number'[c] = Len(sent'[c])
      <4>1. CASE c = a
        BY <1>10, <4>1 DEF SoundHpke, Disjoint
      <4>2. CASE c # a
        BY <1>10, <4>2 DEF HpkeInv, SenderInv
      <4> QED
        BY <4>1, <4>2
    <3> QED
      BY <3>1
  <2> QED
    BY <1>1, <2>1 DEF HpkeInv, SenderInv
<1>5. \A c \in Provers : \A n \in 0 .. Len(sent[c]) :
        Len(sent[c]) <= Len(sent'[c]) /\ SubSeq(sent'[c], 1, n) = SubSeq(sent[c], 1, n)
  <2> SUFFICES ASSUME NEW c \in Provers, NEW n \in 0 .. Len(sent[c])
               PROVE  Len(sent[c]) <= Len(sent'[c])
                      /\ SubSeq(sent'[c], 1, n) = SubSeq(sent[c], 1, n)
    OBVIOUS
  <2>1. CASE c = a
    BY <1>10, <1>11, <2>1
  <2>2. CASE c # a
    <3>1. sent'[c] = sent[c] /\ Len(sent[c]) \in Nat
      BY <1>10, <2>2, LenProperties DEF HpkeInv, HpkeTypes
    <3> QED
      BY <3>1
  <2> QED
    BY <2>1, <2>2
<1>6. ReceiverInv'
  <2> SUFFICES ASSUME NEW b \in Verifiers
               PROVE  /\ sequence_number'[b] = Len(received[b])
                      /\ hpKey[b] = {} => received[b] = <<>>
                      /\ \A k \in hpKey[b] :
                           /\ hpKey[b] = {k}
                           /\ Len(received[b]) <= Len(sent'[k[1]])
                           /\ received[b] = SubSeq(sent'[k[1]], 1, Len(received[b]))
    BY <1>1 DEF ReceiverInv
  <2>1. sequence_number'[b] = sequence_number[b]
    BY <1>10 DEF SoundHpke, Disjoint
  <2>2. ASSUME NEW k \in hpKey[b]
        PROVE  /\ hpKey[b] = {k}
               /\ Len(received[b]) <= Len(sent'[k[1]])
               /\ received[b] = SubSeq(sent'[k[1]], 1, Len(received[b]))
    <3>1. k[1] \in Provers
      BY DEF HpkeInv, HpkeTypes, HpkeKeys
    <3>2. /\ hpKey[b] = {k} /\ Len(received[b]) <= Len(sent[k[1]])
          /\ received[b] = SubSeq(sent[k[1]], 1, Len(received[b]))
      BY DEF HpkeInv, ReceiverInv
    <3>3. Len(received[b]) \in Nat /\ Len(sent[k[1]]) \in Nat /\ Len(sent'[k[1]]) \in Nat
      BY <3>1, LenProperties, <1>10 DEF HpkeInv, HpkeTypes
    <3> QED
      BY <1>5, <3>1, <3>2, <3>3
  <2> QED
    BY <2>1, <2>2 DEF HpkeInv, ReceiverInv
<1>7. CtInv'
  <2> SUFFICES ASSUME NEW ct \in cts'
               PROVE  /\ ct.key \in HpkeKeys /\ ct.nonce \in Nat
                      /\ ct.nonce < Len(sent'[ct.key[1]])
                      /\ ct.text = sent'[ct.key[1]][ct.nonce + 1]
    BY DEF CtInv
  <2>1. CASE ct \in cts
    <3>1. /\ ct.key \in HpkeKeys /\ ct.nonce \in Nat /\ ct.nonce < Len(sent[ct.key[1]])
          /\ ct.text = sent[ct.key[1]][ct.nonce + 1] /\ ct.key[1] \in Provers
      BY <2>1 DEF HpkeInv, CtInv, HpkeKeys
    <3>2. CASE ct.key[1] = a
      <4>1. ct.nonce + 1 \in 1 .. Len(sent[a]) /\ 0 \in 0 .. Len(sent[a])
        BY <3>1, <3>2, <1>10
      <4>2. longer[ct.nonce + 1] = sent[a][ct.nonce + 1]
        BY <1>11, <4>1
      <4>3. sent'[a] = longer /\ ct.nonce < Len(longer)
        BY <1>10, <3>1, <3>2
      <4> QED
        BY <3>1, <3>2, <4>2, <4>3
    <3>3. CASE ct.key[1] # a
      BY <3>1, <3>3, <1>10
    <3> QED
      BY <3>2, <3>3
  <2>2. CASE ct \notin cts
    <3>1. PICK k \in hpKey[a] : ct = Hp!Sealed(a, k, m)
      BY <2>2 DEF Hp!Encrypt
    <3>2. k \in HpkeKeys /\ k[1] = a /\ sequence_number[a] = Len(sent[a])
      BY DEF HpkeInv, HpkeTypes, SenderInv
    <3>3. ct.key = k /\ ct.nonce = Len(sent[a]) /\ ct.text = <<a, m>>
      BY <3>1, <3>2 DEF Hp!Sealed
    <3>4. sent'[a] = longer /\ Len(sent[a]) < Len(longer)
      BY <1>10
    <3> QED
      BY <1>10, <1>11, <3>2, <3>3, <3>4
  <2> QED
    BY <2>1, <2>2
<1> QED
  BY <1>3, <1>4, <1>6, <1>7 DEF HpkeInv

\* A message that opens is the next one of the context whose key it has.
LEMMA DecryptEffect ==
  ASSUME SoundHpke, HpkeInv, NEW b \in Verifiers, NEW ct \in cts, Hp!Decrypt(b, ct)
  PROVE  \E a \in Provers :
           /\ a = ct.key[1] /\ hpKey[b] = {ct.key}
           /\ Len(received[b]) < Len(sent[a]) /\ Len(received[b]) \in Nat
           /\ received[b] = SubSeq(sent[a], 1, Len(received[b]))
           /\ ct.text = sent[a][Len(received[b]) + 1] /\ ct.text \in HpkeText
           /\ received' = [received EXCEPT ![b] = Append(@, sent[a][Len(received[b]) + 1])]
           /\ sequence_number' = [sequence_number EXCEPT ![b] = Len(received[b]) + 1]
<1>1. /\ ct.key \in hpKey[b] /\ ct.nonce = sequence_number[b] /\ ct.key[1] \in Provers
      /\ ct.nonce < Len(sent[ct.key[1]]) /\ ct.nonce \in Nat
      /\ ct.text = sent[ct.key[1]][ct.nonce + 1]
      /\ received' = [received EXCEPT ![b] = Append(@, ct.text)]
  BY DEF Hp!Decrypt, Hp!Opens, HpkeInv, CtInv, HpkeKeys
<1>2. /\ sequence_number[b] = Len(received[b]) /\ hpKey[b] = {ct.key}
      /\ received[b] = SubSeq(sent[ct.key[1]], 1, Len(received[b]))
  BY <1>1 DEF HpkeInv, ReceiverInv
<1>3. Len(sent[ct.key[1]]) \in Nat /\ Len(sent[ct.key[1]]) <= MaxSealed
  BY <1>1, LenProperties DEF HpkeInv, HpkeTypes, SenderInv
<1>4. ct.text \in HpkeText
  <2>1. ct.nonce + 1 \in 1 .. Len(sent[ct.key[1]])
    BY <1>1, <1>3
  <2> QED
    BY <1>1, <2>1, ElementOfSeq DEF HpkeInv, HpkeTypes
<1>5. (sequence_number[b] + 1) % 2 ^ CounterBits = Len(received[b]) + 1
  <2> DEFINE M == 2 ^ CounterBits
             n == Len(received[b]) + 1
  <2>1. M \in Nat /\ n \in Nat /\ n < M
    BY <1>1, <1>2, <1>3 DEF SoundHpke, Disjoint
  <2> HIDE DEF M, n
  <2>2. n % M = n
    BY <2>1
  <2> QED
    BY <1>2, <2>2 DEF M, n
<1>6. sequence_number' = [sequence_number EXCEPT ![b] = Len(received[b]) + 1]
  BY <1>5 DEF Hp!Decrypt, Hp!Advance
<1> QED
  BY <1>1, <1>2, <1>4, <1>6

LEMMA DecryptStep ==
  ASSUME SoundHpke, HpkeInv, NEW b \in Verifiers, NEW ct \in cts, Hp!Decrypt(b, ct)
  PROVE  HpkeInv'
<1>1. UNCHANGED <<hpKey, sent, encs, cts>>
  BY DEF Hp!Decrypt
<1>2. PICK a \in Provers :
        /\ a = ct.key[1] /\ hpKey[b] = {ct.key}
        /\ Len(received[b]) < Len(sent[a]) /\ Len(received[b]) \in Nat
        /\ received[b] = SubSeq(sent[a], 1, Len(received[b]))
        /\ ct.text = sent[a][Len(received[b]) + 1] /\ ct.text \in HpkeText
        /\ received' = [received EXCEPT ![b] = Append(@, sent[a][Len(received[b]) + 1])]
        /\ sequence_number' = [sequence_number EXCEPT ![b] = Len(received[b]) + 1]
  BY DecryptEffect
<1> DEFINE n == Len(received[b])
           longer == Append(received[b], ct.text)
<1>3. /\ received[b] \in Seq(HpkeText) /\ longer \in Seq(HpkeText) /\ Len(longer) = n + 1
  BY <1>2 DEF HpkeInv, HpkeTypes
<1>4. /\ sent[a] \in Seq(HpkeText) /\ Len(sent[a]) \in Nat /\ n + 1 \in 1 .. Len(sent[a])
  BY <1>2, LenProperties DEF HpkeInv, HpkeTypes
<1>5. longer = SubSeq(sent[a], 1, n + 1)
  <2>1. SubSeq(sent[a], 1, n + 1) = SubSeq(sent[a], 1, (n + 1) - 1) \o <<sent[a][n + 1]>>
    BY <1>4, SubSeqRecursiveSecond
  <2>2. SubSeq(sent[a], 1, (n + 1) - 1) = received[b]
    BY <1>2
  <2>3. Append(received[b], ct.text) = received[b] \o <<ct.text>>
    BY <1>2, <1>3, AppendIsConcat
  <2> QED
    BY <1>2, <2>1, <2>2, <2>3
<1>6. /\ \A r \in Verifiers : received'[r] = IF r = b THEN longer ELSE received[r]
      /\ \A c \in Provers \union Verifiers :
           sequence_number'[c] = IF c = b THEN n + 1 ELSE sequence_number[c]
      /\ received' \in [Verifiers -> Seq(HpkeText)]
      /\ sequence_number' \in [Provers \union Verifiers -> Nat]
  BY <1>2, <1>3 DEF HpkeInv, HpkeTypes
<1> HIDE DEF n, longer
<1>7. HpkeTypes' /\ CtInv'
  BY <1>1, <1>6 DEF HpkeInv, HpkeTypes, CtInv
<1>8. SenderInv'
  <2>1. \A c \in Provers : sequence_number'[c] = sequence_number[c]
    BY <1>6 DEF SoundHpke, Disjoint
  <2> QED
    BY <1>1, <2>1 DEF HpkeInv, SenderInv
<1>9. ReceiverInv'
  <2> SUFFICES ASSUME NEW r \in Verifiers
               PROVE  /\ sequence_number'[r] = Len(received'[r])
                      /\ hpKey[r] = {} => received'[r] = <<>>
                      /\ \A k \in hpKey[r] :
                           /\ hpKey[r] = {k}
                           /\ Len(received'[r]) <= Len(sent[k[1]])
                           /\ received'[r] = SubSeq(sent[k[1]], 1, Len(received'[r]))
    BY <1>1 DEF ReceiverInv
  <2>1. CASE r # b
    BY <1>6, <2>1 DEF HpkeInv, ReceiverInv
  <2>2. CASE r = b
    <3>1. hpKey[b] = {ct.key} /\ ct.key[1] = a
      BY <1>2
    <3>2. /\ received'[b] = longer /\ Len(longer) = n + 1 /\ sequence_number'[b] = n + 1
      BY <1>3, <1>6
    <3>3. /\ Len(longer) <= Len(sent[a]) /\ longer = SubSeq(sent[a], 1, Len(longer))
      BY <1>4, <1>5, <3>2
    <3> QED
      BY <2>2, <3>1, <3>2, <3>3
  <2> QED
    BY <2>1, <2>2
<1> QED
  BY <1>7, <1>8, <1>9 DEF HpkeInv

LEMMA HpkeStep == ASSUME SoundHpke, HpkeInv, [Hp!Next]_hpke PROVE HpkeInv'
<1>1. CASE UNCHANGED hpke
  BY <1>1 DEF hpke, HpkeInv, HpkeTypes, SenderInv, ReceiverInv, CtInv
<1>2. CASE Hp!Next
  BY <1>2, InitiatorSetupStep, ResponderSetupStep, EncryptStep, DecryptStep DEF Hp!Next
<1> QED
  BY <1>1, <1>2


(* The refinement: sealing sends, opening receives, the rest stutters. *)

LEMMA HpkeChannelStep ==
  ASSUME SoundHpke, HpkeInv, [Hp!Next]_hpke
  PROVE  [Hp!Channel!Next]_<<sent, received>>
<1>1. CASE UNCHANGED hpke
  BY <1>1 DEF hpke
<1>2. ASSUME NEW a \in Provers, NEW m \in Texts, Hp!Encrypt(a, m)
      PROVE  Hp!Channel!Next
  BY <1>2 DEF Hp!Encrypt, Hp!Channel!Next, Hp!Channel!Send
<1>3. ASSUME NEW b \in Verifiers, NEW ct \in cts, Hp!Decrypt(b, ct)
      PROVE  Hp!Channel!Next
  <2>1. PICK a \in Provers :
          /\ Len(received[b]) < Len(sent[a])
          /\ received[b] = SubSeq(sent[a], 1, Len(received[b]))
          /\ received' = [received EXCEPT ![b] = Append(@, sent[a][Len(received[b]) + 1])]
    BY <1>3, DecryptEffect
  <2>2. UNCHANGED sent
    BY <1>3 DEF Hp!Decrypt
  <2>3. Hp!Channel!Receive(a, b)
    BY <2>1, <2>2 DEF Hp!Channel!Receive
  <2> QED
    BY <2>3 DEF Hp!Channel!Next
<1>4. ASSUME NEW a \in Provers, NEW i \in Passwords, Hp!InitiatorSetup(a, i)
      PROVE  UNCHANGED <<sent, received>>
  BY <1>4 DEF Hp!InitiatorSetup
<1>5. ASSUME NEW b \in Verifiers, NEW e \in encs, NEW i \in Passwords, Hp!ResponderSetup(b, e, i)
      PROVE  UNCHANGED <<sent, received>>
  BY <1>5 DEF Hp!ResponderSetup
<1> QED
  BY <1>1, <1>2, <1>3, <1>4, <1>5 DEF Hp!Next

LEMMA HpkeMoves == ASSUME [MCNext]_mcVars PROVE [Hp!Next]_hpke
BY DEF MCNext, mcVars

LEMMA HpkeImplements == ASSUME SoundHpke PROVE MCSpec => Hp!ImplementsChannel
<1>1. MCInit => HpkeInv /\ Hp!Channel!Init
  BY HpkeInit DEF MCInit, Hp!Init, Hp!Channel!Init
<1>2. HpkeInv /\ [MCNext]_mcVars => HpkeInv' /\ [Hp!Channel!Next]_<<sent, received>>
  BY HpkeMoves, HpkeStep, HpkeChannelStep
<1> QED
  BY <1>1, <1>2, PTL DEF MCSpec, Hp!ImplementsChannel, Hp!Channel!Spec

-----------------------------------------------------------------------------
(* All protocols.                                                          *)

\* In SAE and SPAKE2+ partners with one password accept each other's confirmation,
\* whatever order their calls came in and whatever failed on the way; in SRP they do
\* exactly if neither computed its session after a call that failed with a new private
\* key and the old public one.
THEOREM PartnersAlwaysAccept == ASSUME Disjoint PROVE MCSpec => []PartnersAccept
<1>1. SaeInv /\ SpakeInv /\ SrpInv => PartnersAccept
  BY SaeConfirm, SpakeConfirm, SrpConfirm DEF PartnersAccept
<1> QED
  BY <1>1, SaeInvariance, SpakeInvariance, SrpInvariance, PTL

\* What ccsigma_open and cchpke_responder_decrypt give is what one peer sealed, in order
\* and once, whatever the network does with the messages.
THEOREM SealedInOrder == ASSUME SoundHpke PROVE MCSpec => ImplementsChannel
BY SigmaImplements, HpkeImplements, PTL DEF ImplementsChannel
=============================================================================
