------------------------------- MODULE Sigma -------------------------------
(***************************************************************************)
(* SIGMA-I (src/ccsigma/src): contexts of initiators and responders that   *)
(* exchange key shares, sign them with a MAC of their identity, and seal   *)
(* what they send, and a network that loses, repeats, reorders and         *)
(* misdelivers.  No state machine puts the calls in order.                 *)
(*                                                                         *)
(* A context stands for its share, its identity and its signing key.  The  *)
(* session keys are named by the shares they derive from, the keys of one  *)
(* role by that role.                                                      *)
(***************************************************************************)
EXTENDS Integers, Sequences

CONSTANTS
  Initiators, Responders,   \* contexts
  Messages,                 \* what callers seal, besides signatures
  MaxSealed                 \* bound: messages sealed by one context

Parties == Initiators \union Responders
Roles == {"INIT", "RESP"}

VARIABLES
  peerShare,       \* context -> the peer's share, a set of at most one
  sessionKeys,     \* context -> what session_keys derive from, likewise
  iv,              \* context -> role -> how far the IV of its keys was incremented
  sent, received,  \* context -> what its caller sealed, and was given by open
  accepted,        \* context -> identities whose signature was verified
  cts              \* the network: sealed messages

vars == <<peerShare, sessionKeys, iv, sent, received, accepted, cts>>

\* ccsigma_init, by every context.
Init ==
  /\ peerShare = [c \in Parties |-> {}] /\ sessionKeys = [c \in Parties |-> {}]
  /\ iv = [c \in Parties |-> [r \in Roles |-> 0]]
  /\ sent = [c \in Parties |-> <<>>] /\ received = [c \in Parties |-> <<>>]
  /\ accepted = [c \in Parties |-> {}]
  /\ cts = {}

Role(c) == IF c \in Initiators THEN "INIT" ELSE "RESP"

\* ccsigma_peer_role.
PeerRole(c) == IF Role(c) = "INIT" THEN "RESP" ELSE "INIT"

(***************************************************************************)
(* Key exchange.                                                           *)
(***************************************************************************)
\* ccsigma_import_peer_key_share, of a share that ccsigma_export_key_share gave some
\* context's caller; a caller imports before it derives.
ImportPeerKeyShare(c, share) ==
  /\ sessionKeys[c] = {}
  /\ peerShare' = [peerShare EXCEPT ![c] = {share}]
  /\ UNCHANGED <<sessionKeys, iv, sent, received, accepted, cts>>

\* ccsigma_kex_init_ctx and ccsigma_kex_resp_ctx: shares in the order of the roles.
Ordered(c, share) ==
  IF Role(c) = "INIT" THEN [INIT |-> c, RESP |-> share] ELSE [INIT |-> share, RESP |-> c]

\* ccsigma_derive_session_keys; a caller derives once.
DeriveSessionKeys(c) ==
  /\ sessionKeys[c] = {}
  /\ peerShare[c] # {}
  /\ sessionKeys' = [sessionKeys EXCEPT ![c] = {Ordered(c, x) : x \in peerShare[c]}]
  /\ UNCHANGED <<peerShare, iv, sent, received, accepted, cts>>

(***************************************************************************)
(* Signatures.                                                             *)
(***************************************************************************)

\* What a signature is of: both shares and a MAC of the signer's identity, made with a
\* key of the role it is made in.
Digest(shareOf, role, identity) == [shares |-> shareOf, mac |-> <<shareOf, role, identity>>]

\* ccsigma_sign.
Signature(c, k) == [signer |-> c, of |-> Digest(k, Role(c), c)]

\* Mutant: the signature is checked with the key of whoever signed.
VerifiesAnySigner(c, k, signature, identity) ==
  signature.of = Digest(k, PeerRole(c), signature.signer)

\* ccsigma_verify, with the verification key of the identity that is claimed.
Verifies(c, k, signature, identity) ==
  signature.signer = identity /\ signature.of = Digest(k, PeerRole(c), identity)

(***************************************************************************)
(* Sealed messages.                                                        *)
(***************************************************************************)
NextIv(c, role) == iv' = [iv EXCEPT ![c][role] = @ + 1]

\* What a context may seal: a message, or its signature once it can sign.
Plaintexts(c) ==
  Messages \union {Signature(c, k) : k \in sessionKeys[c]}

\* ccsigma_seal, with the keys of our role; a failed call leaves the IV and gives nothing.
Seal(c, p) ==
  /\ Len(sent[c]) < MaxSealed
  /\ \E k \in sessionKeys[c] :
       cts' = cts \union {[keys |-> <<k, Role(c)>>, iv |-> iv[c][Role(c)], text |-> <<c, p>>]}
  /\ NextIv(c, Role(c))
  /\ sent' = [sent EXCEPT ![c] = Append(@, <<c, p>>)]
  /\ UNCHANGED <<peerShare, sessionKeys, received, accepted>>

\* Whether ccsigma_open finds the tag: with the keys and the IV of the peer's role.
Opens(c, ct) ==
  \E k \in sessionKeys[c] : ct.keys = <<k, PeerRole(c)>> /\ ct.iv = iv[c][PeerRole(c)]

\* ccsigma_open; a message that does not open leaves the IV.
Open(c, ct) ==
  /\ Opens(c, ct)
  /\ NextIv(c, PeerRole(c))
  /\ received' = [received EXCEPT ![c] = Append(@, ct.text)]
  /\ UNCHANGED <<peerShare, sessionKeys, sent, accepted, cts>>

\* ccsigma_verify of a signature that came sealed.
Verify(c, text, identity) ==
  /\ text[2] \notin Messages
  /\ \E k \in sessionKeys[c] : Verifies(c, k, text[2], identity)
  /\ accepted' = [accepted EXCEPT ![c] = @ \union {identity}]
  /\ UNCHANGED <<peerShare, sessionKeys, iv, sent, received, cts>>

Next ==
  \E c \in Parties :
    \/ DeriveSessionKeys(c)
    \/ \E share \in Parties : ImportPeerKeyShare(c, share)
    \/ \E p \in Plaintexts(c) : Seal(c, p)
    \/ \E ct \in cts : Open(c, ct)
    \/ \E i \in DOMAIN received[c], d \in Parties : Verify(c, received[c][i], d)

Spec == Init /\ [][Next]_vars

(***************************************************************************)
(* Properties.                                                             *)
(***************************************************************************)

\* All that any context may seal.
Sealable == Messages \union {Signature(c, Ordered(c, d)) : c \in Parties, d \in Parties}

Channel == INSTANCE SealedChannel WITH
             Senders <- Parties, Receivers <- Parties, Messages <- Sealable

\* What a context opens is what one context sealed, in order and once, however often
\* messages that do not open are tried in between (ccsigma_seal, ccsigma_open).
ImplementsChannel == Channel!Spec

\* A context that verified a signature has one partner, of the other role, whose share it
\* took, that holds the same session keys, and whose identity it verified and no other
\* (ccsigma_verify).
Agreement ==
  \A c \in Parties : \A d \in accepted[c] :
    /\ Role(d) # Role(c)
    /\ peerShare[c] = {d}
    /\ sessionKeys[d] = sessionKeys[c]
    /\ accepted[c] = {d}
=============================================================================
