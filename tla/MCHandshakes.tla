---------------------------- MODULE MCHandshakes ----------------------------
(***************************************************************************)
(* Protocols between parties over a network that loses, repeats, reorders  *)
(* and misdelivers.  They share no state: a behaviour is one of them, and  *)
(* the others keep their initial state.                                    *)
(***************************************************************************)
EXTENDS Sae, TLC

CONSTANTS
  Provers, Verifiers,      \* the contexts of either side of SPAKE2+, SRP, CKG and HPKE
  Initiators, Responders,  \* and of SIGMA
  Texts,                   \* messages to seal
  MaxKeys, MaxScalars, MaxSealed,   \* bounds of SRP; CKG; SIGMA and HPKE
  CounterBits              \* of HPKE's counter

VARIABLES protocol,
  skState, skPassword, xy, XY, skDrawn, Q, Z, V, sk, shares, macs, skFailures,
  account, private, public, srpKeys, session, authenticated, verified, srpWire,
  ckgState, ckgS, ckgR, commitment, ckgKey, scalars, ckgWire,
  peerShare, sessionKeys, iv, siSent, siReceived, siAccepted, siCts,
  hpKey, sequence_number, sent, received, encs, cts

spake == <<skState, skPassword, xy, XY, skDrawn, Q, Z, V, sk, shares, macs, skFailures>>
srp == <<account, private, public, srpKeys, session, authenticated, verified, srpWire>>
ckg == <<ckgState, ckgS, ckgR, commitment, ckgKey, scalars, ckgWire>>
sigma == <<peerShare, sessionKeys, iv, siSent, siReceived, siAccepted, siCts>>
hpke == <<hpKey, sequence_number, sent, received, encs, cts>>

Sp == INSTANCE Spake WITH
        state <- skState, password <- skPassword, drawn <- skDrawn, failures <- skFailures

Sr == INSTANCE Srp WITH
        Clients <- Provers, Servers <- Verifiers, Accounts <- Passwords,
        keys <- srpKeys, wire <- srpWire

Ck == INSTANCE Ckg WITH
        Contributors <- Provers, Owners <- Verifiers,
        s <- ckgS, r <- ckgR, sk <- ckgKey, wire <- ckgWire

Si == INSTANCE Sigma WITH
        Messages <- Texts,
        sent <- siSent, received <- siReceived, accepted <- siAccepted, cts <- siCts

Hp == INSTANCE Hpke WITH
        Senders <- Provers, Receivers <- Verifiers, Infos <- Passwords, Messages <- Texts,
        key <- hpKey

aPassword == CHOOSE w \in Passwords : TRUE

MCInit ==
  /\ protocol \in {"SAE", "SPAKE2+", "SRP", "CKG", "SIGMA", "HPKE"}
  /\ Init /\ (protocol # "SAE" => \A c \in Contexts : password[c] = aPassword)
  /\ Sp!Init /\ (protocol # "SPAKE2+" => \A c \in Provers \union Verifiers : skPassword[c] = aPassword)
  /\ Sr!Init /\ (protocol # "SRP" => \A c \in Provers \union Verifiers : account[c] = aPassword)
  /\ Ck!Init /\ Si!Init /\ Hp!Init

MCNext ==
  /\ UNCHANGED protocol
  /\ \/ protocol = "SAE" /\ Next /\ UNCHANGED <<spake, srp, ckg, sigma, hpke>>
     \/ protocol = "SPAKE2+" /\ Sp!Next /\ UNCHANGED <<vars, srp, ckg, sigma, hpke>>
     \/ protocol = "SRP" /\ Sr!Next /\ UNCHANGED <<vars, spake, ckg, sigma, hpke>>
     \/ protocol = "CKG" /\ Ck!Next /\ UNCHANGED <<vars, spake, srp, sigma, hpke>>
     \/ protocol = "SIGMA" /\ Si!Next /\ UNCHANGED <<vars, spake, srp, ckg, hpke>>
     \/ protocol = "HPKE" /\ Hp!Next /\ UNCHANGED <<vars, spake, srp, ckg, sigma>>

mcVars == <<protocol, vars, spake, srp, ckg, sigma, hpke>>

MCSpec == MCInit /\ [][MCNext]_mcVars

Symmetry == Permutations(Provers) \union Permutations(Verifiers)

\* The agreements of Spake, Srp, Sigma and Ckg.
SpakeAgreement == Sp!Agreement
SrpAgreement == Sr!Agreement
SigmaAgreement == Si!Agreement
CkgAgreement == Ck!Unbiased /\ Ck!Agreement

\* In SAE and SPAKE2+ partners with one password accept each other's confirmation, in
\* whatever order their calls come and whatever failed on the way; in SRP they accept it
\* exactly if neither of them went on after a failed call that left it a new private key
\* with the old public one (ccsae_verify_confirmation.c, ccspake_mac.c, ccsrp_server.c,
\* ccsrp_client.c).
PartnersAccept == PartnersConfirm /\ Sp!PartnersConfirm /\ Sr!PartnersConfirm

\* HPKE and the sealed messages of SIGMA implement SealedChannel: what a context opens
\* is what one context sealed, in order and once (cchpke.c:757,789; ccsigma.c:358,401).
ImplementsChannel == Si!ImplementsChannel /\ Hp!ImplementsChannel
=============================================================================
