------------------------------- MODULE Spake -------------------------------
(***************************************************************************)
(* SPAKE2+ (src/ccspake/src): contexts of provers and verifiers, the four  *)
(* calls that move each through the protocol, and a network that loses,    *)
(* repeats, reorders and misdelivers their messages.                       *)
(*                                                                         *)
(* Group elements are named by what they are made of.  A share is the      *)
(* scalar, w0 and the side it was made with; a product of scalars is the   *)
(* set of them.  Taking the peer's blinding off a share (T = Q - w0 * MN)  *)
(* leaves the scalar if w0 and the sides fit, and otherwise a point that   *)
(* nobody else knows, named by the share and w0.  A hash or a MAC is the   *)
(* record of what goes into it.                                            *)
(***************************************************************************)
EXTENDS Integers, FiniteSets

CONSTANTS
  Provers, Verifiers,   \* contexts
  Passwords,            \* what w0, w1 and L derive from
  MaxFailures           \* bound: calls that fail for want of randomness or memory

Parties == Provers \union Verifiers

VARIABLES
  state,      \* context -> its flags, CCSPAKE_STATE_*
  password,   \* context -> the password behind w0, w1 and L
  xy, XY,     \* context -> our scalar and share, as sets of at most one
  drawn,      \* context -> scalars drawn so far
  Q, Z, V,    \* context -> the peer's share and the two products, likewise
  sk,         \* context -> the session key given to the caller, likewise
  shares,     \* network: shares sent
  macs,       \* network: MACs sent
  failures

context == <<state, password, xy, XY, drawn, Q, Z, V, sk>>
vars == <<state, password, xy, XY, drawn, Q, Z, V, sk, shares, macs, failures>>

\* The flags; a state names all the flags of the states it implies.
INIT == {"init"}
KEX_GENERATE == INIT \union {"kex_generate"}
KEX_PROCESS == INIT \union {"kex_process"}
KEX_BOTH == KEX_GENERATE \union KEX_PROCESS
MAC_GENERATE == KEX_BOTH \union {"mac_generate"}
MAC_VERIFY == KEX_BOTH \union {"mac_verify"}

ExpectStates(c, s, t) == state[c] = s \/ state[c] = t
AddState(c, s) == state' = [state EXCEPT ![c] = @ \union s]

Side(c) == IF c \in Provers THEN "prover" ELSE "verifier"
The(S) == CHOOSE x \in S : TRUE
None == [c \in Parties |-> {}]

Init ==
  /\ state = [c \in Parties |-> INIT]
  /\ password \in [Parties -> Passwords]
  /\ xy = None /\ XY = None /\ drawn = [c \in Parties |-> 0]
  /\ Q = None /\ Z = None /\ V = None /\ sk = None
  /\ shares = {} /\ macs = {}
  /\ failures = 0

(***************************************************************************)
(* Key exchange.                                                           *)
(***************************************************************************)
Share(c, scalar) == [scalar |-> scalar, w0 |-> password[c], side |-> Side(c)]

\* ccspake_lazy_gen_xy_XY_ws: a scalar is drawn once and kept.
LazyGenerate(c) ==
  IF xy[c] # {} THEN UNCHANGED <<drawn, xy, XY>>
  ELSE /\ drawn' = [drawn EXCEPT ![c] = @ + 1]
       /\ xy' = [xy EXCEPT ![c] = {<<c, drawn'[c]>>}]
       /\ XY' = [XY EXCEPT ![c] = {Share(c, <<c, drawn'[c]>>)}]

\* ccspake_kex_generate.
KexGenerate(c) ==
  /\ ExpectStates(c, INIT, KEX_PROCESS)
  /\ LazyGenerate(c)
  /\ shares' = shares \union XY'[c]
  /\ AddState(c, KEX_GENERATE)
  /\ UNCHANGED <<password, Q, Z, V, sk, macs, failures>>

\* Whether taking w0 * M or w0 * N off the peer's share leaves scalar * G.
Fits(c, q) == q.w0 = password[c] /\ q.side # Side(c)
Stray(c, q) == IF Fits(c, q) THEN {} ELSE {<<q, password[c]>>}
PeerScalar(c, q) == IF Fits(c, q) THEN {q.scalar} ELSE {}

\* Z = xy * T; V = w1 * T for a prover, y * L for a verifier.
ProductZ(c, scalars, q) ==
  [scalars |-> scalars \union PeerScalar(c, q), stray |-> Stray(c, q)]
ProductV(c, scalars, q) ==
  IF c \in Provers
  THEN [w1 |-> password[c], scalars |-> PeerScalar(c, q), stray |-> Stray(c, q)]
  ELSE [w1 |-> password[c], scalars |-> scalars, stray |-> {}]

\* ccspake_kex_process: a share that is not ours is taken, once.
KexProcess(c, q) ==
  /\ ExpectStates(c, INIT, KEX_GENERATE)
  /\ LazyGenerate(c)
  /\ q \notin XY'[c]
  /\ Q' = [Q EXCEPT ![c] = {q}]
  /\ Z' = [Z EXCEPT ![c] = {ProductZ(c, xy'[c], q)}]
  /\ V' = [V EXCEPT ![c] = {ProductV(c, xy'[c], q)}]
  /\ AddState(c, KEX_PROCESS)
  /\ UNCHANGED <<password, sk, shares, macs, failures>>

\* Either call fails before its own effect: before the scalar, or after it was kept.
KexFail(c) ==
  /\ failures < MaxFailures /\ failures' = failures + 1
  /\ state[c] \in {INIT, KEX_GENERATE, KEX_PROCESS}
  /\ LazyGenerate(c)
  /\ UNCHANGED <<state, password, Q, Z, V, sk, shares, macs>>

\* A share of our own comes back: the scalar was drawn, the share is refused.
KexRefuse(c) ==
  /\ ExpectStates(c, INIT, KEX_GENERATE)
  /\ \E q \in shares : q \in XY[c]
  /\ UNCHANGED vars

(***************************************************************************)
(* Key confirmation.                                                       *)
(***************************************************************************)

\* ccspake_derive_shared_key_ws: the prover's share goes first.
SharedKey(c) ==
  LET own == The(XY[c]) peer == The(Q[c]) IN
  [X |-> IF c \in Provers THEN own ELSE peer, Y |-> IF c \in Provers THEN peer ELSE own,
   Z |-> The(Z[c]), V |-> The(V[c]), w0 |-> password[c]]

Mac(key, useK1, share) == [key |-> key, k1 |-> useK1, share |-> share]

\* ccspake_mac_compute: a MAC of the peer's share.
MacCompute(c) ==
  /\ ExpectStates(c, KEX_BOTH, MAC_VERIFY)
  /\ macs' = macs \union {Mac(SharedKey(c), c \notin Provers, The(Q[c]))}
  /\ AddState(c, MAC_GENERATE)
  /\ UNCHANGED <<password, xy, XY, drawn, Q, Z, V, sk, shares, failures>>

\* Mutant: a context expects the MAC it would send itself.
ExpectedMacOfOwn(c) == Mac(SharedKey(c), c \notin Provers, The(Q[c]))

\* The MAC ccspake_mac_verify_and_get_session_key compares with: of our own share.
ExpectedMac(c) == Mac(SharedKey(c), c \in Provers, The(XY[c]))

\* ccspake_mac_verify_and_get_session_key.
MacAccept(c, m) ==
  /\ ExpectStates(c, KEX_BOTH, MAC_GENERATE)
  /\ m = ExpectedMac(c)
  /\ sk' = [sk EXCEPT ![c] = {SharedKey(c)}]
  /\ AddState(c, MAC_VERIFY)
  /\ UNCHANGED <<password, xy, XY, drawn, Q, Z, V, shares, macs, failures>>

\* A MAC that differs is refused and leaves the context as it was.
MacRefuse(c, m) ==
  /\ ExpectStates(c, KEX_BOTH, MAC_GENERATE)
  /\ m # ExpectedMac(c)
  /\ UNCHANGED vars

Next ==
  \E c \in Parties :
    \/ KexGenerate(c) \/ KexFail(c) \/ KexRefuse(c)
    \/ \E q \in shares : KexProcess(c, q)
    \/ MacCompute(c)
    \/ \E m \in macs : MacAccept(c, m) \/ MacRefuse(c, m)

Spec == Init /\ [][Next]_vars

(***************************************************************************)
(* Properties.                                                             *)
(***************************************************************************)

\* A context that has its session key has a partner of the other side, one only, with
\* the same password, the shares crossed and the same key, that has sent its MAC:
\* whatever was lost, repeated, reordered or delivered to another session.
Agreement ==
  \A c \in Parties : sk[c] # {} =>
    \E d \in Parties :
      /\ Side(d) # Side(c) /\ password[d] = password[c]
      /\ Q[c] = XY[d] /\ Q[d] = XY[c]
      /\ MAC_GENERATE \subseteq state[d]
      /\ sk[c] = {SharedKey(d)}
      /\ \A e \in Parties \ {d} : Q[e] # XY[c] \/ Q[c] # XY[e]

\* Two contexts with one password that took each other's share expect each other's
\* MAC, in whichever order either generated and processed, and after failed calls.
Took(c, d) == Q[c] # {} /\ The(Q[c]).scalar[1] = d
PartnersConfirm ==
  \A p \in Provers, v \in Verifiers :
    (password[p] = password[v] /\ Took(p, v) /\ Took(v, p)) =>
      /\ ExpectedMac(p) = Mac(SharedKey(v), TRUE, The(Q[v]))
      /\ ExpectedMac(v) = Mac(SharedKey(p), FALSE, The(Q[p]))
=============================================================================
