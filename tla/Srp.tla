-------------------------------- MODULE Srp --------------------------------
(***************************************************************************)
(* SRP-6a (src/ccsrp/src): contexts of clients and servers, whose calls no *)
(* state machine puts in order, and a network that loses, repeats,         *)
(* reorders and misdelivers their messages.  A context may run again, and  *)
(* a call may fail after it has replaced the private key.                  *)
(*                                                                         *)
(* A group element is named by what it is made of: A by its exponent, B by *)
(* its exponent and the account of the verifier in it, S by the exponents, *)
(* the scrambler u and the accounts on either side.  A hash is the record  *)
(* of what goes into it.                                                   *)
(***************************************************************************)
EXTENDS Integers

CONSTANTS
  Clients, Servers,   \* contexts
  Accounts,           \* user name, salt and password, or the verifier made of them
  MaxKeys             \* bound: private keys drawn in all

Peers == Clients \union Servers
Zero == <<>>   \* a number that was never set

VARIABLES
  account,        \* context -> what its caller passes
  private,        \* context -> ccsrp_ctx_private
  public,         \* context -> ccsrp_ctx_public
  keys,           \* private keys drawn so far
  session,        \* context -> the session behind K, M and HAMK, a set of at most one
  authenticated,  \* context -> the flag of ccsrp_is_authenticated
  verified,       \* context -> sessions for which a verify call returned true
  wire            \* messages sent

vars == <<account, private, public, keys, session, authenticated, verified, wire>>

Init ==
  /\ account \in [Peers -> Accounts]
  /\ private = [c \in Peers |-> Zero] /\ public = [c \in Peers |-> Zero]
  /\ keys = 0
  /\ session = [c \in Peers |-> {}] /\ verified = [c \in Peers |-> {}]
  /\ authenticated = [c \in Peers |-> FALSE]
  /\ wire = {}

(***************************************************************************)
(* Ephemeral keys.                                                         *)
(***************************************************************************)
NewKey(c) == <<c, keys + 1>>
DrawKey(c) ==
  /\ keys < MaxKeys
  /\ keys' = keys + 1
  /\ private' = [private EXCEPT ![c] = NewKey(c)]

\* A of a client, B = k * v + g^b of a server.
PublicKey(c) == IF c \in Clients THEN [a |-> NewKey(c)]
                ELSE [b |-> NewKey(c), v |-> account[c]]

\* ccsrp_client_start_authentication; a client's flag keeps its value.
ClientStart(c) ==
  /\ c \in Clients
  /\ DrawKey(c)
  /\ public' = [public EXCEPT ![c] = PublicKey(c)]
  /\ wire' = wire \union {[type |-> "A", key |-> PublicKey(c)]}
  /\ UNCHANGED <<account, session, authenticated, verified>>

\* ccsrp_server_generate_public_key: the flag is taken back, the session is kept.
ServerGenerate(c) ==
  /\ c \in Servers
  /\ DrawKey(c)
  /\ public' = [public EXCEPT ![c] = PublicKey(c)]
  /\ wire' = wire \union {[type |-> "B", key |-> PublicKey(c)]}
  /\ authenticated' = [authenticated EXCEPT ![c] = FALSE]
  /\ UNCHANGED <<account, session, verified>>

\* Either call fails in the exponentiation: the private key is new, the public is old.
KeyFail(c) ==
  /\ DrawKey(c)
  /\ authenticated' = [authenticated EXCEPT ![c] = @ /\ c \in Clients]
  /\ UNCHANGED <<account, public, session, verified, wire>>

(***************************************************************************)
(* Session keys.                                                           *)
(***************************************************************************)

\* S = (B - k * g^x) ^ (a + u * x): it is the server's where x is behind v as well.
ClientS(c, B) ==
  [a |-> private[c], b |-> B.b, u |-> <<public[c], B>>, x |-> <<account[c], B.v>>]

\* S = (A * v^u) ^ b.
ServerS(c, A) ==
  [a |-> A.a, b |-> private[c], u |-> <<A, public[c]>>, x |-> <<account[c], account[c]>>]

Session(A, B, S, acc) == [A |-> A, B |-> B, K |-> S, user |-> acc]

\* Mutant: the session key is left out.
MWithoutKey(s) == [type |-> "M", user |-> s.user, A |-> s.A, B |-> s.B]

\* ccsrp_generate_M and ccsrp_generate_H_AMK.
M(s) == [type |-> "M", user |-> s.user, A |-> s.A, B |-> s.B, K |-> s.K]
HAMK(s) == [type |-> "HAMK", A |-> s.A, M |-> M(s), K |-> s.K]

\* ccsrp_client_process_challenge.
ClientProcess(c, B) ==
  /\ c \in Clients
  /\ session' = [session EXCEPT ![c] = {Session(public[c], B, ClientS(c, B), account[c])}]
  /\ wire' = wire \union {M(s) : s \in session'[c]}
  /\ UNCHANGED <<account, private, public, keys, authenticated, verified>>

\* ccsrp_server_compute_session.
ServerCompute(c, A) ==
  /\ c \in Servers
  /\ public[c] # Zero
  /\ session' = [session EXCEPT ![c] = {Session(A, public[c], ServerS(c, A), account[c])}]
  /\ UNCHANGED <<account, private, public, keys, authenticated, verified, wire>>

(***************************************************************************)
(* Verification.                                                           *)
(***************************************************************************)
Verdict(c, fits) ==
  /\ authenticated' = [authenticated EXCEPT ![c] = fits # {}]
  /\ verified' = [verified EXCEPT ![c] = @ \union fits]
  /\ UNCHANGED <<account, private, public, keys, session>>

\* Mutant: the answer is written whatever the verdict is.
ServerVerifyAnswersAll(c, m) ==
  /\ c \in Servers
  /\ Verdict(c, {s \in session[c] : M(s) = m})
  /\ wire' = wire \union {HAMK(s) : s \in session[c]}

\* ccsrp_server_verify_session: HAMK is given only to a client that proved itself.
ServerVerify(c, m) ==
  /\ c \in Servers
  /\ Verdict(c, {s \in session[c] : M(s) = m})
  /\ wire' = wire \union {HAMK(s) : s \in verified'[c] \intersect {t \in session[c] : M(t) = m}}

\* ccsrp_client_verify_session.
ClientVerify(c, h) ==
  /\ c \in Clients
  /\ Verdict(c, {s \in session[c] : HAMK(s) = h})
  /\ UNCHANGED wire

Next ==
  \E c \in Peers :
    \/ ClientStart(c) \/ ServerGenerate(c) \/ KeyFail(c)
    \/ \E m \in wire :
         \/ m.type = "A" /\ ServerCompute(c, m.key)
         \/ m.type = "B" /\ ClientProcess(c, m.key)
         \/ m.type = "M" /\ ServerVerify(c, m)
         \/ m.type = "HAMK" /\ ClientVerify(c, m)

Spec == Init /\ [][Next]_vars

(***************************************************************************)
(* Properties.                                                             *)
(***************************************************************************)

\* Whatever was lost, repeated, misdelivered or run again: a session a server has
\* verified is one that a client of the same account, which drew its A, has proved; a
\* session a client has verified is one that the server which drew its B had verified
\* before (ccsrp_server_verify_session, ccsrp_client_verify_session).
Agreement ==
  /\ \A s \in Servers : \A t \in verified[s] :
       \E c \in Clients : /\ account[c] = account[s]
                          /\ t.A.a[1] = c /\ M(t) \in wire
                          /\ t.K = [a |-> t.A.a, b |-> t.B.b, u |-> <<t.A, t.B>>,
                                    x |-> <<account[c], account[c]>>]
  /\ \A c \in Clients : \A t \in verified[c] :
       \E s \in Servers : t.B.b[1] = s /\ t \in verified[s]

\* A client and a server of one account that hold sessions of the same A and B expect
\* the token the other one makes, exactly if each has computed its session from the
\* private key behind the public key it sent.  After a failed call one of them has not:
\* its new private key goes with the public key of the call before, and they refuse
\* each other until both keys are drawn again (ccsrp_server.c:96, ccsrp_client.c:109).
Consistent(t, r) == t.K.a = t.A.a /\ r.K.b = r.B.b
PartnersConfirm ==
  \A c \in Clients, s \in Servers : \A t \in session[c], r \in session[s] :
    (account[c] = account[s] /\ t.A # Zero /\ t.A = r.A /\ t.B = r.B) =>
      /\ Consistent(t, r) <=> M(t) = M(r)
      /\ Consistent(t, r) <=> HAMK(t) = HAMK(r)
=============================================================================
