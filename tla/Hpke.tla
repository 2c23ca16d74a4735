-------------------------------- MODULE Hpke --------------------------------
(***************************************************************************)
(* HPKE, base mode (src/cchpke/src/cchpke.c): initiators set up contexts   *)
(* to one recipient, whose responder contexts are set up from the          *)
(* encapsulated keys that arrive, and a network that loses, repeats,       *)
(* reorders and misdelivers.  A key is named by the encapsulated key and   *)
(* the info it is derived from, a ciphertext by its key, nonce and text.   *)
(***************************************************************************)
EXTENDS Integers, Sequences

CONSTANTS
  Senders, Receivers,   \* contexts of initiators, and of the recipient
  Infos, Messages,      \* what the callers pass
  CounterBits,          \* width of sequence_number, 64 in the code
  MaxSealed             \* bound: messages sealed in one context

VARIABLES
  key,              \* context -> key and base nonce, a set of at most one
  sequence_number,  \* context -> messages sealed or opened
  sent, received,   \* context -> what its caller sealed, and was given
  encs, cts         \* the network: encapsulated keys and ciphertexts

vars == <<key, sequence_number, sent, received, encs, cts>>

Init ==
  /\ key = [c \in Senders \union Receivers |-> {}]
  /\ sequence_number = [c \in Senders \union Receivers |-> 0]
  /\ sent = [c \in Senders |-> <<>>] /\ received = [c \in Receivers |-> <<>>]
  /\ encs = {} /\ cts = {}

\* cchpke_initiator_setup: one ephemeral key per context.
InitiatorSetup(c, info) ==
  /\ key[c] = {}
  /\ key' = [key EXCEPT ![c] = {<<c, info>>}]
  /\ encs' = encs \union {c}
  /\ UNCHANGED <<sequence_number, sent, received, cts>>

\* cchpke_responder_setup; nothing tells it that the info is not the initiator's.
ResponderSetup(c, enc, info) ==
  /\ key[c] = {}
  /\ key' = [key EXCEPT ![c] = {<<enc, info>>}]
  /\ UNCHANGED <<sequence_number, sent, received, encs, cts>>

Advance(c) ==
  sequence_number' = [sequence_number EXCEPT ![c] = (@ + 1) % 2 ^ CounterBits]

\* cchpke_nonce and the AEAD's seal.
Sealed(c, k, m) == [key |-> k, nonce |-> sequence_number[c], text |-> <<c, m>>]

\* cchpke_initiator_encrypt; a failed call neither counts nor gives a ciphertext.
Encrypt(c, m) ==
  /\ Len(sent[c]) < MaxSealed
  /\ \E k \in key[c] : cts' = cts \union {Sealed(c, k, m)}
  /\ Advance(c)
  /\ sent' = [sent EXCEPT ![c] = Append(@, <<c, m>>)]
  /\ UNCHANGED <<key, received, encs>>

Opens(c, ct) == ct.key \in key[c] /\ ct.nonce = sequence_number[c]

\* Mutant: a message that does not open is counted too.
DecryptCountsFailures(c, ct) ==
  /\ key[c] # {}
  /\ Advance(c)
  /\ received' = IF Opens(c, ct) THEN [received EXCEPT ![c] = Append(@, ct.text)] ELSE received
  /\ UNCHANGED <<key, sent, encs, cts>>

\* cchpke_responder_decrypt: only a message that opens is counted.
Decrypt(c, ct) ==
  /\ Opens(c, ct)
  /\ Advance(c)
  /\ received' = [received EXCEPT ![c] = Append(@, ct.text)]
  /\ UNCHANGED <<key, sent, encs, cts>>

Next ==
  \/ \E c \in Senders :
       \/ \E i \in Infos : InitiatorSetup(c, i)
       \/ \E m \in Messages : Encrypt(c, m)
  \/ \E c \in Receivers :
       \/ \E e \in encs, i \in Infos : ResponderSetup(c, e, i)
       \/ \E ct \in cts : Decrypt(c, ct)

Spec == Init /\ [][Next]_vars

(***************************************************************************)
(* Properties.                                                             *)
(***************************************************************************)
Channel == INSTANCE SealedChannel

\* A responder's context gives its caller what one initiator's context sealed, in order
\* and once, however often messages that do not open are tried in between.
ImplementsChannel == Channel!Spec
=============================================================================
