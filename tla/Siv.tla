-------------------------------- MODULE Siv --------------------------------
(***************************************************************************)
(* The synthetic-IV modes: CMAC-SIV (ccmode_siv_*.c) and HMAC-SIV          *)
(* (ccmode_siv_hmac_*.c).  A sender encrypts with one context, a receiver  *)
(* decrypts with another under the same key, and each may add pieces of    *)
(* associated data, set a nonce, encrypt or decrypt and reset in any       *)
(* order.  What the receiver is given joins any tag and any body sent so   *)
(* far, with some bit of the tag flipped.                                  *)
(*                                                                         *)
(* CMAC, HMAC and the block cipher are ideal: their outputs are terms,     *)
(* equal only when their inputs are.  The byte string HMAC absorbs is kept *)
(* whole, because the encoding of the pieces must keep them apart.         *)
(***************************************************************************)
EXTENDS Integers, Sequences

CONSTANTS
    Block,      \* bytes of a cipher block
    KeyUnits,   \* half blocks of the key of HMAC-SIV's CTR mode: 2, 3 or 4
    Garbage,    \* what an unwritten unit of that key may hold
    Pieces,     \* byte strings given as associated data or as a nonce
    Texts,      \* byte strings encrypted
    MaxSteps    \* bound on the calls of the two sides together

Kinds == {"siv", "siv_hmac"}
Sides == {"sender", "receiver"}

VARIABLES
    kind,       \* which of the two modes both sides use
    state,      \* the call sequence state of each side's context
    mac,        \* CMAC-SIV: D as a term; HMAC-SIV: the bytes absorbed
    inputs,     \* the pieces accepted since the last reset (history)
    crypts,     \* the calls to crypt since the last reset (history)
    sent,       \* the messages produced (history)
    received,   \* the decryptions done and their results (history)
    steps

vars == <<kind, state, mac, inputs, crypts, sent, received, steps>>

----------------------------------------------------------------------------
(* Authentication: S2V and its HMAC counterpart.                           *)

AdMark == 1
NonceMark == 2
PlaintextMark == 3

(* Mutant of AuthBackend: the pieces run together.                         *)
AuthBackendRunsOn(absorbed, piece, mark) ==
    IF mark = PlaintextMark THEN absorbed \o piece \o <<Len(piece), mark>> ELSE absorbed \o piece

(* A piece is followed by its length and the mark of its role.             *)
AuthBackend(absorbed, piece, mark) == absorbed \o piece \o <<Len(piece), mark>>

(* Shorter than anything AuthBackend leaves: "far from encodings of 0      *)
(* length AD, nonce and empty plaintext".                                  *)
EmptyEncoding == <<4>>

(* The tag of text when D, or the absorbed bytes, are m and the state is   *)
(* st.                                                                     *)
Synthetic(st, m, text) ==
    IF kind = "siv"
    THEN IF text = <<>> /\ st = "INIT" THEN <<"one", <<>>, <<>>>>
         ELSE IF Len(text) >= Block THEN <<"xorend", m, text>>
         ELSE <<"pad", Append(m, <<"dbl", <<>>>>), text>>
    ELSE IF text = <<>> /\ st = "INIT" THEN <<"hmac", EmptyEncoding>>
         ELSE <<"hmac", AuthBackend(m, text, PlaintextMark)>>

(* What computing that tag leaves in the context: a short text doubles D   *)
(* in place, and HMAC absorbs the text.                                    *)
AfterFinalize(st, m, text) ==
    IF text = <<>> /\ st = "INIT" THEN m
    ELSE IF kind = "siv_hmac" THEN AuthBackend(m, text, PlaintextMark)
    ELSE IF Len(text) < Block THEN Append(m, <<"dbl", <<>>>>)
    ELSE m

MayFinalize(side) ==
    \/ state[side] \in {"INIT", "AAD"}
    \/ kind = "siv_hmac" /\ state[side] = "NONCE"

----------------------------------------------------------------------------
(* Encryption.  A tag has its term and the group of its bits flipped on    *)
(* the way: the two the counter block clears, the one the key derivation   *)
(* clears, or one beyond the first block (HMAC-SIV's tags are longer).     *)

Flips == {"none", "counter", "last"} \cup (IF kind = "siv_hmac" THEN {"rest"} ELSE {})

Tag(term, flip) == [term |-> term, flip |-> flip]

CounterBlock(tag) ==
    Tag(tag.term, IF tag.flip \in {"counter", "rest"} THEN "none" ELSE tag.flip)

(* Unit j of the counter mode output the message key is cut from.          *)
ExpandedKey(tag, j) ==
    <<Tag(tag.term, IF tag.flip \in {"last", "rest"} THEN "none" ELSE tag.flip), j>>

(* Mutant of Rounds: the loop ends a round early.                          *)
RoundsOneShort == (KeyUnits \div 2) - 1

(* The rounds of the loop that gathers the message key.                    *)
Rounds == KeyUnits \div 2

(* Each round writes one unit and moves on by two, so only the first unit  *)
(* and those at odd places are written; the others hold what was on the    *)
(* stack.                                                                  *)
UnitValues(tag, u) ==
    IF u = 0 THEN {ExpandedKey(tag, 0)}
    ELSE IF u % 2 = 1 /\ u \div 2 < Rounds THEN {ExpandedKey(tag, u + 1)}
    ELSE {<<Tag(<<"stack">>, "none"), g>> : g \in Garbage}

TempKeys(tag) ==
    {k \in [0 .. KeyUnits - 1 -> UNION {UnitValues(tag, u) : u \in 0 .. KeyUnits - 1}] :
        \A u \in DOMAIN k : k[u] \in UnitValues(tag, u)}

MessageKeys(tag) == IF kind = "siv" THEN {<<>>} ELSE TempKeys(tag)

(* Counter mode under a wrong key or counter block yields other bytes.     *)
Decrypted(body, key, iv) ==
    IF body.key = key /\ body.iv = iv THEN body.text ELSE [i \in 1 .. Len(body.text) |-> 0]

----------------------------------------------------------------------------
Start == IF kind = "siv" THEN <<<<"cmac", <<>>>>>> ELSE <<>>

Init ==
    /\ kind \in Kinds
    /\ state = [s \in Sides |-> "INIT"]
    /\ mac = [s \in Sides |-> Start]
    /\ inputs = [s \in Sides |-> <<>>]
    /\ crypts = [s \in Sides |-> 0]
    /\ sent = {}
    /\ received = {}
    /\ steps = 0

Call ==
    /\ steps < MaxSteps
    /\ steps' = steps + 1
    /\ UNCHANGED kind

(* CMAC-SIV takes pieces in any state, an empty one changes nothing.       *)
Auth(side, piece) ==
    /\ Call
    /\ kind = "siv"
    /\ piece # <<>>
    /\ state' = [state EXCEPT ![side] = "AAD"]
    /\ mac' = [mac EXCEPT ![side] = Append(@, <<"cmac", piece>>)]
    /\ inputs' = [inputs EXCEPT ![side] = Append(@, <<AdMark, piece>>)]
    /\ UNCHANGED <<crypts, sent, received>>

(* HMAC-SIV takes them before the nonce only, and refuses empty ones.      *)
HmacAuth(side, piece, mark) ==
    /\ Call
    /\ kind = "siv_hmac"
    /\ state[side] \in {"INIT", "AAD"}
    /\ piece # <<>>
    /\ state' = [state EXCEPT ![side] = IF mark = AdMark THEN "AAD" ELSE "NONCE"]
    /\ mac' = [mac EXCEPT ![side] = AuthBackend(@, piece, mark)]
    /\ inputs' = [inputs EXCEPT ![side] = Append(@, <<mark, piece>>)]
    /\ UNCHANGED <<crypts, sent, received>>

Reset(side) ==
    /\ Call
    /\ state' = [state EXCEPT ![side] = "INIT"]
    /\ mac' = [mac EXCEPT ![side] = Start]
    /\ inputs' = [inputs EXCEPT ![side] = <<>>]
    /\ crypts' = [crypts EXCEPT ![side] = 0]
    /\ UNCHANGED <<sent, received>>

(* CMAC-SIV leaves the counter block in D, HMAC-SIV the absorbed text.     *)
Encrypt(text) ==
    /\ Call
    /\ MayFinalize("sender")
    /\ LET tag == Tag(Synthetic(state["sender"], mac["sender"], text), "none")
       IN  /\ \E key \in MessageKeys(tag) :
                sent' = sent \cup
                    {[inputs |-> inputs["sender"], crypts |-> crypts["sender"], tag |-> tag,
                      body |-> [key |-> key, iv |-> CounterBlock(tag), text |-> text]]}
           /\ mac' = [mac EXCEPT !["sender"] =
                        IF kind = "siv" THEN <<<<"q", tag.term>>>>
                        ELSE AfterFinalize(state["sender"], @, text)]
    /\ state' = [state EXCEPT !["sender"] = "TEXT"]
    /\ crypts' = [crypts EXCEPT !["sender"] = @ + 1]
    /\ UNCHANGED <<inputs, received>>

(* Out of sequence, the sender's context becomes unusable until it is      *)
(* reset (or, CMAC-SIV, until more associated data arrive).                *)
EncryptRefused ==
    /\ Call
    /\ ~MayFinalize("sender")
    /\ state' = [state EXCEPT !["sender"] = "INVALID"]
    /\ UNCHANGED <<mac, inputs, crypts, sent, received>>

(* The receiver decrypts first and authenticates what it got.  On failure  *)
(* the output is erased, and HMAC-SIV resets the context.                  *)
Decrypt(tag, body) ==
    /\ Call
    /\ MayFinalize("receiver")
    /\ \E key \in MessageKeys(tag) :
        LET text == Decrypted(body, key, CounterBlock(tag))
            st == state["receiver"]
            ok == Tag(Synthetic(st, mac["receiver"], text), "none") = tag
            resets == ~ok /\ kind = "siv_hmac"
        IN  /\ received' = received \cup
                {[inputs |-> inputs["receiver"], crypts |-> crypts["receiver"], tag |-> tag,
                  body |-> body, ok |-> ok, out |-> IF ok THEN text ELSE <<>>]}
            /\ state' = [state EXCEPT !["receiver"] = IF resets THEN "INIT" ELSE "TEXT"]
            /\ mac' = [mac EXCEPT !["receiver"] =
                        IF resets THEN Start ELSE AfterFinalize(st, @, text)]
            /\ inputs' = [inputs EXCEPT !["receiver"] = IF resets THEN <<>> ELSE @]
            /\ crypts' = [crypts EXCEPT !["receiver"] = IF resets THEN 0 ELSE @ + 1]
    /\ UNCHANGED sent

Next ==
    \/ \E side \in Sides, piece \in Pieces :
        \/ Auth(side, piece)
        \/ \E mark \in {AdMark, NonceMark} : HmacAuth(side, piece, mark)
    \/ \E side \in Sides : Reset(side)
    \/ \E text \in Texts : Encrypt(text)
    \/ EncryptRefused
    \/ \E m, n \in sent, flip \in Flips : Decrypt(Tag(m.tag.term, flip), n.body)

Spec == Init /\ [][Next]_vars

----------------------------------------------------------------------------
(* ccsiv_hmac_aad: "on decryption the same inputs must be provided and in  *)
(* the same order"; when they are, and each side calls crypt once after a  *)
(* reset as documented, the message sent decrypts to its plaintext.        *)
RoundTrip ==
    \A r \in received, m \in sent :
        (/\ r.tag = m.tag
         /\ r.body = m.body
         /\ r.inputs = m.inputs
         /\ r.crypts = 0
         /\ m.crypts = 0) =>
            r.ok /\ r.out = m.body.text

(* The check of ccmode_siv_decrypt and ccmode_siv_hmac_decrypt: what the   *)
(* receiver accepts was sent with the same pieces in the same roles and    *)
(* order and the same plaintext, whichever tags, bodies and bits were      *)
(* joined, and in whatever state earlier calls left its context.           *)
Authentic ==
    \A r \in received :
        r.ok => \E m \in sent :
                    /\ m.inputs = r.inputs
                    /\ m.body.text = r.out
                    /\ m.tag = r.tag
=============================================================================
