--------------------------------- MODULE Ccm ---------------------------------
(***************************************************************************)
(* CCM (src/ccmode/src/ccmode_ccm_*.c): the lengths of a message are       *)
(* declared with its nonce, then AAD and text come in pieces.              *)
(*                                                                         *)
(* The CBC-MAC is the sequence of the blocks that went into it; B_i holds  *)
(* the bytes XORed into the last of them.  Bytes are pairs: kind, place.   *)
(***************************************************************************)
EXTENDS Integers, SequencesExt

CONSTANTS
  Block,         \* the block size (16)
  CounterValues, \* the values of the counter in q bytes (2^(8q))
  AadHeader,     \* the bytes that encode the length of the AAD (2 or 6)
  Pieces,        \* the lengths of the pieces callers pass
  AadLengths, TextLengths, \* the lengths callers declare, and keep to
  MaxCalls       \* bound on the calls that add to a message

VARIABLES
  mode,              \* the state in the nonce context
  mac,               \* B_i: the blocks encrypted so far
  b_i, b_i_len,      \* the bytes XORed into B_i since; b_i_len
  counter, pad,      \* the counter in A_i; the counter of the block in buf
  buflen,            \* how much of buf was used
  MAC,               \* MAC: what was XORed into it
  declared,          \* history: the lengths given to set_iv
  aad, text, pads,   \* history: the bytes given; the keystream used on the text
  calls,             \* history: the calls made for this message
  tag                \* history: the tag of this message, the first if asked for again

macs == <<mac, b_i, b_i_len>>
keystream == <<counter, pad, buflen>>
history == <<declared, aad, text, pads, calls, tag>>
vars == <<mode, macs, keystream, MAC, history>>

Bytes(kind, first, n) == [i \in 1 .. n |-> <<kind, first + i>>]
Header(a) == IF a = 0 THEN <<>> ELSE [i \in 1 .. AadHeader |-> <<"length", a>>]
B_0(d) == <<"B_0", d>>

-----------------------------------------------------------------------------
(* ccmode_ccm_set_iv *)
SetIv(d) ==
  /\ mac' = <<B_0(d)>> /\ b_i' = Header(d.a) /\ b_i_len' = Len(Header(d.a))
  /\ mode' = IF d.a = 0 THEN "TEXT" ELSE "AAD"
  /\ counter' = 0 /\ buflen' = 0 /\ MAC' = {<<<<"A", 0>>>>}
  /\ declared' = d /\ aad' = <<>> /\ text' = <<>> /\ pads' = <<>> /\ calls' = 0 /\ tag' = {}
  /\ UNCHANGED pad

\* Lengths that do not fit leave the context refusing everything; B_i, A_i and
\* MAC are those of the last message.
SetIvRefused ==
  /\ mode' = "IV" /\ buflen' = 0
  /\ aad' = <<>> /\ text' = <<>> /\ pads' = <<>> /\ calls' = 0 /\ tag' = {}
  /\ UNCHANGED <<macs, counter, pad, MAC, declared>>

\* ccmode_ccm_macdata: the bytes are XORed into B_i, which is encrypted each
\* time it is full; new_block encrypts it first.
MacData(newBlock, bytes) ==
  LET start == IF newBlock THEN [mac |-> Append(mac, b_i), b_i |-> <<>>, n |-> 0]
                           ELSE [mac |-> mac, b_i |-> b_i, n |-> b_i_len]
      Take(c, byte) ==
        IF c.n + 1 = Block THEN [mac |-> Append(c.mac, Append(c.b_i, byte)), b_i |-> <<>>, n |-> 0]
        ELSE [c EXCEPT !.b_i = Append(@, byte), !.n = @ + 1]
  IN  FoldLeft(Take, start, bytes)

TakeMac(c) == mac' = c.mac /\ b_i' = c.b_i /\ b_i_len' = c.n

\* ccmode_ccm_cbcmac.  (A call with no bytes is accepted in every mode.)
Cbcmac(n) ==
  /\ calls < MaxCalls
  /\ n = 0 \/ mode = "AAD"
  /\ Len(aad) + n <= declared.a /\ tag = {}
  /\ LET bytes == Bytes("aad", Len(aad), n)
     IN  TakeMac(MacData(FALSE, bytes)) /\ aad' = aad \o bytes
  /\ calls' = calls + 1
  /\ UNCHANGED <<mode, keystream, MAC, declared, text, pads, tag>>

\* ccmode_ccm_crypt: the counter is advanced before a block is encrypted.
CryptBytes(n) ==
  LET Take(c, i) ==
        LET fresh == c.buflen = 0
            next == IF fresh THEN (c.counter + 1) % CounterValues ELSE c.counter
            block == IF fresh THEN next ELSE c.pad
        IN  [counter |-> next, pad |-> block, buflen |-> (c.buflen + 1) % Block,
             pads |-> Append(c.pads, <<block, c.buflen>>)]
  IN  FoldLeft(Take, [counter |-> counter, pad |-> pad, buflen |-> buflen, pads |-> pads],
               [i \in 1 .. n |-> i])

\* ccmode_ccm_encrypt, and ccmode_ccm_decrypt, which decrypts before it takes
\* the plaintext into the MAC.
Crypt(n) ==
  /\ calls < MaxCalls /\ mode \in {"AAD", "TEXT"}
  /\ Len(text) + n <= declared.p /\ tag = {}
  /\ LET bytes == Bytes("text", Len(text), n)
         c == CryptBytes(n)
     IN  /\ TakeMac(MacData(mode = "AAD" /\ b_i_len # 0, bytes))
         /\ counter' = c.counter /\ pad' = c.pad /\ buflen' = c.buflen /\ pads' = c.pads
         /\ text' = text \o bytes
  /\ mode' = "TEXT" /\ calls' = calls + 1
  /\ UNCHANGED <<MAC, declared, aad, tag>>

\* ccmode_ccm_finalize.  The mode stays: a second call XORs B_i out again.
Finalize ==
  /\ mode # "IV" /\ calls < MaxCalls
  /\ mac' = IF b_i_len # 0 THEN Append(mac, b_i) ELSE mac
  /\ MAC' = (MAC \ {mac'}) \union ({mac'} \ MAC)
  /\ b_i' = IF b_i_len # 0 THEN <<>> ELSE b_i
  /\ tag' = IF tag = {} THEN MAC' ELSE tag
  /\ calls' = calls + 1
  /\ UNCHANGED <<mode, b_i_len, keystream, declared, aad, text, pads>>

\* ccmode_ccm_reset
Reset ==
  /\ mode' = "IV" /\ b_i_len' = 0 /\ buflen' = 0 /\ MAC' = {}
  /\ aad' = <<>> /\ text' = <<>> /\ pads' = <<>> /\ calls' = 0 /\ tag' = {}
  /\ UNCHANGED <<mac, b_i, counter, pad, declared>>

Init ==
  /\ mode = "IV" /\ mac = <<>> /\ b_i = <<>> /\ b_i_len = 0
  /\ counter = 0 /\ pad = 0 /\ buflen = 0 /\ MAC = {}
  /\ declared = [a |-> 0, p |-> 0] /\ aad = <<>> /\ text = <<>> /\ pads = <<>>
  /\ calls = 0 /\ tag = {}

Next ==
  \/ \E a \in AadLengths, p \in TextLengths : SetIv([a |-> a, p |-> p])
  \/ SetIvRefused
  \/ \E n \in Pieces : Cbcmac(n) \/ Crypt(n)
  \/ Finalize
  \/ Reset

Spec == Init /\ [][Next]_vars

-----------------------------------------------------------------------------
\* The blocks of s, the last as long as what remains.
Blocks(s) ==
  [i \in 1 .. (Len(s) + Block - 1) \div Block |->
     SubSeq(s, (i - 1) * Block + 1, IF i * Block < Len(s) THEN i * Block ELSE Len(s))]

\* However a message is cut: the tag covers the declared lengths, then the AAD
\* and then the text, each from a block on, masked with counter block 0, and
\* the text meets the counter blocks from 1 on in order, never block 0.
CcmMatches ==
  /\ tag # {} => tag = {<<<<"A", 0>>>>,
                       <<B_0(declared)>> \o Blocks(Header(declared.a) \o aad) \o Blocks(text)}
  /\ pads = [i \in 1 .. Len(text) |-> <<1 + (i - 1) \div Block, (i - 1) % Block>>]
=============================================================================
