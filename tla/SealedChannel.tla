--------------------------- MODULE SealedChannel ---------------------------
(***************************************************************************)
(* What a sealed channel promises, whatever the network does: a receiver   *)
(* has what one sender sealed, from the first message on, in order, once.  *)
(* Sigma and Hpke implement it.                                            *)
(***************************************************************************)
EXTENDS Sequences, Naturals

CONSTANTS Senders, Receivers, Messages

VARIABLES sent, received   \* sender and receiver -> plaintexts so far

Init == /\ sent = [a \in Senders |-> <<>>]
        /\ received = [b \in Receivers |-> <<>>]

Send(a) ==
  /\ \E m \in Messages : sent' = [sent EXCEPT ![a] = Append(@, <<a, m>>)]
  /\ UNCHANGED received

Receive(a, b) ==
  LET n == Len(received[b]) IN
  /\ n < Len(sent[a])
  /\ received[b] = SubSeq(sent[a], 1, n)
  /\ received' = [received EXCEPT ![b] = Append(@, sent[a][n + 1])]
  /\ UNCHANGED sent

Next == \E a \in Senders : Send(a) \/ \E b \in Receivers : Receive(a, b)

Spec == Init /\ [][Next]_<<sent, received>>
=============================================================================
