-------------------------------- MODULE Ckg --------------------------------
(***************************************************************************)
(* Collaborative key generation (src/ccckg/src): a contributor commits to  *)
(* a scalar and a nonce, an owner answers with a share, the contributor    *)
(* opens its commitment and both have P and SK.  The network loses,        *)
(* repeats, reorders and misdelivers; calls fail half-way and are retried. *)
(*                                                                         *)
(* A scalar is named by its context and its place among all those drawn;   *)
(* a sum of scalars, and the point it gives, by the set of them; a hash by *)
(* what goes into it.                                                      *)
(***************************************************************************)
EXTENDS Integers

CONSTANTS
  Contributors, Owners,   \* contexts
  MaxScalars              \* bound: scalars drawn in all

Members == Contributors \union Owners

VARIABLES
  ckgState,   \* context -> "INIT", "COMMIT", "SHARE" or "FINISH"
  s, r,       \* context -> its scalar and its nonce, sets of at most one
  commitment, \* owner -> c, the contributor's commitment, likewise
  sk,         \* context -> P and SK as given to the caller, likewise
  scalars,    \* scalars drawn so far
  wire        \* messages sent

vars == <<ckgState, s, r, commitment, sk, scalars, wire>>

\* ccckg_init.
Init ==
  /\ ckgState = [c \in Members |-> "INIT"]
  /\ s = [c \in Members |-> {}] /\ r = [c \in Members |-> {}]
  /\ commitment = [o \in Owners |-> {}]
  /\ sk = [c \in Members |-> {}]
  /\ scalars = 0
  /\ wire = {}

\* A new scalar, and a nonce that is named by it.
Fresh(c) == <<c, scalars + 1>>
DrawScalar(c) ==
  /\ scalars < MaxScalars
  /\ scalars' = scalars + 1
  /\ s' = [s EXCEPT ![c] = {Fresh(c)}]
DrawBoth(c) == DrawScalar(c) /\ r' = [r EXCEPT ![c] = {Fresh(c)}]

SetState(c, st) == ckgState' = [ckgState EXCEPT ![c] = st]

Commitment(x, n) == [type |-> "commitment", s |-> x, r |-> n]
Share(X, n) == [type |-> "share", X |-> X, r |-> n]
Opening(x, n) == [type |-> "opening", s |-> x, r |-> n]

\* ccckg_contributor_commit.
Commit(c) ==
  /\ ckgState[c] = "INIT"
  /\ DrawBoth(c)
  /\ wire' = wire \union {Commitment(x, x) : x \in s'[c]}
  /\ SetState(c, "COMMIT")
  /\ UNCHANGED <<commitment, sk>>

\* The nonce cannot be had: the scalar is kept, and replaced by the next call.
CommitFail(c) ==
  /\ ckgState[c] = "INIT"
  /\ DrawScalar(c)
  /\ UNCHANGED <<ckgState, r, commitment, sk, wire>>

\* Mutant: a retried call keeps the scalar that an earlier one drew, as SPAKE2+ does.
GenerateShareKeepsScalar(o, m) ==
  /\ ckgState[o] = "INIT"
  /\ commitment' = [commitment EXCEPT ![o] = {m}]
  /\ \/ r[o] # {} /\ UNCHANGED <<scalars, s, r>>
     \/ r[o] = {} /\ DrawBoth(o)
  /\ \/ /\ wire' = wire \union {Share(x, n) : x \in s'[o], n \in r'[o]}
        /\ SetState(o, "SHARE")
     \/ UNCHANGED <<ckgState, wire>>
  /\ UNCHANGED sk

\* ccckg_owner_generate_share: the commitment is stored first; a call that fails after
\* that, for want of a scalar or of a nonce, leaves the context ready for another.
GenerateShare(o, m) ==
  /\ ckgState[o] = "INIT"
  /\ commitment' = [commitment EXCEPT ![o] = {m}]
  /\ \/ /\ DrawBoth(o)
        /\ wire' = wire \union {Share(x, x) : x \in s'[o]}
        /\ SetState(o, "SHARE")
     \/ UNCHANGED <<s, r, scalars, ckgState, wire>>
  /\ UNCHANGED sk

\* ccckg_derive_sk: P from both scalars, SK from P and the contributor's nonce first.
Key(X, Y, r1, r2) == [P |-> {X, Y}, r1 |-> r1, r2 |-> r2]

\* ccckg_contributor_finish.
ContributorFinish(c, m) ==
  /\ ckgState[c] = "COMMIT"
  /\ \E x \in s[c], n \in r[c] :
       /\ sk' = [sk EXCEPT ![c] = {Key(m.X, x, n, m.r)}]
       /\ wire' = wire \union {Opening(x, n)}
  /\ SetState(c, "FINISH")
  /\ UNCHANGED <<s, r, commitment, scalars>>

\* ccckg_owner_finish; an opening that does not fit is refused.
Opens(o, m) == Commitment(m.s, m.r) \in commitment[o]
OwnerFinish(o, m) ==
  /\ ckgState[o] = "SHARE"
  /\ Opens(o, m)
  /\ \E x \in s[o], n \in r[o] : sk' = [sk EXCEPT ![o] = {Key(m.s, x, m.r, n)}]
  /\ SetState(o, "FINISH")
  /\ UNCHANGED <<s, r, commitment, scalars, wire>>

Next ==
  \/ \E c \in Contributors :
       Commit(c) \/ CommitFail(c) \/ \E m \in wire : m.type = "share" /\ ContributorFinish(c, m)
  \/ \E o \in Owners, m \in wire :
       \/ m.type = "commitment" /\ GenerateShare(o, m)
       \/ m.type = "opening" /\ OwnerFinish(o, m)

Spec == Init /\ [][Next]_vars

(***************************************************************************)
(* Properties.                                                             *)
(***************************************************************************)

\* Neither side can bias the key (ccckg.h:36): the contributor's half of a key an owner
\* finishes with was drawn before the owner's own half, and opened by a contributor
\* that had used one share by then and uses no other.
Unbiased ==
  \A o \in Owners : \A k \in sk[o] :
    \E c \in Contributors, x \in k.P, y \in k.P :
      /\ x[1] = c /\ y[1] = o /\ x[2] < y[2]
      /\ ckgState[c] = "FINISH" /\ x \in s[c]
      /\ \A d \in Contributors \ {c} : \A j \in sk[d] : x \notin j.P

\* A contributor shares its key with one owner at most; that owner's key is the same, SK
\* and all, wherever each took the other's half.
Agreement ==
  \A c \in Contributors, o \in Owners : \A k \in sk[c], j \in sk[o] :
    /\ k.P = j.P => k = j
    /\ (s[o] \subseteq k.P /\ s[c] \subseteq j.P) => k = j
    /\ k = j => \A q \in Owners \ {o} : k \notin sk[q]
=============================================================================
