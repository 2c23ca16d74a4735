-------------------------------- MODULE Curve --------------------------------
(***************************************************************************)
(* What is computed with points (ccec): sums, the blinded multiple, the    *)
(* joint one, the import of a point and the key agreement.                 *)
(***************************************************************************)
EXTENDS Points

CONSTANTS
    MaskBits,   \* SCA_MASK_BITSIZE (32)
    Scales,     \* values of z with which points are given
    Bases       \* x of the points multiplied jointly with any, of two opposites one

VARIABLES
    call, answer,
    mask,       \* of the multiplication, 0 before one is drawn
    products    \* and the products it has made

vars == <<call, answer, mask, products>>

Pending == <<>>

----------------------------------------------------------------------------
(* The blinded multiple                                                    *)

Masks == 2^(MaskBits - 1) .. 2^MaskBits - 1

\* mask + 1, with the highest bit of a mask when it overflows.
NextMask(m) == IF m + 1 = 2^MaskBits THEN 2^(MaskBits - 1) ELSE m + 1

\* A point with x = 0 is doubled, its scalar halved.
Base(s) == IF s.x = 0 THEN Double(s) ELSE s
Halved(d, s) == IF s.x = 0 THEN d \div 2 ELSE d

\* The products: of the mask, then of what the scalar leaves divided by it, with the product
\* of the mask as the point, and of the rest.
Product(n, d, s, m, first) ==
    LET scalar == CASE n = 0 -> m [] n = 1 -> Halved(d, s) \div m [] n = 2 -> Halved(d, s) % m
    IN  MultInner(scalar, IF n = 1 THEN OrderBits - MaskBits + 1 ELSE MaskBits,
                  IF n = 1 THEN first ELSE Base(s))

\* The point again where the halved scalar was odd, and both products.
Combined(d, s, high, low) ==
    FullAdd(high, IF s.x = 0 /\ d % 2 = 1 THEN FullAdd(low, s) ELSE low)

----------------------------------------------------------------------------
(* Calls                                                                   *)

Scaled == [a : OnCurve, z : Scales]
OffCurve == {[x |-> 0, y |-> 0], [x |-> P, y |-> 1]}
At(s) == Projectify(s.a, s.z)

Calls ==
    [op : {"double"}, s : Scaled]
    \cup [op : {"add", "sub"}, s : Scaled, t : Scaled]
    \cup [op : {"mult"}, d : 0 .. Order + 1, s : Scaled]
    \cup [op : {"ecdh"}, d : 0 .. Order + 1, s : [a : OnCurve \cup OffCurve, z : Scales]]
    \cup [op : {"twin"},
          d0 : 0 .. Order - 1, s : [a : {b \in OnCurve : b.x \in Bases /\ 2 * b.y < P}, z : {1}],
          d1 : 0 .. Order - 1, t : [a : OnCurve, z : {1}]]
    \cup [op : {"validate"}, a : [x : 0 .. P + 1, y : 0 .. P + 1]]
    \cup [op : {"import"}, x : 0 .. P + 1, parity : {0, 1}]

Init == call = Pending /\ answer = Pending /\ mask = 0 /\ products = <<>>

Ask == call = Pending /\ call' \in Calls /\ UNCHANGED <<answer, mask, products>>

Asking(op) == call # Pending /\ answer = Pending /\ call.op = op /\ UNCHANGED call
Asked(op) == Asking(op) /\ UNCHANGED <<mask, products>>

CcecDouble == Asked("double") /\ answer' = <<Double(At(call.s))>>
CcecFullAdd == Asked("add") /\ answer' = <<FullAdd(At(call.s), At(call.t))>>
CcecFullSub == Asked("sub") /\ answer' = <<FullSub(At(call.s), At(call.t))>>

\* ccec_mult_blinded, called for itself or by the key agreement, which has looked at both keys
\* and takes x of the product.
Multiplying == call # Pending /\ answer = Pending /\ call.op \in {"mult", "ecdh"} /\ UNCHANGED call

Refused ==
    \/ call.d > Order
    \/ /\ call.op = "ecdh"
       /\ call.d \notin 1 .. Order - 1 \/ ~Valid(call.s.a, call.s.z)

SharedSecret(r) == IF IsPoint(r) THEN AffinifyXOnly(r) ELSE Failed
Outcome(r) == IF call.op = "ecdh" THEN SharedSecret(r) ELSE r

\* What needs no mask, and the drawing of one.
MultEdgeCase ==
    /\ Multiplying /\ products = <<>> /\ mask = 0
    /\ \/ Refused /\ answer' = <<Failed>>
       \/ /\ ~Refused /\ IsEdgeCase(call.d, At(call.s))
          /\ answer' = <<Outcome(EdgeCase(call.d, At(call.s)))>>
    /\ UNCHANGED <<mask, products>>

MultMask ==
    /\ Multiplying /\ mask = 0
    /\ ~Refused /\ ~IsEdgeCase(call.d, At(call.s))
    /\ mask' \in Masks
    /\ UNCHANGED <<answer, products>>

\* A mask whose product has x = 0 is exchanged for the next one.
MultProduct ==
    /\ Multiplying /\ mask # 0 /\ Len(products) < 3
    /\ LET first == IF products = <<>> THEN Point(0, 0, 0) ELSE products[1]
           product == Product(Len(products), call.d, At(call.s), mask, first)
       IN  \/ products = <<>> /\ product.x = 0 /\ mask' = NextMask(mask) /\ UNCHANGED products
           \/ ~(products = <<>> /\ product.x = 0) /\ UNCHANGED mask
              /\ products' = Append(products, product)
    /\ UNCHANGED answer

MultCombine ==
    /\ Multiplying /\ Len(products) = 3
    /\ answer' = <<Outcome(Combined(call.d, At(call.s), products[2], products[3]))>>
    /\ UNCHANGED <<mask, products>>

CcecTwinMult ==
    /\ Asked("twin")
    /\ call.d0 >= 8 \/ call.d1 >= 8
    /\ answer' = IF call.s.a.x = call.t.a.x THEN <<Failed>>
                 ELSE LET result == TwinMult(call.d0, At(call.s), call.d1, At(call.t))
                      IN  <<result.r, result.subDoubled>>

ValidateAndProjectify ==
    /\ Asked("validate")
    /\ \E z \in {1} \cup RandomScales : answer' = <<ValidatePub(call.a, z)>>

ImportPub ==
    /\ Asked("import")
    /\ IF call.x >= P \/ Roots(call.x) = {} THEN answer' = <<Failed>>
       ELSE \E root \in Roots(call.x) :
              answer' = <<Decompressed(call.x, root, call.parity), Compact(call.x, root)>>

Next ==
    \/ Ask
    \/ CcecDouble \/ CcecFullAdd \/ CcecFullSub \/ CcecTwinMult
    \/ MultEdgeCase \/ MultMask \/ MultProduct \/ MultCombine
    \/ ValidateAndProjectify \/ ImportPub

Spec == Init /\ [][Next]_vars

----------------------------------------------------------------------------
(* What they promise                                                       *)

\* The exceptions of the formulas (a point at infinity, equal and opposite points, x = 0, the
\* first bit of a scalar and the last) are all met by another branch, and whatever scale and
\* mask are drawn the result is the point the group defines.  One exception is not: the
\* difference of opposite points, see DifferenceExact.
Exact ==
    answer # Pending =>
      LET r == answer[1] IN
      CASE call.op = "double" -> Denotes(r, Plus(call.s.a, call.s.a))
        [] call.op = "add" -> Denotes(r, Plus(call.s.a, call.t.a))
        [] call.op = "sub" ->
             call.s.a # Opposite(call.t.a) => Denotes(r, Plus(call.s.a, Opposite(call.t.a)))
        [] call.op = "mult" ->
             IF call.d > Order THEN r = Failed ELSE Denotes(r, Times(call.d, call.s.a))
        [] call.op = "ecdh" ->
             IF call.d \in 1 .. Order - 1 /\ call.s.a \in OnCurve
             THEN r = Times(call.d, call.s.a).x ELSE r = Failed
        [] call.op = "twin" ->
             IF call.s.a.x = call.t.a.x THEN r = Failed
             ELSE \/ answer[2]
                  \/ Denotes(r, Plus(Times(call.d0, call.s.a), Times(call.d1, call.t.a)))
        [] call.op = "validate" ->
             IF call.a \in OnCurve THEN Denotes(r, call.a) ELSE r = Failed
        [] call.op = "import" ->
             IF \E a \in OnCurve : a.x = call.x
             THEN /\ r \in OnCurve /\ r.x = call.x /\ r.y % 2 = call.parity
                  /\ answer[2] \in OnCurve /\ answer[2].x = call.x
                  /\ 2 * answer[2].y < P
             ELSE r = Failed

\* The same of every difference, as the header has it of ccec_full_sub (ccec_internal.h:195).
\* Where S is -T the addition doubles T as it was given, and returns -(S - T).
DifferenceExact ==
    answer # Pending /\ call.op = "sub" =>
        Denotes(answer[1], Plus(call.s.a, Opposite(call.t.a)))
=============================================================================
