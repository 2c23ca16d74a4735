-------------------------------- MODULE Der --------------------------------
(***************************************************************************)
(* Numbers as bytes (ccn_write_uint.c, ccn_write_int.c, ccn_read_uint.c)   *)
(* and DER (ccder_blob_*.c).  An encoder writes backwards from the end of  *)
(* a buffer into the room that is left; a decoder reads what is left of a  *)
(* string.  A byte is a number below 2^ByteBits, and lengths, tags and     *)
(* words scale with it.  A number of n words is its value.                 *)
(***************************************************************************)
EXTENDS Integers, SequencesExt

CONSTANTS
    ByteBits,   \* 8
    UnitBytes,  \* CCN_UNIT_SIZE
    ClassBits,  \* the bits of a tag's first byte above its number (3)
    TagBytes,   \* sizeof(ccder_tag)
    Numbers, Tags, Lengths, Octets, Alphabet

VARIABLES call, answer

vars == <<call, answer>>

Pending == <<>>
Failed == [ok |-> FALSE, room |-> 0, bytes |-> <<>>]

Base == 2^ByteBits
Half == Base \div 2
GroupBits == ByteBits - 1
HighTag == 2^(ByteBits - ClassBits) - 1

\* A tag is its class with the constructed bit, and its number.
Integer == <<0, 2>>
BitString == <<0, 3>>
OctetString == <<0, 4>>
ObjectIdentifier == <<0, 6>>
Sequence == <<1, 5>>
Context(i) == <<1, i>>

MinOf(a, b) == IF a < b THEN a ELSE b

----------------------------------------------------------------------------
(* Numbers as bytes                                                        *)

BitLen(v) == CHOOSE k \in 0 .. 30 : v < 2^k /\ (k = 0 \/ v >= 2^(k - 1))

\* The k-th byte of v, from the least significant one, and its low bytes.
ByteOf(v, k) == IF k > BitLen(v) \div ByteBits THEN 0 ELSE (v \div Base^k) % Base
LowBytes(v, size) == [i \in 1 .. size |-> ByteOf(v, size - i)]

ValueOf(s) == FoldLeft(LAMBDA v, b : v * Base + b, 0, s)

UintSize(v) == (BitLen(v) + ByteBits - 1) \div ByteBits
IntSize(v) == UintSize(v) + (IF BitLen(v) % ByteBits = 0 THEN 1 ELSE 0)

\* ccn_write_uint: fewer bytes than a word are all taken from the word the first one is in.
WriteUint(v, out_size) ==
    LET size == MinOf(out_size, UintSize(v))
        skip == UintSize(v) - size
    IN  [i \in 1 .. size |->
           LET k == size - i IN
           IF size < UnitBytes /\ (skip % UnitBytes) + k >= UnitBytes THEN 0
           ELSE ByteOf(v, skip + k)]

\* ccn_write_uint_padded_ct, of a number of n words.
WritePaddedCt(n, v, out_size) ==
    LET zeros == IF out_size > n * UnitBytes THEN out_size - n * UnitBytes ELSE 0
        left == out_size - zeros
    IN  IF left < UintSize(v) THEN Failed
        ELSE [ok |-> TRUE, offset |-> zeros + left - UintSize(v),
              bytes |-> [i \in 1 .. zeros |-> 0] \o LowBytes(v, left)]

WritePadded(n, v, out_size) ==
    LET padded == WritePaddedCt(n, v, out_size)
    IN  IF padded.ok THEN padded
        ELSE [ok |-> TRUE, offset |-> 0, bytes |-> WriteUint(v, out_size)]

\* ccn_write_int into out_size bytes, of which there is at least one.
WriteInt(v, out_size) ==
    IF BitLen(v) % ByteBits = 0 THEN <<0>> \o WriteUint(v, out_size - 1) ELSE WriteUint(v, out_size)

\* Mutant of ReadUint: what exceeds n words is cut off.
ReadUintCut(n, s) ==
    LET kept == MinOf(Len(s), n * UnitBytes)
    IN  [ok |-> TRUE, value |-> ValueOf(SubSeq(s, Len(s) - kept + 1, Len(s)))]

ReadUint(n, s) ==
    LET extra == SubSeq(s, 1, Len(s) - n * UnitBytes)
    IN  IF \E i \in DOMAIN extra : extra[i] # 0 THEN Failed
        ELSE [ok |-> TRUE, value |-> ValueOf(SubSeq(s, Len(extra) + 1, Len(s)))]

----------------------------------------------------------------------------
(* Encoding                                                                *)

Blob(room) == [ok |-> TRUE, room |-> room, bytes |-> <<>>]

\* ccder_blob_reserve, ccder_blob_encode_body.
EncodeBody(to, body) ==
    IF to.ok /\ Len(body) <= to.room
    THEN [to EXCEPT !.room = @ - Len(body), !.bytes = body \o @]
    ELSE Failed

\* Mutant of LenForm: a first byte with the top bit set is taken for a length.
LenFormOff(l) == IF l <= Half THEN 0 ELSE UintSize(l)

\* The bytes that follow the first one of a length.
LenForm(l) == IF l < Half THEN 0 ELSE UintSize(l)

EncodeLen(to, l) ==
    IF l >= Base^4 THEN Failed
    ELSE EncodeBody(to, IF LenForm(l) = 0 THEN <<l>>
                        ELSE <<Half + LenForm(l)>> \o LowBytes(l, LenForm(l)))

\* The groups of seven bits that follow the first byte of a tag, at most five of them.
Groups(num) ==
    IF num < HighTag THEN 0
    ELSE MinOf(5, (BitLen(num) + GroupBits - 1) \div GroupBits)

EncodeTag(to, tag) ==
    LET k == Groups(tag[2])
        Group(i) == (tag[2] \div 2^(GroupBits * (k - i))) % Half
    IN  EncodeBody(to,
          IF k = 0 THEN <<tag[1] * (HighTag + 1) + tag[2]>>
          ELSE <<tag[1] * (HighTag + 1) + HighTag>>
                 \o [i \in 1 .. k |-> IF i = k THEN Group(i) ELSE Half + Group(i)])

EncodeTl(to, tag, l) == EncodeTag(EncodeLen(to, l), tag)

EncodeBodyTl(to, tag, body) == EncodeTl(EncodeBody(to, body), tag, Len(body))

EncodeInteger(to, tag, v) == EncodeBodyTl(to, tag, WriteInt(v, IntSize(v)))

EncodeSeqii(to, r, s) ==
    LET body == EncodeInteger(EncodeInteger(to, Integer, s), Integer, r)
    IN  EncodeTl(body, Sequence, Len(body.bytes))

\* ccder_blob_encode_implicit_octet_string: room for the number's own bytes, and the number
\* written as an integer; without any byte of its own, over what follows.
EncodeOctetString(to, v) ==
    IF v = 0 THEN EncodeBodyTl([to EXCEPT !.bytes = [i \in DOMAIN @ |-> IF i = 1 THEN 0 ELSE @[i]]],
                               OctetString, <<>>)
    ELSE EncodeBodyTl(to, OctetString, WriteInt(v, UintSize(v)))

SizeofTag(tag) == 1 + Groups(tag[2])
SizeofLen(l) == 1 + LenForm(l)
Sizeof(tag, l) == SizeofTag(tag) + SizeofLen(l) + l

\* A key is its private part, the encoding of its OID, if any, and its public part.
EncodeEckey(to, key) ==
    LET Wrap(blob, tag, end) == EncodeTl(blob, tag, Len(blob.bytes) - end)
        public == IF key.pub = <<>> THEN to
                  ELSE Wrap(Wrap(EncodeBody(EncodeBody(to, key.pub), <<0>>), BitString, 0),
                            Context(1), 0)
        named == IF key.oid = <<>> \/ ~public.ok THEN public
                 ELSE Wrap(EncodeBody(public, key.oid), Context(0), Len(public.bytes))
        all == EncodeInteger(EncodeBodyTl(named, OctetString, key.priv), Integer, 1)
    IN  IF key.priv = <<>> THEN Failed ELSE Wrap(all, Sequence, 0)

SizeofEckey(key) ==
    LET oid == IF key.oid = <<>> THEN 0 ELSE Sizeof(Context(0), Len(key.oid))
        pub == IF key.pub = <<>> THEN 0
               ELSE Sizeof(Context(1), Sizeof(BitString, Len(key.pub) + 1))
    IN  Sizeof(Sequence,
          Sizeof(Integer, IntSize(1)) + Sizeof(OctetString, Len(key.priv)) + oid + pub)

----------------------------------------------------------------------------
(* Decoding: what was read, and the rest                                   *)

Without(s, n) == SubSeq(s, n + 1, Len(s))

\* What follows something decoded.
Then(d, Rest(_)) == IF d.ok THEN Rest(d) ELSE Failed

\* The groups of a tag's number up to the first one below Half, or none of them.
LastGroup(groups) ==
    CHOOSE k \in 0 .. Len(groups) :
       /\ k > 0 => groups[k] < Half
       /\ \A i \in 1 .. Len(groups) : groups[i] < Half => k > 0 /\ k <= i

Number(groups, k) == FoldLeft(LAMBDA num, b : num * Half + (b % Half), 0, SubSeq(groups, 1, k))

\* ccder_blob_decode_tag: the number may not outgrow the word that will hold the class, too.
DecodeTag(from) ==
    LET Long(class, groups, last) ==
          IF \/ last = 0
             \/ Number(groups, last - 1) >= 2^(ByteBits * TagBytes - GroupBits)
             \/ Number(groups, last) >= 2^(ByteBits * TagBytes - ClassBits)
          THEN Failed
          ELSE [ok |-> TRUE, tag |-> <<class, Number(groups, last)>>, rest |-> Without(groups, last)]
        Tag(class, low, groups) ==
          IF low # HighTag THEN [ok |-> TRUE, tag |-> <<class, low>>, rest |-> groups]
          ELSE Long(class, groups, LastGroup(groups))
    IN  IF from = <<>> THEN Failed
        ELSE Tag(from[1] \div (HighTag + 1), from[1] % (HighTag + 1), Without(from, 1))

\* Mutant of TooLong: the least length of a form is that of the form below.
TooLongOff(len, k) == k > 0 /\ len < Base^(k - 1)

\* A length that a shorter form would hold.
TooLong(len, k) == k > 0 /\ len < (IF k = 1 THEN Half ELSE Base^(k - 1))

DecodeLen(from, strict) ==
    LET Read(k, len) ==
          IF \/ strict /\ TooLong(len, k)
             \/ Len(from) - k - 1 < len
          THEN Failed
          ELSE [ok |-> TRUE, len |-> len, rest |-> Without(from, k + 1)]
        Form(k) ==
          IF k > 4 \/ Len(from) < k + 1 THEN Failed ELSE Read(k, ValueOf(SubSeq(from, 2, k + 1)))
    IN  IF from = <<>> THEN Failed
        ELSE IF from[1] < Half THEN Read(0, from[1])
        ELSE IF from[1] = Half THEN Failed
        ELSE Form(from[1] - Half)

DecodeRange(from, tag, strict) ==
    Then(DecodeTag(from), LAMBDA t :
      IF t.tag # tag THEN Failed
      ELSE Then(DecodeLen(t.rest, strict), LAMBDA l :
             [ok |-> TRUE, range |-> SubSeq(l.rest, 1, l.len), rest |-> Without(l.rest, l.len)]))

\* ccder_blob_decode_uint_skip_leading_zeroes refuses negative numbers and zeros too many.
Unsigned(s) ==
    /\ s # <<>> /\ s[1] < Half
    /\ s[1] = 0 => Len(s) = 1 \/ s[2] >= Half

DecodeUint(from, n, strict) ==
    LET Word(digits, rest) ==
          Then(ReadUint(n, digits), LAMBDA r :
            [ok |-> TRUE, value |-> r.value, rest |-> rest,
             n |-> (Len(digits) + UnitBytes - 1) \div UnitBytes])
    IN  Then(DecodeRange(from, Integer, strict), LAMBDA int :
          IF ~Unsigned(int.range) THEN Failed
          ELSE Word(IF int.range[1] = 0 THEN Tail(int.range) ELSE int.range, int.rest))

DecodeSeqii(from, n, strict) ==
    Then(DecodeRange(from, Sequence, strict), LAMBDA seq :
      Then(DecodeUint(seq.range, n, strict), LAMBDA r :
        Then(DecodeUint(r.rest, n, strict), LAMBDA s :
          IF s.rest # <<>> THEN Failed
          ELSE [ok |-> TRUE, r |-> r.value, s |-> s.value, rest |-> seq.rest])))

\* The string without its first byte, and the bits that byte says it has.
DecodeBitstring(from) ==
    LET Count(all, unused) == IF all >= unused THEN all - unused ELSE 0
    IN  Then(DecodeRange(from, BitString, FALSE), LAMBDA bits :
          IF bits.range = <<>> THEN [ok |-> TRUE, range |-> <<>>, count |-> 0]
          ELSE [ok |-> TRUE, range |-> Tail(bits.range),
                count |-> Count((Len(bits.range) - 1) * ByteBits, bits.range[1])])

DecodeOid(from) ==
    Then(DecodeRange(from, ObjectIdentifier, FALSE), LAMBDA oid :
      [ok |-> TRUE, oid |-> SubSeq(from, 1, Len(from) - Len(oid.rest))])

\* The curve and the public part may be missing, and what is there must be right.
DecodeEckey(from) ==
    LET Key(priv, oid, bits) ==
          [ok |-> TRUE, key |-> [priv |-> priv, oid |-> oid, pub |-> bits.range],
           count |-> bits.count]
        Public(priv, oid, pub) ==
          IF pub.ok THEN Then(DecodeBitstring(pub.range), LAMBDA bits : Key(priv, oid, bits))
          ELSE Key(priv, oid, [range |-> <<>>, count |-> 0])
        Named(priv, curve) ==
          IF curve.ok
          THEN Then(DecodeOid(curve.range), LAMBDA name :
                 Public(priv.range, name.oid, DecodeRange(curve.rest, Context(1), FALSE)))
          ELSE Public(priv.range, <<>>, DecodeRange(priv.rest, Context(1), FALSE))
    IN  Then(DecodeRange(from, Sequence, FALSE), LAMBDA seq :
          Then(DecodeUint(seq.range, 1, FALSE), LAMBDA version :
            IF version.value # 1 THEN Failed
            ELSE Then(DecodeRange(version.rest, OctetString, FALSE), LAMBDA priv :
                   Named(priv, DecodeRange(priv.rest, Context(0), FALSE)))))

----------------------------------------------------------------------------
(* One call of one of them.  Rooms lie next to the size an encoding needs. *)

\* A length with more bytes than it needs, and a tag in the form for large numbers.
LongLen(l, more) ==
    LET k == LenForm(l) + more
    IN  IF k = 0 THEN <<l>> ELSE <<Half + k>> \o LowBytes(l, k)

TagBytesOf(tag, long) ==
    IF long THEN <<tag[1] * (HighTag + 1) + HighTag, tag[2]>> ELSE EncodeTag(Blob(1), tag).bytes

Tlv(tag, e, content) == TagBytesOf(tag, e.long) \o LongLen(Len(content), e.more) \o content

Elements == [more : {0, 1}, long : BOOLEAN]

Signature(c) ==
    Tlv(Sequence, c.outer, Tlv(Integer, c.inner, c.r) \o Tlv(Integer, [more |-> 0, long |-> FALSE], c.s)
                             \o c.inside)

Calls ==
    [op : {"write"}, v : Numbers, more : {0, 1}, size : 0 .. 3 * UnitBytes]
    \cup [op : {"header"}, tag : Tags, len : Lengths]
    \cup [op : {"bytes"}, s : UNION {[1 .. k -> Alphabet] : k \in 0 .. 4}]
    \cup [op : {"integer"}, v : Numbers, n : 1 .. 3]
    \cup [op : {"octets"}, v : Numbers]
    \cup [op : {"seqii"}, r : Octets, s : Octets, outer : Elements, inner : Elements,
          inside : {<<>>, <<0>>}]
    \cup [op : {"eckey"}, priv : Octets, pub : Octets, oid : {<<>>, <<6, 1, 9>>}]

Init == call = Pending /\ answer = Pending

Ask == call = Pending /\ call' \in Calls /\ UNCHANGED answer

Asked(op) == call # Pending /\ answer = Pending /\ call.op = op /\ UNCHANGED call

WriteNumber ==
    LET n == (UintSize(call.v) + UnitBytes - 1) \div UnitBytes + call.more
    IN  /\ Asked("write")
        /\ answer' = [uint |-> WriteUint(call.v, call.size),
                      padded |-> WritePadded(n, call.v, call.size)]

Tl(s, strict) ==
    Then(DecodeTag(s), LAMBDA t :
      Then(DecodeLen(t.rest, strict), LAMBDA l :
        [ok |-> TRUE, tag |-> t.tag, len |-> l.len, after_tag |-> t.rest, rest |-> l.rest]))

Header ==
    /\ Asked("header")
    /\ \E room \in {Sizeof(call.tag, 0), SizeofTag(call.tag) + SizeofLen(call.len) - 1,
                   SizeofTag(call.tag) + SizeofLen(call.len)} :
          LET to == EncodeTl(Blob(room), call.tag, call.len)
          IN  answer' = [room |-> room, to |-> to,
                         back |-> Tl(to.bytes \o [i \in 1 .. call.len |-> 0], TRUE)]

Bytes == Asked("bytes") /\ answer' = [lenient |-> Tl(call.s, FALSE), strict |-> Tl(call.s, TRUE)]

EncodeNumber ==
    /\ Asked("integer")
    /\ \E less \in {0, 1} :
          LET size == Sizeof(Integer, IntSize(call.v))
              to == EncodeInteger(Blob(size - less), Integer, call.v)
          IN  answer' = [size |-> size, less |-> less, to |-> to,
                         back |-> DecodeUint(to.bytes \o <<0>>, call.n, TRUE)]

Octet ==
    /\ Asked("octets")
    /\ LET to == EncodeOctetString([Blob(10) EXCEPT !.bytes = <<Base - 1>>], call.v)
       IN  answer' = DecodeRange(to.bytes, OctetString, TRUE)

Seqii ==
    /\ Asked("seqii")
    /\ \E n \in 1 .. 2 :
          answer' = [n |-> n, lenient |-> DecodeSeqii(Signature(call), n, FALSE),
                     strict |-> DecodeSeqii(Signature(call), n, TRUE)]

Eckey ==
    /\ Asked("eckey")
    /\ \E less \in {0, 1} :
          LET to == EncodeEckey(Blob(SizeofEckey(call) - less), call)
          IN  answer' = [less |-> less, to |-> to, back |-> DecodeEckey(to.bytes)]

Next ==
    \/ Ask
    \/ WriteNumber \/ Header \/ Bytes \/ EncodeNumber \/ Octet \/ Seqii \/ Eckey

Spec == Init /\ [][Next]_vars

----------------------------------------------------------------------------
(* What they promise                                                       *)

\* The most significant bytes (ccn.h:419); but fewer bytes than a word, out of two words, are
\* zeros where they should come from the upper one.
MostSignificant(v, size, bytes) ==
    LET all == LowBytes(v, UintSize(v))
        taken == MinOf(size, Len(all))
        lower == UnitBytes - ((Len(all) - taken) % UnitBytes)
        lost == IF taken < UnitBytes /\ taken > lower THEN taken - lower ELSE 0
    IN  bytes = [i \in 1 .. taken |-> IF i <= lost THEN 0 ELSE all[i]]

\* Zeros in front, unless it does not fit.
Padded(v, size, padded) ==
    IF UintSize(v) <= size
    THEN padded.bytes = LowBytes(v, size) /\ padded.offset = size - UintSize(v)
    ELSE MostSignificant(v, size, padded.bytes)

\* What is accepted of two integers, and what of it strictly.
Accepted(c, n, d) ==
    LET Fits(x) == Unsigned(x) /\ UintSize(ValueOf(x)) <= n * UnitBytes
    IN  IF Fits(c.r) /\ Fits(c.s) /\ c.inside = <<>>
        THEN d.ok /\ d.r = ValueOf(c.r) /\ d.s = ValueOf(c.s) /\ d.rest = <<>>
        ELSE ~d.ok

\* The bytes of a number; but a number of whole bytes loses the last of them to a zero in
\* front, and 0, which has none, has that zero written over the byte that follows
\* (ccder_blob_encode_implicit_octet_string.c:20-24).
OctetsWritten(v, s) ==
    LET own == LowBytes(v, UintSize(v))
    IN  IF v = 0 THEN s.range = <<>> /\ s.rest = <<0>>
        ELSE /\ s.range = IF BitLen(v) % ByteBits = 0 THEN <<0>> \o Front(own) ELSE own
             /\ s.rest = <<Base - 1>>

\* Every encoder fills the size announced for it and refuses less room, and its decoder
\* returns what was encoded, the two exceptions above apart.  A strict decoder accepts, of
\* what the lenient one reads, exactly what has the encoder's form of its lengths, whatever
\* the form of its tags: the one for large numbers of a small one, too
\* (ccder_blob_encode_*.c, ccder_blob_decode_*.c, ccder_sizeof_*.c).
DerExact ==
    answer # Pending =>
      CASE call.op = "write" ->
             /\ MostSignificant(call.v, call.size, answer.uint)
             /\ Padded(call.v, call.size, answer.padded)
        [] call.op = "header" ->
             IF answer.room < SizeofTag(call.tag) + SizeofLen(call.len) \/ call.len >= Base^4
             THEN ~answer.to.ok
             ELSE /\ answer.to.room = answer.room - Len(answer.to.bytes)
                  /\ answer.back.ok /\ answer.back.tag = call.tag /\ answer.back.len = call.len
                  /\ Len(answer.back.rest) = call.len
        [] call.op = "bytes" ->
             /\ LET read == answer.lenient
                    shortest ==
                      read.ok /\ read.after_tag = EncodeLen(Blob(5), read.len).bytes \o read.rest
                IN  answer.strict = IF shortest THEN read ELSE Failed
             /\ answer.lenient.ok =>
                  /\ Len(answer.lenient.rest) >= answer.lenient.len
                  /\ Len(call.s) - Len(answer.lenient.after_tag) >= SizeofTag(answer.lenient.tag)
        [] call.op = "integer" ->
             IF answer.less > 0 THEN ~answer.to.ok
             ELSE /\ answer.to.room = 0
                  /\ answer.back.ok <=> UintSize(call.v) <= call.n * UnitBytes
                  /\ answer.back.ok =>
                       /\ answer.back.value = call.v /\ answer.back.rest = <<0>>
                       /\ answer.back.n * UnitBytes >= UintSize(call.v)
                       /\ (answer.back.n - 1) * UnitBytes < UintSize(call.v)
        [] call.op = "octets" -> OctetsWritten(call.v, answer)
        [] call.op = "seqii" ->
             /\ Accepted(call, answer.n, answer.lenient)
             /\ IF call.outer.more = 0 /\ call.inner.more = 0 THEN answer.strict = answer.lenient
                ELSE ~answer.strict.ok
        [] call.op = "eckey" ->
             IF call.priv = <<>> \/ answer.less > 0 THEN ~answer.to.ok
             ELSE /\ answer.to.room = 0
                  /\ answer.back.ok
                  /\ answer.back.key = [priv |-> call.priv, oid |-> call.oid, pub |-> call.pub]
                  /\ answer.back.count = ByteBits * Len(call.pub)
=============================================================================
