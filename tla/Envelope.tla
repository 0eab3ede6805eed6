------------------------------ MODULE Envelope ------------------------------
(***************************************************************************)
(* The wire envelope of a published message (envelope.rs).  A byte is a    *)
(* number below Base (256 in the code), the routing key's length is two    *)
(* such digits, big end first.  An Option is a sequence of at most one     *)
(* element.                                                                *)
(***************************************************************************)
EXTENDS Integers, Sequences

CONSTANTS
  Base,   \* how many values a byte has
  Text    \* the byte sequences that are valid UTF-8

Bytes == Seq(0..(Base - 1))

ASSUME EnvelopeAssumption ==
  /\ Base \in Nat /\ Base >= 2
  /\ Text \subseteq Bytes

VERSION == 1
FLAG_NONE == 0
FLAG_RK == 1
MAX_RK_LEN == Base * Base - 1

None == <<>>
Some(x) == <<x>>
RoutingKey == {None} \cup {Some(t) : t \in Text}

\* from_be_bytes of a u16.
Number(hi, lo) == hi * Base + lo

\* encode refuses a key that is too long, with TooLong.
Encodable(rk) == rk # None => Len(rk[1]) <= MAX_RK_LEN

\* Mutant: a length of one digit.
EncodeShort(rk, payload) ==
  IF rk = None THEN <<VERSION, FLAG_NONE>> \o payload
  ELSE <<VERSION, FLAG_RK, Len(rk[1])>> \o rk[1] \o payload

\* The length's digits are to_be_bytes of a u16.
encode(rk, payload) ==
  IF rk = None THEN <<VERSION, FLAG_NONE>> \o payload
  ELSE <<VERSION, FLAG_RK, Len(rk[1]) \div Base, Len(rk[1]) % Base>> \o rk[1] \o payload

-----------------------------------------------------------------------------
\* Where the routing key ends, when the flag says that there is one.
BodyEnd(b) == 4 + Number(b[3], b[4])

\* decode's checks in their order: Truncated, UnsupportedVersion, UnknownFlag,
\* LengthTruncated, BodyTruncated, InvalidUtf8.
Decodable(b) ==
  /\ Len(b) >= 2
  /\ b[1] = VERSION
  /\ \/ b[2] = FLAG_NONE
     \/ /\ b[2] = FLAG_RK
        /\ Len(b) >= 4
        /\ Len(b) >= BodyEnd(b)
        /\ SubSeq(b, 5, BodyEnd(b)) \in Text

\* decode's result for bytes that pass its checks.
decode(b) ==
  IF b[2] = FLAG_NONE THEN [key |-> None, payload |-> SubSeq(b, 3, Len(b))]
  ELSE [key |-> Some(SubSeq(b, 5, BodyEnd(b))),
        payload |-> SubSeq(b, BodyEnd(b) + 1, Len(b))]

=============================================================================
