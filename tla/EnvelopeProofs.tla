--------------------------- MODULE EnvelopeProofs ---------------------------
(***************************************************************************)
(* encode and decode are inverse to each other: what is published is what  *)
(* is decoded, and only what encode writes decodes.                        *)
(***************************************************************************)
EXTENDS Envelope, SequenceTheorems, TLAPS

\* Splitting a sequence: the parts of a concatenation are read back (the slices of decode
\* against the extend_from_slice of encode).
LEMMA SplitsBack ==
  ASSUME NEW S, NEW s \in Seq(S), NEW t \in Seq(S)
  PROVE  /\ SubSeq(s \o t, 1, Len(s)) = s
         /\ SubSeq(s \o t, Len(s) + 1, Len(s \o t)) = t
<1>1. /\ s \o t \in Seq(S)
      /\ Len(s \o t) = Len(s) + Len(t)
      /\ \A i \in 1..(Len(s) + Len(t)) :
           (s \o t)[i] = IF i <= Len(s) THEN s[i] ELSE t[i - Len(s)]
  BY ConcatProperties
<1>2. Len(s) \in Nat /\ Len(t) \in Nat
  BY LenProperties
<1>3. \A i \in 1..Len(s \o t) : (s \o t)[i] \in S
  BY <1>1, ElementOfSeq
<1>4. SubSeq(s \o t, 1, Len(s)) = s
  <2>1. /\ SubSeq(s \o t, 1, Len(s)) \in Seq(S)
        /\ Len(SubSeq(s \o t, 1, Len(s))) = Len(s)
        /\ \A i \in 1..Len(s) : SubSeq(s \o t, 1, Len(s))[i] = (s \o t)[i]
    <3>1. \A i \in 1..Len(s) : (s \o t)[i] \in S
      BY <1>1, <1>2, <1>3
    <3>. QED  BY <3>1, <1>2, SubSeqProperties
  <2>2. \A i \in 1..Len(s) : (s \o t)[i] = s[i]
    BY <1>1, <1>2
  <2>. QED  BY <2>1, <2>2, SeqEqual
<1>5. SubSeq(s \o t, Len(s) + 1, Len(s \o t)) = t
  <2> DEFINE u == SubSeq(s \o t, Len(s) + 1, Len(s \o t))
  <2>1. /\ u \in Seq(S)
        /\ Len(u) = Len(t)
        /\ \A i \in 1..Len(t) : u[i] = (s \o t)[Len(s) + i]
    <3>1. \A i \in (Len(s) + 1)..Len(s \o t) : (s \o t)[i] \in S
      BY <1>1, <1>2, <1>3
    <3>2. /\ u \in Seq(S)
          /\ Len(u) = IF Len(s) + 1 <= Len(s \o t) THEN Len(s \o t) - (Len(s) + 1) + 1 ELSE 0
          /\ \A i \in 1..(Len(s \o t) - (Len(s) + 1) + 1) : u[i] = (s \o t)[(Len(s) + 1) + i - 1]
      BY <3>1, <1>1, <1>2, SubSeqProperties
    <3>. QED  BY <3>2, <1>1, <1>2
  <2>2. \A i \in 1..Len(t) : (s \o t)[Len(s) + i] = t[i]
    BY <1>1, <1>2
  <2>. QED  BY <2>1, <2>2, SeqEqual
<1>. QED  BY <1>4, <1>5

\* The same for three parts: the first is read byte by byte, the others as slices.
LEMMA ThreeParts ==
  ASSUME NEW S, NEW h \in Seq(S), NEW k \in Seq(S), NEW p \in Seq(S),
         NEW b, b = (h \o k) \o p
  PROVE  /\ b \in Seq(S) /\ Len(b) = Len(h) + Len(k) + Len(p)
         /\ \A i \in 1..Len(h) : b[i] = h[i]
         /\ SubSeq(b, Len(h) + 1, Len(h) + Len(k)) = k
         /\ SubSeq(b, Len(h) + Len(k) + 1, Len(b)) = p
<1> DEFINE hk == h \o k
<1>1. Len(h) \in Nat /\ Len(k) \in Nat /\ Len(p) \in Nat
  BY LenProperties
<1>2. /\ hk \in Seq(S) /\ Len(hk) = Len(h) + Len(k)
      /\ \A i \in 1..(Len(h) + Len(k)) : hk[i] = IF i <= Len(h) THEN h[i] ELSE k[i - Len(h)]
  BY ConcatProperties
<1>3. b = hk \o p
  OBVIOUS
<1> HIDE DEF hk
<1>4. /\ b \in Seq(S) /\ Len(b) = Len(hk) + Len(p)
      /\ \A i \in 1..(Len(hk) + Len(p)) : b[i] = IF i <= Len(hk) THEN hk[i] ELSE p[i - Len(hk)]
  <2>1. /\ hk \o p \in Seq(S) /\ Len(hk \o p) = Len(hk) + Len(p)
        /\ \A i \in 1..(Len(hk) + Len(p)) :
             (hk \o p)[i] = IF i <= Len(hk) THEN hk[i] ELSE p[i - Len(hk)]
    <3>1. hk \in Seq(S)
      BY <1>2
    <3>. QED  BY ONLY <3>1, p \in Seq(S), ConcatProperties
  <2>. QED  BY <1>3, <2>1, Zenon
<1>5. Len(b) = Len(h) + Len(k) + Len(p)
  BY <1>1, <1>2, <1>4
<1>6. \A i \in 1..Len(h) : b[i] = h[i]
  BY <1>1, <1>2, <1>4
<1>7. SubSeq(b, Len(h) + Len(k) + 1, Len(b)) = p
  <2>1. SubSeq(b, Len(hk) + 1, Len(b)) = p
    BY <1>2, <1>3, SplitsBack
  <2>. QED  BY <2>1, <1>2, Zenon
<1>8. SubSeq(b, Len(h) + 1, Len(h) + Len(k)) = k
  <2> DEFINE u == SubSeq(b, Len(h) + 1, Len(h) + Len(k))
  <2>1. \A i \in 1..Len(b) : b[i] \in S
    BY <1>4, ElementOfSeq
  <2>2. \A i \in (Len(h) + 1)..(Len(h) + Len(k)) : b[i] \in S
    BY <1>1, <1>5, <2>1
  <2>3. /\ u \in Seq(S)
        /\ Len(u) = IF Len(h) + 1 <= Len(h) + Len(k)
                    THEN Len(h) + Len(k) - (Len(h) + 1) + 1 ELSE 0
        /\ \A i \in 1..(Len(h) + Len(k) - (Len(h) + 1) + 1) : u[i] = b[(Len(h) + 1) + i - 1]
    BY <1>1, <2>2, SubSeqProperties
  <2> HIDE DEF u
  <2>4. Len(u) = Len(k) /\ \A i \in 1..Len(k) : u[i] = b[Len(h) + i]
    <3>1. /\ Len(h) + Len(k) - (Len(h) + 1) + 1 = Len(k)
          /\ \A i \in 1..Len(k) : (Len(h) + 1) + i - 1 = Len(h) + i
      BY <1>1
    <3>2. Len(u) = Len(k)
      BY <1>1, <2>3
    <3>. QED  BY <2>3, <3>1, <3>2, Zenon
  <2>5. \A i \in 1..Len(k) : b[Len(h) + i] = k[i]
    BY <1>1, <1>2, <1>4
  <2>6. u = k
    BY <2>3, <2>4, <2>5, SeqEqual
  <2>. QED  BY <2>6 DEF u
<1>. QED  BY <1>4, <1>5, <1>6, <1>7, <1>8

\* The two digits of a length up to MAX_RK_LEN are bytes and give the length back
\* (to_be_bytes and from_be_bytes).
LEMMA DigitsBack ==
  ASSUME NEW n \in Nat, n <= MAX_RK_LEN
  PROVE  /\ n \div Base \in 0..(Base - 1) /\ n % Base \in 0..(Base - 1)
         /\ Number(n \div Base, n % Base) = n
<1>1. /\ Base \in Nat /\ Base > 0 /\ n < Base * Base
  BY EnvelopeAssumption DEF MAX_RK_LEN
<1>2. /\ n \div Base \in Nat /\ n % Base \in 0..(Base - 1)
      /\ n = Base * (n \div Base) + (n % Base)
  BY <1>1
<1>3. n \div Base < Base
  BY <1>1, <1>2
<1>. QED  BY <1>1, <1>2, <1>3 DEF Number

\* Two bytes are the two digits of the number that they make, which is at most MAX_RK_LEN.
LEMMA NumberBack ==
  ASSUME NEW hi \in 0..(Base - 1), NEW lo \in 0..(Base - 1)
  PROVE  /\ Number(hi, lo) \in Nat /\ Number(hi, lo) <= MAX_RK_LEN
         /\ Number(hi, lo) \div Base = hi /\ Number(hi, lo) % Base = lo
<1>1. Base \in Nat /\ Base >= 2
  BY EnvelopeAssumption
<1>2. hi * Base \in Nat /\ hi * Base <= (Base - 1) * Base
  BY <1>1
<1>3. (Base - 1) * Base = Base * Base - Base
  BY <1>1
<1>4. (hi * Base + lo) \div Base = hi /\ (hi * Base + lo) % Base = lo
  BY <1>1
<1>. QED  BY <1>1, <1>2, <1>3, <1>4 DEF Number, MAX_RK_LEN
\* The header and its four bytes, in front of a key and a payload.
LEMMA HeaderAndKey ==
  ASSUME NEW key \in Bytes, NEW payload \in Bytes, Len(key) <= MAX_RK_LEN
  PROVE  LET b == encode(Some(key), payload)
         IN  /\ b \in Bytes
             /\ Len(b) = 4 + Len(key) + Len(payload)
             /\ b[1] = VERSION /\ b[2] = FLAG_RK /\ BodyEnd(b) = 4 + Len(key)
             /\ SubSeq(b, 5, BodyEnd(b)) = key
             /\ SubSeq(b, BodyEnd(b) + 1, Len(b)) = payload
<1> DEFINE n == Len(key)
           hi == n \div Base
           lo == n % Base
           header == <<VERSION, FLAG_RK, hi, lo>>
           b == encode(Some(key), payload)
<1>1. n \in Nat /\ Len(payload) \in Nat
  BY LenProperties DEF Bytes
<1>2. hi \in 0..(Base - 1) /\ lo \in 0..(Base - 1) /\ Number(hi, lo) = n
  BY <1>1, DigitsBack
<1> HIDE DEF hi, lo
<1>3. header \in Bytes /\ Len(header) = 4
  BY <1>2, EnvelopeAssumption DEF Bytes, VERSION, FLAG_RK
<1>4. b = (header \o key) \o payload
  <2>1. Some(key) # None /\ Some(key)[1] = key
    BY DEF Some, None
  <2>. QED  BY <2>1, Zenon DEF encode, hi, lo
<1>5. header[1] = VERSION /\ header[2] = FLAG_RK /\ header[3] = hi /\ header[4] = lo
  OBVIOUS
<1> HIDE DEF b, n, header
<1>6. /\ b \in Bytes /\ Len(b) = 4 + n + Len(payload)
      /\ \A i \in 1..4 : b[i] = header[i]
      /\ SubSeq(b, 4 + 1, 4 + n) = key
      /\ SubSeq(b, 4 + n + 1, Len(b)) = payload
  <2>1. /\ b \in Bytes /\ Len(b) = Len(header) + n + Len(payload)
        /\ \A i \in 1..Len(header) : b[i] = header[i]
        /\ SubSeq(b, Len(header) + 1, Len(header) + n) = key
        /\ SubSeq(b, Len(header) + n + 1, Len(b)) = payload
    <3>1. header \in Seq(0..(Base - 1)) /\ key \in Seq(0..(Base - 1))
                                       /\ payload \in Seq(0..(Base - 1))
      BY <1>3, Zenon DEF Bytes
    <3>. QED  BY <1>4, <3>1, ThreeParts DEF Bytes, n
  <2>. QED  BY <1>3, <2>1, Zenon
<1>7. b[1] = VERSION /\ b[2] = FLAG_RK /\ b[3] = hi /\ b[4] = lo
  <2>1. 1 \in 1..4 /\ 2 \in 1..4 /\ 3 \in 1..4 /\ 4 \in 1..4
    OBVIOUS
  <2>. QED  BY <1>5, <1>6, <2>1, Zenon
<1>8. BodyEnd(b) = 4 + n
  BY <1>2, <1>7, Zenon DEF BodyEnd
<1>9. 4 + 1 = 5
  OBVIOUS
<1>10. SubSeq(b, 5, BodyEnd(b)) = key /\ SubSeq(b, BodyEnd(b) + 1, Len(b)) = payload
  BY <1>6, <1>8, <1>9, Zenon
<1>. QED  BY <1>6, <1>7, <1>8, <1>10, Zenon DEF b, n

\* What encode accepts, decode gives back, key and payload; no key and the empty key stay
\* apart.
THEOREM RoundTrip ==
  ASSUME NEW rk \in RoutingKey, NEW payload \in Bytes, Encodable(rk)
  PROVE  /\ encode(rk, payload) \in Bytes
         /\ Decodable(encode(rk, payload))
         /\ decode(encode(rk, payload)) = [key |-> rk, payload |-> payload]
<1> DEFINE b == encode(rk, payload)
<1>1. CASE rk = None
  <2>1. b = <<VERSION, FLAG_NONE>> \o payload
    BY <1>1 DEF encode
  <2>2. <<VERSION, FLAG_NONE>> \in Bytes /\ Len(<<VERSION, FLAG_NONE>>) = 2
    BY EnvelopeAssumption DEF Bytes, VERSION, FLAG_NONE
  <2> HIDE DEF b
  <2>3. Len(payload) \in Nat
    BY LenProperties DEF Bytes
  <2>4. b \in Bytes /\ Len(b) = 2 + Len(payload) /\ b[1] = VERSION /\ b[2] = FLAG_NONE
    BY <2>1, <2>2, <2>3, ConcatProperties DEF Bytes
  <2>5. SubSeq(b, 3, Len(b)) = payload
    <3>1. SubSeq(b, Len(<<VERSION, FLAG_NONE>>) + 1, Len(b)) = payload
      BY <2>1, <2>2, SplitsBack DEF Bytes
    <3>2. 2 + 1 = 3
      OBVIOUS
    <3>. QED  BY <2>2, <3>1, <3>2, Zenon
  <2>6. Decodable(b)
    <3>1. Len(b) >= 2
      BY <2>3, <2>4
    <3>. QED  BY <2>4, <3>1, Zenon DEF Decodable
  <2>7. decode(b) = [key |-> None, payload |-> payload]
    BY <2>4, <2>5, Zenon DEF decode
  <2>. QED  BY <1>1, <2>4, <2>6, <2>7, Zenon DEF b
<1>2. ASSUME NEW t \in Text, rk = Some(t)
      PROVE  b \in Bytes /\ Decodable(b) /\ decode(b) = [key |-> rk, payload |-> payload]
  <2>1. t \in Bytes /\ Len(t) \in Nat /\ Len(payload) \in Nat
    BY EnvelopeAssumption, LenProperties DEF Bytes
  <2>2. Len(t) <= MAX_RK_LEN
    BY <1>2 DEF Encodable, Some, None
  <2>3. /\ b \in Bytes
        /\ Len(b) = 4 + Len(t) + Len(payload)
        /\ b[1] = VERSION /\ b[2] = FLAG_RK /\ BodyEnd(b) = 4 + Len(t)
        /\ SubSeq(b, 5, BodyEnd(b)) = t
        /\ SubSeq(b, BodyEnd(b) + 1, Len(b)) = payload
    BY <1>2, <2>1, <2>2, HeaderAndKey
  <2> HIDE DEF b
  <2>4. Decodable(b)
    <3>1. Len(b) >= 2 /\ Len(b) >= 4 /\ Len(b) >= BodyEnd(b)
      <4>1. Len(b) = 4 + Len(t) + Len(payload) /\ BodyEnd(b) = 4 + Len(t)
        BY <2>3, Zenon
      <4>. QED  BY <2>1, <4>1
    <3>2. SubSeq(b, 5, BodyEnd(b)) \in Text
      BY <2>3, Zenon
    <3>. QED  BY <2>3, <3>1, <3>2, Zenon DEF Decodable
  <2>5. decode(b) = [key |-> Some(t), payload |-> payload]
    <3>1. b[2] # FLAG_NONE
      <4>1. FLAG_RK # FLAG_NONE
        BY DEF FLAG_RK, FLAG_NONE
      <4>. QED  BY <2>3, <4>1, Zenon
    <3>. QED  BY <2>3, <3>1, Zenon DEF decode
  <2>. QED  BY <1>2, <2>3, <2>4, <2>5
<1>. QED  BY <1>1, <1>2 DEF RoutingKey
\* Cutting a sequence and joining the parts gives the sequence.
LEMMA JoinsBack ==
  ASSUME NEW S, NEW b \in Seq(S), NEW m \in 0..Len(b)
  PROVE  SubSeq(b, 1, m) \o SubSeq(b, m + 1, Len(b)) = b
<1>1. Len(b) \in Nat
  BY LenProperties
<1>2. 1 \in 1..(Len(b) + 1) /\ m \in (1 - 1)..Len(b) /\ Len(b) \in m..Len(b)
  BY <1>1
<1>3. SubSeq(b, 1, m) \o SubSeq(b, m + 1, Len(b)) = SubSeq(b, 1, Len(b))
  BY <1>2, ConcatAdjacentSubSeq
<1>. QED  BY <1>3, SubSeqFull

\* A slice from the start is a tuple of its bytes.
LEMMA FirstBytes ==
  ASSUME NEW S, NEW b \in Seq(S)
  PROVE  /\ Len(b) >= 2 => SubSeq(b, 1, 2) = <<b[1], b[2]>>
         /\ Len(b) >= 4 => SubSeq(b, 1, 4) = <<b[1], b[2], b[3], b[4]>>
<1>1. Len(b) \in Nat /\ \A i \in 1..Len(b) : b[i] \in S
  BY LenProperties, ElementOfSeq
<1>2. ASSUME Len(b) >= 2  PROVE SubSeq(b, 1, 2) = <<b[1], b[2]>>
  <2>1. \A i \in 1..2 : b[i] \in S
    BY <1>1, <1>2
  <2>2. /\ SubSeq(b, 1, 2) \in Seq(S) /\ Len(SubSeq(b, 1, 2)) = 2
        /\ \A i \in 1..2 : SubSeq(b, 1, 2)[i] = b[i]
    BY <2>1, SubSeqProperties
  <2>3. <<b[1], b[2]>> \in Seq(S) /\ Len(<<b[1], b[2]>>) = 2
        /\ \A i \in 1..2 : <<b[1], b[2]>>[i] = b[i]
    BY <2>1
  <2>. QED  BY <2>2, <2>3, SeqEqual
<1>3. ASSUME Len(b) >= 4  PROVE SubSeq(b, 1, 4) = <<b[1], b[2], b[3], b[4]>>
  <2>1. \A i \in 1..4 : b[i] \in S
    BY <1>1, <1>3
  <2>2. /\ SubSeq(b, 1, 4) \in Seq(S) /\ Len(SubSeq(b, 1, 4)) = 4
        /\ \A i \in 1..4 : SubSeq(b, 1, 4)[i] = b[i]
    BY <2>1, SubSeqProperties
  <2>3. <<b[1], b[2], b[3], b[4]>> \in Seq(S) /\ Len(<<b[1], b[2], b[3], b[4]>>) = 4
        /\ \A i \in 1..4 : <<b[1], b[2], b[3], b[4]>>[i] = b[i]
    BY <2>1
  <2>. QED  BY <2>2, <2>3, SeqEqual
<1>. QED  BY <1>2, <1>3

\* What decode accepts is what encode writes for the key and the payload that decode
\* returns: there is one envelope for each message, and no other bytes decode.
THEOREM OnlyEnvelopesDecode ==
  ASSUME NEW b \in Bytes, Decodable(b)
  PROVE  /\ decode(b).key \in RoutingKey /\ Encodable(decode(b).key)
         /\ encode(decode(b).key, decode(b).payload) = b
<1>1. /\ b \in Seq(0..(Base - 1)) /\ Len(b) \in Nat /\ Base \in Nat
      /\ \A i \in 1..Len(b) : b[i] \in 0..(Base - 1)
  BY EnvelopeAssumption, LenProperties, ElementOfSeq DEF Bytes
<1>2. CASE b[2] = FLAG_NONE
  <2>1. decode(b) = [key |-> None, payload |-> SubSeq(b, 3, Len(b))]
    BY <1>2, Zenon DEF decode
  <2>2. Len(b) >= 2 /\ b[1] = VERSION
    BY Zenon DEF Decodable
  <2>3. encode(None, SubSeq(b, 3, Len(b))) = b
    <3>1. SubSeq(b, 1, 2) = <<VERSION, FLAG_NONE>>
      BY <1>1, <1>2, <2>2, FirstBytes
    <3>2. SubSeq(b, 1, 2) \o SubSeq(b, 2 + 1, Len(b)) = b
      <4>1. 2 \in 0..Len(b)
        BY <1>1, <2>2
      <4>. QED  BY <1>1, <4>1, JoinsBack
    <3>3. 2 + 1 = 3
      OBVIOUS
    <3>. QED  BY <3>1, <3>2, <3>3, Zenon DEF encode
  <2>4. None \in RoutingKey /\ Encodable(None)
    BY Zenon DEF RoutingKey, Encodable
  <2>5. decode(b).key = None /\ decode(b).payload = SubSeq(b, 3, Len(b))
    BY ONLY <2>1
  <2>. QED  BY <2>3, <2>4, <2>5, Zenon
<1>3. CASE b[2] = FLAG_RK
  <2> DEFINE n == Number(b[3], b[4])
             key == SubSeq(b, 5, 4 + n)
             payload == SubSeq(b, 4 + n + 1, Len(b))
  <2>1. FLAG_RK # FLAG_NONE
    BY DEF FLAG_RK, FLAG_NONE
  <2>2. b[1] = VERSION /\ Len(b) >= 4 /\ Len(b) >= 4 + n /\ key \in Text
    BY <1>3, <2>1, Zenon DEF Decodable, BodyEnd
  <2>3. b[3] \in 0..(Base - 1) /\ b[4] \in 0..(Base - 1)
    BY <1>1, <2>2
  <2>4. n \in Nat /\ n <= MAX_RK_LEN /\ n \div Base = b[3] /\ n % Base = b[4]
    BY <2>3, NumberBack
  <2>5. decode(b) = [key |-> Some(key), payload |-> payload]
    BY <1>3, <2>1, Zenon DEF decode, BodyEnd
  <2> HIDE DEF n
  <2>6. Len(key) = n
    <3>1. \A i \in 5..(4 + n) : b[i] \in 0..(Base - 1)
      <4>1. n \in Nat /\ Len(b) \in Nat /\ Len(b) >= 4 + n
        BY <1>1, <2>2, <2>4, Zenon
      <4>2. \A i \in 5..(4 + n) : i \in 1..Len(b)
        BY ONLY <4>1
      <4>. QED  BY <1>1, <4>2, Zenon
    <3>2. Len(key) = IF 5 <= 4 + n THEN 4 + n - 5 + 1 ELSE 0
      BY <3>1, <2>4, SubSeqProperties
    <3>. QED  BY <3>2, <2>4
  <2>7. (<<VERSION, FLAG_RK, n \div Base, n % Base>> \o key) \o payload = b
    <3>1. SubSeq(b, 1, 4) = <<VERSION, FLAG_RK, n \div Base, n % Base>>
      <4>1. SubSeq(b, 1, 4) = <<b[1], b[2], b[3], b[4]>>
        BY <1>1, <2>2, FirstBytes
      <4>. QED  BY <4>1, <1>3, <2>2, <2>4, Zenon
    <3>2. SubSeq(b, 1, 4) \o SubSeq(b, 4 + 1, 4 + n) = SubSeq(b, 1, 4 + n)
      <4>1. 1 \in 1..(Len(b) + 1) /\ 4 \in (1 - 1)..Len(b) /\ 4 + n \in 4..Len(b)
        BY <1>1, <2>2, <2>4
      <4>. QED  BY <1>1, <4>1, ConcatAdjacentSubSeq
    <3>3. SubSeq(b, 1, 4 + n) \o payload = b
      <4>1. 4 + n \in 0..Len(b)
        BY <1>1, <2>2, <2>4
      <4>. QED  BY <1>1, <4>1, JoinsBack
    <3>4. 4 + 1 = 5
      OBVIOUS
    <3>. QED  BY <3>1, <3>2, <3>3, <3>4, Zenon
  <2> HIDE DEF key, payload
  <2>8. Some(key) # None /\ Some(key)[1] = key
    BY DEF Some, None
  <2>9. encode(Some(key), payload) = b
    BY <2>6, <2>7, <2>8, Zenon DEF encode
  <2>10. Some(key) \in RoutingKey /\ Encodable(Some(key))
    BY <2>2, <2>4, <2>6, <2>8, Zenon DEF RoutingKey, Encodable
  <2>11. decode(b).key = Some(key) /\ decode(b).payload = payload
    BY ONLY <2>5
  <2>. QED  BY <2>9, <2>10, <2>11, Zenon
<1>. QED  BY <1>2, <1>3, Zenon DEF Decodable

=============================================================================
