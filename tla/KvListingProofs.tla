-------------------------- MODULE KvListingProofs --------------------------
(***************************************************************************)
(* A listing in pages returns every key that is there all along, and over  *)
(* the index no key twice, for every set of keys, page size and TTL, and   *)
(* whatever clients write, prunes drop and pages fail meanwhile.           *)
(*                                                                         *)
(* Over the index the cursor splits the keys: up to it all is returned     *)
(* that stays, past it nothing is.  With SCAN a key that stays is always   *)
(* somewhere: returned, on the page, pending in the cursor, or owed by the *)
(* SCAN, and a SCAN that is over owes nothing.                             *)
(***************************************************************************)
EXTENDS KvListing, KvScriptProofs, SequenceTheorems, FiniteSetTheorems

\* The index holds every key that is there, and the pass's history only such keys.
StoreKeeps == Present \subseteq index /\ steady \subseteq Present

\* No page is read with SCAN in a pass over the index.
PassOf == pc = "scan" => mode = "scan"

Reading == pc \in {"page", "scan", "fetch"}

\* Keys of the page under way, fetched or to be fetched.
OnPage == Range(page.keys) \cup page.found

\* A key that the page under way should have: past the cursor, up to the page's last.
Due(k) == k > cursor.after /\ (page.more => k <= page.next.after)

\* A pass over the index has returned nothing past its cursor, and up to there every key
\* that was there all along; the page under way has the keys that are due, no others.
IndexPassInv ==
  mode = "index" =>
    /\ twice = {}
    /\ Reading => /\ \A k \in listed : k <= cursor.after
                  /\ \A k \in steady : k <= cursor.after => k \in listed
    /\ pc = "fetch" => /\ \A k \in OnPage : Due(k)
                       /\ \A k \in steady : Due(k) => k \in OnPage
                       /\ page.more => page.next.after > cursor.after

\* In a pass with SCAN every key that was there all along is returned, pending or still
\* owed by the SCAN, which owes nothing once it is over.
ScanPassInv ==
  /\ cursor.done => cursor.owed = {}
  /\ page.next.done => page.next.owed = {}
  /\ mode = "scan" =>
       /\ Reading => steady \subseteq listed \cup cursor.owed \cup Range(cursor.pending)
       /\ pc \in {"scan", "fetch"} =>
            steady \subseteq listed \cup page.next.owed \cup Range(page.next.pending) \cup OnPage
       /\ pc = "scan" => page.next.pending = <<>>

ListInv ==
  /\ TypeOK /\ StoreKeeps /\ PassOf
  /\ IndexPassInv /\ ScanPassInv
  /\ PassReturnsSteadyKeys

-----------------------------------------------------------------------------
(* Sequences *)

\* The keys of a page are the next one and the rest (fetch_entries).
LEMMA FirstAndRest ==
  ASSUME NEW S, NEW s \in Seq(S), s # <<>>
  PROVE  /\ Head(s) \in S /\ Tail(s) \in Seq(S)
         /\ Range(s) = {Head(s)} \cup Range(Tail(s))
<1>1. Len(s) \in Nat \ {0} /\ DOMAIN s = 1..Len(s)
  BY EmptySeq, LenProperties
<1>2. Head(s) = s[1]
  BY <1>1
<1>3. /\ Head(s) \in S /\ Tail(s) \in Seq(S) /\ Len(Tail(s)) = Len(s) - 1
      /\ \A i \in 1..Len(Tail(s)) : Tail(s)[i] = s[i + 1]
  BY HeadTailProperties
<1>4. DOMAIN Tail(s) = 1..(Len(s) - 1)
  BY <1>3, LenProperties
<1>5. ASSUME NEW i \in 1..Len(s) PROVE s[i] \in {Head(s)} \cup Range(Tail(s))
  <2>1. CASE i = 1
    BY <1>2, <2>1
  <2>2. CASE i # 1
    <3>1. i - 1 \in 1..(Len(s) - 1) /\ (i - 1) + 1 = i
      BY <1>1, <2>2
    <3>2. Tail(s)[i - 1] = s[i]
      BY <1>3, <3>1
    <3>. QED  BY <1>4, <3>1, <3>2, Zenon DEF Range
  <2>. QED  BY <2>1, <2>2
<1>6. ASSUME NEW i \in 1..(Len(s) - 1) PROVE Tail(s)[i] \in Range(s)
  <2>1. i + 1 \in 1..Len(s) /\ Tail(s)[i] = s[i + 1]
    BY <1>1, <1>3
  <2>. QED  BY <1>1, <2>1 DEF Range
<1>7. Head(s) \in Range(s)
  <2>1. 1 \in 1..Len(s)
    BY <1>1
  <2>. QED  BY <1>1, <1>2, <2>1 DEF Range
<1>8. Range(s) \subseteq {Head(s)} \cup Range(Tail(s))
  BY <1>1, <1>5 DEF Range
<1>9. Range(Tail(s)) \subseteq Range(s)
  BY <1>4, <1>6 DEF Range
<1>. QED  BY <1>3, <1>7, <1>8, <1>9

\* Cutting a sequence loses no element (split_off).
LEMMA CutKeeps ==
  ASSUME NEW S, NEW s \in Seq(S), NEW n \in 0..Len(s)
  PROVE  /\ SubSeq(s, 1, n) \in Seq(S) /\ SubSeq(s, n + 1, Len(s)) \in Seq(S)
         /\ Range(s) = Range(SubSeq(s, 1, n)) \cup Range(SubSeq(s, n + 1, Len(s)))
<1>1. Len(s) \in Nat /\ \A i \in 1..Len(s) : s[i] \in S
  BY LenProperties, ElementOfSeq
<1>2. SubSeq(s, 1, n) \in Seq(S) /\ SubSeq(s, n + 1, Len(s)) \in Seq(S)
  <2>1. \A i \in 1..n : s[i] \in S
    BY <1>1
  <2>2. \A i \in (n + 1)..Len(s) : s[i] \in S
    BY <1>1
  <2>. QED  BY <1>1, <2>1, <2>2, SubSeqProperties
<1>3. SubSeq(s, 1, n) \o SubSeq(s, n + 1, Len(s)) = s
  <2>1. 1 \in 1..(Len(s) + 1) /\ n \in (1 - 1)..Len(s) /\ Len(s) \in n..Len(s)
    BY <1>1
  <2>2. SubSeq(s, 1, n) \o SubSeq(s, n + 1, Len(s)) = SubSeq(s, 1, Len(s))
    BY <2>1, ConcatAdjacentSubSeq, Zenon
  <2>. QED  BY <2>2, SubSeqFull, Zenon
<1>4. Range(SubSeq(s, 1, n) \o SubSeq(s, n + 1, Len(s)))
        = Range(SubSeq(s, 1, n)) \cup Range(SubSeq(s, n + 1, Len(s)))
  BY <1>2, RangeConcatenation, ZenonT(30)
<1>. QED  BY <1>2, <1>3, <1>4, Zenon

\* Nothing is on an empty page, or pending.
LEMMA NothingInEmpty == Range(<<>>) = {}
BY DEF Range

\* No cursor and no page hold anything.
LEMMA EmptyTypes == NoCursor \in Cursor /\ NoPage \in Page
<1>1. <<>> \in Seq(Key)
  BY EmptySeq
<1>2. NoCursor \in Cursor
  BY <1>1 DEF NoCursor, Cursor
<1>. QED  BY <1>1, <1>2 DEF NoPage, Page

\* The fields of a cursor and of a page.
LEMMA CursorFields ==
  ASSUME NEW c \in Cursor
  PROVE  /\ c.after \in Nat /\ c.after \in Key \cup {0} /\ c.owed \subseteq Key
         /\ c.pending \in Seq(Key) /\ c.done \in BOOLEAN
         /\ \A S \in SUBSET Key : [c EXCEPT !.owed = S] \in Cursor
         /\ [c EXCEPT !.pending = <<>>] \in Cursor
<1>1. /\ c.after \in Key \cup {0} /\ c.owed \subseteq Key
      /\ c.pending \in Seq(Key) /\ c.done \in BOOLEAN
  BY DEF Cursor
<1>2. c.after \in Nat
  <2>1. \A k \in Key : k \in Nat
    BY KvListingAssumption
  <2>. QED  BY <1>1, <2>1
<1>3. ASSUME NEW S \in SUBSET Key PROVE [c EXCEPT !.owed = S] \in Cursor
  BY DEF Cursor
<1>4. <<>> \in Seq(Key)
  BY EmptySeq
<1>5. [c EXCEPT !.pending = <<>>] \in Cursor
  BY <1>4, Zenon DEF Cursor
<1>. QED  BY <1>1, <1>2, <1>3, <1>5, Zenon

LEMMA PageFields ==
  ASSUME NEW p \in Page
  PROVE  /\ p.keys \in Seq(Key) /\ p.more \in BOOLEAN /\ p.next \in Cursor
         /\ p.found \subseteq Key /\ p.gone \subseteq Key
         /\ p.next.after \in Nat /\ p.next.owed \subseteq Key /\ p.next.pending \in Seq(Key)
<1>1. /\ p.keys \in Seq(Key) /\ p.more \in BOOLEAN /\ p.next \in Cursor
      /\ p.found \subseteq Key /\ p.gone \subseteq Key
  BY DEF Page
<1>. QED  BY <1>1, CursorFields, Zenon

-----------------------------------------------------------------------------
(* Everyone else *)

\* The store moves under a pass: keys that go away leave the history and SCAN's debts.
LEMMA OthersKeep ==
  ASSUME ListInv, StoreType', Present' \subseteq index', Forget
  PROVE  ListInv'
<1> DEFINE kept == page.next
<1>1. TypeOK /\ cursor \in Cursor /\ page \in Page /\ kept \in Cursor
      /\ steady \subseteq Key /\ UNCHANGED <<ready, mode, pc, listed, twice>>
  BY PageFields DEF ListInv, TypeOK, Forget
<1>2. ASSUME NEW S \in SUBSET Key PROVE Still(S) = S \cap Present'
  BY DEF Still, Present, Gone
<1>3. steady' = steady \cap Present'
  BY <1>1, <1>2 DEF Forget
<1>4. /\ cursor' \in Cursor /\ cursor'.after = cursor.after /\ cursor'.pending = cursor.pending
      /\ cursor'.done = cursor.done /\ cursor'.owed = cursor.owed \cap Present'
  <2>1. cursor' = [cursor EXCEPT !.owed = cursor.owed \cap Present']
    BY <1>1, <1>2, CursorFields, Zenon DEF Forget
  <2>2. cursor.owed \cap Present' \in SUBSET Key
    BY <1>1, CursorFields, Zenon
  <2>. QED  BY <1>1, <2>1, <2>2, CursorFields, Zenon DEF Cursor
<1>5. /\ page' \in Page /\ page'.keys = page.keys /\ page'.more = page.more
      /\ page'.found = page.found /\ page'.next.after = kept.after
      /\ page'.next.pending = kept.pending /\ page'.next.done = kept.done
      /\ page'.next.owed = kept.owed \cap Present'
  <2> DEFINE next == [kept EXCEPT !.owed = kept.owed \cap Present']
  <2>1. kept.owed \cap Present' \in SUBSET Key /\ Still(kept.owed) = kept.owed \cap Present'
    BY <1>1, <1>2, CursorFields, Zenon
  <2>2. page' = [page EXCEPT !.next = next]
    BY <2>1 DEF Forget
  <2>3. /\ next \in Cursor /\ next.after = kept.after /\ next.pending = kept.pending
        /\ next.done = kept.done /\ next.owed = kept.owed \cap Present'
    BY <1>1, <2>1, CursorFields, Zenon DEF Cursor
  <2> HIDE DEF next, kept
  <2>4. page' \in Page /\ page'.next = next
    BY <1>1, <2>2, <2>3 DEF Page
  <2>5. page'.keys = page.keys /\ page'.more = page.more /\ page'.found = page.found
    BY <1>1, <2>2 DEF Page
  <2>. QED  BY <2>3, <2>4, <2>5
<1>6. TypeOK'
  BY <1>1, <1>3, <1>4, <1>5 DEF TypeOK
<1>7. StoreKeeps' /\ PassOf'
  BY <1>1, <1>3 DEF ListInv, StoreKeeps, PassOf
<1>8. OnPage' = OnPage /\ (\A k : Due(k)' <=> Due(k)) /\ (Reading' <=> Reading)
  BY <1>1, <1>4, <1>5, Zenon DEF OnPage, Due, Reading
<1>9. IndexPassInv'
  BY <1>1, <1>3, <1>4, <1>5, <1>8, Zenon DEF ListInv, IndexPassInv
<1>10. ScanPassInv'
  BY <1>1, <1>3, <1>4, <1>5, <1>8, Zenon DEF ListInv, ScanPassInv
<1>11. PassReturnsSteadyKeys'
  BY <1>1, <1>3 DEF ListInv, PassReturnsSteadyKeys
<1>. QED  BY <1>6, <1>7, <1>9, <1>10, <1>11 DEF ListInv

\* Writes, deletes and expiries leave every key that is there in the index (SET_LUA,
\* DEL_LUA).
LEMMA WritesKeep ==
  ASSUME ListInv,
         \/ \E k \in Key : Delete(k) \/ \E d \in TtlArg : Put(k, d)
         \/ Tick
  PROVE  ListInv'
<1>1. StoreType /\ Present \subseteq index /\ pttl \in [Key -> Absent..MaxTtl]
  BY DEF ListInv, TypeOK, StoreKeeps, StoreType
<1>2. ASSUME NEW k \in Key, NEW d \in TtlArg, Put(k, d) PROVE ListInv'
  <2>1. 0 \in Stamp /\ FALSE \in BOOLEAN /\ d \in Nat \cup {NoTtl}
    BY KvAssumption, KvListingAssumption DEF Stamp
  <2>2. SetScript(k, TtlMs(d), 0, FALSE) /\ Forget
    BY <1>2, Zenon DEF Put
  <2>3. StoreType'
    BY <1>1, <2>1, <2>2, WriteType, Zenon
  <2>4. Present' \subseteq index'
    BY <1>1, <2>2 DEF SetScript, Present, Gone
  <2>. QED  BY <2>2, <2>3, <2>4, OthersKeep, Zenon
<1>3. ASSUME NEW k \in Key, Delete(k) PROVE ListInv'
  <2>1. 0 \in Stamp /\ FALSE \in BOOLEAN /\ NoTtl \in Nat \cup {NoTtl}
    BY KvAssumption DEF Stamp
  <2>2. DelScript(k) /\ Forget
    BY <1>3 DEF Delete
  <2>3. StoreType'
    BY <1>1, <2>1, <2>2, WriteType, Zenon
  <2>4. Present' \subseteq index'
    BY <1>1, <2>2 DEF DelScript, Present, Gone
  <2>. QED  BY <2>2, <2>3, <2>4, OthersKeep, Zenon
<1>4. CASE Tick
  <2>1. AgeKeys /\ Forget
    BY <1>4 DEF Tick
  <2>2. StoreType'
    BY <1>1, <2>1, AgeType
  <2>3. \A k \in Key : pttl[k] = Absent => pttl'[k] = Absent
    BY <1>1, <2>1 DEF AgeKeys, Absent
  <2>4. Present' \subseteq index'
    BY <1>1, <2>1, <2>3, Zenon DEF AgeKeys, Present, Gone
  <2>. QED  BY <2>1, <2>2, <2>4, OthersKeep
<1>. QED  BY <1>2, <1>3, <1>4, Zenon

-----------------------------------------------------------------------------
(* The pass *)

\* A pass begins with nothing returned; a SCAN owes all that is there.
LEMMA StartKeeps ==
  ASSUME ListInv, ListStart
  PROVE  ListInv'
<1>1. /\ TypeOK /\ StoreKeeps /\ Present \subseteq Key
      /\ UNCHANGED <<pttl, index, expiry, ready>>
  BY DEF ListInv, ListStart, store, Present
<1>2. Present' = Present
  BY <1>1 DEF Present, Gone
<1>3. /\ cursor' \in Cursor /\ cursor'.after = 0 /\ cursor'.pending = <<>>
      /\ cursor'.done = FALSE /\ cursor'.owed = IF ready THEN {} ELSE Present
  <2>1. cursor' = [NoCursor EXCEPT !.owed = IF ready THEN {} ELSE Present]
    BY DEF ListStart
  <2>. QED  BY <1>1, <2>1, EmptyTypes, Zenon DEF Cursor, NoCursor
<1>4. /\ page' \in Page /\ page'.next.done = FALSE
  BY EmptyTypes DEF ListStart, NoPage, NoCursor
<1>5. /\ pc' = "page" /\ mode' \in {"index", "scan"} /\ (mode' = "scan" => ~ready)
      /\ listed' = {} /\ twice' = {} /\ steady' = Present
  BY DEF ListStart
<1>6. TypeOK'
  BY <1>1, <1>3, <1>4, <1>5 DEF TypeOK, StoreType
<1>7. StoreKeeps' /\ PassOf'
  BY <1>1, <1>2, <1>5 DEF StoreKeeps, PassOf
<1>8. \A k \in Present : ~(k <= 0)
  BY <1>1, KvListingAssumption
<1>9. IndexPassInv'
  BY <1>3, <1>5, <1>8, Zenon DEF IndexPassInv
<1>10. ScanPassInv'
  BY <1>3, <1>4, <1>5 DEF ScanPassInv
<1>11. PassReturnsSteadyKeys'
  BY <1>5 DEF PassReturnsSteadyKeys
<1>. QED  BY <1>6, <1>7, <1>9, <1>10, <1>11, Zenon DEF ListInv

\* What the store, the cursor and the histories bring along when a step reads a page.
LEMMA PageStepKeeps ==
  ASSUME ListInv, UNCHANGED <<store, ready, mode, cursor, listed, twice, steady>>,
         page' \in Page, pc \in {"page", "scan", "fetch"}, pc' \in {"page", "scan", "fetch"},
         PassOf',
         page'.next.done => page'.next.owed = {},
         mode = "index" /\ pc' = "fetch" =>
           /\ \A k \in OnPage' : Due(k)'
           /\ \A k \in steady : Due(k)' => k \in OnPage'
           /\ page'.more => page'.next.after > cursor.after,
         mode = "scan" /\ pc' \in {"scan", "fetch"} =>
           /\ steady \subseteq listed \cup page'.next.owed \cup Range(page'.next.pending) \cup OnPage'
           /\ pc' = "scan" => page'.next.pending = <<>>
  PROVE  ListInv'
<1>1. UNCHANGED <<pttl, index, expiry>> /\ Present' = Present
  BY DEF store, Present, Gone
<1>2. TypeOK' /\ StoreKeeps'
  BY <1>1 DEF ListInv, TypeOK, StoreType, StoreKeeps
<1>3. IndexPassInv'
  BY DEF ListInv, IndexPassInv, Reading
<1>4. ScanPassInv'
  BY DEF ListInv, ScanPassInv, Reading
<1>5. PassReturnsSteadyKeys'
  BY Zenon DEF PassReturnsSteadyKeys
<1>. QED  BY <1>2, <1>3, <1>4, <1>5, Zenon DEF ListInv

\* index_page: the keys past the cursor up to the page's last are on the page; when there
\* is one more, it and all keys past it are for the next pages.
LEMMA IndexPageKeeps ==
  ASSUME ListInv, IndexPage
  PROVE  ListInv'
<1>a. /\ cursor \in Cursor /\ cursor.after \in Nat /\ mode = "index" /\ pc = "page"
      /\ pc' = "fetch" /\ index \subseteq Key /\ steady \subseteq index
      /\ UNCHANGED <<store, ready, mode, cursor, listed, twice, steady>>
  BY CursorFields, Zenon DEF ListInv, TypeOK, StoreType, StoreKeeps, IndexPage
<1> DEFINE after == cursor.after
<1>b. /\ \A k \in Beyond(after) : k \in Key /\ k \in Nat /\ k > after
      /\ \A k \in steady : k > after => k \in Beyond(after)
  BY <1>a, KvListingAssumption DEF Beyond
<1>c. Limit \in Nat \ {0}
  BY KvListingAssumption
<1>1. PICK range \in IndexRange(after) :
        page' = [NoPage EXCEPT
                   !.keys = IF Len(range) > Limit THEN SubSeq(range, 1, Limit) ELSE range,
                   !.more = Len(range) > Limit,
                   !.next.after = IF Len(range) > Limit THEN range[Limit] ELSE 0]
  BY Zenon DEF IndexPage
<1>2. PICK n \in 0..(Limit + 1) : range \in [1..n -> Beyond(after)]
  BY DEF IndexRange
<1>3. range \in Seq(Beyond(after)) /\ Len(range) = n /\ DOMAIN range = 1..n /\ n \in Nat
  BY <1>c, <1>2
<1>4. /\ \A i, j \in 1..n : i < j => range[i] < range[j]
      /\ \A k \in Beyond(after) \ Range(range) : n = Limit + 1 /\ \A i \in 1..n : range[i] < k
  BY <1>3, Zenon DEF IndexRange
<1> HIDE DEF after
<1> DEFINE keys == IF n > Limit THEN SubSeq(range, 1, Limit) ELSE range
<1>5. keys \in Seq(Beyond(after)) /\ keys \in Seq(Key)
  <2>1. n > Limit => \A i \in 1..Limit : range[i] \in Beyond(after)
    BY <1>2, <1>c
  <2>2. keys \in Seq(Beyond(after))
    BY <1>3, <1>c, <2>1, SubSeqProperties
  <2>. QED  BY <1>b, <2>2, SeqMonotonic, Zenon
<1>6. n > Limit => n = Limit + 1 /\ range[Limit] \in Beyond(after)
  BY <1>2, <1>c
<1> DEFINE last == IF n > Limit THEN range[Limit] ELSE 0
<1>7. /\ page' \in Page /\ page'.keys = keys /\ page'.more = (n > Limit) /\ page'.found = {}
      /\ page'.next.after = last /\ page'.next.done = FALSE
  <2>1. last \in Key \cup {0}
    BY <1>6, <1>b, Zenon
  <2>2. [NoCursor EXCEPT !.after = last] \in Cursor
    BY <2>1, EmptyTypes DEF Cursor
  <2>3. page' = [keys |-> keys, more |-> (n > Limit), next |-> [NoCursor EXCEPT !.after = last],
                 found |-> {}, gone |-> {}]
    BY <1>1, <1>3, Zenon DEF NoPage
  <2> HIDE DEF keys, last
  <2>4. page' \in Page
    BY <1>5, <2>2, <2>3 DEF Page
  <2>. QED  BY <2>3, <2>4, Zenon DEF NoCursor
<1>8. /\ n > Limit => Range(keys) = {range[i] : i \in 1..Limit}
      /\ ~(n > Limit) => Range(keys) = {range[i] : i \in 1..n}
  <2>1. ASSUME n > Limit PROVE Range(keys) = {range[i] : i \in 1..Limit}
    <3>1. /\ Len(keys) = Limit /\ \A i \in 1..Limit : keys[i] = range[i]
      <4>a. \A i \in 1..Limit : range[i] \in Beyond(after)
        BY <1>2, <1>c, <2>1
      <4>1. /\ Len(SubSeq(range, 1, Limit)) = IF 1 <= Limit THEN Limit - 1 + 1 ELSE 0
            /\ \A i \in 1..(Limit - 1 + 1) : SubSeq(range, 1, Limit)[i] = range[1 + i - 1]
        BY <1>c, <4>a, SubSeqProperties
      <4>. QED  BY <1>c, <2>1, <4>1
    <3>2. DOMAIN keys = 1..Limit
      BY <1>5, <3>1, LenProperties, Zenon
    <3> HIDE DEF keys
    <3>. QED  BY <3>1, <3>2 DEF Range
  <2>2. ASSUME ~(n > Limit) PROVE Range(keys) = {range[i] : i \in 1..n}
    BY <1>3, <2>2, Zenon DEF Range
  <2>. QED  BY <2>1, <2>2
<1> HIDE DEF keys
<1>9. OnPage' = Range(keys)
  BY <1>7, Zenon DEF OnPage
<1>10. \A k : Due(k)' <=> k > after /\ (n > Limit => k <= last)
  BY <1>7, <1>a, Zenon DEF Due, after
<1>11. ASSUME NEW i \in 1..n PROVE range[i] \in Nat /\ range[i] > after
  BY <1>2, <1>b
<1>12. n > Limit => last \in Nat /\ last > after /\ last = range[Limit] /\ Limit \in 1..n
  BY <1>6, <1>b, <1>c
<1>13. ASSUME NEW k \in OnPage' PROVE Due(k)'
  <2>1. CASE n > Limit
    <3>1. PICK i \in 1..Limit : k = range[i]
      BY <1>8, <1>9, <2>1, Zenon
    <3>2. i \in 1..n /\ (i < Limit \/ i = Limit)
      BY <1>6, <1>c, <2>1
    <3>3. k <= last
      BY <1>4, <1>11, <1>12, <2>1, <3>1, <3>2
    <3>. QED  BY <1>10, <1>11, <3>1, <3>2, <3>3, Zenon
  <2>2. CASE ~(n > Limit)
    BY <1>8, <1>9, <1>10, <1>11, <2>2, ZenonT(30)
  <2>. QED  BY <2>1, <2>2
<1>14. ASSUME NEW k \in steady, Due(k)' PROVE k \in OnPage'
  <2>1. k \in Beyond(after) /\ k \in Nat /\ (n > Limit => k <= last)
    BY <1>10, <1>14, <1>b, Zenon DEF after
  <2>2. k \in Range(range)
    <3> SUFFICES ASSUME k \notin Range(range) PROVE FALSE
      OBVIOUS
    <3>1. n = Limit + 1 /\ \A i \in 1..n : range[i] < k
      BY <1>4, <2>1, Zenon
    <3>2. n > Limit
      BY <1>c, <3>1
    <3>. QED  BY <1>12, <2>1, <3>1, <3>2
  <2>3. PICK i \in 1..n : k = range[i]
    BY <1>3, <2>2, Zenon DEF Range
  <2>4. n > Limit => i \in 1..Limit
    <3> SUFFICES ASSUME n > Limit, i \notin 1..Limit PROVE FALSE
      OBVIOUS
    <3>1. Limit < i
      BY <1>c
    <3>. QED  BY <1>4, <1>11, <1>12, <2>1, <2>3, <3>1
  <2>. QED  BY <1>8, <1>9, <2>3, <2>4, Zenon
<1>15. page'.more => page'.next.after > cursor.after
  BY <1>7, <1>12, Zenon DEF after
<1>16. PassOf'
  BY <1>a DEF PassOf
<1>. QED  BY <1>7, <1>13, <1>14, <1>15, <1>16, <1>a, PageStepKeeps, ZenonT(30)

\* scan_page begins with what the cursor carries.
LEMMA ScanPageKeeps ==
  ASSUME ListInv, ScanPage
  PROVE  ListInv'
<1>1. /\ cursor \in Cursor /\ cursor.pending \in Seq(Key) /\ mode = "scan" /\ pc = "page"
      /\ pc' = "scan" /\ UNCHANGED <<store, ready, mode, cursor, listed, twice, steady>>
  BY CursorFields, Zenon DEF ListInv, TypeOK, ScanPage
<1> DEFINE next == [cursor EXCEPT !.pending = <<>>]
<1>2. /\ next \in Cursor /\ next.owed = cursor.owed /\ next.done = cursor.done
      /\ next.pending = <<>>
  BY <1>1, CursorFields DEF Cursor
<1>3. page' = [keys |-> cursor.pending, more |-> FALSE, next |-> next, found |-> {}, gone |-> {}]
  BY Zenon DEF ScanPage, NoPage
<1> HIDE DEF next
<1>4. page' \in Page
  BY <1>1, <1>2, <1>3 DEF Page
<1>5. OnPage' = Range(cursor.pending) /\ page'.next = next
  BY <1>3 DEF OnPage
<1>6. steady \subseteq listed \cup cursor.owed \cup Range(cursor.pending)
  BY <1>1, Zenon DEF ListInv, ScanPassInv, Reading
<1>7. page'.next.done => page'.next.owed = {}
  BY <1>2, <1>5, Zenon DEF ListInv, ScanPassInv
<1>8. /\ steady \subseteq listed \cup page'.next.owed \cup Range(page'.next.pending) \cup OnPage'
      /\ page'.next.pending = <<>>
  BY <1>2, <1>5, <1>6, Zenon
<1>9. PassOf'
  BY <1>1, Zenon DEF PassOf
<1>. QED  BY <1>1, <1>4, <1>7, <1>8, <1>9, PageStepKeeps

\* The keys that a SCAN step returns are no longer owed: they are on the page.
LEMMA ScanStepKeeps ==
  ASSUME ListInv, ScanStep
  PROVE  ListInv'
<1>1. /\ page \in Page /\ page.keys \in Seq(Key) /\ page.next \in Cursor /\ page.found \subseteq Key
      /\ pc = "scan" /\ pc' = "scan" /\ mode = "scan"
      /\ UNCHANGED <<store, ready, mode, cursor, listed, twice, steady>>
  BY PageFields, Zenon DEF ListInv, TypeOK, ScanStep, PassOf
<1>2. PICK S \in SUBSET Present, done \in BOOLEAN : \E matches \in Surjection(1..Cardinality(S), S) :
        /\ done => page.next.owed \subseteq S
        /\ page' = [page EXCEPT !.keys = @ \o matches, !.next.owed = @ \ S, !.next.done = done]
  BY Zenon DEF ScanStep
<1>3. PICK matches \in Surjection(1..Cardinality(S), S) :
        /\ done => page.next.owed \subseteq S
        /\ page' = [page EXCEPT !.keys = @ \o matches, !.next.owed = @ \ S, !.next.done = done]
  BY <1>2, Zenon
<1>4. matches \in Seq(Key) /\ Range(matches) = S
  <2>1. S \subseteq Key
    BY DEF Present
  <2>2. Cardinality(S) \in Nat
    BY <2>1, KvListingAssumption, FS_Subset, FS_CardinalityType, Zenon
  <2>3. /\ matches \in [1..Cardinality(S) -> S]
        /\ \A t \in S : \E i \in 1..Cardinality(S) : matches[i] = t
    BY DEF Surjection
  <2>4. matches \in Seq(S)
    BY <2>2, <2>3
  <2>5. Range(matches) = S
    BY <2>3 DEF Range
  <2>. QED  BY <2>1, <2>4, <2>5, SeqMonotonic, Zenon
<1> DEFINE owed == page.next.owed \ S
           next == [page.next EXCEPT !.owed = owed, !.done = done]
           keys == page.keys \o matches
<1>5. /\ next \in Cursor /\ next.owed = owed /\ next.done = done
      /\ next.pending = page.next.pending
  <2>1. owed \in SUBSET Key
    BY <1>1, CursorFields, Zenon
  <2> HIDE DEF owed
  <2>. QED  BY <1>1, <2>1, Zenon DEF Cursor
<1>6. keys \in Seq(Key) /\ Range(keys) = Range(page.keys) \cup S
  BY <1>1, <1>4, ConcatProperties, RangeConcatenation
<1>7. page' = [page EXCEPT !.keys = keys, !.next = next]
  BY <1>3, Zenon
<1> HIDE DEF next, keys
<1>8. page' \in Page /\ page'.keys = keys /\ page'.next = next /\ page'.found = page.found
  BY <1>1, <1>5, <1>6, <1>7, Zenon DEF Page
<1>9. OnPage' = OnPage \cup S
  BY <1>6, <1>8, Zenon DEF OnPage
<1>10. /\ steady \subseteq listed \cup page.next.owed \cup Range(page.next.pending) \cup OnPage
       /\ page.next.pending = <<>>
  BY <1>1 DEF ListInv, ScanPassInv
<1>11. page'.next.done => page'.next.owed = {}
  BY <1>3, <1>5, <1>8, Zenon
<1>12. /\ steady \subseteq listed \cup page'.next.owed \cup Range(page'.next.pending) \cup OnPage'
       /\ page'.next.pending = <<>>
  BY <1>5, <1>8, <1>9, <1>10, Zenon
<1>13. PassOf'
  BY <1>1, Zenon DEF PassOf
<1>. QED  BY <1>1, <1>8, <1>11, <1>12, <1>13, PageStepKeeps, Zenon

\* The matches that do not fit on the page are pending in its cursor.
LEMMA ScanCutKeeps ==
  ASSUME ListInv, ScanCut
  PROVE  ListInv'
<1>1. /\ page \in Page /\ page.keys \in Seq(Key) /\ page.next \in Cursor
      /\ pc = "scan" /\ pc' = "fetch" /\ mode = "scan"
      /\ UNCHANGED <<store, ready, mode, cursor, listed, twice, steady>>
  BY PageFields, Zenon DEF ListInv, TypeOK, ScanCut, PassOf
<1>2. PICK keys \in Seq(Key), pending \in Seq(Key) :
        /\ Range(page.keys) = Range(keys) \cup Range(pending)
        /\ page' = [page EXCEPT !.keys = keys, !.next.pending = pending]
  <2>1. CASE Len(page.keys) > Limit
    <3>1. Limit \in 0..Len(page.keys)
      BY <1>1, <2>1, KvListingAssumption, LenProperties
    <3>. QED  BY <1>1, <2>1, <3>1, CutKeeps, Zenon DEF ScanCut
  <2>2. CASE ~(Len(page.keys) > Limit)
    <3>1. page' = [page EXCEPT !.next.pending = <<>>]
      BY <2>2 DEF ScanCut
    <3>2. page' = [page EXCEPT !.keys = page.keys, !.next.pending = <<>>]
      BY <1>1, <3>1, Zenon DEF Page
    <3>3. <<>> \in Seq(Key) /\ Range(page.keys) = Range(page.keys) \cup Range(<<>>)
      BY EmptySeq, NothingInEmpty
    <3>. QED  BY <1>1, <3>2, <3>3, Zenon
  <2>. QED  BY <2>1, <2>2, Zenon
<1> DEFINE next == [page.next EXCEPT !.pending = pending]
<1>3. /\ next \in Cursor /\ next.owed = page.next.owed /\ next.done = page.next.done
      /\ next.pending = pending
  BY <1>1, Zenon DEF Cursor
<1>4. page' = [page EXCEPT !.keys = keys, !.next = next]
  BY <1>2
<1> HIDE DEF next
<1>5. page' \in Page /\ page'.keys = keys /\ page'.next = next /\ page'.found = page.found
  BY <1>1, <1>3, <1>4, Zenon DEF Page
<1>6. OnPage' \cup Range(page'.next.pending) = OnPage \cup Range(pending)
  BY <1>2, <1>3, <1>5 DEF OnPage
<1>7. /\ steady \subseteq listed \cup page.next.owed \cup Range(page.next.pending) \cup OnPage
      /\ page.next.pending = <<>> /\ (page.next.done => page.next.owed = {})
  BY <1>1 DEF ListInv, ScanPassInv
<1>8. steady \subseteq listed \cup page'.next.owed \cup Range(page'.next.pending) \cup OnPage'
  BY <1>3, <1>5, <1>6, <1>7, NothingInEmpty
<1>9. page'.next.done => page'.next.owed = {}
  BY <1>3, <1>5, <1>7, Zenon
<1>10. PassOf'
  BY <1>1, Zenon DEF PassOf
<1>. QED  BY <1>1, <1>5, <1>8, <1>9, <1>10, PageStepKeeps, Zenon

\* fetch_entries: a key that was there all along is found.
LEMMA FetchKeeps ==
  ASSUME ListInv, Fetch
  PROVE  ListInv'
<1>1. /\ page \in Page /\ page.keys \in Seq(Key) /\ page.next \in Cursor
      /\ page.found \subseteq Key /\ page.gone \subseteq Key
      /\ page.keys # <<>> /\ pc = "fetch" /\ pc' = "fetch" /\ steady \subseteq Present
      /\ UNCHANGED <<store, ready, mode, cursor, listed, twice, steady>>
  BY PageFields DEF ListInv, TypeOK, Fetch, StoreKeeps
<1> DEFINE h == Head(page.keys)
<1>2. /\ h \in Key /\ Tail(page.keys) \in Seq(Key)
      /\ Range(page.keys) = {h} \cup Range(Tail(page.keys))
  BY <1>1, FirstAndRest, Zenon
<1>3. PICK found \in SUBSET Key, gone \in SUBSET Key :
        /\ page' = [page EXCEPT !.keys = Tail(page.keys), !.found = found, !.gone = gone]
        /\ \/ h \in Present /\ found = page.found \cup {h}
           \/ h \notin Present /\ found = page.found
  <2>1. CASE h \in Present
    <3>1. page' = [page EXCEPT !.keys = Tail(page.keys), !.found = page.found \cup {h},
                               !.gone = page.gone]
      BY <1>1, <2>1, Zenon DEF Fetch, Page
    <3>2. page.found \cup {h} \in SUBSET Key /\ page.gone \in SUBSET Key
      BY <1>1, <1>2
    <3>. QED  BY <2>1, <3>1, <3>2, Zenon
  <2>2. CASE h \notin Present
    <3>1. page' = [page EXCEPT !.keys = Tail(page.keys), !.found = page.found,
                               !.gone = page.gone \cup {h}]
      BY <1>1, <2>2, Zenon DEF Fetch, Page
    <3>2. page.gone \cup {h} \in SUBSET Key /\ page.found \in SUBSET Key
      BY <1>1, <1>2
    <3>. QED  BY <2>2, <3>1, <3>2, Zenon
  <2>. QED  BY <2>1, <2>2, Zenon
<1> HIDE DEF h
<1>4. /\ page' \in Page /\ page'.keys = Tail(page.keys) /\ page'.found = found
      /\ page'.next = page.next /\ page'.more = page.more
  BY <1>1, <1>2, <1>3, Zenon DEF Page
<1>5. OnPage' \subseteq OnPage /\ steady \cap OnPage \subseteq OnPage'
  BY <1>1, <1>2, <1>3, <1>4 DEF OnPage
<1>6. \A k : Due(k)' <=> Due(k)
  BY <1>1, <1>4, Zenon DEF Due
<1>7. page'.next.done => page'.next.owed = {}
  BY <1>4, Zenon DEF ListInv, ScanPassInv
<1>8. mode = "index" => /\ \A k \in OnPage' : Due(k)'
                        /\ \A k \in steady : Due(k)' => k \in OnPage'
                        /\ page'.more => page'.next.after > cursor.after
  BY <1>1, <1>4, <1>5, <1>6, Zenon DEF ListInv, IndexPassInv
<1>9. mode = "scan" =>
        steady \subseteq listed \cup page'.next.owed \cup Range(page'.next.pending) \cup OnPage'
  BY <1>1, <1>4, <1>5, Zenon DEF ListInv, ScanPassInv
<1>10. PassOf'
  BY <1>1, Zenon DEF PassOf
<1>. QED  BY <1>1, <1>4, <1>7, <1>8, <1>9, <1>10, PageStepKeeps, Zenon

\* A page that failed is asked for again with the same cursor.
LEMMA PageFailsKeeps ==
  ASSUME ListInv, PageFails
  PROVE  ListInv'
<1>1. /\ page' = NoPage /\ pc \in {"scan", "fetch"} /\ pc' = "page"
      /\ UNCHANGED <<store, ready, mode, cursor, listed, twice, steady>>
  BY DEF PageFails
<1>2. page' \in Page /\ page'.next.done = FALSE
  BY <1>1, EmptyTypes DEF NoPage, NoCursor
<1>3. PassOf'
  BY <1>1 DEF PassOf
<1>. QED  BY <1>1, <1>2, <1>3, PageStepKeeps, Zenon

\* The page is returned, its cursor with it: up to the new cursor all is returned, and
\* without one nothing is left.  A prune drops no key that is there (PRUNE_LUA).
LEMMA ReturnKeeps ==
  ASSUME ListInv, PageReturn
  PROVE  ListInv'
<1>1. /\ TypeOK /\ page \in Page /\ page.next \in Cursor /\ page.next.after \in Nat
      /\ page.found \subseteq Key /\ page.gone \subseteq Key /\ page.keys = <<>>
      /\ cursor \in Cursor /\ cursor.after \in Nat /\ listed \subseteq Key
      /\ steady \subseteq Present /\ steady \subseteq Key /\ Present \subseteq index
      /\ pc = "fetch" /\ mode \in {"index", "scan"}
  BY PageFields, CursorFields, Zenon DEF ListInv, TypeOK, PageReturn, StoreKeeps
<1>2. /\ listed' = listed \cup page.found /\ twice' = twice \cup (listed \cap page.found)
      /\ cursor' = page.next /\ page' = NoPage /\ pc' = (IF LastPage THEN "done" ELSE "page")
      /\ UNCHANGED <<ready, mode, steady>>
  BY DEF PageReturn
<1>3. StoreType' /\ Present' = Present /\ Present \subseteq index'
  <2>1. CASE UNCHANGED store
    BY <1>1, <2>1 DEF store, TypeOK, StoreType, Present, Gone
  <2>2. CASE PruneScript(page.gone)
    <3>1. 0 \in (Oldest - MaxTtl)..Ahead
      BY KvAssumption DEF Oldest
    <3>2. StoreType'
      BY <1>1, <2>2, <3>1, UpkeepType, Zenon DEF TypeOK
    <3>3. pttl' = pttl /\ index' = index \ (page.gone \cap Gone)
      BY <2>2, Zenon DEF PruneScript, Prunable
    <3>. QED  BY <1>1, <3>2, <3>3 DEF Present, Gone
  <2>. QED  BY <2>1, <2>2 DEF PageReturn
<1>4. page' \in Page /\ page'.next.done = FALSE
  BY <1>2, EmptyTypes, Zenon DEF NoPage, NoCursor
<1>5. TypeOK'
  BY <1>1, <1>2, <1>3, <1>4, Zenon DEF TypeOK
<1>6. StoreKeeps' /\ PassOf'
  BY <1>1, <1>2, <1>3, Zenon DEF StoreKeeps, PassOf
<1>7. OnPage = page.found
  BY <1>1, NothingInEmpty, Zenon DEF OnPage
<1>8. CASE mode = "index"
  <2>1. /\ twice = {} /\ \A k \in listed : k <= cursor.after
        /\ \A k \in steady : k <= cursor.after => k \in listed
        /\ \A k \in page.found : Due(k)
        /\ \A k \in steady : Due(k) => k \in page.found
        /\ page.more => page.next.after > cursor.after
    BY <1>1, <1>7, <1>8, Zenon DEF ListInv, IndexPassInv, Reading
  <2>2. \A k \in Key : k \in Nat
    BY KvListingAssumption, Zenon
  <2>3. twice' = {}
    <3>1. ASSUME NEW k \in listed, k \in page.found PROVE FALSE
      BY <1>1, <2>1, <2>2, <3>1 DEF Due
    <3>. QED  BY <1>2, <2>1, <3>1, Zenon
  <2>4. ASSUME page.more
        PROVE  /\ \A k \in listed' : k <= cursor'.after
               /\ \A k \in steady' : k <= cursor'.after => k \in listed'
    <3>1. ASSUME NEW k \in listed' PROVE k <= cursor'.after
      <4>1. CASE k \in listed
        BY <1>1, <1>2, <2>1, <2>2, <2>4, <4>1
      <4>2. CASE k \in page.found
        BY <1>2, <2>1, <2>4, <4>2, Zenon DEF Due
      <4>. QED  BY <1>2, <3>1, <4>1, <4>2, Zenon
    <3>2. ASSUME NEW k \in steady', k <= cursor'.after PROVE k \in listed'
      <4>1. k \in steady /\ k \in Nat /\ (k <= cursor.after \/ k > cursor.after)
        BY <1>1, <1>2, <2>2
      <4>. QED  BY <1>2, <2>1, <2>4, <3>2, <4>1, Zenon DEF Due
    <3>. QED  BY <3>1, <3>2, Zenon
  <2>5. ASSUME ~page.more PROVE steady' \subseteq listed'
    <3>1. ASSUME NEW k \in steady PROVE k \in listed'
      <4>1. k \in Nat /\ (k <= cursor.after \/ k > cursor.after)
        BY <1>1, <2>2
      <4>. QED  BY <1>2, <2>1, <2>5, <4>1, Zenon DEF Due
    <3>. QED  BY <1>2, <3>1, Zenon
  <2>6. LastPage <=> ~page.more
    BY <1>8 DEF LastPage
  <2>7. IndexPassInv'
    BY <1>2, <2>3, <2>4, <2>6, Zenon DEF IndexPassInv, Reading
  <2>8. ScanPassInv'
    BY <1>2, <1>4, <1>8, Zenon DEF ListInv, ScanPassInv
  <2>9. PassReturnsSteadyKeys'
    BY <1>2, <2>5, <2>6, Zenon DEF PassReturnsSteadyKeys
  <2>. QED  BY <1>5, <1>6, <2>7, <2>8, <2>9 DEF ListInv
<1>9. CASE mode = "scan"
  <2>1. /\ page.next.done => page.next.owed = {}
        /\ steady \subseteq listed \cup page.next.owed \cup Range(page.next.pending) \cup page.found
    BY <1>1, <1>7, <1>9, Zenon DEF ListInv, ScanPassInv
  <2>2. LastPage => page.next.owed = {} /\ Range(page.next.pending) = {}
    BY <1>9, <2>1, NothingInEmpty, Zenon DEF LastPage
  <2>3. steady' \subseteq listed' \cup cursor'.owed \cup Range(cursor'.pending)
    BY <1>2, <2>1, Zenon
  <2>4. ScanPassInv'
    BY <1>2, <1>4, <2>1, <2>3, Zenon DEF ScanPassInv
  <2>5. PassReturnsSteadyKeys'
    BY <1>2, <2>2, <2>3, Zenon DEF PassReturnsSteadyKeys
  <2>6. IndexPassInv'
    BY <1>2, <1>9, Zenon DEF IndexPassInv
  <2>. QED  BY <1>5, <1>6, <2>4, <2>5, <2>6, Zenon DEF ListInv
<1>. QED  BY <1>1, <1>8, <1>9

-----------------------------------------------------------------------------
(* The theorems *)

\* Every state of a pass, whatever clients do meanwhile.
THEOREM ListingHolds == Spec => []ListInv
<1>1. Init => ListInv
  <2> SUFFICES ASSUME Init PROVE ListInv
    OBVIOUS
  <2>1. Present = {}
    BY DEF Init, Present, Gone
  <2>2. StoreType
    <3>1. Absent \in Absent..MaxTtl
      BY KvAssumption DEF Absent
    <3>. QED  BY <3>1 DEF Init, StoreType
  <2>3. TypeOK
    BY <2>2, EmptyTypes, Zenon DEF Init, TypeOK
  <2>4. cursor.done = FALSE /\ page.next.done = FALSE
    BY DEF Init, NoCursor, NoPage
  <2>. QED
    BY <2>1, <2>3, <2>4, Zenon DEF Init, ListInv, StoreKeeps, PassOf, IndexPassInv, ScanPassInv, Reading,
                            PassReturnsSteadyKeys
<1>2. ListInv /\ [Next]_vars => ListInv'
  <2> SUFFICES ASSUME ListInv, [Next]_vars PROVE ListInv'
    OBVIOUS
  <2>1. ASSUME UNCHANGED <<store, mode, pc, cursor, page, listed, twice, steady>>,
               ready' \in BOOLEAN
        PROVE  ListInv'
    <3>1. /\ UNCHANGED <<pttl, index, expiry>> /\ Present' = Present /\ OnPage' = OnPage
          /\ Reading' = Reading /\ \A k : Due(k)' = Due(k)
      BY <2>1, Zenon DEF store, Present, Gone, OnPage, Reading, Due
    <3>2. TypeOK' /\ StoreKeeps' /\ PassOf' /\ PassReturnsSteadyKeys'
      BY <2>1, <3>1, Zenon DEF ListInv, TypeOK, StoreType, StoreKeeps, PassOf, PassReturnsSteadyKeys
    <3>3. IndexPassInv' /\ ScanPassInv'
      BY <2>1, <3>1, Zenon DEF ListInv, IndexPassInv, ScanPassInv
    <3>. QED  BY <3>2, <3>3, Zenon DEF ListInv
  <2>2. CASE SetIndexReady
    BY <2>1, <2>2, Zenon DEF SetIndexReady
  <2>3. CASE UNCHANGED vars
    BY <2>1, <2>3, Zenon DEF vars, ListInv, TypeOK
  <2>. QED
    BY <2>2, <2>3, WritesKeep, StartKeeps, IndexPageKeeps, ScanPageKeeps, ScanStepKeeps,
       ScanCutKeeps, FetchKeeps, ReturnKeeps, PageFailsKeeps DEF Next
<1>. QED  BY <1>1, <1>2, PTL DEF Spec

\* Pages and cursors keep their types (list_page).
THEOREM ListingTypes == Spec => []TypeOK
<1>1. ListInv => TypeOK
  BY Zenon DEF ListInv
<1>. QED  BY <1>1, ListingHolds, PTL

\* A complete pass returns every key that was there all along, over the index or with
\* SCAN (the cursors of index_page and scan_page).
THEOREM PassesAreComplete == Spec => []PassReturnsSteadyKeys
<1>1. ListInv => PassReturnsSteadyKeys
  BY Zenon DEF ListInv
<1>. QED  BY <1>1, ListingHolds, PTL

\* A pass over the index returns no key twice (the exclusive lower bound of index_page).
THEOREM IndexPassesAreOnce == Spec => []IndexPassReturnsKeysOnce
<1>1. ListInv => IndexPassReturnsKeysOnce
  BY DEF ListInv, IndexPassInv, IndexPassReturnsKeysOnce
<1>. QED  BY <1>1, ListingHolds, PTL

=============================================================================
