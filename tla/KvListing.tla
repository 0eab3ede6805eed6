----------------------------- MODULE KvListing -----------------------------
(***************************************************************************)
(* Paged listings (list_page, index_page, scan_page, fetch_entries of      *)
(* kv.rs), page by page, while clients write and keys expire.  A pass      *)
(* reads the key index or SCANs the keyspace, as index_ready says when its *)
(* first page is read; its cursor keeps it to that way.                    *)
(*                                                                         *)
(* Every writer maintains the index here (see KvStore for what makes it    *)
(* complete).  Keys are numbers: their order is the byte order of the      *)
(* index.                                                                  *)
(***************************************************************************)
EXTENDS KvScripts, FiniteSets, Sequences, Functions

CONSTANTS
  TtlArg,  \* Option<Duration> arguments of the writers
  Limit    \* entries per page

ASSUME KvListingAssumption ==
  /\ Key \subseteq Nat \ {0} /\ IsFiniteSet(Key)
  /\ TtlArg \subseteq Nat \cup {NoTtl}
  /\ Limit \in Nat \ {0}

VARIABLES
  ready,   \* index_ready
  mode,    \* "index" or "scan": how the pass reads
  pc,      \* "idle", "page" (between pages), "scan", "fetch", "done"
  cursor,  \* what the last page's cursor holds
  page,    \* list_page's locals
  listed,  \* keys the pass has returned
  twice,   \* keys the pass has returned more than once
  steady   \* history: keys there at every moment since the pass began

vars == <<store, ready, mode, pc, cursor, page, listed, twice, steady>>

\* after: the last key of an index page (0: none).  owed, pending, done: the
\* SCAN cursor (owed is what SCAN still has to return from there), the matches
\* that did not fit on the page, and whether the SCAN is over.
NoCursor == [after |-> 0, owed |-> {}, pending |-> <<>>, done |-> FALSE]

\* keys: still to be fetched; more: an index page is followed by another;
\* next: the cursor to return; found, gone: fetched and missing keys.
NoPage == [keys |-> <<>>, more |-> FALSE, next |-> NoCursor, found |-> {}, gone |-> {}]

Init ==
  /\ pttl = [k \in Key |-> Absent]
  /\ index = {}
  /\ expiry = [k \in Key |-> NoScore]
  /\ ready \in BOOLEAN
  /\ mode = "index" /\ pc = "idle"
  /\ cursor = NoCursor /\ page = NoPage
  /\ listed = {} /\ twice = {} /\ steady = {}

-----------------------------------------------------------------------------
(* Everyone else *)

Still(S) == {k \in S : pttl'[k] # Absent}

\* A key that goes away leaves the history and SCAN's debts.
Forget ==
  /\ steady' = Still(steady)
  /\ cursor' = [cursor EXCEPT !.owed = Still(@)]
  /\ page' = [page EXCEPT !.next.owed = Still(@)]
  /\ UNCHANGED <<ready, mode, pc, listed, twice>>

Put(k, d) == SetScript(k, TtlMs(d), 0, FALSE) /\ Forget
Delete(k) == DelScript(k) /\ Forget
Tick      == AgeKeys /\ Forget

\* The index gate lets listings use the index, or makes them scan.
SetIndexReady ==
  /\ ready' = ~ready
  /\ UNCHANGED <<store, mode, pc, cursor, page, listed, twice, steady>>

-----------------------------------------------------------------------------
(* The pass *)

ListStart ==
  /\ pc \in {"idle", "done"}
  /\ pc' = "page"
  /\ mode' = IF ready THEN "index" ELSE "scan"
  /\ cursor' = [NoCursor EXCEPT !.owed = IF ready THEN {} ELSE Present]
  /\ page' = NoPage
  /\ listed' = {} /\ twice' = {} /\ steady' = Present
  /\ UNCHANGED <<store, ready>>

\* Mutant: the lower bound includes the last key of the page before.
BeyondInclusive(after) == {k \in index : k >= after}

\* ZRANGEBYLEX from the cursor on, its key excluded.
Beyond(after) == {k \in index : k > after}

\* ... LIMIT 0 limit + 1: what it answers, the first of these keys in order.  One key
\* more than the page holds tells whether another page follows.
IndexRange(after) ==
  {range \in UNION {[1..n -> Beyond(after)] : n \in 0..(Limit + 1)} :
     /\ \A i, j \in DOMAIN range : i < j => range[i] < range[j]
     /\ \A k \in Beyond(after) \ Range(range) :
          Len(range) = Limit + 1 /\ \A i \in DOMAIN range : range[i] < k}

IndexPage ==
  /\ pc = "page" /\ mode = "index"
  /\ \E range \in IndexRange(cursor.after) :
       LET more == Len(range) > Limit
       IN page' = [NoPage EXCEPT
                     !.keys = IF more THEN SubSeq(range, 1, Limit) ELSE range,
                     !.more = more,
                     !.next.after = IF more THEN range[Limit] ELSE 0]
  /\ pc' = "fetch"
  /\ UNCHANGED <<store, ready, mode, cursor, listed, twice, steady>>

ScanPage ==
  /\ pc = "page" /\ mode = "scan"
  /\ page' = [NoPage EXCEPT !.keys = cursor.pending, !.next = [cursor EXCEPT !.pending = <<>>]]
  /\ pc' = "scan"
  /\ UNCHANGED <<store, ready, mode, cursor, listed, twice, steady>>

\* A SCAN step, while the page is not full and the SCAN not over: it returns some
\* keys in any order, and may repeat keys of earlier steps.  The step that ends
\* the SCAN leaves no key owed.
ScanStep ==
  /\ pc = "scan"
  /\ Len(page.keys) < Limit /\ ~page.next.done
  /\ \E S \in SUBSET Present, done \in BOOLEAN : \E matches \in Surjection(1..Cardinality(S), S) :
       /\ done => page.next.owed \subseteq S
       /\ page' = [page EXCEPT
                     !.keys = @ \o matches,
                     !.next.owed = @ \ S,
                     !.next.done = done]
  /\ UNCHANGED <<store, ready, mode, pc, cursor, listed, twice, steady>>

\* The page is cut; what does not fit rides in the cursor.
ScanCut ==
  /\ pc = "scan"
  /\ Len(page.keys) >= Limit \/ page.next.done
  /\ page' = IF Len(page.keys) > Limit
             THEN [page EXCEPT
                     !.keys = SubSeq(@, 1, Limit),
                     !.next.pending = SubSeq(page.keys, Limit + 1, Len(page.keys))]
             ELSE [page EXCEPT !.next.pending = <<>>]
  /\ pc' = "fetch"
  /\ UNCHANGED <<store, ready, mode, cursor, listed, twice, steady>>

\* fetch_entries: GET and PTTL of the next key.
Fetch ==
  /\ pc = "fetch" /\ page.keys # <<>>
  /\ page' = IF Head(page.keys) \in Present
             THEN [page EXCEPT !.keys = Tail(@), !.found = @ \cup {Head(page.keys)}]
             ELSE [page EXCEPT !.keys = Tail(@), !.gone = @ \cup {Head(page.keys)}]
  /\ UNCHANGED <<store, ready, mode, pc, cursor, listed, twice, steady>>

\* Mutant: the pass ends with the SCAN, whatever is pending.
LastPageEager == IF mode = "index" THEN ~page.more ELSE page.next.done

\* No cursor is returned with the last page.
LastPage == IF mode = "index" THEN ~page.more ELSE page.next.done /\ page.next.pending = <<>>

\* The page is returned; an index page first has missing keys pruned, and a
\* failed prune is ignored.
PageReturn ==
  /\ pc = "fetch" /\ page.keys = <<>>
  /\ \/ UNCHANGED store
     \/ mode = "index" /\ page.gone # {} /\ PruneScript(page.gone)
  /\ listed' = listed \cup page.found
  /\ twice' = twice \cup (listed \cap page.found)
  /\ cursor' = page.next
  /\ page' = NoPage
  /\ pc' = IF LastPage THEN "done" ELSE "page"
  /\ UNCHANGED <<ready, mode, steady>>

\* A command of the page fails; the caller asks for the page again.
PageFails ==
  /\ pc \in {"scan", "fetch"}
  /\ page' = NoPage
  /\ pc' = "page"
  /\ UNCHANGED <<store, ready, mode, cursor, listed, twice, steady>>

Next ==
  \/ \E k \in Key : Delete(k) \/ \E d \in TtlArg : Put(k, d)
  \/ Tick \/ SetIndexReady
  \/ ListStart \/ IndexPage \/ ScanPage \/ ScanStep \/ ScanCut \/ Fetch
  \/ PageReturn \/ PageFails

Spec == Init /\ [][Next]_vars

-----------------------------------------------------------------------------
(* Properties *)

Cursor == [after : Key \cup {0}, owed : SUBSET Key, pending : Seq(Key), done : BOOLEAN]
Page == [keys : Seq(Key), more : BOOLEAN, next : Cursor, found : SUBSET Key, gone : SUBSET Key]

\* Pages and cursors of list_page have their types, whatever the pass meets.
TypeOK ==
  /\ StoreType
  /\ ready \in BOOLEAN /\ mode \in {"index", "scan"}
  /\ pc \in {"idle", "page", "scan", "fetch", "done"}
  /\ cursor \in Cursor /\ page \in Page
  /\ listed \cup twice \cup steady \subseteq Key

\* A complete pass has returned every key that was there all along, however
\* pages, writes, expiries, prunes, failed pages and gate changes interleave
\* (the cursors of index_page and scan_page).
PassReturnsSteadyKeys == pc = "done" => steady \subseteq listed

\* A pass over the index returns no key twice, even one deleted and written
\* again meanwhile (the exclusive lower bound of index_page).
IndexPassReturnsKeysOnce == mode = "index" => twice = {}
=============================================================================
