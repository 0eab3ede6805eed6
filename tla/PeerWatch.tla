----------------------------- MODULE PeerWatch -----------------------------
(***************************************************************************)
(* The peer watch (watch_peers of lib.rs) over the registry: a task that   *)
(* lists the peers, compares the list with the one before, and sends what  *)
(* joined and what left over a bounded channel to the stream's reader.     *)
(* Other callers' listings on the replica act on the watch only through    *)
(* the cached scan, which a poll of its own could have made as well.       *)
(***************************************************************************)
EXTENDS Peers, Sequences

CONSTANT Buffer   \* subscribe_pattern_buffer

ASSUME WatchAssumption == Buffer \in Nat \ {0}

VARIABLES
  watch,          \* the task's position
  last,           \* the nodes of the list before
  joins, leaves,  \* events of this poll still to send
  chan,           \* the channel's queue
  rx,             \* the stream: "open" or "dropped"
  view            \* history: the nodes its reader has been told of and not told off

task      == <<watch, last, joins, leaves>>
watchVars == <<task, chan, rx, view>>

WatchInit ==
  /\ Init
  /\ watch = "sleep" /\ last = {} /\ joins = {} /\ leaves = {}
  /\ chan = <<>> /\ rx = "open" /\ view = {}

-----------------------------------------------------------------------------
Listing == pc \notin {"idle", "done"}

\* A step of the nodes, of Redis, or of the task's listing up to its end.
RegistryStep ==
  /\ Next
  /\ Listing = Listing'
  /\ UNCHANGED watchVars

WatchEnds ==
  /\ watch' = "done" /\ last' = {} /\ joins' = {} /\ leaves' = {}
  /\ UNCHANGED <<chan, rx, view>>

\* After its sleep the loop ends when the stream is dropped ...
WatchCloses == watch = "sleep" /\ rx = "dropped" /\ WatchEnds /\ UNCHANGED vars

\* ... sleeps on when there is no connection, and else lists.
WatchPolls ==
  /\ watch = "sleep" /\ rx = "open"
  /\ watch' = "list" /\ \E now \in Stamp : ListRead(now)
  /\ UNCHANGED <<last, joins, leaves, chan, rx, view>>

\* The list is there: it is compared with the one before.
WatchDiffs ==
  /\ watch = "list" /\ (ListFromCache \/ ScanRead)
  /\ joins' = listed' \ last /\ leaves' = last \ listed'
  /\ watch' = "send"
  /\ UNCHANGED <<last, chan, rx, view>>

\* Mutant: a list that fails is an empty list, as list_peers has it.
WatchFailsEmpty ==
  /\ watch = "list" /\ ListFails
  /\ leaves' = last /\ watch' = "send"
  /\ UNCHANGED <<last, joins, chan, rx, view>>

\* The listing failed: the list before stays.
WatchFails ==
  /\ watch = "list" /\ ListFails
  /\ watch' = "sleep"
  /\ UNCHANGED <<last, joins, leaves, chan, rx, view>>

Event(kind, n) == [kind |-> kind, node |-> n]

\* Joined first, then Left.
Due == {Event("joined", n) : n \in joins}
       \cup {Event("left", n) : n \in IF joins = {} THEN leaves ELSE {}}

\* Mutant: an event that finds the channel full is dropped.
WatchTriesSend(e) ==
  /\ watch = "send"
  /\ \/ rx = "dropped" /\ WatchEnds
     \/ /\ rx = "open"
        /\ chan' = IF Len(chan) < Buffer THEN Append(chan, e) ELSE chan
        /\ joins' = joins \ {e.node} /\ leaves' = leaves \ {e.node}
        /\ UNCHANGED <<watch, last, rx, view>>
  /\ UNCHANGED vars

\* tx.send waits for room, or fails when the stream is dropped.
WatchSends(e) ==
  /\ watch = "send"
  /\ \/ rx = "dropped" /\ WatchEnds
     \/ /\ rx = "open" /\ Len(chan) < Buffer
        /\ chan' = Append(chan, e)
        /\ joins' = joins \ {e.node} /\ leaves' = leaves \ {e.node}
        /\ UNCHANGED <<watch, last, rx, view>>
  /\ UNCHANGED vars

\* Mutant: the list before is not replaced.
WatchForgetsList ==
  /\ watch = "send" /\ Due = {}
  /\ watch' = "sleep"
  /\ UNCHANGED <<vars, last, joins, leaves, chan, rx, view>>

\* All is sent: this list is the one before.
WatchKeepsList ==
  /\ watch = "send" /\ Due = {}
  /\ last' = listed
  /\ watch' = "sleep"
  /\ UNCHANGED <<vars, joins, leaves, chan, rx, view>>

-----------------------------------------------------------------------------
(* The stream's owner *)

Receive ==
  /\ rx = "open" /\ chan # <<>>
  /\ chan' = Tail(chan)
  /\ view' = IF Head(chan).kind = "joined" THEN view \cup {Head(chan).node}
                                           ELSE view \ {Head(chan).node}
  /\ UNCHANGED <<vars, task, rx>>

DropStream ==
  /\ rx = "open"
  /\ rx' = "dropped" /\ chan' = <<>> /\ view' = {}
  /\ UNCHANGED <<vars, task>>

-----------------------------------------------------------------------------
WatchNext ==
  \/ RegistryStep
  \/ WatchCloses \/ WatchPolls \/ WatchDiffs \/ WatchFails
  \/ \E e \in Due : WatchSends(e)
  \/ WatchKeepsList
  \/ Receive \/ DropStream

WatchSpec == WatchInit /\ [][WatchNext]_<<vars, watchVars>>

-----------------------------------------------------------------------------
(* Properties *)

\* The state of watch_peers' task and of its channel is well formed.
WatchTypeOK ==
  /\ TypeOK
  /\ watch \in {"list", "send", "sleep", "done"}
  /\ last \cup joins \cup leaves \cup view \subseteq Node
  /\ chan \in Seq([kind : {"joined", "left"}, node : Node]) /\ Len(chan) <= Buffer
  /\ rx \in {"open", "dropped"}

\* The task never says Left of a node that has been up and refreshing since the poll
\* began, whatever fails, is trimmed by other clocks or comes from a cached scan
\* (list_registrations, and watch_peers' backoff on errors).
NoFalseLeft == watch = "send" => leaves \cap steady = {}

\* The reader hears of a node in turns: Joined when it is not in view, then Left
\* (the comparison with `last', which outlives failed polls).
EventsAlternate ==
  [][chan # <<>> /\ chan' = Tail(chan) /\ rx' = "open"
       => (Head(chan).kind = "left" <=> Head(chan).node \in view)]_<<vars, watchVars>>

\* A reader that has read all there is knows the last list: no event is lost, also when
\* the channel was full (tx.send waits).
ReaderCatchesUp ==
  rx = "open" /\ chan = <<>> /\ watch # "send" => view = last
=============================================================================
