---------------------------- MODULE Subscription ----------------------------
(***************************************************************************)
(* One subscription to a topic (pubsub.rs): its connection to Redis, the   *)
(* task that forwards decoded messages over a bounded channel, and the     *)
(* stream that the caller reads and drops.  A message that Redis puts on   *)
(* the connection arrives in order unless the connection is lost; what is  *)
(* published while there is none is not replayed.                          *)
(***************************************************************************)
EXTENDS Envelope, Functions

CONSTANTS
  Message,    \* what callers publish: [key : RoutingKey, payload : Bytes]
  Foreign,    \* undecodable bytes that other clients publish on the channel
  Garbage,
  Filter,     \* routing_key_filter, an Option
  Buffer,     \* subscribe_pattern_buffer
  MaxSent     \* bound on published messages

ASSUME SubscriptionAssumption ==
  /\ Message \subseteq [key : RoutingKey, payload : Bytes]
  /\ \A b \in Foreign : b \in Bytes /\ ~Decodable(b)
  /\ Garbage \notin Message
  /\ Filter \in RoutingKey
  /\ Buffer \in Nat \ {0}
  /\ MaxSent \in Nat

VARIABLES
  sent,   \* history: what was published, [msg, raw]
  conn,   \* the task's connection: "none", "open", "closed", or "stale" when the
          \* other side is gone and no packet said so
  wire,   \* places in sent of the messages on it that the task has not taken
  since,  \* history: Len(sent) when it was subscribed
  pc,     \* the task, "off" before subscribe_async
  out,    \* the message in tx.send, with its place in sent
  chan,   \* the channel's queue
  rx,     \* the stream: "open" or "dropped"
  got     \* history: what the stream's reader has received

vars == <<sent, conn, wire, since, pc, out, chan, rx, got>>

Init ==
  /\ sent = <<>> /\ got = <<>>
  /\ conn = "none" /\ wire = <<>> /\ since = 0
  /\ pc = "off" /\ out = <<>> /\ chan = <<>> /\ rx = "open"

Wanted == {m \in Message : Filter # None => m.key = Filter}

-----------------------------------------------------------------------------
(* Redis and other clients *)

Arrives(msg, raw) ==
  /\ Len(sent) < MaxSent
  /\ sent' = Append(sent, [msg |-> msg, raw |-> raw])
  /\ wire' = IF conn = "open" THEN Append(wire, Len(sent')) ELSE wire
  /\ UNCHANGED <<conn, since, pc, out, chan, rx, got>>

\* publish_async: a key that is too long fails, anything else is published once.
Publish(m) == Encodable(m.key) /\ Arrives(m, encode(m.key, m.payload))

ForeignPublish(b) == Arrives(Garbage, b)

\* The connection is lost, by Redis's limit on a slow subscriber's backlog or by the
\* network, with a tail of what was on it.  The task may not see that it is.
ConnLost ==
  /\ conn = "open"
  /\ conn' \in {"closed", "stale"}
  /\ wire' \in {SubSeq(wire, 1, n) : n \in 0..Len(wire)}
  /\ UNCHANGED <<sent, since, pc, out, chan, rx, got>>

\* A probe of the network finds out.
StaleEnds ==
  /\ conn = "stale"
  /\ conn' = "closed"
  /\ UNCHANGED <<sent, wire, since, pc, out, chan, rx, got>>

-----------------------------------------------------------------------------
(* subscribe_async and its task *)

Subscribed == conn' = "open" /\ wire' = <<>> /\ since' = Len(sent)
Disconnected == conn' = "none" /\ wire' = <<>> /\ UNCHANGED since

\* The first connection; a failure goes to the caller, and there is no task.
Subscribe ==
  /\ pc = "off"
  /\ Subscribed
  /\ pc' = "top"
  /\ UNCHANGED <<sent, out, chan, rx, got>>

\* The task ends and drops what it owns.
Ends ==
  /\ pc' = "done" /\ out' = <<>>
  /\ Disconnected
  /\ UNCHANGED <<sent, chan, rx, got>>

TaskTop ==
  /\ pc = "top"
  /\ \/ rx = "dropped" /\ Ends
     \/ /\ rx = "open"
        /\ pc' = IF conn = "none" THEN "reconnect" ELSE "inner"
        /\ UNCHANGED <<sent, conn, wire, since, out, chan, rx, got>>

Reconnect ==
  /\ pc = "reconnect"
  /\ Subscribed
  /\ pc' = "inner"
  /\ UNCHANGED <<sent, out, chan, rx, got>>

\* Mutant: a failure ends the task.
ReconnectEnds == pc = "reconnect" /\ Ends

ReconnectFails ==
  /\ pc = "reconnect"
  /\ pc' = "sleep"
  /\ UNCHANGED <<sent, conn, wire, since, out, chan, rx, got>>

\* Mutant: the stream is not looked at between messages.
TaskGoesOn ==
  /\ pc = "inner"
  /\ pc' = "next"
  /\ UNCHANGED <<sent, conn, wire, since, out, chan, rx, got>>

TaskInner ==
  /\ pc = "inner"
  /\ \/ rx = "dropped" /\ Ends
     \/ /\ rx = "open" /\ pc' = "next"
        /\ UNCHANGED <<sent, conn, wire, since, out, chan, rx, got>>

\* Mutant: a message without a key passes every filter.
PassesKeyless(raw) == Decodable(raw) /\ (Filter # None => decode(raw).key \in {None, Filter})

\* decode and the filter let the message through.
Passes(raw) == Decodable(raw) /\ (Filter # None => decode(raw).key = Filter)

\* Mutant: bytes that do not decode end the connection.
TaskNextOrBreak ==
  /\ pc = "next" /\ wire # <<>>
  /\ LET n == Head(wire) IN
     \/ /\ Decodable(sent[n].raw)
        /\ wire' = Tail(wire) /\ UNCHANGED <<conn, since>>
        /\ IF Passes(sent[n].raw)
           THEN pc' = "send" /\ out' = <<[n |-> n, msg |-> decode(sent[n].raw)]>>
           ELSE pc' = "inner" /\ UNCHANGED out
     \/ ~Decodable(sent[n].raw) /\ Disconnected /\ pc' = "sleep" /\ UNCHANGED out
  /\ UNCHANGED <<sent, chan, rx, got>>

TaskNext ==
  /\ pc = "next" /\ wire # <<>>
  /\ wire' = Tail(wire)
  /\ LET n == Head(wire) IN
     IF Passes(sent[n].raw)
     THEN pc' = "send" /\ out' = <<[n |-> n, msg |-> decode(sent[n].raw)]>>
     ELSE pc' = "inner" /\ UNCHANGED out
  /\ UNCHANGED <<sent, conn, since, chan, rx, got>>

\* The connection's stream is over.
TaskLoses ==
  /\ pc = "next" /\ wire = <<>> /\ conn = "closed"
  /\ Disconnected
  /\ pc' = "sleep"
  /\ UNCHANGED <<sent, out, chan, rx, got>>

\* Mutant: a message that finds the channel full is dropped.
TaskTriesSend ==
  /\ pc = "send"
  /\ \/ rx = "dropped" /\ Ends
     \/ /\ rx = "open"
        /\ chan' = IF Len(chan) < Buffer THEN chan \o out ELSE chan
        /\ pc' = "inner" /\ out' = <<>>
        /\ UNCHANGED <<sent, conn, wire, since, rx, got>>

\* tx.send waits for room, or fails when the stream is dropped.
TaskSend ==
  /\ pc = "send"
  /\ \/ rx = "dropped" /\ Ends
     \/ /\ rx = "open" /\ Len(chan) < Buffer
        /\ chan' = chan \o out
        /\ pc' = "inner" /\ out' = <<>>
        /\ UNCHANGED <<sent, conn, wire, since, rx, got>>

TaskWakes ==
  /\ pc = "sleep"
  /\ pc' = "top"
  /\ UNCHANGED <<sent, conn, wire, since, out, chan, rx, got>>

-----------------------------------------------------------------------------
(* The stream's owner *)

Receive ==
  /\ rx = "open" /\ chan # <<>>
  /\ got' = Append(got, Head(chan))
  /\ chan' = Tail(chan)
  /\ UNCHANGED <<sent, conn, wire, since, pc, out, rx>>

DropStream ==
  /\ rx = "open" /\ pc # "off"
  /\ rx' = "dropped"
  /\ chan' = <<>>
  /\ UNCHANGED <<sent, conn, wire, since, pc, out, got>>
-----------------------------------------------------------------------------
TaskStep ==
  \/ TaskTop \/ TaskInner \/ TaskNext \/ TaskLoses \/ TaskSend \/ TaskWakes
  \/ Reconnect \/ ReconnectFails

Next ==
  \/ \E m \in Message : Publish(m)
  \/ \E b \in Foreign : ForeignPublish(b)
  \/ ConnLost \/ StaleEnds \/ Subscribe \/ TaskStep \/ Receive \/ DropStream

Spec == Init /\ [][Next]_vars

\* The runtime drives the task, of the attempts to reconnect not all fail for ever, and
\* the stream's owner reads.  Nothing is published, dropped or lost by necessity.
FairSpec == Spec /\ WF_vars(TaskStep) /\ SF_vars(Reconnect) /\ WF_vars(Receive)

-----------------------------------------------------------------------------
(* Properties *)

Forwarded == [n : 1..MaxSent, msg : [key : RoutingKey, payload : Bytes]]

\* The state of the connection, of subscribe_async's task and of its channel is well
\* formed; the channel holds at most Buffer messages.
TypeOK ==
  /\ sent \in Seq([msg : Message \cup {Garbage}, raw : Bytes]) /\ Len(sent) <= MaxSent
  /\ conn \in {"none", "open", "closed", "stale"}
  /\ wire \in Seq(1..Len(sent)) /\ since \in 0..Len(sent)
  /\ pc \in {"off", "top", "reconnect", "inner", "next", "send", "sleep", "done"}
  /\ out \in Seq(Forwarded) /\ Len(out) = (IF pc = "send" THEN 1 ELSE 0)
  /\ chan \in Seq(Forwarded) /\ Len(chan) <= Buffer
  /\ rx \in {"open", "dropped"}
  /\ got \in Seq(Forwarded)

\* The subscription as its reader sees it.
Service == INSTANCE Topic WITH
  sent <- [n \in DOMAIN sent |-> sent[n].msg],
  got <- [i \in DOMAIN got |-> got[i].msg],
  upto <- IF got = <<>> THEN 0 ELSE got[Len(got)].n

\* What the reader receives is what was published, key and payload through encode and
\* decode, filtered, in order and never twice, whatever connections come and go.
ImplementsTopic == Service!Spec

\* While a connection lives nothing is lost: each wanted message published since it was
\* subscribed is on it, in the task's hands, in the channel or received.  A full channel
\* (tx.send waits) and bytes that do not decode (continue) cost no other message.
NothingLostInside ==
  conn = "open" /\ rx = "open" =>
    \A n \in (since + 1)..Len(sent) : sent[n].msg \in Wanted =>
      n \in Range(wire) \cup {d.n : d \in Range(out \o chan \o got)}

\* A wanted message on the connection is received unless the connection is lost or the
\* stream dropped: the task gets past whatever it does not forward.
Delivered ==
  \A n \in 1..MaxSent :
    (n \in Range(wire) /\ sent[n].msg \in Wanted)
      ~> (conn \in {"closed", "stale"} \/ rx = "dropped" \/ n \in {d.n : d \in Range(got)})

\* A connection whose end shows is replaced: "any pubsub error tears down the current
\* connection, sleeps 5s, then re-subscribes".
Resubscribes ==
  (conn = "closed" \/ (conn = "none" /\ pc # "off")) ~> (conn = "open" \/ rx = "dropped")

\* The task of a dropped stream ends once its connection ends or brings a message
\* (is_closed, and the error of tx.send), unless the connection then goes silent.
EndsWhenWoken ==
  (rx = "dropped" /\ (conn \in {"closed", "none"} \/ wire # <<>>))
    ~> (pc = "done" \/ conn = "stale")

\* "the caller drops the stream when they're done and the background task tears the
\* subscription down": the task of a dropped stream ends (stream.next waits on).
DropTearsDown == (rx = "dropped") ~> (pc = "done")

=============================================================================
