------------------------------- MODULE Topic -------------------------------
(***************************************************************************)
(* What a subscription promises (pubsub.rs): published messages that pass  *)
(* its filter, unaltered, each at most once, in the order of publication.  *)
(* Any of them may be missing: "Redis pub/sub is fire-and-forget - we      *)
(* don't replay".                                                          *)
(***************************************************************************)
EXTENDS Naturals, Sequences

CONSTANTS
  Message,
  Garbage,  \* what others publish on the channel and no envelope wraps
  Wanted    \* the messages that pass the filter

VARIABLES
  sent,     \* all that was published, in order
  got,      \* what the stream's reader has received
  upto      \* the place in sent of the last message received

vars == <<sent, got, upto>>

Init == sent = <<>> /\ got = <<>> /\ upto = 0

Send ==
  /\ \E m \in Message \cup {Garbage} : sent' = Append(sent, m)
  /\ UNCHANGED <<got, upto>>

Deliver ==
  \E n \in (upto + 1)..Len(sent) :
    /\ sent[n] \in Wanted
    /\ got' = Append(got, sent[n])
    /\ upto' = n
    /\ UNCHANGED sent

Next == Send \/ Deliver

Spec == Init /\ [][Next]_vars

=============================================================================
