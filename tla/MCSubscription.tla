--------------------------- MODULE MCSubscription ---------------------------
(***************************************************************************)
(* A subscription filtered by the routing key <<0>>.  Bytes are 0..2, so   *)
(* that a routing key of nine bytes is too long; <<2>> is not UTF-8.       *)
(***************************************************************************)
EXTENDS Subscription

MCText == {<<>>, <<0>>, <<0, 0, 0, 0>>, [i \in 1..9 |-> 0]}

\* No key, the empty key, the filter's key, a key whose length has two digits, and one
\* that is too long.
MCMessage ==
  {[key |-> k, payload |-> <<>>] : k \in {None, Some(<<>>), Some(<<0, 0, 0, 0>>)}}
  \cup {[key |-> Some(<<0>>), payload |-> <<1>>],
        [key |-> Some([i \in 1..9 |-> 0]), payload |-> <<>>]}

\* A key cut short, a key that is not UTF-8, another version.
MCForeign == {<<1, 1, 0, 2, 0>>, <<1, 1, 0, 1, 2>>, <<2, 0>>}

MCFilter == Some(<<0>>)

=============================================================================
