----------------------------- MODULE MCDelivery -----------------------------
(* Instances of DeliveryHandler for TLC. *)
EXTENDS DeliveryHandler, TLC

CONSTANTS a, b, x, y, w1, w2

R(d, i, c) == [d |-> d, i |-> i, c |-> c]

\* One request, repeated.
Single == {R(a, a, x)}
\* One logical delivery under two delivery IDs.
Retried == {R(a, a, x), R(b, a, x)}
\* Two deliveries that have nothing to do with each other.
Pair == {R(a, a, x), R(b, b, x)}
\* One delivery under two IDs, and other content, not routable, under the first
\* of its identities.
Changed == Retried \cup {R(a, a, y)}
\* One delivery under two IDs, and another with these identities the other way
\* round: each one's idempotency ID is a delivery ID of the other.
Crossed == Retried \cup {R(a, b, y)}

NoLegacy == {}
OldRow   == {R(a, a, x)}

Swap == Permutations({w1, w2})
\* Pair is the same with a and b exchanged.
SwapIDs == Swap \cup Permutations({a, b})
=============================================================================
