------------------------------- MODULE MCX402 -------------------------------
(* Instances of X402 for TLC. *)
EXTENDS X402, TLC

CONSTANTS g1, n1, n2, n3, own, other

MCAmounts == {1, 2}
MCKeys == {own, other} \cup {challengeKey(n) : n \in Nonces}

\* A grant for two small payments or one large one, whose larger payments
\* escalate; and one in free rein that expires.
base == [ budget |-> 2, perPaymentCap |-> 2, dailyCap |-> 2, threshold |-> 1,
          expiry |-> 0, freeRein |-> FALSE, currency |-> "USD", categories |-> {"api"} ]
MCPolicies == {base, [base EXCEPT !.freeRein = TRUE, !.perPaymentCap = 1, !.expiry = 1]}

small == [ nonce |-> n1, bundleKey |-> None, grant |-> g1, units |-> 10, currency |-> "USD",
           category |-> "api" ]

\* Two identical purchases, a larger one under a key of the deployer's that the
\* same challenge comes with, one of nothing, and what the verifier refuses by
\* itself: no source of a key, and an amount that leaves a remainder.
MCOffers ==
  { small, [small EXCEPT !.nonce = n2],
    [small EXCEPT !.bundleKey = own, !.units = 20],
    [small EXCEPT !.bundleKey = other, !.units = 0],
    [small EXCEPT !.nonce = None], [small EXCEPT !.nonce = n3, !.units = 15] }
=============================================================================
