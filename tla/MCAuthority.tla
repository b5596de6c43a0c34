----------------------------- MODULE MCAuthority -----------------------------
(***************************************************************************)
(* Small instances of Authority.  A day is four ticks, the TTL two, the    *)
(* grace period one, so that a report can race the sweep and midnight.     *)
(***************************************************************************)
EXTENDS Authority, TLC

MCAmounts == {1, 2}

base == [ budget |-> 2, perPaymentCap |-> 2, dailyCap |-> 2, threshold |-> 0,
          expiry |-> 0, freeRein |-> FALSE, currency |-> "USD", categories |-> {"api"} ]

\* A tight grant, without an approval line or with one at 1.
TightPolicy == {base, [base EXCEPT !.threshold = 1]}

symm == Permutations(AuthIds) \cup Permutations(Keys)
==============================================================================
