----------------------------- MODULE MCEvidence -----------------------------
(* An instance of Evidence, and of Keystore, for TLC. *)
EXTENDS Evidence

CONSTANTS k1, k2, k3, a, b, c

api == [type |-> <<"category">>, value |-> <<"api">>]
data == [type |-> <<"category">>, value |-> <<"data">>]

MCCaps == {api, data}
MCRank == (api :> 1) @@ (data :> 2)
MCCategory == api

\* A kid that is not the receipt's; the items a receipt consists of, other heads of
\* the same types and of others, long arguments, a reserved head.
MCStrays ==
  {<<"kid", k>> : k \in Kids}
    \cup {B(0, 1), B(0, 4), B(2, 24), B(2, 25), B(4, 3), B(5, 0), B(5, 1), B(6, 17), B(6, 18),
          B(7, 21), B(7, 31)}

\* Once the operator has broken a rule nothing more is asked.
WhileCareful == careful

symm == Permutations(Keys) \cup Permutations(Kids)
=============================================================================
