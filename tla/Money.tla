------------------------------- MODULE Money -------------------------------
(***************************************************************************)
(* Sums of amounts.  Money is counted in minor units: the n-th unit of     *)
(* account x is the pair <<x, n>>, and the sum of the amounts f[x] over a  *)
(* set S is the number of units in it.                                     *)
(***************************************************************************)
EXTENDS Integers, FiniteSets

CONSTANT MaxAmount     \* the largest amount an account can have

ASSUME MoneyAssumption == MaxAmount \in Nat

Units(f, S)  == {u \in S \X (1..MaxAmount) : u[2] <= f[u[1]]}
SumOf(f, S) == Cardinality(Units(f, S))
=============================================================================
