------------------------------ MODULE MCServer ------------------------------
(* Instances of module Server for TLC. *)
EXTENDS ServerImplements

CONSTANTS g1, g2, mint2, k1, k2, mint, r1, r2, r3, r4, USD, api, a1, a2, a3, a4, a5

\* A grant of 3, payments of up to 2, no approval line below 2.
TightGrant ==
  [ budget |-> 3, perPaymentCap |-> 2, dailyCap |-> 4, threshold |-> 0, expiry |-> 0,
    freeRein |-> FALSE, currency |-> USD, categories |-> {api} ]
LineGrant == [TightGrant EXCEPT !.threshold = 1]

Mint(g, p) == [op |-> "mint", g |-> g, policy |-> p]
AskOf(g, k, n) == [op |-> "authorize", g |-> g, key |-> k, amount |-> n, currency |-> USD, category |-> api]
Ask(k, n) == AskOf(g1, k, n)
Report(o, by) == [op |-> "report", outcome |-> o, by |-> by]

\* A request, its retry, a rival for the same budget.
RivalCalls == mint :> Mint(g1, TightGrant) @@ r1 :> Ask(k1, 2) @@ r2 :> Ask(k1, 2) @@ r3 :> Ask(k2, 2)

\* A rival on one grant while another grant's request joins its batches.
TwoGrantCalls == mint :> Mint(g1, TightGrant) @@ mint2 :> Mint(g2, TightGrant)
               @@ r1 :> Ask(k1, 2) @@ r2 :> Ask(k2, 2) @@ r3 :> AskOf(g2, k1, 2) @@ r4 :> Ask(k1, 2)

\* A request, a later one that sweeps, and the rail's two endings.
RailCalls == mint :> Mint(g1, TightGrant) @@ r1 :> Ask(k1, 2) @@ r2 :> Ask(k2, 2)
               @@ r3 :> Report("settled", "rail") @@ r4 :> Report("failed", "rail")

\* An escalation, its retry and two approvers.
ApprovalCalls == mint :> Mint(g1, LineGrant) @@ r1 :> Ask(k1, 2) @@ r2 :> Ask(k1, 2)
               @@ r3 :> [op |-> "approve"] @@ r4 :> [op |-> "deny"]

\* An escalation, its approval, a later request that sweeps, and the
\* operator's late settlement: every kind of record there is.
EveryCall == mint :> Mint(g1, LineGrant) @@ r1 :> Ask(k1, 2) @@ r2 :> [op |-> "approve"]
               @@ r3 :> Report("settled", "operator") @@ r4 :> Ask(k2, 1)

clients(calls, maxTime) == [calls |-> calls, maxTime |-> maxTime]

Races == {clients(TwoGrantCalls, 0), clients(RailCalls, 2)}
Approvals == {clients(ApprovalCalls, 0)}
Everything == {clients(EveryCall, 2)}
Rivals == {clients(RivalCalls, 0)}

MCPolicies == {c.calls[mint].policy : c \in Clients}
=============================================================================
