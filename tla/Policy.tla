------------------------------- MODULE Policy -------------------------------
(***************************************************************************)
(* The spending policy of one grant: core/guardrails.js evaluate(), the    *)
(* adapter around it in core/agent-view.js decide(), and the approval line *)
(* of core/approvals.js.  Pure operators, no state.                        *)
(*                                                                         *)
(* Amounts are integers in minor units (agent-view.js, Gap 1), so the      *)
(* float rounding of guardrails.js is the identity here.  A policy is the  *)
(* part of a grant_meta record the decision reads; 0 stands for the `null` *)
(* of the two optional fields (the route accepts only positive values).    *)
(***************************************************************************)
EXTENDS Integers

CONSTANT
  DAY_MS,            \* length of the accounting day, in clock ticks
  EnvThreshold       \* APPROVAL_THRESHOLD of the process, 0 when unset

ASSUME PolicyAssumption == DAY_MS \in Nat \ {0} /\ EnvThreshold \in Nat

\* Everything evaluate() and decide() can answer.
Reasons == { "CURRENCY_MISMATCH", "NOT_ACTIVE", "EXPIRED", "INVALID_AMOUNT",
             "GRANT_OVERRUN", "INSUFFICIENT_BALANCE", "PER_PAYMENT_LIMIT",
             "DAILY_LIMIT", "CATEGORY_NOT_ALLOWED", "APPROVED" }

utcDayStart(ts) == (ts \div DAY_MS) * DAY_MS

\* spentToday() never answers less than zero.
clampToday(net) == IF net > 0 THEN net ELSE 0

(***************************************************************************)
(* evaluate(): the checks in the order of the code; the first that fails   *)
(* names the reason.  `now` is the clock evaluate() reads for itself; ""   *)
(* is the absent category, which the category check lets through.          *)
(***************************************************************************)
evaluate(view, now, amount, category) ==
  LET p      == view.policy
      capped == ~p.freeRein
  IN  IF view.status # "active"                    THEN "NOT_ACTIVE"           ELSE
      IF p.expiry # 0 /\ now > p.expiry            THEN "EXPIRED"              ELSE
      IF amount <= 0                               THEN "INVALID_AMOUNT"       ELSE
      IF amount > p.budget - view.spent            THEN "INSUFFICIENT_BALANCE" ELSE
      IF capped /\ amount > p.perPaymentCap        THEN "PER_PAYMENT_LIMIT"    ELSE
      IF capped /\ view.spentToday + amount > p.dailyCap
                                                   THEN "DAILY_LIMIT"          ELSE
      IF capped /\ category # "" /\ category \notin p.categories
                                                   THEN "CATEGORY_NOT_ALLOWED"
                                                   ELSE "APPROVED"

\* decide(): the currency check first, and the balance refusal of a grant
\* already past its budget under its own name.
decide(view, now, amount, currency, category) ==
  LET r == evaluate(view, now, amount, category)
  IN  IF currency # view.policy.currency
      THEN "CURRENCY_MISMATCH"
      ELSE IF r = "INSUFFICIENT_BALANCE" /\ view.spent > view.policy.budget
           THEN "GRANT_OVERRUN"
           ELSE r

\* thresholdFor() and needsApproval(): the grant's line, else the process's,
\* else none.
needsApproval(p, amount) ==
  LET line == IF p.threshold # 0 THEN p.threshold ELSE EnvThreshold
  IN  line # 0 /\ amount > line
=============================================================================
