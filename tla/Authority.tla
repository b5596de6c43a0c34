----------------------------- MODULE Authority -----------------------------
(***************************************************************************)
(* Cosmos as the sequence of its committed decisions: grants are minted,   *)
(* spends authorized, escalations resolved and rail reports accepted, one  *)
(* critical section of store.withLock at a time.  The state is the         *)
(* projection of the event log the handlers read: railState() of every     *)
(* authorization, the fold of `spent`, the fold of spentToday, and the     *)
(* pending approvals.                                                      *)
(*                                                                         *)
(* Restarts leave this state alone (everything in it is folded from the    *)
(* log); module Server has the requests, the write-ahead log, the crashes  *)
(* and the boot, and implements this one.                                  *)
(***************************************************************************)
EXTENDS Policy, RailState, Money

CONSTANTS
  Grants,        \* grant ids
  AuthIds,       \* authorization ids newId('auth') can draw
  Keys,          \* idempotency keys clients choose
  Policies,      \* grant records the operator mints
  Amounts,       \* amounts clients ask for, at most MaxAmount
  Currencies, Categories,
  TTL,           \* reservation TTL of POST /authorize
  ApprovalTTL,   \* RESERVATION_TTL_MS, which POST /approvals always uses
  GRACE,         \* graceMs of POST /settlements
  MaxTime,       \* bound on the clock
  None           \* no grant, no key, no parent

PolicyRecord ==
  [ budget : Nat, perPaymentCap : Nat, dailyCap : Nat, threshold : Nat, expiry : Nat,
    freeRein : BOOLEAN, currency : Currencies, categories : SUBSET Categories ]

ASSUME AuthorityAssumption ==
  /\ IsFiniteSet(AuthIds)
  /\ Amounts \subseteq 1..MaxAmount
  /\ Policies \subseteq PolicyRecord
  /\ TTL \in Nat \ {0} /\ ApprovalTTL \in Nat \ {0} /\ GRACE \in Nat \ {0}
  /\ MaxTime \in Nat
  /\ None \notin Grants /\ None \notin Keys /\ None \notin AuthIds

VARIABLES
  clock,     \* Date.now()
  policy,    \* grant_meta of each grant
  life,      \* railState() of each authorization
  req,       \* what the decision record says beyond railState
  spent,     \* the fold of `spent` per grant
  today,     \* reservations minus reversals stamped in the current UTC day
  pending,   \* the pending approvals map
  lateHeld   \* history: minor units re-reserved by late settlements

vars == <<clock, policy, life, req, spent, today, pending, lateHeld>>

Request == [ grant : Grants \cup {None}, key : Keys \cup {None},
             parent : AuthIds \cup {None}, reason : Reasons \cup
               {"none", "APPROVAL_REQUIRED", "DENIED_BY_APPROVER", "APPROVED_BY_HUMAN"} ]

NoRequest == [grant |-> None, key |-> None, parent |-> None, reason |-> "none"]

TypeOK ==
  /\ clock \in Nat
  /\ policy \in [Grants -> Policies \cup {None}]
  /\ life \in [AuthIds -> Lifecycle]
  /\ req \in [AuthIds -> Request]
  /\ spent \in [Grants -> Int]
  /\ today \in [Grants -> Int]
  /\ pending \in SUBSET AuthIds
  /\ lateHeld \in [Grants -> Nat]

Init ==
  /\ clock = 0
  /\ policy = [g \in Grants |-> None]
  /\ life = [a \in AuthIds |-> NoState]
  /\ req = [a \in AuthIds |-> NoRequest]
  /\ spent = [g \in Grants |-> 0]
  /\ today = [g \in Grants |-> 0]
  /\ pending = {}
  /\ lateHeld = [g \in Grants |-> 0]

-----------------------------------------------------------------------------
\* The sum of the amounts of a set of authorizations.
amountOf == [a \in AuthIds |-> life[a].amount]
Total(S) == SumOf(amountOf, S)

HeldBy(g) == {a \in AuthIds : req[a].grant = g /\ life[a].reserved}

Fresh == {a \in AuthIds : life[a].decision = "none"}

\* getIdem() knows the key: some decision of the grant carries it.
Seen(g, k) == \E a \in AuthIds : req[a].grant = g /\ req[a].key = k

\* expiredReservations(): what the sweep of grant g reverses now.
expiredReservations(g) ==
  {a \in AuthIds : req[a].grant = g /\ expired(life[a], clock)}

swept(S) == [a \in AuthIds |-> IF a \in S THEN onReversal(life[a]) ELSE life[a]]

\* Mutant: today's spend is taken for the balance.
viewOfToday(g, sp, td) ==
  [policy |-> policy[g], status |-> "active", spent |-> td, spentToday |-> clampToday(td)]

\* agentView() of a grant whose balance folds are sp and td.
agentView(g, sp, td) ==
  [policy |-> policy[g], status |-> "active", spent |-> sp, spentToday |-> clampToday(td)]

\* The lifecycle record of a decision just recorded.
decided(decision, amount, expiresAt, hasToken) ==
  LET s == onDecision(NoState, decision, amount)
  IN  IF decision = "ALLOW" THEN onReservation(s, expiresAt, hasToken) ELSE s

reservedBy(decision, amount) == IF decision = "ALLOW" THEN amount ELSE 0
-----------------------------------------------------------------------------
\* POST /grants.
CreateGrant(g, p) ==
  /\ policy[g] = None
  /\ policy' = [policy EXCEPT ![g] = p]
  /\ UNCHANGED <<clock, life, req, spent, today, pending, lateHeld>>

(***************************************************************************)
(* POST /authorize under the grant's lock: reverse what has expired, fold, *)
(* decide, escalate above the line, record.  `later` is the clock          *)
(* evaluate() reads for itself, after the fsync of the sweep.  A key       *)
(* already seen replays the stored answer and changes nothing.             *)
(***************************************************************************)
Authorize(g, k, amount, currency, category, later) ==
  /\ policy[g] # None
  /\ ~Seen(g, k)
  /\ LET S       == expiredReservations(g)
         sp      == spent[g] - Total(S)
         td      == today[g] - Total(S)
         verdict == decide(agentView(g, sp, td), later, amount, currency, category)
         decision == IF verdict # "APPROVED" THEN "DENY"
                     ELSE IF needsApproval(policy[g], amount) THEN "ESCALATE"
                     ELSE "ALLOW"
         reason   == IF decision = "ESCALATE" THEN "APPROVAL_REQUIRED" ELSE verdict
     IN  \E a \in Fresh :
           /\ life' = [swept(S) EXCEPT ![a] = decided(decision, amount, clock + TTL, TRUE)]
           /\ req' = [req EXCEPT ![a] =
                [grant |-> g, key |-> k, parent |-> None, reason |-> reason]]
           /\ spent' = [spent EXCEPT ![g] = sp + reservedBy(decision, amount)]
           /\ today' = [today EXCEPT ![g] = td + reservedBy(decision, amount)]
           /\ pending' = IF decision = "ESCALATE" THEN pending \cup {a} ELSE pending
  /\ UNCHANGED <<clock, policy, lateHeld>>

\* The same request when it fails between its two appends (the signer or the
\* second append throws): the reversals are durable, no decision is recorded.
AuthorizeFails(g) ==
  LET S == expiredReservations(g)
  IN  /\ policy[g] # None
      /\ S # {}
      /\ life' = swept(S)
      /\ spent' = [spent EXCEPT ![g] = @ - Total(S)]
      /\ today' = [today EXCEPT ![g] = @ - Total(S)]
      /\ UNCHANGED <<clock, policy, req, pending, lateHeld>>

\* Mutant: the approval is left pending when it is resolved.
resolveTwice(a, decision, reason) ==
  LET g == req[a].grant
      amount == life[a].amount
  IN  \E b \in Fresh :
        /\ life' = [life EXCEPT ![b] = decided(decision, amount, clock + ApprovalTTL, FALSE)]
        /\ req' = [req EXCEPT ![b] =
             [grant |-> g, key |-> None, parent |-> a, reason |-> reason]]
        /\ spent' = [spent EXCEPT ![g] = @ + reservedBy(decision, amount)]
        /\ today' = [today EXCEPT ![g] = @ + reservedBy(decision, amount)]
        /\ UNCHANGED <<clock, policy, pending, lateHeld>>

(***************************************************************************)
(* POST /approvals/:id, with the id still pending under the lock.  A       *)
(* denial records a DENY; an approval is decided again without the line,   *)
(* against the folds as they stand (this route does not sweep), and its    *)
(* reservation carries no capability.                                      *)
(***************************************************************************)
Resolve(a, decision, reason) ==
  LET g == req[a].grant
      amount == life[a].amount
  IN  \E b \in Fresh :
        /\ life' = [life EXCEPT ![b] = decided(decision, amount, clock + ApprovalTTL, FALSE)]
        /\ req' = [req EXCEPT ![b] =
             [grant |-> g, key |-> None, parent |-> a, reason |-> reason]]
        /\ spent' = [spent EXCEPT ![g] = @ + reservedBy(decision, amount)]
        /\ today' = [today EXCEPT ![g] = @ + reservedBy(decision, amount)]
        /\ pending' = pending \ {a}
        /\ UNCHANGED <<clock, policy, lateHeld>>

Deny(a) == a \in pending /\ Resolve(a, "DENY", "DENIED_BY_APPROVER")

\* Mutant: the human's yes overrides the policy.
approveOverrides(a, later) == a \in pending /\ Resolve(a, "ALLOW", "APPROVED_BY_HUMAN")

\* The escalated request had passed the currency and category checks and a
\* grant never changes, so only the balances and the clock can refuse now.
Approve(a, later) ==
  /\ a \in pending
  /\ LET g == req[a].grant
         verdict == decide(agentView(g, spent[g], today[g]), later, life[a].amount,
                           policy[g].currency, "")
     IN  IF verdict = "APPROVED" THEN Resolve(a, "ALLOW", "APPROVED_BY_HUMAN")
                                 ELSE Resolve(a, "DENY", verdict)

-----------------------------------------------------------------------------
(***************************************************************************)
(* POST /settlements/:id.  A report must name an ALLOW, be authenticated   *)
(* by a class its outcome accepts, and find no terminal report.            *)
(***************************************************************************)
mayReport(a, reporter, outcome) ==
  /\ life[a].decision = "ALLOW"
  /\ authenticates(life[a], reporter)
  /\ reporter \in MAY_REPORT(outcome)
  /\ ~terminal(life[a])

ReportSubmitted(a, reporter) ==
  /\ mayReport(a, reporter, "submitted")
  /\ life' = [life EXCEPT ![a] = onSubmission(@, reporter, clock + GRACE)]
  /\ UNCHANGED <<clock, policy, req, spent, today, pending, lateHeld>>

\* Mutant: a failure returns the amount though the TTL already has.
refundAgain(s) == s.amount

\* What a `failed` report gives back: the hold, if it still stands.
refund(s) == IF s.reserved THEN s.amount ELSE 0

ReportFailed(a, reporter) ==
  LET g == req[a].grant
      back == refund(life[a])
  IN  /\ mayReport(a, reporter, "failed")
      /\ life' = [life EXCEPT ![a] =
           onSettlement(onReversal(@), "failed", reporter, FALSE)]
      /\ spent' = [spent EXCEPT ![g] = @ - back]
      /\ today' = [today EXCEPT ![g] = @ - back]
      /\ UNCHANGED <<clock, policy, req, pending, lateHeld>>

\* What a `settled` report takes again: the amount, if the TTL gave it back.
retake(s) == IF s.reserved THEN 0 ELSE s.amount

ReportSettled(a, reporter) ==
  LET g == req[a].grant
      again == retake(life[a])
      isLate == ~life[a].reserved
  IN  /\ mayReport(a, reporter, "settled")
      /\ life' = [life EXCEPT ![a] =
           onSettlement(onReservation(@, 0, FALSE), "settled", reporter, isLate)]
      /\ spent' = [spent EXCEPT ![g] = @ + again]
      /\ today' = [today EXCEPT ![g] = @ + again]
      /\ lateHeld' = [lateHeld EXCEPT ![g] = @ + again]
      /\ UNCHANGED <<clock, policy, req, pending>>

\* Time passes; a new UTC day starts its spentToday window empty.
Tick(t) ==
  /\ clock < t
  /\ clock' = t
  /\ today' = [g \in Grants |->
       IF utcDayStart(t) = utcDayStart(clock) THEN today[g] ELSE 0]
  /\ UNCHANGED <<policy, life, req, spent, pending, lateHeld>>

AuthorizeStep(g) ==
  \/ \E k \in Keys, amount \in Amounts, currency \in Currencies,
        category \in Categories \cup {""}, later \in clock..MaxTime :
       Authorize(g, k, amount, currency, category, later)
  \/ AuthorizeFails(g)

ReportStep(a) == \E reporter \in Reporters :
  ReportSubmitted(a, reporter) \/ ReportSettled(a, reporter) \/ ReportFailed(a, reporter)

Next ==
  \/ \E g \in Grants, p \in Policies : CreateGrant(g, p)
  \/ \E g \in Grants : AuthorizeStep(g)
  \/ \E a \in AuthIds : Deny(a)
  \/ \E a \in AuthIds, later \in clock..MaxTime : Approve(a, later)
  \/ \E a \in AuthIds : ReportStep(a)
  \/ \E t \in 1..MaxTime : Tick(t)

Spec == Init /\ [][Next]_vars
-----------------------------------------------------------------------------
(***************************************************************************)
(* Safety.                                                                 *)
(***************************************************************************)

\* The incremental fold of `spent` is exactly the sum of the holds that stand:
\* no order of sweeps, late settlements and failed reports credits or charges
\* an authorization twice (core/rail.js reportEvents, core/replay.js).
BooksBalance == \A g \in Grants : spent[g] = Total(HeldBy(g))

\* A grant passes its budget only by the amount late settlements re-reserved
\* (api/settlements.js question 2); no interleaving of decisions does it.
BudgetBound ==
  \A g \in Grants : policy[g] # None => spent[g] <= policy[g].budget + lateHeld[g]

\* GRANT_OVERRUN is said only of a grant that a late settlement pushed past
\* its budget, the one way core/agent-view.js names for it.
OverrunMeansLate ==
  \A a \in AuthIds : req[a].reason = "GRANT_OVERRUN" => lateHeld[req[a].grant] > 0

\* The outcome on record and the hold agree: a settled spend stands, a failed
\* one is returned, and neither a DENY nor an ESCALATE ever held budget.
OutcomeMatchesHold ==
  \A a \in AuthIds :
    /\ settled(life[a]) => life[a].reserved
    /\ failed(life[a]) => ~life[a].reserved
    /\ life[a].decision # "ALLOW" => ~life[a].reserved /\ life[a].outcome = "none"

\* The pending map holds exactly the escalations no resolution descends from,
\* and an escalation has at most one (core/approvals.js resolve(): one-shot).
OneResolution ==
  /\ \A a, b \in AuthIds :
       req[a].parent # None /\ req[a].parent = req[b].parent => a = b
  /\ pending = {a \in AuthIds :
       life[a].decision = "ESCALATE" /\ \A b \in AuthIds : req[b].parent # a}

\* A terminal report is final: nothing about a settled or failed
\* authorization changes again, in particular no sweep hands it back.
FinalStep == \A a \in AuthIds : terminal(life[a]) => life'[a] = life[a]

TerminalIsFinal == [][FinalStep]_vars

\* Budget comes back only from a deadline that has passed or from the rail's
\* own `failed` report (README: "only the rail, or the TTL").
ReleaseStep ==
  \A a \in AuthIds : life[a].reserved /\ ~life'[a].reserved =>
    \/ life[a].deadline < clock
    \/ failed(life'[a]) /\ life'[a].reportedBy = "rail"

OnlyRailOrTTLReleases == [][ReleaseStep]_vars

\* No report brings the deadline of a standing hold forward, whatever the
\* configured grace period is next to the TTL.
DeadlineStep ==
  \A a \in AuthIds : life[a].reserved /\ life'[a].reserved =>
    life'[a].deadline >= life[a].deadline

DeadlineNeverShrinks == [][DeadlineStep]_vars

\* A new ALLOW, direct or by approval, leaves its grant within its budget,
\* even one that late settlements have pushed over before.
AllowStep ==
  \A a \in AuthIds : life[a].decision = "none" /\ life'[a].decision = "ALLOW" =>
    spent'[req'[a].grant] <= policy[req'[a].grant].budget

AllowFitsBudget == [][AllowStep]_vars
=============================================================================
