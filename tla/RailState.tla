----------------------------- MODULE RailState -----------------------------
(***************************************************************************)
(* The lifecycle of one authorization as core/rail.js railState() folds it *)
(* out of the log: one operator per kind of event, each the update that    *)
(* kind makes to the folded record, and the rules of who may report what   *)
(* (api/settlements.js).  Pure operators, no state.                        *)
(***************************************************************************)
EXTENDS Integers

Decisions == {"none", "ALLOW", "DENY", "ESCALATE"}
Outcomes  == {"none", "submitted", "settled", "failed"}
Reporters == {"allow_holder", "operator", "rail"}

\* The fold of no events.  `decision` "none" is railState's null: no such
\* authorization.  `token` stands for the presence of a stored tokenHash.
NoState ==
  [ decision |-> "none", amount |-> 0, reserved |-> FALSE, deadline |-> 0,
    token |-> FALSE, outcome |-> "none", reportedBy |-> "none", late |-> FALSE ]

Lifecycle ==
  [ decision : Decisions, amount : Nat, reserved : BOOLEAN, deadline : Nat,
    token : BOOLEAN, outcome : Outcomes, reportedBy : Reporters \cup {"none"},
    late : BOOLEAN ]

settled(s)  == s.outcome = "settled"
failed(s)   == s.outcome = "failed"
terminal(s) == settled(s) \/ failed(s)

\* --- one update per event kind -------------------------------------------
onDecision(s, decision, amount) ==
  [s EXCEPT !.decision = decision, !.amount = amount]

\* An expiresAt of 0 is the absent field: the deadline is left as it was.
onReservation(s, expiresAt, hasToken) ==
  [s EXCEPT !.reserved = TRUE,
            !.deadline = IF expiresAt # 0 THEN expiresAt ELSE @,
            !.token    = @ \/ hasToken]

\* Mutants: a reversal that stores -1 for "no deadline"; one the fold skips.
reversalSentinel(s) == [s EXCEPT !.reserved = FALSE, !.deadline = -1]
reversalIgnored(s) == s

onReversal(s) == [s EXCEPT !.reserved = FALSE]

\* Mutant: the deadline is set to the report's, not extended to it.
submissionOverwrites(s, reporter, expiresAt) ==
  [s EXCEPT !.outcome = "submitted", !.reportedBy = reporter, !.deadline = expiresAt]

onSubmission(s, reporter, expiresAt) ==
  [s EXCEPT !.outcome    = "submitted",
            !.reportedBy = reporter,
            !.deadline   = IF expiresAt > @ THEN expiresAt ELSE @]

onSettlement(s, outcome, reporter, isLate) ==
  [s EXCEPT !.outcome    = outcome,
            !.reportedBy = reporter,
            !.late       = isLate,
            !.reserved   = @ \/ outcome = "settled"]

\* Mutant: a settled row stays in the sweep.
sweepableAnyway(s) == s.reserved

\* --- what the sweep and the report route ask of it -----------------------
sweepable(s) == s.reserved /\ ~settled(s) /\ ~failed(s)

\* Mutant: the last instant of the deadline counts as past it.
expiredEarly(s, now) == sweepable(s) /\ s.deadline # 0 /\ now >= s.deadline

\* The test of expiredReservations() on one open row.
expired(s, now) == sweepable(s) /\ s.deadline # 0 /\ now > s.deadline

\* Mutant: the operator may report a failure too.
operatorMayFail(outcome) ==
  IF outcome = "submitted" THEN Reporters ELSE {"operator", "rail"}

\* MAY_REPORT: the credential classes each outcome accepts.
MAY_REPORT(outcome) ==
  CASE outcome = "submitted" -> {"allow_holder", "operator", "rail"}
    [] outcome = "settled"   -> {"operator", "rail"}
    [] outcome = "failed"    -> {"rail"}

\* authenticateReport(): the rail presents its token and the capability, the
\* holder of the ALLOW the capability, so both need a stored hash.
authenticates(s, reporter) == reporter = "operator" \/ s.token
=============================================================================
