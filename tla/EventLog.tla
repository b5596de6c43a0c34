------------------------------ MODULE EventLog ------------------------------
(***************************************************************************)
(* The records of the event log and the folds the handlers read them       *)
(* through: core/replay.js, core/rail.js railState(), spentToday() of      *)
(* core/agent-view.js, expiredReservations() and rehydrateIdem() of        *)
(* api/authorize.js, rehydrate() of core/approvals.js, loadGrants().       *)
(* Operators on sequences, no state.                                       *)
(***************************************************************************)
EXTENDS Policy, RailState, Folding, SequencesExt

CONSTANTS Grants, AuthIds, Keys, Policies, None

Kinds == { "none", "grant_meta", "open", "decision", "reservation", "reversal", "submission",
           "settlement", "approval_request", "approval_decision", "receipt" }

\* A record.  `kind` says which of the fields mean something; 0 and None are
\* the absent number and the absent name.
NoEvent ==
  [ kind |-> "none", a |-> None, g |-> None, ts |-> 0, amount |-> 0, exp |-> 0,
    token |-> FALSE, key |-> None, decision |-> "none", reason |-> "none",
    parent |-> None, outcome |-> "none", by |-> "none", late |-> FALSE, policy |-> None ]

\* Why a decision was taken.
Why == Reasons \cup {"none", "APPROVAL_REQUIRED", "DENIED_BY_APPROVER", "APPROVED_BY_HUMAN"}

\* The records the handlers write: a grant's say which grant and a decision's
\* which authorization of which grant.
Event ==
  { e \in [ kind : Kinds, a : AuthIds \cup {None}, g : Grants \cup {None}, ts : Nat,
            amount : Nat, exp : Nat, token : BOOLEAN, key : Keys \cup {None},
            decision : Decisions, reason : Why, parent : AuthIds \cup {None},
            outcome : Outcomes, by : Reporters \cup {"none"}, late : BOOLEAN,
            policy : Policies \cup {None} ] :
      /\ e.kind = "grant_meta" => e.g \in Grants /\ e.policy \in Policies
      /\ e.kind \in {"decision", "approval_request", "approval_decision"} =>
           e.a \in AuthIds /\ e.g \in Grants }

\* The record at the last of some places in a log, NoEvent when there are none.
lastAt(es, places) ==
  IF places = {} THEN NoEvent ELSE es[CHOOSE i \in places : \A j \in places : j <= i]

\* --- core/rail.js ---------------------------------------------------------
railState(es, a) ==
  fold(LAMBDA s, e :
    IF e.a # a THEN s
    ELSE CASE e.kind = "decision"    -> onDecision(s, e.decision, e.amount)
           [] e.kind = "reservation" -> [onReservation(s, e.exp, e.token) EXCEPT !.amount = e.amount]
           [] e.kind = "reversal"    -> onReversal(s)
           [] e.kind = "submission"  -> onSubmission(s, e.by, e.exp)
           [] e.kind = "settlement"  -> onSettlement(s, e.outcome, e.by, e.late)
           [] OTHER                  -> s,
    NoState, es)

\* --- core/replay.js, core/agent-view.js -----------------------------------
\* What a record adds to the balance of grant g.
moved(e, g) ==
  IF e.g # g THEN 0
  ELSE IF e.kind = "reservation" THEN e.amount
  ELSE IF e.kind = "reversal" THEN -e.amount ELSE 0

spentOf(es, g) == fold(LAMBDA n, e : n + moved(e, g), 0, es)

netToday(es, g, now) ==
  fold(LAMBDA n, e : IF e.ts >= utcDayStart(now) THEN n + moved(e, g) ELSE n, 0, es)

\* The budget of the first `open` of a grant.
budgetOf(es, g) ==
  fold(LAMBDA b, e : IF e.kind = "open" /\ e.g = g /\ b = 0 THEN e.amount ELSE b, 0, es)

\* --- api/grants.js ---------------------------------------------------------
\* The last grant_meta of a grant, None when it was never minted.
grantOf(es, g) ==
  lastAt(es, {i \in DOMAIN es : es[i].kind = "grant_meta" /\ es[i].g = g}).policy

agentView(es, g, now) ==
  [ policy |-> [grantOf(es, g) EXCEPT !.budget = budgetOf(es, g)], status |-> "active",
    spent |-> spentOf(es, g), spentToday |-> clampToday(netToday(es, g, now)) ]

\* --- api/authorize.js ------------------------------------------------------
Closed == [open |-> FALSE, amount |-> 0, deadline |-> 0]

\* Mutant: a settlement does not take the row out of the sweep.
sweepRowSettled(es, g, a) ==
  fold(LAMBDA r, e :
    IF e.a # a \/ e.g # g THEN r
    ELSE CASE e.kind = "reservation" -> [open |-> TRUE, amount |-> e.amount, deadline |-> e.exp]
           [] e.kind = "reversal"    -> Closed
           [] OTHER                  -> r,
    Closed, es)

\* The row the sweep keeps for one authorization of grant g.
sweepRow(es, g, a) ==
  fold(LAMBDA r, e :
    IF e.a # a \/ e.g # g THEN r
    ELSE CASE e.kind = "reservation" -> [open |-> TRUE, amount |-> e.amount, deadline |-> e.exp]
           [] e.kind = "submission"  ->
                IF r.open /\ e.exp > r.deadline THEN [r EXCEPT !.deadline = e.exp] ELSE r
           [] e.kind \in {"reversal", "settlement"} -> Closed
           [] OTHER -> r,
    Closed, es)

\* expiredReservations(): the authorizations it reverses, and the records.
expiredReservations(es, g, now) ==
  {a \in AuthIds : LET r == sweepRow(es, g, a)
                   IN  r.open /\ r.deadline # 0 /\ now > r.deadline}

reversals(es, g, now) ==
  SetToSeq({ [NoEvent EXCEPT !.kind = "reversal", !.a = a, !.g = g, !.ts = now,
                             !.amount = sweepRow(es, g, a).amount]
             : a \in expiredReservations(es, g, now) })

\* The decision record rehydrateIdem() leaves under a key: the last of them, of a
\* grant that is known.
idemOf(es, g, k) ==
  lastAt(es, {i \in DOMAIN es : /\ es[i].kind = "decision" /\ es[i].g = g /\ es[i].key = k
                                /\ grantOf(es, g) # None})

\* The answer a repeat of the key gets: None when there is nothing to repeat.
answerOf(es, g, k) ==
  LET e == idemOf(es, g, k)
  IN  IF e = NoEvent THEN None ELSE [a |-> e.a, decision |-> e.decision]

\* --- core/approvals.js -----------------------------------------------------
\* rehydrate(): requested and not decided.
pendingOf(es) ==
  {a \in AuthIds :
    /\ \E i \in DOMAIN es : es[i].kind = "approval_request" /\ es[i].a = a
    /\ ~\E i \in DOMAIN es : es[i].kind = "approval_decision" /\ es[i].a = a}

\* The approval_request of an escalation.
requestOf(es, a) ==
  lastAt(es, {i \in DOMAIN es : es[i].kind = "approval_request" /\ es[i].a = a})

\* findDecision() of api/approvals.js.
decisionOf(es, a) ==
  lastAt(es, {i \in DOMAIN es : es[i].kind = "decision" /\ es[i].a = a})
=============================================================================
