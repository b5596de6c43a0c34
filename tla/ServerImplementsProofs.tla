----------------------- MODULE ServerImplementsProofs -----------------------
(***************************************************************************)
(* The server implements module Authority, whatever its clients, grants,   *)
(* keys and faults short of a power loss (ServerImplementsAuthority).      *)
(* A view is a log as one grant's Authority reads it, and the steps of     *)
(* Authority are relations of two views (Leads).  Of a server that is up,  *)
(* the log has the view v, and w once the batch is written; v leads to w   *)
(* at the grant's clock (Sees).  A request moves w, by one step of the     *)
(* grant at most; a drain moves v to w; a failed drain drops w; a crash    *)
(* leaves v or w in the file, and a boot reads it.                         *)
(***************************************************************************)
EXTENDS ServerImplements, ServerProofs

-----------------------------------------------------------------------------
(* The log as one grant's Authority reads it.                              *)

decidedOf(es, a) == IF decisionOf(es, a).g = theGrant THEN decisionOf(es, a) ELSE NoEvent
lifeOf(es, a) == IF decisionOf(es, a).g = theGrant THEN railState(es, a) ELSE NoState
lateOf(es) ==
  fold(LAMBDA n, e : IF e.late /\ e.kind = "reservation" THEN n + moved(e, theGrant) ELSE n, 0, es)

view(es) ==
  [ policy  |-> grantOf(es, theGrant), budget |-> budgetOf(es, theGrant),
    dec     |-> [a \in AuthIds |-> decidedOf(es, a)],
    life    |-> [a \in AuthIds |-> lifeOf(es, a)],
    pend    |-> {a \in pendingOf(es) : decisionOf(es, a).g = theGrant},
    balance |-> spentOf(es, theGrant), late |-> lateOf(es),
    today   |-> [t \in Nat |-> netToday(es, theGrant, t)] ]

View ==
  [ policy : Policies \cup {None}, budget : Nat, dec : [AuthIds -> Event], life : [AuthIds -> Lifecycle],
    pend : SUBSET AuthIds, balance : Int, late : Int, today : [Nat -> Int] ]

\* The latest that a client's clock can show.
horizon == Max({c.maxTime : c \in Clients})

-----------------------------------------------------------------------------
(* The steps of Authority as relations of two views, at the time t. *)

\* What the records of a step dated t leave of the days after.
Later(v, w, t) == \A u \in Nat : utcDayStart(u) > t => w.today[u] = v.today[u]

Minted(v, w) ==
  v.policy = None /\ \E p \in Policies : w = [v EXCEPT !.policy = p, !.budget = p.budget]

overdue(v, t) == {a \in AuthIds : v.dec[a].g = theGrant /\ expired(v.life[a], t)}
sumOver(v, S) == SumOf([a \in AuthIds |-> v.life[a].amount], S)

Swept(v, w, t) ==
  LET S == overdue(v, t) IN
  /\ v.policy # None /\ S # {}
  /\ w = [v EXCEPT !.life = [a \in AuthIds |-> IF a \in S THEN onReversal(v.life[a]) ELSE v.life[a]],
                   !.balance = v.balance - sumOver(v, S), !.today = w.today]
  /\ w.today[t] = v.today[t] - sumOver(v, S)

newLife(decision, amount, exp, hasToken) ==
  LET s == onDecision(NoState, decision, amount)
  IN  IF decision = "ALLOW" THEN onReservation(s, exp, hasToken) ELSE s
heldBy(decision, amount) == IF decision = "ALLOW" THEN amount ELSE 0

\* The decision e is new in w, with the hold it makes, and pend is pending then.
Entered(v, w, t, e, exp, hasToken, pend) ==
  /\ e.a \in AuthIds /\ e.g = theGrant /\ v.life[e.a].decision = "none"
  /\ e.decision \in {"ALLOW", "DENY", "ESCALATE"}
  /\ w = [v EXCEPT !.dec = [v.dec EXCEPT ![e.a] = e],
                   !.life = [v.life EXCEPT ![e.a] = newLife(e.decision, e.amount, exp, hasToken)],
                   !.balance = v.balance + heldBy(e.decision, e.amount), !.today = w.today,
                   !.pend = pend]
  /\ w.today[t] = v.today[t] + heldBy(e.decision, e.amount)

agentOf(v, t) ==
  [ policy |-> v.policy, status |-> "active", spent |-> v.balance, spentToday |-> clampToday(v.today[t]) ]

Authorized(v, w, t) ==
  /\ v.policy # None /\ overdue(v, t) = {}
  /\ \E e \in Event, currency \in Currencies, category \in Categories, later \in t..horizon :
       LET verdict == decide(agentOf(v, t), later, e.amount, currency, category)
       IN  /\ e.key \in Keys /\ e.amount \in Amounts /\ e.parent = None
           /\ \A a \in AuthIds : v.dec[a].g = theGrant => v.dec[a].key # e.key
           /\ e.decision = IF verdict # "APPROVED" THEN "DENY"
                           ELSE IF needsApproval(v.policy, e.amount) THEN "ESCALATE" ELSE "ALLOW"
           /\ e.reason = IF e.decision = "ESCALATE" THEN "APPROVAL_REQUIRED" ELSE verdict
           /\ Entered(v, w, t, e, t + TTL, TRUE,
                      IF e.decision = "ESCALATE" THEN v.pend \cup {e.a} ELSE v.pend)

Resolved(v, w, t) ==
  \E e \in Event, a \in v.pend :
    LET verdict == decide(agentOf(v, t), t, e.amount, v.policy.currency, "")
    IN  /\ e.key = None /\ e.parent = a /\ e.amount = v.life[a].amount /\ v.dec[a].g = theGrant
        /\ Entered(v, w, t, e, t + ApprovalTTL, FALSE, v.pend \ {a})
        /\ \/ e.decision = "DENY" /\ e.reason = "DENIED_BY_APPROVER"
           \/ /\ e.decision = IF verdict = "APPROVED" THEN "ALLOW" ELSE "DENY"
              /\ e.reason = IF verdict = "APPROVED" THEN "APPROVED_BY_HUMAN" ELSE verdict

\* What a report makes of a lifecycle, of the balances and of the late holds.
reported(s, outcome, by, t) ==
  CASE outcome = "submitted" -> onSubmission(s, by, t + GRACE)
    [] outcome = "failed"    -> onSettlement(onReversal(s), "failed", by, FALSE)
    [] outcome = "settled"   -> onSettlement(onReservation(s, 0, FALSE), "settled", by, ~s.reserved)
gives(s, outcome) == IF outcome = "failed" /\ s.reserved THEN s.amount ELSE 0
takes(s, outcome) == IF outcome = "settled" /\ ~s.reserved THEN s.amount ELSE 0

Reported(v, w, t) ==
  \E a \in AuthIds, by \in Reporters, outcome \in {"submitted", "failed", "settled"} :
    LET s == v.life[a]
    IN  /\ v.dec[a].g = theGrant
        /\ s.decision = "ALLOW" /\ authenticates(s, by) /\ by \in MAY_REPORT(outcome) /\ ~terminal(s)
        /\ w = [v EXCEPT !.life = [v.life EXCEPT ![a] = reported(s, outcome, by, t)],
                         !.balance = v.balance - gives(s, outcome) + takes(s, outcome),
                         !.today = w.today, !.late = v.late + takes(s, outcome)]
        /\ w.today[t] = v.today[t] - gives(s, outcome) + takes(s, outcome)

Leads(v, w, t) ==
  /\ w \in View /\ Later(v, w, t)
  /\ \/ w = v \/ Minted(v, w) \/ Swept(v, w, t) \/ Authorized(v, w, t)
     \/ Resolved(v, w, t) \/ Reported(v, w, t)

\* The log says no amount twice differently, of an authorization or of the
\* budget, and dates no money later than t.
Kept(v, t) ==
  /\ \A a \in AuthIds : v.dec[a].g = theGrant => v.life[a].amount = v.dec[a].amount
  /\ v.budget = IF v.policy = None THEN 0 ELSE v.policy.budget
  /\ \A u \in Nat : utcDayStart(u) > t => v.today[u] = 0
  /\ \A a \in AuthIds : v.dec[a].g # theGrant => v.dec[a] = NoEvent /\ v.life[a] = NoState

-----------------------------------------------------------------------------
(* Authority's variables are functions of the view and of the grant's clock. *)

reqOf(e) == [grant |-> e.g, key |-> e.key, parent |-> e.parent, reason |-> e.reason]
alone(x) == [g \in {theGrant} |-> x]

\* v and t are what Authority's variables are now.
Shows(v, t) ==
  /\ lastNow[theGrant] = t
  /\ only(logPolicy) = alone(v.policy)
  /\ only(logSpent) = alone(v.balance)
  /\ only(logToday) = alone(v.today[t])
  /\ only(logLate) = alone(v.late)
  /\ {a \in pendingOf(log) : mine(a)} = v.pend
  /\ [a \in AuthIds |-> IF mine(a) THEN logLife[a] ELSE NoState] = v.life
  /\ [a \in AuthIds |-> IF mine(a) THEN logReq[a] ELSE nobody] = [a \in AuthIds |-> reqOf(v.dec[a])]

\* The grant that is seen is one of the grants.
LEMMA TheGrant == theGrant \in Grants
BY ImplementsAssumption DEF theGrant

\* Authority's variables are the view of the log, at the grant's clock.
LEMMA ShowsNow ==
  ASSUME TypeInv, NEW v, v = view(log)
  PROVE  Shows(v, lastNow[theGrant])
<1>1. lastNow[theGrant] \in Nat
  BY TheGrant DEF TypeInv, TypeOK
<1>2. /\ v.policy = logPolicy[theGrant] /\ v.balance = logSpent[theGrant]
      /\ v.today[lastNow[theGrant]] = logToday[theGrant] /\ v.late = logLate[theGrant]
  BY <1>1, TheGrant DEF view, logPolicy, logSpent, logToday, logLate, lateOf
<1>3. {a \in pendingOf(log) : mine(a)} = v.pend
  BY DEF view, mine
<1>4. [a \in AuthIds |-> IF mine(a) THEN logLife[a] ELSE NoState] = v.life
  BY DEF view, mine, logLife, lifeOf
<1>5. [a \in AuthIds |-> IF mine(a) THEN logReq[a] ELSE nobody] = [a \in AuthIds |-> reqOf(v.dec[a])]
  <2>1. nobody = reqOf(NoEvent)
    BY DEF nobody, reqOf, NoEvent
  <2> SUFFICES ASSUME NEW a \in AuthIds
               PROVE  (IF mine(a) THEN logReq[a] ELSE nobody) = reqOf(v.dec[a])
    OBVIOUS
  <2>2. v.dec[a] = IF mine(a) THEN decisionOf(log, a) ELSE NoEvent
    BY DEF view, mine, decidedOf
  <2>3. logReq[a] = reqOf(decisionOf(log, a))
    BY DEF logReq, reqOf
  <2> QED
    BY <2>1, <2>2, <2>3
<1> QED
  BY <1>2, <1>3, <1>4, <1>5, Zenon DEF Shows, only, alone

\* A mint of the view is CreateGrant.
LEMMA MapsMint ==
  ASSUME NEW v, NEW w, NEW t, Shows(v, t), Shows(w, t)', v \in View, w \in View, Minted(v, w), w.today = v.today
  PROVE  Ledger!Next
<1>1. PICK p \in Policies : w = [v EXCEPT !.policy = p, !.budget = p.budget]
  BY DEF Minted
<1>2. /\ w.policy = p /\ w.balance = v.balance /\ w.late = v.late /\ w.today = v.today
      /\ w.life = v.life /\ w.dec = v.dec /\ w.pend = v.pend
  BY <1>1 DEF View
<1>3. Ledger!CreateGrant(theGrant, p)
  BY <1>2 DEF Shows, Ledger!CreateGrant, alone, Minted
<1> QED
  BY <1>3 DEF Ledger!Next

\* Views that are the same are a stutter.
LEMMA MapsSame ==
  ASSUME NEW v, NEW t, Shows(v, t), Shows(v, t)'
  PROVE  UNCHANGED Ledger!vars
BY DEF Shows, Ledger!vars

\* A function of the one grant is its value.
LEMMA Alone ==
  ASSUME NEW x
  PROVE  alone(x)[theGrant] = x /\ \A y : [alone(x) EXCEPT ![theGrant] = y] = alone(y)
BY DEF alone

\* Money is the same module in both.
LEMMA LedgerSum ==
  ASSUME NEW f, NEW S
  PROVE  Ledger!SumOf(f, S) = SumOf(f, S)
<1>1. Ledger!Units(f, S) = Units(f, S)
  BY DEF Ledger!Units, Units
<1>2. \A T : Ledger!Cardinality(T) = Cardinality(T)
  BY DEF Ledger!Cardinality, Cardinality
<1> QED
  BY <1>1, <1>2, Zenon DEF Ledger!SumOf, SumOf

\* So is the deadline of a hold.
LEMMA LedgerExpired ==
  ASSUME NEW s, NEW t
  PROVE  Ledger!expired(s, t) = expired(s, t)
BY DEF Ledger!expired, expired, Ledger!sweepable, sweepable, Ledger!settled, settled, Ledger!failed, failed

\* The holds that Authority sweeps are those overdue in the view.
LEMMA MapsOverdue ==
  ASSUME NEW v \in View, NEW t, Shows(v, t)
  PROVE  /\ Ledger!expiredReservations(theGrant) = overdue(v, t)
         /\ \A S : Ledger!Total(S) = sumOver(v, S)
<1>1. \A a \in AuthIds : reqOf(v.dec[a]).grant = v.dec[a].g
  BY DEF reqOf
<1>2. Ledger!expiredReservations(theGrant) = overdue(v, t)
  BY <1>1, LedgerExpired DEF Ledger!expiredReservations, overdue, Shows
<1>3. ASSUME NEW S PROVE Ledger!Total(S) = sumOver(v, S)
  BY LedgerSum DEF Ledger!Total, Ledger!amountOf, sumOver, Shows
<1> QED
  BY <1>2, <1>3

\* A sweep of the view is AuthorizeFails, the sweep of a request that fails after it.
LEMMA MapsSweep ==
  ASSUME NEW v \in View, NEW w \in View, NEW t, Shows(v, t), Shows(w, t)', Swept(v, w, t)
  PROVE  Ledger!Next
<1> DEFINE S == overdue(v, t)
           life == [a \in AuthIds |-> IF a \in S THEN onReversal(v.life[a]) ELSE v.life[a]]
<1>1. /\ w = [v EXCEPT !.life = life, !.balance = v.balance - sumOver(v, S), !.today = w.today]
      /\ w.today[t] = v.today[t] - sumOver(v, S) /\ v.policy # None /\ S # {}
  BY DEF Swept
<1> HIDE DEF S, life
<1>2. /\ w.policy = v.policy /\ w.balance = v.balance - sumOver(v, S) /\ w.late = v.late
      /\ w.life = life /\ w.dec = v.dec /\ w.pend = v.pend
  BY <1>1 DEF View
<1>3. Ledger!expiredReservations(theGrant) = S /\ Ledger!Total(S) = sumOver(v, S)
  BY MapsOverdue DEF S
<1>4. Ledger!swept(S) = life
  BY DEF Ledger!swept, life, Shows, Ledger!onReversal, onReversal
<1>5. Ledger!AuthorizeFails(theGrant)
  <2>1. lastNow[theGrant]' = lastNow[theGrant]
    BY DEF Shows
  <2>2. /\ alone(w.balance) = [alone(v.balance) EXCEPT ![theGrant] = @ - sumOver(v, S)]
        /\ alone(w.today[t]) = [alone(v.today[t]) EXCEPT ![theGrant] = @ - sumOver(v, S)]
        /\ alone(v.policy)[theGrant] # None
    BY <1>1, <1>2, Alone
  <2> QED
    BY <1>1, <1>2, <1>3, <1>4, <2>1, <2>2 DEF Shows, Ledger!AuthorizeFails
<1> QED
  BY <1>5 DEF Ledger!Next, Ledger!AuthorizeStep

\* The lifecycle, the rules and the ids are the same definitions in both.
LEMMA LedgerDecided ==
  ASSUME NEW decision, NEW amount, NEW exp, NEW hasToken
  PROVE  /\ Ledger!decided(decision, amount, exp, hasToken) = newLife(decision, amount, exp, hasToken)
         /\ Ledger!reservedBy(decision, amount) = heldBy(decision, amount)
BY DEF Ledger!decided, newLife, Ledger!reservedBy, heldBy, Ledger!onDecision, onDecision,
       Ledger!onReservation, onReservation, Ledger!NoState, NoState

\* The rules of the policy are the same in both.
LEMMA LedgerDecide ==
  ASSUME NEW a, NEW now, NEW amount, NEW currency, NEW category
  PROVE  /\ Ledger!decide(a, now, amount, currency, category) = decide(a, now, amount, currency, category)
         /\ \A p : Ledger!needsApproval(p, amount) = needsApproval(p, amount)
<1>1. Ledger!evaluate(a, now, amount, category) = evaluate(a, now, amount, category)
  BY DEF Ledger!evaluate, evaluate
<1>2. \A p : Ledger!needsApproval(p, amount) = needsApproval(p, amount)
  BY DEF Ledger!needsApproval, needsApproval
<1> QED
  BY <1>1, <1>2, Zenon DEF Ledger!decide, decide

\* What the policy is asked about is the same in both.
LEMMA MapsAgent ==
  ASSUME NEW v \in View, NEW t, Shows(v, t)
  PROVE  Ledger!agentView(theGrant, v.balance, v.today[t]) = agentOf(v, t)
BY DEF Ledger!agentView, agentOf, Shows, alone, Ledger!clampToday, clampToday

\* What Authority makes of a decision entered in the view.
EnteredThere(v, w, t, e, exp, hasToken, P) ==
  /\ w.life = [v.life EXCEPT ![e.a] = Ledger!decided(e.decision, e.amount, exp, hasToken)]
  /\ w.policy = v.policy /\ w.late = v.late /\ w.pend = P
  /\ [a \in AuthIds |-> reqOf(w.dec[a])] = [[a \in AuthIds |-> reqOf(v.dec[a])] EXCEPT ![e.a] = reqOf(e)]
  /\ w.balance = v.balance + Ledger!reservedBy(e.decision, e.amount)
  /\ w.today[t] = v.today[t] + Ledger!reservedBy(e.decision, e.amount)
  /\ e.a \in AuthIds /\ v.life[e.a].decision = "none"

\* A decision entered in the view is one recorded by Authority.
LEMMA EnteredShows ==
  ASSUME NEW v \in View, NEW w \in View, NEW t, NEW e, NEW exp, NEW hasToken, NEW P, e.amount \in Nat,
         Entered(v, w, t, e, exp, hasToken, P)
  PROVE  EnteredThere(v, w, t, e, exp, hasToken, P)
<1> DEFINE life == [v.life EXCEPT ![e.a] = newLife(e.decision, e.amount, exp, hasToken)]
           dec == [v.dec EXCEPT ![e.a] = e]
           balance == v.balance + heldBy(e.decision, e.amount)
<1>1. /\ w = [v EXCEPT !.dec = dec, !.life = life, !.balance = balance, !.today = w.today, !.pend = P]
      /\ w.today[t] = v.today[t] + heldBy(e.decision, e.amount)
      /\ e.a \in AuthIds /\ v.life[e.a].decision = "none"
  BY DEF Entered
<1> HIDE DEF life, dec, balance
<1>2. /\ w.policy = v.policy /\ w.balance = balance /\ w.late = v.late
      /\ w.life = life /\ w.dec = dec /\ w.pend = P
  BY <1>1 DEF View
<1>3. [a \in AuthIds |-> reqOf(w.dec[a])] = [[a \in AuthIds |-> reqOf(v.dec[a])] EXCEPT ![e.a] = reqOf(e)]
  <2>1. v.dec \in [AuthIds -> Event]
    BY DEF View
  <2>2. \A a \in AuthIds : dec[a] = IF a = e.a THEN e ELSE v.dec[a]
    BY <1>1, <2>1 DEF dec
  <2> QED
    BY <1>1, <1>2, <2>2
<1> QED
  BY <1>1, <1>2, <1>3, LedgerDecided DEF EnteredThere, life, balance

\* A decision of the view is Authorize.
LEMMA MapsAuthorize ==
  ASSUME NEW v \in View, NEW w \in View, NEW t, Shows(v, t), Shows(w, t)', t \in Nat, Authorized(v, w, t)
  PROVE  Ledger!Next
<1>1. PICK e \in Event, currency \in Currencies, category \in Categories, later \in t..horizon :
       LET verdict == decide(agentOf(v, t), later, e.amount, currency, category)
       IN  /\ e.key \in Keys /\ e.amount \in Amounts /\ e.parent = None
           /\ \A a \in AuthIds : v.dec[a].g = theGrant => v.dec[a].key # e.key
           /\ e.decision = IF verdict # "APPROVED" THEN "DENY"
                           ELSE IF needsApproval(v.policy, e.amount) THEN "ESCALATE" ELSE "ALLOW"
           /\ e.reason = IF e.decision = "ESCALATE" THEN "APPROVAL_REQUIRED" ELSE verdict
           /\ Entered(v, w, t, e, t + TTL, TRUE,
                      IF e.decision = "ESCALATE" THEN v.pend \cup {e.a} ELSE v.pend)
  BY DEF Authorized
<1> DEFINE verdict == decide(agentOf(v, t), later, e.amount, currency, category)
           P == IF e.decision = "ESCALATE" THEN v.pend \cup {e.a} ELSE v.pend
           S == Ledger!expiredReservations(theGrant)
           sp == only(logSpent)[theGrant] - Ledger!Total(S)
           td == only(logToday)[theGrant] - Ledger!Total(S)
           v2 == Ledger!decide(Ledger!agentView(theGrant, sp, td), later, e.amount, currency, category)
           held == Ledger!reservedBy(e.decision, e.amount)
<1>2. /\ e.amount \in Nat /\ v.policy # None /\ overdue(v, t) = {} /\ e.g = theGrant
  <2>1. e.amount \in Amounts
    BY <1>1
  <2>2. e.amount \in Nat
    BY <2>1, ServerAssumption, MoneyAssumption
  <2> QED
    BY <1>1, <2>2 DEF Authorized, Entered
<1>3. S = {} /\ Ledger!Total({}) = 0
  BY <1>2, MapsOverdue, SumEmpty DEF sumOver
<1>4. only(logSpent) = alone(v.balance) /\ only(logToday) = alone(v.today[t]) /\ only(logPolicy) = alone(v.policy)
  BY DEF Shows
<1>5. sp = v.balance /\ td = v.today[t]
  <2>1. v.balance \in Int /\ v.today[t] \in Int
    BY DEF View
  <2> QED
    BY <1>3, <1>4, <2>1, Alone
<1>6. v2 = verdict
  BY <1>5, MapsAgent, LedgerDecide
<1>7. Ledger!swept(S) = v.life
  <2>1. v.life \in [AuthIds -> Lifecycle]
    BY DEF View
  <2>2. Ledger!swept({}) = [a \in AuthIds |-> v.life[a]]
    BY DEF Ledger!swept, Shows
  <2> QED
    BY <1>3, <2>1, <2>2
<1>8. ~Ledger!Seen(theGrant, e.key)
  <2>1. \A a \in AuthIds : reqOf(v.dec[a]).grant = v.dec[a].g /\ reqOf(v.dec[a]).key = v.dec[a].key
    BY DEF reqOf
  <2> QED
    BY <1>1, <2>1 DEF Ledger!Seen, Shows
<1> PICK exp : exp = t + TTL
  OBVIOUS
<1> PICK yes : yes = TRUE
  OBVIOUS
<1>13. Entered(v, w, t, e, exp, yes, P)
  BY <1>1
<1> HIDE DEF verdict, P, S, sp, td, v2
<1>17. EnteredThere(v, w, t, e, exp, yes, P)
  BY <1>2, <1>13, EnteredShows
<1>9. /\ w.life = [v.life EXCEPT ![e.a] = Ledger!decided(e.decision, e.amount, t + TTL, TRUE)]
      /\ w.policy = v.policy /\ w.late = v.late /\ w.pend = P
      /\ [a \in AuthIds |-> reqOf(w.dec[a])] = [[a \in AuthIds |-> reqOf(v.dec[a])] EXCEPT ![e.a] = reqOf(e)]
      /\ w.balance = v.balance + held /\ w.today[t] = v.today[t] + held
      /\ e.a \in AuthIds /\ v.life[e.a].decision = "none"
  BY <1>17 DEF EnteredThere
<1> HIDE DEF held
<1>16. e.a \in Ledger!Fresh /\ lastNow[theGrant] = t /\ lastNow[theGrant]' = t
  BY <1>9 DEF Ledger!Fresh, Shows
<1>10. /\ alone(w.balance) = [only(logSpent) EXCEPT ![theGrant] = sp + held]
       /\ alone(w.today[t]) = [only(logToday) EXCEPT ![theGrant] = td + held]
       /\ only(logPolicy)[theGrant] = v.policy
  BY <1>4, <1>5, <1>9, Alone
<1>11. reqOf(e) = [grant |-> theGrant, key |-> e.key, parent |-> None, reason |-> e.reason]
  BY <1>1, <1>2 DEF reqOf
<1> DEFINE decision == IF v2 # "APPROVED" THEN "DENY"
                       ELSE IF Ledger!needsApproval(only(logPolicy)[theGrant], e.amount) THEN "ESCALATE" ELSE "ALLOW"
           reason == IF decision = "ESCALATE" THEN "APPROVAL_REQUIRED" ELSE v2
<1>12. e.decision = decision /\ e.reason = reason
  BY <1>1, <1>6, <1>10, LedgerDecide DEF verdict
<1> HIDE DEF decision, reason
<1>14. \E a \in Ledger!Fresh :
         /\ [b \in AuthIds |-> IF mine(b) THEN logLife[b] ELSE NoState]' =
              [Ledger!swept(S) EXCEPT ![a] = Ledger!decided(decision, e.amount, lastNow[theGrant] + TTL, TRUE)]
         /\ [b \in AuthIds |-> IF mine(b) THEN logReq[b] ELSE nobody]' =
              [[b \in AuthIds |-> IF mine(b) THEN logReq[b] ELSE nobody] EXCEPT ![a] =
                 [grant |-> theGrant, key |-> e.key, parent |-> None, reason |-> reason]]
         /\ only(logSpent)' =
              [only(logSpent) EXCEPT ![theGrant] = sp + Ledger!reservedBy(decision, e.amount)]
         /\ only(logToday)' =
              [only(logToday) EXCEPT ![theGrant] = td + Ledger!reservedBy(decision, e.amount)]
         /\ {b \in pendingOf(log) : mine(b)}' =
              IF decision = "ESCALATE" THEN {b \in pendingOf(log) : mine(b)} \cup {a}
                                       ELSE {b \in pendingOf(log) : mine(b)}
  <2> e.a \in Ledger!Fresh
    BY <1>16
  <2> WITNESS e.a \in Ledger!Fresh
  <2>1. P = IF decision = "ESCALATE" THEN v.pend \cup {e.a} ELSE v.pend
    BY <1>12 DEF P
  <2> QED
    BY <1>7, <1>9, <1>10, <1>11, <1>12, <1>16, <2>1 DEF Shows, held
<1>15. Ledger!Authorize(theGrant, e.key, e.amount, currency, category, later)
  <2>1. only(logPolicy)[theGrant] # None
    BY <1>2, <1>10
  <2>2. UNCHANGED <<lastNow[theGrant], only(logPolicy), only(logLate)>>
    BY <1>9, <1>16 DEF Shows
  <2> QED
    BY <1>8, <1>14, <2>1, <2>2 DEF Ledger!Authorize, S, sp, td, v2, decision, reason
<1> QED
  BY <1>1, <1>15 DEF Ledger!Next, Ledger!AuthorizeStep, horizon, Shows

\* A resolution of the view is Deny or Approve.
LEMMA MapsResolve ==
  ASSUME NEW v \in View, NEW w \in View, NEW t, Shows(v, t), Shows(w, t)', t \in Nat,
         t \in t..horizon, Resolved(v, w, t)
  PROVE  Ledger!Next
<1>1. PICK e \in Event, a \in v.pend :
         LET verdict == decide(agentOf(v, t), t, e.amount, v.policy.currency, "")
         IN  /\ e.key = None /\ e.parent = a /\ e.amount = v.life[a].amount /\ v.dec[a].g = theGrant
             /\ Entered(v, w, t, e, t + ApprovalTTL, FALSE, v.pend \ {a})
             /\ \/ e.decision = "DENY" /\ e.reason = "DENIED_BY_APPROVER"
                \/ /\ e.decision = IF verdict = "APPROVED" THEN "ALLOW" ELSE "DENY"
                   /\ e.reason = IF verdict = "APPROVED" THEN "APPROVED_BY_HUMAN" ELSE verdict
  BY DEF Resolved
<1> DEFINE verdict == decide(agentOf(v, t), t, e.amount, v.policy.currency, "")
           P == v.pend \ {a}
           lifes == [b \in AuthIds |-> IF mine(b) THEN logLife[b] ELSE NoState]
           reqs == [b \in AuthIds |-> IF mine(b) THEN logReq[b] ELSE nobody]
           held == Ledger!reservedBy(e.decision, e.amount)
<1>2. e.amount \in Nat /\ e.g = theGrant /\ a \in AuthIds
  BY <1>1 DEF Event, Entered, View
<1>3. /\ only(logSpent) = alone(v.balance) /\ only(logToday) = alone(v.today[t])
      /\ only(logPolicy) = alone(v.policy) /\ lifes = v.life
      /\ reqs = [b \in AuthIds |-> reqOf(v.dec[b])] /\ {b \in pendingOf(log) : mine(b)} = v.pend
      /\ lastNow[theGrant] = t /\ lastNow[theGrant]' = t
  BY DEF Shows
<1>4. reqs[a].grant = theGrant /\ lifes[a].amount = e.amount
  <2>1. reqOf(v.dec[a]).grant = v.dec[a].g
    BY DEF reqOf
  <2> HIDE DEF lifes, reqs
  <2>2. reqs[a] = reqOf(v.dec[a])
    BY <1>2, <1>3
  <2> QED
    BY <1>1, <1>3, <2>1, <2>2
<1> PICK exp : exp = t + ApprovalTTL
  OBVIOUS
<1> PICK no : no = FALSE
  OBVIOUS
<1>5. Entered(v, w, t, e, exp, no, P)
  BY <1>1
<1> HIDE DEF P
<1>6. EnteredThere(v, w, t, e, exp, no, P)
  BY <1>2, <1>5, EnteredShows
<1>7. /\ w.life = [v.life EXCEPT ![e.a] = Ledger!decided(e.decision, e.amount, t + ApprovalTTL, FALSE)]
      /\ w.policy = v.policy /\ w.late = v.late /\ w.pend = P
      /\ [b \in AuthIds |-> reqOf(w.dec[b])] = [[b \in AuthIds |-> reqOf(v.dec[b])] EXCEPT ![e.a] = reqOf(e)]
      /\ w.balance = v.balance + held /\ w.today[t] = v.today[t] + held
      /\ e.a \in AuthIds /\ v.life[e.a].decision = "none"
  BY <1>6 DEF EnteredThere
<1> HIDE DEF held
<1>8. e.a \in Ledger!Fresh
  BY <1>3, <1>7 DEF Ledger!Fresh
<1>9. /\ alone(w.balance) = [only(logSpent) EXCEPT ![theGrant] = @ + held]
      /\ alone(w.today[t]) = [only(logToday) EXCEPT ![theGrant] = @ + held]
      /\ only(logPolicy)[theGrant] = v.policy
      /\ only(logSpent)[theGrant] = v.balance /\ only(logToday)[theGrant] = v.today[t]
  BY <1>3, <1>7, Alone
<1>10. reqOf(e) = [grant |-> theGrant, key |-> None, parent |-> a, reason |-> e.reason]
  BY <1>1, <1>2 DEF reqOf
<1>11. /\ lifes' = w.life /\ reqs' = [b \in AuthIds |-> reqOf(w.dec[b])]
       /\ only(logSpent)' = alone(w.balance) /\ only(logToday)' = alone(w.today[t])
       /\ {b \in pendingOf(log) : mine(b)}' = w.pend
       /\ UNCHANGED <<lastNow[theGrant], only(logPolicy), only(logLate)>>
  BY <1>3, <1>7 DEF Shows
<1> HIDE DEF lifes, reqs
<1>12. \E b \in Ledger!Fresh :
        /\ lifes' = [lifes EXCEPT ![b] =
             Ledger!decided(e.decision, lifes[a].amount, lastNow[theGrant] + ApprovalTTL, FALSE)]
        /\ reqs' = [reqs EXCEPT ![b] =
             [grant |-> reqs[a].grant, key |-> None, parent |-> a, reason |-> e.reason]]
        /\ only(logSpent)' = [only(logSpent) EXCEPT ![reqs[a].grant] =
             @ + Ledger!reservedBy(e.decision, lifes[a].amount)]
        /\ only(logToday)' = [only(logToday) EXCEPT ![reqs[a].grant] =
             @ + Ledger!reservedBy(e.decision, lifes[a].amount)]
        /\ {c \in pendingOf(log) : mine(c)}' = {c \in pendingOf(log) : mine(c)} \ {a}
        /\ UNCHANGED <<lastNow[theGrant], only(logPolicy), only(logLate)>>
  <2> WITNESS e.a \in Ledger!Fresh
  <2>1. w.pend = {c \in pendingOf(log) : mine(c)} \ {a}
    BY <1>3, <1>7 DEF P
  <2> QED
    BY <1>3, <1>4, <1>7, <1>9, <1>10, <1>11, <2>1 DEF held
<1>13. Ledger!agentView(theGrant, v.balance, v.today[t]) = agentOf(v, t)
  BY MapsAgent
<1>14. CASE e.decision = "DENY" /\ e.reason = "DENIED_BY_APPROVER"
  <2>1. a \in {b \in pendingOf(log) : mine(b)}
    BY <1>1, <1>3
  <2>2. Ledger!Deny(a)
    BY <1>12, <1>14, <2>1 DEF Ledger!Deny, Ledger!Resolve, lifes, reqs
  <2> QED
    BY <1>2, <2>2 DEF Ledger!Next
<1>15. CASE /\ e.decision = IF verdict = "APPROVED" THEN "ALLOW" ELSE "DENY"
            /\ e.reason = IF verdict = "APPROVED" THEN "APPROVED_BY_HUMAN" ELSE verdict
  <2>1. verdict = Ledger!decide(Ledger!agentView(reqs[a].grant, only(logSpent)[reqs[a].grant],
                                  only(logToday)[reqs[a].grant]), t, lifes[a].amount,
                                only(logPolicy)[reqs[a].grant].currency, "")
    <3>1. verdict = Ledger!decide(agentOf(v, t), t, e.amount, v.policy.currency, "")
      BY LedgerDecide, ZenonT(40)
    <3> HIDE DEF verdict
    <3> QED
      BY <1>4, <1>9, <1>13, <3>1
  <2> HIDE DEF verdict
  <2>2. a \in {b \in pendingOf(log) : mine(b)}
    BY <1>1, <1>3
  <2>3. Ledger!Approve(a, t)
    <3>1. CASE verdict = "APPROVED"
      BY <1>12, <1>15, <2>1, <2>2, <3>1, ZenonT(40) DEF Ledger!Approve, Ledger!Resolve, lifes, reqs
    <3>2. CASE verdict # "APPROVED"
      BY <1>12, <1>15, <2>1, <2>2, <3>2, ZenonT(40) DEF Ledger!Approve, Ledger!Resolve, lifes, reqs
    <3> QED
      BY <3>1, <3>2
  <2>4. t \in lastNow[theGrant]..Max({c.maxTime : c \in Clients})
    BY <1>3 DEF horizon
  <2> QED
    BY <1>2, <2>3, <2>4 DEF Ledger!Next
<1> QED
  BY <1>1, <1>14, <1>15

\* What a report may do and does to a lifecycle is the same in both.
LEMMA LedgerLife ==
  ASSUME NEW s, NEW by, NEW outcome, NEW n, NEW late
  PROVE  /\ Ledger!authenticates(s, by) = authenticates(s, by)
         /\ Ledger!MAY_REPORT(outcome) = MAY_REPORT(outcome)
         /\ Ledger!terminal(s) = terminal(s) /\ Ledger!Reporters = Reporters
         /\ Ledger!onSubmission(s, by, n) = onSubmission(s, by, n)
         /\ Ledger!onSettlement(s, outcome, by, late) = onSettlement(s, outcome, by, late)
         /\ Ledger!onReversal(s) = onReversal(s)
         /\ Ledger!onReservation(s, n, late) = onReservation(s, n, late)
BY DEF Ledger!authenticates, authenticates, Ledger!MAY_REPORT, MAY_REPORT, Ledger!terminal, terminal,
       Ledger!settled, settled, Ledger!failed, failed, Ledger!Reporters, Reporters,
       Ledger!onSubmission, onSubmission, Ledger!onSettlement, onSettlement,
       Ledger!onReversal, onReversal, Ledger!onReservation, onReservation

\* A report of the view is ReportStep.
LEMMA MapsReport ==
  ASSUME NEW v \in View, NEW w \in View, NEW t, Shows(v, t), Shows(w, t)', t \in Nat, Reported(v, w, t)
  PROVE  Ledger!Next
<1>1. PICK a \in AuthIds, by \in Reporters, outcome \in {"submitted", "failed", "settled"} :
        LET s == v.life[a]
        IN  /\ v.dec[a].g = theGrant
            /\ s.decision = "ALLOW" /\ authenticates(s, by) /\ by \in MAY_REPORT(outcome) /\ ~terminal(s)
            /\ w = [v EXCEPT !.life = [v.life EXCEPT ![a] = reported(s, outcome, by, t)],
                             !.balance = v.balance - gives(s, outcome) + takes(s, outcome),
                             !.today = w.today, !.late = v.late + takes(s, outcome)]
            /\ w.today[t] = v.today[t] - gives(s, outcome) + takes(s, outcome)
  BY DEF Reported
<1> DEFINE lifes == [b \in AuthIds |-> IF mine(b) THEN logLife[b] ELSE NoState]
           reqs == [b \in AuthIds |-> IF mine(b) THEN logReq[b] ELSE nobody]
<1> PICK s : s = v.life[a]
  OBVIOUS
<1> PICK life2 : life2 = [v.life EXCEPT ![a] = reported(s, outcome, by, t)]
  OBVIOUS
<1> PICK give : give = gives(s, outcome)
  OBVIOUS
<1> PICK take : take = takes(s, outcome)
  OBVIOUS
<1>2. /\ w.policy = v.policy /\ w.balance = v.balance - give + take /\ w.late = v.late + take
      /\ w.life = life2 /\ w.dec = v.dec /\ w.pend = v.pend
      /\ w.today[t] = v.today[t] - give + take
      /\ v.balance \in Int /\ v.late \in Int /\ v.today[t] \in Int /\ s \in Lifecycle
  BY <1>1 DEF View
<1>3. /\ only(logSpent) = alone(v.balance) /\ only(logToday) = alone(v.today[t])
      /\ only(logPolicy) = alone(v.policy) /\ lifes = v.life /\ only(logLate) = alone(v.late)
      /\ reqs = [b \in AuthIds |-> reqOf(v.dec[b])] /\ {b \in pendingOf(log) : mine(b)} = v.pend
      /\ lastNow[theGrant] = t
  BY DEF Shows
<1>4. /\ lifes' = life2 /\ reqs' = reqs
      /\ only(logSpent)' = alone(v.balance - give + take) /\ only(logToday)' = alone(v.today[t] - give + take)
      /\ only(logLate)' = alone(v.late + take)
      /\ UNCHANGED <<lastNow[theGrant], only(logPolicy), {b \in pendingOf(log) : mine(b)}>>
  BY <1>2, <1>3 DEF Shows
<1>5. reqs[a].grant = theGrant /\ lifes[a] = s
  <2>1. reqOf(v.dec[a]).grant = v.dec[a].g
    BY DEF reqOf
  <2> HIDE DEF lifes, reqs
  <2>2. reqs[a] = reqOf(v.dec[a])
    BY <1>3
  <2> QED
    BY <1>1, <1>3, <2>1, <2>2
<1>6. \A x \in Int : x - 0 + 0 = x /\ x + 0 = x
  OBVIOUS
<1>7. s.decision = "ALLOW" /\ Ledger!authenticates(s, by) /\ by \in Ledger!MAY_REPORT(outcome) /\ ~Ledger!terminal(s)
  BY <1>1, LedgerLife
<1> HIDE DEF lifes, reqs
<1>8. Ledger!mayReport(a, by, outcome)
  BY <1>5, <1>7 DEF Ledger!mayReport, lifes, reqs
<1>9. /\ alone(v.balance - give + take) = [only(logSpent) EXCEPT ![reqs[a].grant] = only(logSpent)[reqs[a].grant] - give + take]
      /\ alone(v.today[t] - give + take) = [only(logToday) EXCEPT ![reqs[a].grant] = only(logToday)[reqs[a].grant] - give + take]
      /\ alone(v.late + take) = [only(logLate) EXCEPT ![reqs[a].grant] = only(logLate)[reqs[a].grant] + take]
      /\ only(logSpent)[theGrant] = v.balance /\ only(logToday)[theGrant] = v.today[t] /\ only(logLate)[theGrant] = v.late
  BY <1>3, <1>5, Alone
<1>10. life2 = [lifes EXCEPT ![a] = reported(lifes[a], outcome, by, lastNow[theGrant])]
  BY <1>3, <1>5
<1>11. CASE outcome = "submitted"
  <2>1. give = 0 /\ take = 0
    BY <1>11 DEF gives, takes
  <2>2. life2 = [lifes EXCEPT ![a] = Ledger!onSubmission(lifes[a], by, lastNow[theGrant] + GRACE)]
    <3>1. reported(s, outcome, by, t) = Ledger!onSubmission(s, by, t + GRACE)
      BY <1>11 DEF reported, Ledger!onSubmission, onSubmission
    <3> QED
      BY <1>3, <1>5, <1>10, <3>1
  <2>3. /\ only(logSpent)' = only(logSpent) /\ only(logToday)' = only(logToday)
        /\ only(logLate)' = only(logLate)
    BY <1>2, <1>3, <1>4, <1>6, <2>1
  <2>4. Ledger!ReportSubmitted(a, by)
    BY <1>4, <1>8, <1>11, <2>2, <2>3 DEF Ledger!ReportSubmitted, lifes, reqs
  <2> QED
    BY <2>4, LedgerLife DEF Ledger!Next, Ledger!ReportStep
<1>12. CASE outcome = "failed"
  <2>1. give = Ledger!refund(lifes[a]) /\ take = 0
    BY <1>5, <1>12 DEF gives, takes, Ledger!refund
  <2>2. life2 = [lifes EXCEPT ![a] = Ledger!onSettlement(Ledger!onReversal(lifes[a]), "failed", by, FALSE)]
    <3>1. reported(s, outcome, by, t) = Ledger!onSettlement(Ledger!onReversal(s), "failed", by, FALSE)
      BY <1>12 DEF reported, Ledger!onSettlement, onSettlement, Ledger!onReversal, onReversal
    <3> QED
      BY <1>3, <1>5, <1>10, <3>1
  <2>3. /\ only(logSpent)' = [only(logSpent) EXCEPT ![reqs[a].grant] = @ - Ledger!refund(lifes[a])]
        /\ only(logToday)' = [only(logToday) EXCEPT ![reqs[a].grant] = @ - Ledger!refund(lifes[a])]
        /\ only(logLate)' = only(logLate)
    <3>1. give \in Nat
      BY <1>2, <1>12 DEF gives, Lifecycle
    <3> QED
      BY <1>2, <1>3, <1>4, <1>5, <1>6, <1>9, <2>1, <3>1
  <2>4. Ledger!ReportFailed(a, by)
    BY <1>4, <1>8, <1>12, <2>2, <2>3 DEF Ledger!ReportFailed, lifes, reqs
  <2> QED
    BY <2>4, LedgerLife DEF Ledger!Next, Ledger!ReportStep
<1>13. CASE outcome = "settled"
  <2>1. take = Ledger!retake(lifes[a]) /\ give = 0
    BY <1>2, <1>5, <1>13 DEF gives, takes, Ledger!retake, Lifecycle
  <2>2. life2 = [lifes EXCEPT ![a] =
           Ledger!onSettlement(Ledger!onReservation(lifes[a], 0, FALSE), "settled", by, ~lifes[a].reserved)]
    <3>1. reported(s, outcome, by, t) =
            Ledger!onSettlement(Ledger!onReservation(s, 0, FALSE), "settled", by, ~s.reserved)
      BY <1>13 DEF reported, Ledger!onSettlement, onSettlement, Ledger!onReservation, onReservation
    <3> QED
      BY <1>3, <1>5, <1>10, <3>1
  <2>3. /\ only(logSpent)' = [only(logSpent) EXCEPT ![reqs[a].grant] = @ + Ledger!retake(lifes[a])]
        /\ only(logToday)' = [only(logToday) EXCEPT ![reqs[a].grant] = @ + Ledger!retake(lifes[a])]
        /\ only(logLate)' = [only(logLate) EXCEPT ![reqs[a].grant] = @ + Ledger!retake(lifes[a])]
    <3>1. take \in Nat
      BY <1>2, <1>13 DEF takes, Lifecycle
    <3> QED
      BY <1>2, <1>3, <1>4, <1>5, <1>6, <1>9, <2>1, <3>1
  <2>4. Ledger!ReportSettled(a, by)
    BY <1>4, <1>8, <1>13, <2>2, <2>3 DEF Ledger!ReportSettled, lifes, reqs
  <2> QED
    BY <2>4, LedgerLife DEF Ledger!Next, Ledger!ReportStep
<1> QED
  BY <1>11, <1>12, <1>13

-----------------------------------------------------------------------------
(* Days. *)

\* A day begins no later than any time of it.
LEMMA DayStart ==
  ASSUME NEW t \in Nat
  PROVE  utcDayStart(t) \in Nat /\ utcDayStart(t) <= t
<1> DEFINE q == t \div DAY_MS
<1>1. DAY_MS \in Nat /\ DAY_MS > 0
  BY PolicyAssumption
<1>2. q \in Nat /\ q * DAY_MS <= t
  BY <1>1
<1> QED
  BY <1>1, <1>2 DEF utcDayStart

\* What is in a later day comes before that day's beginning.
LEMMA NextDay ==
  ASSUME NEW t \in Nat, NEW u \in Nat, t < u, utcDayStart(u) # utcDayStart(t)
  PROVE  utcDayStart(u) > t
<1> DEFINE q == t \div DAY_MS
           p == u \div DAY_MS
<1>1. DAY_MS \in Nat /\ DAY_MS > 0
  BY PolicyAssumption
<1>2. q \in Nat /\ p \in Nat /\ t < (q + 1) * DAY_MS /\ p * DAY_MS <= u /\ u < (p + 1) * DAY_MS /\ q * DAY_MS <= t
  BY <1>1
<1>3. q # p
  BY DEF utcDayStart
<1> HIDE DEF q, p
<1>4. ~(p < q)
  <2> SUFFICES ASSUME p < q PROVE FALSE
    OBVIOUS
  <2>1. PICK k \in Nat : q = p + 1 + k
    <3>1. q - p - 1 \in Nat /\ q = p + 1 + (q - p - 1)
      BY <1>2
    <3> QED
      BY <3>1
  <2>2. q * DAY_MS = (p + 1) * DAY_MS + k * DAY_MS /\ k * DAY_MS >= 0
    BY <1>1, <1>2, <2>1
  <2>3. q * DAY_MS \in Nat /\ (p + 1) * DAY_MS \in Nat /\ k * DAY_MS \in Nat
    BY <1>1, <1>2, <2>1
  <2> QED
    BY <1>2, <2>2, <2>3
<1>5. PICK k \in Nat : p = q + 1 + k
  <2>1. p - q - 1 \in Nat /\ p = q + 1 + (p - q - 1)
    BY <1>2, <1>3, <1>4
  <2> QED
    BY <2>1
<1>6. p * DAY_MS = (q + 1) * DAY_MS + k * DAY_MS /\ k * DAY_MS >= 0
  BY <1>1, <1>2, <1>5
<1>7. p * DAY_MS \in Nat /\ (q + 1) * DAY_MS \in Nat /\ k * DAY_MS \in Nat
  BY <1>1, <1>2, <1>5
<1>8. p * DAY_MS > t
  BY <1>2, <1>6, <1>7
<1> QED
  BY <1>8 DEF utcDayStart, p

SameDay(v) == \A i, j \in Nat : utcDayStart(i) = utcDayStart(j) => v.today[i] = v.today[j]

\* The passing of time in a view that stays is Tick: what was counted
\* of the day stays, and a new day begins with nothing.
LEMMA MapsTick ==
  ASSUME NEW v \in View, NEW t \in Nat, NEW u \in 1..horizon, t < u, Shows(v, t), Shows(v, u)',
         SameDay(v), Kept(v, t)
  PROVE  Ledger!Next
<1>1. Ledger!utcDayStart(u) = utcDayStart(u) /\ Ledger!utcDayStart(t) = utcDayStart(t)
  BY DEF Ledger!utcDayStart, utcDayStart
<1> PICK now : now = IF utcDayStart(u) = utcDayStart(t) THEN v.today[t] ELSE 0
  OBVIOUS
<1>2. v.today[u] = now
  <2>0. u \in Nat
    OBVIOUS
  <2>1. CASE utcDayStart(u) = utcDayStart(t)
    BY <2>0, <2>1 DEF SameDay
  <2>2. CASE utcDayStart(u) # utcDayStart(t)
    BY <2>0, <2>2, NextDay DEF Kept
  <2> QED
    BY <2>1, <2>2
<1>3. /\ only(logToday) = alone(v.today[t]) /\ only(logToday)' = alone(v.today[u])
      /\ lastNow[theGrant] = t /\ lastNow[theGrant]' = u
  BY DEF Shows
<1>4. only(logToday)' = [g \in {theGrant} |->
        IF Ledger!utcDayStart(u) = Ledger!utcDayStart(lastNow[theGrant]) THEN only(logToday)[g] ELSE 0]
  BY <1>1, <1>2, <1>3, Alone DEF alone
<1>5. Ledger!Tick(u)
  BY <1>3, <1>4 DEF Shows, Ledger!Tick
<1> QED
  BY <1>5 DEF Ledger!Next, horizon

-----------------------------------------------------------------------------
(* The folds of the view, one record at a time. *)

budgetStep(g, b, e) == IF e.kind = "open" /\ e.g = g /\ b = 0 THEN e.amount ELSE b
budgetClaim(g, es, b) == b \in Nat
BudgetFold == INSTANCE FoldTheorems WITH Step <- budgetStep, Claim <- budgetClaim

lateStep(g, n, e) == IF e.late /\ e.kind = "reservation" THEN n + moved(e, g) ELSE n
lateClaim(g, es, n) == n \in Int
LateFold == INSTANCE FoldTheorems WITH Step <- lateStep, Claim <- lateClaim

netStep(p, n, e) == IF e.ts >= p[2] THEN n + moved(e, p[1]) ELSE n
netClaim(p, es, n) == n \in Int
NetFold == INSTANCE FoldTheorems WITH Step <- netStep, Claim <- netClaim

\* The budget, the late holds and the day's count, as folds of one step each.
LEMMA BudgetIs ==
  ASSUME NEW es, NEW g
  PROVE  budgetOf(es, g) = BudgetFold!total(g, 0, es)
BY Zenon DEF budgetOf, BudgetFold!total, BudgetFold!fold, fold, budgetStep

\* See BudgetIs.
LEMMA LateIs ==
  ASSUME NEW es
  PROVE  lateOf(es) = LateFold!total(theGrant, 0, es)
BY Zenon DEF lateOf, LateFold!total, LateFold!fold, fold, lateStep

\* See BudgetIs.
LEMMA NetIs ==
  ASSUME NEW es, NEW g, NEW now
  PROVE  netToday(es, g, now) = NetFold!total(<<g, utcDayStart(now)>>, 0, es)
BY SMT DEF netToday, NetFold!total, NetFold!fold, fold, netStep

\* The folds of no record.
LEMMA FoldsStart ==
  ASSUME NEW g, NEW now
  PROVE  /\ budgetOf(<<>>, g) = 0 /\ lateOf(<<>>) = 0 /\ netToday(<<>>, g, now) = 0
         /\ spentOf(<<>>, g) = 0
BY BudgetIs, LateIs, NetIs, SpentIs, BudgetFold!FoldEmpty, LateFold!FoldEmpty, NetFold!FoldEmpty,
   SpentFold!FoldEmpty

\* The folds of one record more.
LEMMA FoldsAppend ==
  ASSUME NEW es \in Seq(Event), NEW e \in Event, NEW g, NEW now
  PROVE  /\ budgetOf(Append(es, e), g) =
              IF e.kind = "open" /\ e.g = g /\ budgetOf(es, g) = 0 THEN e.amount ELSE budgetOf(es, g)
         /\ lateOf(Append(es, e)) =
              IF e.late /\ e.kind = "reservation" THEN lateOf(es) + moved(e, theGrant) ELSE lateOf(es)
         /\ netToday(Append(es, e), g, now) =
              IF e.ts >= utcDayStart(now) THEN netToday(es, g, now) + moved(e, g) ELSE netToday(es, g, now)
<1> DEFINE p == <<g, utcDayStart(now)>>
<1>1. BudgetFold!total(g, 0, Append(es, e)) = budgetStep(g, BudgetFold!total(g, 0, es), e)
  BY BudgetFold!FoldAppend
<1>2. LateFold!total(theGrant, 0, Append(es, e)) = lateStep(theGrant, LateFold!total(theGrant, 0, es), e)
  BY LateFold!FoldAppend
<1> HIDE DEF p
<1>3. NetFold!total(p, 0, Append(es, e)) = netStep(p, NetFold!total(p, 0, es), e)
  BY NetFold!FoldAppend
<1>4. p[1] = g /\ p[2] = utcDayStart(now)
  BY DEF p
<1>5. netToday(Append(es, e), g, now) = NetFold!total(p, 0, Append(es, e))
      /\ netToday(es, g, now) = NetFold!total(p, 0, es)
  BY NetIs DEF p
<1> QED
  BY <1>1, <1>2, <1>3, <1>4, <1>5, BudgetIs, LateIs DEF budgetStep, lateStep, netStep

\* The folds are amounts.
LEMMA FoldsType ==
  ASSUME NEW es \in Seq(Event), NEW g, NEW now
  PROVE  budgetOf(es, g) \in Nat /\ lateOf(es) \in Int /\ netToday(es, g, now) \in Int
<1> DEFINE p == <<g, utcDayStart(now)>>
<1>1. budgetOf(es, g) \in Nat
  <2>1. budgetClaim(g, <<>>, 0)
    BY DEF budgetClaim
  <2>2. ASSUME NEW fs \in Seq(Event), NEW e \in Event, budgetClaim(g, fs, BudgetFold!total(g, 0, fs))
        PROVE  budgetClaim(g, Append(fs, e), budgetStep(g, BudgetFold!total(g, 0, fs), e))
    <3>1. e.amount \in Nat
      BY DEF Event
    <3> QED
      BY <2>2, <3>1 DEF budgetClaim, budgetStep
  <2>3. budgetClaim(g, es, BudgetFold!total(g, 0, es))
    BY <2>1, <2>2, BudgetFold!FoldInduction
  <2> QED
    BY <2>3, BudgetIs DEF budgetClaim
<1>2. lateOf(es) \in Int
  <2>1. lateClaim(theGrant, <<>>, 0)
    BY DEF lateClaim
  <2>2. ASSUME NEW fs \in Seq(Event), NEW e \in Event,
               lateClaim(theGrant, fs, LateFold!total(theGrant, 0, fs))
        PROVE  lateClaim(theGrant, Append(fs, e), lateStep(theGrant, LateFold!total(theGrant, 0, fs), e))
    BY <2>2, MovedType DEF lateClaim, lateStep
  <2>3. lateClaim(theGrant, es, LateFold!total(theGrant, 0, es))
    BY <2>1, <2>2, LateFold!FoldInduction
  <2> QED
    BY <2>3, LateIs DEF lateClaim
<1>3. netToday(es, g, now) = NetFold!total(p, 0, es)
  BY NetIs
<1> HIDE DEF p
<1>4. NetFold!total(p, 0, es) \in Int
  <2>1. netClaim(p, <<>>, 0)
    BY DEF netClaim
  <2>2. ASSUME NEW fs \in Seq(Event), NEW e \in Event, netClaim(p, fs, NetFold!total(p, 0, fs))
        PROVE  netClaim(p, Append(fs, e), netStep(p, NetFold!total(p, 0, fs), e))
    BY <2>2, MovedType DEF netClaim, netStep
  <2>3. netClaim(p, es, NetFold!total(p, 0, es))
    BY <2>1, <2>2, NetFold!FoldInduction
  <2> QED
    BY <2>3 DEF netClaim
<1> QED
  BY <1>1, <1>2, <1>3, <1>4

\* The last grant_meta of a grant.
LEMMA GrantAppend ==
  ASSUME NEW es \in Seq(Event), NEW e \in Event, NEW g
  PROVE  grantOf(Append(es, e), g) =
           IF e.kind = "grant_meta" /\ e.g = g THEN e.policy ELSE grantOf(es, g)
<1> DEFINE fs == Append(es, e)
           old == {i \in DOMAIN es : es[i].kind = "grant_meta" /\ es[i].g = g}
           new == {i \in DOMAIN fs : fs[i].kind = "grant_meta" /\ fs[i].g = g}
<1>1. /\ fs \in Seq(Event) /\ fs = es \o <<e>> /\ <<e>> \in Seq(Event)
      /\ Len(es) \in Nat /\ DOMAIN es = 1..Len(es) /\ DOMAIN fs = 1..(Len(es) + 1)
      /\ \A i \in DOMAIN es : i \in DOMAIN fs /\ fs[i] = es[i]
      /\ fs[Len(es) + 1] = e
      /\ \A i \in DOMAIN fs : i \in DOMAIN es \/ i = Len(es) + 1
  BY AppendPlaces
<1>2. grantOf(fs, g) = lastAt(fs, new).policy /\ grantOf(es, g) = lastAt(es, old).policy
  BY DEF grantOf
<1> HIDE DEF fs
<1>3. CASE e.kind = "grant_meta" /\ e.g = g
  <2>1. Len(es) + 1 \in new
    BY <1>1, <1>3
  <2>2. PICK i \in new : (\A j \in new : j <= i) /\ lastAt(fs, new) = fs[i]
    <3>1. fs \in Seq(Event) /\ new \in SUBSET DOMAIN fs /\ new # {}
      BY <1>1, <2>1
    <3> HIDE DEF new
    <3> QED
      BY <3>1, LastPlace
  <2>3. i = Len(es) + 1
    BY <1>1, <2>1, <2>2
  <2> QED
    BY <1>1, <1>2, <1>3, <2>2, <2>3 DEF fs
<1>4. CASE ~(e.kind = "grant_meta" /\ e.g = g)
  <2>1. new = old
    BY <1>1, <1>4
  <2>2. old \in SUBSET DOMAIN es
    OBVIOUS
  <2> HIDE DEF old, new
  <2>3. lastAt(es \o <<e>>, old) = lastAt(es, old)
    BY <1>1, <2>2, LastSame
  <2> QED
    BY <1>1, <1>2, <1>4, <2>1, <2>3 DEF fs
<1> QED
  BY <1>3, <1>4

-----------------------------------------------------------------------------
(* The view, one record at a time. *)

\* What stands for no decision and no lifecycle is of the types of a view.
LEMMA NothingFits == NoEvent \in Event /\ NoState \in Lifecycle /\ NoEvent.g # theGrant /\ theGrant # None
<1>1. theGrant # None
  BY TheGrant, ServerAssumption
<1> QED
  BY <1>1 DEF NoEvent, Event, Kinds, Decisions, Outcomes, Why, NoState, Lifecycle

\* A log has a view.
LEMMA ViewType ==
  ASSUME NEW es \in Seq(Event)
  PROVE  view(es) \in View
<1>1. grantOf(es, theGrant) \in Policies \cup {None}
  BY GrantKnown
<1>2. budgetOf(es, theGrant) \in Nat /\ lateOf(es) \in Int /\ spentOf(es, theGrant) \in Int
  BY FoldsType, SpentType
<1>3. \A t \in Nat : netToday(es, theGrant, t) \in Int
  BY FoldsType
<1>4. \A a \in AuthIds : decidedOf(es, a) \in Event /\ lifeOf(es, a) \in Lifecycle
  BY NothingFits, DecisionType, LifeType DEF decidedOf, lifeOf
<1>5. {a \in pendingOf(es) : decisionOf(es, a).g = theGrant} \in SUBSET AuthIds
  BY DEF pendingOf
<1> QED
  BY <1>1, <1>2, <1>3, <1>4, <1>5 DEF view, View

\* An escalation's request has its decision before it.
Asked(es) == \A i \in DOMAIN es : es[i].kind = "approval_request" => Owner(es, es[i].a, es[i].g)
Good(es) == es \in Seq(Event) /\ Unique(es) /\ Asked(es)

\* A record that may come next: what is said of an authorization is said of the
\* grant it was decided for, its decision first and its request before the answer.
Proper(es, e) ==
  /\ e \in Event
  /\ e.kind = "decision" => \A i \in DOMAIN es : es[i].a # e.a
  /\ e.kind \in (LifeKinds \ {"decision"}) \cup {"approval_request", "approval_decision"} =>
       e.a \in AuthIds /\ Owner(es, e.a, e.g)
  /\ e.kind = "approval_request" => ~Logged(es, "approval_decision", e.a)

\* A record that may come next leaves the log good.
LEMMA GoodAppend ==
  ASSUME NEW es, Good(es), NEW e, Proper(es, e)
  PROVE  Good(Append(es, e))
<1> DEFINE fs == Append(es, e)
<1>1. es \in Seq(Event) /\ e \in Event /\ Unique(es) /\ Asked(es)
  BY DEF Good, Proper
<1>2. /\ fs \in Seq(Event)
      /\ \A i \in DOMAIN es : i \in DOMAIN fs /\ fs[i] = es[i]
      /\ Len(es) + 1 \in DOMAIN fs /\ fs[Len(es) + 1] = e
      /\ \A i \in DOMAIN fs : i \in DOMAIN es \/ i = Len(es) + 1
  BY <1>1, AppendPlaces
<1>3. \A a, g : Owner(es, a, g) => Owner(fs, a, g)
  BY <1>1, OwnerAppend
<1> HIDE DEF fs
<1>4. Unique(fs)
  BY <1>1, <1>2 DEF Unique, Proper
<1>5. Asked(fs)
  BY <1>1, <1>2, <1>3 DEF Asked, Proper
<1> QED
  BY <1>2, <1>4, <1>5 DEF Good, fs

\* What one record makes of the view.
viewStep(v, e) ==
  IF e.g # theGrant THEN v
  ELSE [ policy  |-> IF e.kind = "grant_meta" THEN e.policy ELSE v.policy,
         budget  |-> IF e.kind = "open" /\ v.budget = 0 THEN e.amount ELSE v.budget,
         dec     |-> [a \in AuthIds |-> IF e.kind = "decision" /\ e.a = a THEN e ELSE v.dec[a]],
         life    |-> [a \in AuthIds |->
                        IF e.kind \in LifeKinds /\ e.a = a THEN lifeStep(a, v.life[a], e) ELSE v.life[a]],
         pend    |-> IF e.kind = "approval_request" THEN v.pend \cup {e.a}
                     ELSE IF e.kind = "approval_decision" THEN v.pend \ {e.a} ELSE v.pend,
         balance |-> v.balance + moved(e, theGrant),
         late    |-> IF e.late /\ e.kind = "reservation" THEN v.late + moved(e, theGrant) ELSE v.late,
         today   |-> [t \in Nat |-> IF e.ts >= utcDayStart(t) THEN v.today[t] + moved(e, theGrant)
                                                              ELSE v.today[t]] ]

\* The decision of an authorization in a log with one record more.
LEMMA DecidedAppend ==
  ASSUME NEW es, Good(es), NEW e, Proper(es, e), NEW a \in AuthIds
  PROVE  decidedOf(Append(es, e), a) =
           IF e.kind = "decision" /\ e.a = a /\ e.g = theGrant THEN e ELSE decidedOf(es, a)
<1>1. es \in Seq(Event) /\ e \in Event
  BY DEF Good, Proper
<1>2. decisionOf(Append(es, e), a) = IF e.kind = "decision" /\ e.a = a THEN e ELSE decisionOf(es, a)
  BY <1>1, DecisionAppend
<1>3. CASE e.kind = "decision" /\ e.a = a
  <2>1. {i \in DOMAIN es : es[i].kind = "decision" /\ es[i].a = a} = {}
    BY <1>3 DEF Proper
  <2>2. decisionOf(es, a) = NoEvent
    BY <2>1 DEF decisionOf, lastAt
  <2>3. decidedOf(es, a) = NoEvent
    BY <2>2 DEF decidedOf
  <2> QED
    BY <1>2, <1>3, <2>3 DEF decidedOf
<1>4. CASE ~(e.kind = "decision" /\ e.a = a)
  BY <1>2, <1>4 DEF decidedOf
<1> QED
  BY <1>3, <1>4

\* Its lifecycle there.
LEMMA LifeOfAppend ==
  ASSUME NEW es, Good(es), NEW e, Proper(es, e), NEW a \in AuthIds
  PROVE  lifeOf(Append(es, e), a) =
           IF e.kind \in LifeKinds /\ e.a = a /\ e.g = theGrant THEN lifeStep(a, lifeOf(es, a), e)
           ELSE lifeOf(es, a)
<1>1. es \in Seq(Event) /\ e \in Event /\ Unique(es)
  BY DEF Good, Proper
<1>2. decisionOf(Append(es, e), a) = IF e.kind = "decision" /\ e.a = a THEN e ELSE decisionOf(es, a)
  BY <1>1, DecisionAppend
<1>3. railState(Append(es, e), a) = lifeStep(a, railState(es, a), e)
  BY <1>1, LifeAppend
<1>4. CASE e.kind = "decision" /\ e.a = a
  <2>1. {i \in DOMAIN es : es[i].kind = "decision" /\ es[i].a = a} = {}
    BY <1>4 DEF Proper
  <2>2. decisionOf(es, a) = NoEvent
    BY <2>1 DEF decisionOf, lastAt
  <2>3. railState(es, a) = NoState
    BY <1>1, <1>4, LifeUnknown DEF Proper
  <2>4. lifeOf(es, a) = NoState
    BY <2>2, NothingFits DEF lifeOf
  <2> QED
    BY <1>2, <1>3, <1>4, <2>3, <2>4 DEF lifeOf, LifeKinds
<1>5. CASE e.kind \in LifeKinds \ {"decision"} /\ e.a = a
  <2>1. decisionOf(es, a).g = e.g
    BY <1>1, <1>5, OwnerIs DEF Proper
  <2> QED
    BY <1>2, <1>3, <1>5, <2>1 DEF lifeOf
<1>6. CASE ~(e.kind \in LifeKinds /\ e.a = a)
  <2>1. lifeStep(a, railState(es, a), e) = railState(es, a)
    BY <1>6 DEF lifeStep, LifeKinds
  <2>2. decisionOf(Append(es, e), a) = decisionOf(es, a)
    BY <1>2, <1>6 DEF LifeKinds
  <2> QED
    BY <1>3, <1>6, <2>1, <2>2 DEF lifeOf
<1> QED
  BY <1>4, <1>5, <1>6 DEF LifeKinds

\* What is pending there.
LEMMA PendAppend ==
  ASSUME NEW es, Good(es), NEW e, Proper(es, e)
  PROVE  {a \in pendingOf(Append(es, e)) : decisionOf(Append(es, e), a).g = theGrant} =
           LET P == {a \in pendingOf(es) : decisionOf(es, a).g = theGrant}
           IN  IF e.g # theGrant THEN P
               ELSE IF e.kind = "approval_request" THEN P \cup {e.a}
               ELSE IF e.kind = "approval_decision" THEN P \ {e.a} ELSE P
<1> DEFINE fs == Append(es, e)
           P == {a \in pendingOf(es) : decisionOf(es, a).g = theGrant}
           Q == {a \in pendingOf(fs) : decisionOf(fs, a).g = theGrant}
<1>1. es \in Seq(Event) /\ e \in Event /\ Unique(es) /\ Asked(es)
  BY DEF Good, Proper
<1>2. \A a : decisionOf(fs, a) = IF e.kind = "decision" /\ e.a = a THEN e ELSE decisionOf(es, a)
  BY <1>1, DecisionAppend
<1>3. \A kind, a : Logged(fs, kind, a) <=> Logged(es, kind, a) \/ (e.kind = kind /\ e.a = a)
  <2>1. /\ \A i \in DOMAIN es : i \in DOMAIN fs /\ fs[i] = es[i]
        /\ Len(es) + 1 \in DOMAIN fs /\ fs[Len(es) + 1] = e
        /\ \A i \in DOMAIN fs : i \in DOMAIN es \/ i = Len(es) + 1
    BY <1>1, AppendPlaces
  <2> HIDE DEF fs
  <2> QED
    BY <2>1 DEF Logged
<1>4. pendingOf(fs) = {a \in AuthIds : Logged(fs, "approval_request", a) /\ ~Logged(fs, "approval_decision", a)}
  BY PendingIs
<1>5. pendingOf(es) = {a \in AuthIds : Logged(es, "approval_request", a) /\ ~Logged(es, "approval_decision", a)}
  BY PendingIs
<1> HIDE DEF fs
<1>6. ASSUME NEW a \in AuthIds
      PROVE  a \in Q <=> a \in IF e.g # theGrant THEN P
                               ELSE IF e.kind = "approval_request" THEN P \cup {e.a}
                               ELSE IF e.kind = "approval_decision" THEN P \ {e.a} ELSE P
  <2>1. CASE e.kind = "decision"
    <3>1. e.a = a => ~Logged(es, "approval_request", a)
      BY <2>1 DEF Proper, Logged
    <3> QED
      BY <1>2, <1>3, <1>4, <1>5, <2>1, <3>1
  <2>2. CASE e.kind = "approval_request"
    <3>1. decisionOf(es, e.a).g = e.g /\ ~Logged(es, "approval_decision", e.a)
      BY <1>1, <2>2, OwnerIs DEF Proper
    <3> QED
      BY <1>2, <1>3, <1>4, <1>5, <2>2, <3>1
  <2>3. CASE e.kind = "approval_decision"
    <3>1. decisionOf(es, e.a).g = e.g
      BY <1>1, <2>3, OwnerIs DEF Proper
    <3> QED
      BY <1>2, <1>3, <1>4, <1>5, <2>3, <3>1
  <2>4. CASE e.kind \notin {"decision", "approval_request", "approval_decision"}
    BY <1>2, <1>3, <1>4, <1>5, <2>4
  <2> QED
    BY <2>1, <2>2, <2>3, <2>4
<1>7. Q \subseteq AuthIds /\ P \subseteq AuthIds
  BY DEF pendingOf
<1>8. e.kind = "approval_request" => e.a \in AuthIds
  BY DEF Proper
<1> HIDE DEF P, Q
<1>9. Q = IF e.g # theGrant THEN P
          ELSE IF e.kind = "approval_request" THEN P \cup {e.a}
          ELSE IF e.kind = "approval_decision" THEN P \ {e.a} ELSE P
  BY <1>6, <1>7, <1>8
<1> QED
  BY <1>9 DEF P, Q, fs

\* The view of a log with one record more is one step of the view.
LEMMA ViewAppend ==
  ASSUME NEW es, Good(es), NEW e, Proper(es, e)
  PROVE  view(Append(es, e)) = viewStep(view(es), e)
<1> DEFINE fs == Append(es, e)
           P == {a \in pendingOf(es) : decisionOf(es, a).g = theGrant}
           Q == {a \in pendingOf(fs) : decisionOf(fs, a).g = theGrant}
           v == view(es)
<1>1. es \in Seq(Event) /\ e \in Event
  BY DEF Good, Proper
<1>2. Q = IF e.g # theGrant THEN P
          ELSE IF e.kind = "approval_request" THEN P \cup {e.a}
          ELSE IF e.kind = "approval_decision" THEN P \ {e.a} ELSE P
  BY PendAppend
<1>3. /\ grantOf(fs, theGrant) = IF e.kind = "grant_meta" /\ e.g = theGrant THEN e.policy ELSE grantOf(es, theGrant)
      /\ spentOf(fs, theGrant) = spentOf(es, theGrant) + moved(e, theGrant)
      /\ budgetOf(fs, theGrant) = IF e.kind = "open" /\ e.g = theGrant /\ budgetOf(es, theGrant) = 0
                                  THEN e.amount ELSE budgetOf(es, theGrant)
      /\ lateOf(fs) = IF e.late /\ e.kind = "reservation" THEN lateOf(es) + moved(e, theGrant) ELSE lateOf(es)
  BY <1>1, GrantAppend, SpentAppend, FoldsAppend
<1>4. \A t \in Nat : netToday(fs, theGrant, t) =
        IF e.ts >= utcDayStart(t) THEN netToday(es, theGrant, t) + moved(e, theGrant) ELSE netToday(es, theGrant, t)
  BY <1>1, FoldsAppend
<1>5. \A a \in AuthIds :
        /\ decidedOf(fs, a) = IF e.kind = "decision" /\ e.a = a /\ e.g = theGrant THEN e ELSE decidedOf(es, a)
        /\ lifeOf(fs, a) = IF e.kind \in LifeKinds /\ e.a = a /\ e.g = theGrant
                           THEN lifeStep(a, lifeOf(es, a), e) ELSE lifeOf(es, a)
  BY DecidedAppend, LifeOfAppend
<1>6. view(fs) =
        [ policy |-> grantOf(fs, theGrant), budget |-> budgetOf(fs, theGrant),
          dec |-> [a \in AuthIds |-> decidedOf(fs, a)], life |-> [a \in AuthIds |-> lifeOf(fs, a)],
          pend |-> Q, balance |-> spentOf(fs, theGrant), late |-> lateOf(fs),
          today |-> [t \in Nat |-> netToday(fs, theGrant, t)] ]
  BY DEF view
<1>7. v = [ policy |-> grantOf(es, theGrant), budget |-> budgetOf(es, theGrant),
            dec |-> [a \in AuthIds |-> decidedOf(es, a)], life |-> [a \in AuthIds |-> lifeOf(es, a)],
            pend |-> P, balance |-> spentOf(es, theGrant), late |-> lateOf(es),
            today |-> [t \in Nat |-> netToday(es, theGrant, t)] ]
  BY DEF view
<1>8. /\ v.policy = grantOf(es, theGrant) /\ v.budget = budgetOf(es, theGrant) /\ v.pend = P
      /\ v.balance = spentOf(es, theGrant) /\ v.late = lateOf(es)
      /\ \A a \in AuthIds : v.dec[a] = decidedOf(es, a) /\ v.life[a] = lifeOf(es, a)
      /\ \A t \in Nat : v.today[t] = netToday(es, theGrant, t)
  BY <1>7
<1> HIDE DEF fs, P, Q, v
<1>9. CASE e.g # theGrant
  <2>1. moved(e, theGrant) = 0 /\ spentOf(es, theGrant) \in Int /\ lateOf(es) \in Int
        /\ \A t \in Nat : netToday(es, theGrant, t) \in Int
    BY <1>1, <1>9, SpentType, FoldsType DEF moved
  <2>2. /\ [a \in AuthIds |-> decidedOf(fs, a)] = [a \in AuthIds |-> decidedOf(es, a)]
        /\ [a \in AuthIds |-> lifeOf(fs, a)] = [a \in AuthIds |-> lifeOf(es, a)]
    BY <1>5, <1>9
  <2>3. [t \in Nat |-> netToday(fs, theGrant, t)] = [t \in Nat |-> netToday(es, theGrant, t)]
    BY <1>4, <2>1
  <2>4. grantOf(fs, theGrant) = grantOf(es, theGrant) /\ budgetOf(fs, theGrant) = budgetOf(es, theGrant)
        /\ Q = P /\ spentOf(fs, theGrant) = spentOf(es, theGrant) /\ lateOf(fs) = lateOf(es)
    BY <1>2, <1>3, <1>9, <2>1
  <2>5. view(fs) = v
    BY <1>6, <1>7, <2>2, <2>3, <2>4
  <2> QED
    BY <1>9, <2>5 DEF viewStep, v, fs
<1>10. CASE e.g = theGrant
  <2>1. [a \in AuthIds |-> decidedOf(fs, a)] =
          [a \in AuthIds |-> IF e.kind = "decision" /\ e.a = a THEN e ELSE v.dec[a]]
    BY <1>5, <1>8, <1>10
  <2>2. [a \in AuthIds |-> lifeOf(fs, a)] =
          [a \in AuthIds |-> IF e.kind \in LifeKinds /\ e.a = a THEN lifeStep(a, v.life[a], e) ELSE v.life[a]]
    BY <1>5, <1>8, <1>10
  <2>3. [t \in Nat |-> netToday(fs, theGrant, t)] =
          [t \in Nat |-> IF e.ts >= utcDayStart(t) THEN v.today[t] + moved(e, theGrant) ELSE v.today[t]]
    BY <1>4, <1>8
  <2>4. /\ grantOf(fs, theGrant) = IF e.kind = "grant_meta" THEN e.policy ELSE v.policy
        /\ budgetOf(fs, theGrant) = IF e.kind = "open" /\ v.budget = 0 THEN e.amount ELSE v.budget
    BY <1>3, <1>8, <1>10
  <2>5. Q = IF e.kind = "approval_request" THEN v.pend \cup {e.a}
            ELSE IF e.kind = "approval_decision" THEN v.pend \ {e.a} ELSE v.pend
    BY <1>2, <1>8, <1>10
  <2>6. /\ spentOf(fs, theGrant) = v.balance + moved(e, theGrant)
        /\ lateOf(fs) = IF e.late /\ e.kind = "reservation" THEN v.late + moved(e, theGrant) ELSE v.late
    BY <1>3, <1>8
  <2>7. view(fs) = viewStep(v, e)
    BY <1>6, <1>10, <2>1, <2>2, <2>3, <2>4, <2>5, <2>6, Zenon DEF viewStep
  <2> QED
    BY <2>7 DEF v, fs
<1> QED
  BY <1>9, <1>10

\* es is a good log whose view is v.
Grown(es, v) == Good(es) /\ view(es) = v

\* The same, as one predicate of the log and its view.
LEMMA GrownAppend ==
  ASSUME NEW es, NEW v, Grown(es, v), NEW e, Proper(es, e)
  PROVE  Grown(Append(es, e), viewStep(v, e))
BY GoodAppend, ViewAppend DEF Grown

-----------------------------------------------------------------------------
(* What each kind of record makes of the view. *)

\* The days that have begun by t are moved by m, the others by nothing.
Days(v, w, t, m) ==
  \A u \in Nat : w.today[u] = IF t >= utcDayStart(u) THEN v.today[u] + m ELSE v.today[u]

\* An amount dated t moves the count of t's day and of none that is later.
LEMMA DaysLater ==
  ASSUME NEW v, NEW w, NEW t \in Nat, NEW m, Days(v, w, t, m)
  PROVE  w.today[t] = v.today[t] + m /\ Later(v, w, t)
<1>1. t >= utcDayStart(t) /\ utcDayStart(t) \in Nat
  BY DayStart
<1>2. w.today[t] = v.today[t] + m
  BY <1>1 DEF Days
<1>3. ASSUME NEW u \in Nat, utcDayStart(u) > t
      PROVE  w.today[u] = v.today[u]
  <2>1. utcDayStart(u) \in Nat
    BY DayStart
  <2>2. ~(t >= utcDayStart(u))
    BY <1>3, <2>1
  <2> QED
    BY <2>2 DEF Days
<1> QED
  BY <1>2, <1>3 DEF Later

\* A view is its fields.
LEMMA ViewIs ==
  ASSUME NEW v \in View, NEW w \in View,
         w.policy = v.policy, w.budget = v.budget, w.dec = v.dec, w.life = v.life, w.pend = v.pend,
         w.balance = v.balance, w.late = v.late, w.today = v.today
  PROVE  w = v
BY DEF View

\* What a record that moves nothing leaves alone.
Settles(v, w) == w.balance = v.balance /\ w.late = v.late /\ w.today = v.today
Bare(v, w) == w.policy = v.policy /\ w.budget = v.budget
Named(v, w) == w.dec = v.dec /\ w.life = v.life

\* A record of no amount leaves the balances.
LEMMA StepStill ==
  ASSUME NEW v \in View, NEW e \in Event, e.g = theGrant, e.kind \notin {"reservation", "reversal"},
         NEW w, w = viewStep(v, e)
  PROVE  Settles(v, w)
<1>1. moved(e, theGrant) = 0
  BY DEF moved
<1>2. v.balance \in Int /\ v.today \in [Nat -> Int]
  BY DEF View
<1>3. w.balance = v.balance + moved(e, theGrant) /\ w.late = v.late
  BY DEF viewStep
<1>4. w.today = [t \in Nat |-> IF e.ts >= utcDayStart(t) THEN v.today[t] + moved(e, theGrant) ELSE v.today[t]]
  BY DEF viewStep
<1>5. w.today = [t \in Nat |-> v.today[t]]
  BY <1>1, <1>2, <1>4
<1>6. w.today = v.today
  BY <1>2, <1>5
<1> QED
  BY <1>1, <1>2, <1>3, <1>6 DEF Settles

\* A record that is not of a mint leaves the policy.
LEMMA StepBare ==
  ASSUME NEW v \in View, NEW e \in Event, e.g = theGrant, e.kind \notin {"grant_meta", "open"},
         NEW w, w = viewStep(v, e)
  PROVE  Bare(v, w)
BY DEF viewStep, Bare

\* A record of no lifecycle leaves the lifecycles.
LEMMA StepNamed ==
  ASSUME NEW v \in View, NEW e \in Event, e.g = theGrant, e.kind \notin LifeKinds,
         NEW w, w = viewStep(v, e)
  PROVE  Named(v, w)
<1>1. w.dec = [a \in AuthIds |-> v.dec[a]]
  BY DEF viewStep, LifeKinds
<1>2. w.life = [a \in AuthIds |-> v.life[a]]
  BY DEF viewStep
<1> QED
  BY <1>1, <1>2 DEF Named, View

\* The lifecycle of a becomes s; the decision of an authorization becomes e.
Lives(v, w, a, s) == w.life = [v.life EXCEPT ![a] = s]
Enrolls(v, w, e) == w.dec = [v.dec EXCEPT ![e.a] = e]

\* A record of an authorization changes its lifecycle alone.
LEMMA StepLife ==
  ASSUME NEW v \in View, NEW e \in Event, e.g = theGrant, e.kind \in LifeKinds, e.a \in AuthIds,
         NEW w, w = viewStep(v, e)
  PROVE  /\ w.pend = v.pend
         /\ e.kind = "decision" => Enrolls(v, w, e)
         /\ e.kind # "decision" => w.dec = v.dec
         /\ Lives(v, w, e.a, lifeStep(e.a, v.life[e.a], e))
<1>1. v.dec \in [AuthIds -> Event] /\ v.life \in [AuthIds -> Lifecycle]
  BY DEF View
<1>2. w.dec = [a \in AuthIds |-> IF e.kind = "decision" /\ e.a = a THEN e ELSE v.dec[a]]
  BY DEF viewStep
<1>3. w.life = [a \in AuthIds |-> IF e.a = a THEN lifeStep(a, v.life[a], e) ELSE v.life[a]]
  BY DEF viewStep
<1>4. w.pend = v.pend
  BY DEF viewStep, LifeKinds
<1>5. e.kind = "decision" => w.dec = [v.dec EXCEPT ![e.a] = e]
  BY <1>1, <1>2
<1>7. e.kind # "decision" => w.dec = v.dec
  <2>1. e.kind # "decision" => w.dec = [a \in AuthIds |-> v.dec[a]]
    BY <1>2
  <2> QED
    BY <1>1, <2>1
<1>6. w.life = [v.life EXCEPT ![e.a] = lifeStep(e.a, v.life[e.a], e)]
  BY <1>1, <1>3
<1> QED
  BY <1>4, <1>5, <1>6, <1>7 DEF Lives, Enrolls

\* A reservation and a reversal move their amount.
LEMMA StepMoves ==
  ASSUME NEW v \in View, NEW e \in Event, e.g = theGrant, e.kind \in {"reservation", "reversal"},
         NEW w, w = viewStep(v, e), NEW m, m = IF e.kind = "reservation" THEN e.amount ELSE -e.amount
  PROVE  /\ w.balance = v.balance + m /\ Days(v, w, e.ts, m)
         /\ w.late = IF e.late /\ e.kind = "reservation" THEN v.late + e.amount ELSE v.late
<1>1. moved(e, theGrant) = m
  BY DEF moved
<1> QED
  BY <1>1 DEF viewStep, Days

\* A receipt changes nothing.
LEMMA StepReceipt ==
  ASSUME NEW v \in View, NEW e \in Event, e.kind = "receipt", viewStep(v, e) \in View
  PROVE  viewStep(v, e) = v
<1>1. CASE e.g # theGrant
  BY <1>1 DEF viewStep
<1>2. CASE e.g = theGrant
  <2> DEFINE w == viewStep(v, e)
  <2>1. Settles(v, w) /\ Bare(v, w) /\ Named(v, w)
    BY <1>2, StepStill, StepBare, StepNamed DEF LifeKinds
  <2>2. w.pend = v.pend
    BY <1>2 DEF viewStep
  <2> QED
    BY <2>1, <2>2, ViewIs DEF Settles, Bare, Named
<1> QED
  BY <1>1, <1>2

\* A log that grows is a log, with the view of it.
LEMMA GrownNext ==
  ASSUME NEW es, NEW v, Grown(es, v), NEW e, Proper(es, e)
  PROVE  /\ Grown(Append(es, e), viewStep(v, e)) /\ Append(es, e) = es \o <<e>>
         /\ v \in View /\ viewStep(v, e) \in View
         /\ e.g # theGrant => viewStep(v, e) = v
<1>1. es \in Seq(Event) /\ e \in Event /\ view(es) = v
  BY DEF Grown, Good, Proper
<1>2. Grown(Append(es, e), viewStep(v, e))
  BY GrownAppend
<1>3. Append(es, e) = es \o <<e>> /\ Append(es, e) \in Seq(Event)
  BY <1>1, AppendPlaces
<1>4. v \in View /\ viewStep(v, e) \in View
  BY <1>1, <1>2, <1>3, ViewType DEF Grown
<1> QED
  BY <1>2, <1>3, <1>4 DEF viewStep

-----------------------------------------------------------------------------
(* A decision of the log as a step of the view. *)

\* The records of a decision, in full.
ExactDecision(ds, a, g, now, amount, decision, reason, key, parent, exp, hasToken) ==
  \E d \in Event, h \in Event, q \in Event, c \in Event :
    /\ d.kind = "decision" /\ d.a = a /\ d.g = g /\ d.ts = now /\ d.amount = amount
    /\ d.decision = decision /\ d.reason = reason /\ d.key = key /\ d.parent = parent
    /\ h.kind = "reservation" /\ h.a = a /\ h.g = g /\ h.ts = now /\ h.amount = amount
    /\ h.exp = exp /\ h.token = hasToken /\ h.late = FALSE
    /\ q.kind = "approval_request" /\ q.a = a /\ q.g = g
    /\ c.kind = "receipt" /\ c.g = g
    /\ \/ decision = "ALLOW" /\ ds = <<d, h, c>>
       \/ decision = "ESCALATE" /\ ds = <<d, q, c>>
       \/ decision = "DENY" /\ ds = <<d, c>>

\* The records of a decision are a decision, what it does and a receipt.
LEMMA DecisionExact ==
  ASSUME NEW a \in AuthIds, NEW g \in Grants, NEW now \in Nat, NEW amount \in Nat,
         NEW decision \in {"ALLOW", "DENY", "ESCALATE"}, NEW reason \in Why,
         NEW key \in Keys \cup {None}, NEW parent \in AuthIds \cup {None}, NEW exp \in Nat,
         NEW hasToken \in BOOLEAN,
         NEW ds, ds = decisionRecords(a, g, now, amount, decision, reason, key, parent, exp, hasToken)
  PROVE  ExactDecision(ds, a, g, now, amount, decision, reason, key, parent, exp, hasToken)
<1> DEFINE base == [NoEvent EXCEPT !.a = a, !.g = g, !.ts = now, !.amount = amount]
           d == [base EXCEPT !.kind = "decision", !.decision = decision, !.reason = reason,
                             !.key = key, !.parent = parent]
           h == [base EXCEPT !.kind = "reservation", !.exp = exp, !.token = hasToken]
           q == [base EXCEPT !.kind = "approval_request"]
           c == [base EXCEPT !.kind = "receipt", !.amount = 0]
<1>1. /\ d \in Event /\ d.kind = "decision" /\ d.a = a /\ d.g = g /\ d.ts = now /\ d.amount = amount
      /\ d.decision = decision /\ d.reason = reason /\ d.key = key /\ d.parent = parent
  BY DEF Event, NoEvent, Kinds, Decisions, Outcomes
<1>2. /\ h \in Event /\ h.kind = "reservation" /\ h.a = a /\ h.g = g /\ h.ts = now /\ h.amount = amount
      /\ h.exp = exp /\ h.token = hasToken /\ h.late = FALSE
  BY DEF Event, NoEvent, Kinds, Decisions, Outcomes, Why
<1>3. q \in Event /\ q.kind = "approval_request" /\ q.a = a /\ q.g = g
  BY DEF Event, NoEvent, Kinds, Decisions, Outcomes, Why
<1>4. c \in Event /\ c.kind = "receipt" /\ c.g = g
  BY DEF Event, NoEvent, Kinds, Decisions, Outcomes, Why
<1>5. ds = <<d>> \o (IF decision = "ALLOW" THEN <<h>> ELSE <<>>)
             \o (IF decision = "ESCALATE" THEN <<q>> ELSE <<>>) \o <<c>>
  BY DEF decisionRecords
<1> HIDE DEF d, h, q, c
<1>6. \/ decision = "ALLOW" /\ ds = <<d, h, c>>
      \/ decision = "ESCALATE" /\ ds = <<d, q, c>>
      \/ decision = "DENY" /\ ds = <<d, c>>
  <2>1. <<d>> \o <<h>> = <<d, h>> /\ <<d, h>> \o <<c>> = <<d, h, c>>
    BY <1>1, <1>2, <1>4, Pair, Triple
  <2>2. <<d>> \o <<q>> = <<d, q>> /\ <<d, q>> \o <<c>> = <<d, q, c>> /\ <<d>> \o <<c>> = <<d, c>>
    BY <1>1, <1>3, <1>4, Pair, Triple
  <2>3. <<d, h>> \o <<>> = <<d, h>> /\ <<d>> \o <<>> = <<d>>
    BY <1>1, <1>2
  <2> QED
    BY <1>5, <2>1, <2>2, <2>3
<1> QED
  BY <1>1, <1>2, <1>3, <1>4, <1>6 DEF ExactDecision

\* The log and the view after a decision for any grant; e is the decision.
DecidesIn(es, v, ds, a, g, now, amount, decision, reason, key, parent, exp, hasToken) ==
  \E e \in Event, w \in View :
    /\ Grown(es \o ds, w)
    /\ e.a = a /\ e.g = g /\ e.amount = amount /\ e.decision = decision /\ e.reason = reason
    /\ e.key = key /\ e.parent = parent
    /\ g # theGrant => w = v
    /\ g = theGrant =>
         /\ Later(v, w, now)
         /\ Entered(v, w, now, e, exp, hasToken,
                    IF decision = "ESCALATE" THEN v.pend \cup {a} ELSE v.pend)

\* What a decision's records make of the fields of a view.
EnterFacts(v, w, t, e, exp, hasToken) ==
  /\ v \in View /\ w \in View /\ e \in Event /\ t \in Nat /\ e.a \in AuthIds /\ e.g = theGrant
  /\ v.life[e.a] = NoState /\ e.decision \in {"ALLOW", "DENY", "ESCALATE"}
  /\ w.policy = v.policy /\ w.budget = v.budget /\ w.late = v.late
  /\ w.dec = [v.dec EXCEPT ![e.a] = e]
  /\ w.life = [v.life EXCEPT ![e.a] = newLife(e.decision, e.amount, exp, hasToken)]
  /\ w.balance = v.balance + heldBy(e.decision, e.amount) /\ Days(v, w, t, heldBy(e.decision, e.amount))

\* A view whose fields a decision changed has that decision entered.
LEMMA EnterFields ==
  ASSUME NEW v, NEW w, NEW t, NEW e, NEW exp, NEW hasToken, EnterFacts(v, w, t, e, exp, hasToken)
  PROVE  Entered(v, w, t, e, exp, hasToken, w.pend) /\ Later(v, w, t)
<1>1. w.today[t] = v.today[t] + heldBy(e.decision, e.amount) /\ Later(v, w, t)
  BY DaysLater DEF EnterFacts
<1>2. w = [v EXCEPT !.dec = w.dec, !.life = w.life, !.balance = w.balance, !.today = w.today, !.pend = w.pend]
  BY DEF View, EnterFacts
<1>3. v.life[e.a].decision = "none"
  BY DEF NoState, EnterFacts
<1> QED
  BY <1>1, <1>2, <1>3 DEF Entered, EnterFacts

\* Days that stay are moved by nothing.
LEMMA DaysNone ==
  ASSUME NEW v \in View, NEW w \in View, NEW t, w.today = v.today
  PROVE  Days(v, w, t, 0)
<1>1. \A u \in Nat : v.today[u] \in Int
  BY DEF View
<1> QED
  BY <1>1 DEF Days

\* The records of a decision, behind a log, enter it in the view.
LEMMA DecisionView ==
  ASSUME NEW es, NEW v, Grown(es, v), NEW a \in AuthIds, NEW g \in Grants, NEW now \in Nat,
         NEW amount \in Nat, NEW decision \in {"ALLOW", "DENY", "ESCALATE"}, NEW reason, NEW key,
         NEW parent, NEW exp \in Nat, NEW hasToken \in BOOLEAN, \A i \in DOMAIN es : es[i].a # a,
         NEW ds, ExactDecision(ds, a, g, now, amount, decision, reason, key, parent, exp, hasToken)
  PROVE  DecidesIn(es, v, ds, a, g, now, amount, decision, reason, key, parent, exp, hasToken)
<1>1. PICK d \in Event, h \in Event, q \in Event, c \in Event :
        /\ d.kind = "decision" /\ d.a = a /\ d.g = g /\ d.ts = now /\ d.amount = amount
        /\ d.decision = decision /\ d.reason = reason /\ d.key = key /\ d.parent = parent
        /\ h.kind = "reservation" /\ h.a = a /\ h.g = g /\ h.ts = now /\ h.amount = amount
        /\ h.exp = exp /\ h.token = hasToken /\ h.late = FALSE
        /\ q.kind = "approval_request" /\ q.a = a /\ q.g = g
        /\ c.kind = "receipt" /\ c.g = g
        /\ \/ decision = "ALLOW" /\ ds = <<d, h, c>>
           \/ decision = "ESCALATE" /\ ds = <<d, q, c>>
           \/ decision = "DENY" /\ ds = <<d, c>>
  BY DEF ExactDecision
<1> DEFINE one == Append(es, d)
           w1 == viewStep(v, d)
<1>2. es \in Seq(Event) /\ view(es) = v
  BY DEF Grown, Good
<1>3. Proper(es, d)
  BY <1>1 DEF Proper, LifeKinds
<1>4. /\ Grown(one, w1) /\ one \in Seq(Event) /\ v \in View /\ w1 \in View
      /\ g # theGrant => w1 = v
  <2>1. Grown(one, w1) /\ v \in View /\ w1 \in View /\ (g # theGrant => w1 = v)
    BY <1>1, <1>3, GrownNext
  <2> HIDE DEF one
  <2> QED
    BY <2>1 DEF Grown, Good
<1>5. Owner(one, a, g)
  <2>1. Len(es) + 1 \in DOMAIN one /\ one[Len(es) + 1] = d
    BY <1>1, <1>2, AppendPlaces
  <2> HIDE DEF one
  <2> QED
    BY <1>1, <2>1 DEF Owner
<1>6. ~Logged(one, "approval_decision", a)
  <2>1. /\ \A i \in DOMAIN es : one[i] = es[i]
        /\ one[Len(es) + 1] = d /\ \A i \in DOMAIN one : i \in DOMAIN es \/ i = Len(es) + 1
    BY <1>1, <1>2, AppendPlaces
  <2> HIDE DEF one
  <2> QED
    BY <1>1, <2>1 DEF Logged
<1>7. v.life[a] = NoState
  <2>1. railState(es, a) = NoState
    BY <1>2, LifeUnknown
  <2> QED
    BY <1>2, <2>1 DEF view, lifeOf
<1>8. g = theGrant =>
        /\ Settles(v, w1) /\ Bare(v, w1) /\ w1.pend = v.pend
        /\ w1.dec = [v.dec EXCEPT ![a] = d]
        /\ w1.life = [v.life EXCEPT ![a] = onDecision(NoState, decision, amount)]
  <2> SUFFICES ASSUME g = theGrant
               PROVE  /\ Settles(v, w1) /\ Bare(v, w1) /\ w1.pend = v.pend
                      /\ w1.dec = [v.dec EXCEPT ![a] = d]
                      /\ w1.life = [v.life EXCEPT ![a] = onDecision(NoState, decision, amount)]
    OBVIOUS
  <2>1. Settles(v, w1) /\ Bare(v, w1)
    BY <1>1, <1>4, StepStill, StepBare
  <2>2. w1.pend = v.pend /\ Enrolls(v, w1, d) /\ Lives(v, w1, a, lifeStep(a, v.life[a], d))
    BY <1>1, <1>4, StepLife DEF LifeKinds
  <2>3. lifeStep(a, v.life[a], d) = onDecision(NoState, decision, amount)
    BY <1>1, <1>7 DEF lifeStep
  <2> QED
    BY <1>1, <2>1, <2>2, <2>3 DEF Enrolls, Lives
<1> HIDE DEF one, w1
<1>9. CASE decision = "ALLOW"
  <2> PICK two : two = Append(one, h)
    OBVIOUS
  <2> PICK w2 : w2 = viewStep(w1, h)
    OBVIOUS
  <2>1. ds = <<d, h, c>>
    BY <1>1, <1>9
  <2>2. Proper(one, h)
    BY <1>1, <1>4, <1>5 DEF Proper, LifeKinds
  <2>3. Grown(two, w2) /\ w2 \in View /\ (g # theGrant => w2 = w1)
    BY <1>1, <1>4, <2>2, GrownNext
  <2>4. Proper(two, c)
    BY <1>1 DEF Proper, LifeKinds
  <2>5. Grown(Append(two, c), w2)
    BY <1>1, <2>3, <2>4, GrownNext, StepReceipt
  <2>6. es \o ds = Append(two, c)
    BY <1>1, <1>2, <2>1 DEF one
  <2>7. ASSUME g = theGrant
        PROVE  /\ Later(v, w2, now)
               /\ Entered(v, w2, now, d, exp, hasToken, v.pend)
    <3>1. /\ w2.balance = w1.balance + amount /\ Days(w1, w2, now, amount) /\ w2.late = w1.late
      BY <1>1, <1>4, <2>7, StepMoves
    <3>2. /\ w2.pend = w1.pend /\ w2.dec = w1.dec
          /\ w2.life = [w1.life EXCEPT ![a] = lifeStep(a, w1.life[a], h)]
      <4>1. w2.pend = w1.pend /\ w2.dec = w1.dec /\ Lives(w1, w2, a, lifeStep(a, w1.life[a], h))
        BY <1>1, <1>4, <2>7, StepLife DEF LifeKinds
      <4> QED
        BY <4>1 DEF Lives
    <3>3. Bare(w1, w2)
      BY <1>1, <1>4, <2>7, StepBare
    <3>4. w1.life[a] = onDecision(NoState, decision, amount) /\ v.life \in [AuthIds -> Lifecycle]
      BY <1>4, <1>8, <2>7 DEF View
    <3>5. lifeStep(a, w1.life[a], h) = newLife(decision, amount, exp, hasToken)
      BY <1>1, <1>9, <3>4 DEF lifeStep, newLife, onReservation, onDecision, NoState
    <3>6. w2.life = [v.life EXCEPT ![a] = newLife(decision, amount, exp, hasToken)]
      BY <1>8, <2>7, <3>2, <3>4, <3>5
    <3>7. Days(v, w2, now, amount)
      BY <1>8, <2>7, <3>1 DEF Days, Settles
    <3>8. amount = heldBy(d.decision, d.amount)
      BY <1>1, <1>9 DEF heldBy
    <3>9. /\ w2.policy = v.policy /\ w2.budget = v.budget /\ w2.late = v.late /\ w2.pend = v.pend
          /\ w2.dec = [v.dec EXCEPT ![d.a] = d]
          /\ w2.life = [v.life EXCEPT ![d.a] = newLife(d.decision, d.amount, exp, hasToken)]
          /\ w2.balance = v.balance + heldBy(d.decision, d.amount)
          /\ Days(v, w2, now, heldBy(d.decision, d.amount))
      BY <1>1, <1>8, <2>7, <3>1, <3>2, <3>3, <3>6, <3>7, <3>8 DEF Settles, Bare
    <3>10. v \in View /\ w2 \in View /\ d.a \in AuthIds /\ d.g = theGrant /\ v.life[d.a] = NoState
           /\ d.decision \in {"ALLOW", "DENY", "ESCALATE"}
      BY <1>1, <1>4, <1>7, <2>3, <2>7
    <3>20. EnterFacts(v, w2, now, d, exp, hasToken)
      BY <3>9, <3>10 DEF EnterFacts
    <3>11. Entered(v, w2, now, d, exp, hasToken, w2.pend) /\ Later(v, w2, now)
      BY <3>20, EnterFields
    <3> QED
      BY <3>9, <3>11
  <2> QED
    BY <1>1, <1>4, <1>9, <2>3, <2>5, <2>6, <2>7 DEF DecidesIn
<1>10. CASE decision = "ESCALATE"
  <2> PICK two : two = Append(one, q)
    OBVIOUS
  <2> PICK w2 : w2 = viewStep(w1, q)
    OBVIOUS
  <2>1. ds = <<d, q, c>>
    BY <1>1, <1>10
  <2>2. Proper(one, q)
    BY <1>1, <1>4, <1>5, <1>6 DEF Proper, LifeKinds
  <2>3. Grown(two, w2) /\ w2 \in View /\ (g # theGrant => w2 = w1)
    BY <1>1, <1>4, <2>2, GrownNext
  <2>4. Proper(two, c)
    BY <1>1, Zenon DEF Proper, LifeKinds
  <2>5. Grown(Append(two, c), w2)
    <3>1. Grown(Append(two, c), viewStep(w2, c)) /\ viewStep(w2, c) \in View
      BY <2>3, <2>4, GrownNext
    <3>2. viewStep(w2, c) = w2
      BY <1>1, <2>3, <3>1, StepReceipt
    <3> QED
      BY <3>1, <3>2
  <2>6. es \o ds = Append(two, c)
    BY <1>1, <1>2, <2>1 DEF one
  <2>7. ASSUME g = theGrant
        PROVE  /\ Later(v, w2, now)
               /\ Entered(v, w2, now, d, exp, hasToken, v.pend \cup {a})
    <3>1. Settles(w1, w2) /\ Bare(w1, w2) /\ Named(w1, w2)
      BY <1>1, <1>4, <2>7, StepStill, StepBare, StepNamed DEF LifeKinds
    <3>2. w2.pend = w1.pend \cup {a}
      BY <1>1, <2>7 DEF viewStep
    <3>3. onDecision(NoState, decision, amount) = newLife(decision, amount, exp, hasToken)
      BY <1>10 DEF newLife
    <3>4. v.balance \in Int /\ w2.today = v.today
      BY <1>4, <1>8, <2>7, <3>1 DEF View, Settles
    <3>6. heldBy(d.decision, d.amount) = 0
      BY <1>1, <1>10 DEF heldBy
    <3>5. Days(v, w2, now, heldBy(d.decision, d.amount))
      BY <1>4, <2>3, <3>4, <3>6, DaysNone
    <3>7. w2.balance = v.balance + heldBy(d.decision, d.amount) /\ w2.late = v.late /\ w2.policy = v.policy /\ w2.budget = v.budget
      BY <1>8, <2>7, <3>1, <3>4, <3>6 DEF Settles, Bare
    <3>8. w2.dec = [v.dec EXCEPT ![d.a] = d] /\ w2.pend = v.pend \cup {a}
          /\ w2.life = [v.life EXCEPT ![d.a] = newLife(d.decision, d.amount, exp, hasToken)]
      BY <1>1, <1>8, <2>7, <3>1, <3>2, <3>3 DEF Named
    <3>9. v \in View /\ w2 \in View /\ d.a \in AuthIds /\ d.g = theGrant /\ v.life[d.a] = NoState
          /\ d.decision \in {"ALLOW", "DENY", "ESCALATE"}
      BY <1>1, <1>4, <1>7, <2>3, <2>7
    <3>20. EnterFacts(v, w2, now, d, exp, hasToken)
      BY <3>5, <3>7, <3>8, <3>9 DEF EnterFacts
    <3>10. Entered(v, w2, now, d, exp, hasToken, w2.pend) /\ Later(v, w2, now)
      BY <3>20, EnterFields
    <3> QED
      BY <3>8, <3>10
  <2> QED
    BY <1>1, <1>4, <1>10, <2>3, <2>5, <2>6, <2>7 DEF DecidesIn
<1>11. CASE decision = "DENY"
  <2>1. ds = <<d, c>>
    BY <1>1, <1>11
  <2>2. Proper(one, c)
    BY <1>1 DEF Proper, LifeKinds
  <2>3. Grown(Append(one, c), w1)
    BY <1>1, <1>4, <2>2, GrownNext, StepReceipt
  <2>4. es \o ds = Append(one, c)
    BY <1>1, <1>2, <2>1 DEF one
  <2>5. ASSUME g = theGrant
        PROVE  /\ Later(v, w1, now)
               /\ Entered(v, w1, now, d, exp, hasToken, v.pend)
    <3>1. onDecision(NoState, decision, amount) = newLife(decision, amount, exp, hasToken)
      BY <1>11 DEF newLife
    <3>2. v.balance \in Int /\ w1.today = v.today
      BY <1>4, <1>8, <2>5 DEF View, Settles
    <3>3. heldBy(d.decision, d.amount) = 0
      BY <1>1, <1>11 DEF heldBy
    <3>4. Days(v, w1, now, heldBy(d.decision, d.amount))
      BY <1>4, <3>2, <3>3, DaysNone
    <3>5. /\ w1.balance = v.balance + heldBy(d.decision, d.amount)
          /\ w1.late = v.late /\ w1.policy = v.policy /\ w1.budget = v.budget
      BY <1>8, <2>5, <3>2, <3>3 DEF Settles, Bare
    <3>6. w1.dec = [v.dec EXCEPT ![d.a] = d] /\ w1.pend = v.pend
          /\ w1.life = [v.life EXCEPT ![d.a] = newLife(d.decision, d.amount, exp, hasToken)]
      BY <1>1, <1>8, <2>5, <3>1
    <3>7. v \in View /\ w1 \in View /\ d.a \in AuthIds /\ d.g = theGrant /\ v.life[d.a] = NoState
          /\ d.decision \in {"ALLOW", "DENY", "ESCALATE"}
      BY <1>1, <1>4, <1>7, <2>5
    <3>20. EnterFacts(v, w1, now, d, exp, hasToken)
      BY <3>4, <3>5, <3>6, <3>7 DEF EnterFacts
    <3>8. Entered(v, w1, now, d, exp, hasToken, w1.pend) /\ Later(v, w1, now)
      BY <3>20, EnterFields
    <3> QED
      BY <3>6, <3>8
  <2> QED
    BY <1>1, <1>4, <1>11, <2>3, <2>4, <2>5 DEF DecidesIn
<1> QED
  BY <1>9, <1>10, <1>11

-----------------------------------------------------------------------------
(* A report of the log as a step of the view. *)

ExactReport(rs, s, a, g, outcome, by, now) ==
  \E x \in Event, y \in Event :
    /\ x.a = a /\ x.g = g /\ x.by = by
    /\ y.a = a /\ y.g = g /\ y.ts = now /\ y.amount = s.amount /\ y.exp = 0 /\ y.token = FALSE
    /\ outcome = "submitted" => rs = <<x>> /\ x.kind = "submission" /\ x.exp = now + GRACE
    /\ outcome # "submitted" => x.kind = "settlement" /\ x.outcome = outcome
    /\ outcome = "failed" => x.late = FALSE
    /\ outcome = "failed" /\ s.reserved => rs = <<y, x>> /\ y.kind = "reversal"
    /\ outcome = "failed" /\ ~s.reserved => rs = <<x>>
    /\ outcome = "settled" /\ s.reserved => rs = <<x>> /\ x.late = FALSE
    /\ outcome = "settled" /\ ~s.reserved => rs = <<y, x>> /\ y.kind = "reservation" /\ y.late = TRUE /\ x.late = TRUE

\* The records of a report are the outcome, and before it what it moves.
LEMMA ReportExact ==
  ASSUME NEW s \in Lifecycle, NEW a \in AuthIds, NEW g \in Grants,
         NEW outcome \in Outcomes \ {"none"}, NEW by \in Reporters, NEW now \in Nat,
         NEW rs, rs = reportEvents(s, a, g, outcome, by, now)
  PROVE  ExactReport(rs, s, a, g, outcome, by, now)
<1> DEFINE base == [NoEvent EXCEPT !.a = a, !.g = g, !.ts = now]
           ended == [base EXCEPT !.kind = "settlement", !.outcome = outcome, !.by = by]
           sub == [base EXCEPT !.kind = "submission", !.by = by, !.exp = now + GRACE]
           back == [base EXCEPT !.kind = "reversal", !.amount = s.amount]
           again == [base EXCEPT !.kind = "reservation", !.amount = s.amount, !.late = TRUE]
           done == [ended EXCEPT !.late = ~s.reserved]
<1>2. s.amount \in Nat /\ s.reserved \in BOOLEAN
  BY DEF Lifecycle
<1>3. now + GRACE \in Nat
  BY ServerAssumption
<1>4. ended \in Event /\ sub \in Event
  BY <1>2, <1>3 DEF Event, NoEvent, Kinds, Decisions, Outcomes, Why
<1>5. back \in Event /\ again \in Event /\ done \in Event
  <2>1. back \in Event
    BY <1>2 DEF Event, NoEvent, Kinds, Decisions, Outcomes, Why
  <2>2. again \in Event
    BY <1>2 DEF Event, NoEvent, Kinds, Decisions, Outcomes, Why
  <2>3. done \in Event
    BY <1>2, ZenonT(40) DEF Event, NoEvent, Kinds, Decisions, Outcomes, Why
  <2> QED
    BY <2>1, <2>2, <2>3
<1>6. /\ ended.a = a /\ ended.g = g /\ ended.by = by /\ ended.kind = "settlement" /\ ended.outcome = outcome
      /\ ended.late = FALSE
      /\ sub.a = a /\ sub.g = g /\ sub.by = by /\ sub.kind = "submission" /\ sub.exp = now + GRACE
      /\ done.a = a /\ done.g = g /\ done.by = by /\ done.kind = "settlement" /\ done.outcome = outcome
      /\ done.late = ~s.reserved
  BY DEF NoEvent
<1>7. /\ back.a = a /\ back.g = g /\ back.ts = now /\ back.amount = s.amount /\ back.exp = 0 /\ back.token = FALSE
      /\ back.kind = "reversal"
      /\ again.a = a /\ again.g = g /\ again.ts = now /\ again.amount = s.amount /\ again.exp = 0
      /\ again.token = FALSE /\ again.kind = "reservation" /\ again.late = TRUE
  BY DEF NoEvent
<1>8. /\ outcome = "submitted" => rs = <<sub>>
      /\ outcome = "failed" => rs = (IF s.reserved THEN <<back>> ELSE <<>>) \o <<ended>>
      /\ outcome = "settled" => rs = (IF ~s.reserved THEN <<again>> ELSE <<>>) \o <<done>>
  BY DEF reportEvents
<1> HIDE DEF ended, sub, back, again, done
<1>9. outcome \in {"submitted", "failed", "settled"}
  BY DEF Outcomes
<1>10. <<back>> \o <<ended>> = <<back, ended>> /\ <<again>> \o <<done>> = <<again, done>>
      /\ <<>> \o <<ended>> = <<ended>> /\ <<>> \o <<done>> = <<done>>
  BY <1>4, <1>5, Pair
<1>11. CASE outcome = "submitted"
  BY <1>4, <1>5, <1>6, <1>7, <1>8, <1>11 DEF ExactReport
<1>12. CASE outcome = "failed"
  <2>1. rs = IF s.reserved THEN <<back, ended>> ELSE <<ended>>
    BY <1>2, <1>8, <1>10, <1>12
  <2> QED
    BY <1>4, <1>5, <1>6, <1>7, <1>12, <2>1 DEF ExactReport
<1>13. CASE outcome = "settled"
  <2>1. rs = IF s.reserved THEN <<done>> ELSE <<again, done>>
    BY <1>2, <1>8, <1>10, <1>13
  <2> QED
    BY <1>2, <1>4, <1>5, <1>6, <1>7, <1>13, <2>1 DEF ExactReport
<1> QED
  BY <1>9, <1>11, <1>12, <1>13

\* The lifecycle of a becomes s, m has moved, n of it late.
Becomes(v, w, t, a, s, m, n) ==
  /\ Bare(v, w) /\ w.pend = v.pend /\ w.dec = v.dec /\ Lives(v, w, a, s)
  /\ w.balance = v.balance + m /\ Days(v, w, t, m) /\ w.late = v.late + n

\* So it is in the log fs, when g is the grant.
BecomesIn(fs, v, g, t, a, s, m, n) ==
  \E w \in View : /\ Grown(fs, w) /\ (g # theGrant => w = v)
                  /\ g = theGrant => Becomes(v, w, t, a, s, m, n)

\* a was decided in es, whose view is v, for g; x ends a report of it, with c.
Decided(es, v, a, g) == Grown(es, v) /\ a \in AuthIds /\ g \in Grants /\ Owner(es, a, g)
Ending(x, c, a, g) ==
  /\ x \in Event /\ x.a = a /\ x.g = g /\ x.kind \in {"submission", "settlement"}
  /\ c \in Event /\ c.kind = "receipt"

\* A report that moves no amount.
LEMMA ReportEnd ==
  ASSUME NEW es, NEW v, NEW a, NEW g, Decided(es, v, a, g), NEW x, NEW c, Ending(x, c, a, g), NEW t
  PROVE  BecomesIn(Append(Append(es, x), c), v, g, t, a, lifeStep(a, v.life[a], x), 0, 0)
<1>0. /\ Grown(es, v) /\ a \in AuthIds /\ g \in Grants /\ Owner(es, a, g)
      /\ x \in Event /\ x.a = a /\ x.g = g /\ x.kind \in {"submission", "settlement"}
      /\ c \in Event /\ c.kind = "receipt"
  BY DEF Decided, Ending
<1> PICK one : one = Append(es, x)
  OBVIOUS
<1> PICK w : w = viewStep(v, x)
  OBVIOUS
<1>1. Proper(es, x)
  BY <1>0 DEF Proper, LifeKinds
<1>2. Grown(one, w) /\ v \in View /\ w \in View /\ (g # theGrant => w = v)
  BY <1>0, <1>1, GrownNext
<1>3. Proper(one, c)
  BY <1>0 DEF Proper, LifeKinds
<1>4. Grown(Append(one, c), w)
  BY <1>0, <1>2, <1>3, GrownNext, StepReceipt, ZenonT(40)
<1>5. ASSUME g = theGrant
      PROVE  Becomes(v, w, t, a, lifeStep(a, v.life[a], x), 0, 0)
  <2>1. Settles(v, w) /\ Bare(v, w)
    BY <1>0, <1>2, <1>5, StepStill, StepBare
  <2>2. w.pend = v.pend /\ w.dec = v.dec /\ Lives(v, w, a, lifeStep(a, v.life[a], x))
    BY <1>0, <1>2, <1>5, StepLife DEF LifeKinds
  <2>3. v.balance \in Int /\ v.late \in Int
    BY <1>2 DEF View
  <2>4. Days(v, w, t, 0)
    BY <1>2, <2>1, DaysNone DEF Settles
  <2> QED
    BY <2>1, <2>2, <2>3, <2>4 DEF Becomes, Settles
<1> QED
  BY <1>2, <1>4, <1>5 DEF BecomesIn

\* The record y before it that moves its amount.
LEMMA ReportTwo ==
  ASSUME NEW es, NEW v, NEW a, NEW g, Decided(es, v, a, g), NEW x, NEW c, Ending(x, c, a, g),
         NEW y \in Event, y.a = a, y.g = g, y.kind \in {"reservation", "reversal"}, NEW t, t = y.ts,
         NEW m \in Int, m = (IF y.kind = "reservation" THEN y.amount ELSE -y.amount),
         NEW n \in Int, n = (IF y.late /\ y.kind = "reservation" THEN y.amount ELSE 0)
  PROVE  BecomesIn(Append(Append(Append(es, y), x), c), v, g, t, a,
                   lifeStep(a, lifeStep(a, v.life[a], y), x), m, n)
<1>0. Grown(es, v) /\ a \in AuthIds /\ g \in Grants /\ Owner(es, a, g)
  BY DEF Decided
<1> PICK one : one = Append(es, y)
  OBVIOUS
<1> PICK w1 : w1 = viewStep(v, y)
  OBVIOUS
<1>1. Proper(es, y)
  BY <1>0 DEF Proper, LifeKinds
<1>2. Grown(one, w1) /\ v \in View /\ w1 \in View /\ (g # theGrant => w1 = v)
  BY <1>0, <1>1, GrownNext
<1>3. Decided(one, w1, a, g)
  BY <1>0, <1>2, OwnerAppend DEF Grown, Good, Decided
<1>4. PICK w \in View :
        /\ Grown(Append(Append(one, x), c), w) /\ (g # theGrant => w = w1)
        /\ g = theGrant => Becomes(w1, w, t, a, lifeStep(a, w1.life[a], x), 0, 0)
  <2>1. BecomesIn(Append(Append(one, x), c), w1, g, t, a, lifeStep(a, w1.life[a], x), 0, 0)
    BY <1>3, ReportEnd
  <2> QED
    BY <2>1 DEF BecomesIn
<1>5. ASSUME g = theGrant
      PROVE  Becomes(v, w, t, a, lifeStep(a, lifeStep(a, v.life[a], y), x), m, n)
  <2>1. /\ w1.balance = v.balance + m /\ Days(v, w1, t, m)
        /\ w1.late = IF y.late /\ y.kind = "reservation" THEN v.late + y.amount ELSE v.late
    BY <1>0, <1>2, <1>5, StepMoves
  <2>2. w1.pend = v.pend /\ w1.dec = v.dec /\ Lives(v, w1, a, lifeStep(a, v.life[a], y))
    BY <1>0, <1>2, <1>5, StepLife DEF LifeKinds
  <2>3. Bare(v, w1)
    BY <1>0, <1>2, <1>5, StepBare
  <2>4. /\ Bare(w1, w) /\ w.pend = w1.pend /\ w.dec = w1.dec /\ Lives(w1, w, a, lifeStep(a, w1.life[a], x))
        /\ w.balance = w1.balance + 0 /\ Days(w1, w, t, 0) /\ w.late = w1.late + 0
    BY <1>4, <1>5 DEF Becomes
  <2>5. /\ v.balance \in Int /\ v.late \in Int /\ w1.balance \in Int /\ w1.late \in Int
        /\ v.life \in [AuthIds -> Lifecycle] /\ v.today \in [Nat -> Int] /\ w1.today \in [Nat -> Int]
    BY <1>2 DEF View
  <2>10. y.amount \in Nat
    BY DEF Event
  <2>6. w.balance = v.balance + m /\ w.late = v.late + n
    BY <2>1, <2>4, <2>5, <2>10
  <2>7. Days(v, w, t, m)
    <3> SUFFICES ASSUME NEW u \in Nat
                 PROVE  w.today[u] = IF t >= utcDayStart(u) THEN v.today[u] + m ELSE v.today[u]
      BY DEF Days
    <3>1. w1.today[u] = IF t >= utcDayStart(u) THEN v.today[u] + m ELSE v.today[u]
      BY <2>1 DEF Days
    <3>2. w.today[u] = IF t >= utcDayStart(u) THEN w1.today[u] + 0 ELSE w1.today[u]
      BY <2>4 DEF Days
    <3>3. w1.today[u] \in Int
      BY <2>5
    <3> QED
      BY <3>1, <3>2, <3>3
  <2>8. Lives(v, w, a, lifeStep(a, lifeStep(a, v.life[a], y), x))
    <3>1. w1.life[a] = lifeStep(a, v.life[a], y)
      BY <1>0, <2>2, <2>5 DEF Lives
    <3>2. w1.life = [v.life EXCEPT ![a] = w1.life[a]]
      BY <2>2, <3>1 DEF Lives
    <3>3. w.life = [w1.life EXCEPT ![a] = lifeStep(a, lifeStep(a, v.life[a], y), x)]
      BY <2>4, <3>1 DEF Lives
    <3> PICK s1 : s1 = w1.life[a]
      OBVIOUS
    <3> PICK s2 : s2 = lifeStep(a, lifeStep(a, v.life[a], y), x)
      OBVIOUS
    <3>4. [[v.life EXCEPT ![a] = s1] EXCEPT ![a] = s2] = [v.life EXCEPT ![a] = s2]
      BY <2>5
    <3> QED
      BY <3>2, <3>3, <3>4 DEF Lives
  <2>9. Bare(v, w) /\ w.pend = v.pend /\ w.dec = v.dec
    BY <2>2, <2>3, <2>4 DEF Bare
  <2> QED
    BY <2>6, <2>7, <2>8, <2>9 DEF Becomes
<1> QED
  BY <1>2, <1>4, <1>5 DEF BecomesIn

\* Of an authorization of the grant, the view has what the log says.
LEMMA DecidedLife ==
  ASSUME NEW es, NEW v, NEW a, Decided(es, v, a, theGrant)
  PROVE  /\ v.life[a] = railState(es, a) /\ v.dec[a].g = theGrant
         /\ railState(es, a) \in Lifecycle /\ v \in View
<1>1. es \in Seq(Event) /\ Unique(es) /\ view(es) = v /\ a \in AuthIds
  BY DEF Decided, Grown, Good
<1>2. decisionOf(es, a).g = theGrant
  BY <1>1, OwnerIs DEF Decided
<1>3. v.life[a] = lifeOf(es, a) /\ v.dec[a] = decidedOf(es, a)
  BY <1>1 DEF view
<1> QED
  BY <1>1, <1>2, <1>3, LifeType, ViewType DEF lifeOf, decidedOf

\* What is not held is not given back, and what is held is not taken again.
LEMMA LifeIgnored ==
  ASSUME NEW s \in Lifecycle
  PROVE  /\ ~s.reserved => onReversal(s) = s
         /\ s.reserved => onReservation(s, 0, FALSE) = s
<1>1. /\ s.reserved \in BOOLEAN /\ s.token \in BOOLEAN
      /\ s = [decision |-> s.decision, amount |-> s.amount, reserved |-> s.reserved, deadline |-> s.deadline,
              token |-> s.token, outcome |-> s.outcome, reportedBy |-> s.reportedBy, late |-> s.late]
  BY DEF Lifecycle
<1>2. ~s.reserved => onReversal(s) = s
  BY <1>1 DEF onReversal
<1>3. s.reserved => onReservation(s, 0, FALSE) = s
  BY <1>1 DEF onReservation
<1> QED
  BY <1>2, <1>3

\* The last record of a report, and the record before it that moves the amount.
Reporting(s, a, by, now, outcome, x) ==
  /\ outcome \in {"submitted", "failed", "settled"} /\ x.a = a /\ x.by = by
  /\ outcome = "submitted" => x.kind = "submission" /\ x.exp = now + GRACE
  /\ outcome = "failed" => x.kind = "settlement" /\ x.outcome = "failed" /\ x.late = FALSE
  /\ outcome = "settled" => x.kind = "settlement" /\ x.outcome = "settled" /\ x.late = ~s.reserved
Moving(s, a, outcome, y) ==
  /\ y.a = a
  /\ \/ outcome = "failed" /\ y.kind = "reversal"
     \/ /\ outcome = "settled" /\ y.kind = "reservation"
        /\ y.amount = s.amount /\ y.exp = 0 /\ y.token = FALSE
Plain(s, outcome) ==
  outcome = "submitted" \/ (outcome = "failed" /\ ~s.reserved) \/ (outcome = "settled" /\ s.reserved)

\* The lifecycle after a report that moves no amount.
LEMMA PlainLife ==
  ASSUME NEW s \in Lifecycle, NEW a, NEW by, NEW now, NEW outcome, NEW x,
         Reporting(s, a, by, now, outcome, x), Plain(s, outcome)
  PROVE  lifeStep(a, s, x) = reported(s, outcome, by, now)
<1>1. CASE outcome = "submitted"
  BY <1>1 DEF Reporting, lifeStep, reported
<1>2. CASE outcome = "failed" /\ ~s.reserved
  BY <1>2, LifeIgnored DEF Reporting, lifeStep, reported
<1>3. CASE outcome = "settled" /\ s.reserved
  <2>1. lifeStep(a, s, x) = onSettlement(s, "settled", by, x.late)
    BY <1>3 DEF lifeStep, Reporting
  <2>2. reported(s, outcome, by, now) = onSettlement(s, "settled", by, ~s.reserved)
    BY <1>3, LifeIgnored DEF reported
  <2>3. x.late = ~s.reserved
    BY <1>3 DEF Reporting
  <2> QED
    BY <2>1, <2>2, <2>3
<1> QED
  BY <1>1, <1>2, <1>3 DEF Plain

\* The lifecycle after a report that moves its amount.
LEMMA MovingLife ==
  ASSUME NEW s \in Lifecycle, NEW a, NEW by, NEW now, NEW outcome, NEW x, NEW y,
         Reporting(s, a, by, now, outcome, x), Moving(s, a, outcome, y)
  PROVE  lifeStep(a, lifeStep(a, s, y), x) = reported(s, outcome, by, now)
<1>1. CASE outcome = "failed" /\ y.kind = "reversal"
  BY <1>1 DEF Reporting, Moving, lifeStep, reported
<1>2. CASE outcome = "settled" /\ y.kind = "reservation" /\ y.amount = s.amount /\ y.exp = 0 /\ y.token = FALSE
  <2>1. lifeStep(a, s, y) = [onReservation(s, 0, FALSE) EXCEPT !.amount = s.amount]
    BY <1>2 DEF lifeStep, Moving
  <2>2. [onReservation(s, 0, FALSE) EXCEPT !.amount = s.amount] = onReservation(s, 0, FALSE)
    BY DEF onReservation, Lifecycle
  <2> QED
    BY <1>2, <2>1, <2>2 DEF Reporting, lifeStep, reported
<1> QED
  BY <1>1, <1>2 DEF Moving

\* What a report makes of the log and of the view.
ReportsIn(es, v, rs, a, g, s, outcome, by, now) ==
  \E w \in View :
    /\ Grown(es \o rs, w) /\ (g # theGrant => w = v)
    /\ g = theGrant => /\ s = v.life[a]
                       /\ Becomes(v, w, now, a, reported(s, outcome, by, now),
                                  takes(s, outcome) - gives(s, outcome), takes(s, outcome))

\* The records of a report, behind a log, are what it makes of the view.
LEMMA ReportView ==
  ASSUME NEW es, NEW v, NEW a, NEW g, Decided(es, v, a, g), NEW s, s = railState(es, a),
         NEW outcome \in {"submitted", "failed", "settled"}, NEW by, NEW now \in Nat,
         NEW rs, ExactReport(rs, s, a, g, outcome, by, now),
         NEW c \in Event, c.kind = "receipt"
  PROVE  ReportsIn(es, v, Append(rs, c), a, g, s, outcome, by, now)
<1>1. PICK x \in Event, y \in Event :
    /\ x.a = a /\ x.g = g /\ x.by = by
    /\ y.a = a /\ y.g = g /\ y.ts = now /\ y.amount = s.amount /\ y.exp = 0 /\ y.token = FALSE
    /\ outcome = "submitted" => rs = <<x>> /\ x.kind = "submission" /\ x.exp = now + GRACE
    /\ outcome # "submitted" => x.kind = "settlement" /\ x.outcome = outcome
    /\ outcome = "failed" => x.late = FALSE
    /\ outcome = "failed" /\ s.reserved => rs = <<y, x>> /\ y.kind = "reversal"
    /\ outcome = "failed" /\ ~s.reserved => rs = <<x>>
    /\ outcome = "settled" /\ s.reserved => rs = <<x>> /\ x.late = FALSE
    /\ outcome = "settled" /\ ~s.reserved => rs = <<y, x>> /\ y.kind = "reservation" /\ y.late = TRUE /\ x.late = TRUE
  BY DEF ExactReport
<1>0. x.a = a /\ x.by = by
  BY <1>1
<1>2. es \in Seq(Event) /\ Grown(es, v) /\ a \in AuthIds
  BY DEF Decided, Grown, Good
<1>3. s \in Lifecycle /\ s.amount \in Nat /\ s.reserved \in BOOLEAN
  BY <1>2, LifeType DEF Lifecycle
<1>4. Ending(x, c, a, g)
  BY <1>1 DEF Ending
<1>5. g = theGrant => v.life[a] = s
  BY DecidedLife
<1>6. /\ es \o Append(<<x>>, c) = Append(Append(es, x), c)
      /\ es \o Append(<<y, x>>, c) = Append(Append(Append(es, y), x), c)
  BY <1>2
<1>10. Reporting(s, a, by, now, outcome, x)
  BY <1>1, <1>3 DEF Reporting
<1> PICK fs : fs = es \o Append(rs, c)
  OBVIOUS
<1>7. CASE outcome = "submitted" \/ (outcome = "failed" /\ ~s.reserved) \/ (outcome = "settled" /\ s.reserved)
  <2>1. fs = Append(Append(es, x), c)
    BY <1>1, <1>6, <1>7
  <2>2. BecomesIn(fs, v, g, now, a, lifeStep(a, v.life[a], x), 0, 0)
    <3>1. BecomesIn(Append(Append(es, x), c), v, g, now, a, lifeStep(a, v.life[a], x), 0, 0)
      BY <1>4, ReportEnd
    <3> QED
      BY <2>1, <3>1
  <2>3. lifeStep(a, s, x) = reported(s, outcome, by, now)
    <3>1. Plain(s, outcome)
      BY <1>7 DEF Plain
    <3> QED
      BY <1>3, <1>10, <3>1, PlainLife
  <2>4. takes(s, outcome) - gives(s, outcome) = 0 /\ takes(s, outcome) = 0
    BY <1>3, <1>7 DEF takes, gives
  <2>5. g = theGrant => lifeStep(a, v.life[a], x) = reported(s, outcome, by, now)
    BY <1>5, <2>3
  <2> QED
    BY <1>5, <2>2, <2>4, <2>5 DEF BecomesIn, ReportsIn
<1>8. CASE outcome = "failed" /\ s.reserved
  <2> PICK m \in Int : m = -s.amount
    BY <1>3
  <2>1. /\ y.kind = "reversal" /\ rs = <<y, x>>
        /\ y \in Event /\ y.a = a /\ y.g = g /\ now = y.ts /\ y.kind \in {"reservation", "reversal"}
        /\ m = (IF y.kind = "reservation" THEN y.amount ELSE -y.amount)
        /\ 0 \in Int /\ 0 = (IF y.late /\ y.kind = "reservation" THEN y.amount ELSE 0)
    BY <1>1, <1>8
  <2>2. BecomesIn(fs, v, g, now, a, lifeStep(a, lifeStep(a, v.life[a], y), x), m, 0)
    <3>1. BecomesIn(Append(Append(Append(es, y), x), c), v, g, now, a,
                    lifeStep(a, lifeStep(a, v.life[a], y), x), m, 0)
      BY <1>4, <2>1, ReportTwo
    <3> QED
      BY <1>6, <2>1, <3>1
  <2>3. lifeStep(a, lifeStep(a, s, y), x) = reported(s, outcome, by, now)
    <3>1. Moving(s, a, outcome, y)
      BY <1>1, <1>8 DEF Moving
    <3> QED
      BY <1>3, <1>10, <3>1, MovingLife
  <2>4. takes(s, outcome) - gives(s, outcome) = m /\ takes(s, outcome) = 0
    BY <1>3, <1>8 DEF takes, gives
  <2>5. g = theGrant => lifeStep(a, lifeStep(a, v.life[a], y), x) = reported(s, outcome, by, now)
    BY <1>5, <2>3
  <2> QED
    BY <1>5, <2>2, <2>4, <2>5 DEF BecomesIn, ReportsIn
<1>9. CASE outcome = "settled" /\ ~s.reserved
  <2> PICK m \in Int : m = s.amount
    BY <1>3
  <2>1. /\ y.kind = "reservation" /\ rs = <<y, x>>
        /\ y \in Event /\ y.a = a /\ y.g = g /\ now = y.ts /\ y.kind \in {"reservation", "reversal"}
        /\ m = (IF y.kind = "reservation" THEN y.amount ELSE -y.amount)
        /\ m \in Int /\ m = (IF y.late /\ y.kind = "reservation" THEN y.amount ELSE 0)
    BY <1>1, <1>9
  <2>2. BecomesIn(fs, v, g, now, a, lifeStep(a, lifeStep(a, v.life[a], y), x), m, m)
    <3>1. BecomesIn(Append(Append(Append(es, y), x), c), v, g, now, a,
                    lifeStep(a, lifeStep(a, v.life[a], y), x), m, m)
      BY <1>4, <2>1, ReportTwo
    <3> QED
      BY <1>6, <2>1, <3>1
  <2>3. lifeStep(a, lifeStep(a, s, y), x) = reported(s, outcome, by, now)
    <3>1. Moving(s, a, outcome, y)
      BY <1>1, <1>9 DEF Moving
    <3> QED
      BY <1>3, <1>10, <3>1, MovingLife
  <2>4. takes(s, outcome) - gives(s, outcome) = m /\ takes(s, outcome) = m
    BY <1>3, <1>9 DEF takes, gives
  <2>5. g = theGrant => lifeStep(a, lifeStep(a, v.life[a], y), x) = reported(s, outcome, by, now)
    BY <1>5, <2>3
  <2> QED
    BY <1>5, <2>2, <2>4, <2>5 DEF BecomesIn, ReportsIn
<1> QED
  BY <1>3, <1>7, <1>8, <1>9

\* If the route accepts it, that is a report of the view.
LEMMA BecomesReported ==
  ASSUME NEW v \in View, NEW w \in View, NEW t \in Nat, NEW a \in AuthIds, NEW by \in Reporters,
         NEW outcome \in {"submitted", "failed", "settled"}, NEW s, s = v.life[a], v.dec[a].g = theGrant,
         s.decision = "ALLOW", authenticates(s, by), by \in MAY_REPORT(outcome), ~terminal(s),
         NEW m, m = takes(s, outcome) - gives(s, outcome),
         Becomes(v, w, t, a, reported(s, outcome, by, t), m, takes(s, outcome))
  PROVE  Reported(v, w, t) /\ Later(v, w, t)
<1>1. /\ w.policy = v.policy /\ w.budget = v.budget /\ w.pend = v.pend /\ w.dec = v.dec
      /\ w.life = [v.life EXCEPT ![a] = reported(s, outcome, by, t)]
      /\ w.balance = v.balance + m /\ Days(v, w, t, m) /\ w.late = v.late + takes(s, outcome)
  BY DEF Becomes, Bare, Lives
<1>2. s \in Lifecycle /\ v.balance \in Int /\ v.today[t] \in Int
  BY DEF View
<1>3. gives(s, outcome) \in Nat /\ takes(s, outcome) \in Nat
  BY <1>2 DEF gives, takes, Lifecycle
<1>4. w.today[t] = v.today[t] + m /\ Later(v, w, t)
  BY <1>1, DaysLater
<1>5. w = [v EXCEPT !.life = w.life, !.balance = w.balance, !.today = w.today, !.late = w.late]
  BY <1>1 DEF View
<1>6. /\ w.balance = v.balance - gives(s, outcome) + takes(s, outcome)
      /\ w.today[t] = v.today[t] - gives(s, outcome) + takes(s, outcome)
  BY <1>1, <1>2, <1>3, <1>4
<1>7. /\ w = [v EXCEPT !.life = [v.life EXCEPT ![a] = reported(s, outcome, by, t)],
                       !.balance = v.balance - gives(s, outcome) + takes(s, outcome),
                       !.today = w.today, !.late = v.late + takes(s, outcome)]
  BY <1>1, <1>5, <1>6
<1> QED
  BY <1>4, <1>6, <1>7 DEF Reported

-----------------------------------------------------------------------------
(* A step from one view to the next is a step of Authority. *)

\* The late holds of the grant are those of the view.
LEMMA LateNow == logLate[theGrant] = lateOf(log)
  BY TheGrant DEF logLate, lateOf

\* ShowsNow, one step later.
LEMMA ShowsNext ==
  ASSUME TypeInv', NEW w, w = view(log'), NEW t, t = lastNow'[theGrant]
  PROVE  Shows(w, t)'
<1>1. t \in Nat
  BY TheGrant DEF TypeInv, TypeOK
<1> PICK es : es = log'
  OBVIOUS
<1>2. /\ w.policy = logPolicy'[theGrant] /\ w.balance = logSpent'[theGrant]
      /\ w.today[t] = logToday'[theGrant] /\ w.late = logLate'[theGrant]
  <2>1. logPolicy'[theGrant] = grantOf(es, theGrant)
    BY TheGrant DEF logPolicy
  <2>2. logSpent'[theGrant] = spentOf(es, theGrant)
    BY TheGrant DEF logSpent
  <2>3. logToday'[theGrant] = netToday(es, theGrant, t)
    BY TheGrant DEF logToday
  <2>4. logLate'[theGrant] = lateOf(es)
    <3>1. (logLate[theGrant] = lateOf(log))'
      BY LateNow, PTL
    <3> QED
      BY <3>1
  <2> QED
    BY <1>1, <2>1, <2>2, <2>3, <2>4 DEF view
<1>3. {a \in pendingOf(log') : mine(a)'} = w.pend
  BY DEF view, mine
<1>4. [a \in AuthIds |-> IF mine(a)' THEN logLife'[a] ELSE NoState] = w.life
  BY DEF view, mine, logLife, lifeOf
<1>5. [a \in AuthIds |-> IF mine(a)' THEN logReq'[a] ELSE nobody] = [a \in AuthIds |-> reqOf(w.dec[a])]
  <2>1. nobody = reqOf(NoEvent)
    BY DEF nobody, reqOf, NoEvent
  <2> SUFFICES ASSUME NEW a \in AuthIds
               PROVE  (IF mine(a)' THEN logReq'[a] ELSE nobody) = reqOf(w.dec[a])
    OBVIOUS
  <2>2. w.dec[a] = IF mine(a)' THEN decisionOf(log', a) ELSE NoEvent
    BY DEF view, mine, decidedOf
  <2>3. logReq'[a] = reqOf(decisionOf(log', a))
    BY DEF logReq, reqOf
  <2> QED
    BY <2>1, <2>2, <2>3
<1>6. /\ only(logPolicy)' = alone(w.policy) /\ only(logSpent)' = alone(w.balance)
      /\ only(logToday)' = alone(w.today[t]) /\ only(logLate)' = alone(w.late)
  BY <1>2 DEF only, alone
<1> QED
  BY <1>3, <1>4, <1>5, <1>6 DEF Shows, alone

\* The clients' clocks have a latest time.
LEMMA Horizon ==
  /\ horizon \in Nat /\ \A c \in Clients : c.maxTime <= horizon
<1>1. PICK c \in Clients : \A d \in Clients : d.maxTime <= c.maxTime
  BY ImplementsAssumption
<1>2. \A d \in Clients : d.maxTime \in Nat
  BY ServerAssumption
<1> DEFINE S == {d.maxTime : d \in Clients}
<1>3. c.maxTime \in S /\ \A y \in S : c.maxTime >= y
  BY <1>1, <1>2
<1>4. horizon \in S /\ \A y \in S : horizon >= y
  BY <1>3 DEF horizon, Max
<1> QED
  BY <1>2, <1>4

\* The grant's clock has been read off the server's.
LEMMA ClockWithin ==
  ASSUME TypeInv
  PROVE  /\ lastNow[theGrant] \in Nat /\ clock \in Nat
         /\ lastNow[theGrant] <= clock /\ clock <= horizon
<1>1. client \in Clients /\ clock <= client.maxTime /\ clock \in Nat /\ lastNow \in [Grants -> 0..clock]
  BY Types DEF MaxTime
<1>2. client.maxTime \in Nat
  BY <1>1, ServerAssumption
<1> QED
  BY <1>1, <1>2, TheGrant, Horizon

\* A step of the view is a step or a stutter of Authority.
LEMMA MapsStep ==
  ASSUME NEW v \in View, NEW w \in View, NEW t \in Nat, t <= horizon, Shows(v, t), Shows(w, t)', Leads(v, w, t)
  PROVE  UNCHANGED Ledger!vars \/ Ledger!Next
<1>1. t \in t..horizon
  BY Horizon
<1>2. CASE w = v
  BY <1>2, MapsSame
<1>3. CASE Minted(v, w)
  <2>1. w.today = v.today
    BY <1>3 DEF Minted, View
  <2> QED
    BY <1>3, <2>1, MapsMint
<1>4. CASE Swept(v, w, t)
  BY <1>4, MapsSweep
<1>5. CASE Authorized(v, w, t)
  BY <1>5, MapsAuthorize
<1>6. CASE Resolved(v, w, t)
  BY <1>1, <1>6, MapsResolve
<1>7. CASE Reported(v, w, t)
  BY <1>7, MapsReport
<1> QED
  BY <1>2, <1>3, <1>4, <1>5, <1>6, <1>7 DEF Leads

\* A day's count is the same however late in the day it is read.
LEMMA SameDays ==
  ASSUME NEW es
  PROVE  SameDay(view(es))
<1>1. \A i, j \in Nat : utcDayStart(i) = utcDayStart(j) => netToday(es, theGrant, i) = netToday(es, theGrant, j)
  <2> SUFFICES ASSUME NEW i \in Nat, NEW j \in Nat, utcDayStart(i) = utcDayStart(j)
               PROVE  netToday(es, theGrant, i) = netToday(es, theGrant, j)
    OBVIOUS
  <2>1. /\ netToday(es, theGrant, i) = NetFold!total(<<theGrant, utcDayStart(i)>>, 0, es)
        /\ netToday(es, theGrant, j) = NetFold!total(<<theGrant, utcDayStart(j)>>, 0, es)
    BY NetIs
  <2> QED
    BY <2>1
<1> QED
  BY <1>1 DEF SameDay, view

\* The view of no record.
LEMMA ViewEmpty ==
  ASSUME NEW v, v = view(<<>>)
  PROVE  /\ v \in View /\ Good(<<>>) /\ Kept(v, 0)
         /\ v.policy = None /\ v.balance = 0 /\ v.late = 0 /\ v.pend = {}
         /\ v.today = [t \in Nat |-> 0]
         /\ \A a \in AuthIds : v.dec[a] = NoEvent /\ v.life[a] = NoState
<1>1. <<>> \in Seq(Event) /\ Good(<<>>) /\ v \in View
  <2>1. <<>> \in Seq(Event) /\ DOMAIN <<>> = {}
    OBVIOUS
  <2>2. Unique(<<>>) /\ Asked(<<>>)
    BY <2>1 DEF Unique, Asked
  <2> QED
    BY <2>1, <2>2, ViewType DEF Good
<1>2. \A a : decisionOf(<<>>, a) = NoEvent
  BY DEF decisionOf, lastAt
<1>3. v.dec = [a \in AuthIds |-> NoEvent] /\ v.life = [a \in AuthIds |-> NoState] /\ v.pend = {}
  BY <1>2, NothingFits DEF view, decidedOf, lifeOf
<1>4. v.policy = None
  <2>1. DOMAIN <<>> = {} /\ <<>> \in Seq(Event)
    OBVIOUS
  <2>2. ~Known(<<>>, theGrant)
    BY <2>1 DEF Known
  <2> QED
    BY <2>1, <2>2, GrantKnown DEF view
<1>5. v.budget = 0 /\ v.late = 0 /\ v.balance = 0 /\ v.today = [t \in Nat |-> 0]
  BY FoldsStart DEF view
<1>6. \A a \in AuthIds : v.dec[a] = NoEvent /\ v.life[a] = NoState
  BY <1>3
<1>7. Kept(v, 0)
  BY <1>4, <1>5, <1>6, NothingFits DEF Kept
<1> QED
  BY <1>1, <1>3, <1>4, <1>5, <1>6, <1>7

\* The empty log is where Authority starts.
LEMMA MapsInit == Init => Ledger!Init
<1> SUFFICES ASSUME Init PROVE Ledger!Init
  OBVIOUS
<1>1. log = <<>> /\ lastNow[theGrant] = 0
  BY TheGrant DEF Init, StoreInit, log
<1>2. TypeInv
  BY InitInv DEF Inv
<1> PICK v : v = view(<<>>)
  OBVIOUS
<1>3. Shows(v, 0)
  BY <1>1, <1>2, ShowsNow
<1>4. [a \in AuthIds |-> v.life[a]] = [a \in AuthIds |-> NoState] /\ v.life = [a \in AuthIds |-> v.life[a]]
  BY ViewEmpty DEF View
<1>5. [a \in AuthIds |-> reqOf(v.dec[a])] = [a \in AuthIds |-> Ledger!NoRequest]
  BY ViewEmpty DEF reqOf, Ledger!NoRequest, NoEvent
<1>6. v.today[0] = 0 /\ v.policy = None /\ v.balance = 0 /\ v.late = 0 /\ v.pend = {}
  BY ViewEmpty
<1>7. /\ only(logPolicy) = [g \in {theGrant} |-> None] /\ only(logSpent) = [g \in {theGrant} |-> 0]
      /\ only(logToday) = [g \in {theGrant} |-> 0] /\ only(logLate) = [g \in {theGrant} |-> 0]
  BY <1>3, <1>6 DEF Shows, alone
<1>8. [a \in AuthIds |-> IF mine(a) THEN logLife[a] ELSE NoState] = [a \in AuthIds |-> NoState]
  BY <1>3, <1>4 DEF Shows
<1>9. [a \in AuthIds |-> IF mine(a) THEN logReq[a] ELSE nobody] = [a \in AuthIds |-> Ledger!NoRequest]
  BY <1>3, <1>5 DEF Shows
<1>10. {a \in pendingOf(log) : mine(a)} = {} /\ lastNow[theGrant] = 0
  BY <1>3, <1>6 DEF Shows
<1>11. Ledger!NoState = NoState
  BY DEF Ledger!NoState, NoState
<1> QED
  BY <1>7, <1>8, <1>9, <1>10, <1>11 DEF Ledger!Init

-----------------------------------------------------------------------------
(* What a step of the view keeps. *)

\* What is dated no later than t is dated no later than u.
LEMMA KeptLater ==
  ASSUME NEW v, NEW t \in Nat, NEW u \in Nat, t <= u, Kept(v, t)
  PROVE  Kept(v, u)
<1>1. \A i \in Nat : utcDayStart(i) > u => v.today[i] = 0
  <2> SUFFICES ASSUME NEW i \in Nat, utcDayStart(i) > u PROVE v.today[i] = 0
    OBVIOUS
  <2>1. utcDayStart(i) \in Nat
    BY DayStart
  <2>2. utcDayStart(i) > t
    BY <2>1
  <2> QED
    BY <2>2 DEF Kept
<1> QED
  BY <1>1 DEF Kept

\* The amounts that the log says twice, as functions of the fields.
KeptAmounts(dec, life) ==
  \A a \in AuthIds : /\ dec[a].g = theGrant => life[a].amount = dec[a].amount
                     /\ dec[a].g # theGrant => dec[a] = NoEvent /\ life[a] = NoState

\* Kept, as a fact of the fields.
LEMMA KeptIs ==
  ASSUME NEW v, NEW t
  PROVE  Kept(v, t) <=>
           /\ KeptAmounts(v.dec, v.life)
           /\ v.budget = IF v.policy = None THEN 0 ELSE v.policy.budget
           /\ \A u \in Nat : utcDayStart(u) > t => v.today[u] = 0
  BY DEF Kept, KeptAmounts

\* A decision's lifecycle repeats its amount.
LEMMA NewLife ==
  ASSUME NEW decision, NEW amount, NEW exp, NEW hasToken
  PROVE  newLife(decision, amount, exp, hasToken).amount = amount
  BY DEF newLife, onDecision, onReservation, NoState

\* A decision entered says its amount alike.
LEMMA EnteredKept ==
  ASSUME NEW v \in View, NEW w \in View, NEW t, NEW e, NEW exp, NEW hasToken, NEW P,
         KeptAmounts(v.dec, v.life), Entered(v, w, t, e, exp, hasToken, P)
  PROVE  KeptAmounts(w.dec, w.life) /\ w.policy = v.policy /\ w.budget = v.budget
<1> PICK n : n = newLife(e.decision, e.amount, exp, hasToken)
  OBVIOUS
<1>1. w.dec = [v.dec EXCEPT ![e.a] = e] /\ w.life = [v.life EXCEPT ![e.a] = n] /\ e.g = theGrant
      /\ w.policy = v.policy /\ w.budget = v.budget /\ e.a \in AuthIds
  BY DEF Entered, View
<1>2. n.amount = e.amount
  BY NewLife
<1>3. DOMAIN v.dec = AuthIds /\ DOMAIN v.life = AuthIds
  BY DEF View
<1>4. \A a \in AuthIds : IF a = e.a THEN w.dec[a] = e /\ w.life[a] = n
                                   ELSE w.dec[a] = v.dec[a] /\ w.life[a] = v.life[a]
  BY <1>1, <1>3
<1> QED
  BY <1>1, <1>2, <1>4 DEF KeptAmounts

\* A report keeps the amount, the decision and the capability.
LEMMA ReportedAmount ==
  ASSUME NEW s \in Lifecycle, NEW outcome \in {"submitted", "failed", "settled"}, NEW by, NEW t
  PROVE  LET n == reported(s, outcome, by, t)
         IN  n.amount = s.amount /\ n.decision = s.decision /\ n.token = s.token
<1>0. s.token \in BOOLEAN
  BY DEF Lifecycle
<1>1. CASE outcome = "submitted"
  BY <1>1 DEF reported, onSubmission, Lifecycle
<1>2. CASE outcome = "failed"
  BY <1>2 DEF reported, onSettlement, onReversal, Lifecycle
<1>3. CASE outcome = "settled"
  <2> PICK n : n = onReservation(s, 0, FALSE)
    OBVIOUS
  <2>1. n.amount = s.amount /\ n.decision = s.decision /\ n.token = s.token
        /\ n = [decision |-> n.decision, amount |-> n.amount, reserved |-> n.reserved, deadline |-> n.deadline,
                token |-> n.token, outcome |-> n.outcome, reportedBy |-> n.reportedBy, late |-> n.late]
    BY <1>0 DEF onReservation, Lifecycle
  <2>2. reported(s, outcome, by, t) = onSettlement(n, "settled", by, ~s.reserved)
    BY <1>3 DEF reported
  <2> QED
    BY <2>1, <2>2 DEF onSettlement
<1> QED
  BY <1>1, <1>2, <1>3

\* What any step leaves of the authorizations that were decided.
LifeKept(v, w) ==
  \A a \in AuthIds : v.dec[a].g = theGrant /\ v.life[a].decision # "none" =>
    /\ w.dec[a] = v.dec[a] /\ w.life[a].decision = v.life[a].decision /\ w.life[a].token = v.life[a].token

\* A decision entered leaves the others.
LEMMA LifeKeptEntered ==
  ASSUME NEW v \in View, NEW w \in View, NEW t, NEW e, NEW exp, NEW hasToken, NEW P,
         Entered(v, w, t, e, exp, hasToken, P)
  PROVE  LifeKept(v, w)
<1> PICK n : n = newLife(e.decision, e.amount, exp, hasToken)
  OBVIOUS
<1>1. w.dec = [v.dec EXCEPT ![e.a] = e] /\ w.life = [v.life EXCEPT ![e.a] = n]
      /\ v.life[e.a].decision = "none"
  BY DEF Entered, View
<1>3. DOMAIN v.dec = AuthIds /\ DOMAIN v.life = AuthIds
  BY DEF View
<1>4. \A a \in AuthIds : a # e.a => w.dec[a] = v.dec[a] /\ w.life[a] = v.life[a]
  BY <1>1, <1>3
<1> QED
  BY <1>1, <1>4 DEF LifeKept

\* A reversal keeps them too, and holds nothing.
LEMMA ReversedLife ==
  ASSUME NEW s \in Lifecycle
  PROVE  LET n == onReversal(s)
         IN  n.amount = s.amount /\ n.decision = s.decision /\ n.token = s.token /\ ~n.reserved
  BY DEF onReversal, Lifecycle

\* A step of the view keeps the amounts and what was decided.
LEMMA LeadsKept ==
  ASSUME NEW v \in View, NEW w \in View, NEW t, Kept(v, t), Leads(v, w, t)
  PROVE  Kept(w, t) /\ LifeKept(v, w)
<1>0. /\ KeptAmounts(v.dec, v.life)
      /\ v.budget = IF v.policy = None THEN 0 ELSE v.policy.budget
  BY KeptIs
<1>1. \A u \in Nat : utcDayStart(u) > t => w.today[u] = 0
  BY DEF Kept, Leads, Later
<1>2. SUFFICES /\ KeptAmounts(w.dec, w.life)
               /\ w.budget = IF w.policy = None THEN 0 ELSE w.policy.budget
               /\ LifeKept(v, w)
  BY <1>1, KeptIs
<1>3. CASE w = v
  BY <1>0, <1>3 DEF LifeKept
<1>4. CASE Minted(v, w)
  <2>1. PICK p \in Policies : w = [v EXCEPT !.policy = p, !.budget = p.budget]
    BY <1>4 DEF Minted
  <2>2. w.policy = p /\ w.budget = p.budget /\ w.dec = v.dec /\ w.life = v.life
    BY <2>1 DEF View
  <2>3. p # None
    BY ServerAssumption
  <2> QED
    BY <1>0, <2>2, <2>3 DEF LifeKept
<1>5. CASE Swept(v, w, t)
  <2> PICK S : S = overdue(v, t)
    OBVIOUS
  <2>1. /\ w.policy = v.policy /\ w.budget = v.budget /\ w.dec = v.dec
        /\ w.life = [a \in AuthIds |-> IF a \in S THEN onReversal(v.life[a]) ELSE v.life[a]]
        /\ S \subseteq AuthIds /\ \A a \in S : v.dec[a].g = theGrant
    <3>1. S \subseteq AuthIds /\ \A a \in S : v.dec[a].g = theGrant
      BY DEF overdue
    <3> PICK f : f = [a \in AuthIds |-> IF a \in S THEN onReversal(v.life[a]) ELSE v.life[a]]
      OBVIOUS
    <3>2. w = [v EXCEPT !.life = f, !.balance = v.balance - sumOver(v, S), !.today = w.today]
      BY <1>5 DEF Swept
    <3>3. w.policy = v.policy /\ w.budget = v.budget /\ w.dec = v.dec /\ w.life = f
      BY <3>2 DEF View
    <3> QED
      BY <3>1, <3>3
  <2>2. \A a \in AuthIds : /\ w.life[a].amount = v.life[a].amount
                           /\ w.life[a].decision = v.life[a].decision /\ w.life[a].token = v.life[a].token
    <3> SUFFICES ASSUME NEW a \in AuthIds
                 PROVE  /\ w.life[a].amount = v.life[a].amount
                        /\ w.life[a].decision = v.life[a].decision /\ w.life[a].token = v.life[a].token
      OBVIOUS
    <3>1. v.life[a] \in Lifecycle
      BY DEF View
    <3>2. w.life[a] = IF a \in S THEN onReversal(v.life[a]) ELSE v.life[a]
      BY <2>1
    <3> QED
      BY <3>1, <3>2, ReversedLife
  <2>3. \A a \in AuthIds : v.dec[a].g # theGrant => w.life[a] = v.life[a]
    BY <2>1
  <2>4. KeptAmounts(w.dec, w.life)
    BY <1>0, <2>1, <2>2, <2>3 DEF KeptAmounts
  <2>5. LifeKept(v, w)
    BY <2>1, <2>2 DEF LifeKept
  <2> QED
    BY <1>0, <2>1, <2>4, <2>5
<1>6. CASE Authorized(v, w, t)
  <2>1. PICK e, P : e \in Event /\ Entered(v, w, t, e, t + TTL, TRUE, P)
    <3>1. PICK e \in Event : Entered(v, w, t, e, t + TTL, TRUE, IF e.decision = "ESCALATE" THEN v.pend \cup {e.a} ELSE v.pend)
      BY <1>6 DEF Authorized
    <3> QED
      BY <3>1
  <2> QED
    BY <1>0, <2>1, EnteredKept, LifeKeptEntered
<1>7. CASE Resolved(v, w, t)
  <2>1. PICK e, P : e \in Event /\ Entered(v, w, t, e, t + ApprovalTTL, FALSE, P)
    <3>1. PICK e \in Event, a \in v.pend : Entered(v, w, t, e, t + ApprovalTTL, FALSE, v.pend \ {a})
      BY <1>7 DEF Resolved
    <3> QED
      BY <3>1
  <2> QED
    BY <1>0, <2>1, EnteredKept, LifeKeptEntered
<1>8. CASE Reported(v, w, t)
  <2>1. PICK a \in AuthIds, by \in Reporters, outcome \in {"submitted", "failed", "settled"} :
          /\ v.dec[a].g = theGrant
          /\ w = [v EXCEPT !.life = [v.life EXCEPT ![a] = reported(v.life[a], outcome, by, t)],
                           !.balance = v.balance - gives(v.life[a], outcome) + takes(v.life[a], outcome),
                           !.today = w.today, !.late = v.late + takes(v.life[a], outcome)]
    BY <1>8 DEF Reported
  <2> PICK n : n = reported(v.life[a], outcome, by, t)
    OBVIOUS
  <2>2. /\ w.policy = v.policy /\ w.budget = v.budget /\ w.dec = v.dec
        /\ w.life = [v.life EXCEPT ![a] = n]
    BY <2>1 DEF View
  <2>3. v.life[a] \in Lifecycle /\ DOMAIN v.life = AuthIds
    BY DEF View
  <2>4. n.amount = v.life[a].amount /\ n.decision = v.life[a].decision /\ n.token = v.life[a].token
    BY <2>3, ReportedAmount
  <2>5. \A b \in AuthIds : w.life[b] = IF b = a THEN n ELSE v.life[b]
    BY <2>2, <2>3
  <2>6. KeptAmounts(w.dec, w.life)
    BY <1>0, <2>1, <2>2, <2>4, <2>5 DEF KeptAmounts
  <2>7. LifeKept(v, w)
    BY <2>2, <2>4, <2>5 DEF LifeKept
  <2> QED
    BY <1>0, <2>2, <2>6, <2>7
<1> QED
  BY <1>3, <1>4, <1>5, <1>6, <1>7, <1>8 DEF Leads

-----------------------------------------------------------------------------
(* A sweep of the log as a step of the view. *)

\* Two moves of the days are one of their sum.
LEMMA DaysTwo ==
  ASSUME NEW u \in View, NEW v \in View, NEW w \in View, NEW t, NEW m \in Int, NEW n \in Int,
         Days(u, v, t, m), Days(v, w, t, n), NEW k, k = m + n
  PROVE  Days(u, w, t, k)
<1> SUFFICES ASSUME NEW i \in Nat
             PROVE  w.today[i] = IF t >= utcDayStart(i) THEN u.today[i] + k ELSE u.today[i]
  BY DEF Days
<1>1. u.today[i] \in Int /\ v.today[i] \in Int
  BY DEF View
<1>2. /\ v.today[i] = IF t >= utcDayStart(i) THEN u.today[i] + m ELSE u.today[i]
      /\ w.today[i] = IF t >= utcDayStart(i) THEN v.today[i] + n ELSE v.today[i]
  BY DEF Days
<1> QED
  BY <1>1, <1>2

idsOf(rs) == {rs[i].a : i \in DOMAIN rs}
\* w is v with the holds of S given back at t.
Freed(v, w, t, S) ==
  /\ Bare(v, w) /\ w.pend = v.pend /\ w.dec = v.dec /\ w.late = v.late
  /\ w.life = [a \in AuthIds |-> IF a \in S THEN onReversal(v.life[a]) ELSE v.life[a]]
  /\ w.balance = v.balance - sumOver(v, S) /\ Days(v, w, t, -sumOver(v, S))
FreedIn(fs, v, g, t, S) ==
  \E w \in View : Grown(fs, w) /\ (g # theGrant => w = v) /\ (g = theGrant => Freed(v, w, t, S))
\* One of the reversals of a sweep of g.
Freeing(es, v, g, t, e) ==
  /\ e \in Event /\ e.kind = "reversal" /\ e.g = g /\ e.ts = t /\ e.a \in AuthIds /\ Owner(es, e.a, g)
  /\ e.amount \in 0..MaxAmount /\ (g = theGrant => e.amount = v.life[e.a].amount)
Frees(es, v, g, t, rs) ==
  /\ \A i \in DOMAIN rs : Freeing(es, v, g, t, rs[i])
  /\ \A i, j \in DOMAIN rs : rs[i].a = rs[j].a => i = j

\* The amount of one hold more.
LEMMA SumsMore ==
  ASSUME NEW v, NEW S \in SUBSET AuthIds, NEW a \in AuthIds, a \notin S, v.life[a].amount \in 0..MaxAmount
  PROVE  sumOver(v, S) \in Int /\ sumOver(v, S \cup {a}) = sumOver(v, S) + v.life[a].amount
<1> PICK f : f = [b \in AuthIds |-> v.life[b].amount]
  OBVIOUS
<1>1. IsFiniteSet(S)
  BY ServerAssumption, FS_Subset
<1>2. f[a] = v.life[a].amount
  OBVIOUS
<1>3. SumOf(f, S) \in Nat /\ SumOf(f, S \cup {a}) = SumOf(f, S) + f[a]
  BY <1>1, <1>2, SumType, SumAdd
<1> QED
  BY <1>2, <1>3 DEF sumOver

\* One reversal more of a sweep.
LEMMA FreeOne ==
  ASSUME NEW es, NEW fs, NEW v \in View, NEW g \in Grants, NEW t \in Nat, NEW e, Freeing(es, v, g, t, e),
         Owner(fs, e.a, g), NEW S \in SUBSET AuthIds, e.a \notin S, FreedIn(fs, v, g, t, S)
  PROVE  FreedIn(Append(fs, e), v, g, t, S \cup {e.a})
<1>0. /\ e \in Event /\ e.kind = "reversal" /\ e.g = g /\ e.ts = t /\ e.a \in AuthIds
      /\ e.amount \in 0..MaxAmount /\ (g = theGrant => e.amount = v.life[e.a].amount)
  BY DEF Freeing
<1>1. PICK w \in View : Grown(fs, w) /\ (g # theGrant => w = v) /\ (g = theGrant => Freed(v, w, t, S))
  BY DEF FreedIn
<1>2. Proper(fs, e)
  BY <1>0 DEF Proper, LifeKinds
<1> PICK x : x = viewStep(w, e)
  OBVIOUS
<1>3. Grown(Append(fs, e), x) /\ x \in View /\ (g # theGrant => x = w)
  BY <1>0, <1>1, <1>2, GrownNext
<1>4. ASSUME g = theGrant
      PROVE  Freed(v, x, t, S \cup {e.a})
  <2> PICK a : a = e.a
    OBVIOUS
  <2> PICK n : n = sumOver(v, S)
    OBVIOUS
  <2> PICK m : m = e.amount
    OBVIOUS
  <2>1. Freed(v, w, t, S)
    BY <1>1, <1>4
  <2>2. /\ x.pend = w.pend /\ x.dec = w.dec /\ Bare(w, x)
        /\ Lives(w, x, e.a, lifeStep(e.a, w.life[e.a], e))
    BY <1>0, <1>1, <1>3, <1>4, StepLife, StepBare DEF LifeKinds
  <2>3. n \in Int /\ sumOver(v, S \cup {a}) = n + m /\ m \in Nat
    BY <1>0, <1>4, SumsMore
  <2>4. x.balance = w.balance + (-m) /\ Days(w, x, t, -m) /\ x.late = w.late
    BY <1>0, <1>1, <1>4, <2>3, StepMoves
  <2>5. w.balance = v.balance - n /\ Days(v, w, t, -n) /\ v.balance \in Int
    BY <2>1 DEF Freed, View
  <2>6. Days(v, x, t, -(n + m))
    BY <1>3, <2>3, <2>4, <2>5, DaysTwo
  <2>7. x.balance = v.balance - (n + m)
    BY <2>3, <2>4, <2>5
  <2>8. x.life = [b \in AuthIds |-> IF b \in S \cup {a} THEN onReversal(v.life[b]) ELSE v.life[b]]
    <3>1. lifeStep(a, w.life[a], e) = onReversal(w.life[a])
      BY <1>0 DEF lifeStep
    <3>2. w.life[a] = v.life[a] /\ a \in AuthIds
      BY <1>0, <2>1 DEF Freed
    <3>3. x.life = [w.life EXCEPT ![a] = onReversal(v.life[a])]
      BY <2>2, <3>1, <3>2 DEF Lives
    <3>4. w.life = [b \in AuthIds |-> IF b \in S THEN onReversal(v.life[b]) ELSE v.life[b]]
      BY <2>1 DEF Freed
    <3> QED
      BY <3>2, <3>3, <3>4
  <2>9. Bare(v, x) /\ x.pend = v.pend /\ x.dec = v.dec /\ x.late = v.late
    BY <2>1, <2>2, <2>4 DEF Bare, Freed
  <2> QED
    BY <2>3, <2>6, <2>7, <2>8, <2>9 DEF Freed
<1> QED
  BY <1>1, <1>3, <1>4 DEF FreedIn

freeClaim(p, rs, s) ==
  Frees(p[1], p[2], p[3], p[4], rs) => FreedIn(p[1] \o rs, p[2], p[3], p[4], idsOf(rs))
FreeFold == INSTANCE FoldTheorems WITH Step <- idleStep, Claim <- freeClaim

\* The reversals of a sweep, behind a log, free its holds in the view.
LEMMA SweepView ==
  ASSUME NEW es, NEW v, Grown(es, v), NEW g \in Grants, NEW t \in Nat, NEW rs \in Seq(Event), Frees(es, v, g, t, rs)
  PROVE  FreedIn(es \o rs, v, g, t, idsOf(rs))
<1> PICK p : p = <<es, v, g, t>>
  OBVIOUS
<1>0. /\ p[1] = es /\ p[2] = v /\ p[3] = g /\ p[4] = t
      /\ es \in Seq(Event) /\ es \o <<>> = es /\ v \in View
  BY ViewType DEF Grown, Good
<1>1. freeClaim(p, <<>>, 0)
  <2>1. idsOf(<<>>) = {}
    BY DEF idsOf
  <2>2. sumOver(v, {}) = 0
    BY SumEmpty DEF sumOver
  <2>3. v.life = [a \in AuthIds |-> v.life[a]] /\ v.balance \in Int
    BY <1>0 DEF View
  <2>4. v.life = [a \in AuthIds |-> IF a \in {} THEN onReversal(v.life[a]) ELSE v.life[a]]
    BY <2>3
  <2>5. Days(v, v, t, 0)
    BY <1>0, DaysNone
  <2>6. Freed(v, v, t, {})
    BY <2>2, <2>3, <2>4, <2>5 DEF Freed, Bare
  <2> QED
    BY <1>0, <2>1, <2>6 DEF freeClaim, FreedIn
<1>2. ASSUME NEW fs \in Seq(Event), NEW e \in Event, freeClaim(p, fs, FreeFold!total(p, 0, fs))
      PROVE  freeClaim(p, Append(fs, e), idleStep(p, FreeFold!total(p, 0, fs), e))
  <2> SUFFICES ASSUME Frees(es, v, g, t, Append(fs, e))
               PROVE  FreedIn(es \o Append(fs, e), v, g, t, idsOf(Append(fs, e)))
    BY <1>0 DEF freeClaim
  <2>1. /\ \A i \in DOMAIN fs : i \in DOMAIN Append(fs, e) /\ Append(fs, e)[i] = fs[i]
        /\ Len(fs) + 1 \in DOMAIN Append(fs, e) /\ Append(fs, e)[Len(fs) + 1] = e
        /\ Len(fs) + 1 \notin DOMAIN fs
        /\ \A i \in DOMAIN Append(fs, e) : i \in DOMAIN fs \/ i = Len(fs) + 1
    BY AppendPlaces
  <2>2. Frees(es, v, g, t, fs) /\ Freeing(es, v, g, t, e)
    BY <2>1 DEF Frees
  <2>3. FreedIn(es \o fs, v, g, t, idsOf(fs))
    BY <1>0, <1>2, <2>2 DEF freeClaim
  <2>4. e.a \notin idsOf(fs) /\ idsOf(Append(fs, e)) = idsOf(fs) \cup {e.a} /\ idsOf(fs) \in SUBSET AuthIds
    <3>1. \A i \in DOMAIN fs : fs[i].a # e.a
      BY <2>1 DEF Frees
    <3>2. \A i \in DOMAIN fs : fs[i].a \in AuthIds
      BY <2>2 DEF Frees, Freeing
    <3> QED
      BY <2>1, <3>1, <3>2 DEF idsOf
  <2>5. Owner(es \o fs, e.a, g)
    BY <1>0, <2>2, OwnerConcat DEF Freeing
  <2>6. es \o Append(fs, e) = Append(es \o fs, e)
    BY <1>0
  <2>7. FreedIn(Append(es \o fs, e), v, g, t, idsOf(fs) \cup {e.a})
    BY <1>0, <2>2, <2>3, <2>4, <2>5, FreeOne
  <2> QED
    BY <2>4, <2>6, <2>7
<1>3. freeClaim(p, rs, FreeFold!total(p, 0, rs))
  BY <1>1, <1>2, FreeFold!FoldInduction
<1> QED
  BY <1>0, <1>3 DEF freeClaim

-----------------------------------------------------------------------------
(* The steps of the view that a sweep, a decision and a resolution are. *)

\* If they are all that was overdue, that is a sweep of the view.
LEMMA FreedSwept ==
  ASSUME NEW v \in View, NEW w \in View, NEW t \in Nat, NEW S, S = overdue(v, t), S # {},
         v.policy # None, Freed(v, w, t, S)
  PROVE  Swept(v, w, t) /\ Later(v, w, t) /\ overdue(w, t) = {}
<1> PICK f : f = [a \in AuthIds |-> IF a \in S THEN onReversal(v.life[a]) ELSE v.life[a]]
  OBVIOUS
<1> PICK n : n = sumOver(v, S)
  OBVIOUS
<1>0. S \in SUBSET AuthIds /\ n \in Int
  <2>1. S \in SUBSET AuthIds
    BY DEF overdue
  <2>2. IsFiniteSet(S)
    BY <2>1, ServerAssumption, FS_Subset
  <2> QED
    BY <2>1, <2>2, SumType DEF sumOver
<1>1. /\ w.policy = v.policy /\ w.budget = v.budget /\ w.pend = v.pend /\ w.dec = v.dec /\ w.late = v.late
      /\ w.life = f /\ w.balance = v.balance - n /\ Days(v, w, t, -n)
  BY DEF Freed, Bare
<1>2. w = [v EXCEPT !.life = f, !.balance = v.balance - n, !.today = w.today]
  BY <1>1 DEF View
<1>3. w.today[t] = v.today[t] + (-n) /\ Later(v, w, t) /\ v.today[t] \in Int
  BY <1>1, DaysLater DEF View
<1>4. w.today[t] = v.today[t] - n
  BY <1>0, <1>3
<1>5. Swept(v, w, t)
  BY <1>2, <1>4 DEF Swept
<1>6. ASSUME NEW a \in AuthIds, w.dec[a].g = theGrant, expired(w.life[a], t)
      PROVE  FALSE
  <2>1. v.life[a] \in Lifecycle
    BY DEF View
  <2>2. a \in S <=> expired(v.life[a], t)
    BY <1>1, <1>6 DEF overdue
  <2>3. a \in S => ~w.life[a].reserved
    BY <1>1, <2>1, ReversedLife
  <2>4. a \notin S => w.life[a] = v.life[a]
    BY <1>1
  <2> QED
    BY <1>6, <2>2, <2>3, <2>4 DEF expired, sweepable
<1> QED
  BY <1>3, <1>5, <1>6 DEF overdue

\* The agent that the handlers view is the one that the view has.
LEMMA AgentIs ==
  ASSUME NEW es \in Seq(Event), NEW v, v = view(es), NEW u, Kept(v, u), v.policy # None, NEW t \in Nat
  PROVE  agentView(es, theGrant, t) = agentOf(v, t)
<1>1. /\ v.policy = grantOf(es, theGrant) /\ v.budget = budgetOf(es, theGrant)
      /\ v.balance = spentOf(es, theGrant) /\ v.today[t] = netToday(es, theGrant, t)
  BY DEF view
<1>2. v.policy \in Policies /\ v.budget = v.policy.budget
  BY ViewType DEF View, Kept
<1>3. v.policy \in Ledger!PolicyRecord
  BY <1>2, ImplementsAssumption
<1>4. [v.policy EXCEPT !.budget = v.budget] = v.policy
  BY <1>2, <1>3 DEF Ledger!PolicyRecord
<1> QED
  BY <1>1, <1>4 DEF agentView, agentOf

\* The decision e, taken of a grant as its agent is viewed.
DecidedOf(v, w, t, e, currency, category, later) ==
  LET verdict == decide(agentOf(v, t), later, e.amount, currency, category)
  IN  /\ e.key \in Keys /\ e.amount \in Amounts /\ e.parent = None
      /\ \A a \in AuthIds : v.dec[a].g = theGrant => v.dec[a].key # e.key
      /\ e.decision = IF verdict # "APPROVED" THEN "DENY"
                      ELSE IF needsApproval(v.policy, e.amount) THEN "ESCALATE" ELSE "ALLOW"
      /\ e.reason = IF e.decision = "ESCALATE" THEN "APPROVAL_REQUIRED" ELSE verdict
      /\ Entered(v, w, t, e, t + TTL, TRUE, IF e.decision = "ESCALATE" THEN v.pend \cup {e.a} ELSE v.pend)

\* A decision of the policy that is entered is a decision of the view.
LEMMA AuthorizedIs ==
  ASSUME NEW v, NEW w, NEW t, NEW e \in Event, v.policy # None, overdue(v, t) = {},
         NEW currency \in Currencies, NEW category \in Categories, NEW later \in t..horizon,
         DecidedOf(v, w, t, e, currency, category, later)
  PROVE  Authorized(v, w, t)
  BY DEF Authorized, DecidedOf

\* The escalation that is resolved is taken off the pending ones first.
LEMMA EnteredFrom ==
  ASSUME NEW u \in View, NEW v \in View, NEW w \in View, NEW P, v = [u EXCEPT !.pend = P],
         NEW t, NEW e, NEW exp, NEW hasToken, Entered(v, w, t, e, exp, hasToken, P), Later(v, w, t)
  PROVE  Entered(u, w, t, e, exp, hasToken, P) /\ Later(u, w, t)
<1> PICK n : n = newLife(e.decision, e.amount, exp, hasToken)
  OBVIOUS
<1> PICK m : m = heldBy(e.decision, e.amount)
  OBVIOUS
<1>1. /\ e.a \in AuthIds /\ e.g = theGrant /\ v.life[e.a].decision = "none"
      /\ e.decision \in {"ALLOW", "DENY", "ESCALATE"}
      /\ w = [v EXCEPT !.dec = [v.dec EXCEPT ![e.a] = e], !.life = [v.life EXCEPT ![e.a] = n],
                       !.balance = v.balance + m, !.today = w.today, !.pend = P]
      /\ w.today[t] = v.today[t] + m
  BY DEF Entered
<1>2. v.dec = u.dec /\ v.life = u.life /\ v.balance = u.balance /\ v.today = u.today
      /\ v.policy = u.policy /\ v.budget = u.budget /\ v.late = u.late
  BY DEF View
<1>3. w = [u EXCEPT !.dec = [u.dec EXCEPT ![e.a] = e], !.life = [u.life EXCEPT ![e.a] = n],
                    !.balance = u.balance + m, !.today = w.today, !.pend = P]
  <2> PICK x : x = [v.dec EXCEPT ![e.a] = e]
    OBVIOUS
  <2> PICK y : y = [v.life EXCEPT ![e.a] = n]
    OBVIOUS
  <2>1. w = [v EXCEPT !.dec = x, !.life = y, !.balance = v.balance + m, !.today = w.today, !.pend = P]
    BY <1>1
  <2>2. w = [u EXCEPT !.dec = x, !.life = y, !.balance = u.balance + m, !.today = w.today, !.pend = P]
    BY <1>2, <2>1 DEF View
  <2> QED
    BY <1>2, <2>2
<1>4. Later(u, w, t)
  BY <1>2 DEF Later
<1> QED
  BY <1>1, <1>2, <1>3, <1>4 DEF Entered

-----------------------------------------------------------------------------
(***************************************************************************)
(* The invariant: what the log will be once the batch is written is one     *)
(* step of Authority from what it is, and no step from it when no request  *)
(* of the grant is writing.                                                *)
(***************************************************************************)

\* Of a request c with the locals k: it is for the grant; it is being written.
MineOf(c, k) == IF c.op = "mint" THEN c.g = theGrant ELSE k.g = theGrant
WriterOf(c, l, k) == MineOf(c, k) /\ l \in {"sweeping", "writing"}
\* The report c of a is one that the route accepts.
Allowed(v, c, a) ==
  /\ a \in AuthIds /\ v.dec[a].g = theGrant /\ v.life[a].decision = "ALLOW"
  /\ authenticates(v.life[a], c.by) /\ c.by \in MAY_REPORT(c.outcome)
\* What a request of the grant relies on at the place l: the clock that it has
\* read is still the grant's, and what it has swept stays swept.
Relies(c, l, k, v, w, t) ==
  /\ l \in {"sweeping", "deciding"} => k.now = t
  /\ l = "sweeping" => overdue(w, t) = {}
  /\ l = "deciding" => overdue(v, t) = {}
  /\ l = "waiting" /\ c.op = "report" => Allowed(v, c, k.a)

Sees(v, w, t) ==
  /\ Grown(events, v) /\ Grown(events \o batch, w) /\ lastNow[theGrant] = t
  /\ Kept(v, t) /\ Leads(v, w, t)
  /\ (\A r \in Slots : ~WriterOf(Call(r), pc[r], task[r])) => w = v
  /\ \A r \in Slots : MineOf(Call(r), task[r]) => Relies(Call(r), pc[r], task[r], v, w, t)
Reads(v, t) == Grown(load(file), v) /\ lastNow[theGrant] = t /\ Kept(v, t)
ViewInv ==
  /\ up => \E v, w, t : Sees(v, w, t)
  /\ ~up => \E v, t : Reads(v, t)

\* Sees of the next state, from what it reads there.
LEMMA SeesNext ==
  ASSUME client' = client, NEW v, NEW w, NEW t, NEW es, es = events', NEW all, all = events' \o batch',
         Grown(es, v), Grown(all, w), lastNow'[theGrant] = t, Kept(v, t), Leads(v, w, t),
         (\A r \in Slots : ~WriterOf(Call(r), pc'[r], task'[r])) => w = v,
         \A r \in Slots : MineOf(Call(r), task'[r]) => Relies(Call(r), pc'[r], task'[r], v, w, t)
  PROVE  Sees(v, w, t)'
<1>1. Slots' = Slots /\ \A r \in Slots : Call(r)' = Call(r)
  BY DEF Slots, Call
<1>2. (\A r \in Slots : ~WriterOf(Call(r), pc[r], task[r]))' => w = v
  BY <1>1
<1>3. (\A r \in Slots : MineOf(Call(r), task[r]) => Relies(Call(r), pc[r], task[r], v, w, t))'
  BY <1>1
<1> QED
  BY <1>2, <1>3 DEF Sees

\* A view leads to itself.
LEMMA LeadsSame ==
  ASSUME NEW v \in View, NEW t
  PROVE  Leads(v, v, t)
  BY DEF Leads, Later

\* What is seen has its types, and the views are those of the logs.
LEMMA SeesTypes ==
  ASSUME Inv, NEW v, NEW w, NEW t, Sees(v, w, t)
  PROVE  /\ v \in View /\ w \in View /\ t \in Nat /\ events \in Seq(Event) /\ events \o batch \in Seq(Event)
         /\ v = view(events) /\ w = view(events \o batch)
<1>1. t \in Nat
  BY ClockWithin DEF Inv, Sees
<1> QED
  BY <1>1, ViewType DEF Sees, Grown, Good

\* No other request is in the critical section of the grant, nor minting it.
Sole(r) ==
  \A q \in Slots \ {r} : ~(MineOf(Call(q), task[q]) /\ pc[q] \in {"sweeping", "deciding", "writing"})

\* Who holds the lock of the grant is alone in its critical section.
LEMMA SoleHolder ==
  ASSUME Inv, NEW r \in Slots, InLock(r), Holds(r), task[r].g = theGrant
  PROVE  Sole(r)
<1> SUFFICES ASSUME NEW q \in Slots, q # r, MineOf(Call(q), task[q]), pc[q] \in {"sweeping", "deciding", "writing"}
             PROVE  FALSE
  BY DEF Sole
<1>1. CASE Call(q).op = "mint"
  <2>1. Call(q).g = theGrant /\ pc[q] = "writing"
    BY <1>1 DEF MineOf, Inv, LockInv, Asks
  <2>2. \A i \in DOMAIN events : Untouched(events[i], theGrant)
    BY <1>1, <2>1 DEF Inv, MintInv
  <2>3. Known(events, theGrant)
    BY DEF Inv, MintInv
  <2> QED
    BY <2>2, <2>3 DEF Known, Untouched
<1>2. CASE Call(q).op # "mint"
  <2>1. task[q].g = theGrant /\ Busy(q)
    BY <1>2 DEF MineOf, Busy, InLock
  <2>2. Holds(q)
    BY <2>1 DEF Inv, LockInv
  <2> QED
    BY <2>1, <2>2 DEF Holds
<1> QED
  BY <1>1, <1>2

\* So is who mints it, since no request finds it before.
LEMMA SoleMint ==
  ASSUME Inv, NEW r \in Slots, Call(r).op = "mint", pc[r] = "idle", Call(r).g = theGrant
  PROVE  Sole(r) /\ ~Known(events, theGrant)
<1>1. \A i \in DOMAIN events : Untouched(events[i], theGrant)
  BY DEF Inv, MintInv
<1>2. ~Known(events, theGrant)
  BY <1>1 DEF Known, Untouched
<1> SUFFICES ASSUME NEW q \in Slots, q # r, MineOf(Call(q), task[q]), pc[q] \in {"sweeping", "deciding", "writing"}
             PROVE  FALSE
  BY <1>2 DEF Sole
<1>3. CASE Call(q).op = "mint"
  <2>1. client \in Clients /\ Call(q).g = Call(r).g
    BY <1>3, Types DEF Inv, MineOf
  <2> QED
    BY <1>3, <2>1, MintsDiffer
<1>4. CASE Call(q).op # "mint"
  <2>1. task[q].g = theGrant /\ InLock(q)
    BY <1>4 DEF MineOf, InLock
  <2> QED
    BY <1>2, <2>1 DEF Inv, MintInv
<1> QED
  BY <1>3, <1>4

\* Then nothing is being written of it.
LEMMA SoleSame ==
  ASSUME NEW r \in Slots, Sole(r), pc[r] \notin {"sweeping", "writing"}, NEW v, NEW w, NEW t, Sees(v, w, t)
  PROVE  w = v
<1>1. \A q \in Slots : ~WriterOf(Call(q), pc[q], task[q])
  BY DEF Sole, WriterOf
<1> QED
  BY <1>1 DEF Sees

-----------------------------------------------------------------------------
(* The steps of the requests that queue nothing, and of those that do. *)

\* A request that queues nothing changes no view.
LEMMA ViewRests ==
  ASSUME Inv, client' = client, NEW r \in Slots, Moves(r), UNCHANGED lastNow, pc'[r] # "deciding",
         NEW v, NEW w, NEW t, Sees(v, w, t),
         pc'[r] = "waiting" /\ Call(r).op = "report" /\ MineOf(Call(r), task'[r]) => Allowed(v, Call(r), task'[r].a)
  PROVE  Sees(v, w, t)'
<1>1. /\ \A q \in Slots \ {r} : pc'[q] = pc[q] /\ task'[q] = task[q]
      /\ UNCHANGED <<queue, events>>
      /\ pc'[r] \in {"refused", "answered", "failed", "waiting", "deciding"}
      /\ pc[r] \notin {"sweeping", "writing"}
  BY DEF Moves
<1>2. PICK es : es = events'
  OBVIOUS
<1>3. PICK all : all = events' \o batch'
  OBVIOUS
<1>4. es = events /\ all = events \o batch /\ lastNow'[theGrant] = t
  BY <1>1, <1>2, <1>3, BatchSame DEF Sees
<1>5. (\A q \in Slots : ~WriterOf(Call(q), pc'[q], task'[q])) => w = v
  <2>1. ~WriterOf(Call(r), pc[r], task[r])
    BY <1>1 DEF WriterOf
  <2> QED
    BY <1>1, <2>1 DEF Sees
<1>6. ASSUME NEW q \in Slots, MineOf(Call(q), task'[q]) PROVE Relies(Call(q), pc'[q], task'[q], v, w, t)
  <2>1. CASE q = r
    BY <1>1, <1>6, <2>1 DEF Relies
  <2>2. CASE q # r
    BY <1>1, <1>6, <2>2 DEF Sees
  <2> QED
    BY <2>1, <2>2
<1> QED
  BY <1>2, <1>3, <1>4, <1>5, <1>6, SeesNext DEF Sees

\* r queues records that make x of the view w of what is queued already, at u.
Grows(r, v, w, t, x, u, records) ==
  /\ Enqueue(r, records) /\ records \in Seq(Event) /\ UNCHANGED <<file, unended, events, up>>
  /\ pc'[r] \in {"sweeping", "writing"} /\ task'[r].g = task[r].g
  /\ \A q \in Slots \ {r} : pc'[q] = pc[q] /\ task'[q] = task[q]
  /\ Grown((events \o batch) \o records, x) /\ x \in View
  /\ lastNow'[theGrant] = u /\ u \in Nat /\ t <= u
  /\ ~MineOf(Call(r), task[r]) => x = w /\ u = t
  /\ MineOf(Call(r), task[r]) => Sole(r) /\ Leads(v, x, u)
  /\ pc'[r] = "sweeping" /\ MineOf(Call(r), task[r]) => task'[r].now = u /\ overdue(x, u) = {}

\* Concatenation associates.
LEMMA Regroup ==
  ASSUME NEW es \in Seq(Event), NEW more \in Seq(Event), NEW fs \in Seq(Event)
  PROVE  es \o (more \o fs) = (es \o more) \o fs
  BY ConcatAssociative

\* A request that queues records moves the view of the log with its batch.
LEMMA ViewQueue ==
  ASSUME Inv, client' = client, NEW r \in Slots, NEW v, NEW w, NEW t, Sees(v, w, t),
         NEW x, NEW u, NEW records, Grows(r, v, w, t, x, u, records)
  PROVE  Sees(v, x, u)'
<1>1. /\ v \in View /\ w \in View /\ t \in Nat /\ events \in Seq(Event)
  BY SeesTypes
<1>2. batch \in Seq(Event) /\ queue \in Seq(Entry) /\ records \in Seq(Event)
  BY Types DEF Inv, Grows
<1>3. PICK es : es = events'
  OBVIOUS
<1>4. PICK all : all = events' \o batch'
  OBVIOUS
<1>5. es = events /\ all = (events \o batch) \o records
  <2>1. batch' = batch \o records
    BY <1>2, BatchEnqueue DEF Grows
  <2>2. all = events \o (batch \o records)
    BY <1>4, <2>1 DEF Grows
  <2>3. \A b \in Seq(Event) : events \o (b \o records) = (events \o b) \o records
    BY <1>1, <1>2, Regroup
  <2> QED
    BY <1>2, <1>3, <2>2, <2>3 DEF Grows
<1>6. Kept(v, u)
  BY <1>1, KeptLater DEF Grows, Sees
<1>7. Leads(v, x, u)
  BY DEF Grows, Sees
<1>8. MineOf(Call(r), task'[r]) <=> MineOf(Call(r), task[r])
  BY DEF MineOf, Grows
<1>9. (\A q \in Slots : ~WriterOf(Call(q), pc'[q], task'[q])) => x = v
  <2> SUFFICES ASSUME \A q \in Slots : ~WriterOf(Call(q), pc'[q], task'[q]) PROVE x = v
    OBVIOUS
  <2>1. ~MineOf(Call(r), task[r])
    BY <1>8 DEF WriterOf, Grows
  <2>2. \A q \in Slots : ~WriterOf(Call(q), pc[q], task[q])
    BY <2>1 DEF WriterOf, Grows
  <2>3. x = w
    BY <2>1 DEF Grows
  <2>4. w = v
    BY <2>2 DEF Sees
  <2> QED
    BY <2>3, <2>4
<1>10. ASSUME NEW q \in Slots, MineOf(Call(q), task'[q]) PROVE Relies(Call(q), pc'[q], task'[q], v, x, u)
  <2>1. CASE q = r
    <3>1. MineOf(Call(r), task[r]) /\ pc'[r] \in {"sweeping", "writing"}
      BY <1>8, <1>10, <2>1 DEF Grows
    <3>2. pc'[r] = "sweeping" => task'[r].now = u /\ overdue(x, u) = {}
      BY <3>1 DEF Grows
    <3> QED
      BY <2>1, <3>1, <3>2 DEF Relies
  <2>2. CASE q # r
    <3>1. pc'[q] = pc[q] /\ task'[q] = task[q]
      BY <2>2 DEF Grows
    <3>2. Relies(Call(q), pc[q], task[q], v, w, t)
      BY <1>10, <3>1 DEF Sees
    <3>3. CASE ~MineOf(Call(r), task[r])
      BY <3>1, <3>2, <3>3 DEF Grows
    <3>4. CASE MineOf(Call(r), task[r])
      <4>1. pc[q] \notin {"sweeping", "deciding"}
        BY <1>10, <2>2, <3>1, <3>4 DEF Grows, Sole
      <4> QED
        BY <3>1, <3>2, <4>1 DEF Relies
    <3> QED
      BY <3>3, <3>4
  <2> QED
    BY <2>1, <2>2
<1>11. Grown(es, v) /\ Grown(all, x) /\ lastNow'[theGrant] = u
  BY <1>5 DEF Grows, Sees
<1> QED
  BY <1>3, <1>4, <1>6, <1>7, <1>9, <1>10, <1>11, SeesNext

\* A drain makes the log what its batch had made of it.
LEMMA ViewDrain ==
  ASSUME Inv, client' = client, Drain, NEW v, NEW w, NEW t, Sees(v, w, t)
  PROVE  Sees(w, w, t)'
<1>1. /\ v \in View /\ w \in View /\ t \in Nat /\ events \in Seq(Event) /\ events \o batch \in Seq(Event)
  BY SeesTypes
<1>2. /\ events' = events \o batch /\ queue' = <<>> /\ UNCHANGED <<task, lastNow>>
      /\ \A q \in Slots : pc[q] \notin {"written", "deciding", "rejected"}
      /\ \A q \in Slots :
           pc'[q] = IF pc[q] = "writing" THEN "written"
                    ELSE IF pc[q] = "sweeping" THEN "deciding" ELSE pc[q]
  BY DrainLog DEF Drain, Commit, serverVarsButPc
<1>3. PICK es : es = events'
  OBVIOUS
<1>4. PICK all : all = events' \o batch'
  OBVIOUS
<1>5. es = events \o batch /\ all = es
  BY <1>1, <1>2, <1>3, <1>4, BatchEmptyNext, WholePrefix
<1>6. Kept(w, t) /\ LifeKept(v, w)
  BY <1>1, LeadsKept DEF Sees
<1>7. Leads(w, w, t)
  BY <1>1, LeadsSame
<1>8. ASSUME NEW q \in Slots, MineOf(Call(q), task'[q]) PROVE Relies(Call(q), pc'[q], task'[q], w, w, t)
  <2>1. MineOf(Call(q), task[q]) /\ Relies(Call(q), pc[q], task[q], v, w, t) /\ task'[q] = task[q]
    BY <1>2, <1>8 DEF Sees
  <2>2. CASE pc[q] = "sweeping"
    BY <1>2, <2>1, <2>2 DEF Relies
  <2>3. CASE pc[q] = "waiting" /\ Call(q).op = "report"
    <3>1. Allowed(v, Call(q), task[q].a)
      BY <2>1, <2>3 DEF Relies
    <3>2. Allowed(w, Call(q), task[q].a)
      BY <1>6, <3>1 DEF Allowed, LifeKept, authenticates
    <3> QED
      BY <1>2, <2>1, <2>3, <3>2 DEF Relies
  <2>4. CASE pc[q] # "sweeping" /\ ~(pc[q] = "waiting" /\ Call(q).op = "report")
    <3>1. pc'[q] \notin {"sweeping", "deciding"} /\ ~(pc'[q] = "waiting" /\ Call(q).op = "report")
      BY <1>2, <2>4
    <3> QED
      BY <3>1 DEF Relies
  <2> QED
    BY <2>2, <2>3, <2>4
<1>9. Grown(es, w) /\ Grown(all, w) /\ lastNow'[theGrant] = t
  BY <1>2, <1>5 DEF Sees
<1> QED
  BY <1>3, <1>4, <1>6, <1>7, <1>8, <1>9, SeesNext

\* A failed drain drops the batch, and its view.
LEMMA ViewFail ==
  ASSUME Inv, client' = client, NEW n, NEW cut, DrainFails(n, cut), NEW v, NEW w, NEW t, Sees(v, w, t)
  PROVE  Sees(v, v, t)'
<1>1. /\ v \in View /\ w \in View /\ t \in Nat /\ events \in Seq(Event)
  BY SeesTypes
<1>2. /\ queue' = <<>> /\ UNCHANGED <<events, task, lastNow>>
      /\ pc' = [r \in Slots |-> IF r \in InBatch THEN "rejected" ELSE pc[r]]
  BY DEF DrainFails, CommitFails
<1>3. PICK es : es = events'
  OBVIOUS
<1>4. PICK all : all = events' \o batch'
  OBVIOUS
<1>5. es = events /\ all = es
  BY <1>1, <1>2, <1>3, <1>4, BatchEmptyNext, WholePrefix
<1>6. Leads(v, v, t)
  BY <1>1, LeadsSame
<1>7. ASSUME NEW q \in Slots, MineOf(Call(q), task'[q]) PROVE Relies(Call(q), pc'[q], task'[q], v, v, t)
  <2>1. Relies(Call(q), pc[q], task[q], v, w, t) /\ task'[q] = task[q]
    BY <1>2, <1>7 DEF Sees
  <2>2. pc'[q] = "rejected" \/ (pc'[q] = pc[q] /\ q \notin InBatch)
    BY <1>2
  <2>3. q \notin InBatch => pc[q] # "sweeping"
    BY DEF Inv, BatchInv
  <2> QED
    BY <2>1, <2>2, <2>3 DEF Relies
<1>8. Grown(es, v) /\ Grown(all, v) /\ lastNow'[theGrant] = t /\ Kept(v, t)
  BY <1>2, <1>5 DEF Sees
<1> QED
  BY <1>3, <1>4, <1>6, <1>7, <1>8, SeesNext

\* A step that changes none of what is seen.
LEMMA ViewSame ==
  ASSUME Inv, client' = client, UNCHANGED <<events, queue, pc, task, lastNow>>,
         NEW v, NEW w, NEW t, Sees(v, w, t)
  PROVE  Sees(v, w, t)'
<1>1. PICK es : es = events'
  OBVIOUS
<1>2. PICK all : all = events' \o batch'
  OBVIOUS
<1>3. es = events /\ all = events \o batch
  BY <1>1, <1>2, BatchSame
<1> QED
  BY <1>1, <1>2, <1>3, SeesNext DEF Sees

-----------------------------------------------------------------------------
(* A stop leaves the log, or the log with all of the batch; a boot reads it. *)

\* A kill leaves the log in the file, or the log with all of the batch.
LEMMA StopFile ==
  ASSUME Mild, "power" \notin Faults, Inv, BooksInv, NEW n, NEW cut, Stops(n, cut)
  PROVE  file' \in Seq(Event) /\ (file' = events \/ file' = events \o batch)
<1>1. events \in Seq(Event) /\ batch \in Seq(Event) /\ faults \in Nat /\ MaxFaults \in Nat
  BY Types DEF Inv
<1>2. /\ Leaves(n, cut) /\ up /\ ~up' /\ faults < MaxFaults
      /\ cut = "whole" /\ n \in {0, Len(batch)}
  BY DEF Stops, Halt, Forget
<1>3. file = events /\ ~unended /\ file \in Seq(Event)
  BY <1>1, <1>2 DEF Mild, BooksInv, Clean
<1>4. file' = written(SubSeq(batch, 1, n))
  BY <1>2, <1>3 DEF Leaves
<1>5. file' = events \/ file' = events \o batch
  <2>1. SubSeq(batch, 1, n) = <<>> \/ SubSeq(batch, 1, n) = batch
    BY <1>1, <1>2, WholePrefix
  <2> QED
    BY <1>3, <1>4, <2>1 DEF written
<1> QED
  BY <1>1, <1>5, ConcatPlaces

\* So what is read of the file is the one view or the other.
LEMMA ViewStop ==
  ASSUME Mild, "power" \notin Faults, Inv, BooksInv, NEW n, NEW cut, Stops(n, cut),
         NEW v, NEW w, NEW t, Sees(v, w, t)
  PROVE  Reads(v, t)' \/ Reads(w, t)'
<1>1. /\ v \in View /\ w \in View /\ t \in Nat /\ events \in Seq(Event)
  BY SeesTypes
<1>2. file' \in Seq(Event) /\ (file' = events \/ file' = events \o batch)
  BY StopFile
<1>3. PICK fs : fs = file'
  OBVIOUS
<1>4. load(fs) = fs
  BY <1>2, <1>3, LoadPlain
<1>5. Kept(w, t)
  BY <1>1, LeadsKept DEF Sees
<1>6. lastNow'[theGrant] = t
  BY DEF Stops, Forget, Sees
<1>7. CASE fs = events
  <2>1. Grown(load(fs), v) /\ Kept(v, t)
    BY <1>4, <1>7 DEF Sees
  <2> QED
    BY <1>3, <1>6, <2>1 DEF Reads
<1>8. CASE fs = events \o batch
  <2>1. Grown(load(fs), w)
    BY <1>4, <1>8 DEF Sees
  <2> QED
    BY <1>3, <1>5, <1>6, <2>1 DEF Reads
<1> QED
  BY <1>2, <1>3, <1>7, <1>8

\* A boot sees what it reads.
LEMMA ViewBoot ==
  ASSUME Inv, client' = client, Boot, NEW v, NEW t, Reads(v, t)
  PROVE  Sees(v, v, t)'
<1>1. /\ ~up /\ events' = load(file) /\ UNCHANGED <<queue, pc, task, lastNow>>
  BY DEF Boot, Load
<1>2. queue = <<>> /\ \A r \in Slots : ~InFlight(r)
  BY <1>1 DEF Inv, DownInv
<1>3. PICK es : es = events'
  OBVIOUS
<1>4. PICK all : all = events' \o batch'
  OBVIOUS
<1>5. Grown(es, v) /\ Kept(v, t) /\ lastNow'[theGrant] = t /\ es \in Seq(Event)
  BY <1>1, <1>3 DEF Reads, Grown, Good
<1>6. all = es
  BY <1>1, <1>2, <1>3, <1>4, <1>5, BatchEmptyNext, WholePrefix
<1>7. Leads(v, v, t)
  <2>1. v \in View
    BY <1>5, ViewType DEF Grown
  <2> QED
    BY <2>1, LeadsSame
<1>8. ASSUME NEW q \in Slots, MineOf(Call(q), task'[q]) PROVE Relies(Call(q), pc'[q], task'[q], v, v, t)
  BY <1>1, <1>2 DEF Relies, InFlight
<1> QED
  BY <1>3, <1>4, <1>5, <1>6, <1>7, <1>8, SeesNext

\* The server starts with the view of the empty log.
LEMMA ViewStart == Init => ViewInv
<1> SUFFICES ASSUME Init PROVE ViewInv
  OBVIOUS
<1>1. /\ events = <<>> /\ queue = <<>> /\ up = TRUE /\ pc = [r \in Slots |-> "idle"]
      /\ lastNow[theGrant] = 0
  BY TheGrant DEF Init, StoreInit
<1>2. events \o batch = <<>>
  BY <1>1, BatchEmpty
<1> PICK v : v = view(<<>>)
  OBVIOUS
<1>3. v \in View /\ Good(<<>>) /\ Kept(v, 0)
  BY ViewEmpty
<1>4. Grown(<<>>, v) /\ Leads(v, v, 0)
  BY <1>3, LeadsSame DEF Grown
<1>5. Sees(v, v, 0)
  BY <1>1, <1>2, <1>3, <1>4 DEF Sees, Relies
<1> QED
  BY <1>1, <1>5 DEF ViewInv

-----------------------------------------------------------------------------
(* The sweep. *)

\* What the sweep finds expired of the grant is what the view shows overdue.
LEMMA OverdueIs ==
  ASSUME NEW es, Books(es), Mirrors(es), NEW v, Grown(es, v), NEW now \in Nat
  PROVE  expiredReservations(es, theGrant, now) = overdue(v, now)
<1>1. es \in Seq(Event) /\ theGrant \in Grants /\ theGrant # None
  BY TheGrant, NothingFits DEF Books
<1> SUFFICES ASSUME NEW a \in AuthIds
             PROVE  (/\ sweepRow(es, theGrant, a).open /\ sweepRow(es, theGrant, a).deadline # 0
                     /\ now > sweepRow(es, theGrant, a).deadline)
                      <=> (v.dec[a].g = theGrant /\ expired(v.life[a], now))
  BY DEF expiredReservations, overdue
<1>2. v.dec[a] = decidedOf(es, a) /\ v.life[a] = lifeOf(es, a)
  BY DEF Grown, view
<1>3. v.dec[a].g = theGrant <=> decisionOf(es, a).g = theGrant
  BY <1>2, NothingFits DEF decidedOf
<1>4. CASE decisionOf(es, a).g = theGrant
  <2>1. v.life[a] = railState(es, a)
    BY <1>2, <1>4 DEF lifeOf
  <2>2. /\ sweepRow(es, theGrant, a).open <=> sweepable(railState(es, a))
        /\ sweepRow(es, theGrant, a).open => sweepRow(es, theGrant, a).deadline = railState(es, a).deadline
    BY <1>1, <1>4 DEF Mirrors, Mirrored
  <2> QED
    BY <1>3, <1>4, <2>1, <2>2 DEF expired
<1>5. CASE decisionOf(es, a).g # theGrant
  <2>1. ~sweepRow(es, theGrant, a).open
    BY <1>1, <1>5 DEF Books, RowsHeld
  <2> QED
    BY <1>3, <1>5, <2>1
<1> QED
  BY <1>4, <1>5

\* A sequence of a set has all of it.
LEMMA InOrderAll ==
  ASSUME NEW S, IsFiniteSet(S), NEW x \in S
  PROVE  \E i \in DOMAIN SetToSeq(S) : SetToSeq(S)[i] = x
<1> PICK q : q = SetToSeq(S)
  OBVIOUS
<1>1. /\ q \in Seq(S) /\ DOMAIN q = 1..Cardinality(S) /\ Cardinality(S) \in Nat
      /\ \A i, j \in DOMAIN q : q[i] = q[j] => i = j
  BY InSomeOrder
<1>2. PICK n \in Nat : n = Cardinality(S)
  BY <1>1
<1>3. q \in [1..n -> S]
  BY <1>1, <1>2
<1>4. q \in Injection(1..n, S)
  BY <1>1, <1>2, <1>3 DEF Injection, IsInjective
<1>5. Cardinality(1..n) = n
  BY <1>2, FS_Interval
<1>6. q \in Surjection(1..n, S)
  BY <1>2, <1>4, <1>5, FS_Injection
<1> QED
  BY <1>1, <1>2, <1>6 DEF Surjection

\* A sweep reverses all that is expired, at its time.
LEMMA ReversalsAll ==
  ASSUME NEW es \in Seq(Event), NEW g \in Grants, NEW now \in Nat, NEW rs, rs = reversals(es, g, now)
  PROVE  /\ idsOf(rs) = expiredReservations(es, g, now)
         /\ \A i \in DOMAIN rs : rs[i].ts = now
<1> DEFINE back(a) == [NoEvent EXCEPT !.kind = "reversal", !.a = a, !.g = g, !.ts = now,
                                      !.amount = sweepRow(es, g, a).amount]
           B == expiredReservations(es, g, now)
           S == {back(a) : a \in B}
<1>1. B \in SUBSET AuthIds
  BY DEF expiredReservations
<1>2. IsFiniteSet(S)
  <2>1. IsFiniteSet(B)
    BY <1>1, FS_Subset, ServerAssumption
  <2> HIDE DEF back, B
  <2>2. [a \in B |-> back(a)] \in Surjection(B, {back(a) : a \in B})
    BY Fun_IsSurj
  <2> QED
    BY <2>1, <2>2, FS_Surjection
<1>3. \A a \in AuthIds : back(a).a = a /\ back(a).ts = now
  BY DEF NoEvent
<1>4. rs = SetToSeq(S)
  BY DEF reversals
<1> HIDE DEF back, B
<1>5. \A e \in S : \E a \in B : e = back(a)
  OBVIOUS
<1>6. \A a \in B : back(a) \in S
  OBVIOUS
<1> HIDE DEF S
<1>7. \A i \in DOMAIN rs : rs[i] \in S
  BY <1>2, <1>4, InSomeOrder
<1>8. \A i \in DOMAIN rs : rs[i].a \in B /\ rs[i].ts = now
  BY <1>1, <1>3, <1>5, <1>7
<1>9. \A a \in B : \E i \in DOMAIN rs : rs[i].a = a
  <2> SUFFICES ASSUME NEW a \in B PROVE \E i \in DOMAIN rs : rs[i].a = a
    OBVIOUS
  <2>1. PICK i \in DOMAIN rs : rs[i] = back(a)
    BY <1>2, <1>4, <1>6, InOrderAll
  <2> QED
    BY <1>1, <1>3, <2>1
<1> QED
  BY <1>8, <1>9 DEF idsOf, B

\* Who is in the lock of the grant finds it minted.
LEMMA HolderKnown ==
  ASSUME Inv, NEW r \in Slots, InLock(r), task[r].g = theGrant, NEW v, NEW w, NEW t, Sees(v, w, t)
  PROVE  v.policy # None /\ v.policy \in Policies
<1>1. events \in Seq(Event) /\ v = view(events)
  BY SeesTypes
<1>2. Known(events, theGrant)
  BY DEF Inv, MintInv
<1>3. v.policy = grantOf(events, theGrant)
  BY <1>1 DEF view
<1> QED
  BY <1>1, <1>2, <1>3, GrantKnown

\* The grant's clock is the server's when its lock is taken to decide.
LEMMA LastNowGrows ==
  ASSUME Inv, NEW g \in Grants, lastNow' = [lastNow EXCEPT ![g] = clock]
  PROVE  lastNow'[theGrant] = IF g = theGrant THEN clock ELSE lastNow[theGrant]
  BY Types, TheGrant DEF Inv

\* The lock is taken with nothing to sweep, or only to repeat an answer.
LEMMA ViewEnters ==
  ASSUME Inv, BooksInv, MirrorsInv, client' = client, NEW r \in Slots, AuthorizeEnters(r), UNCHANGED queue,
         NEW v, NEW w, NEW t, Sees(v, w, t)
  PROVE  \E u : Sees(v, w, u)'
<1> DEFINE g == task[r].g
<1>1. /\ clock \in Nat /\ pc \in [Slots -> PCs] /\ task \in [Slots -> Task] /\ lastNow[theGrant] \in Nat
      /\ events \in Seq(Event) /\ lastNow[theGrant] <= clock
  BY Types, ClockWithin DEF Inv
<1>2. Call(r).op = "authorize" /\ InLock(r) /\ Holds(r) /\ pc[r] = "waiting" /\ Asks(r)
  BY DEF AuthorizeEnters, InLock, Asks
<1>3. up /\ g \in Grants
  BY <1>2 DEF Inv, DownInv, InFlight, LockInv
<1>4. Moves(r)
  BY IdlesInside, MoveSteps DEF Idles
<1>5. CASE idem[g][Call(r).key] # None
  <2>1. Release(r, "answered") /\ UNCHANGED lastNow
    BY <1>5 DEF AuthorizeEnters
  <2>2. pc'[r] = "answered"
    BY <1>1, <2>1 DEF Release, Goto
  <2> QED
    BY <1>4, <2>1, <2>2, ViewRests
<1>6. CASE idem[g][Call(r).key] = None
  <2>1. /\ task' = [task EXCEPT ![r].now = clock] /\ lastNow' = [lastNow EXCEPT ![g] = clock]
        /\ reversals(events, g, clock) = <<>> /\ Goto(r, "deciding") /\ UNCHANGED <<events, queue>>
    <3>1. reversals(events, g, clock) # <<>> => pc'[r] = "sweeping"
      BY <1>1, <1>6 DEF AuthorizeEnters, Goto
    <3>2. pc'[r] # "sweeping"
      BY <1>4 DEF Moves
    <3> QED
      BY <1>6, <3>1, <3>2 DEF AuthorizeEnters
  <2>2. /\ pc' = [pc EXCEPT ![r] = "deciding"] /\ task'[r].g = g /\ task'[r].now = clock
        /\ \A q \in Slots \ {r} : pc'[q] = pc[q] /\ task'[q] = task[q]
    BY <1>1, <2>1 DEF Goto, Task
  <2>3. PICK u : u = IF g = theGrant THEN clock ELSE t
    OBVIOUS
  <2>4. lastNow'[theGrant] = u /\ t \in Nat /\ u \in Nat /\ t <= u
    <3>1. PICK h \in Grants : h = g
      BY <1>3
    <3>2. lastNow'[theGrant] = IF h = theGrant THEN clock ELSE lastNow[theGrant]
      BY <2>1, <3>1, LastNowGrows
    <3>3. t = lastNow[theGrant]
      BY DEF Sees
    <3> QED
      BY <1>1, <2>3, <3>1, <3>2, <3>3
  <2>5. PICK es : es = events'
    OBVIOUS
  <2>6. PICK all : all = events' \o batch'
    OBVIOUS
  <2>7. es = events /\ all = events \o batch
    BY <2>1, <2>5, <2>6, BatchSame
  <2>8. g = theGrant => w = v /\ Sole(r)
    BY <1>2, SoleHolder, SoleSame
  <2>9. Kept(v, u)
    BY <2>4, KeptLater DEF Sees
  <2>10. Leads(v, w, u)
    <3>1. CASE g = theGrant
      BY <2>8, <3>1, SeesTypes, LeadsSame
    <3>2. CASE g # theGrant
      BY <2>3, <3>2 DEF Sees
    <3> QED
      BY <3>1, <3>2
  <2>11. (\A q \in Slots : ~WriterOf(Call(q), pc'[q], task'[q])) => w = v
    <3>1. (\A q \in Slots : ~WriterOf(Call(q), pc'[q], task'[q])) =>
            \A q \in Slots : ~WriterOf(Call(q), pc[q], task[q])
      BY <1>2, <2>2 DEF WriterOf
    <3> QED
      BY <3>1 DEF Sees
  <2>12. ASSUME NEW q \in Slots, MineOf(Call(q), task'[q]) PROVE Relies(Call(q), pc'[q], task'[q], v, w, u)
    <3>1. CASE q = r
      <4>1. g = theGrant /\ u = clock
        BY <1>2, <2>2, <2>3, <2>12, <3>1 DEF MineOf
      <4>2. overdue(v, u) = {}
        <5>1. Books(events) /\ Mirrors(events) /\ Grown(events, v)
          BY <1>1, <1>3, Types, SteadyWhole DEF Inv, BooksInv, MirrorsInv, Sees
        <5>2. expiredReservations(events, theGrant, u) = overdue(v, u)
          BY <2>4, <5>1, OverdueIs
        <5>3. PICK rs : rs = reversals(events, theGrant, u)
          OBVIOUS
        <5>4. idsOf(rs) = expiredReservations(events, theGrant, u)
          BY <1>1, <2>4, <5>3, TheGrant, ReversalsAll
        <5>5. rs = <<>>
          BY <2>1, <4>1, <5>3
        <5>6. idsOf(<<>>) = {}
          BY DEF idsOf
        <5> QED
          BY <5>2, <5>4, <5>5, <5>6
      <4>3. pc'[r] = "deciding"
        BY <1>1, <2>2
      <4> QED
        BY <2>2, <3>1, <4>1, <4>2, <4>3 DEF Relies
    <3>2. CASE q # r
      <4>1. pc'[q] = pc[q] /\ task'[q] = task[q]
        BY <2>2, <3>2
      <4>2. Relies(Call(q), pc[q], task[q], v, w, t)
        BY <2>12, <4>1 DEF Sees
      <4>3. g = theGrant => pc[q] \notin {"sweeping", "deciding"}
        BY <2>8, <2>12, <3>2, <4>1 DEF Sole
      <4> QED
        BY <2>3, <4>1, <4>2, <4>3 DEF Relies
    <3> QED
      BY <3>1, <3>2
  <2>13. Grown(es, v) /\ Grown(all, w)
    BY <2>7 DEF Sees
  <2> HIDE DEF g
  <2>14. Sees(v, w, u)'
    BY <2>4, <2>5, <2>6, <2>9, <2>10, <2>11, <2>12, <2>13, SeesNext
  <2> QED
    BY <2>14
<1> QED
  BY <1>5, <1>6

\* r queues what is one step of the view at most.
GrowsOn(r, v, w, t) == \E x, u, records : Grows(r, v, w, t, x, u, records)

\* The reversals of a sweep, behind the batch too, free the holds they name.
LEMMA SweepFrees ==
  ASSUME Inv, BooksInv, NEW r \in Slots, InLock(r), Holds(r), pc[r] = "waiting", up,
         NEW g \in Grants, g = task[r].g, NEW now \in Nat, NEW rs, rs = reversals(events, g, now),
         NEW all, all = events \o batch, NEW w, Grown(all, w)
  PROVE  rs \in Seq(Event) /\ Frees(all, w, g, now, rs)
<1>1. events \in Seq(Event) /\ batch \in Seq(Event) /\ g # None /\ all \in Seq(Event)
  BY Types, ServerAssumption, ConcatPlaces DEF Inv
<1>2. Books(events) /\ Books(all)
  BY <1>1, SteadyWhole DEF BooksInv
<1>3. rs \in Seq(Event) /\ SweepsRows(events, g, rs)
  BY <1>1, ReversalsAre
<1>4. \A i \in DOMAIN rs : rs[i].ts = now
  BY <1>1, ReversalsAll
<1>5. ASSUME NEW i \in DOMAIN rs PROVE Freeing(all, w, g, now, rs[i])
  <2> PICK a \in AuthIds : a = rs[i].a
    BY <1>3 DEF SweepsRows
  <2>1. /\ rs[i] \in Event /\ rs[i].kind = "reversal" /\ rs[i].g = g /\ rs[i].ts = now
        /\ sweepRow(events, g, a).open /\ rs[i].amount = sweepRow(events, g, a).amount
    BY <1>3, <1>4 DEF SweepsRows
  <2>2. decisionOf(events, a).g = g /\ rs[i].amount = railState(events, a).amount
    BY <1>2, <2>1 DEF Books, RowsHeld
  <2>3. Owner(events, a, task[r].g)
    BY <1>1, <2>2, IsOwner
  <2>4. Owner(all, a, g) /\ railState(all, a) = railState(events, a)
    BY <2>3, BatchSkips
  <2>5. railState(all, a).amount \in 0..MaxAmount
    BY <1>2 DEF Books, InRange
  <2>6. g = theGrant => w.life[a] = railState(all, a)
    <3> SUFFICES ASSUME g = theGrant PROVE w.life[a] = railState(all, a)
      OBVIOUS
    <3>1. Decided(all, w, a, theGrant)
      BY <2>4, TheGrant DEF Decided
    <3> QED
      BY <3>1, DecidedLife
  <2> QED
    BY <2>1, <2>2, <2>4, <2>5, <2>6 DEF Freeing
<1> QED
  BY <1>3, <1>5 DEF Frees, SweepsRows

\* A sweep before a decision moves the view by a sweep.
LEMMA SweepGrows ==
  ASSUME Inv, BooksInv, MirrorsInv, NEW r \in Slots, AuthorizeEnters(r), ~UNCHANGED queue,
         NEW v, NEW w, NEW t, Sees(v, w, t)
  PROVE  GrowsOn(r, v, w, t)
<1>1. /\ clock \in Nat /\ pc \in [Slots -> PCs] /\ task \in [Slots -> Task] /\ lastNow[theGrant] \in Nat
      /\ events \in Seq(Event) /\ lastNow[theGrant] <= clock
  BY Types, ClockWithin DEF Inv
<1>2. Call(r).op = "authorize" /\ InLock(r) /\ Holds(r) /\ pc[r] = "waiting" /\ Asks(r)
  BY DEF AuthorizeEnters, InLock, Asks
<1>3. up /\ task[r].g \in Grants
  BY <1>2 DEF Inv, DownInv, InFlight, LockInv
<1> PICK g \in Grants : g = task[r].g
  BY <1>3
<1> PICK now \in Nat : now = clock
  BY <1>1
<1> PICK rs : rs = reversals(events, g, now)
  OBVIOUS
<1> PICK all : all = events \o batch
  OBVIOUS
<1>4. /\ Enqueue(r, rs) /\ rs # <<>> /\ Goto(r, "sweeping") /\ task' = [task EXCEPT ![r].now = now]
      /\ lastNow' = [lastNow EXCEPT ![g] = clock]
      /\ UNCHANGED <<file, unended, events, up>>
  BY DEF AuthorizeEnters
<1>5. Grown(all, w) /\ v \in View /\ w \in View /\ t \in Nat
  BY SeesTypes DEF Sees
<1>6. rs \in Seq(Event) /\ Frees(all, w, g, now, rs)
  BY <1>2, <1>3, <1>5, SweepFrees
<1>7. FreedIn(all \o rs, w, g, now, idsOf(rs))
  BY <1>5, <1>6, SweepView
<1> PICK S : S = idsOf(rs)
  OBVIOUS
<1>8. PICK x \in View : /\ Grown(all \o rs, x) /\ (g # theGrant => x = w)
                        /\ g = theGrant => Freed(w, x, now, S)
  BY <1>7 DEF FreedIn
<1>9. PICK u : u = IF g = theGrant THEN now ELSE t
  OBVIOUS
<1>10. lastNow'[theGrant] = u /\ u \in Nat /\ t <= u
  <2>1. lastNow'[theGrant] = IF g = theGrant THEN clock ELSE lastNow[theGrant]
    BY <1>4, LastNowGrows
  <2>2. t = lastNow[theGrant]
    BY DEF Sees
  <2> QED
    BY <1>1, <1>9, <2>1, <2>2
<1>11. MineOf(Call(r), task[r]) <=> g = theGrant
  BY <1>2 DEF MineOf
<1>12. g = theGrant => Sole(r) /\ Leads(v, x, u) /\ overdue(x, u) = {}
  <2> SUFFICES ASSUME g = theGrant PROVE Sole(r) /\ Leads(v, x, u) /\ overdue(x, u) = {}
    OBVIOUS
  <2>1. Sole(r) /\ w = v
    BY <1>2, SoleHolder, SoleSame
  <2>2. Books(events) /\ Mirrors(events) /\ Grown(events, v)
    BY <1>1, <1>3, Types, SteadyWhole DEF Inv, BooksInv, MirrorsInv, Sees
  <2>3. S = overdue(v, now)
    BY <1>1, <2>2, OverdueIs, ReversalsAll
  <2>4. S # {}
    <3>1. 1 \in DOMAIN rs
      BY <1>4, <1>6
    <3> QED
      BY <3>1 DEF idsOf
  <2>5. v.policy # None
    BY <1>2, HolderKnown
  <2>6. Freed(v, x, now, S)
    BY <1>8, <2>1
  <2>7. Swept(v, x, now) /\ Later(v, x, now) /\ overdue(x, now) = {}
    BY <1>5, <2>3, <2>4, <2>5, <2>6, FreedSwept
  <2> QED
    BY <1>9, <2>1, <2>7 DEF Leads
<1>13. /\ pc'[r] = "sweeping" /\ task'[r].g = task[r].g /\ task'[r].now = now
       /\ \A q \in Slots \ {r} : pc'[q] = pc[q] /\ task'[q] = task[q]
  BY <1>1, <1>4 DEF Goto, Task
<1>14. Grown((events \o batch) \o rs, x)
  BY <1>8
<1>15. Grows(r, v, w, t, x, u, rs)
  BY <1>4, <1>6, <1>8, <1>9, <1>10, <1>11, <1>12, <1>13, <1>14 DEF Grows
<1> QED
  BY <1>15 DEF GrowsOn

-----------------------------------------------------------------------------
(* The mint. *)

\* A grant_meta and the open behind it.
LEMMA MintView ==
  ASSUME NEW es, NEW v, Grown(es, v), NEW meta \in Event, NEW open \in Event, NEW g, meta.g = g, open.g = g,
         meta.kind = "grant_meta", open.kind = "open",
         NEW p \in Policies, meta.policy = p, open.amount = p.budget
  PROVE  \E x \in View : /\ Grown(es \o <<meta, open>>, x)
                         /\ g # theGrant => x = v
                         /\ g = theGrant /\ v.policy = None /\ v.budget = 0 => Minted(v, x) /\ x.today = v.today
<1>1. Proper(es, meta)
  BY DEF Proper, LifeKinds
<1> PICK fs : fs = Append(es, meta)
  OBVIOUS
<1> PICK w : w = viewStep(v, meta)
  OBVIOUS
<1>2. Grown(fs, w) /\ v \in View /\ w \in View /\ (g # theGrant => w = v)
  BY <1>1, GrownNext
<1>3. Proper(fs, open)
  BY DEF Proper, LifeKinds
<1> PICK x : x = viewStep(w, open)
  OBVIOUS
<1>4. Grown(Append(fs, open), x) /\ x \in View /\ (g # theGrant => x = w)
  BY <1>2, <1>3, GrownNext
<1>5. Append(fs, open) = es \o <<meta, open>>
  <2>1. es \in Seq(Event)
    BY DEF Grown, Good
  <2> QED
    BY <2>1
<1>6. ASSUME g = theGrant, v.policy = None, v.budget = 0 PROVE Minted(v, x) /\ x.today = v.today
  <2>1. Settles(v, w) /\ Named(v, w) /\ Settles(w, x) /\ Named(w, x)
    BY <1>2, <1>6, StepStill, StepNamed DEF LifeKinds
  <2>2. w.policy = p /\ w.budget = 0 /\ w.pend = v.pend
    BY <1>6 DEF viewStep
  <2>3. x.policy = p /\ x.budget = p.budget /\ x.pend = v.pend
    BY <1>6, <2>2 DEF viewStep
  <2>4. PICK y : y = [v EXCEPT !.policy = p, !.budget = p.budget]
    OBVIOUS
  <2>5. y \in View
    BY <1>2, <2>4, ServerAssumption DEF View
  <2>6. /\ y.policy = p /\ y.budget = p.budget /\ y.dec = v.dec /\ y.life = v.life /\ y.pend = v.pend
        /\ y.balance = v.balance /\ y.late = v.late /\ y.today = v.today
    BY <1>2, <2>4 DEF View
  <2>7. x = y
    <3>1. /\ x.dec = v.dec /\ x.life = v.life /\ x.balance = v.balance /\ x.late = v.late /\ x.today = v.today
      BY <2>1 DEF Settles, Named
    <3> QED
      BY <1>4, <2>3, <2>5, <2>6, <3>1, ViewIs
  <2> QED
    BY <1>6, <2>4, <2>6, <2>7 DEF Minted
<1> QED
  BY <1>2, <1>4, <1>5, <1>6

\* POST /grants moves the view by a mint.
LEMMA MintGrows ==
  ASSUME Inv, NEW r \in Slots, CreateGrant(r), NEW v, NEW w, NEW t, Sees(v, w, t)
  PROVE  GrowsOn(r, v, w, t)
<1> DEFINE c == Call(r)
           meta == [NoEvent EXCEPT !.kind = "grant_meta", !.g = c.g, !.ts = clock, !.policy = c.policy]
           open == [NoEvent EXCEPT !.kind = "open", !.g = c.g, !.ts = clock, !.amount = c.policy.budget]
           records == <<meta, open>>
<1>1. /\ client \in Clients /\ clock \in Nat /\ c.op = "mint" /\ pc \in [Slots -> PCs] /\ pc[r] = "idle"
      /\ events \in Seq(Event)
  BY Types DEF Inv, CreateGrant, Quiet
<1>2. c.g \in Grants /\ c.policy \in Policies /\ c.policy.budget \in Nat
  BY <1>1, CallShape, ServerAssumption
<1> HIDE DEF c
<1>3. meta \in Event /\ meta.kind = "grant_meta" /\ meta.g = c.g /\ meta.policy = c.policy
  BY <1>1, <1>2 DEF Event, NoEvent, Kinds, Decisions, Outcomes, Why
<1>4. open \in Event /\ open.kind = "open" /\ open.g = c.g /\ open.amount = c.policy.budget
  BY <1>1, <1>2 DEF Event, NoEvent, Kinds, Decisions, Outcomes, Why
<1>5. /\ Enqueue(r, records) /\ Goto(r, "writing")
      /\ UNCHANGED <<file, unended, events, up, task, lastNow>>
  BY DEF CreateGrant, c
<1> HIDE DEF meta, open
<1>6. records \in Seq(Event)
  BY <1>3, <1>4
<1> PICK all : all = events \o batch
  OBVIOUS
<1>7. Grown(all, w) /\ v \in View /\ w \in View /\ t \in Nat
  BY SeesTypes DEF Sees
<1>8. PICK x \in View :
        /\ Grown(all \o records, x) /\ (c.g # theGrant => x = w)
        /\ c.g = theGrant /\ w.policy = None /\ w.budget = 0 => Minted(w, x) /\ x.today = w.today
  BY <1>2, <1>3, <1>4, <1>7, MintView
<1>9. MineOf(Call(r), task[r]) <=> c.g = theGrant
  BY <1>1 DEF MineOf, c
<1>10. c.g = theGrant => Sole(r) /\ Leads(v, x, t)
  <2> SUFFICES ASSUME c.g = theGrant PROVE Sole(r) /\ Leads(v, x, t)
    OBVIOUS
  <2>1. Sole(r) /\ ~Known(events, theGrant)
    BY <1>1, SoleMint DEF c
  <2>2. w = v
    BY <1>1, <2>1, SoleSame
  <2>3. v.policy = None
    <3>1. v = view(events)
      BY DEF Sees, Grown
    <3>2. v.policy = grantOf(events, theGrant)
      BY <3>1 DEF view
    <3> QED
      BY <1>1, <2>1, <3>2, GrantKnown
  <2>4. v.budget = 0
    BY <2>3 DEF Sees, Kept
  <2>5. Minted(v, x) /\ x.today = v.today
    BY <1>8, <2>2, <2>3, <2>4
  <2> QED
    BY <2>1, <2>5 DEF Leads, Later
<1>11. /\ pc'[r] = "writing"
       /\ \A q \in Slots \ {r} : pc'[q] = pc[q] /\ task'[q] = task[q]
  BY <1>1, <1>5 DEF Goto
<1>12. Grown((events \o batch) \o records, x)
  BY <1>8
<1>13. lastNow'[theGrant] = t
  BY <1>5 DEF Sees
<1> HIDE DEF records
<1>14. Grows(r, v, w, t, x, t, records)
  BY <1>5, <1>6, <1>7, <1>8, <1>9, <1>10, <1>11, <1>12, <1>13 DEF Grows
<1> QED
  BY <1>14 DEF GrowsOn

-----------------------------------------------------------------------------
(* The decision of POST /authorize. *)

\* A key that the log has not decided is none of the view's.
LEMMA KeyUnused ==
  ASSUME NEW es \in Seq(Event), NEW k, decidedAt(es, theGrant, k) = {}, NEW v, v = view(es),
         NEW a \in AuthIds, v.dec[a].g = theGrant
  PROVE  v.dec[a].key # k
<1> DEFINE places == {i \in DOMAIN es : es[i].kind = "decision" /\ es[i].a = a}
<1>1. v.dec[a] = decidedOf(es, a)
  BY DEF view
<1>2. v.dec[a] = decisionOf(es, a)
  BY <1>1, NothingFits DEF decidedOf
<1>3. v.dec[a] = lastAt(es, places)
  BY <1>2 DEF decisionOf
<1>4. places # {}
  BY <1>3, NothingFits DEF lastAt
<1>5. PICK i \in places : lastAt(es, places) = es[i]
  BY <1>4, LastPlace
<1>6. es[i].kind = "decision" /\ es[i].g = theGrant /\ v.dec[a] = es[i]
  BY <1>3, <1>5
<1> QED
  BY <1>5, <1>6 DEF decidedAt

\* The key that is being decided under the lock has not been.
LEMMA KeyOpen ==
  ASSUME Inv, up, NEW r \in Slots, Asks(r), pc[r] = "deciding", NEW v, v = view(events), task[r].g = theGrant
  PROVE  \A a \in AuthIds : v.dec[a].g = theGrant => v.dec[a].key # Call(r).key
<1>1. events \in Seq(Event) /\ client \in Clients /\ InLock(r) /\ Busy(r)
  BY Types DEF Inv, InLock, Busy, Asks
<1> PICK k \in Keys : k = Call(r).key
  BY <1>1, CallShape DEF Asks
<1>2. theGrant \in Grants
  BY TheGrant
<1>3. idem[theGrant][k] = None
  BY DEF Inv, IdemInv
<1>4. ~Finishing(theGrant, k)
  <2> SUFFICES ASSUME NEW q \in Slots, pc[q] = "written", Asks(q), task[q].g = theGrant PROVE FALSE
    BY DEF Finishing
  <2>1. Busy(q)
    BY DEF Busy, InLock, Asks
  <2>2. q = r
    BY <1>1, <2>1, OneHolder DEF Inv
  <2> QED
    BY <2>2
<1>5. answerOf(events, theGrant, k) = None
  BY <1>2, <1>3, <1>4 DEF Inv, IdemInv
<1>6. Known(events, theGrant)
  BY <1>1 DEF Inv, MintInv
<1>7. decidedAt(events, theGrant, k) = {}
  BY <1>1, <1>2, <1>5, <1>6, AnswerNone
<1> QED
  BY <1>1, <1>7, KeyUnused

\* What r decides of a grant it has locked enters no other.
LEMMA FreshInAll ==
  ASSUME Inv, NEW a \in Fresh, NEW all, all = events \o batch
  PROVE  a \in AuthIds /\ \A i \in DOMAIN all : all[i].a # a
  BY Types, FreshUnused, ConcatPlaces DEF Inv

\* A decision of the request is a decision of the view.
LEMMA DecideLeads ==
  ASSUME Inv, BooksInv, up, NEW r \in Slots, Asks(r), pc[r] = "deciding", task[r].g = theGrant,
         NEW v, NEW w, NEW t, Sees(v, w, t), NEW c, c = Call(r),
         NEW verdict, verdict = decide(agentView(events, theGrant, t), clock, c.amount, c.currency, c.category),
         NEW decision, decision = (IF verdict # "APPROVED" THEN "DENY"
                       ELSE IF needsApproval(grantOf(events, theGrant), c.amount) THEN "ESCALATE" ELSE "ALLOW"),
         NEW e \in Event, e.amount = c.amount, e.decision = decision, e.key = c.key, e.parent = None,
         e.reason = IF decision = "ESCALATE" THEN "APPROVAL_REQUIRED" ELSE verdict,
         NEW x \in View, Later(w, x, t),
         Entered(w, x, t, e, t + TTL, TRUE, IF decision = "ESCALATE" THEN w.pend \cup {e.a} ELSE w.pend)
  PROVE  Sole(r) /\ Leads(v, x, t)
<1>1. /\ client \in Clients /\ events \in Seq(Event) /\ InLock(r) /\ Holds(r)
      /\ v \in View /\ w \in View /\ t \in Nat
  BY Types, SeesTypes DEF Inv, LockInv, Busy, InLock, Asks
<1>2. Sole(r) /\ w = v
  BY <1>1, SoleHolder, SoleSame
<1>3. overdue(v, t) = {}
  BY DEF Sees, MineOf, Relies, Asks
<1>4. v = view(events) /\ Kept(v, t) /\ v.policy # None
  BY <1>1, HolderKnown DEF Sees, Grown
<1>5. agentView(events, theGrant, t) = agentOf(v, t) /\ grantOf(events, theGrant) = v.policy
  BY <1>1, <1>4, AgentIs DEF view
<1>6. c.key \in Keys /\ c.amount \in Amounts /\ c.currency \in Currencies /\ c.category \in Categories
  <2>1. c \in Calls
    BY <1>1, ServerAssumption DEF Slots, Call
  <2> QED
    BY <2>1 DEF Calls, Asks
<1>7. \A a \in AuthIds : v.dec[a].g = theGrant => v.dec[a].key # e.key
  BY <1>4, KeyOpen
<1> PICK later : later = clock
  OBVIOUS
<1>8. later \in t..horizon
  <2>1. t = lastNow[theGrant]
    BY DEF Sees
  <2> QED
    BY <2>1, Horizon, ClockWithin DEF Inv
<1>9. verdict = decide(agentOf(v, t), later, e.amount, c.currency, c.category)
  BY <1>5
<1>10. e.decision = IF verdict # "APPROVED" THEN "DENY"
                    ELSE IF needsApproval(v.policy, e.amount) THEN "ESCALATE" ELSE "ALLOW"
  BY <1>5
<1>11. Entered(v, x, t, e, t + TTL, TRUE, IF e.decision = "ESCALATE" THEN v.pend \cup {e.a} ELSE v.pend)
  BY <1>2
<1> PICK currency \in Currencies : currency = c.currency
  BY <1>6
<1> PICK category \in Categories : category = c.category
  BY <1>6
<1>12. e.key \in Keys /\ e.amount \in Amounts
  BY <1>6
<1>13. verdict = decide(agentOf(v, t), later, e.amount, currency, category)
  BY <1>9
<1>14. DecidedOf(v, x, t, e, currency, category, later)
  BY <1>7, <1>10, <1>11, <1>12, <1>13 DEF DecidedOf
<1>15. Authorized(v, x, t)
  BY <1>3, <1>4, <1>8, <1>14, AuthorizedIs
<1> QED
  BY <1>2, <1>15 DEF Leads

\* The records of a decision are records.
LEMMA ExactSeq ==
  ASSUME NEW ds, NEW a, NEW g, NEW now, NEW amount, NEW decision, NEW reason, NEW key, NEW parent,
         NEW exp, NEW hasToken,
         ExactDecision(ds, a, g, now, amount, decision, reason, key, parent, exp, hasToken)
  PROVE  ds \in Seq(Event)
<1>1. PICK d \in Event, h \in Event, q \in Event, c \in Event : ds \in {<<d, h, c>>, <<d, q, c>>, <<d, c>>}
  BY DEF ExactDecision
<1>2. <<d, h, c>> \in Seq(Event) /\ <<d, q, c>> \in Seq(Event) /\ <<d, c>> \in Seq(Event)
  OBVIOUS
<1> QED
  BY <1>1, <1>2

\* POST /authorize moves the view by a decision.
LEMMA DecideGrows ==
  ASSUME Inv, BooksInv, NEW r \in Slots, AuthorizeDecides(r), NEW v, NEW w, NEW t, Sees(v, w, t)
  PROVE  GrowsOn(r, v, w, t)
<1>1. /\ client \in Clients /\ pc \in [Slots -> PCs] /\ task \in [Slots -> Task]
      /\ events \in Seq(Event) /\ batch \in Seq(Event)
  BY Types DEF Inv
<1>2. Call(r).op = "authorize" /\ InLock(r) /\ pc[r] = "deciding" /\ Asks(r)
  BY DEF AuthorizeDecides, InLock, Asks
<1>3. up /\ task[r].g \in Grants /\ Call(r).key \in Keys
  BY <1>1, <1>2, CallShape DEF Inv, DownInv, InFlight, LockInv
<1>4. PICK g \in Grants : g = task[r].g
  BY <1>3
<1>5. PICK now \in Nat : now = task[r].now
  BY <1>1 DEF Task
<1>6. PICK a \in AuthIds : a = newId /\ a \in Fresh
  BY DEF AuthorizeDecides, newId, Fresh
<1>7. PICK c : c = Call(r)
  OBVIOUS
<1>8. PICK key \in Keys \cup {None} : key = c.key
  BY <1>3, <1>7
<1>9. PICK amount \in Nat : amount = c.amount
  <2>1. c \in Calls
    BY <1>1, <1>7, ServerAssumption DEF Slots, Call
  <2>2. c.amount \in Amounts
    BY <1>2, <1>7, <2>1 DEF Calls
  <2>3. c.amount \in 1..MaxAmount /\ MaxAmount \in Nat
    BY <2>2, ServerAssumption, MoneyAssumption
  <2> QED
    BY <2>3
<1>10. PICK verdict : verdict = decide(agentView(events, g, now), clock, c.amount, c.currency, c.category)
  OBVIOUS
<1>11. PICK decision : decision = (IF verdict # "APPROVED" THEN "DENY"
                         ELSE IF needsApproval(grantOf(events, g), c.amount) THEN "ESCALATE" ELSE "ALLOW")
  OBVIOUS
<1>12. PICK reason : reason = IF decision = "ESCALATE" THEN "APPROVAL_REQUIRED" ELSE verdict
  OBVIOUS
<1>13. decision \in {"ALLOW", "DENY", "ESCALATE"} /\ reason \in Why
  <2>1. verdict \in Reasons
    BY <1>10, DecideType
  <2> QED
    BY <1>11, <1>12, <2>1 DEF Why
<1>14. PICK exp \in Nat : exp = now + TTL
  BY ServerAssumption
<1>15. PICK token \in BOOLEAN : token = TRUE
  OBVIOUS
<1>16. PICK parent \in AuthIds \cup {None} : parent = None
  OBVIOUS
<1>17. PICK ds : ds = decisionRecords(a, g, now, amount, decision, reason, key, parent, exp, token)
  OBVIOUS
<1>18. /\ Enqueue(r, ds) /\ Goto(r, "writing")
       /\ task' = [task EXCEPT ![r].a = a, ![r].decision = decision]
       /\ UNCHANGED <<file, unended, events, up, lastNow>>
  BY <1>4, <1>5, <1>6, <1>7, <1>8, <1>9, <1>10, <1>11, <1>12, <1>14, <1>15, <1>16, <1>17 DEF AuthorizeDecides
<1>19. ExactDecision(ds, a, g, now, amount, decision, reason, key, parent, exp, token)
  BY <1>13, <1>17, DecisionExact, ZenonT(40)
<1>20. PICK all : all = events \o batch
  OBVIOUS
<1>21. Grown(all, w) /\ v \in View /\ w \in View /\ t \in Nat
  BY <1>20, SeesTypes DEF Sees
<1>22. \A i \in DOMAIN all : all[i].a # a
  BY <1>6, <1>20, FreshInAll
<1>23. DecidesIn(all, w, ds, a, g, now, amount, decision, reason, key, parent, exp, token)
  BY <1>13, <1>19, <1>21, <1>22, DecisionView
<1>24. PICK e \in Event, x \in View :
         /\ Grown(all \o ds, x)
         /\ e.a = a /\ e.g = g /\ e.amount = amount /\ e.decision = decision /\ e.reason = reason
         /\ e.key = key /\ e.parent = parent
         /\ g # theGrant => x = w
         /\ g = theGrant =>
              /\ Later(w, x, now)
              /\ Entered(w, x, now, e, exp, token, IF decision = "ESCALATE" THEN w.pend \cup {a} ELSE w.pend)
  BY <1>23 DEF DecidesIn
<1>25. MineOf(Call(r), task[r]) <=> g = theGrant
  BY <1>2, <1>4 DEF MineOf
<1>26. MineOf(Call(r), task[r]) => Sole(r) /\ Leads(v, x, t)
  <2> SUFFICES ASSUME g = theGrant PROVE Sole(r) /\ Leads(v, x, t)
    BY <1>25
  <2>1. now = t
    BY <1>2, <1>5, <1>25 DEF Sees, Relies
  <2>2. /\ Later(w, x, t)
        /\ Entered(w, x, t, e, t + TTL, TRUE, IF decision = "ESCALATE" THEN w.pend \cup {e.a} ELSE w.pend)
    BY <1>14, <1>15, <1>24, <2>1
  <2>3. verdict = decide(agentView(events, theGrant, t), clock, c.amount, c.currency, c.category)
    BY <1>10, <2>1
  <2>4. decision = (IF verdict # "APPROVED" THEN "DENY"
                    ELSE IF needsApproval(grantOf(events, theGrant), c.amount) THEN "ESCALATE" ELSE "ALLOW")
    BY <1>11
  <2>5. /\ e.amount = c.amount /\ e.decision = decision /\ e.key = c.key /\ e.parent = None
        /\ e.reason = IF decision = "ESCALATE" THEN "APPROVAL_REQUIRED" ELSE verdict
    BY <1>8, <1>9, <1>12, <1>16, <1>24
  <2>6. task[r].g = theGrant
    BY <1>4
  <2> QED
    BY <1>2, <1>3, <1>7, <2>2, <2>3, <2>4, <2>5, <2>6, DecideLeads
<1>27. /\ pc'[r] = "writing" /\ task'[r].g = task[r].g
       /\ \A q \in Slots \ {r} : pc'[q] = pc[q] /\ task'[q] = task[q]
  BY <1>1, <1>18 DEF Goto, Task
<1>28. Grown((events \o batch) \o ds, x)
  BY <1>20, <1>24
<1>29. ds \in Seq(Event)
  BY <1>19, ExactSeq
<1>30. lastNow'[theGrant] = t
  BY <1>18 DEF Sees
<1>31. ~MineOf(Call(r), task[r]) => x = w
  BY <1>24, <1>25
<1>32. Enqueue(r, ds) /\ UNCHANGED <<file, unended, events, up>>
  BY <1>18
<1>33. Grows(r, v, w, t, x, t, ds)
  BY <1>21, <1>26, <1>27, <1>28, <1>29, <1>30, <1>31, <1>32 DEF Grows
<1> QED
  BY <1>33 DEF GrowsOn

-----------------------------------------------------------------------------
(* The resolution of POST /approvals. *)

\* Who resolves an escalation under the lock has the lock of its grant.
LEMMA ResolvesOwn ==
  ASSUME Inv, NEW r \in Slots, InLock(r), Resolves(r), Good(events)
  PROVE  /\ task[r].a \in AuthIds /\ Owner(events, task[r].a, task[r].g)
         /\ decisionOf(events, task[r].a).g = task[r].g
<1> DEFINE a == task[r].a
           places == {i \in DOMAIN events : events[i].kind = "approval_request" /\ events[i].a = a}
<1>1. a \in AuthIds
  BY DEF Inv, LockInv, Asks, Resolves
<1>2. Logged(events, "approval_request", a) /\ task[r].g = requestOf(events, a).g
  BY DEF Inv, PendingInv
<1>3. places # {}
  BY <1>2 DEF Logged
<1>4. PICK i \in places : lastAt(events, places) = events[i]
  BY <1>3, LastPlace DEF Good
<1>5. Owner(events, a, events[i].g)
  BY <1>4 DEF Good, Asked
<1>6. events[i].g = task[r].g
  BY <1>2, <1>4 DEF requestOf
<1>7. Owner(events, a, task[r].g)
  BY <1>5, <1>6
<1> QED
  BY <1>1, <1>7, OwnerIs DEF Good

\* What is still pending in memory is so in the log, for who holds the lock.
LEMMA ResolvePending ==
  ASSUME Inv, NEW r \in Slots, InLock(r), Resolves(r), Holds(r), pc[r] = "waiting", StillPending(r)
  PROVE  task[r].a \in pendingOf(events)
<1>1. task[r].a \in AuthIds
  BY DEF Inv, LockInv, Asks, Resolves
<1>2. ~Resolving("written", task[r].a)
  <2> SUFFICES ASSUME NEW q \in Slots, pc[q] = "written", Resolves(q), task[q].a = task[r].a PROVE FALSE
    BY DEF Resolving
  <2>1. InLock(q) /\ Busy(q)
    BY DEF InLock, Resolves, Busy
  <2>2. Holds(q) /\ task[q].g = task[r].g
    BY <2>1 DEF Inv, LockInv, PendingInv
  <2>3. q = r
    BY <2>2 DEF Holds
  <2> QED
    BY <2>3
<1> QED
  BY <1>1, <1>2 DEF Inv, PendingInv, StillPending

\* The resolution e of the escalation a, of a grant as its agent is viewed.
ResolvedOf(v, w, t, e, a) ==
  LET verdict == decide(agentOf(v, t), t, e.amount, v.policy.currency, "")
  IN  /\ e.key = None /\ e.parent = a /\ e.amount = v.life[a].amount /\ v.dec[a].g = theGrant
      /\ Entered(v, w, t, e, t + ApprovalTTL, FALSE, v.pend \ {a})
      /\ \/ e.decision = "DENY" /\ e.reason = "DENIED_BY_APPROVER"
         \/ /\ e.decision = IF verdict = "APPROVED" THEN "ALLOW" ELSE "DENY"
            /\ e.reason = IF verdict = "APPROVED" THEN "APPROVED_BY_HUMAN" ELSE verdict

\* A resolution that is entered is a resolution of the view.
LEMMA ResolvedIs ==
  ASSUME NEW v, NEW w, NEW t, NEW e \in Event, NEW a \in v.pend, ResolvedOf(v, w, t, e, a)
  PROVE  Resolved(v, w, t)
  BY DEF Resolved, ResolvedOf

\* A resolution of the request is a resolution of the view.
LEMMA ResolveLeads ==
  ASSUME Inv, NEW r \in Slots, InLock(r), Resolves(r), Holds(r), pc[r] = "waiting", StillPending(r),
         task[r].g = theGrant, NEW v, NEW w, NEW t, Sees(v, w, t), NEW now \in Nat, now = clock,
         NEW a \in AuthIds, a = task[r].a,
         NEW verdict, verdict = (IF Call(r).op = "deny" THEN "DENIED_BY_APPROVER"
                 ELSE decide(agentView(events, theGrant, now), now, decisionOf(events, a).amount,
                             grantOf(events, theGrant).currency, "")),
         NEW e \in Event, e.amount = decisionOf(events, a).amount,
         e.decision = (IF verdict = "APPROVED" THEN "ALLOW" ELSE "DENY"), e.key = None, e.parent = a,
         e.reason = IF verdict = "APPROVED" THEN "APPROVED_BY_HUMAN" ELSE verdict,
         NEW x \in View, Later(w, x, now), Entered(w, x, now, e, now + ApprovalTTL, FALSE, w.pend \ {a})
  PROVE  Sole(r) /\ Leads(v, x, now)
<1>1. v \in View /\ w \in View /\ t \in Nat /\ events \in Seq(Event) /\ v = view(events)
  BY SeesTypes
<1>2. Sole(r) /\ w = v
  BY SoleHolder, SoleSame
<1>3. Kept(v, now)
  <2>1. t <= now
    BY ClockWithin DEF Sees, Inv
  <2> QED
    BY <1>1, <2>1, KeptLater DEF Sees
<1>4. v.policy # None
  BY HolderKnown
<1>5. agentView(events, theGrant, now) = agentOf(v, now) /\ grantOf(events, theGrant) = v.policy
  BY <1>1, <1>3, <1>4, AgentIs DEF view
<1>6. Good(events)
  BY DEF Sees, Grown
<1>7. decisionOf(events, a).g = theGrant
  BY <1>6, ResolvesOwn
<1>8. a \in v.pend
  <2>1. a \in pendingOf(events)
    BY ResolvePending
  <2> QED
    BY <1>1, <1>7, <2>1 DEF view
<1>9. v.dec[a] = decisionOf(events, a)
  BY <1>1, <1>7 DEF view, decidedOf
<1>10. e.amount = v.life[a].amount /\ v.dec[a].g = theGrant
  BY <1>3, <1>7, <1>9 DEF Kept
<1>11. \/ e.decision = "DENY" /\ e.reason = "DENIED_BY_APPROVER"
       \/ verdict = decide(agentOf(v, now), now, e.amount, v.policy.currency, "")
  <2>1. CASE Call(r).op = "deny"
    BY <2>1
  <2>2. CASE Call(r).op # "deny"
    BY <1>5, <2>2
  <2> QED
    BY <2>1, <2>2
<1>12. ResolvedOf(v, x, now, e, a)
  BY <1>2, <1>10, <1>11 DEF ResolvedOf
<1>13. Resolved(v, x, now)
  BY <1>8, <1>12, ResolvedIs
<1> QED
  BY <1>2, <1>13 DEF Leads

\* The answer to an escalation takes it off the pending ones, and moves nothing.
LEMMA StepAnswer ==
  ASSUME NEW v \in View, NEW e \in Event, e.kind = "approval_decision", e.g = theGrant,
         NEW w \in View, w = viewStep(v, e)
  PROVE  w = [v EXCEPT !.pend = v.pend \ {e.a}]
<1>1. Settles(v, w) /\ Bare(v, w) /\ Named(v, w)
  BY StepStill, StepBare, StepNamed DEF LifeKinds
<1>2. w.pend = v.pend \ {e.a}
  BY DEF viewStep
<1>3. PICK y : y = [v EXCEPT !.pend = v.pend \ {e.a}]
  OBVIOUS
<1>4. /\ y \in View /\ y.policy = v.policy /\ y.budget = v.budget /\ y.dec = v.dec /\ y.life = v.life
      /\ y.pend = v.pend \ {e.a} /\ y.balance = v.balance /\ y.late = v.late /\ y.today = v.today
  BY <1>3 DEF View
<1>5. w = y
  BY <1>1, <1>2, <1>4, ViewIs DEF Settles, Bare, Named
<1> QED
  BY <1>3, <1>5

\* The log and the view after the answer to a, whatever its grant.
AnswersIn(es, w, e, a, g, y) ==
  /\ Grown(Append(es, e), y) /\ Append(es, e) = es \o <<e>> /\ y \in View
  /\ g # theGrant => y = w
  /\ g = theGrant => y = [w EXCEPT !.pend = w.pend \ {a}]

\* The record that answers an escalation, behind a log.
LEMMA AnswerView ==
  ASSUME NEW es, NEW w \in View, Grown(es, w), NEW a \in AuthIds, NEW g, Owner(es, a, g),
         NEW e \in Event, e.kind = "approval_decision", e.a = a, e.g = g
  PROVE  \E y : AnswersIn(es, w, e, a, g, y)
<1>1. Proper(es, e)
  BY DEF Proper, LifeKinds
<1>2. PICK y : y = viewStep(w, e)
  OBVIOUS
<1>3. Grown(Append(es, e), y) /\ Append(es, e) = es \o <<e>> /\ y \in View /\ (g # theGrant => y = w)
  BY <1>1, <1>2, GrownNext
<1>4. g = theGrant => y = [w EXCEPT !.pend = w.pend \ {a}]
  BY <1>2, <1>3, StepAnswer
<1> QED
  BY <1>3, <1>4 DEF AnswersIn

\* The records of a resolution, whatever its grant.
Answers(es, w, records, now, g, a, amount, decision, reason, e, x) ==
  /\ Grown(es \o records, x) /\ x \in View /\ e \in Event /\ records \in Seq(Event)
  /\ e.amount = amount /\ e.decision = decision /\ e.reason = reason /\ e.key = None /\ e.parent = a
  /\ g # theGrant => x = w
  /\ g = theGrant => Later(w, x, now) /\ Entered(w, x, now, e, now + ApprovalTTL, FALSE, w.pend \ {a})

ResolutionRecords(ds, b, g, now, amount, decision, reason, a) ==
  /\ decision \in {"ALLOW", "DENY"}
  /\ ds = decisionRecords(b, g, now, amount, decision, reason, None, a, now + ApprovalTTL, FALSE)

\* The records of the decision that a resolution makes.
LEMMA ResolutionExact ==
  ASSUME NEW b \in AuthIds, NEW g \in Grants, NEW now \in Nat, NEW amount \in Nat, NEW decision,
         NEW reason \in Why, NEW a \in AuthIds, NEW ds,
         ResolutionRecords(ds, b, g, now, amount, decision, reason, a),
         NEW exp \in Nat, exp = now + ApprovalTTL, NEW token \in BOOLEAN, token = FALSE
  PROVE  ExactDecision(ds, b, g, now, amount, decision, reason, None, a, exp, token)
<1>1. decision \in {"ALLOW", "DENY", "ESCALATE"}
  BY DEF ResolutionRecords
<1>2. PICK key \in Keys \cup {None} : key = None
  OBVIOUS
<1>3. PICK parent \in AuthIds \cup {None} : parent = a
  OBVIOUS
<1>4. ds = decisionRecords(b, g, now, amount, decision, reason, key, parent, exp, token)
  BY <1>2, <1>3 DEF ResolutionRecords
<1>5. ExactDecision(ds, b, g, now, amount, decision, reason, key, parent, exp, token)
  BY <1>1, <1>4, DecisionExact, ZenonT(40)
<1> QED
  BY <1>2, <1>3, <1>5

\* The records of a resolution, behind a log, enter it in the view.
LEMMA ResolutionView ==
  ASSUME NEW es, NEW w \in View, Grown(es, w), NEW a \in AuthIds, NEW g \in Grants, Owner(es, a, g),
         NEW now \in Nat, NEW decided \in Event, decided.kind = "approval_decision", decided.a = a,
         decided.g = g, NEW b \in AuthIds, \A i \in DOMAIN es : es[i].a # b,
         NEW amount \in Nat, NEW decision, NEW reason \in Why,
         NEW ds, ResolutionRecords(ds, b, g, now, amount, decision, reason, a),
         NEW records, records = <<decided>> \o ds
  PROVE  \E e, x : Answers(es, w, records, now, g, a, amount, decision, reason, e, x)
<1>1. PICK y : AnswersIn(es, w, decided, a, g, y)
  BY AnswerView
<1>2. PICK fs : fs = Append(es, decided)
  OBVIOUS
<1>3. es \in Seq(Event) /\ fs \in Seq(Event) /\ fs = es \o <<decided>> /\ <<decided>> \in Seq(Event)
  BY <1>2, AppendPlaces DEF Grown, Good
<1>4. \A i \in DOMAIN fs : fs[i].a # b
  <2>1. \E i \in DOMAIN es : es[i].a = a
    BY DEF Owner
  <2>2. a # b
    BY <2>1
  <2> QED
    BY <1>2, <1>3, <2>2, AppendPlaces
<1>5. PICK exp \in Nat : exp = now + ApprovalTTL
  BY ServerAssumption
<1>6. PICK token \in BOOLEAN : token = FALSE
  OBVIOUS
<1>10. ExactDecision(ds, b, g, now, amount, decision, reason, None, a, exp, token)
  BY <1>5, <1>6, ResolutionExact
<1>11. DecidesIn(fs, y, ds, b, g, now, amount, decision, reason, None, a, exp, token)
  <2>1. decision \in {"ALLOW", "DENY", "ESCALATE"} /\ Grown(fs, y)
    BY <1>1, <1>2 DEF AnswersIn, ResolutionRecords
  <2> QED
    BY <1>4, <1>10, <2>1, DecisionView
<1>12. PICK e \in Event, x \in View :
         /\ Grown(fs \o ds, x)
         /\ e.a = b /\ e.g = g /\ e.amount = amount /\ e.decision = decision /\ e.reason = reason
         /\ e.key = None /\ e.parent = a
         /\ g # theGrant => x = y
         /\ g = theGrant =>
              /\ Later(y, x, now)
              /\ Entered(y, x, now, e, exp, token, IF decision = "ESCALATE" THEN y.pend \cup {b} ELSE y.pend)
  BY <1>11 DEF DecidesIn
<1>13. ds \in Seq(Event)
  BY <1>10, ExactSeq
<1>15. Grown(es \o records, x) /\ records \in Seq(Event)
  <2>1. PICK one : one = <<decided>>
    OBVIOUS
  <2>2. one \in Seq(Event) /\ fs = es \o one /\ records = one \o ds
    BY <1>3, <2>1
  <2>3. es \o (one \o ds) = (es \o one) \o ds
    BY <1>3, <1>13, <2>2, Regroup
  <2>4. one \o ds \in Seq(Event)
    BY <1>13, <2>2, ConcatPlaces
  <2> QED
    BY <1>12, <2>2, <2>3, <2>4
<1>16. g # theGrant => x = w
  BY <1>1, <1>12 DEF AnswersIn
<1>17. g = theGrant => Later(w, x, now) /\ Entered(w, x, now, e, exp, token, w.pend \ {a})
  <2> SUFFICES ASSUME g = theGrant PROVE Later(w, x, now) /\ Entered(w, x, now, e, exp, token, w.pend \ {a})
    OBVIOUS
  <2>1. PICK P : P = w.pend \ {a}
    OBVIOUS
  <2>2. y = [w EXCEPT !.pend = P] /\ y \in View
    BY <1>1, <2>1 DEF AnswersIn
  <2>3. y.pend = P
    BY <2>2 DEF View
  <2>4. Entered(y, x, now, e, exp, token, P) /\ Later(y, x, now)
    <3>1. decision # "ESCALATE"
      BY DEF ResolutionRecords
    <3> QED
      BY <1>12, <2>3, <3>1
  <2>5. Entered(w, x, now, e, exp, token, P) /\ Later(w, x, now)
    BY <2>2, <2>4, EnteredFrom
  <2> QED
    BY <2>1, <2>5
<1>18. Answers(es, w, records, now, g, a, amount, decision, reason, e, x)
  BY <1>5, <1>6, <1>12, <1>15, <1>16, <1>17 DEF Answers
<1> QED
  BY <1>18

\* POST /approvals moves the view by a resolution.
LEMMA ResolveGrows ==
  ASSUME Inv, BooksInv, NEW r \in Slots, ResolveEnters(r), ~UNCHANGED queue, NEW v, NEW w, NEW t, Sees(v, w, t)
  PROVE  GrowsOn(r, v, w, t)
<1>1. /\ clock \in Nat /\ pc \in [Slots -> PCs] /\ task \in [Slots -> Task] /\ lastNow[theGrant] \in Nat
      /\ events \in Seq(Event) /\ batch \in Seq(Event) /\ lastNow[theGrant] <= clock
  BY Types, ClockWithin DEF Inv
<1>2. Call(r).op \in {"approve", "deny"} /\ InLock(r) /\ Resolves(r) /\ Holds(r) /\ pc[r] = "waiting"
  BY DEF ResolveEnters, InLock, Resolves
<1>3. up /\ task[r].g \in Grants
  BY <1>2 DEF Inv, DownInv, InFlight, LockInv
<1>4. PICK g \in Grants : g = task[r].g
  BY <1>3
<1>5. PICK now \in Nat : now = clock
  BY <1>1
<1>6. Good(events)
  BY DEF Sees, Grown
<1>7. PICK a \in AuthIds : a = task[r].a
  BY <1>2, <1>6, ResolvesOwn
<1>8. Owner(events, a, g)
  BY <1>2, <1>4, <1>6, <1>7, ResolvesOwn
<1>9. /\ StillPending(r) /\ decisionOf(events, a) # NoEvent /\ Fresh # {}
      /\ Goto(r, "writing") /\ lastNow' = [lastNow EXCEPT ![g] = clock]
      /\ UNCHANGED <<file, unended, events, up, task>>
  BY <1>4, <1>7 DEF ResolveEnters
<1>10. PICK b \in AuthIds : b = newId /\ b \in Fresh
  BY <1>9 DEF newId, Fresh
<1>11. PICK decided : decided = [NoEvent EXCEPT !.kind = "approval_decision", !.a = a, !.g = g, !.ts = now]
  OBVIOUS
<1>12. decided \in Event /\ decided.kind = "approval_decision" /\ decided.a = a /\ decided.g = g
  BY <1>11 DEF Event, NoEvent, Kinds, Decisions, Outcomes, Why
<1>13. PICK amount \in Nat : amount = decisionOf(events, a).amount
  <2>1. decisionOf(events, a) \in Event
    BY <1>1, <1>9, DecisionType
  <2> QED
    BY <2>1 DEF Event
<1>14. PICK verdict : verdict = (IF Call(r).op = "deny" THEN "DENIED_BY_APPROVER"
                 ELSE decide(agentView(events, g, now), now, amount, grantOf(events, g).currency, ""))
  OBVIOUS
<1>15. PICK decision : decision = (IF verdict = "APPROVED" THEN "ALLOW" ELSE "DENY")
  OBVIOUS
<1>16. PICK reason : reason = IF verdict = "APPROVED" THEN "APPROVED_BY_HUMAN" ELSE verdict
  OBVIOUS
<1>17. decision \in {"ALLOW", "DENY"} /\ reason \in Why
  <2>1. verdict \in Reasons \cup {"DENIED_BY_APPROVER"}
    BY <1>14, DecideType
  <2> QED
    BY <1>15, <1>16, <2>1 DEF Why
<1>18. PICK ds : ds = decisionRecords(b, g, now, amount, decision, reason, None, a, now + ApprovalTTL, FALSE)
  OBVIOUS
<1>19. PICK records : records = <<decided>> \o ds
  OBVIOUS
<1>20. Enqueue(r, records)
  BY <1>4, <1>5, <1>7, <1>9, <1>10, <1>11, <1>13, <1>14, <1>15, <1>16, <1>18, <1>19 DEF ResolveEnters
<1>21. PICK all : all = events \o batch
  OBVIOUS
<1>22. Grown(all, w) /\ v \in View /\ w \in View /\ t \in Nat
  BY <1>21, SeesTypes DEF Sees
<1>23. Owner(all, a, g)
  BY <1>1, <1>8, <1>21, OwnerConcat
<1>24. \A i \in DOMAIN all : all[i].a # b
  BY <1>10, <1>21, FreshInAll
<1>25. ResolutionRecords(ds, b, g, now, amount, decision, reason, a)
  BY <1>17, <1>18 DEF ResolutionRecords
<1>26. PICK e, x : Answers(all, w, records, now, g, a, amount, decision, reason, e, x)
  BY <1>12, <1>17, <1>19, <1>22, <1>23, <1>24, <1>25, ResolutionView
<1>27. PICK u : u = IF g = theGrant THEN now ELSE t
  OBVIOUS
<1>28. lastNow'[theGrant] = u /\ u \in Nat /\ t <= u
  <2>1. lastNow'[theGrant] = IF g = theGrant THEN clock ELSE lastNow[theGrant]
    BY <1>9, LastNowGrows
  <2>2. t = lastNow[theGrant]
    BY DEF Sees
  <2> QED
    BY <1>1, <1>5, <1>27, <2>1, <2>2
<1>29. MineOf(Call(r), task[r]) <=> g = theGrant
  BY <1>2, <1>4 DEF MineOf
<1>30. MineOf(Call(r), task[r]) => Sole(r) /\ Leads(v, x, u)
  <2> SUFFICES ASSUME g = theGrant PROVE Sole(r) /\ Leads(v, x, now)
    BY <1>27, <1>29
  <2>1. e \in Event /\ x \in View
    BY <1>26 DEF Answers
  <2>2. /\ e.amount = decisionOf(events, a).amount /\ e.decision = (IF verdict = "APPROVED" THEN "ALLOW" ELSE "DENY")
        /\ e.reason = IF verdict = "APPROVED" THEN "APPROVED_BY_HUMAN" ELSE verdict
    BY <1>13, <1>15, <1>16, <1>26 DEF Answers
  <2>3. e.key = None /\ e.parent = a
    BY <1>26 DEF Answers
  <2>4. Later(w, x, now) /\ Entered(w, x, now, e, now + ApprovalTTL, FALSE, w.pend \ {a})
    BY <1>26 DEF Answers
  <2>5. verdict = (IF Call(r).op = "deny" THEN "DENIED_BY_APPROVER"
                 ELSE decide(agentView(events, theGrant, now), now, decisionOf(events, a).amount,
                             grantOf(events, theGrant).currency, ""))
    BY <1>13, <1>14
  <2>6. task[r].g = theGrant
    BY <1>4
  <2> QED
    BY <1>2, <1>5, <1>7, <1>9, <2>1, <2>2, <2>3, <2>4, <2>5, <2>6, ResolveLeads
<1>31. /\ pc'[r] = "writing" /\ task'[r].g = task[r].g
       /\ \A q \in Slots \ {r} : pc'[q] = pc[q] /\ task'[q] = task[q]
  BY <1>1, <1>9 DEF Goto
<1>32. Grown((events \o batch) \o records, x) /\ records \in Seq(Event) /\ x \in View
  BY <1>21, <1>26 DEF Answers
<1>33. ~MineOf(Call(r), task[r]) => x = w /\ u = t
  BY <1>26, <1>27, <1>29 DEF Answers
<1>34. UNCHANGED <<file, unended, events, up>>
  BY <1>9
<1>35. Grows(r, v, w, t, x, u, records)
  BY <1>20, <1>28, <1>30, <1>31, <1>32, <1>33, <1>34 DEF Grows
<1> QED
  BY <1>35 DEF GrowsOn

-----------------------------------------------------------------------------
(* The report of POST /settlements. *)

\* What the route has read before the lock is so under it, unless the report is over.
LEMMA ReportLeads ==
  ASSUME Inv, NEW r \in Slots, InLock(r), Holds(r), pc[r] = "waiting", Call(r).op = "report",
         task[r].g = theGrant, NEW v, NEW w, NEW t, Sees(v, w, t), NEW now \in Nat,
         NEW a \in AuthIds, a = task[r].a, Owner(events, a, theGrant),
         NEW s, s = railState(events, a), ~terminal(s),
         NEW outcome \in {"submitted", "failed", "settled"}, outcome = Call(r).outcome,
         NEW by \in Reporters, by = Call(r).by,
         NEW x \in View, NEW m, m = takes(s, outcome) - gives(s, outcome),
         Becomes(w, x, now, a, reported(s, outcome, by, now), m, takes(s, outcome))
  PROVE  Sole(r) /\ Leads(v, x, now)
<1>1. v \in View /\ w \in View /\ t \in Nat
  BY SeesTypes
<1>2. Sole(r) /\ w = v
  BY SoleHolder, SoleSame
<1>3. Allowed(v, Call(r), a)
  BY DEF Sees, MineOf, Relies
<1>4. s = v.life[a]
  <2>1. Decided(events, v, a, theGrant)
    BY TheGrant DEF Sees, Decided
  <2> QED
    BY <2>1, DecidedLife
<1>5. v.dec[a].g = theGrant /\ s.decision = "ALLOW" /\ authenticates(s, by) /\ by \in MAY_REPORT(outcome)
  BY <1>3, <1>4 DEF Allowed
<1>6. Reported(v, x, now) /\ Later(v, x, now)
  BY <1>1, <1>2, <1>4, <1>5, BecomesReported
<1> QED
  BY <1>2, <1>6 DEF Leads

\* POST /settlements moves the view by a report.
LEMMA ReportGrows ==
  ASSUME Inv, BooksInv, NEW r \in Slots, ReportEnters(r), ~UNCHANGED queue, NEW v, NEW w, NEW t, Sees(v, w, t)
  PROVE  GrowsOn(r, v, w, t)
<1>1. /\ client \in Clients /\ clock \in Nat /\ pc \in [Slots -> PCs] /\ task \in [Slots -> Task]
      /\ events \in Seq(Event) /\ lastNow[theGrant] \in Nat /\ lastNow[theGrant] <= clock
      /\ batch \in Seq(Event)
  BY Types, ClockWithin DEF Inv
<1>2. Call(r).op = "report" /\ InLock(r) /\ Holds(r) /\ pc[r] = "waiting"
  BY DEF ReportEnters, InLock
<1>3. /\ up /\ task[r].g \in Grants /\ task[r].a \in AuthIds
      /\ Call(r).outcome \in Outcomes \ {"none"} /\ Call(r).by \in Reporters
  BY <1>1, <1>2, CallShape DEF Inv, DownInv, InFlight, LockInv, Asks
<1>4. PICK g \in Grants : g = task[r].g
  BY <1>3
<1>5. PICK now \in Nat : now = clock
  BY <1>1
<1>6. PICK a \in AuthIds : a = task[r].a
  BY <1>3
<1>7. PICK outcome \in {"submitted", "failed", "settled"} : outcome = Call(r).outcome
  BY <1>3 DEF Outcomes
<1>8. PICK by \in Reporters : by = Call(r).by
  BY <1>3
<1>9. PICK s \in Lifecycle : s = railState(events, a)
  BY <1>1, LifeType
<1>10. PICK rs : rs = reportEvents(s, a, g, outcome, by, now)
  OBVIOUS
<1>11. PICK receipt : receipt = [NoEvent EXCEPT !.kind = "receipt", !.g = g, !.ts = now]
  OBVIOUS
<1>12. receipt \in Event /\ receipt.kind = "receipt"
  BY <1>11 DEF Event, NoEvent, Kinds, Decisions, Outcomes, Why
<1>13. PICK records : records = Append(rs, receipt)
  OBVIOUS
<1>14. /\ ~terminal(s) /\ Enqueue(r, records) /\ Goto(r, "writing")
       /\ lastNow' = [lastNow EXCEPT ![g] = clock]
       /\ UNCHANGED <<file, unended, events, up, task>>
  BY <1>4, <1>5, <1>6, <1>7, <1>8, <1>9, <1>10, <1>11, <1>13 DEF ReportEnters
<1>15. PICK all : all = events \o batch
  OBVIOUS
<1>16. Owner(events, a, g)
  BY <1>2, <1>4, <1>6 DEF BooksInv, ReportsOwn
<1>17. Books(all) /\ Owner(all, a, g) /\ s = railState(all, a)
  <2>1. Owner(events, a, task[r].g)
    BY <1>4, <1>16
  <2> QED
    BY <1>2, <1>3, <1>4, <1>9, <1>15, <2>1, BatchSkips
<1>18. Grown(all, w) /\ v \in View /\ w \in View /\ t \in Nat
  BY <1>15, SeesTypes DEF Sees
<1>19. outcome \in Outcomes \ {"none"}
  BY DEF Outcomes
<1>20. ExactReport(rs, s, a, g, outcome, by, now)
  BY <1>10, <1>19, ReportExact
<1>21. rs \in Seq(Event)
  <2>1. IsReport(rs, s, a, g)
    BY <1>10, <1>19 DEF IsReport
  <2> QED
    BY <1>17, <2>1, ReportSteady
<1>22. records \in Seq(Event)
  BY <1>12, <1>13, <1>21
<1>23. Decided(all, w, a, g)
  BY <1>17, <1>18 DEF Decided
<1>24. ReportsIn(all, w, Append(rs, receipt), a, g, s, outcome, by, now)
  BY <1>12, <1>17, <1>20, <1>23, ReportView
<1>25. PICK x : /\ Grown(all \o records, x) /\ (g # theGrant => x = w)
                /\ g = theGrant => Becomes(w, x, now, a, reported(s, outcome, by, now),
                                           takes(s, outcome) - gives(s, outcome), takes(s, outcome))
  BY <1>13, <1>24 DEF ReportsIn
<1>26. x \in View
  BY <1>25, ViewType DEF Grown, Good
<1>27. PICK u : u = IF g = theGrant THEN now ELSE t
  OBVIOUS
<1>28. lastNow'[theGrant] = u /\ u \in Nat /\ t <= u
  <2>1. lastNow'[theGrant] = IF g = theGrant THEN clock ELSE lastNow[theGrant]
    BY <1>14, LastNowGrows
  <2>2. t = lastNow[theGrant]
    BY DEF Sees
  <2> QED
    BY <1>1, <1>5, <1>27, <2>1, <2>2
<1>29. MineOf(Call(r), task[r]) <=> g = theGrant
  BY <1>2, <1>4 DEF MineOf
<1>30. MineOf(Call(r), task[r]) => Sole(r) /\ Leads(v, x, u)
  <2> SUFFICES ASSUME g = theGrant PROVE Sole(r) /\ Leads(v, x, now)
    BY <1>27, <1>29
  <2>1. PICK m : m = takes(s, outcome) - gives(s, outcome)
    OBVIOUS
  <2>2. Becomes(w, x, now, a, reported(s, outcome, by, now), m, takes(s, outcome))
    BY <1>25, <2>1
  <2>3. task[r].g = theGrant /\ Owner(events, a, theGrant) /\ ~terminal(s)
    BY <1>4, <1>14, <1>16
  <2> QED
    BY <1>2, <1>6, <1>7, <1>8, <1>9, <1>26, <2>1, <2>2, <2>3, ReportLeads
<1>31. /\ pc'[r] = "writing" /\ task'[r].g = task[r].g
       /\ \A q \in Slots \ {r} : pc'[q] = pc[q] /\ task'[q] = task[q]
  BY <1>1, <1>14 DEF Goto
<1>32. Grown((events \o batch) \o records, x)
  BY <1>15, <1>25
<1>33. ~MineOf(Call(r), task[r]) => x = w /\ u = t
  BY <1>25, <1>27, <1>29
<1>34. Enqueue(r, records) /\ UNCHANGED <<file, unended, events, up>>
  BY <1>14
<1>35. Grows(r, v, w, t, x, u, records)
  BY <1>22, <1>26, <1>28, <1>30, <1>31, <1>32, <1>33, <1>34 DEF Grows
<1> QED
  BY <1>35 DEF GrowsOn

-----------------------------------------------------------------------------
(***************************************************************************)
(* The steps of the server, with the process up or down: the log keeps its *)
(* view while the grant's clock may move, or a step of Authority at that   *)
(* clock is made of it.                                                    *)
(***************************************************************************)

\* The log's view is v, at the grant's clock t.
Viewed(v, t) == (up => \E w : Sees(v, w, t)) /\ (~up => Reads(v, t))

Onward(v, t) == \E x, u : Viewed(x, u)' /\ ((x = v /\ t <= u) \/ (u = t /\ Leads(v, x, t)))

\* What a request queues does not show before the drain.
LEMMA OnwardQueue ==
  ASSUME Inv, client' = client, up, NEW r \in Slots, NEW v, NEW w, NEW t, Sees(v, w, t), GrowsOn(r, v, w, t)
  PROVE  Onward(v, t)
<1>1. PICK x, u, records : Grows(r, v, w, t, x, u, records)
  BY DEF GrowsOn
<1>2. Sees(v, x, u)'
  BY <1>1, ViewQueue
<1>3. up' /\ t <= u
  BY <1>1 DEF Grows
<1>4. Viewed(v, u)'
  BY <1>2, <1>3 DEF Viewed
<1> QED
  BY <1>3, <1>4 DEF Onward

\* A step that leaves the log's view and the clock.
LEMMA OnwardSame ==
  ASSUME up', NEW v, NEW w, NEW t \in Nat, Sees(v, w, t)'
  PROVE  Onward(v, t)
<1>1. Viewed(v, t)'
  BY DEF Viewed
<1> QED
  BY <1>1 DEF Onward

\* A request that queues nothing.
LEMMA OnwardMoves ==
  ASSUME Inv, client' = client, up, NEW r \in Slots, Idles(r), UNCHANGED <<lastNow, up>>, pc'[r] # "deciding",
         NEW v, NEW w, NEW t, Sees(v, w, t),
         pc'[r] = "waiting" /\ Call(r).op = "report" /\ MineOf(Call(r), task'[r]) => Allowed(v, Call(r), task'[r].a)
  PROVE  Onward(v, t)
<1>1. Moves(r)
  BY MoveSteps DEF Idles
<1>2. Sees(v, w, t)'
  BY <1>1, ViewRests
<1> QED
  BY <1>2, OnwardSame, SeesTypes

\* What the route has read of the report that it lets wait for the lock.
LEMMA ReportAllowed ==
  ASSUME Inv, NEW r \in Slots, NEW a \in AuthIds, ReportArrives(r, a), pc'[r] = "waiting",
         MineOf(Call(r), task'[r]), NEW v, NEW w, NEW t, Sees(v, w, t)
  PROVE  Allowed(v, Call(r), task'[r].a)
<1>1. events \in Seq(Event) /\ task \in [Slots -> Task] /\ pc \in [Slots -> PCs] /\ Call(r).op = "report"
  BY Types DEF Inv, ReportArrives
<1>2. Lock(r, decisionOf(events, a).g, a)
  <2>1. pc'[r] # "refused"
    OBVIOUS
  <2> QED
    BY <1>1, <2>1 DEF ReportArrives, Goto
<1>3. task'[r].g = decisionOf(events, a).g /\ task'[r].a = a
  BY <1>1, <1>2 DEF Lock, NoTask
<1>4. decisionOf(events, a).g = theGrant
  BY <1>1, <1>3 DEF MineOf
<1>5. /\ railState(events, a).decision = "ALLOW" /\ authenticates(railState(events, a), Call(r).by)
      /\ Call(r).by \in MAY_REPORT(Call(r).outcome)
  <2>1. pc'[r] # "refused"
    OBVIOUS
  <2> QED
    BY <1>1, <2>1 DEF ReportArrives, Goto
<1>6. v = view(events)
  BY DEF Sees, Grown
<1>7. v.life[a] = railState(events, a) /\ v.dec[a] = decisionOf(events, a)
  BY <1>4, <1>6 DEF view, decidedOf, lifeOf
<1> QED
  BY <1>3, <1>4, <1>5, <1>7 DEF Allowed

\* An arrival queues nothing, but for a mint.
LEMMA OnwardArrives ==
  ASSUME Inv, client' = client, up, NEW r \in Slots, Arrive(r), NEW v, NEW w, NEW t, Sees(v, w, t)
  PROVE  Onward(v, t)
<1>1. pc \in [Slots -> PCs] /\ task \in [Slots -> Task]
  BY Types DEF Inv
<1>2. CASE CreateGrant(r)
  BY <1>2, MintGrows, OnwardQueue
<1>3. CASE AuthorizeArrives(r)
  <2>1. Idles(r) /\ UNCHANGED <<lastNow, up>> /\ Call(r).op = "authorize"
    BY <1>3, IdlesAsk DEF AuthorizeArrives, storeVars
  <2>2. pc'[r] # "deciding"
    BY <1>1, <1>3 DEF AuthorizeArrives, Goto, Lock
  <2> QED
    BY <2>1, <2>2, OnwardMoves
<1>4. ASSUME NEW a \in AuthIds, ResolveArrives(r, a) PROVE Onward(v, t)
  <2>1. Idles(r) /\ UNCHANGED <<lastNow, up>> /\ Call(r).op # "report"
    BY <1>4, IdlesAsk DEF ResolveArrives, storeVars
  <2>2. pc'[r] # "deciding"
    BY <1>1, <1>4 DEF ResolveArrives, Goto, Lock
  <2> QED
    BY <2>1, <2>2, OnwardMoves
<1>5. ASSUME NEW a \in AuthIds, ReportArrives(r, a) PROVE Onward(v, t)
  <2>1. Idles(r) /\ UNCHANGED <<lastNow, up>>
    BY <1>5, IdlesReport DEF ReportArrives, storeVars
  <2>2. pc'[r] # "deciding"
    BY <1>1, <1>5 DEF ReportArrives, Goto, Lock
  <2>3. pc'[r] = "waiting" /\ Call(r).op = "report" /\ MineOf(Call(r), task'[r]) => Allowed(v, Call(r), task'[r].a)
    BY <1>5, ReportAllowed
  <2> QED
    BY <2>1, <2>2, <2>3, OnwardMoves
<1> QED
  BY <1>2, <1>3, <1>4, <1>5 DEF Arrive

\* A critical section that is left before it has queued anything.
LEMMA OnwardLeaves ==
  ASSUME Inv, client' = client, up, NEW r \in Slots, UNCHANGED queue, ResolveEnters(r) \/ ReportEnters(r),
         NEW v, NEW w, NEW t, Sees(v, w, t)
  PROVE  Onward(v, t)
<1>1. pc \in [Slots -> PCs]
  BY Types DEF Inv
<1>2. Idles(r)
  BY IdlesInside
<1>3. Moves(r)
  BY <1>2, MoveSteps DEF Idles
<1>4. pc'[r] # "writing"
  BY <1>3 DEF Moves
<1>5. UNCHANGED <<lastNow, up>> /\ pc'[r] \notin {"deciding", "waiting"}
  <2>1. CASE ResolveEnters(r)
    BY <1>1, <1>4, <2>1 DEF ResolveEnters, Goto, Release
  <2>2. CASE ReportEnters(r)
    BY <1>1, <1>4, <2>2 DEF ReportEnters, Goto, Release
  <2> QED
    BY <2>1, <2>2
<1> QED
  BY <1>2, <1>5, OnwardMoves

\* A request that goes on queues one step at most.
LEMMA OnwardContinues ==
  ASSUME Inv, BooksInv, MirrorsInv, client' = client, up, NEW r \in Slots, Continue(r),
         NEW v, NEW w, NEW t, Sees(v, w, t)
  PROVE  Onward(v, t)
<1>1. pc \in [Slots -> PCs] /\ t \in Nat
  BY Types, SeesTypes DEF Inv
<1>2. CASE AuthorizeEnters(r)
  <2>1. CASE ~UNCHANGED queue
    BY <1>2, <2>1, SweepGrows, OnwardQueue
  <2>2. CASE UNCHANGED queue
    <3>1. PICK u : Sees(v, w, u)'
      BY <1>2, <2>2, ViewEnters
    <3>2. up' /\ t <= u
      <4>1. u = lastNow'[theGrant] /\ t = lastNow[theGrant]
        BY <3>1 DEF Sees
      <4>2. task[r].g \in Grants
        BY <1>2 DEF AuthorizeEnters, InLock, Inv, LockInv
      <4>3. PICK g \in Grants : g = task[r].g
        BY <4>2
      <4>4. up' /\ (UNCHANGED lastNow \/ lastNow' = [lastNow EXCEPT ![g] = clock])
        BY <1>2, <4>3 DEF AuthorizeEnters
      <4>5. lastNow[theGrant] <= clock /\ lastNow[theGrant] \in Nat
        BY ClockWithin DEF Inv
      <4>6. CASE UNCHANGED lastNow
        BY <4>1, <4>4, <4>5, <4>6
      <4>7. CASE lastNow' = [lastNow EXCEPT ![g] = clock]
        BY <4>1, <4>4, <4>5, <4>7, LastNowGrows
      <4> QED
        BY <4>4, <4>6, <4>7
    <3>3. Viewed(v, u)'
      BY <3>1, <3>2 DEF Viewed
    <3> QED
      BY <3>2, <3>3 DEF Onward
  <2> QED
    BY <2>1, <2>2
<1>3. CASE AuthorizeDecides(r)
  BY <1>3, DecideGrows, OnwardQueue
<1>4. CASE ResolveEnters(r)
  BY <1>4, ResolveGrows, OnwardQueue, OnwardLeaves
<1>5. CASE ReportEnters(r)
  BY <1>5, ReportGrows, OnwardQueue, OnwardLeaves
<1>6. CASE SignerFails(r) \/ Rejected(r) \/ Finish(r)
  <2>1. Idles(r)
    BY <1>6, ShapeSignerFails, ShapeRejected, ShapeFinish DEF Idles
  <2>2. UNCHANGED <<lastNow, up>>
    BY <1>6 DEF SignerFails, Rejected, Finish, storeVars
  <2>3. pc'[r] \in {"failed", "answered"}
    <3>1. CASE SignerFails(r) \/ Rejected(r)
      BY <1>1, <3>1 DEF SignerFails, Rejected, Goto, Release
    <3>2. CASE Finish(r)
      <4>1. Call(r).op \in {"mint", "authorize", "approve", "deny", "report"}
        BY CallShape, Types DEF Inv
      <4>2. Goto(r, "answered")
        BY <3>2, <4>1 DEF Finish, Release
      <4> QED
        BY <1>1, <4>2 DEF Goto
    <3> QED
      BY <1>6, <3>1, <3>2
  <2> QED
    BY <2>1, <2>2, <2>3, OnwardMoves
<1> QED
  BY <1>2, <1>3, <1>4, <1>5, <1>6 DEF Continue

\* A drain shows what the batch holds.
LEMMA OnwardDrain ==
  ASSUME Inv, client' = client, Drain, NEW v, NEW w, NEW t, Sees(v, w, t)
  PROVE  Onward(v, t)
<1>1. Sees(w, w, t)'
  BY ViewDrain
<1>2. up'
  BY DEF Drain, Commit, Quiet
<1>3. Viewed(w, t)'
  BY <1>1, <1>2 DEF Viewed
<1>4. Leads(v, w, t)
  BY DEF Sees
<1> QED
  BY <1>3, <1>4 DEF Onward

\* A failed drain shows nothing.
LEMMA OnwardFail ==
  ASSUME Inv, client' = client, NEW n, NEW cut, DrainFails(n, cut), NEW v, NEW w, NEW t, Sees(v, w, t)
  PROVE  Onward(v, t)
<1>1. Sees(v, v, t)'
  BY ViewFail
<1>2. up'
  BY DEF DrainFails, CommitFails, Quiet
<1> QED
  BY <1>1, <1>2, OnwardSame, SeesTypes

\* A stop shows nothing, or what the batch holds.
LEMMA OnwardStop ==
  ASSUME Mild, "power" \notin Faults, Inv, BooksInv, NEW n, NEW cut, Stops(n, cut),
         NEW v, NEW w, NEW t, Sees(v, w, t)
  PROVE  Onward(v, t)
<1>1. Reads(v, t)' \/ Reads(w, t)'
  BY ViewStop
<1>2. ~up'
  BY DEF Stops, Halt
<1>3. Viewed(v, t)' \/ Viewed(w, t)'
  BY <1>1, <1>2 DEF Viewed
<1>4. Leads(v, w, t) /\ t \in Nat
  BY SeesTypes DEF Sees
<1> QED
  BY <1>3, <1>4 DEF Onward

\* Nothing of what is read moves.
LEMMA OnwardStill ==
  ASSUME Inv, client' = client, UNCHANGED <<file, events, queue, up, pc, task, lastNow>>,
         NEW v, NEW t, Viewed(v, t)
  PROVE  Onward(v, t)
<1>1. CASE up
  <2>1. PICK w : Sees(v, w, t)
    BY <1>1 DEF Viewed
  <2>2. Sees(v, w, t)' /\ up'
    BY <1>1, <2>1, ViewSame
  <2> QED
    BY <2>1, <2>2, OnwardSame, SeesTypes
<1>2. CASE ~up
  <2>1. Reads(v, t) /\ t \in Nat
    BY <1>2, ClockWithin DEF Viewed, Reads, Inv
  <2>2. Reads(v, t)'
    BY <2>1 DEF Reads
  <2>3. Viewed(v, t)'
    BY <1>2, <2>2 DEF Viewed
  <2> QED
    BY <2>1, <2>3 DEF Onward
<1> QED
  BY <1>1, <1>2

\* A boot shows what the file holds.
LEMMA OnwardBoot ==
  ASSUME Inv, client' = client, Boot, NEW v, NEW t, Viewed(v, t)
  PROVE  Onward(v, t)
<1>1. ~up /\ up'
  BY DEF Boot, Load
<1>2. Reads(v, t) /\ t \in Nat
  BY <1>1, ClockWithin DEF Viewed, Reads, Inv
<1>3. Sees(v, v, t)'
  BY <1>2, ViewBoot
<1> QED
  BY <1>1, <1>2, <1>3, OnwardSame

\* Every step of the server is one of these.
LEMMA OnwardStep ==
  ASSUME Mild, "power" \notin Faults, Inv, BooksInv, MirrorsInv, [Next]_<<client, vars>>,
         NEW v, NEW t, Viewed(v, t)
  PROVE  Onward(v, t)
<1>1. client' = client
  BY DEF Next
<1>2. CASE UNCHANGED <<client, vars>> \/ Tick
  <2>1. UNCHANGED <<file, events, queue, up, pc, task, lastNow>>
    BY <1>2 DEF vars, storeVars, serverVarsButPc, Tick
  <2> QED
    BY <1>1, <2>1, OnwardStill
<1>3. CASE Boot
  BY <1>1, <1>3, OnwardBoot
<1>4. ASSUME NEW r \in Slots, Arrive(r) \/ Continue(r) PROVE Onward(v, t)
  <2>1. up
    <3>1. CASE Arrive(r)
      BY <3>1 DEF Arrive, CreateGrant, AuthorizeArrives, ResolveArrives, ReportArrives, MayArrive, Quiet
    <3>2. CASE Continue(r)
      <4>1. InFlight(r)
        BY <3>2 DEF Continue, AuthorizeEnters, AuthorizeDecides, ResolveEnters, ReportEnters, SignerFails,
                    Rejected, Finish, InFlight
      <4> QED
        BY <4>1 DEF Inv, DownInv
    <3> QED
      BY <1>4, <3>1, <3>2
  <2>2. PICK w : Sees(v, w, t)
    BY <2>1 DEF Viewed
  <2> QED
    BY <1>1, <1>4, <2>1, <2>2, OnwardArrives, OnwardContinues
<1>5. ASSUME Drain PROVE Onward(v, t)
  <2>1. up
    BY <1>5 DEF Drain, Quiet
  <2>2. PICK w : Sees(v, w, t)
    BY <2>1 DEF Viewed
  <2> QED
    BY <1>1, <1>5, <2>2, OnwardDrain
<1>6. ASSUME NEW n, NEW cut, DrainFails(n, cut) PROVE Onward(v, t)
  <2>1. up
    BY <1>6 DEF DrainFails, Quiet
  <2>2. PICK w : Sees(v, w, t)
    BY <2>1 DEF Viewed
  <2> QED
    BY <1>1, <1>6, <2>2, OnwardFail
<1>7. ASSUME NEW n, NEW cut, Stops(n, cut) PROVE Onward(v, t)
  <2>1. up
    BY <1>7 DEF Stops, Halt
  <2>2. PICK w : Sees(v, w, t)
    BY <2>1 DEF Viewed
  <2> QED
    BY <1>1, <1>7, <2>2, OnwardStop
<1>8. CASE Faulty
  <2>1. PICK n, cut : DrainFails(n, cut) \/ PowerLoss(n, cut)
    BY <1>8 DEF Faulty
  <2>2. DrainFails(n, cut) \/ Stops(n, cut)
    BY <2>1 DEF PowerLoss, Stops
  <2> QED
    BY <1>6, <1>7, <2>2
<1>9. CASE Crash
  <2>1. Stops(0, "whole") \/ Stops(Len(batch), "whole")
    BY <1>9 DEF Crash, Kill, Stops
  <2> QED
    BY <1>7, <2>1
<1> QED
  BY <1>2, <1>3, <1>4, <1>5, <1>8, <1>9 DEF Next
-----------------------------------------------------------------------------
(* The refinement. *)

\* What is viewed is what Authority's variables are.
LEMMA ViewedLog ==
  ASSUME Inv, NEW v, NEW t, Viewed(v, t)
  PROVE  v = view(log) /\ t = lastNow[theGrant] /\ t \in Nat /\ v \in View /\ t <= horizon /\ Kept(v, t)
<1>1. t = lastNow[theGrant] /\ Kept(v, t)
  BY DEF Viewed, Sees, Reads
<1>2. lastNow[theGrant] \in Nat /\ lastNow[theGrant] <= horizon
  BY ClockWithin, Horizon DEF Inv
<1>3. PICK es : es = log
  OBVIOUS
<1>4. v = view(es) /\ es \in Seq(Event)
  BY <1>3 DEF Viewed, Sees, Reads, Grown, Good, log
<1> QED
  BY <1>1, <1>2, <1>3, <1>4, ViewType

\* The grant's clock is within Authority's bound.
LEMMA NowWithin == TypeInv => lastNow[theGrant] \in Nat /\ lastNow[theGrant] <= horizon
  BY ClockWithin, Horizon

\* What is viewed next is what Authority's variables are next.
LEMMA ViewedNext ==
  ASSUME NEW x, NEW u, Viewed(x, u)', TypeInv'
  PROVE  Shows(x, u)' /\ u \in Nat /\ u <= horizon
<1>1. x = view(log') /\ u = lastNow'[theGrant]
  BY DEF Viewed, Sees, Reads, Grown, log
<1>2. Shows(x, u)'
  BY <1>1, ShowsNext
<1>3. (TypeInv => lastNow[theGrant] \in Nat /\ lastNow[theGrant] <= horizon)'
  BY NowWithin, PTL
<1> QED
  BY <1>1, <1>2, <1>3

\* A step of the server is a step or a stutter of Authority.
LEMMA Simulation ==
  ASSUME Inv, TypeInv', NEW v, NEW t, Viewed(v, t), Onward(v, t)
  PROVE  UNCHANGED Ledger!vars \/ Ledger!Next
<1>1. v = view(log) /\ t = lastNow[theGrant] /\ t \in Nat /\ v \in View /\ t <= horizon /\ Kept(v, t)
  BY ViewedLog
<1>2. Shows(v, t)
  BY <1>1, ShowsNow DEF Inv
<1>3. PICK x, u : Viewed(x, u)' /\ ((x = v /\ t <= u) \/ (u = t /\ Leads(v, x, t)))
  BY DEF Onward
<1>4. Shows(x, u)' /\ u \in Nat /\ u <= horizon
  BY <1>3, ViewedNext
<1>5. CASE u = t /\ Leads(v, x, t)
  BY <1>1, <1>2, <1>4, <1>5, MapsStep DEF Leads
<1>6. CASE x = v /\ u = t
  BY <1>1, <1>2, <1>4, <1>6, MapsSame
<1>7. CASE x = v /\ t < u
  <2>1. u \in 1..horizon
    BY <1>1, <1>4, <1>7, Horizon
  <2>2. SameDay(v)
    BY <1>1, SameDays
  <2> QED
    BY <1>1, <1>2, <1>4, <1>7, <2>1, <2>2, MapsTick
<1> QED
  BY <1>1, <1>3, <1>4, <1>5, <1>6, <1>7

\* The inductive invariant: the log has a view.
ViewedInv == \E v, t : Viewed(v, t)

\* The server starts with a view.
LEMMA ViewedStart == Init => ViewedInv
<1> SUFFICES ASSUME Init PROVE ViewedInv
  OBVIOUS
<1>1. ViewInv /\ up
  BY ViewStart DEF Init, StoreInit
<1>2. PICK v, w, t : Sees(v, w, t)
  BY <1>1 DEF ViewInv
<1>3. Viewed(v, t)
  BY <1>1, <1>2 DEF Viewed
<1> QED
  BY <1>3 DEF ViewedInv

\* Every step of the server is viewed, and one of Authority or a stutter.
LEMMA ViewedStep ==
  ASSUME Mild, "power" \notin Faults, Inv, TypeInv', BooksInv, MirrorsInv, ViewedInv, [Next]_<<client, vars>>
  PROVE  ViewedInv' /\ (UNCHANGED Ledger!vars \/ Ledger!Next)
<1>1. PICK v, t : Viewed(v, t)
  BY DEF ViewedInv
<1>2. Onward(v, t)
  BY <1>1, OnwardStep
<1>3. ViewedInv'
  BY <1>2 DEF Onward, ViewedInv
<1> QED
  BY <1>1, <1>2, <1>3, Simulation

\* The log of the server is a behaviour of Authority, one grant at a time: its decisions,
\* sweeps, resolutions and reports are taken one at a time and whole, whatever other
\* requests are on their way, whatever batch they are in, whenever the process is killed
\* or a write fails and whatever a boot finds.
THEOREM ServerImplementsAuthority ==
  ASSUME Mild, "power" \notin Faults
  PROVE  Spec => ImplementsAuthority
<1>1. Inv /\ Inv' /\ BooksInv /\ MirrorsInv /\ ViewedInv /\ [Next]_<<client, vars>> =>
        ViewedInv' /\ [UNCHANGED Ledger!vars \/ Ledger!Next]_(Ledger!vars)
  BY ViewedStep DEF Inv
<1>2. Inv /\ BooksInv /\ [Next]_<<client, vars>> => BooksInv'
  BY BooksStep
<1>3. Inv /\ BooksInv /\ MirrorsInv /\ [Next]_<<client, vars>> => MirrorsInv'
  BY MirrorsStep
<1>4. Init => BooksInv /\ MirrorsInv /\ ViewedInv /\ Ledger!Init
  BY BooksInit, MirrorsInit, ViewedStart, MapsInit
<1> QED
  BY <1>1, <1>2, <1>3, <1>4, Inductive, PTL DEF Spec, ImplementsAuthority
=============================================================================
