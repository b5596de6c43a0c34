--------------------------- MODULE AuthorityProofs ---------------------------
(***************************************************************************)
(* Invariance proofs for module Authority, for every value of its          *)
(* constants; then, for module X402, that whatever the verifiers and the   *)
(* network do, Cosmos behind them behaves as Authority does, and that      *)
(* every verdict is backed by the one decision under the purchase's key.   *)
(***************************************************************************)
EXTENDS X402, FiniteSetTheorems, FunctionTheorems, TLAPS

-----------------------------------------------------------------------------
(* Sums of amounts, from the cardinalities of their units. *)

\* The units of finitely many accounts are finitely many, so a sum of amounts
\* is a natural number.
LEMMA SumType ==
  ASSUME NEW S, IsFiniteSet(S), NEW f
  PROVE  IsFiniteSet(Units(f, S)) /\ SumOf(f, S) \in Nat
<1>1. IsFiniteSet(1..MaxAmount)
  BY FS_Interval, MoneyAssumption
<1>2. IsFiniteSet(S \X (1..MaxAmount))
  BY <1>1, FS_Product
<1>3. Units(f, S) \in SUBSET (S \X (1..MaxAmount))
  BY DEF Units
<1>4. IsFiniteSet(Units(f, S))
  BY <1>2, <1>3, FS_Subset
<1> QED
  BY <1>4, FS_CardinalityType DEF SumOf

\* The sum over no account is zero.
LEMMA SumEmpty == ASSUME NEW f PROVE SumOf(f, {}) = 0
<1>1. Units(f, {}) = {}
  BY DEF Units
<1> QED
  BY <1>1, FS_EmptySet DEF SumOf

\* The sum over one account is its amount.
LEMMA SumSingle ==
  ASSUME NEW f, NEW x, f[x] \in 0..MaxAmount
  PROVE  SumOf(f, {x}) = f[x]
<1> DEFINE b == [n \in 1..f[x] |-> <<x, n>>]
<1>0. MaxAmount \in Nat
  BY MoneyAssumption
<1>1. Units(f, {x}) = {<<x, n>> : n \in 1..f[x]}
  BY <1>0 DEF Units
<1>2. b \in Bijection(1..f[x], Units(f, {x}))
  <2>1. b \in [1..f[x] -> Units(f, {x})]
    BY <1>1
  <2>2. \A m, n \in 1..f[x] : b[m] = b[n] => m = n
    OBVIOUS
  <2>3. \A u \in Units(f, {x}) : \E n \in 1..f[x] : b[n] = u
    BY <1>1
  <2> QED
    BY <2>1, <2>2, <2>3, Fun_IsBij
<1>3. ExistsBijection(1..f[x], Units(f, {x}))
  BY <1>2 DEF ExistsBijection
<1> QED
  BY <1>0, <1>3, FS_CountingElements DEF SumOf

\* Sums over disjoint sets add up.
LEMMA SumUnion ==
  ASSUME NEW S, NEW T, IsFiniteSet(S), IsFiniteSet(T), S \cap T = {}, NEW f
  PROVE  SumOf(f, S \cup T) = SumOf(f, S) + SumOf(f, T)
<1>1. Units(f, S \cup T) = Units(f, S) \cup Units(f, T)
  BY DEF Units
<1>2. Units(f, S) \cap Units(f, T) = {}
  BY DEF Units
<1>3. IsFiniteSet(Units(f, S)) /\ IsFiniteSet(Units(f, T))
  BY SumType
<1>4. Cardinality(Units(f, S)) \in Nat /\ Cardinality(Units(f, T)) \in Nat
  BY SumType DEF SumOf
<1>5. Cardinality(Units(f, S) \cup Units(f, T)) =
        Cardinality(Units(f, S)) + Cardinality(Units(f, T)) - Cardinality({})
  BY <1>2, <1>3, FS_Union
<1>6. Cardinality({}) = 0
  BY FS_EmptySet
<1>7. Cardinality(Units(f, S) \cup Units(f, T)) =
        Cardinality(Units(f, S)) + Cardinality(Units(f, T))
  BY <1>4, <1>5, <1>6
<1> QED
  BY <1>1, <1>7 DEF SumOf

\* Taking accounts out of a set takes their amounts out of its sum.
LEMMA SumDifference ==
  ASSUME NEW S, IsFiniteSet(S), NEW T \in SUBSET S, NEW f
  PROVE  SumOf(f, S \ T) = SumOf(f, S) - SumOf(f, T)
<1>1. IsFiniteSet(T) /\ IsFiniteSet(S \ T)
  BY FS_Subset, S \ T \in SUBSET S
<1>2. (S \ T) \cup T = S /\ (S \ T) \cap T = {}
  OBVIOUS
<1>3. SumOf(f, S) = SumOf(f, S \ T) + SumOf(f, T)
  BY <1>1, <1>2, SumUnion
<1>4. SumOf(f, S \ T) \in Nat /\ SumOf(f, T) \in Nat
  BY <1>1, SumType
<1> QED
  BY <1>3, <1>4

\* A new account adds its amount.
LEMMA SumAdd ==
  ASSUME NEW S, IsFiniteSet(S), NEW x, x \notin S, NEW f, f[x] \in 0..MaxAmount
  PROVE  SumOf(f, S \cup {x}) = SumOf(f, S) + f[x]
<1>1. IsFiniteSet({x}) /\ S \cap {x} = {}
  BY FS_Singleton
<1> QED
  BY <1>1, SumUnion, SumSingle

\* A sum depends only on the amounts of the accounts it ranges over.
LEMMA SumSame ==
  ASSUME NEW S, NEW f, NEW h, \A x \in S : f[x] = h[x]
  PROVE  SumOf(f, S) = SumOf(h, S)
<1>1. Units(f, S) = Units(h, S)
  BY DEF Units
<1> QED
  BY <1>1 DEF SumOf

-----------------------------------------------------------------------------
(* The policy. *)

\* Every answer of the policy engine is one of the named reasons.
LEMMA DecideType ==
  ASSUME NEW view, NEW now, NEW amount, NEW currency, NEW category
  PROVE  decide(view, now, amount, currency, category) \in Reasons
BY DEF decide, evaluate, Reasons

\* An approved amount is positive and fits what is left of the budget.
LEMMA ApprovedFits ==
  ASSUME NEW view, NEW now, NEW amount \in Int, NEW currency, NEW category,
         view.spent \in Int, view.policy.budget \in Nat,
         decide(view, now, amount, currency, category) = "APPROVED"
  PROVE  amount > 0 /\ view.spent + amount <= view.policy.budget
<1>1. evaluate(view, now, amount, category) = "APPROVED"
  BY DEF decide
<1>2. ~(amount <= 0) /\ ~(amount > view.policy.budget - view.spent)
  BY <1>1 DEF evaluate
<1> QED
  BY <1>2

\* A refusal for overrun means the grant is past its budget.
LEMMA OverrunIsOver ==
  ASSUME NEW view, NEW now, NEW amount, NEW currency, NEW category,
         decide(view, now, amount, currency, category) = "GRANT_OVERRUN"
  PROVE  view.spent > view.policy.budget
BY DEF decide, evaluate

-----------------------------------------------------------------------------
(* The lifecycle record. *)

\* Each event maps lifecycle records to lifecycle records.
LEMMA EventTypes ==
  ASSUME NEW s \in Lifecycle, NEW n \in Nat, NEW h \in BOOLEAN, NEW l \in BOOLEAN,
         NEW r \in Reporters, NEW o \in {"settled", "failed"}
  PROVE  /\ onReversal(s) \in Lifecycle
         /\ onReservation(s, n, h) \in Lifecycle
         /\ onSubmission(s, r, n) \in Lifecycle
         /\ onSettlement(s, o, r, l) \in Lifecycle
<1>1. onReversal(s) \in Lifecycle
  BY DEF onReversal, Lifecycle
<1>2. onReservation(s, n, h) \in Lifecycle
  BY DEF onReservation, Lifecycle
<1>3. onSubmission(s, r, n) \in Lifecycle
  BY DEF onSubmission, Lifecycle, Outcomes
<1>4. onSettlement(s, o, r, l) \in Lifecycle
  BY DEF onSettlement, Lifecycle, Outcomes
<1> QED
  BY <1>1, <1>2, <1>3, <1>4

\* So is the record of a decision just taken, and it holds its amount if and
\* only if the decision is an ALLOW.
LEMMA DecidedRecord ==
  ASSUME NEW d \in {"ALLOW", "DENY", "ESCALATE"}, NEW amount \in Nat,
         NEW n \in Nat, NEW h \in BOOLEAN
  PROVE  LET s == decided(d, amount, n, h)
         IN  /\ s \in Lifecycle
             /\ s.decision = d /\ s.amount = amount /\ s.outcome = "none"
             /\ s.reserved <=> d = "ALLOW"
<1> DEFINE r == onDecision(NoState, d, amount)
<1>1. /\ r \in Lifecycle
      /\ r.decision = d /\ r.amount = amount /\ r.outcome = "none" /\ ~r.reserved
  BY DEF onDecision, NoState, Lifecycle, Decisions, Outcomes
<1>2. CASE d = "ALLOW"
  <2>1. decided(d, amount, n, h) = onReservation(r, n, h)
    BY <1>2 DEF decided
  <2>2. onReservation(r, n, h) \in Lifecycle
    <3> HIDE DEF r
    <3> QED
      BY <1>1 DEF onReservation, Lifecycle
  <2>3. LET s == onReservation(r, n, h)
        IN s.decision = d /\ s.amount = amount /\ s.outcome = "none" /\ s.reserved
    <3> HIDE DEF r
    <3> QED
      BY <1>1 DEF onReservation, Lifecycle
  <2> QED
    BY <1>2, <2>1, <2>2, <2>3
<1>3. CASE d # "ALLOW"
  <2>1. decided(d, amount, n, h) = r
    BY <1>3 DEF decided
  <2> QED
    BY <1>1, <1>3, <2>1
<1> QED
  BY <1>2, <1>3

-----------------------------------------------------------------------------
(* Types. *)

\* A sum of amounts is a natural number.
LEMMA TotalType ==
  ASSUME NEW S \in SUBSET AuthIds, NEW f
  PROVE  SumOf(f, S) \in Nat
<1>1. IsFiniteSet(S)
  BY AuthorityAssumption, FS_Subset
<1> QED
  BY <1>1, SumType

\* Sweeping keeps every lifecycle record a lifecycle record.
LEMMA SweptType ==
  ASSUME life \in [AuthIds -> Lifecycle], NEW S
  PROVE  swept(S) \in [AuthIds -> Lifecycle]
<1>1. \A s \in Lifecycle : onReversal(s) \in Lifecycle
  BY DEF onReversal, Lifecycle
<1> QED
  BY <1>1 DEF swept

\* Recording a decision keeps the types.
LEMMA RecordType ==
  ASSUME TypeOK, NEW S \in SUBSET AuthIds, NEW a \in AuthIds, NEW g,
         NEW d \in {"ALLOW", "DENY", "ESCALATE"}, NEW amount \in Nat,
         NEW n \in Nat, NEW h \in BOOLEAN, NEW r \in Request,
         NEW sp \in Int, NEW td \in Int,
         life' = [swept(S) EXCEPT ![a] = decided(d, amount, n, h)],
         req' = [req EXCEPT ![a] = r],
         spent' = [spent EXCEPT ![g] = sp + reservedBy(d, amount)],
         today' = [today EXCEPT ![g] = td + reservedBy(d, amount)],
         pending' \in SUBSET AuthIds,
         UNCHANGED <<clock, policy, lateHeld>>
  PROVE  TypeOK'
<1>1. decided(d, amount, n, h) \in Lifecycle
  BY DecidedRecord
<1>2. life' \in [AuthIds -> Lifecycle]
  BY <1>1, SweptType DEF TypeOK
<1>3. reservedBy(d, amount) \in Nat
  BY DEF reservedBy
<1>4. sp + reservedBy(d, amount) \in Int /\ td + reservedBy(d, amount) \in Int
  BY <1>3
<1>5. spent' \in [Grants -> Int] /\ today' \in [Grants -> Int]
  BY <1>4 DEF TypeOK
<1> QED
  BY <1>2, <1>5 DEF TypeOK

-----------------------------------------------------------------------------
(* The inductive invariant. *)

\* How the tables fit together: an id is used in all of them or in none, only
\* minted grants have authorizations, only escalations are pending.
Shape ==
  /\ \A a \in AuthIds : life[a].amount \in 0..MaxAmount
  /\ \A a \in AuthIds : life[a].decision = "none" => req[a].grant = None
  /\ \A a \in AuthIds : req[a].grant # None =>
       req[a].grant \in Grants /\ policy[req[a].grant] # None
  /\ \A a \in AuthIds : life[a].decision = "ALLOW" => req[a].grant # None
  /\ \A a \in pending : life[a].decision = "ESCALATE" /\ req[a].grant # None

IInv ==
  TypeOK /\ Shape /\ OutcomeMatchesHold /\ BooksBalance /\ BudgetBound /\ OverrunMeansLate

\* What POST /authorize and POST /approvals have in common: sweep S, then
\* record decision d on grant g under the fresh id a, within the budget.
Recorded(g, S, a, d, amount, n, h, k, p, reason) ==
  /\ a \in Fresh
  /\ life' = [swept(S) EXCEPT ![a] = decided(d, amount, n, h)]
  /\ req' = [req EXCEPT ![a] = [grant |-> g, key |-> k, parent |-> p, reason |-> reason]]
  /\ spent' = [spent EXCEPT ![g] = (spent[g] - Total(S)) + reservedBy(d, amount)]
  /\ today' = [today EXCEPT ![g] = (today[g] - Total(S)) + reservedBy(d, amount)]
  /\ UNCHANGED <<clock, policy, lateHeld>>
  /\ d = "ALLOW" => (spent[g] - Total(S)) + amount <= policy[g].budget
  /\ reason = "GRANT_OVERRUN" => spent[g] - Total(S) > policy[g].budget

\* The sweep reverses standing holds of the grant that no report has ended.
LEMMA SweepOfGrant ==
  ASSUME NEW g
  PROVE  expiredReservations(g) \in
           SUBSET {x \in AuthIds : req[x].grant = g /\ sweepable(life[x])}
BY DEF expiredReservations, expired

SweptAndRecorded(g, k, amount) ==
  \E a \in AuthIds, d \in {"ALLOW", "DENY", "ESCALATE"},
     reason \in Reasons \cup {"APPROVAL_REQUIRED"} :
    /\ Recorded(g, expiredReservations(g), a, d, amount, clock + TTL, TRUE, k, None, reason)
    /\ pending' = IF d = "ESCALATE" THEN pending \cup {a} ELSE pending

\* POST /authorize records a decision after sweeping what has expired.
LEMMA AuthorizeRecords ==
  ASSUME TypeOK, NEW g \in Grants, NEW k, NEW amount \in Amounts, NEW currency,
         NEW category, NEW later,
         Authorize(g, k, amount, currency, category, later)
  PROVE  policy[g] # None /\ SweptAndRecorded(g, k, amount)
<1> DEFINE S  == expiredReservations(g)
           sp == spent[g] - Total(S)
           td == today[g] - Total(S)
           view == agentView(g, sp, td)
           answer == decide(view, later, amount, currency, category)
           d  == IF answer # "APPROVED" THEN "DENY"
                 ELSE IF needsApproval(policy[g], amount) THEN "ESCALATE" ELSE "ALLOW"
           reason == IF d = "ESCALATE" THEN "APPROVAL_REQUIRED" ELSE answer
<1>1. PICK a \in Fresh :
        /\ life' = [swept(S) EXCEPT ![a] = decided(d, amount, clock + TTL, TRUE)]
        /\ req' = [req EXCEPT ![a] =
             [grant |-> g, key |-> k, parent |-> None, reason |-> reason]]
        /\ spent' = [spent EXCEPT ![g] = sp + reservedBy(d, amount)]
        /\ today' = [today EXCEPT ![g] = td + reservedBy(d, amount)]
        /\ pending' = IF d = "ESCALATE" THEN pending \cup {a} ELSE pending
  BY DEF Authorize
<1>2. policy[g] # None /\ UNCHANGED <<clock, policy, lateHeld>>
  BY DEF Authorize
<1>3. view.spent = sp /\ view.policy = policy[g]
  BY DEF agentView
<1>4. answer \in Reasons
  BY DecideType
<1>5. S \in SUBSET AuthIds
  BY DEF expiredReservations
<1>6. Total(S) \in Nat /\ sp \in Int
  <2>1. Total(S) \in Nat
    BY <1>5, TotalType DEF Total
  <2> QED
    BY <2>1 DEF TypeOK
<1>7. policy[g].budget \in Nat /\ amount \in Int
  <2>1. policy[g] \in PolicyRecord
    BY <1>2, AuthorityAssumption DEF TypeOK
  <2> QED
    BY <2>1, AuthorityAssumption, MoneyAssumption DEF PolicyRecord
<1>8. ASSUME d = "ALLOW" PROVE sp + amount <= policy[g].budget
  <2>1. answer = "APPROVED"
    BY <1>8
  <2> HIDE DEF view, sp
  <2> QED
    BY <2>1, <1>3, <1>6, <1>7, ApprovedFits
<1>9. ASSUME reason = "GRANT_OVERRUN" PROVE sp > policy[g].budget
  <2>1. answer = "GRANT_OVERRUN"
    BY <1>9
  <2> HIDE DEF view, sp
  <2> QED
    BY <2>1, <1>3, OverrunIsOver
<1>10. a \in AuthIds
  BY <1>1 DEF Fresh
<1>11. d \in {"ALLOW", "DENY", "ESCALATE"} /\ reason \in Reasons \cup {"APPROVAL_REQUIRED"}
  BY <1>4
<1>12. Recorded(g, S, a, d, amount, clock + TTL, TRUE, k, None, reason)
  <2> HIDE DEF S, d, reason
  <2> QED
    BY <1>1, <1>2, <1>8, <1>9 DEF Recorded
<1> HIDE DEF d, reason, S
<1> QED
  BY <1>1, <1>2, <1>10, <1>11, <1>12 DEF S, SweptAndRecorded

\* Resolving an escalation records a decision and sweeps nothing.
LEMMA ResolveRecords ==
  ASSUME TypeOK, NEW a \in AuthIds, req[a].grant \in Grants,
         NEW d \in {"ALLOW", "DENY"}, NEW reason, Resolve(a, d, reason),
         d = "ALLOW" => spent[req[a].grant] + life[a].amount <= policy[req[a].grant].budget,
         reason = "GRANT_OVERRUN" => spent[req[a].grant] > policy[req[a].grant].budget
  PROVE  /\ \E b \in AuthIds : Recorded(req[a].grant, {}, b, d, life[a].amount,
                                        clock + ApprovalTTL, FALSE, None, a, reason)
         /\ pending' = pending \ {a}
<1> DEFINE g == req[a].grant
<1>1. PICK b \in Fresh :
        /\ life' = [life EXCEPT ![b] = decided(d, life[a].amount, clock + ApprovalTTL, FALSE)]
        /\ req' = [req EXCEPT ![b] =
             [grant |-> g, key |-> None, parent |-> a, reason |-> reason]]
        /\ spent' = [spent EXCEPT ![g] = @ + reservedBy(d, life[a].amount)]
        /\ today' = [today EXCEPT ![g] = @ + reservedBy(d, life[a].amount)]
        /\ pending' = pending \ {a}
        /\ UNCHANGED <<clock, policy, lateHeld>>
  BY DEF Resolve
<1>2. swept({}) = life
  BY DEF swept, TypeOK
<1>3. Total({}) = 0
  BY SumEmpty DEF Total
<1>4. spent[g] \in Int /\ today[g] \in Int
  BY DEF TypeOK
<1>5. spent[g] - Total({}) = spent[g] /\ today[g] - Total({}) = today[g]
  BY <1>3, <1>4
<1>6. /\ spent' = [spent EXCEPT ![g] = spent[g] + reservedBy(d, life[a].amount)]
      /\ today' = [today EXCEPT ![g] = today[g] + reservedBy(d, life[a].amount)]
  BY <1>1
<1>7. Recorded(g, {}, b, d, life[a].amount, clock + ApprovalTTL, FALSE, None, a, reason)
  BY <1>1, <1>2, <1>5, <1>6 DEF Recorded
<1>8. b \in AuthIds
  BY <1>1 DEF Fresh
<1> QED
  BY <1>1, <1>7, <1>8

\* Both verdicts of POST /approvals resolve the escalation that way.
LEMMA ApprovalRecords ==
  ASSUME TypeOK, Shape, NEW a \in AuthIds, NEW later, Deny(a) \/ Approve(a, later)
  PROVE  /\ a \in pending /\ req[a].grant \in Grants /\ policy[req[a].grant] # None
         /\ \E d \in {"ALLOW", "DENY"},
               reason \in Reasons \cup {"DENIED_BY_APPROVER", "APPROVED_BY_HUMAN"} :
              /\ Resolve(a, d, reason)
              /\ d = "ALLOW" =>
                   spent[req[a].grant] + life[a].amount <= policy[req[a].grant].budget
              /\ reason = "GRANT_OVERRUN" =>
                   spent[req[a].grant] > policy[req[a].grant].budget
<1> DEFINE g == req[a].grant
           view == agentView(g, spent[g], today[g])
           answer == decide(view, later, life[a].amount, policy[g].currency, "")
<1>1. a \in pending
  BY DEF Deny, Approve
<1>2. g \in Grants /\ policy[g] # None
  BY <1>1 DEF Shape
<1>3. view.spent = spent[g] /\ view.policy = policy[g]
  BY DEF agentView
<1>4. spent[g] \in Int /\ policy[g].budget \in Nat /\ life[a].amount \in Int
  <2>1. policy[g] \in PolicyRecord
    BY <1>2, AuthorityAssumption DEF TypeOK
  <2> QED
    BY <1>2, <2>1 DEF TypeOK, PolicyRecord, Lifecycle
<1>5. answer \in Reasons
  BY DecideType
<1>6. answer = "APPROVED" => spent[g] + life[a].amount <= policy[g].budget
  <2> HIDE DEF view
  <2> QED
    BY <1>3, <1>4, ApprovedFits
<1>7. answer = "GRANT_OVERRUN" => spent[g] > policy[g].budget
  <2> HIDE DEF view
  <2> QED
    BY <1>3, OverrunIsOver
<1>8. CASE Deny(a)
  BY <1>1, <1>2, <1>8 DEF Deny
<1>9. CASE Approve(a, later)
  <2>1. \/ answer = "APPROVED" /\ Resolve(a, "ALLOW", "APPROVED_BY_HUMAN")
        \/ answer # "APPROVED" /\ Resolve(a, "DENY", answer)
    BY <1>9 DEF Approve
  <2> HIDE DEF answer, g
  <2> QED
    BY <1>1, <1>2, <1>5, <1>6, <1>7, <2>1 DEF g
<1> QED
  BY <1>8, <1>9

-----------------------------------------------------------------------------
(* Every action preserves the inductive invariant. *)

\* Reversing a hold changes nothing of a lifecycle record but the hold.
LEMMA ReversalFields ==
  ASSUME NEW s \in Lifecycle
  PROVE  LET t == onReversal(s)
         IN  /\ t.decision = s.decision /\ t.amount = s.amount /\ t.outcome = s.outcome
             /\ t.deadline = s.deadline /\ ~t.reserved
BY DEF onReversal, Lifecycle

\* The sum over the holds of a grant, when the holds T leave it and b may join
\* it, while the amounts of the others stay.
LEMMA HeldSum ==
  ASSUME NEW g, NEW T \in SUBSET HeldBy(g), NEW b \in AuthIds \ HeldBy(g),
         NEW f, \A x \in HeldBy(g) : f[x] = life[x].amount, f[b] \in 0..MaxAmount
  PROVE  SumOf(f, (HeldBy(g) \ T) \cup {b}) = (Total(HeldBy(g)) - Total(T)) + f[b]
<1>1. HeldBy(g) \in SUBSET AuthIds
  BY DEF HeldBy
<1>2. IsFiniteSet(HeldBy(g)) /\ IsFiniteSet(HeldBy(g) \ T)
  BY <1>1, AuthorityAssumption, FS_Subset, HeldBy(g) \ T \in SUBSET AuthIds
<1>3. SumOf(amountOf, HeldBy(g) \ T) = Total(HeldBy(g)) - Total(T)
  BY <1>2, SumDifference DEF Total
<1>4. \A x \in HeldBy(g) \ T : f[x] = amountOf[x]
  BY <1>1 DEF amountOf
<1>5. SumOf(f, HeldBy(g) \ T) = SumOf(amountOf, HeldBy(g) \ T)
  BY <1>4, SumSame
<1>6. b \notin HeldBy(g) \ T
  OBVIOUS
<1>7. SumOf(f, (HeldBy(g) \ T) \cup {b}) = SumOf(f, HeldBy(g) \ T) + f[b]
  BY <1>2, <1>6, SumAdd
<1> QED
  BY <1>3, <1>5, <1>7

\* The same when no hold joins.
LEMMA HeldSumLess ==
  ASSUME NEW g, NEW T \in SUBSET HeldBy(g),
         NEW f, \A x \in HeldBy(g) : f[x] = life[x].amount
  PROVE  SumOf(f, HeldBy(g) \ T) = Total(HeldBy(g)) - Total(T)
<1>1. HeldBy(g) \in SUBSET AuthIds
  BY DEF HeldBy
<1>2. IsFiniteSet(HeldBy(g))
  BY <1>1, AuthorityAssumption, FS_Subset
<1>3. SumOf(amountOf, HeldBy(g) \ T) = Total(HeldBy(g)) - Total(T)
  BY <1>2, SumDifference DEF Total
<1>4. \A x \in HeldBy(g) \ T : f[x] = amountOf[x]
  BY <1>1 DEF amountOf
<1> QED
  BY <1>3, <1>4, SumSame

\* The books stay balanced when holds T leave grant g, the hold b may join it,
\* and `spent` moves by exactly that.
LEMMA BooksMove ==
  ASSUME spent \in [Grants -> Int], BooksBalance,
         NEW g \in Grants, NEW T \in SUBSET HeldBy(g), NEW b \in AuthIds, NEW plus \in Nat,
         \A x \in AuthIds : life[x].reserved => life'[x].amount = life[x].amount,
         \A i \in Grants \ {g} : HeldBy(i)' = HeldBy(i),
         \/ /\ HeldBy(g)' = HeldBy(g) \ T
            /\ plus = 0
         \/ /\ HeldBy(g)' = (HeldBy(g) \ T) \cup {b}
            /\ b \notin HeldBy(g)
            /\ life'[b].amount \in 0..MaxAmount
            /\ plus = life'[b].amount,
         spent' = [spent EXCEPT ![g] = (spent[g] - Total(T)) + plus]
  PROVE  BooksBalance'
<1>1. \A i \in Grants : \A x \in HeldBy(i) : x \in AuthIds /\ life[x].reserved
  BY DEF HeldBy
<1>2. \A i \in Grants : \A x \in HeldBy(i) : amountOf'[x] = life[x].amount
  BY <1>1 DEF amountOf
<1>3. ASSUME NEW i \in Grants, i # g PROVE spent'[i] = Total(HeldBy(i))'
  <2>1. Total(HeldBy(i))' = SumOf(amountOf', HeldBy(i))
    BY <1>3 DEF Total
  <2>2. \A x \in HeldBy(i) : amountOf'[x] = amountOf[x]
    BY <1>1, <1>2 DEF amountOf
  <2>3. SumOf(amountOf', HeldBy(i)) = SumOf(amountOf, HeldBy(i))
    BY <2>2, SumSame
  <2>4. spent[i] = SumOf(amountOf, HeldBy(i))
    BY DEF BooksBalance, Total
  <2>5. spent'[i] = spent[i]
    BY <1>3
  <2> QED
    BY <2>1, <2>3, <2>4, <2>5
<1>4. spent'[g] = Total(HeldBy(g))'
  <2>1. spent'[g] = (spent[g] - Total(T)) + plus
    OBVIOUS
  <2>2. spent[g] = Total(HeldBy(g))
    BY DEF BooksBalance
  <2>3. HeldBy(g) \in SUBSET AuthIds /\ T \in SUBSET AuthIds
    BY DEF HeldBy
  <2>4. Total(T) \in Nat /\ Total(HeldBy(g)) \in Nat
    BY <2>3, TotalType DEF Total
  <2>5. CASE HeldBy(g)' = HeldBy(g) \ T /\ plus = 0
    <3>1. Total(HeldBy(g))' = SumOf(amountOf', HeldBy(g) \ T)
      BY <2>5 DEF Total
    <3>2. SumOf(amountOf', HeldBy(g) \ T) = Total(HeldBy(g)) - Total(T)
      BY <1>2, HeldSumLess
    <3> QED
      BY <2>1, <2>2, <2>4, <2>5, <3>1, <3>2
  <2>6. CASE /\ HeldBy(g)' = (HeldBy(g) \ T) \cup {b}
             /\ b \notin HeldBy(g)
             /\ life'[b].amount \in 0..MaxAmount
             /\ plus = life'[b].amount
    <3>1. Total(HeldBy(g))' = SumOf(amountOf', (HeldBy(g) \ T) \cup {b})
      BY <2>6 DEF Total
    <3>2. amountOf'[b] = plus /\ amountOf'[b] \in 0..MaxAmount
      BY <2>6 DEF amountOf
    <3>3. SumOf(amountOf', (HeldBy(g) \ T) \cup {b}) =
            (Total(HeldBy(g)) - Total(T)) + amountOf'[b]
      <4>1. b \in AuthIds \ HeldBy(g)
        BY <2>6
      <4>2. \A x \in HeldBy(g) : amountOf'[x] = life[x].amount
        BY <1>2
      <4> QED
        BY <3>2, <4>1, <4>2, HeldSum
    <3> QED
      BY <2>1, <2>2, <3>1, <3>2, <3>3
  <2> QED
    BY <2>5, <2>6
<1> QED
  BY <1>3, <1>4 DEF BooksBalance

\* Recording a decision preserves the invariant.
LEMMA RecordedPreserves ==
  ASSUME IInv, NEW g \in Grants, policy[g] # None,
         NEW S \in SUBSET {x \in AuthIds : req[x].grant = g /\ sweepable(life[x])},
         NEW a \in AuthIds, NEW d \in {"ALLOW", "DENY", "ESCALATE"},
         NEW amount \in 0..MaxAmount, NEW n \in Nat, NEW h \in BOOLEAN,
         NEW k \in Keys \cup {None}, NEW p \in AuthIds \cup {None},
         NEW reason \in Reasons \cup
           {"APPROVAL_REQUIRED", "DENIED_BY_APPROVER", "APPROVED_BY_HUMAN"},
         Recorded(g, S, a, d, amount, n, h, k, p, reason),
         \A x \in pending' : x \in pending \/ (x = a /\ d = "ESCALATE")
  PROVE  IInv'
<1> DEFINE r   == [grant |-> g, key |-> k, parent |-> p, reason |-> reason]
           new == decided(d, amount, n, h)
<1>1. TypeOK /\ Shape /\ OutcomeMatchesHold /\ BooksBalance /\ BudgetBound /\ OverrunMeansLate
  BY DEF IInv
<1>2. amount \in Nat /\ S \in SUBSET AuthIds /\ MaxAmount \in Nat /\ r \in Request
  <2>1. r \in Request
    BY DEF Request
  <2> QED
    BY <2>1, MoneyAssumption
<1>3. /\ life' = [swept(S) EXCEPT ![a] = new]
      /\ req' = [req EXCEPT ![a] = r]
      /\ spent' = [spent EXCEPT ![g] = (spent[g] - Total(S)) + reservedBy(d, amount)]
      /\ today' = [today EXCEPT ![g] = (today[g] - Total(S)) + reservedBy(d, amount)]
      /\ UNCHANGED <<clock, policy, lateHeld>>
  BY DEF Recorded
<1>4. Total(S) \in Nat
  BY <1>2, TotalType DEF Total
<1>5. spent[g] - Total(S) \in Int /\ today[g] - Total(S) \in Int
  BY <1>1, <1>4 DEF TypeOK
<1>6. pending' \in SUBSET AuthIds
  BY <1>1 DEF TypeOK
<1>7. TypeOK'
  <2> HIDE DEF r
  <2> QED
    BY <1>1, <1>2, <1>3, <1>5, <1>6, RecordType
<1>8. /\ new \in Lifecycle
      /\ new.decision = d /\ new.amount = amount /\ new.outcome = "none"
      /\ new.reserved <=> d = "ALLOW"
  BY <1>2, DecidedRecord
<1>9. r.grant = g /\ r.reason = reason
  OBVIOUS
<1> HIDE DEF new, r
<1>10. life[a].decision = "none" /\ req[a].grant = None /\ ~life[a].reserved /\ a \notin pending
  BY <1>1 DEF Recorded, Fresh, Shape, OutcomeMatchesHold
<1>11. g # None /\ a \notin S /\ a \notin HeldBy(g)
  BY <1>10, AuthorityAssumption DEF HeldBy
<1>12. /\ life'[a] = new /\ req'[a] = r
       /\ \A x \in AuthIds \ {a} : req'[x] = req[x]
       /\ \A x \in AuthIds \ {a} : x \in S => life'[x] = onReversal(life[x])
       /\ \A x \in AuthIds \ {a} : x \notin S => life'[x] = life[x]
  BY <1>1, <1>3 DEF swept, TypeOK
<1>13. \A x \in AuthIds \ {a} :
         /\ life'[x].decision = life[x].decision /\ life'[x].amount = life[x].amount
         /\ life'[x].outcome = life[x].outcome
         /\ life'[x].reserved <=> life[x].reserved /\ x \notin S
  BY <1>1, <1>12, ReversalFields DEF TypeOK
<1>14. \A x \in S : x \in HeldBy(g) /\ life[x].outcome # "settled"
  BY DEF HeldBy, sweepable, settled
<1>15. S \in SUBSET HeldBy(g)
  BY <1>14
<1>16. BooksBalance'
  <2>1. \A x \in AuthIds : life[x].reserved => life'[x].amount = life[x].amount
    BY <1>10, <1>13
  <2>2. \A i \in Grants \ {g} : HeldBy(i)' = HeldBy(i)
    BY <1>9, <1>10, <1>11, <1>12, <1>13, <1>14 DEF HeldBy
  <2>3. life'[a].amount \in 0..MaxAmount /\ life'[a].amount = amount
    BY <1>8, <1>12
  <2>4. CASE d = "ALLOW"
    <3>1. HeldBy(g)' = (HeldBy(g) \ S) \cup {a}
      BY <2>4, <1>8, <1>9, <1>11, <1>12, <1>13 DEF HeldBy
    <3>2. reservedBy(d, amount) = amount
      BY <2>4 DEF reservedBy
    <3> QED
      BY <1>1, <1>2, <1>3, <1>11, <1>15, <2>1, <2>2, <2>3, <3>1, <3>2, BooksMove DEF TypeOK
  <2>5. CASE d # "ALLOW"
    <3>1. HeldBy(g)' = HeldBy(g) \ S
      BY <2>5, <1>8, <1>10, <1>11, <1>12, <1>13 DEF HeldBy
    <3>2. reservedBy(d, amount) = 0
      BY <2>5 DEF reservedBy
    <3>3. spent' = [spent EXCEPT ![g] = (spent[g] - Total(S)) + 0]
      BY <1>3, <3>2
    <3>4. spent \in [Grants -> Int] /\ BooksBalance
      BY <1>1 DEF TypeOK
    <3> QED
      BY <1>15, <2>1, <2>2, <3>1, <3>3, <3>4, BooksMove
  <2> QED
    BY <2>4, <2>5
<1>17. BudgetBound'
  <2>1. \A i \in Grants \ {g} : spent'[i] = spent[i]
    BY <1>1, <1>3 DEF TypeOK
  <2>2. spent'[g] = (spent[g] - Total(S)) + reservedBy(d, amount)
    BY <1>1, <1>3 DEF TypeOK
  <2>3. policy[g].budget \in Nat /\ lateHeld[g] \in Nat /\ spent[g] \in Int
    <3>1. policy[g] \in PolicyRecord
      BY <1>1, AuthorityAssumption DEF TypeOK
    <3> QED
      BY <1>1, <3>1 DEF TypeOK, PolicyRecord
  <2>4. spent'[g] <= policy[g].budget + lateHeld[g]
    <3>1. CASE d = "ALLOW"
      <4>1. (spent[g] - Total(S)) + amount <= policy[g].budget
        BY <3>1 DEF Recorded
      <4>2. reservedBy(d, amount) = amount
        BY <3>1 DEF reservedBy
      <4> QED
        BY <1>2, <1>4, <2>2, <2>3, <4>1, <4>2
    <3>2. CASE d # "ALLOW"
      <4>1. reservedBy(d, amount) = 0
        BY <3>2 DEF reservedBy
      <4>2. spent[g] <= policy[g].budget + lateHeld[g]
        BY <1>1 DEF BudgetBound
      <4> QED
        BY <1>4, <2>2, <2>3, <4>1, <4>2
    <3> QED
      BY <3>1, <3>2
  <2> QED
    BY <1>1, <1>3, <2>1, <2>4 DEF BudgetBound
<1>18. OverrunMeansLate'
  <2>1. ASSUME reason = "GRANT_OVERRUN" PROVE lateHeld[g] > 0
    <3>1. policy[g].budget \in Nat /\ lateHeld[g] \in Nat /\ spent[g] \in Int
      <4>1. policy[g] \in PolicyRecord
        BY <1>1, AuthorityAssumption DEF TypeOK
      <4> QED
        BY <1>1, <4>1 DEF TypeOK, PolicyRecord
    <3>2. spent[g] - Total(S) > policy[g].budget
      BY <2>1 DEF Recorded
    <3>3. spent[g] <= policy[g].budget + lateHeld[g]
      BY <1>1 DEF BudgetBound
    <3> QED
      BY <1>4, <3>1, <3>2, <3>3
  <2>2. \A x \in AuthIds \ {a} :
          req'[x].reason = "GRANT_OVERRUN" => lateHeld[req'[x].grant] > 0
    BY <1>1, <1>12 DEF OverrunMeansLate
  <2>3. req'[a].reason = "GRANT_OVERRUN" => lateHeld[req'[a].grant] > 0
    BY <1>9, <1>12, <2>1
  <2> QED
    BY <1>3, <2>2, <2>3 DEF OverrunMeansLate
<1>19. OutcomeMatchesHold'
  <2>1. ASSUME NEW x \in AuthIds \ {a}
        PROVE  /\ life'[x].outcome = "settled" => life'[x].reserved
               /\ life'[x].outcome = "failed" => ~life'[x].reserved
               /\ life'[x].decision # "ALLOW" =>
                    ~life'[x].reserved /\ life'[x].outcome = "none"
    BY <1>1, <1>13, <1>14 DEF OutcomeMatchesHold, settled, failed
  <2>2. /\ life'[a].outcome = "none"
        /\ life'[a].decision # "ALLOW" => ~life'[a].reserved
    BY <1>8, <1>12
  <2> QED
    BY <2>1, <2>2 DEF OutcomeMatchesHold, settled, failed
<1>20. Shape'
  <2>1. ASSUME NEW x \in AuthIds
        PROVE  /\ life'[x].amount \in 0..MaxAmount
               /\ life'[x].decision = "none" => req'[x].grant = None
               /\ req'[x].grant # None => req'[x].grant \in Grants /\ policy[req'[x].grant] # None
               /\ life'[x].decision = "ALLOW" => req'[x].grant # None
    <3>1. CASE x = a
      BY <3>1, <1>8, <1>9, <1>11, <1>12
    <3>2. CASE x # a
      BY <3>2, <1>1, <1>12, <1>13 DEF Shape
    <3> QED
      BY <3>1, <3>2
  <2>2. ASSUME NEW x \in pending'
        PROVE  life'[x].decision = "ESCALATE" /\ req'[x].grant # None
    <3>1. CASE x = a
      BY <3>1, <1>8, <1>9, <1>10, <1>11, <1>12
    <3>2. CASE x # a
      <4>1. x \in pending /\ x \in AuthIds \ {a}
        BY <3>2, <1>6
      <4> QED
        BY <4>1, <1>1, <1>12, <1>13 DEF Shape
    <3> QED
      BY <3>1, <3>2
  <2> QED
    BY <1>3, <2>1, <2>2 DEF Shape
<1> QED
  BY <1>7, <1>16, <1>17, <1>18, <1>19, <1>20 DEF IInv

\* Sweeping without a decision (a POST /authorize that fails between its two
\* appends) preserves the invariant.
LEMMA SweepPreserves ==
  ASSUME IInv, NEW g \in Grants, AuthorizeFails(g)
  PROVE  IInv'
<1> DEFINE S == expiredReservations(g)
<1>1. TypeOK /\ Shape /\ OutcomeMatchesHold /\ BooksBalance /\ BudgetBound /\ OverrunMeansLate
  BY DEF IInv
<1>2. /\ life' = swept(S) /\ S # {}
      /\ spent' = [spent EXCEPT ![g] = @ - Total(S)]
      /\ today' = [today EXCEPT ![g] = @ - Total(S)]
      /\ UNCHANGED <<clock, policy, req, pending, lateHeld>>
  BY DEF AuthorizeFails
<1>3. S \in SUBSET {x \in AuthIds : req[x].grant = g /\ sweepable(life[x])}
  BY SweepOfGrant
<1> HIDE DEF S
<1>4. \A x \in S : x \in HeldBy(g) /\ life[x].outcome # "settled"
  BY <1>3 DEF HeldBy, sweepable, settled
<1>5. S \in SUBSET HeldBy(g) /\ S \in SUBSET AuthIds
  BY <1>3, <1>4
<1>6. Total(S) \in Nat
  BY <1>5, TotalType DEF Total
<1>7. /\ \A x \in AuthIds : x \in S => life'[x] = onReversal(life[x])
      /\ \A x \in AuthIds : x \notin S => life'[x] = life[x]
  BY <1>2 DEF swept
<1>8. \A x \in AuthIds :
        /\ life'[x].decision = life[x].decision /\ life'[x].amount = life[x].amount
        /\ life'[x].outcome = life[x].outcome
        /\ life'[x].reserved <=> life[x].reserved /\ x \notin S
  BY <1>1, <1>7, ReversalFields DEF TypeOK
<1>9. spent[g] - Total(S) \in Int /\ today[g] - Total(S) \in Int
  BY <1>1, <1>6 DEF TypeOK
<1>10. TypeOK'
  <2>1. life' \in [AuthIds -> Lifecycle]
    BY <1>1, <1>2, SweptType DEF TypeOK
  <2>2. spent' \in [Grants -> Int] /\ today' \in [Grants -> Int]
    BY <1>1, <1>2, <1>9 DEF TypeOK
  <2> QED
    BY <1>1, <1>2, <2>1, <2>2 DEF TypeOK
<1>11. BooksBalance'
  <2>1. PICK b \in AuthIds : b \in S
    BY <1>2, <1>5
  <2>2. \A i \in Grants \ {g} : HeldBy(i)' = HeldBy(i)
    BY <1>2, <1>3, <1>8 DEF HeldBy
  <2>3. HeldBy(g)' = HeldBy(g) \ S
    BY <1>2, <1>8 DEF HeldBy
  <2>4. spent' = [spent EXCEPT ![g] = (spent[g] - Total(S)) + 0]
    <3>1. (spent[g] - Total(S)) + 0 = spent[g] - Total(S)
      BY <1>9
    <3> QED
      BY <1>2, <3>1
  <2>5. spent \in [Grants -> Int] /\ BooksBalance
    BY <1>1 DEF TypeOK
  <2>6. \A x \in AuthIds : life[x].reserved => life'[x].amount = life[x].amount
    BY <1>8
  <2> QED
    BY <1>5, <2>1, <2>2, <2>3, <2>4, <2>5, <2>6, BooksMove
<1>12. BudgetBound'
  <2>1. ASSUME NEW i \in Grants, policy[i] # None
        PROVE  spent'[i] <= policy[i].budget + lateHeld[i]
    <3>1. policy[i] \in PolicyRecord
      BY <1>1, <2>1, AuthorityAssumption DEF TypeOK
    <3>2. policy[i].budget \in Nat /\ lateHeld[i] \in Nat /\ spent[i] \in Int
      BY <1>1, <3>1 DEF TypeOK, PolicyRecord
    <3>3. spent[i] <= policy[i].budget + lateHeld[i]
      BY <1>1, <2>1 DEF BudgetBound
    <3>4. CASE i = g
      <4>1. spent'[i] = spent[i] - Total(S)
        BY <1>1, <1>2, <3>4 DEF TypeOK
      <4> QED
        BY <1>6, <3>2, <3>3, <4>1
    <3>5. CASE i # g
      BY <1>1, <1>2, <3>3, <3>5 DEF TypeOK
    <3> QED
      BY <3>4, <3>5
  <2> QED
    BY <1>2, <2>1 DEF BudgetBound
<1>13. OutcomeMatchesHold'
  BY <1>1, <1>4, <1>8 DEF OutcomeMatchesHold, settled, failed
<1>14. Shape' /\ OverrunMeansLate'
  BY <1>1, <1>2, <1>8 DEF Shape, OverrunMeansLate, TypeOK
<1> QED
  BY <1>10, <1>11, <1>12, <1>13, <1>14 DEF IInv

\* What the three reports have in common: authorization a becomes s, with the
\* decision and the amount kept, the hold as the outcome says, and the folds
\* moved by the change of the hold.
Reported(a, s, back, again) ==
  /\ life[a].decision = "ALLOW" /\ s.decision = "ALLOW" /\ s.amount = life[a].amount
  /\ s.outcome = "settled" => s.reserved
  /\ s.outcome = "failed" => ~s.reserved
  /\ \/ s.reserved = life[a].reserved /\ back = 0 /\ again = 0
     \/ life[a].reserved /\ ~s.reserved /\ back = life[a].amount /\ again = 0
     \/ ~life[a].reserved /\ s.reserved /\ back = 0 /\ again = life[a].amount
  /\ life' = [life EXCEPT ![a] = s]
  /\ spent' = [spent EXCEPT ![req[a].grant] = (@ - back) + again]
  /\ today' = [today EXCEPT ![req[a].grant] = (@ - back) + again]
  /\ lateHeld' = [lateHeld EXCEPT ![req[a].grant] = @ + again]
  /\ UNCHANGED <<clock, policy, req, pending>>

\* A report preserves the invariant.
LEMMA ReportPreserves ==
  ASSUME IInv, NEW a \in AuthIds, NEW s \in Lifecycle, NEW back \in Nat, NEW again \in Nat,
         Reported(a, s, back, again)
  PROVE  IInv'
<1>1. TypeOK /\ Shape /\ OutcomeMatchesHold /\ BooksBalance /\ BudgetBound /\ OverrunMeansLate
  BY DEF IInv
<1>2. /\ life[a].decision = "ALLOW" /\ s.decision = "ALLOW" /\ s.amount = life[a].amount
      /\ s.outcome = "settled" => s.reserved
      /\ s.outcome = "failed" => ~s.reserved
      /\ UNCHANGED <<clock, policy, req, pending>>
  BY DEF Reported
<1>3. PICK g \in Grants : g = req[a].grant
  BY <1>1, <1>2 DEF Shape
<1>4. /\ life' = [life EXCEPT ![a] = s]
      /\ spent' = [spent EXCEPT ![g] = (spent[g] - back) + again]
      /\ today' = [today EXCEPT ![g] = (today[g] - back) + again]
      /\ lateHeld' = [lateHeld EXCEPT ![g] = lateHeld[g] + again]
  BY <1>3 DEF Reported
<1>5. spent[g] \in Int /\ today[g] \in Int /\ lateHeld[g] \in Nat
  BY <1>1, <1>3 DEF TypeOK
<1>6. /\ (spent[g] - back) + again \in Int /\ (today[g] - back) + again \in Int
      /\ lateHeld[g] + again \in Nat
  BY <1>5
<1>7. life'[a] = s /\ \A x \in AuthIds \ {a} : life'[x] = life[x]
  BY <1>1, <1>4 DEF TypeOK
<1>8. TypeOK'
  <2>1. life' \in [AuthIds -> Lifecycle]
    BY <1>1, <1>4 DEF TypeOK
  <2>2. /\ spent' \in [Grants -> Int] /\ today' \in [Grants -> Int]
        /\ lateHeld' \in [Grants -> Nat]
    BY <1>1, <1>4, <1>6 DEF TypeOK
  <2> QED
    BY <1>1, <1>2, <2>1, <2>2 DEF TypeOK
<1>9. BooksBalance'
  <2>1. \A x \in AuthIds : life[x].reserved => life'[x].amount = life[x].amount
    BY <1>2, <1>7
  <2>2. \A i \in Grants \ {g} : HeldBy(i)' = HeldBy(i)
    BY <1>2, <1>3, <1>7 DEF HeldBy
  <2>3. spent \in [Grants -> Int] /\ BooksBalance
    BY <1>1 DEF TypeOK
  <2>4. Total({}) = 0 /\ Total({a}) = life[a].amount
    <3>1. amountOf[a] = life[a].amount
      BY DEF amountOf
    <3>2. amountOf[a] \in 0..MaxAmount
      BY <1>1, <3>1 DEF Shape
    <3> QED
      BY <3>1, <3>2, SumEmpty, SumSingle DEF Total
  <2>5. CASE s.reserved = life[a].reserved /\ back = 0 /\ again = 0
    <3>1. HeldBy(g)' = HeldBy(g) \ {}
      BY <1>2, <1>7, <2>5 DEF HeldBy
    <3>2. (spent[g] - back) + again = (spent[g] - Total({})) + 0
      BY <1>5, <2>4, <2>5
    <3>3. spent' = [spent EXCEPT ![g] = (spent[g] - Total({})) + 0]
      BY <1>4, <3>2
    <3> QED
      BY <1>3, <2>1, <2>2, <2>3, <3>1, <3>3, BooksMove
  <2>6. CASE life[a].reserved /\ ~s.reserved /\ back = life[a].amount /\ again = 0
    <3>1. HeldBy(g)' = HeldBy(g) \ {a} /\ {a} \in SUBSET HeldBy(g)
      BY <1>2, <1>3, <1>7, <2>6 DEF HeldBy
    <3>2. spent' = [spent EXCEPT ![g] = (spent[g] - Total({a})) + 0]
      BY <1>4, <2>4, <2>6
    <3> QED
      BY <1>3, <2>1, <2>2, <2>3, <3>1, <3>2, BooksMove
  <2>7. CASE ~life[a].reserved /\ s.reserved /\ back = 0 /\ again = life[a].amount
    <3>1. HeldBy(g)' = (HeldBy(g) \ {}) \cup {a} /\ a \notin HeldBy(g)
      BY <1>2, <1>3, <1>7, <2>7 DEF HeldBy
    <3>2. spent' = [spent EXCEPT ![g] = (spent[g] - Total({})) + again]
      BY <1>4, <2>4, <2>7
    <3>3. life'[a].amount \in 0..MaxAmount /\ again = life'[a].amount
      BY <1>1, <1>2, <1>7, <2>7 DEF Shape
    <3> QED
      BY <1>3, <2>1, <2>2, <2>3, <3>1, <3>2, <3>3, BooksMove
  <2>8. \/ s.reserved = life[a].reserved /\ back = 0 /\ again = 0
        \/ life[a].reserved /\ ~s.reserved /\ back = life[a].amount /\ again = 0
        \/ ~life[a].reserved /\ s.reserved /\ back = 0 /\ again = life[a].amount
    BY DEF Reported
  <2> QED
    BY <2>5, <2>6, <2>7, <2>8
<1>10. BudgetBound'
  <2>1. ASSUME NEW i \in Grants, policy[i] # None
        PROVE  spent'[i] <= policy[i].budget + lateHeld'[i]
    <3>1. policy[i] \in PolicyRecord
      BY <1>1, <2>1, AuthorityAssumption DEF TypeOK
    <3>2. policy[i].budget \in Nat /\ lateHeld[i] \in Nat /\ spent[i] \in Int
      BY <1>1, <3>1 DEF TypeOK, PolicyRecord
    <3>3. spent[i] <= policy[i].budget + lateHeld[i]
      BY <1>1, <2>1 DEF BudgetBound
    <3>4. CASE i = g
      <4>1. spent'[i] = (spent[i] - back) + again /\ lateHeld'[i] = lateHeld[i] + again
        BY <1>1, <1>4, <3>4 DEF TypeOK
      <4> QED
        BY <3>2, <3>3, <4>1
    <3>5. CASE i # g
      BY <1>1, <1>4, <3>3, <3>5 DEF TypeOK
    <3> QED
      BY <3>4, <3>5
  <2> QED
    BY <1>2, <2>1 DEF BudgetBound
<1>11. OverrunMeansLate'
  <2>1. ASSUME NEW x \in AuthIds, req[x].reason = "GRANT_OVERRUN"
        PROVE  lateHeld'[req[x].grant] > 0
    <3>1. lateHeld[req[x].grant] > 0
      BY <1>1, <2>1 DEF OverrunMeansLate
    <3>2. CASE req[x].grant = g
      <4>1. lateHeld'[g] = lateHeld[g] + again
        BY <1>1, <1>4, <1>3 DEF TypeOK
      <4> QED
        BY <1>5, <3>1, <3>2, <4>1
    <3>3. CASE req[x].grant # g
      BY <1>1, <1>4, <3>1, <3>3 DEF TypeOK
    <3> QED
      BY <3>2, <3>3
  <2> QED
    BY <1>2, <2>1 DEF OverrunMeansLate
<1>12. OutcomeMatchesHold'
  <2>1. ASSUME NEW x \in AuthIds
        PROVE  /\ life'[x].outcome = "settled" => life'[x].reserved
               /\ life'[x].outcome = "failed" => ~life'[x].reserved
               /\ life'[x].decision # "ALLOW" =>
                    ~life'[x].reserved /\ life'[x].outcome = "none"
    BY <1>1, <1>2, <1>7 DEF OutcomeMatchesHold, settled, failed
  <2> QED
    BY <2>1 DEF OutcomeMatchesHold, settled, failed
<1>13. Shape'
  <2>1. life'[a].amount \in 0..MaxAmount /\ life'[a].decision = "ALLOW"
    BY <1>1, <1>2, <1>7 DEF Shape
  <2>2. a \notin pending
    BY <1>1, <1>2 DEF Shape
  <2> QED
    BY <1>1, <1>2, <1>3, <1>7, <2>1, <2>2 DEF Shape, TypeOK
<1> QED
  BY <1>8, <1>9, <1>10, <1>11, <1>12, <1>13 DEF IInv

\* A `submitted` report moves no money.
LEMMA SubmittedReports ==
  ASSUME TypeOK, NEW a \in AuthIds, NEW reporter \in Reporters, ReportSubmitted(a, reporter),
         OutcomeMatchesHold, req[a].grant \in Grants
  PROVE  \E s \in Lifecycle : Reported(a, s, 0, 0)
<1> DEFINE s == onSubmission(life[a], reporter, clock + GRACE)
<1>1. life[a] \in Lifecycle /\ clock + GRACE \in Nat
  BY AuthorityAssumption DEF TypeOK
<1>2. s \in Lifecycle
  BY <1>1, EventTypes
<1>3. /\ s.decision = life[a].decision /\ s.amount = life[a].amount
      /\ s.reserved = life[a].reserved /\ s.outcome = "submitted"
  BY <1>1 DEF onSubmission, Lifecycle
<1>4. /\ life[a].decision = "ALLOW"
      /\ life' = [life EXCEPT ![a] = s]
      /\ UNCHANGED <<clock, policy, req, spent, today, pending, lateHeld>>
  BY DEF ReportSubmitted, mayReport
<1> HIDE DEF s
<1>5. PICK g \in Grants : g = req[a].grant
  OBVIOUS
<1>6. (spent[g] - 0) + 0 = spent[g] /\ (today[g] - 0) + 0 = today[g] /\ lateHeld[g] + 0 = lateHeld[g]
  BY DEF TypeOK
<1>7. /\ spent' = [spent EXCEPT ![g] = (spent[g] - 0) + 0]
      /\ today' = [today EXCEPT ![g] = (today[g] - 0) + 0]
      /\ lateHeld' = [lateHeld EXCEPT ![g] = lateHeld[g] + 0]
  BY <1>4, <1>6 DEF TypeOK
<1>8. Reported(a, s, 0, 0)
  BY <1>3, <1>4, <1>5, <1>7 DEF Reported
<1> QED
  BY <1>2, <1>8

\* A `failed` report gives back what still stands, once.
LEMMA FailedReports ==
  ASSUME TypeOK, NEW a \in AuthIds, NEW reporter \in Reporters, ReportFailed(a, reporter),
         req[a].grant \in Grants
  PROVE  \E s \in Lifecycle, back \in Nat : Reported(a, s, back, 0)
<1> DEFINE s == onSettlement(onReversal(life[a]), "failed", reporter, FALSE)
           back == refund(life[a])
<1>1. life[a] \in Lifecycle
  BY DEF TypeOK
<1>2. onReversal(life[a]) \in Lifecycle
  BY <1>1 DEF onReversal, Lifecycle
<1>3. s \in Lifecycle
  BY <1>2, EventTypes
<1>4. s.outcome = "failed"
  BY <1>2 DEF onSettlement, Lifecycle
<1>5. s.decision = life[a].decision /\ s.amount = life[a].amount /\ ~s.reserved
  <2>1. LET t == onReversal(life[a])
        IN  t.decision = life[a].decision /\ t.amount = life[a].amount /\ ~t.reserved
    BY <1>1, ReversalFields
  <2> QED
    BY <1>2, <2>1 DEF onSettlement, Lifecycle
<1>6. back \in Nat
  BY <1>1 DEF refund, Lifecycle
<1>7. /\ life[a].decision = "ALLOW"
      /\ life' = [life EXCEPT ![a] = s]
      /\ spent' = [spent EXCEPT ![req[a].grant] = @ - back]
      /\ today' = [today EXCEPT ![req[a].grant] = @ - back]
      /\ UNCHANGED <<clock, policy, req, pending, lateHeld>>
  BY DEF ReportFailed, mayReport
<1>8. \/ life[a].reserved /\ back = life[a].amount
      \/ ~life[a].reserved /\ back = 0
  BY DEF refund
<1> HIDE DEF s, back
<1>9. PICK g \in Grants : g = req[a].grant
  OBVIOUS
<1>10. /\ (spent[g] - back) + 0 = spent[g] - back
       /\ (today[g] - back) + 0 = today[g] - back
       /\ lateHeld[g] + 0 = lateHeld[g]
  BY <1>6 DEF TypeOK
<1>11. /\ spent' = [spent EXCEPT ![g] = (spent[g] - back) + 0]
       /\ today' = [today EXCEPT ![g] = (today[g] - back) + 0]
       /\ lateHeld' = [lateHeld EXCEPT ![g] = lateHeld[g] + 0]
  BY <1>7, <1>9, <1>10 DEF TypeOK
<1>12. \/ s.reserved = life[a].reserved /\ back = 0 /\ 0 = 0
       \/ life[a].reserved /\ ~s.reserved /\ back = life[a].amount /\ 0 = 0
  <2>1. s.reserved \in BOOLEAN /\ life[a].reserved \in BOOLEAN
    BY <1>1, <1>3 DEF Lifecycle
  <2> QED
    BY <1>5, <1>8, <2>1
<1>13. Reported(a, s, back, 0)
  BY <1>4, <1>5, <1>7, <1>9, <1>11, <1>12 DEF Reported
<1> QED
  BY <1>3, <1>6, <1>13

\* A `settled` report takes again what the TTL gave back, and nothing else.
LEMMA SettledReports ==
  ASSUME TypeOK, NEW a \in AuthIds, NEW reporter \in Reporters, ReportSettled(a, reporter),
         req[a].grant \in Grants
  PROVE  \E s \in Lifecycle, again \in Nat : Reported(a, s, 0, again)
<1> DEFINE isLate == ~life[a].reserved
           t == onReservation(life[a], 0, FALSE)
           s == onSettlement(t, "settled", reporter, isLate)
           again == retake(life[a])
<1>1. life[a] \in Lifecycle /\ isLate \in BOOLEAN
  BY DEF TypeOK, Lifecycle
<1>2. t \in Lifecycle
  BY <1>1, EventTypes
<1>3. t.decision = life[a].decision /\ t.amount = life[a].amount /\ t.reserved
  BY <1>1 DEF onReservation, Lifecycle
<1>4. s \in Lifecycle
  <2> HIDE DEF t, isLate
  <2> QED
    BY <1>1, <1>2, EventTypes
<1>5. s.outcome = "settled" /\ s.decision = life[a].decision /\ s.amount = life[a].amount /\ s.reserved
  <2> HIDE DEF t, isLate
  <2> QED
    BY <1>2, <1>3 DEF onSettlement, Lifecycle
<1>6. again \in Nat
  BY <1>1 DEF retake, Lifecycle
<1>7. /\ life[a].decision = "ALLOW"
      /\ life' = [life EXCEPT ![a] = s]
      /\ spent' = [spent EXCEPT ![req[a].grant] = @ + again]
      /\ today' = [today EXCEPT ![req[a].grant] = @ + again]
      /\ lateHeld' = [lateHeld EXCEPT ![req[a].grant] = @ + again]
      /\ UNCHANGED <<clock, policy, req, pending>>
  BY DEF ReportSettled, mayReport
<1>8. \/ life[a].reserved /\ again = 0
      \/ ~life[a].reserved /\ again = life[a].amount
  BY DEF retake
<1> HIDE DEF s, again
<1>9. PICK g \in Grants : g = req[a].grant
  OBVIOUS
<1>10. /\ (spent[g] - 0) + again = spent[g] + again
       /\ (today[g] - 0) + again = today[g] + again
  BY <1>6 DEF TypeOK
<1>11. /\ spent' = [spent EXCEPT ![g] = (spent[g] - 0) + again]
       /\ today' = [today EXCEPT ![g] = (today[g] - 0) + again]
       /\ lateHeld' = [lateHeld EXCEPT ![g] = lateHeld[g] + again]
  BY <1>7, <1>9, <1>10 DEF TypeOK
<1>12. \/ s.reserved = life[a].reserved /\ 0 = 0 /\ again = 0
       \/ ~life[a].reserved /\ s.reserved /\ 0 = 0 /\ again = life[a].amount
  <2>1. s.reserved \in BOOLEAN /\ life[a].reserved \in BOOLEAN
    BY <1>1, <1>4 DEF Lifecycle
  <2> QED
    BY <1>5, <1>8, <2>1
<1>13. Reported(a, s, 0, again)
  BY <1>5, <1>7, <1>9, <1>11, <1>12 DEF Reported
<1> QED
  BY <1>4, <1>6, <1>13

\* Minting a grant preserves the invariant: an unminted grant holds nothing.
LEMMA CreatePreserves ==
  ASSUME IInv, NEW g \in Grants, NEW p \in Policies, CreateGrant(g, p)
  PROVE  IInv'
<1>1. TypeOK /\ Shape /\ OutcomeMatchesHold /\ BooksBalance /\ BudgetBound /\ OverrunMeansLate
  BY DEF IInv
<1>2. /\ policy[g] = None
      /\ policy' = [policy EXCEPT ![g] = p]
      /\ UNCHANGED <<clock, life, req, spent, today, pending, lateHeld>>
  BY DEF CreateGrant
<1>3. TypeOK'
  BY <1>1, <1>2 DEF TypeOK
<1>4. policy'[g] = p /\ \A i \in Grants \ {g} : policy'[i] = policy[i]
  BY <1>1, <1>2 DEF TypeOK
<1>5. HeldBy(g) = {}
  BY <1>1, <1>2, AuthorityAssumption DEF HeldBy, Shape
<1>6. spent[g] = 0
  BY <1>1, <1>5, SumEmpty DEF BooksBalance, Total
<1>7. p.budget \in Nat /\ lateHeld[g] \in Nat
  BY <1>1, AuthorityAssumption DEF TypeOK, PolicyRecord
<1>8. BudgetBound'
  <2>1. spent[g] <= p.budget + lateHeld[g]
    BY <1>6, <1>7
  <2> QED
    BY <1>1, <1>2, <1>4, <2>1 DEF BudgetBound
<1>9. BooksBalance'
  BY <1>1, <1>2 DEF BooksBalance, HeldBy, Total, amountOf
<1>10. Shape'
  <2>1. \A i \in Grants : policy[i] # None => policy'[i] # None
    BY <1>2, <1>4
  <2> QED
    BY <1>1, <1>2, <2>1 DEF Shape
<1>11. OutcomeMatchesHold' /\ OverrunMeansLate'
  BY <1>1, <1>2 DEF OutcomeMatchesHold, OverrunMeansLate
<1> QED
  BY <1>3, <1>8, <1>9, <1>10, <1>11 DEF IInv

\* Neither time nor a stuttering step touches the books.
LEMMA TickPreserves ==
  ASSUME IInv, (\E t \in 1..MaxTime : Tick(t)) \/ UNCHANGED vars
  PROVE  IInv'
<1>1. TypeOK /\ Shape /\ OutcomeMatchesHold /\ BooksBalance /\ BudgetBound /\ OverrunMeansLate
  BY DEF IInv
<1>2. UNCHANGED <<policy, life, req, spent, pending, lateHeld>>
  BY DEF Tick, vars
<1>3. clock' \in Nat /\ today' \in [Grants -> Int]
  <2>1. CASE UNCHANGED vars
    BY <1>1, <2>1 DEF TypeOK, vars
  <2>2. CASE \E t \in 1..MaxTime : Tick(t)
    <3>1. PICK t \in 1..MaxTime : Tick(t)
      BY <2>2
    <3>2. t \in Nat
      BY AuthorityAssumption
    <3> QED
      BY <1>1, <3>1, <3>2 DEF TypeOK, Tick
  <2> QED
    BY <2>1, <2>2
<1>4. TypeOK'
  BY <1>1, <1>2, <1>3 DEF TypeOK
<1>5. BooksBalance'
  BY <1>1, <1>2 DEF BooksBalance, HeldBy, Total, amountOf
<1>6. Shape' /\ OutcomeMatchesHold' /\ BudgetBound' /\ OverrunMeansLate'
  BY <1>1, <1>2 DEF Shape, OutcomeMatchesHold, BudgetBound, OverrunMeansLate
<1> QED
  BY <1>4, <1>5, <1>6 DEF IInv

-----------------------------------------------------------------------------
(* The theorems. *)

\* Nothing is minted, held or pending at first.
LEMMA InitIInv == Init => IInv
<1> SUFFICES ASSUME Init PROVE IInv
  OBVIOUS
<1>1. TypeOK
  <2>1. NoState \in Lifecycle
    BY DEF NoState, Lifecycle, Decisions, Outcomes
  <2>2. NoRequest \in Request
    BY DEF NoRequest, Request
  <2> QED
    BY <2>1, <2>2 DEF Init, TypeOK
<1>2. Shape /\ OutcomeMatchesHold
  BY MoneyAssumption DEF Init, Shape, OutcomeMatchesHold, NoState, NoRequest, settled, failed
<1>3. \A g \in Grants : HeldBy(g) = {}
  BY DEF Init, HeldBy, NoState
<1>4. BooksBalance
  BY <1>3, SumEmpty DEF Init, BooksBalance, Total
<1>5. BudgetBound /\ OverrunMeansLate
  BY DEF Init, BudgetBound, OverrunMeansLate, NoRequest
<1> QED
  BY <1>1, <1>2, <1>4, <1>5 DEF IInv

\* The grant of an authorization that has a decision has been minted.
LEMMA GrantMinted ==
  ASSUME Shape, NEW a \in AuthIds, life[a].decision = "ALLOW"
  PROVE  req[a].grant \in Grants
BY DEF Shape

\* Every step preserves the inductive invariant.
LEMMA NextIInv == IInv /\ [Next]_vars => IInv'
<1> SUFFICES ASSUME IInv, [Next]_vars PROVE IInv'
  OBVIOUS
<1>1. TypeOK /\ Shape /\ OutcomeMatchesHold
  BY DEF IInv
<1>2. ASSUME NEW g \in Grants, NEW p \in Policies, CreateGrant(g, p) PROVE IInv'
  BY <1>2, CreatePreserves
<1>3. ASSUME NEW g \in Grants, NEW k \in Keys, NEW amount \in Amounts,
             NEW currency, NEW category, NEW later,
             Authorize(g, k, amount, currency, category, later)
      PROVE  IInv'
  <2>1. policy[g] # None
    BY <1>3 DEF Authorize
  <2>2. PICK a \in AuthIds, d \in {"ALLOW", "DENY", "ESCALATE"},
             reason \in Reasons \cup {"APPROVAL_REQUIRED"} :
          /\ Recorded(g, expiredReservations(g), a, d, amount, clock + TTL, TRUE,
                      k, None, reason)
          /\ pending' = IF d = "ESCALATE" THEN pending \cup {a} ELSE pending
    <3>1. SweptAndRecorded(g, k, amount)
      BY <1>1, <1>3, AuthorizeRecords
    <3> QED
      BY <3>1 DEF SweptAndRecorded
  <2>3. PICK n \in Nat, S \in SUBSET {x \in AuthIds : req[x].grant = g /\ sweepable(life[x])} :
          n = clock + TTL /\ S = expiredReservations(g)
    BY <1>1, SweepOfGrant, AuthorityAssumption DEF TypeOK
  <2>4. amount \in 0..MaxAmount
    BY AuthorityAssumption, MoneyAssumption
  <2>5. \A x \in pending' : x \in pending \/ (x = a /\ d = "ESCALATE")
    BY <2>2
  <2>6. Recorded(g, S, a, d, amount, n, TRUE, k, None, reason)
    BY <2>2, <2>3
  <2>7. /\ k \in Keys \cup {None} /\ None \in AuthIds \cup {None}
        /\ reason \in Reasons \cup
             {"APPROVAL_REQUIRED", "DENIED_BY_APPROVER", "APPROVED_BY_HUMAN"}
    BY <2>2
  <2> QED
    BY <2>1, <2>4, <2>5, <2>6, <2>7, RecordedPreserves
<1>4. ASSUME NEW g \in Grants, AuthorizeFails(g) PROVE IInv'
  BY <1>4, SweepPreserves
<1>5. ASSUME NEW a \in AuthIds, NEW later, Deny(a) \/ Approve(a, later) PROVE IInv'
  <2>1. a \in pending /\ req[a].grant \in Grants /\ policy[req[a].grant] # None
    BY <1>1, <1>5, ApprovalRecords
  <2>2. PICK d \in {"ALLOW", "DENY"},
             reason \in Reasons \cup {"DENIED_BY_APPROVER", "APPROVED_BY_HUMAN"} :
          /\ Resolve(a, d, reason)
          /\ d = "ALLOW" =>
               spent[req[a].grant] + life[a].amount <= policy[req[a].grant].budget
          /\ reason = "GRANT_OVERRUN" => spent[req[a].grant] > policy[req[a].grant].budget
    BY <1>1, <1>5, ApprovalRecords
  <2>3. /\ \E b \in AuthIds : Recorded(req[a].grant, {}, b, d, life[a].amount,
                                       clock + ApprovalTTL, FALSE, None, a, reason)
        /\ pending' = pending \ {a}
    BY <1>1, <2>1, <2>2, ResolveRecords
  <2>4. PICK b \in AuthIds : Recorded(req[a].grant, {}, b, d, life[a].amount,
                                      clock + ApprovalTTL, FALSE, None, a, reason)
    BY <2>3
  <2>5. life[a].amount \in 0..MaxAmount /\ clock + ApprovalTTL \in Nat
    BY <1>1, AuthorityAssumption DEF TypeOK, Shape
  <2>6. \A x \in pending' : x \in pending
    BY <2>3
  <2> QED
    BY <2>1, <2>4, <2>5, <2>6, RecordedPreserves
<1>6. ASSUME NEW a \in AuthIds, ReportStep(a) PROVE IInv'
  <2>1. PICK reporter \in Reporters :
          \/ ReportSubmitted(a, reporter)
          \/ ReportSettled(a, reporter)
          \/ ReportFailed(a, reporter)
    BY <1>6 DEF ReportStep
  <2>2. req[a].grant \in Grants
    BY <1>1, <2>1, GrantMinted
       DEF ReportSubmitted, ReportSettled, ReportFailed, mayReport
  <2>3. \E s \in Lifecycle, back \in Nat, again \in Nat : Reported(a, s, back, again)
    <3>1. CASE ReportSubmitted(a, reporter)
      <4>1. \E s \in Lifecycle : Reported(a, s, 0, 0)
        BY <1>1, <2>2, <3>1, SubmittedReports
      <4> QED
        BY <4>1
    <3>2. CASE ReportSettled(a, reporter)
      <4>1. \E s \in Lifecycle, again \in Nat : Reported(a, s, 0, again)
        BY <1>1, <2>2, <3>2, SettledReports
      <4> QED
        BY <4>1
    <3>3. CASE ReportFailed(a, reporter)
      <4>1. \E s \in Lifecycle, back \in Nat : Reported(a, s, back, 0)
        BY <1>1, <2>2, <3>3, FailedReports
      <4> QED
        BY <4>1
    <3> QED
      BY <2>1, <3>1, <3>2, <3>3
  <2> QED
    BY <2>3, ReportPreserves
<1>7. CASE (\E t \in 1..MaxTime : Tick(t)) \/ UNCHANGED vars
  BY <1>7, TickPreserves
<1> QED
  BY <1>2, <1>3, <1>4, <1>5, <1>6, <1>7 DEF Next, AuthorizeStep

\* The inductive invariant holds of every behaviour.
LEMMA AlwaysIInv == Spec => []IInv
<1> QED
  BY InitIInv, NextIInv, PTL DEF Spec

\* Every reachable state is well typed (core/rail.js, core/replay.js).
THEOREM TypeCorrect == Spec => []TypeOK
<1>1. IInv => TypeOK
  BY DEF IInv
<1> QED
  BY <1>1, AlwaysIInv, PTL

\* The running balance is the sum of the standing holds, for any number of
\* grants, requests, sweeps, reports and clock jumps (core/rail.js
\* reportEvents, core/replay.js).
THEOREM Balanced == Spec => []BooksBalance
<1>1. IInv => BooksBalance
  BY DEF IInv
<1> QED
  BY <1>1, AlwaysIInv, PTL

\* A grant is never past its budget but by what late settlements re-reserved
\* (api/authorize.js, api/settlements.js).
THEOREM Bounded == Spec => []BudgetBound
<1>1. IInv => BudgetBound
  BY DEF IInv
<1> QED
  BY <1>1, AlwaysIInv, PTL

\* GRANT_OVERRUN is answered only where a late settlement has re-reserved
\* (core/agent-view.js decide).
THEOREM OverrunExplained == Spec => []OverrunMeansLate
<1>1. IInv => OverrunMeansLate
  BY DEF IInv
<1> QED
  BY <1>1, AlwaysIInv, PTL

\* A settled spend stands and a failed one does not; only an ALLOW ever holds
\* budget (core/rail.js railState).
THEOREM OutcomesAgree == Spec => []OutcomeMatchesHold
<1>1. IInv => OutcomeMatchesHold
  BY DEF IInv
<1> QED
  BY <1>1, AlwaysIInv, PTL

-----------------------------------------------------------------------------
(* What one step can do to one authorization. *)

Changed(x) ==
  \/ life'[x] = life[x]
  \/ life[x].decision = "none" /\ (life'[x].decision = "ALLOW" =>
       spent'[req'[x].grant] <= policy[req'[x].grant].budget)
  \/ expired(life[x], clock) /\ life'[x] = onReversal(life[x])
  \/ \E r \in Reporters : ReportSubmitted(x, r) \/ ReportSettled(x, r) \/ ReportFailed(x, r)

\* A recorded decision is the fresh id's, and the sweep took only what expired.
LEMMA RecordedChanges ==
  ASSUME IInv, NEW g \in Grants, policy[g] # None, NEW S, NEW a \in AuthIds,
         S \subseteq expiredReservations(g),
         NEW d \in {"ALLOW", "DENY", "ESCALATE"}, NEW amount \in Nat, NEW n \in Nat,
         NEW h \in BOOLEAN, NEW k, NEW p, NEW reason,
         Recorded(g, S, a, d, amount, n, h, k, p, reason), NEW x \in AuthIds
  PROVE  Changed(x)
<1>1. TypeOK
  BY DEF IInv
<1>2. CASE x # a
  <2>1. life'[x] = swept(S)[x]
    BY <1>1, <1>2 DEF Recorded, swept, TypeOK
  <2>2. x \in S => expired(life[x], clock)
    BY DEF expiredReservations
  <2> QED
    BY <2>1, <2>2 DEF swept, Changed
<1>3. CASE x = a
  <2>1. life[x].decision = "none"
    BY <1>3 DEF Recorded, Fresh
  <2>2. life'[x] = decided(d, amount, n, h)
    BY <1>1, <1>3 DEF Recorded, swept, TypeOK
  <2>3. life'[x].decision = d
    BY <2>2, DecidedRecord
  <2>4. req'[x].grant = g
    BY <1>1, <1>3 DEF Recorded, TypeOK
  <2>5. spent'[g] = (spent[g] - Total(S)) + reservedBy(d, amount)
    BY <1>1 DEF Recorded, TypeOK
  <2>6. d = "ALLOW" => spent'[g] <= policy[g].budget
    BY <2>5 DEF Recorded, reservedBy
  <2> QED
    BY <2>1, <2>3, <2>4, <2>6 DEF Changed
<1> QED
  BY <1>2, <1>3

\* Every step does one of those things to each authorization.
LEMMA StepChanges ==
  ASSUME IInv, Next, NEW x \in AuthIds
  PROVE  Changed(x)
<1>1. TypeOK /\ Shape
  BY DEF IInv
<1>2. ASSUME NEW g \in Grants, NEW p \in Policies, CreateGrant(g, p) PROVE Changed(x)
  BY <1>2 DEF CreateGrant, Changed
<1>3. ASSUME NEW g \in Grants, NEW k \in Keys, NEW amount \in Amounts,
             NEW currency, NEW category, NEW later,
             Authorize(g, k, amount, currency, category, later)
      PROVE  Changed(x)
  <2>1. policy[g] # None
    BY <1>3 DEF Authorize
  <2>2. SweptAndRecorded(g, k, amount)
    BY <1>1, <1>3, AuthorizeRecords
  <2>3. PICK a \in AuthIds, d \in {"ALLOW", "DENY", "ESCALATE"},
             reason \in Reasons \cup {"APPROVAL_REQUIRED"} :
          Recorded(g, expiredReservations(g), a, d, amount, clock + TTL, TRUE,
                   k, None, reason)
    BY <2>2 DEF SweptAndRecorded
  <2>a. expiredReservations(g) \in SUBSET AuthIds /\ clock + TTL \in Nat
    BY <1>1, AuthorityAssumption DEF TypeOK, expiredReservations
  <2>4. PICK n \in Nat, S \in SUBSET AuthIds : n = clock + TTL /\ S = expiredReservations(g)
    BY <2>a
  <2>5. amount \in Nat
    BY AuthorityAssumption, MoneyAssumption
  <2>6. Recorded(g, S, a, d, amount, n, TRUE, k, None, reason) /\ S \subseteq expiredReservations(g)
    BY <2>3, <2>4
  <2> QED
    BY <2>1, <2>5, <2>6, RecordedChanges
<1>4. ASSUME NEW g \in Grants, AuthorizeFails(g) PROVE Changed(x)
  <2>1. life'[x] = swept(expiredReservations(g))[x]
    BY <1>4 DEF AuthorizeFails
  <2> QED
    BY <2>1 DEF swept, expiredReservations, Changed
<1>5. ASSUME NEW a \in AuthIds, NEW later, Deny(a) \/ Approve(a, later) PROVE Changed(x)
  <2>1. a \in pending /\ req[a].grant \in Grants /\ policy[req[a].grant] # None
    BY <1>1, <1>5, ApprovalRecords
  <2>2. PICK d \in {"ALLOW", "DENY"},
             reason \in Reasons \cup {"DENIED_BY_APPROVER", "APPROVED_BY_HUMAN"} :
          /\ Resolve(a, d, reason)
          /\ d = "ALLOW" =>
               spent[req[a].grant] + life[a].amount <= policy[req[a].grant].budget
          /\ reason = "GRANT_OVERRUN" => spent[req[a].grant] > policy[req[a].grant].budget
    BY <1>1, <1>5, ApprovalRecords
  <2>3. PICK b \in AuthIds : Recorded(req[a].grant, {}, b, d, life[a].amount,
                                      clock + ApprovalTTL, FALSE, None, a, reason)
    BY <1>1, <2>1, <2>2, ResolveRecords
  <2>4. life[a].amount \in Nat /\ clock + ApprovalTTL \in Nat
    BY <1>1, AuthorityAssumption DEF TypeOK, Lifecycle
  <2> QED
    BY <2>1, <2>3, <2>4, RecordedChanges
<1>6. ASSUME NEW a \in AuthIds, ReportStep(a) PROVE Changed(x)
  <2>1. PICK reporter \in Reporters :
          \/ ReportSubmitted(a, reporter)
          \/ ReportSettled(a, reporter)
          \/ ReportFailed(a, reporter)
    BY <1>6 DEF ReportStep
  <2>2. CASE x = a
    BY <2>1, <2>2 DEF Changed
  <2>3. CASE x # a
    BY <1>1, <2>1, <2>3 DEF ReportSubmitted, ReportSettled, ReportFailed, Changed, TypeOK
  <2> QED
    BY <2>2, <2>3
<1>7. ASSUME NEW t \in 1..MaxTime, Tick(t) PROVE Changed(x)
  BY <1>7 DEF Tick, Changed
<1> QED
  BY <1>2, <1>3, <1>4, <1>5, <1>6, <1>7 DEF Next, AuthorizeStep

\* What a report does to the authorization it is about.
LEMMA ReportChanges ==
  ASSUME TypeOK, NEW x \in AuthIds, NEW r \in Reporters,
         ReportSubmitted(x, r) \/ ReportSettled(x, r) \/ ReportFailed(x, r)
  PROVE  /\ ~terminal(life[x]) /\ life'[x].decision = life[x].decision
         /\ life[x].reserved /\ ~life'[x].reserved =>
              failed(life'[x]) /\ life'[x].reportedBy = "rail"
         /\ life'[x].deadline >= life[x].deadline
<1>1. life[x] \in Lifecycle /\ clock + GRACE \in Nat
  BY AuthorityAssumption DEF TypeOK
<1>2. ~terminal(life[x])
  BY DEF ReportSubmitted, ReportSettled, ReportFailed, mayReport
<1>3. life[x].deadline \in Nat
  BY <1>1 DEF Lifecycle
<1>4. CASE ReportSubmitted(x, r)
  <2>1. life'[x] = onSubmission(life[x], r, clock + GRACE)
    BY <1>4 DEF ReportSubmitted, TypeOK
  <2>2. /\ life'[x].decision = life[x].decision /\ life'[x].reserved = life[x].reserved
        /\ life'[x].deadline >= life[x].deadline
    BY <1>1, <1>3, <2>1 DEF onSubmission, Lifecycle
  <2> QED
    BY <1>2, <2>2
<1>5. CASE ReportSettled(x, r)
  <2> DEFINE t == onReservation(life[x], 0, FALSE)
  <2>1. t \in Lifecycle
    BY <1>1, EventTypes
  <2>2. t.decision = life[x].decision /\ t.reserved /\ t.deadline = life[x].deadline
    BY <1>1 DEF onReservation, Lifecycle
  <2>3. life'[x] = onSettlement(t, "settled", r, ~life[x].reserved)
    BY <1>5 DEF ReportSettled, TypeOK
  <2> HIDE DEF t
  <2>4. /\ life'[x].decision = t.decision /\ life'[x].reserved
        /\ life'[x].deadline = t.deadline
    BY <2>1, <2>3 DEF onSettlement, Lifecycle
  <2> QED
    BY <1>2, <1>3, <2>2, <2>4
<1>6. CASE ReportFailed(x, r)
  <2> DEFINE t == onReversal(life[x])
  <2>1. t \in Lifecycle
    BY <1>1 DEF onReversal, Lifecycle
  <2>2. t.decision = life[x].decision /\ t.deadline = life[x].deadline
    BY <1>1, ReversalFields
  <2>3. life'[x] = onSettlement(t, "failed", r, FALSE)
    BY <1>6 DEF ReportFailed, TypeOK
  <2>4. r = "rail"
    BY <1>6 DEF ReportFailed, mayReport, MAY_REPORT
  <2> HIDE DEF t
  <2>5. /\ life'[x].decision = t.decision /\ failed(life'[x])
        /\ life'[x].deadline = t.deadline /\ life'[x].reportedBy = r
    BY <2>1, <2>3 DEF onSettlement, Lifecycle, failed
  <2> QED
    BY <1>2, <1>3, <2>2, <2>4, <2>5
<1> QED
  BY <1>4, <1>5, <1>6

\* The four action properties, of one authorization.
LEMMA ChangeIsSafe ==
  ASSUME TypeOK, OutcomeMatchesHold, NEW x \in AuthIds, Changed(x)
  PROVE  /\ terminal(life[x]) => life'[x] = life[x]
         /\ life[x].reserved /\ ~life'[x].reserved =>
              \/ life[x].deadline < clock
              \/ failed(life'[x]) /\ life'[x].reportedBy = "rail"
         /\ life[x].reserved /\ life'[x].reserved => life'[x].deadline >= life[x].deadline
         /\ life[x].decision = "none" /\ life'[x].decision = "ALLOW" =>
              spent'[req'[x].grant] <= policy[req'[x].grant].budget
<1>1. life[x] \in Lifecycle /\ life[x].deadline \in Nat /\ clock \in Nat
  BY DEF TypeOK, Lifecycle
<1>2. life[x].decision # "ALLOW" => ~life[x].reserved /\ ~terminal(life[x])
  BY DEF OutcomeMatchesHold, terminal, settled, failed
<1>3. CASE life'[x] = life[x]
  BY <1>1, <1>3
<1>4. CASE /\ life[x].decision = "none"
           /\ life'[x].decision = "ALLOW" =>
                spent'[req'[x].grant] <= policy[req'[x].grant].budget
  BY <1>2, <1>4
<1>5. CASE expired(life[x], clock) /\ life'[x] = onReversal(life[x])
  <2>1. ~terminal(life[x]) /\ life[x].deadline < clock /\ life[x].reserved
    BY <1>1, <1>5 DEF expired, sweepable, terminal
  <2>2. life'[x].decision = life[x].decision /\ ~life'[x].reserved
    BY <1>1, <1>5, ReversalFields
  <2> QED
    BY <1>2, <2>1, <2>2
<1>6. CASE \E r \in Reporters :
             ReportSubmitted(x, r) \/ ReportSettled(x, r) \/ ReportFailed(x, r)
  <2>1. /\ ~terminal(life[x]) /\ life'[x].decision = life[x].decision
        /\ life[x].reserved /\ ~life'[x].reserved =>
             failed(life'[x]) /\ life'[x].reportedBy = "rail"
        /\ life'[x].deadline >= life[x].deadline
    BY <1>6, ReportChanges
  <2> QED
    BY <2>1
<1> QED
  BY <1>3, <1>4, <1>5, <1>6 DEF Changed

\* Every step, stuttering ones included, has the four properties.
LEMMA StepIsSafe ==
  IInv /\ [Next]_vars => FinalStep /\ ReleaseStep /\ DeadlineStep /\ AllowStep
<1> SUFFICES ASSUME IInv, [Next]_vars
             PROVE  FinalStep /\ ReleaseStep /\ DeadlineStep /\ AllowStep
  OBVIOUS
<1>1. TypeOK /\ OutcomeMatchesHold
  BY DEF IInv
<1>2. ASSUME NEW x \in AuthIds PROVE Changed(x)
  <2>1. CASE Next
    BY <2>1, StepChanges
  <2>2. CASE UNCHANGED vars
    BY <2>2 DEF vars, Changed
  <2> QED
    BY <2>1, <2>2
<1> QED
  BY <1>1, <1>2, ChangeIsSafe DEF FinalStep, ReleaseStep, DeadlineStep, AllowStep

\* Settled and failed are final (api/settlements.js terminal one-shot, the
\* sweep's settled/failed guards in core/rail.js).
THEOREM Final == Spec => TerminalIsFinal
<1> QED
  BY AlwaysIInv, StepIsSafe, PTL DEF Spec, TerminalIsFinal

\* Only a passed deadline or the rail's `failed` releases a hold
\* (api/settlements.js MAY_REPORT, api/authorize.js expiredReservations).
THEOREM Released == Spec => OnlyRailOrTTLReleases
<1> QED
  BY AlwaysIInv, StepIsSafe, PTL DEF Spec, OnlyRailOrTTLReleases

\* A report never shortens a standing hold (core/rail.js railState).
THEOREM DeadlineKept == Spec => DeadlineNeverShrinks
<1> QED
  BY AlwaysIInv, StepIsSafe, PTL DEF Spec, DeadlineNeverShrinks

\* No ALLOW takes its grant past its budget (api/authorize.js, api/approvals.js).
THEOREM AllowFits == Spec => AllowFitsBudget
<1> QED
  BY AlwaysIInv, StepIsSafe, PTL DEF Spec, AllowFitsBudget

-----------------------------------------------------------------------------
(* An escalation and its resolution. *)

\* A resolution is recorded with the escalation it descends from, and an id
\* nothing is recorded under descends from none.
Descent ==
  /\ OneResolution
  /\ \A a \in AuthIds : life[a].decision = "none" => req[a].parent = None
  /\ \A a \in AuthIds : req[a].parent # None =>
       req[a].parent \in AuthIds /\ life[req[a].parent].decision = "ESCALATE"

\* An authorization keeps its decision and its parent.
Same(x) == life'[x].decision = life[x].decision /\ req'[x].parent = req[x].parent

\* The step records decision d under the fresh id a: a new request, or the
\* resolution of a pending escalation.
Descends(a, d, p) ==
  /\ life[a].decision = "none" /\ life'[a].decision = d /\ req'[a].parent = p
  /\ \A x \in AuthIds \ {a} : Same(x)
  /\ \/ p = None /\ pending' = IF d = "ESCALATE" THEN pending \cup {a} ELSE pending
     \/ p \in pending /\ d # "ESCALATE" /\ pending' = pending \ {p}

\* The step records a as d, whatever else it records of it.
RecordedAs(a, d, p) ==
  \E g, S, amount, n, h, k, reason :
    /\ amount \in Nat /\ n \in Nat /\ h \in BOOLEAN
    /\ Recorded(g, S, a, d, amount, n, h, k, p, reason)

LEMMA RecordedIs ==
  ASSUME NEW g, NEW S, NEW a, NEW d, NEW amount, NEW n, NEW h, NEW k, NEW p, NEW reason,
         amount \in Nat, n \in Nat, h \in BOOLEAN,
         Recorded(g, S, a, d, amount, n, h, k, p, reason)
  PROVE  RecordedAs(a, d, p)
BY Zenon DEF RecordedAs

\* Recording a decision touches no other one.
LEMMA RecordedAlone ==
  ASSUME TypeOK, NEW a \in AuthIds, NEW d \in {"ALLOW", "DENY", "ESCALATE"}, NEW p,
         RecordedAs(a, d, p)
  PROVE  /\ life[a].decision = "none" /\ life'[a].decision = d /\ req'[a].parent = p
         /\ \A x \in AuthIds \ {a} : Same(x)
<1> PICK g, S, amount, n, h, k, reason :
      /\ amount \in Nat /\ n \in Nat /\ h \in BOOLEAN
      /\ Recorded(g, S, a, d, amount, n, h, k, p, reason)
  BY Zenon DEF RecordedAs
<1>1. life[a].decision = "none" /\ life'[a] = decided(d, amount, n, h) /\ req'[a].parent = p
  BY DEF Recorded, Fresh, swept, TypeOK
<1>2. life'[a].decision = d
  BY <1>1, DecidedRecord
<1>3. ASSUME NEW x \in AuthIds \ {a} PROVE Same(x)
  <2>1. life'[x] = swept(S)[x] /\ req'[x] = req[x] /\ life[x] \in Lifecycle
    BY <1>3 DEF Recorded, swept, TypeOK
  <2> QED
    BY <2>1, ReversalFields DEF swept, Same
<1> QED
  BY <1>1, <1>2, <1>3

\* A step records one decision, or none.
LEMMA StepDescends ==
  ASSUME IInv, Next
  PROVE  \/ pending' = pending /\ \A x \in AuthIds : Same(x)
         \/ \E a \in AuthIds, d \in {"ALLOW", "DENY", "ESCALATE"}, p \in AuthIds \cup {None} :
              Descends(a, d, p)
<1> DEFINE Quiet == pending' = pending /\ \A x \in AuthIds : Same(x)
           Records == \E a \in AuthIds, d \in {"ALLOW", "DENY", "ESCALATE"},
                         p \in AuthIds \cup {None} : Descends(a, d, p)
<1>1. TypeOK /\ Shape
  BY DEF IInv
<1>2. ASSUME NEW g \in Grants, NEW p \in Policies, CreateGrant(g, p) PROVE Quiet
  BY <1>2 DEF CreateGrant, Same
<1>3. ASSUME NEW g \in Grants, NEW k \in Keys, NEW amount \in Amounts,
             NEW currency, NEW category, NEW later,
             Authorize(g, k, amount, currency, category, later)
      PROVE  Records
  <2>1. SweptAndRecorded(g, k, amount)
    BY <1>1, <1>3, AuthorizeRecords
  <2>2. PICK a \in AuthIds, d \in {"ALLOW", "DENY", "ESCALATE"},
             reason \in Reasons \cup {"APPROVAL_REQUIRED"} :
          /\ Recorded(g, expiredReservations(g), a, d, amount, clock + TTL, TRUE, k, None, reason)
          /\ pending' = IF d = "ESCALATE" THEN pending \cup {a} ELSE pending
    BY <2>1 DEF SweptAndRecorded
  <2>3. /\ amount \in Nat /\ clock + TTL \in Nat
        /\ expiredReservations(g) \in SUBSET AuthIds
    BY <1>1, AuthorityAssumption, MoneyAssumption DEF TypeOK, expiredReservations
  <2>4. RecordedAs(a, d, None)
    <3>1. PICK S, n, h : S = expiredReservations(g) /\ n = clock + TTL /\ h = TRUE
      OBVIOUS
    <3>2. Recorded(g, S, a, d, amount, n, h, k, None, reason)
      BY <2>2, <3>1
    <3>3. amount \in Nat /\ n \in Nat /\ h \in BOOLEAN
      BY <2>3, <3>1
    <3> QED
      BY <3>2, <3>3, RecordedIs, Zenon
  <2>5. /\ life[a].decision = "none" /\ life'[a].decision = d /\ req'[a].parent = None
        /\ \A x \in AuthIds \ {a} : Same(x)
    BY <1>1, <2>4, RecordedAlone
  <2>6. Descends(a, d, None)
    BY <2>2, <2>5 DEF Descends
  <2> QED
    BY <2>6
<1>4. ASSUME NEW g \in Grants, AuthorizeFails(g) PROVE Quiet
  <2>1. ASSUME NEW x \in AuthIds PROVE Same(x)
    <3>1. /\ life'[x] = swept(expiredReservations(g))[x] /\ req'[x] = req[x]
          /\ life[x] \in Lifecycle
      BY <1>1, <1>4 DEF AuthorizeFails, TypeOK
    <3> QED
      BY <3>1, ReversalFields DEF swept, Same
  <2> QED
    BY <1>4, <2>1 DEF AuthorizeFails
<1>5. ASSUME NEW e \in AuthIds, NEW later, Deny(e) \/ Approve(e, later) PROVE Records
  <2>1. e \in pending /\ req[e].grant \in Grants
    BY <1>1, <1>5, ApprovalRecords
  <2>2. PICK d \in {"ALLOW", "DENY"},
             reason \in Reasons \cup {"DENIED_BY_APPROVER", "APPROVED_BY_HUMAN"} :
          /\ Resolve(e, d, reason)
          /\ d = "ALLOW" =>
               spent[req[e].grant] + life[e].amount <= policy[req[e].grant].budget
          /\ reason = "GRANT_OVERRUN" => spent[req[e].grant] > policy[req[e].grant].budget
    BY <1>1, <1>5, ApprovalRecords
  <2>3. PICK a \in AuthIds : Recorded(req[e].grant, {}, a, d, life[e].amount,
                                      clock + ApprovalTTL, FALSE, None, e, reason)
    BY <1>1, <2>1, <2>2, ResolveRecords
  <2>4. pending' = pending \ {e}
    BY <2>2 DEF Resolve
  <2>5. RecordedAs(a, d, e)
    <3>1. life[e].amount \in Nat /\ clock + ApprovalTTL \in Nat /\ FALSE \in BOOLEAN
      BY <1>1, AuthorityAssumption DEF TypeOK, Lifecycle
    <3> QED
      <4>1. PICK g, amount, n, h :
              g = req[e].grant /\ amount = life[e].amount /\ n = clock + ApprovalTTL /\ h = FALSE
        OBVIOUS
      <4>2. Recorded(g, {}, a, d, amount, n, h, None, e, reason)
        BY <2>3, <4>1
      <4> QED
        BY <3>1, <4>1, <4>2, RecordedIs, Zenon
  <2>6. d \in {"ALLOW", "DENY", "ESCALATE"} /\ d # "ESCALATE"
    BY <2>2
  <2>7. /\ life[a].decision = "none" /\ life'[a].decision = d /\ req'[a].parent = e
        /\ \A x \in AuthIds \ {a} : Same(x)
    BY <1>1, <2>5, <2>6, RecordedAlone
  <2> QED
    BY <2>1, <2>4, <2>6, <2>7 DEF Descends
<1>6. ASSUME NEW a \in AuthIds, ReportStep(a) PROVE Quiet
  <2>1. PICK r \in Reporters : ReportSubmitted(a, r) \/ ReportSettled(a, r) \/ ReportFailed(a, r)
    BY <1>6 DEF ReportStep
  <2>2. life'[a].decision = life[a].decision
    BY <1>1, <2>1, ReportChanges
  <2>3. /\ pending' = pending /\ req' = req
        /\ \A x \in AuthIds \ {a} : life'[x] = life[x]
    BY <1>1, <2>1 DEF ReportSubmitted, ReportSettled, ReportFailed, TypeOK
  <2> QED
    BY <2>2, <2>3 DEF Same
<1>7. ASSUME NEW t \in 1..MaxTime, Tick(t) PROVE Quiet
  BY <1>7 DEF Tick, Same
<1> HIDE DEF Quiet, Records
<1>8. Quiet \/ Records
  BY <1>2, <1>3, <1>4, <1>5, <1>6, <1>7 DEF Next, AuthorizeStep
<1> QED
  BY <1>8 DEF Quiet, Records

\* Either way the escalations and their resolutions still hang together.
LEMMA NextDescent ==
  ASSUME TypeOK, Descent,
         \/ pending' = pending /\ \A x \in AuthIds : Same(x)
         \/ \E a \in AuthIds, d \in {"ALLOW", "DENY", "ESCALATE"}, p \in AuthIds \cup {None} :
              Descends(a, d, p)
  PROVE  Descent'
<1>1. CASE pending' = pending /\ \A x \in AuthIds : Same(x)
  BY <1>1 DEF Descent, OneResolution, Same
<1>2. ASSUME NEW a \in AuthIds, NEW d \in {"ALLOW", "DENY", "ESCALATE"},
             NEW p \in AuthIds \cup {None}, Descends(a, d, p)
      PROVE  Descent'
  <2>1. /\ req[a].parent = None /\ req'[a].parent = p
        /\ life[a].decision = "none" /\ life'[a].decision = d
        /\ \A x \in AuthIds \ {a} : Same(x)
    BY <1>2 DEF Descends, Descent
  <2>2. \A x \in AuthIds : req[x].parent # a
    BY <2>1, AuthorityAssumption DEF Descent
  <2>3. \A x \in AuthIds : x \in pending <=>
          life[x].decision = "ESCALATE" /\ \A b \in AuthIds : req[b].parent # x
    BY DEF Descent, OneResolution
  <2>4. p # None => p \in pending /\ p # a /\ life[p].decision = "ESCALATE"
    BY <2>1, <2>3, <1>2 DEF Descends
  <2>5. p # None => \A x \in AuthIds : req[x].parent # p
    BY <2>3, <2>4
  <2>6. ASSUME NEW x \in AuthIds, NEW y \in AuthIds,
               req'[x].parent # None, req'[x].parent = req'[y].parent
        PROVE  x = y
    <3>1. CASE x # a /\ y # a
      BY <2>1, <2>6, <3>1 DEF Same, Descent, OneResolution
    <3>2. CASE x = a /\ y # a
      BY <2>1, <2>5, <2>6, <3>2 DEF Same
    <3>3. CASE x # a /\ y = a
      BY <2>1, <2>5, <2>6, <3>3 DEF Same
    <3> QED
      BY <3>1, <3>2, <3>3
  <2>7. ASSUME NEW x \in AuthIds
        PROVE  x \in pending' <=>
                 life'[x].decision = "ESCALATE" /\ \A b \in AuthIds : req'[b].parent # x
    <3>1. (\A b \in AuthIds : req'[b].parent # x) <=>
            p # x /\ \A b \in AuthIds : req[b].parent # x
      BY <2>1, AuthorityAssumption DEF Same
    <3>2. CASE x = a
      BY <1>2, <2>1, <2>2, <2>3, <2>4, <3>1, <3>2, AuthorityAssumption DEF Descends
    <3>3. CASE x # a
      <4>1. life'[x].decision = life[x].decision
        BY <2>1, <3>3 DEF Same
      <4>2. x \in pending' <=> x \in pending /\ x # p
        BY <1>2, <3>3, AuthorityAssumption DEF Descends
      <4> QED
        BY <2>3, <3>1, <4>1, <4>2
    <3> QED
      BY <3>2, <3>3
  <2>8. pending' \subseteq AuthIds
    BY <1>2 DEF Descends, TypeOK
  <2>9. OneResolution'
    BY <2>6, <2>7, <2>8 DEF OneResolution
  <2>10. ASSUME NEW x \in AuthIds
         PROVE  /\ life'[x].decision = "none" => req'[x].parent = None
                /\ req'[x].parent # None => /\ req'[x].parent \in AuthIds
                                           /\ life'[req'[x].parent].decision = "ESCALATE"
    <3>1. CASE x = a
      BY <2>1, <2>4, <3>1 DEF Same
    <3>2. CASE x # a
      <4>1. Same(x)
        BY <2>1, <3>2
      <4>2. req[x].parent # None => /\ req[x].parent \in AuthIds /\ req[x].parent # a
                                    /\ life[req[x].parent].decision = "ESCALATE"
        BY <2>2 DEF Descent
      <4> QED
        BY <2>1, <4>1, <4>2 DEF Same, Descent
    <3> QED
      BY <3>1, <3>2
  <2> QED
    BY <2>9, <2>10 DEF Descent
<1> QED
  BY <1>1, <1>2

\* An escalation is resolved once at most, and stays pending until then
\* (core/approvals.js resolve, api/approvals.js, api/authorize.js).
THEOREM ResolvedOnce == Spec => []OneResolution
<1>1. Init => Descent
  BY DEF Init, Descent, OneResolution, NoState, NoRequest
<1>2. IInv /\ Descent /\ [Next]_vars => Descent'
  <2> SUFFICES ASSUME IInv, Descent, [Next]_vars PROVE Descent'
    OBVIOUS
  <2>1. TypeOK
    BY DEF IInv
  <2>2. CASE Next
    BY <2>1, <2>2, StepDescends, NextDescent
  <2>3. CASE UNCHANGED vars
    BY <2>1, <2>3, NextDescent DEF vars, Same
  <2> QED
    BY <2>2, <2>3
<1>3. Descent => OneResolution
  BY DEF Descent
<1> QED
  BY <1>1, <1>2, <1>3, AlwaysIInv, PTL DEF Spec
-----------------------------------------------------------------------------
(* X402: the inductive invariant. *)

Replies == {"nothing", "decision", "INVALID_AMOUNT_MINOR", "GRANT_NOT_FOUND",
            "RECEIPT_SIGNER_UNAVAILABLE"}

X402Type ==
  /\ offer \in [Procs -> Offers \cup {None}]
  /\ wire \in SUBSET Procs
  /\ reply \in [Procs -> Replies]
  /\ verdict = [p \in Procs |-> verdict[p]]

\* An offer the verifier puts to Cosmos.
Puttable(o) == o \in Offers /\ refusal(o) = "none"

\* A key names one authorization of its grant, and an offer that asked for it.
KeyedOnce ==
  /\ \A a, b \in AuthIds :
       req[a].key # None /\ req[a].key = req[b].key /\ req[a].grant = req[b].grant => a = b
  /\ \A a \in AuthIds : req[a].key # None =>
       /\ life[a].decision # "none"
       /\ \E o \in Offers : /\ Puttable(o) /\ o.grant = req[a].grant
                            /\ idempotencyKey(o) = req[a].key /\ toMinor(o.units) = life[a].amount

\* What is under way, or has been said, is about the decision under the key.
Backed(p) ==
  /\ p \in wire => Puttable(offer[p])
  /\ reply[p] = "decision" => Puttable(offer[p]) /\ Decided(offer[p]) # {}
  /\ Allowed(p) => Puttable(offer[p]) /\ \E a \in Decided(offer[p]) : life[a].decision = "ALLOW"
  /\ verdict[p].receipt # None =>
       /\ verdict[p].says = "deny" /\ Puttable(offer[p])
       /\ verdict[p].receipt \in Decided(offer[p])
       /\ life[verdict[p].receipt].decision # "ALLOW"

XInv == IInv /\ X402Type /\ KeyedOnce /\ \A p \in Procs : Backed(p)

\* A decision, once recorded, keeps its request, its verdict and its amount.
Keeps(a) ==
  req'[a] = req[a] /\ life'[a].decision = life[a].decision /\ life'[a].amount = life[a].amount

\* A decision recorded by the step.
Enters(a, g, k, amount) ==
  /\ life[a].decision = "none" /\ life'[a].decision # "none"
  /\ life'[a].amount = amount /\ req'[a].key = k /\ req'[a].grant = g

-----------------------------------------------------------------------------
(* What a step of Cosmos does to what is recorded. *)

\* A recorded decision is the fresh id's.
LEMMA RecordedEnters ==
  ASSUME TypeOK, NEW g \in Grants, NEW S \in SUBSET AuthIds, NEW a \in AuthIds,
         NEW d \in {"ALLOW", "DENY", "ESCALATE"}, NEW amount \in Nat, NEW n \in Nat,
         NEW h \in BOOLEAN, NEW k, NEW parent, NEW reason,
         Recorded(g, S, a, d, amount, n, h, k, parent, reason)
  PROVE  Enters(a, g, k, amount)
<1>1. life'[a] = decided(d, amount, n, h) /\ life[a].decision = "none"
  BY DEF Recorded, Fresh, swept, TypeOK
<1>2. decided(d, amount, n, h).decision = d /\ decided(d, amount, n, h).amount = amount
  BY DecidedRecord
<1>3. req'[a].key = k /\ req'[a].grant = g
  BY DEF Recorded, TypeOK
<1> QED
  BY <1>1, <1>2, <1>3 DEF Enters

\* Every other authorization keeps its own.
LEMMA RecordedKeeps ==
  ASSUME TypeOK, NEW g, NEW S, NEW a \in AuthIds, NEW d, NEW amount, NEW n, NEW h,
         NEW k, NEW parent, NEW reason, NEW x \in AuthIds, x # a,
         Recorded(g, S, a, d, amount, n, h, k, parent, reason)
  PROVE  Keeps(x)
<1>1. life'[x] = swept(S)[x] /\ req'[x] = req[x] /\ life[x] \in Lifecycle
  BY DEF Recorded, swept, TypeOK
<1> QED
  BY <1>1, ReversalFields DEF swept, Keeps

\* Every step of Authority but an authorization keeps what is recorded, or
\* records a decision without a key.
LEMMA UnkeyedKeeps ==
  ASSUME IInv, NEW a \in AuthIds,
         \/ UNCHANGED vars
         \/ \E g \in Grants, p \in Policies : CreateGrant(g, p)
         \/ \E g \in Grants : AuthorizeFails(g)
         \/ \E x \in AuthIds : Deny(x) \/ ReportStep(x)
         \/ \E x \in AuthIds, later \in clock..MaxTime : Approve(x, later)
         \/ \E t \in 1..MaxTime : Tick(t)
  PROVE  Keeps(a) \/ (life[a].decision = "none" /\ req'[a].key = None)
<1>1. TypeOK /\ Shape /\ life[a] \in Lifecycle
  BY DEF IInv, TypeOK
<1>2. CASE \/ UNCHANGED vars \/ \E g \in Grants, p \in Policies : CreateGrant(g, p)
           \/ \E t \in 1..MaxTime : Tick(t)
  BY <1>2 DEF vars, CreateGrant, Tick, Keeps
<1>3. ASSUME NEW g \in Grants, AuthorizeFails(g) PROVE Keeps(a)
  <2>1. life'[a] = swept(expiredReservations(g))[a] /\ req'[a] = req[a]
    BY <1>3 DEF AuthorizeFails
  <2> QED
    BY <1>1, <2>1, ReversalFields DEF swept, Keeps
<1>4. ASSUME NEW x \in AuthIds, NEW later, Deny(x) \/ Approve(x, later)
      PROVE  Keeps(a) \/ (life[a].decision = "none" /\ req'[a].key = None)
  <2>1. x \in pending /\ req[x].grant \in Grants /\ policy[req[x].grant] # None
    BY <1>1, <1>4, ApprovalRecords
  <2>2. PICK d \in {"ALLOW", "DENY"},
             reason \in Reasons \cup {"DENIED_BY_APPROVER", "APPROVED_BY_HUMAN"} :
          /\ Resolve(x, d, reason)
          /\ d = "ALLOW" =>
               spent[req[x].grant] + life[x].amount <= policy[req[x].grant].budget
          /\ reason = "GRANT_OVERRUN" => spent[req[x].grant] > policy[req[x].grant].budget
    BY <1>1, <1>4, ApprovalRecords
  <2>3. PICK b \in AuthIds : Recorded(req[x].grant, {}, b, d, life[x].amount,
                                      clock + ApprovalTTL, FALSE, None, x, reason)
    BY <1>1, <2>1, <2>2, ResolveRecords
  <2>4. /\ life[x].amount \in Nat /\ clock + ApprovalTTL \in Nat
        /\ d \in {"ALLOW", "DENY", "ESCALATE"}
    BY <1>1, AuthorityAssumption DEF TypeOK, Lifecycle
  <2>5. PICK g \in Grants, S \in SUBSET AuthIds, m \in Nat, n \in Nat, h \in BOOLEAN :
          Recorded(g, S, b, d, m, n, h, None, x, reason)
    BY <2>1, <2>3, <2>4
  <2>6. Enters(b, g, None, m) /\ (a # b => Keeps(a))
    BY <1>1, <2>4, <2>5, RecordedEnters, RecordedKeeps
  <2> QED
    BY <2>6 DEF Enters
<1>5. ASSUME NEW x \in AuthIds, ReportStep(x) PROVE Keeps(a)
  <2>1. PICK r \in Reporters : ReportSubmitted(x, r) \/ ReportSettled(x, r) \/ ReportFailed(x, r)
    BY <1>5 DEF ReportStep
  <2>2. req'[a] = req[a]
    BY <2>1 DEF ReportSubmitted, ReportSettled, ReportFailed
  <2>3. CASE x # a
    BY <1>1, <2>1, <2>2, <2>3 DEF ReportSubmitted, ReportSettled, ReportFailed, Keeps, TypeOK
  <2>4. CASE x = a
    <3>1. life'[a].decision = life[a].decision
      BY <1>1, <2>1, <2>4, ReportChanges
    <3>2. life'[a].amount = life[a].amount
      <4>1. CASE ReportSubmitted(a, r)
        BY <1>1, <4>1 DEF ReportSubmitted, onSubmission, TypeOK, Lifecycle
      <4>2. CASE ReportSettled(a, r)
        BY <1>1, <4>2 DEF ReportSettled, onSettlement, onReservation, TypeOK, Lifecycle
      <4>3. CASE ReportFailed(a, r)
        BY <1>1, <4>3 DEF ReportFailed, onSettlement, onReversal, TypeOK, Lifecycle
      <4> QED
        BY <2>1, <2>4, <4>1, <4>2, <4>3
    <3> QED
      BY <2>2, <3>1, <3>2 DEF Keeps
  <2> QED
    BY <2>3, <2>4
<1> QED
  BY <1>2, <1>3, <1>4, <1>5

-----------------------------------------------------------------------------
(* What is recorded stays recorded. *)

Grows == \A a \in AuthIds : Keeps(a) \/ life[a].decision = "none"

\* The decisions under the key of an offer stay, with their verdicts.
LEMMA DecidedStays ==
  ASSUME KeyedOnce, Grows, NEW o, Puttable(o), NEW a \in Decided(o)
  PROVE  a \in Decided(o)' /\ life'[a].decision = life[a].decision
<1>1. idempotencyKey(o) # None /\ a \in AuthIds
  BY DEF Puttable, refusal, Decided
<1>2. req[a].key # None /\ life[a].decision # "none"
  BY <1>1 DEF KeyedOnce, Decided
<1>3. Keeps(a)
  BY <1>1, <1>2 DEF Grows
<1> QED
  BY <1>1, <1>3 DEF Keeps, Decided

\* A step that adds only decisions without a key leaves the keys as they are.
LEMMA KeysStay ==
  ASSUME KeyedOnce, \A a \in AuthIds : Keeps(a) \/ (life[a].decision = "none" /\ req'[a].key = None)
  PROVE  KeyedOnce'
<1>1. ASSUME NEW a \in AuthIds, req'[a].key # None PROVE Keeps(a)
  BY <1>1
<1>2. ASSUME NEW a \in AuthIds, NEW b \in AuthIds,
             req'[a].key # None, req'[a].key = req'[b].key, req'[a].grant = req'[b].grant
      PROVE  a = b
  <2>1. Keeps(a) /\ Keeps(b)
    BY <1>1, <1>2
  <2> QED
    BY <1>2, <2>1 DEF Keeps, KeyedOnce
<1>3. ASSUME NEW a \in AuthIds, req'[a].key # None
      PROVE  /\ life'[a].decision # "none"
             /\ \E o \in Offers : /\ Puttable(o) /\ o.grant = req'[a].grant
                                  /\ idempotencyKey(o) = req'[a].key
                                  /\ toMinor(o.units) = life'[a].amount
  BY <1>1, <1>3 DEF Keeps, KeyedOnce
<1> QED
  BY <1>2, <1>3 DEF KeyedOnce

\* POST /authorize for an offer: its key is new, and names one authorization then.
LEMMA AuthorizeKeys ==
  ASSUME IInv, KeyedOnce, NEW o, Puttable(o), toMinor(o.units) # 0, NEW later,
         Authorize(o.grant, idempotencyKey(o), toMinor(o.units), o.currency, o.category, later)
  PROVE  KeyedOnce' /\ Grows /\ Decided(o)' # {}
<1> DEFINE k == idempotencyKey(o)
           amount == toMinor(o.units)
<1>1. TypeOK /\ o \in Offer /\ o.grant \in Grants /\ amount \in Amounts
  BY X402Assumption DEF IInv, Puttable, refusal, Offer
<1>2. k # None /\ \A a \in AuthIds : ~(req[a].grant = o.grant /\ req[a].key = k)
  BY DEF Authorize, Seen, Puttable, refusal
<1>3. SweptAndRecorded(o.grant, k, amount)
  BY <1>1, AuthorizeRecords
<1>4. PICK a \in AuthIds, d \in {"ALLOW", "DENY", "ESCALATE"},
           reason \in Reasons \cup {"APPROVAL_REQUIRED"} :
        Recorded(o.grant, expiredReservations(o.grant), a, d, amount, clock + TTL, TRUE, k, None, reason)
  BY <1>3 DEF SweptAndRecorded
<1>5. /\ expiredReservations(o.grant) \in SUBSET AuthIds /\ clock + TTL \in Nat
      /\ amount \in Nat
  <2>1. expiredReservations(o.grant) \in SUBSET AuthIds
    BY DEF expiredReservations
  <2>2. clock + TTL \in Nat
    BY <1>1, AuthorityAssumption DEF TypeOK
  <2>3. \A m \in Amounts : m \in Nat
    BY AuthorityAssumption, MoneyAssumption
  <2> QED
    BY <1>1, <2>1, <2>2, <2>3
<1>6. PICK S \in SUBSET AuthIds, n \in Nat, h \in BOOLEAN :
        Recorded(o.grant, S, a, d, amount, n, h, k, None, reason)
  BY <1>4, <1>5
<1> HIDE DEF k, amount
<1>7. Enters(a, o.grant, k, amount)
  BY <1>1, <1>5, <1>6, RecordedEnters
<1>8. ASSUME NEW x \in AuthIds, x # a PROVE Keeps(x)
  BY <1>1, <1>6, <1>8, RecordedKeeps
<1>9. Grows
  BY <1>7, <1>8 DEF Grows, Enters
<1>10. Decided(o)' # {}
  BY <1>7 DEF Decided, Enters, k
<1>11. ASSUME NEW x \in AuthIds, NEW y \in AuthIds,
              req'[x].key # None, req'[x].key = req'[y].key, req'[x].grant = req'[y].grant
       PROVE  x = y
  <2>1. CASE x # a /\ y # a
    BY <1>8, <1>11, <2>1 DEF Keeps, KeyedOnce
  <2>2. CASE x = a /\ y # a
    BY <1>2, <1>7, <1>8, <1>11, <2>2 DEF Keeps, Enters
  <2>3. CASE x # a /\ y = a
    BY <1>2, <1>7, <1>8, <1>11, <2>3 DEF Keeps, Enters
  <2> QED
    BY <2>1, <2>2, <2>3
<1>12. ASSUME NEW x \in AuthIds, req'[x].key # None
       PROVE  /\ life'[x].decision # "none"
              /\ \E i \in Offers : /\ Puttable(i) /\ i.grant = req'[x].grant
                                   /\ idempotencyKey(i) = req'[x].key
                                   /\ toMinor(i.units) = life'[x].amount
  <2>1. CASE x = a
    BY <1>7, <2>1 DEF Enters, Puttable, k, amount
  <2>2. CASE x # a
    <3>1. Keeps(x)
      BY <1>8, <2>2
    <3> QED
      BY <1>12, <3>1 DEF Keeps, KeyedOnce
  <2> QED
    BY <2>1, <2>2
<1>13. KeyedOnce'
  BY <1>11, <1>12 DEF KeyedOnce
<1> QED
  BY <1>9, <1>10, <1>13

-----------------------------------------------------------------------------
(* What the processes have heard and said stays backed. *)

\* A process that says nothing new stays backed, whatever is recorded meanwhile.
LEMMA BackedStays ==
  ASSUME KeyedOnce, Grows, NEW p \in Procs, Backed(p),
         offer'[p] = offer[p], verdict'[p] = verdict[p], p \in wire' => p \in wire,
         reply'[p] = "decision" => \/ reply[p] = "decision"
                                   \/ Puttable(offer[p]) /\ Decided(offer[p])' # {}
  PROVE  Backed(p)'
<1> DEFINE o == offer[p]
<1>1. Puttable(o) => \A a \in Decided(o) :
        a \in (Decided(offer[p]))' /\ life'[a].decision = life[a].decision
  <2>1. ASSUME Puttable(o), NEW a \in Decided(o)
        PROVE  a \in Decided(o)' /\ life'[a].decision = life[a].decision
    BY <2>1, DecidedStays
  <2> QED
    BY <2>1 DEF Decided
<1> QED
  BY <1>1 DEF Backed, Allowed, Decided, Puttable

-----------------------------------------------------------------------------
(* Every step of the processes is a step of Authority, or none. *)

\* What a verifier puts to Cosmos is a request Authority has.
LEMMA PutIsRequest ==
  ASSUME NEW o, Puttable(o)
  PROVE  /\ o.grant \in Grants /\ idempotencyKey(o) \in Keys /\ o.currency \in Currencies
         /\ o.category \in Categories /\ toMinor(o.units) \in Amounts \cup {0}
<1>1. o \in Offer
  BY X402Assumption DEF Puttable
<1>2. idempotencyKey(o) \in Keys
  BY <1>1, X402Assumption DEF Puttable, refusal, idempotencyKey, Offer
<1>3. toMinor(o.units) \in Amounts \cup {0}
  BY X402Assumption DEF Puttable, refusal
<1> QED
  BY <1>1, <1>2, <1>3 DEF Puttable, refusal, Offer

\* What handling a POST does to Cosmos.
LEMMA HandleIsAuthority ==
  ASSUME NEW p \in Procs, Handle(p), Puttable(offer[p])
  PROVE  UNCHANGED vars \/ \E g \in Grants : AuthorizeStep(g)
<1> DEFINE o == offer[p]
           k == idempotencyKey(o)
           amount == toMinor(o.units)
<1>1. \/ UNCHANGED vars
      \/ amount # 0 /\ \E later \in clock..MaxTime :
           Authorize(o.grant, k, amount, o.currency, o.category, later)
      \/ AuthorizeFails(o.grant)
  BY DEF Handle
<1>2. /\ o.grant \in Grants /\ k \in Keys /\ o.currency \in Currencies
      /\ o.category \in Categories \cup {""} /\ amount \in Amounts \cup {0}
  BY PutIsRequest
<1> HIDE DEF o, k, amount
<1>3. CASE amount # 0 /\ \E later \in clock..MaxTime :
             Authorize(o.grant, k, amount, o.currency, o.category, later)
  BY <1>2, <1>3 DEF AuthorizeStep
<1>4. CASE AuthorizeFails(o.grant)
  BY <1>2, <1>4 DEF AuthorizeStep
<1> QED
  BY <1>1, <1>3, <1>4

\* So the whole system steps as Authority does.
LEMMA StepMaps ==
  ASSUME XInv, [X402Next]_allVars
  PROVE  [Next]_vars
<1>1. CASE UNCHANGED allVars
  BY <1>1 DEF allVars
<1>2. ASSUME NEW p \in Procs, (\E o \in Offers : Spawn(p, o)) \/ Lose(p) \/ Receive(p) \/ GiveUp(p)
      PROVE  UNCHANGED vars
  BY <1>2 DEF Spawn, Lose, Receive, GiveUp, vars
<1>3. ASSUME NEW p \in Procs, Handle(p) PROVE [Next]_vars
  <2>1. Puttable(offer[p])
    BY <1>3 DEF XInv, Backed, Handle
  <2> QED
    BY <1>3, <2>1, HandleIsAuthority DEF Next
<1>4. CASE Elsewhere
  BY <1>4 DEF Elsewhere, Next, ReportStep, Reporters
<1> QED
  BY <1>1, <1>2, <1>3, <1>4 DEF X402Next

-----------------------------------------------------------------------------
(* Every step preserves the inductive invariant. *)

\* A step that records nothing under a key.
LEMMA QuietGrows ==
  ASSUME IInv, KeyedOnce, UNCHANGED vars \/ (\E g \in Grants : AuthorizeFails(g)) \/ Elsewhere
  PROVE  KeyedOnce' /\ Grows
<1>1. ASSUME NEW a \in AuthIds
      PROVE  Keeps(a) \/ (life[a].decision = "none" /\ req'[a].key = None)
  BY UnkeyedKeeps DEF Elsewhere, ReportStep, Reporters
<1> QED
  BY <1>1, KeysStay DEF Grows

\* What handling a POST adds, and tells a process that waits.
LEMMA HandleGrows ==
  ASSUME IInv, KeyedOnce, NEW p \in Procs, Handle(p), Puttable(offer[p])
  PROVE  /\ KeyedOnce' /\ Grows
         /\ \E what \in Replies : Answer(p, what) /\ (what = "decision" => Decided(offer[p])' # {})
<1> DEFINE o == offer[p]
           k == idempotencyKey(o)
<1>1. CASE \E what \in Replies \ {"decision"} : Answer(p, what) /\ UNCHANGED vars
  BY <1>1, QuietGrows
<1>2. CASE Decided(o) # {} /\ Answer(p, "decision") /\ UNCHANGED vars
  <2>1. KeyedOnce' /\ Grows
    BY <1>2, QuietGrows
  <2>2. Decided(offer[p])' # {}
    BY <1>2 DEF Decided, vars, Answer
  <2> QED
    BY <1>2, <2>1, <2>2 DEF Replies
<1>3. CASE /\ toMinor(o.units) # 0 /\ Answer(p, "decision")
           /\ \E later \in clock..MaxTime :
                Authorize(o.grant, k, toMinor(o.units), o.currency, o.category, later)
  <2>1. PICK c : c = offer[p]
    OBVIOUS
  <2>2. KeyedOnce' /\ Grows /\ Decided(c)' # {}
    BY <1>3, <2>1, AuthorizeKeys
  <2>3. Decided(offer[p])' # {}
    BY <1>3, <2>1, <2>2 DEF Answer, Decided
  <2> QED
    BY <1>3, <2>2, <2>3 DEF Replies
<1>4. CASE Answer(p, "RECEIPT_SIGNER_UNAVAILABLE") /\ AuthorizeFails(o.grant)
  BY <1>4, QuietGrows, PutIsRequest DEF Replies
<1> QED
  BY <1>1, <1>2, <1>3, <1>4 DEF Handle, Replies

\* A process that speaks says what Backed wants of it.
LEMMA ReceiveBacked ==
  ASSUME IInv, X402Type, KeyedOnce, NEW p \in Procs, Backed(p), Receive(p)
  PROVE  Backed(p)'
<1>1. /\ offer' = offer /\ wire' = wire /\ life' = life /\ req' = req
      /\ reply[p] # "nothing"
  BY DEF Receive, vars
<1>2. \E v : verdict'[p] = v /\ reply'[p] = "nothing" /\ 
        IF reply[p] = "decision" THEN \E a \in Decided(offer[p]) : v = verdictOf(a)
                                 ELSE v = deny(REASON_TO_CODE(reply[p]), None)
  BY DEF Receive, Say, X402Type
<1>3. CASE reply[p] = "decision"
  <2>1. PICK a \in Decided(offer[p]) : verdict'[p] = verdictOf(a)
    BY <1>2, <1>3
  <2>2. Puttable(offer[p]) /\ a \in AuthIds /\ a # None
    BY <1>3, AuthorityAssumption DEF Backed, Decided
  <2>3. /\ Allowed(p)' => life[a].decision = "ALLOW"
        /\ verdict'[p].receipt # None =>
             /\ verdict'[p].says = "deny" /\ verdict'[p].receipt = a /\ life[a].decision # "ALLOW"
    BY <2>1 DEF verdictOf, allow, deny, Allowed
  <2> QED
    BY <1>1, <1>2, <2>1, <2>2, <2>3 DEF Backed, Decided, Puttable, Allowed
<1>4. CASE reply[p] # "decision"
  <2>1. ~Allowed(p)' /\ verdict'[p].receipt = None
    BY <1>2, <1>4 DEF deny, Allowed
  <2> QED
    BY <1>1, <1>2, <2>1 DEF Backed, Puttable
<1> QED
  BY <1>3, <1>4

\* One process acts and the others stay as they were; a step of Cosmos alone
\* leaves all of them.
LEMMA NextXType ==
  ASSUME XInv, X402Next
  PROVE  X402Type'
<1>1. X402Type /\ \A p \in Procs : Backed(p)
  BY DEF XInv
<1>2. ASSUME NEW p \in Procs, NEW v, Say(p, v)
      PROVE  reply' \in [Procs -> Replies] /\ verdict' = [q \in Procs |-> verdict'[q]]
  BY <1>1, <1>2 DEF Say, X402Type, Replies
<1>4. ASSUME NEW p \in Procs, NEW o \in Offers, Spawn(p, o) PROVE X402Type'
  BY <1>1, <1>2, <1>4 DEF Spawn, X402Type
<1>5. ASSUME NEW p \in Procs, Handle(p) PROVE X402Type'
  <2>1. \E what \in Replies : Answer(p, what)
    BY <1>5 DEF Handle, Replies
  <2> QED
    BY <1>1, <2>1 DEF Answer, X402Type
<1>6. ASSUME NEW p \in Procs, Lose(p) PROVE X402Type'
  BY <1>1, <1>6 DEF Lose, X402Type
<1>7. ASSUME NEW p \in Procs, Receive(p) \/ GiveUp(p) PROVE X402Type'
  <2>1. UNCHANGED <<offer, wire>> /\ \E v : Say(p, v)
    BY <1>7 DEF Receive, GiveUp
  <2> QED
    BY <1>1, <1>2, <2>1 DEF X402Type
<1>8. CASE Elsewhere
  BY <1>1, <1>8 DEF Elsewhere, x402Vars, X402Type
<1> QED
  BY <1>4, <1>5, <1>6, <1>7, <1>8 DEF X402Next

\* Every step preserves the inductive invariant.
LEMMA NextXInv ==
  ASSUME XInv, [X402Next]_allVars
  PROVE  XInv'
<1>1. IInv /\ X402Type /\ KeyedOnce /\ \A p \in Procs : Backed(p)
  BY DEF XInv
<1>2. IInv'
  BY <1>1, StepMaps, NextIInv
<1>3. ASSUME UNCHANGED vars PROVE KeyedOnce' /\ Grows
  BY <1>1, <1>3, QuietGrows
<1>4. CASE UNCHANGED allVars
  <2>1. KeyedOnce' /\ X402Type'
    BY <1>1, <1>3, <1>4 DEF allVars, x402Vars, X402Type
  <2>2. ASSUME NEW q \in Procs PROVE Backed(q)'
    BY <1>1, <1>3, <1>4, BackedStays DEF allVars, x402Vars
  <2> QED
    BY <1>2, <2>1, <2>2 DEF XInv
<1>5. ASSUME NEW p \in Procs, NEW o \in Offers, Spawn(p, o), NEW q \in Procs
      PROVE  KeyedOnce' /\ Backed(q)'
  <2>1. UNCHANGED vars
    BY <1>5 DEF Spawn
  <2>2. KeyedOnce' /\ Grows
    BY <1>3, <2>1
  <2>3. CASE q # p
    <3>1. /\ offer'[q] = offer[q] /\ verdict'[q] = verdict[q] /\ reply'[q] \in {reply[q], "nothing"}
          /\ q \in wire' => q \in wire
      BY <1>1, <1>5, <2>3 DEF Spawn, Say, X402Type
    <3> QED
      BY <1>1, <2>2, <3>1, BackedStays
  <2>4. CASE q = p
    <3>1. offer[p] = None /\ offer'[p] = o
      BY <1>1, <1>5 DEF Spawn, X402Type
    <3>2. ~Puttable(offer[p])
      BY <3>1, X402Assumption DEF Puttable
    <3>3. p \notin wire /\ reply[p] # "decision" /\ ~Allowed(p) /\ verdict[p].receipt = None
      BY <1>1, <3>2 DEF Backed
    <3>4. CASE refusal(o) # "none"
      <4>1. verdict'[p] = deny(refusal(o), None) /\ reply'[p] = "nothing" /\ wire' = wire
        BY <1>1, <1>5, <3>4 DEF Spawn, Say, X402Type
      <4> QED
        BY <2>2, <2>4, <3>3, <4>1 DEF Backed, Allowed, deny
    <3>5. CASE refusal(o) = "none"
      <4>1. verdict' = verdict /\ reply' = reply
        BY <1>5, <3>5 DEF Spawn
      <4> QED
        BY <2>2, <2>4, <3>1, <3>3, <3>5, <4>1 DEF Backed, Allowed, Puttable
    <3> QED
      BY <3>4, <3>5
  <2> QED
    BY <2>2, <2>3, <2>4
<1>6. ASSUME NEW p \in Procs, Handle(p), NEW q \in Procs
      PROVE  KeyedOnce' /\ Backed(q)'
  <2>1. Puttable(offer[p])
    BY <1>1, <1>6 DEF Backed, Handle
  <2>2. KeyedOnce' /\ Grows
    BY <1>1, <1>6, <2>1, HandleGrows
  <2>3. PICK what \in Replies : Answer(p, what) /\ (what = "decision" => Decided(offer[p])' # {})
    BY <1>1, <1>6, <2>1, HandleGrows
  <2>4. /\ offer'[q] = offer[q] /\ verdict'[q] = verdict[q] /\ (q \in wire' => q \in wire)
        /\ reply'[q] = reply[q] \/ (q = p /\ reply'[q] = what)
    BY <1>1, <2>3 DEF Answer, X402Type
  <2> QED
    BY <1>1, <2>1, <2>2, <2>3, <2>4, BackedStays
<1>7. ASSUME NEW p \in Procs, Lose(p) \/ Receive(p) \/ GiveUp(p), NEW q \in Procs
      PROVE  KeyedOnce' /\ Backed(q)'
  <2>1. UNCHANGED vars /\ offer' = offer /\ wire' \subseteq wire
    BY <1>7 DEF Lose, Receive, GiveUp
  <2>2. KeyedOnce' /\ Grows
    BY <1>3, <2>1
  <2>3. CASE Lose(p) \/ q # p
    <3>1. verdict'[q] = verdict[q] /\ reply'[q] \in {reply[q], "nothing"}
      BY <1>1, <1>7, <2>3 DEF Lose, Receive, GiveUp, Say, X402Type
    <3> QED
      BY <1>1, <2>1, <2>2, <3>1, BackedStays
  <2>4. CASE Receive(p) /\ q = p
    BY <1>1, <2>2, <2>4, ReceiveBacked
  <2>5. CASE GiveUp(p) /\ q = p
    <3>1. /\ verdict'[p] = deny("internal_error", None) /\ reply'[p] = "nothing"
          /\ wire' = wire /\ offer' = offer
      BY <1>1, <2>5 DEF GiveUp, Say, X402Type
    <3> QED
      BY <1>1, <2>1, <2>2, <2>5, <3>1 DEF Backed, Allowed, deny, Puttable
  <2> QED
    BY <1>7, <2>2, <2>3, <2>4, <2>5
<1>8. ASSUME Elsewhere, NEW q \in Procs
      PROVE  Backed(q)'
  BY <1>1, <1>8, QuietGrows, BackedStays DEF Elsewhere, x402Vars
<1>9. ASSUME X402Next PROVE X402Type' /\ KeyedOnce' /\ \A q \in Procs : Backed(q)'
  <2>1. X402Type'
    BY <1>9, NextXType
  <2>2. KeyedOnce'
    BY <1>1, <1>5, <1>6, <1>7, <1>9, QuietGrows DEF X402Next
  <2>3. ASSUME NEW q \in Procs PROVE Backed(q)'
    BY <1>5, <1>6, <1>7, <1>8, <1>9, <2>3 DEF X402Next
  <2> QED
    BY <2>1, <2>2, <2>3
<1> QED
  BY <1>2, <1>4, <1>9 DEF XInv

-----------------------------------------------------------------------------
(* The theorems. *)

\* Nobody has been spawned at first, and nothing is recorded.
LEMMA InitXInv == X402Init => XInv
<1> SUFFICES ASSUME X402Init PROVE XInv
  OBVIOUS
<1>1. IInv
  BY InitIInv DEF X402Init
<1>2. X402Type
  BY DEF X402Init, X402Type, Replies
<1>3. KeyedOnce
  BY DEF X402Init, Init, KeyedOnce, NoRequest
<1>4. ASSUME NEW p \in Procs PROVE Backed(p)
  BY DEF X402Init, Backed, Allowed, NoVerdict
<1> QED
  BY <1>1, <1>2, <1>3, <1>4 DEF XInv

LEMMA AlwaysXInv == X402Spec => []XInv
<1>1. XInv /\ [X402Next]_allVars => XInv'
  BY NextXInv
<1> QED
  BY InitXInv, <1>1, PTL DEF X402Spec

\* Whatever the verifiers do, lose, give up on and retry, Cosmos behind them
\* takes the steps of Authority (x402/evc-verifier.js decide, api/authorize.js).
THEOREM AnswersAuthority == X402Spec => Spec
<1>1. X402Init => Init
  BY DEF X402Init
<1>2. XInv /\ [X402Next]_allVars => [Next]_vars
  BY StepMaps
<1> QED
  BY <1>1, <1>2, AlwaysXInv, PTL DEF X402Spec, Spec

\* No payment takes a grant past its budget.
THEOREM PaymentsFit == X402Spec => AllowFitsBudget
<1> QED
  BY AnswersAuthority, AllowFits, PTL

\* A number without a remainder is the product of divisor and quotient.
LEMMA WholeQuotient ==
  ASSUME NEW n \in Nat, NEW d \in Nat \ {0}, n % d = 0
  PROVE  (n \div d) * d = n
<1>1. n = d * (n \div d) + (n % d)
  OBVIOUS
<1> QED
  BY <1>1

\* The decision of a purchase, for the amount the offer asks.
LEMMA PurchaseDecision ==
  ASSUME XInv, NEW o, Puttable(o), NEW a \in Decided(o)
  PROVE  Decided(o) = {a} /\ life[a].amount * Divisor = o.units
<1>1. a \in AuthIds /\ req[a].grant = o.grant /\ req[a].key = idempotencyKey(o)
      /\ req[a].key # None
  BY DEF Decided, Puttable, refusal
<1>2. Decided(o) = {a}
  BY <1>1 DEF XInv, KeyedOnce, Decided
<1>3. PICK p \in Offers : /\ Puttable(p) /\ p.grant = req[a].grant
                          /\ idempotencyKey(p) = req[a].key /\ toMinor(p.units) = life[a].amount
  BY <1>1 DEF XInv, KeyedOnce
<1>4. p.units = o.units
  BY <1>1, <1>3, X402Assumption DEF SamePurchase, Puttable
<1>5. /\ toMinor(o.units) = life[a].amount /\ toMinor(o.units) # None
      /\ o.units \in Nat /\ Divisor \in Nat \ {0}
  BY <1>3, <1>4, X402Assumption DEF Puttable, refusal, Offer
<1>6. o.units % Divisor = 0 /\ life[a].amount = o.units \div Divisor
  BY <1>5 DEF toMinor
<1> QED
  BY <1>2, <1>5, <1>6, WholeQuotient

\* An allowed payment has the one ALLOW of its purchase behind it, for its
\* amount (x402/evc-verifier.js idempotencyKey, toMinor, decide).
THEOREM Backing == X402Spec => []AllowIsBacked
<1>1. ASSUME XInv PROVE AllowIsBacked
  <2>1. ASSUME NEW p \in Procs, Allowed(p)
        PROVE  \E a \in AuthIds : Decided(offer[p]) = {a} /\ life[a].decision = "ALLOW"
                                  /\ life[a].amount * Divisor = offer[p].units
    <3>1. PICK a \in Decided(offer[p]) : Puttable(offer[p]) /\ life[a].decision = "ALLOW"
      BY <1>1, <2>1 DEF XInv, Backed
    <3>2. Decided(offer[p]) = {a} /\ life[a].amount * Divisor = offer[p].units
      BY <1>1, <3>1, PurchaseDecision
    <3> QED
      BY <3>1, <3>2 DEF Decided
  <2>2. ASSUME NEW p \in Procs, NEW q \in Procs, Allowed(p), Allowed(q),
               Decided(offer[p]) = Decided(offer[q]),
               offer[p].bundleKey = None, offer[q].bundleKey = None
        PROVE  offer[p].nonce = offer[q].nonce /\ offer[p].nonce # None
    <3>1. PICK a \in AuthIds : Decided(offer[p]) = {a}
      BY <2>1, <2>2
    <3>2. idempotencyKey(offer[p]) = idempotencyKey(offer[q])
      BY <2>2, <3>1 DEF Decided
    <3>3. idempotencyKey(offer[p]) # None /\ idempotencyKey(offer[q]) # None
      BY <1>1, <2>2 DEF XInv, Backed, Puttable, refusal
    <3> QED
      BY <2>2, <3>2, <3>3 DEF idempotencyKey, challengeKey
  <2> QED
    BY <2>1, <2>2 DEF AllowIsBacked
<1> QED
  BY <1>1, AlwaysXInv, PTL

\* What a decision refused is never allowed to another process
\* (x402/evc-verifier.js decide).
THEOREM Refusals == X402Spec => []RefusalStands
<1>1. ASSUME XInv PROVE RefusalStands
  <2> SUFFICES ASSUME NEW p \in Procs, NEW q \in Procs,
                      verdict[p].says = "deny", verdict[p].receipt # None
               PROVE  /\ ~life[verdict[p].receipt].reserved
                      /\ offer[q] # None /\ SamePurchase(offer[p], offer[q]) => ~Allowed(q)
    BY DEF RefusalStands
  <2> DEFINE r == verdict[p].receipt
  <2>1. Puttable(offer[p]) /\ r \in Decided(offer[p]) /\ life[r].decision # "ALLOW"
    BY <1>1 DEF XInv, Backed
  <2>2. ~life[r].reserved
    BY <1>1, <2>1 DEF XInv, IInv, OutcomeMatchesHold, Decided
  <2>3. ASSUME SamePurchase(offer[p], offer[q]), Allowed(q) PROVE FALSE
    <3>1. PICK a \in Decided(offer[q]) : life[a].decision = "ALLOW"
      BY <1>1, <2>3 DEF XInv, Backed
    <3>2. a \in Decided(offer[p])
      BY <2>3, <3>1 DEF SamePurchase, Decided
    <3>3. Decided(offer[p]) = {r}
      BY <1>1, <2>1, PurchaseDecision
    <3> QED
      BY <2>1, <3>1, <3>2, <3>3
  <2> QED
    BY <2>2, <2>3
<1> QED
  BY <1>1, AlwaysXInv, PTL

\* An escalation that an x402 payment raised is resolved once.
THEOREM PaymentsResolveOnce == X402Spec => []OneResolution
<1> QED
  BY AnswersAuthority, ResolvedOnce, PTL

-----------------------------------------------------------------------------
(* The hold behind an allowed payment. *)

\* With nobody to report a failure, a hold that no longer stands is one the
\* sweep took at its deadline, a report having moved the deadline since or not.
StandsOrPast(a) ==
  life[a].decision = "ALLOW" =>
    life[a].reserved \/ clock > life[a].deadline \/ life[a].outcome = "submitted"

\* A sweep reverses what is past its deadline.
LEMMA SweptIsPast ==
  ASSUME TypeOK, NEW g, NEW S, S \subseteq expiredReservations(g), NEW a \in AuthIds,
         StandsOrPast(a), life'[a] = swept(S)[a], clock' = clock
  PROVE  StandsOrPast(a)'
<1>1. life[a] \in Lifecycle /\ life[a].deadline \in Nat /\ clock \in Nat
  BY DEF TypeOK, Lifecycle
<1>2. CASE a \in S
  <2>1. clock > life[a].deadline
    BY <1>1, <1>2 DEF expiredReservations, expired
  <2>2. life'[a].deadline = life[a].deadline
    BY <1>1, <1>2, ReversalFields DEF swept
  <2> QED
    BY <2>1, <2>2 DEF StandsOrPast
<1>3. CASE a \notin S
  BY <1>3 DEF swept, StandsOrPast
<1> QED
  BY <1>2, <1>3

\* A decision just recorded as an ALLOW holds its amount.
LEMMA RecordedStands ==
  ASSUME TypeOK, NEW g, NEW S, S \subseteq expiredReservations(g), NEW a \in AuthIds,
         NEW d \in {"ALLOW", "DENY", "ESCALATE"}, NEW amount \in Nat, NEW n \in Nat,
         NEW h \in BOOLEAN, NEW k, NEW parent, NEW reason,
         Recorded(g, S, a, d, amount, n, h, k, parent, reason),
         NEW x \in AuthIds, StandsOrPast(x)
  PROVE  StandsOrPast(x)'
<1>1. clock' = clock
  BY DEF Recorded
<1>2. CASE x = a
  <2>1. life'[x] = decided(d, amount, n, h)
    BY <1>2 DEF Recorded, swept, TypeOK
  <2>2. life'[x].decision = "ALLOW" => life'[x].reserved
    BY <2>1, DecidedRecord
  <2> QED
    BY <2>2 DEF StandsOrPast
<1>3. CASE x # a
  <2>1. life'[x] = swept(S)[x]
    BY <1>3 DEF Recorded, swept, TypeOK
  <2> QED
    BY <1>1, <2>1, SweptIsPast
<1> QED
  BY <1>2, <1>3

\* So every step of Authority keeps it, but for a report of failure.
LEMMA StepStands ==
  ASSUME IInv, NEW x \in AuthIds, StandsOrPast(x),
         \/ UNCHANGED vars
         \/ \E g \in Grants : AuthorizeStep(g)
         \/ Elsewhere
  PROVE  StandsOrPast(x)'
<1>1. TypeOK /\ Shape /\ life[x] \in Lifecycle /\ life[x].deadline \in Nat /\ clock \in Nat
  BY DEF IInv, TypeOK, Lifecycle
<1>2. ASSUME \/ UNCHANGED vars \/ \E g \in Grants, p \in Policies : CreateGrant(g, p)
             \/ \E t \in 1..MaxTime : Tick(t)
      PROVE  StandsOrPast(x)'
  <2>1. life' = life /\ clock' >= clock /\ clock' \in Int
    BY <1>1, <1>2 DEF vars, CreateGrant, Tick
  <2> QED
    BY <1>1, <2>1 DEF StandsOrPast
<1>3. ASSUME NEW g \in Grants, NEW k \in Keys, NEW amount \in Amounts,
             NEW currency, NEW category, NEW later,
             Authorize(g, k, amount, currency, category, later)
      PROVE  StandsOrPast(x)'
  <2>1. SweptAndRecorded(g, k, amount)
    BY <1>1, <1>3, AuthorizeRecords
  <2>2. PICK a \in AuthIds, d \in {"ALLOW", "DENY", "ESCALATE"},
             reason \in Reasons \cup {"APPROVAL_REQUIRED"} :
          Recorded(g, expiredReservations(g), a, d, amount, clock + TTL, TRUE, k, None, reason)
    BY <2>1 DEF SweptAndRecorded
  <2>3. amount \in Nat /\ clock + TTL \in Nat
    BY <1>1, AuthorityAssumption, MoneyAssumption
  <2>4. PICK m \in Nat, n \in Nat, h \in BOOLEAN, parent \in {None} :
          Recorded(g, expiredReservations(g), a, d, m, n, h, k, parent, reason)
    BY <2>2, <2>3
  <2> QED
    BY <1>1, <2>4, RecordedStands
<1>4. ASSUME NEW g \in Grants, AuthorizeFails(g) PROVE StandsOrPast(x)'
  <2>1. life'[x] = swept(expiredReservations(g))[x] /\ clock' = clock
    BY <1>4 DEF AuthorizeFails
  <2> QED
    BY <1>1, <2>1, SweptIsPast
<1>5. ASSUME NEW e \in AuthIds, NEW later, Deny(e) \/ Approve(e, later) PROVE StandsOrPast(x)'
  <2>1. e \in pending /\ req[e].grant \in Grants
    BY <1>1, <1>5, ApprovalRecords
  <2>2. PICK d \in {"ALLOW", "DENY"},
             reason \in Reasons \cup {"DENIED_BY_APPROVER", "APPROVED_BY_HUMAN"} :
          /\ Resolve(e, d, reason)
          /\ d = "ALLOW" =>
               spent[req[e].grant] + life[e].amount <= policy[req[e].grant].budget
          /\ reason = "GRANT_OVERRUN" => spent[req[e].grant] > policy[req[e].grant].budget
    BY <1>1, <1>5, ApprovalRecords
  <2>3. PICK a \in AuthIds : Recorded(req[e].grant, {}, a, d, life[e].amount,
                                      clock + ApprovalTTL, FALSE, None, e, reason)
    BY <1>1, <2>1, <2>2, ResolveRecords
  <2>4. life[e].amount \in Nat /\ clock + ApprovalTTL \in Nat
    BY <1>1, AuthorityAssumption DEF TypeOK, Lifecycle
  <2>5. PICK g \in Grants, S \in SUBSET AuthIds, c \in {"ALLOW", "DENY", "ESCALATE"}, m \in Nat,
             n \in Nat, h \in BOOLEAN, k \in {None} :
          S = {} /\ Recorded(g, S, a, c, m, n, h, k, e, reason)
    BY <2>1, <2>3, <2>4
  <2>6. S \subseteq expiredReservations(g)
    BY <2>5
  <2> QED
    BY <1>1, <2>5, <2>6, RecordedStands
<1>6. ASSUME NEW a \in AuthIds, ReportSubmitted(a, "operator") PROVE StandsOrPast(x)'
  <2>1. x # a => life'[x] = life[x]
    BY <1>1, <1>6 DEF ReportSubmitted, TypeOK
  <2>2. x = a => life'[x].outcome = "submitted"
    BY <1>1, <1>6 DEF ReportSubmitted, onSubmission, TypeOK, Lifecycle
  <2>3. clock' = clock
    BY <1>6 DEF ReportSubmitted
  <2> QED
    BY <2>1, <2>2, <2>3 DEF StandsOrPast
<1>7. ASSUME NEW a \in AuthIds, ReportSettled(a, "operator") PROVE StandsOrPast(x)'
  <2>1. x # a => life'[x] = life[x]
    BY <1>1, <1>7 DEF ReportSettled, TypeOK
  <2>2. x = a => life'[x].reserved
    BY <1>1, <1>7 DEF ReportSettled, onSettlement, onReservation, TypeOK, Lifecycle
  <2>3. clock' = clock
    BY <1>7 DEF ReportSettled
  <2> QED
    BY <2>1, <2>2, <2>3 DEF StandsOrPast
<1> QED
  BY <1>2, <1>3, <1>4, <1>5, <1>6, <1>7 DEF AuthorizeStep, Elsewhere

\* The invariant with it is inductive.
LEMMA AlwaysStands == X402Spec => [](\A a \in AuthIds : StandsOrPast(a))
<1> DEFINE Stand == \A a \in AuthIds : StandsOrPast(a)
<1>1. X402Init => Stand
  BY DEF X402Init, Init, NoState, StandsOrPast
<1>2. XInv /\ Stand /\ [X402Next]_allVars => Stand'
  <2> SUFFICES ASSUME XInv, Stand, [X402Next]_allVars, NEW x \in AuthIds
               PROVE  StandsOrPast(x)'
    OBVIOUS
  <2>1. IInv /\ StandsOrPast(x)
    BY DEF XInv
  <2>2. CASE UNCHANGED allVars \/ \E p \in Procs :
               (\E o \in Offers : Spawn(p, o)) \/ Lose(p) \/ Receive(p) \/ GiveUp(p)
    <3>1. UNCHANGED vars
      BY <2>2 DEF allVars, Spawn, Lose, Receive, GiveUp, vars
    <3> QED
      BY <2>1, <3>1, StepStands
  <2>3. ASSUME NEW p \in Procs, Handle(p) PROVE StandsOrPast(x)'
    <3>1. Puttable(offer[p])
      BY <2>3 DEF XInv, Backed, Handle
    <3>2. UNCHANGED vars \/ \E g \in Grants : AuthorizeStep(g)
      BY <2>3, <3>1, HandleIsAuthority
    <3> QED
      BY <2>1, <3>2, StepStands
  <2>4. CASE Elsewhere
    BY <2>1, <2>4, StepStands
  <2> QED
    BY <2>2, <2>3, <2>4 DEF X402Next
<1> HIDE DEF Stand
<1>3. X402Spec => []Stand
  BY <1>1, <1>2, AlwaysXInv, PTL DEF X402Spec
<1> QED
  BY <1>3 DEF Stand

\* When a payment is allowed its hold stands, or is past the deadline it had
\* (x402/evc-verifier.js decide, core/rail.js expiredReservations).
THEOREM AllowedIsHeld == X402Spec => AllowIsHeld
<1> DEFINE Stand == \A a \in AuthIds : StandsOrPast(a)
<1>1. XInv /\ Stand /\ [X402Next]_allVars => HeldStep
  <2> SUFFICES ASSUME XInv, Stand, [X402Next]_allVars,
                      NEW p \in Procs, ~Allowed(p), Allowed(p)'
               PROVE  \E a \in Decided(offer[p]) :
                        \/ life[a].reserved \/ clock > life[a].deadline
                        \/ life[a].outcome = "submitted"
    BY DEF HeldStep
  <2>1. X402Type
    BY DEF XInv
  <2>2. Receive(p)
    <3>1. CASE UNCHANGED allVars
      BY <3>1 DEF allVars, x402Vars, Allowed
    <3>2. ASSUME NEW q \in Procs, (\E o \in Offers : Spawn(q, o)) \/ GiveUp(q) PROVE FALSE
      BY <2>1, <3>2 DEF Spawn, GiveUp, Say, deny, Allowed, X402Type
    <3>3. ASSUME NEW q \in Procs, Handle(q) \/ Lose(q) PROVE FALSE
      BY <3>3 DEF Handle, Answer, Lose, Allowed
    <3>4. ASSUME NEW q \in Procs, Receive(q), q # p PROVE FALSE
      BY <2>1, <3>4 DEF Receive, Say, Allowed, X402Type
    <3>5. CASE Elsewhere
      BY <3>5 DEF Elsewhere, x402Vars, Allowed
    <3> QED
      BY <3>1, <3>2, <3>3, <3>4, <3>5 DEF X402Next
  <2>3. PICK a \in Decided(offer[p]) : verdict'[p] = verdictOf(a)
    BY <2>1, <2>2 DEF Receive, Say, deny, Allowed, X402Type
  <2>4. life[a].decision = "ALLOW" /\ a \in AuthIds
    BY <2>3 DEF verdictOf, deny, Allowed, Decided
  <2> QED
    BY <2>3, <2>4 DEF StandsOrPast
<1>2. X402Spec => []Stand
  BY AlwaysStands
<1> HIDE DEF Stand
<1> QED
  BY <1>1, <1>2, AlwaysXInv, PTL DEF X402Spec, AllowIsHeld
=============================================================================
