------------------------------- MODULE Server -------------------------------
(***************************************************************************)
(* One Cosmos process: the handlers of api/grants.js, api/authorize.js,    *)
(* api/approvals.js and api/settlements.js as requests that take turns on  *)
(* one event loop and wait for the grant's lock and for the group commit;  *)
(* the idempotency map and the pending map they keep in memory; crashes,   *)
(* write errors, and the boot of api/server.js that rebuilds both maps.    *)
(*                                                                         *)
(* A request runs without interruption from one await to the next.  Its    *)
(* continuations are microtasks: while one is ready (Quiet is false) the   *)
(* loop starts nothing else.                                               *)
(***************************************************************************)
EXTENDS EventLog, Store, Money, FiniteSetsExt

CONSTANTS
  Requests,      \* request slots; a lost or failed request may be sent again
  Clients,       \* what the slots may send, with a bound on the clock
  Amounts, Currencies, Categories,
  TTL, ApprovalTTL, GRACE,
  Faults,        \* the faults that may happen: "kill", "power", "write"
  MaxFaults      \* bound on their number

\* What a client may send.
Calls ==
  [op : {"mint"}, g : Grants, policy : Policies]
    \cup [op : {"authorize"}, g : Grants, key : Keys, amount : Amounts,
          currency : Currencies, category : Categories]
    \cup [op : {"approve", "deny"}]
    \cup [op : {"report"}, outcome : Outcomes \ {"none"}, by : Reporters]

\* newId('grant') never draws an id twice, so two mints make two grants.
ASSUME ServerAssumption ==
  /\ \A c \in Clients :
       /\ c.maxTime \in Nat /\ DOMAIN c.calls \subseteq Requests
       /\ \A r \in DOMAIN c.calls : c.calls[r] \in Calls
       /\ \A r, q \in DOMAIN c.calls :
            c.calls[r].op = "mint" /\ c.calls[q].op = "mint" /\ c.calls[r].g = c.calls[q].g => r = q
  /\ IsFiniteSet(AuthIds) /\ Amounts \subseteq 1..MaxAmount /\ \A p \in Policies : p.budget \in Nat
  /\ None \notin Grants \cup AuthIds \cup Keys \cup Policies \cup [a : AuthIds, decision : Decisions]
  /\ Garbage \notin Event
  /\ Faults \subseteq {"kill", "power", "write"} /\ MaxFaults \in Nat
  /\ TTL \in Nat \ {0} /\ ApprovalTTL \in Nat \ {0} /\ GRACE \in Nat \ {0}

VARIABLES
  client,    \* the clients of this behaviour, which never changes
  clock,     \* Date.now()
  pc,        \* where each request is
  task,      \* its locals: the grant it locks, the authorization, its `now`
  lockQ,     \* withLock(): the requests chained on each grant, holder first
  idem,      \* getIdem()/putIdem(): the answer kept under a grant and key
  pending,   \* the pending map of core/approvals.js
  told,      \* history: what POST /authorize has answered, by grant and key
  lastNow,   \* history: the `now` of each grant's latest critical section
  faults     \* faults so far

serverVarsButPc == <<clock, task, lockQ, idem, pending, told, lastNow, faults>>
vars == <<storeVars, pc, serverVarsButPc>>

Slots == DOMAIN client.calls
Call(r) == client.calls[r]
MaxTime == client.maxTime

PCs == {"idle", "waiting", "sweeping", "deciding", "writing", "written", "rejected",
        "answered", "refused", "failed", "lost"}

NoTask == [g |-> None, a |-> None, now |-> 0, decision |-> "none"]

Init ==
  /\ client \in Clients
  /\ StoreInit
  /\ clock = 0
  /\ pc = [r \in Slots |-> "idle"]
  /\ task = [r \in Slots |-> NoTask]
  /\ lockQ = [g \in Grants |-> <<>>]
  /\ idem = [g \in Grants |-> [k \in Keys |-> None]]
  /\ pending = {}
  /\ told = {}
  /\ lastNow = [g \in Grants |-> 0]
  /\ faults = 0
-----------------------------------------------------------------------------
Holds(r) == task[r].g # None /\ lockQ[task[r].g] # <<>> /\ Head(lockQ[task[r].g]) = r

\* A continuation of r is due.
Ready(r) == pc[r] \in {"deciding", "written", "rejected"} \/ (pc[r] = "waiting" /\ Holds(r))

Quiet == up /\ \A r \in Slots : ~Ready(r)

\* newId('auth'): an id no record carries; which one is immaterial.
Used == {file[i].a : i \in {j \in DOMAIN file : file[j] # Garbage}}
          \cup {events[i].a : i \in DOMAIN events}
          \cup {batch[i].a : i \in DOMAIN batch}
Fresh == AuthIds \ Used
newId == CHOOSE a \in Fresh : TRUE

Goto(r, l) == pc' = [pc EXCEPT ![r] = l]

Lock(r, g, a) ==
  /\ Goto(r, "waiting")
  /\ task' = [task EXCEPT ![r] = [NoTask EXCEPT !.g = g, !.a = a]]
  /\ lockQ' = [lockQ EXCEPT ![g] = Append(@, r)]

\* The handler returns or throws inside the lock: the chain moves on.
Release(r, l) ==
  /\ Goto(r, l)
  /\ lockQ' = [lockQ EXCEPT ![task[r].g] = Tail(@)]

Tell(g, k, answer) ==
  told' = told \cup {[g |-> g, key |-> k, a |-> answer.a, decision |-> answer.decision]}

-----------------------------------------------------------------------------
(* A request arrives: what a handler does before it waits for anything.    *)

MayArrive(r) == Quiet /\ pc[r] \in {"idle", "lost", "failed"}

\* POST /grants waits for nothing but the commit.
CreateGrant(r) ==
  LET c == Call(r)
      meta == [NoEvent EXCEPT !.kind = "grant_meta", !.g = c.g, !.ts = clock, !.policy = c.policy]
      open == [NoEvent EXCEPT !.kind = "open", !.g = c.g, !.ts = clock, !.amount = c.policy.budget]
  IN  /\ Quiet /\ pc[r] = "idle" /\ c.op = "mint"
      /\ Enqueue(r, <<meta, open>>)
      /\ Goto(r, "writing")
      /\ UNCHANGED <<file, unended, events, up, clock, task, lockQ, idem, pending, told, lastNow, faults>>

AuthorizeArrives(r) ==
  LET g == Call(r).g
      k == Call(r).key
  IN  /\ MayArrive(r) /\ Call(r).op = "authorize"
      /\ \/ /\ grantOf(events, g) = None
            /\ Goto(r, "refused")
            /\ UNCHANGED <<task, lockQ, told>>
         \/ /\ grantOf(events, g) # None /\ idem[g][k] # None
            /\ Goto(r, "answered") /\ Tell(g, k, idem[g][k])
            /\ UNCHANGED <<task, lockQ>>
         \/ /\ grantOf(events, g) # None /\ idem[g][k] = None
            /\ Lock(r, g, None)
            /\ UNCHANGED told
      /\ UNCHANGED <<storeVars, clock, idem, pending, lastNow, faults>>

\* POST /approvals/:id for a pending id of a known grant, or a 404.
ResolveArrives(r, a) ==
  LET g == requestOf(events, a).g
      may == a \in pending /\ grantOf(events, g) # None
  IN  /\ MayArrive(r) /\ Call(r).op \in {"approve", "deny"}
      /\ \/ ~may /\ Goto(r, "refused") /\ UNCHANGED <<task, lockQ>>
         \/ may /\ Lock(r, g, a)
      /\ UNCHANGED <<storeVars, clock, idem, pending, told, lastNow, faults>>

\* POST /settlements/:id: the reads before the lock refuse what they can.
ReportArrives(r, a) ==
  LET s == railState(events, a)
      may == /\ s.decision = "ALLOW"
             /\ authenticates(s, Call(r).by)
             /\ Call(r).by \in MAY_REPORT(Call(r).outcome)
             /\ grantOf(events, decisionOf(events, a).g) # None
  IN  /\ MayArrive(r) /\ Call(r).op = "report"
      /\ \/ ~may /\ Goto(r, "refused") /\ UNCHANGED <<task, lockQ>>
         \/ may /\ Lock(r, decisionOf(events, a).g, a)
      /\ UNCHANGED <<storeVars, clock, idem, pending, told, lastNow, faults>>
-----------------------------------------------------------------------------
(* The critical sections. *)

\* Mutant: the key is not looked up again under the lock.
EntersUnchecked(r) ==
  LET g == task[r].g
  IN  /\ pc[r] = "waiting" /\ Holds(r) /\ Call(r).op = "authorize"
      /\ task' = [task EXCEPT ![r].now = clock]
      /\ lastNow' = [lastNow EXCEPT ![g] = clock]
      /\ LET back == reversals(events, g, clock)
         IN  IF back # <<>> THEN Enqueue(r, back) /\ Goto(r, "sweeping")
                            ELSE UNCHANGED queue /\ Goto(r, "deciding")
      /\ UNCHANGED <<lockQ, told, file, unended, events, up, clock, idem, pending, faults>>

\* POST /authorize gets the lock: look again, read the clock, sweep.
AuthorizeEnters(r) ==
  LET g == task[r].g
      k == Call(r).key
  IN  /\ pc[r] = "waiting" /\ Holds(r) /\ Call(r).op = "authorize"
      /\ \/ /\ idem[g][k] # None
            /\ Release(r, "answered") /\ Tell(g, k, idem[g][k])
            /\ UNCHANGED <<task, lastNow, queue>>
         \/ /\ idem[g][k] = None
            /\ task' = [task EXCEPT ![r].now = clock]
            /\ lastNow' = [lastNow EXCEPT ![g] = clock]
            /\ LET back == reversals(events, g, clock)
               IN  IF back # <<>> THEN Enqueue(r, back) /\ Goto(r, "sweeping")
                                  ELSE UNCHANGED queue /\ Goto(r, "deciding")
            /\ UNCHANGED <<lockQ, told>>
      /\ UNCHANGED <<file, unended, events, up, clock, idem, pending, faults>>

\* Mutant: the reservation is left out of the batch.
recordsUnreserved(a, g, now, amount, decision, reason, key, parent, exp, hasToken) ==
  LET base == [NoEvent EXCEPT !.a = a, !.g = g, !.ts = now]
  IN  << [base EXCEPT !.kind = "decision", !.amount = amount, !.decision = decision,
                      !.reason = reason, !.key = key, !.parent = parent],
         [base EXCEPT !.kind = "receipt"] >>

\* The records of a decision: api/authorize.js and api/approvals.js.
decisionRecords(a, g, now, amount, decision, reason, key, parent, exp, hasToken) ==
  LET base == [NoEvent EXCEPT !.a = a, !.g = g, !.ts = now, !.amount = amount]
  IN  << [base EXCEPT !.kind = "decision", !.decision = decision, !.reason = reason,
                      !.key = key, !.parent = parent] >>
      \o (IF decision = "ALLOW"
          THEN << [base EXCEPT !.kind = "reservation", !.exp = exp, !.token = hasToken] >>
          ELSE <<>>)
      \o (IF decision = "ESCALATE" THEN << [base EXCEPT !.kind = "approval_request"] >> ELSE <<>>)
      \o << [base EXCEPT !.kind = "receipt", !.amount = 0] >>

\* ... decide, sign and record.
AuthorizeDecides(r) ==
  LET g == task[r].g
      c == Call(r)
      verdict == decide(agentView(events, g, task[r].now), clock, c.amount, c.currency, c.category)
      decision == IF verdict # "APPROVED" THEN "DENY"
                  ELSE IF needsApproval(grantOf(events, g), c.amount) THEN "ESCALATE" ELSE "ALLOW"
      reason == IF decision = "ESCALATE" THEN "APPROVAL_REQUIRED" ELSE verdict
  IN  /\ pc[r] = "deciding" /\ c.op = "authorize" /\ Fresh # {}
      /\ Enqueue(r, decisionRecords(newId, g, task[r].now, c.amount, decision, reason, c.key,
                                    None, task[r].now + TTL, TRUE))
      /\ task' = [task EXCEPT ![r].a = newId, ![r].decision = decision]
      /\ Goto(r, "writing")
      /\ UNCHANGED <<file, unended, events, up, clock, lockQ, idem, pending, told, lastNow, faults>>

\* Mutant: the look before the lock is trusted.
AnyPending(r) == TRUE

\* resolve() under the lock: has nobody resolved it in the meantime?
StillPending(r) == task[r].a \in pending

\* POST /approvals gets the lock: look again, decide, record.
ResolveEnters(r) ==
  LET a == task[r].a
      g == task[r].g
      orig == decisionOf(events, a)
      verdict == IF Call(r).op = "deny" THEN "DENIED_BY_APPROVER"
                 ELSE decide(agentView(events, g, clock), clock, orig.amount,
                             grantOf(events, g).currency, "")
      decision == IF verdict = "APPROVED" THEN "ALLOW" ELSE "DENY"
      reason == IF verdict = "APPROVED" THEN "APPROVED_BY_HUMAN" ELSE verdict
      decided == [NoEvent EXCEPT !.kind = "approval_decision", !.a = a, !.g = g, !.ts = clock]
  IN  /\ pc[r] = "waiting" /\ Holds(r) /\ Call(r).op \in {"approve", "deny"}
      /\ \/ /\ ~StillPending(r)
            /\ Release(r, "refused")
            /\ UNCHANGED <<queue, lastNow>>
         \/ /\ StillPending(r) /\ orig = NoEvent
            /\ Release(r, "failed")
            /\ UNCHANGED <<queue, lastNow>>
         \/ /\ StillPending(r) /\ orig # NoEvent /\ Fresh # {}
            /\ Enqueue(r, <<decided>> \o
                 decisionRecords(newId, g, clock, orig.amount, decision, reason, None, a,
                                 clock + ApprovalTTL, FALSE))
            /\ lastNow' = [lastNow EXCEPT ![g] = clock]
            /\ Goto(r, "writing")
            /\ UNCHANGED lockQ
      /\ UNCHANGED <<file, unended, events, up, clock, task, idem, pending, told, faults>>

\* Mutant: a late settlement is recorded without taking the amount again.
reportNoRetake(s, a, g, outcome, by, now) ==
  LET base == [NoEvent EXCEPT !.a = a, !.g = g, !.ts = now, !.by = by]
  IN  IF outcome = "submitted" THEN << [base EXCEPT !.kind = "submission", !.exp = now + GRACE] >>
      ELSE << [base EXCEPT !.kind = "settlement", !.outcome = outcome, !.late = ~s.reserved] >>

\* reportEvents(): the records of an accepted report.
reportEvents(s, a, g, outcome, by, now) ==
  LET base == [NoEvent EXCEPT !.a = a, !.g = g, !.ts = now]
      late == ~s.reserved
      ended == [base EXCEPT !.kind = "settlement", !.outcome = outcome, !.by = by]
  IN  CASE outcome = "submitted" ->
             << [base EXCEPT !.kind = "submission", !.by = by, !.exp = now + GRACE] >>
        [] outcome = "failed" ->
             (IF s.reserved THEN << [base EXCEPT !.kind = "reversal", !.amount = s.amount] >>
                            ELSE <<>>) \o <<ended>>
        [] outcome = "settled" ->
             (IF late THEN << [base EXCEPT !.kind = "reservation", !.amount = s.amount,
                                           !.late = TRUE] >>
                      ELSE <<>>) \o << [ended EXCEPT !.late = late] >>

\* POST /settlements gets the lock: terminal states are one-shot.
ReportEnters(r) ==
  LET a == task[r].a
      g == task[r].g
      s == railState(events, a)
      c == Call(r)
  IN  /\ pc[r] = "waiting" /\ Holds(r) /\ c.op = "report"
      /\ \/ /\ terminal(s)
            /\ Release(r, IF s.outcome = c.outcome THEN "answered" ELSE "refused")
            /\ UNCHANGED <<queue, lastNow>>
         \/ /\ ~terminal(s)
            /\ Enqueue(r, Append(reportEvents(s, a, g, c.outcome, c.by, clock),
                                 [NoEvent EXCEPT !.kind = "receipt", !.g = g, !.ts = clock]))
            /\ lastNow' = [lastNow EXCEPT ![g] = clock]
            /\ Goto(r, "writing")
            /\ UNCHANGED lockQ
      /\ UNCHANGED <<file, unended, events, up, clock, task, idem, pending, told, faults>>

\* The signer throws before the records are queued: 503, nothing recorded.
SignerFails(r) ==
  /\ \/ pc[r] = "deciding"
     \/ /\ pc[r] = "waiting" /\ Holds(r)
        /\ \/ /\ Call(r).op \in {"approve", "deny"} /\ StillPending(r)
              /\ decisionOf(events, task[r].a) # NoEvent
           \/ Call(r).op = "report" /\ ~terminal(railState(events, task[r].a))
  /\ Release(r, "failed")
  /\ UNCHANGED <<storeVars, clock, task, idem, pending, told, lastNow, faults>>
-----------------------------------------------------------------------------
(* The group commit and what follows it. *)

InBatch == {queue[i].by : i \in DOMAIN queue}

\* drain() succeeds: the appends it covers resolve together.
Drain ==
  /\ Quiet
  /\ Commit
  /\ pc' = [r \in Slots |->
       IF r \notin InBatch THEN pc[r]
       ELSE IF pc[r] = "sweeping" THEN "deciding" ELSE "written"]
  /\ UNCHANGED serverVarsButPc

\* drain() throws: the appends reject.
DrainFails(n, cut) ==
  /\ Quiet /\ "write" \in Faults /\ faults < MaxFaults
  /\ CommitFails(n, cut)
  /\ pc' = [r \in Slots |-> IF r \in InBatch THEN "rejected" ELSE pc[r]]
  /\ faults' = faults + 1
  /\ UNCHANGED <<clock, task, lockQ, idem, pending, told, lastNow>>

\* Mutant: the lock's chain stops at a rejection.
RejectedHolding(r) ==
  /\ pc[r] = "rejected" /\ Goto(r, "failed")
  /\ UNCHANGED <<storeVars, clock, task, lockQ, idem, pending, told, lastNow, faults>>

\* The rejection ends the handler: 500, and the lock moves on.
Rejected(r) ==
  /\ pc[r] = "rejected"
  /\ IF task[r].g = None THEN Goto(r, "failed") /\ UNCHANGED lockQ ELSE Release(r, "failed")
  /\ UNCHANGED <<storeVars, clock, task, idem, pending, told, lastNow, faults>>

\* Mutant: the answer is not kept under its key.
FinishForgets(r) ==
  LET g == task[r].g
      answer == [a |-> task[r].a, decision |-> task[r].decision]
  IN  /\ pc[r] = "written"
      /\ IF g = None THEN Goto(r, "answered") /\ UNCHANGED <<lockQ, told>>
         ELSE /\ Release(r, "answered")
              /\ IF Call(r).op = "authorize" THEN Tell(g, Call(r).key, answer) ELSE UNCHANGED told
      /\ UNCHANGED <<storeVars, clock, task, idem, pending, lastNow, faults>>

\* The records are durable: update the maps and answer.
Finish(r) ==
  LET g == task[r].g
      a == task[r].a
      k == Call(r).key
      answer == [a |-> a, decision |-> task[r].decision]
  IN  /\ pc[r] = "written"
      /\ CASE Call(r).op = "mint" ->
                Goto(r, "answered") /\ UNCHANGED <<lockQ, idem, pending, told>>
           [] Call(r).op = "authorize" ->
                /\ pending' = IF task[r].decision = "ESCALATE" THEN pending \cup {a} ELSE pending
                /\ idem' = [idem EXCEPT ![g][k] = answer]
                /\ Tell(g, k, answer)
                /\ Release(r, "answered")
           [] Call(r).op \in {"approve", "deny"} ->
                pending' = pending \ {a} /\ Release(r, "answered") /\ UNCHANGED <<idem, told>>
           [] Call(r).op = "report" ->
                Release(r, "answered") /\ UNCHANGED <<idem, pending, told>>
      /\ UNCHANGED <<storeVars, clock, task, lastNow, faults>>
-----------------------------------------------------------------------------
(* Crashes and the boot. *)

InFlight(r) == r \in Slots /\ pc[r] \notin {"idle", "answered", "refused", "failed", "lost"}

\* The memory of the process is gone, and the connections with it.
Forget ==
  /\ faults < MaxFaults /\ faults' = faults + 1
  /\ pc' = [r \in Slots |-> IF InFlight(r) THEN "lost" ELSE pc[r]]
  /\ lockQ' = [g \in Grants |-> <<>>]
  /\ idem' = [g \in Grants |-> [k \in Keys |-> None]]
  /\ pending' = {}
  /\ UNCHANGED <<clock, task, told, lastNow>>

Crash == "kill" \in Faults /\ Kill /\ Forget

PowerLoss(n, cut) == "power" \in Faults /\ Halt(n, cut) /\ Forget

\* Mutant: a boot that rebuilds neither map.
BootEmpty == Load /\ UNCHANGED serverVarsButPc /\ UNCHANGED pc

\* start(): load the file, rebuild the idempotency index and the pending map.
Boot ==
  /\ Load
  /\ idem' = [g \in Grants |-> [k \in Keys |-> answerOf(events', g, k)]]
  /\ pending' = pendingOf(events')
  /\ UNCHANGED <<clock, pc, task, lockQ, told, lastNow, faults>>

Tick ==
  /\ clock < MaxTime
  /\ clock' = clock + 1
  /\ UNCHANGED <<storeVars, pc, task, lockQ, idem, pending, told, lastNow, faults>>

Arrive(r) ==
  \/ CreateGrant(r)
  \/ AuthorizeArrives(r)
  \/ \E a \in AuthIds : ResolveArrives(r, a) \/ ReportArrives(r, a)

Continue(r) ==
  \/ AuthorizeEnters(r) \/ AuthorizeDecides(r) \/ ResolveEnters(r) \/ ReportEnters(r)
  \/ SignerFails(r) \/ Rejected(r) \/ Finish(r)

Faulty == \E n \in 0..Len(batch), cut \in Cuts : DrainFails(n, cut) \/ PowerLoss(n, cut)

Next ==
  /\ UNCHANGED client
  /\ \/ \E r \in Slots : Arrive(r) \/ Continue(r)
     \/ Drain \/ Faulty \/ Crash \/ Boot \/ Tick

Spec == Init /\ [][Next]_<<client, vars>>

\* The event loop runs what is due: a ready continuation, a scheduled drain.
LoopFairness == WF_vars(Drain) /\ \A r \in Requests : WF_vars(r \in Slots /\ Continue(r))

FairSpec == Spec /\ LoopFairness
-----------------------------------------------------------------------------
(* What the log says, as Authority's variables. *)

\* The log: what the process holds, or what the next boot will load.
log == IF up THEN events ELSE load(file)

logPolicy == [g \in Grants |-> grantOf(log, g)]
logLife == [a \in AuthIds |-> railState(log, a)]
logReq == [a \in AuthIds |->
  LET e == decisionOf(log, a)
  IN  [ grant |-> e.g, key |-> e.key, parent |-> e.parent, reason |-> e.reason ]]
logSpent == [g \in Grants |-> spentOf(log, g)]
logToday == [g \in Grants |-> netToday(log, g, lastNow[g])]
logLate == [g \in Grants |->
  fold(LAMBDA n, e : IF e.late /\ e.kind = "reservation" THEN n + moved(e, g) ELSE n, 0, log)]
-----------------------------------------------------------------------------
(***************************************************************************)
(* Properties.                                                             *)
(***************************************************************************)

TypeOK ==
  /\ client \in Clients
  /\ file \in Seq(Event \cup {Garbage}) /\ unended \in BOOLEAN
  /\ events \in Seq(Event) /\ queue \in Seq([by : Slots, records : Seq(Event)])
  /\ up \in BOOLEAN
  /\ clock \in 0..MaxTime
  /\ pc \in [Slots -> PCs]
  /\ task \in [Slots -> [ g : Grants \cup {None}, a : AuthIds \cup {None}, now : Nat,
                          decision : Decisions ]]
  /\ lockQ \in [Grants -> Seq(Slots)]
  /\ idem \in [Grants -> [Keys -> [a : AuthIds, decision : Decisions] \cup {None}]]
  /\ pending \subseteq AuthIds
  /\ told \subseteq [g : Grants, key : Keys, a : AuthIds, decision : Decisions]
  /\ lastNow \in [Grants -> 0..clock]
  /\ faults \in 0..MaxFaults

\* Whenever nothing is half done, the two maps in memory are the maps a boot
\* would rebuild from the log: no order of commits, rejections and restarts
\* leaves an answer or a pending approval behind, or loses one
\* (core/approvals.js "a cache of the log", api/authorize.js rehydrateIdem).
CachesMatchLog ==
  Quiet =>
    /\ pending = pendingOf(events)
    /\ \A g \in Grants, k \in Keys : idem[g][k] = answerOf(events, g, k)

\* A grant and key are only ever told of one authorization, whoever asks and
\* however often, before or after a restart (DESIGN: an idempotent repeat
\* returns the original decision).
AnswersAgree == \A t, u \in told : t.g = u.g /\ t.key = u.key => t = u

Logged(es, kind, a) == \E i \in DOMAIN es : es[i].kind = kind /\ es[i].a = a

\* An ALLOW that was answered has its decision, its reservation and its receipt
\* in the file, readable by the next boot (README, core/store.js "Cosmos never
\* acknowledges an ALLOW that could vanish on power loss").
AllowIsDurable ==
  LET es == load(file) IN
  \A t \in told : t.decision = "ALLOW" =>
    \A kind \in {"decision", "reservation", "receipt"} : Logged(es, kind, t.a)

\* An ALLOW that a repeat of its key would be answered with has its hold in the
\* file (README: no ALLOW is acknowledged before the fsync that covers its
\* decision, its reservation and its receipt).
ReplayedAllowHolds ==
  LET es == load(file) IN
  \A g \in Grants, k \in Keys :
    idem[g][k] # None /\ idem[g][k].decision = "ALLOW" => Logged(es, "reservation", idem[g][k].a)

\* The places where a log decides a key of a grant.
decidedAt(es, g, k) ==
  {i \in DOMAIN es : es[i].kind = "decision" /\ es[i].g = g /\ es[i].key = k}

DecidedOnce(es) == \A g \in Grants, k \in Keys : \A i, j \in decidedAt(es, g, k) : i = j

\* The log decides a key once: replay() does not dedupe, so a second decision
\* would reserve twice (core/store.js, requirement 2).
KeyDecidedOnce == DecidedOnce(log)

\* The sweep's own fold and railState() agree on which holds have expired
\* (core/rail.js: the question "cannot come to mean two different things").
SweepReadsLifecycle ==
  \A g \in Grants, now \in 0..(MaxTime + TTL + GRACE) :
    expiredReservations(log, g, now) =
      {a \in AuthIds : decisionOf(log, a).g = g /\ expired(railState(log, a), now)}

\* The balance in the log is the sum of the holds in it, whatever prefix of it
\* a power loss has left.
LogBalances ==
  \A g \in Grants :
    spentOf(log, g) = SumOf([a \in AuthIds |-> railState(log, a).amount],
                            {a \in AuthIds : /\ decisionOf(log, a).g = g
                                             /\ railState(log, a).reserved})

\* Every request is eventually answered, refused or failed, or its connection
\* is lost with the process: no rejection and no lock leaves one waiting.
EveryRequestEnds == \A r \in Requests : InFlight(r) ~> ~InFlight(r)
=============================================================================
