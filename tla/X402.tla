-------------------------------- MODULE X402 --------------------------------
(***************************************************************************)
(* x402/evc-verifier.js in front of Authority.  A resource server spawns   *)
(* one verifier process per payment it is offered; the process checks the  *)
(* shape of what it reads, POSTs to /authorize with a key taken from the   *)
(* bundle or the challenge, waits two seconds, and prints one verdict.  A  *)
(* POST the process has given up on may still be handled; the same         *)
(* challenge may be offered again.  Everything Cosmos decides here, it     *)
(* decides for these processes and for the operator.                       *)
(***************************************************************************)
EXTENDS Authority

CONSTANTS
  Procs,        \* verifier processes
  Nonces,       \* single-use challenges of x402 responses
  Offers,       \* what a process may read from its stdin
  Divisor       \* asset base units per minor unit, COSMOS_X402_AMOUNT_DIVISOR

\* An envelope with its bundle; None is a member that is absent.
Offer == [ nonce : Nonces \cup {None}, bundleKey : Keys \cup {None}, grant : Grants \cup {None},
           units : Nat, currency : Currencies, category : Categories \cup {None} ]

challengeKey(nonce) == <<"x402", nonce>>

\* Mutant: without a challenge the fields of the request make the key.
hashedKey(o) ==
  IF o.bundleKey # None THEN o.bundleKey
  ELSE IF o.nonce # None THEN challengeKey(o.nonce) ELSE <<o.grant, o.units, o.category>>

\* The key POSTed to Cosmos: the bundle's own, else the challenge, else none.
idempotencyKey(o) ==
  IF o.bundleKey # None THEN o.bundleKey
  ELSE IF o.nonce # None THEN challengeKey(o.nonce) ELSE None

\* A conversion that leaves a remainder is refused, never rounded.
toMinor(units) == IF units % Divisor = 0 THEN units \div Divisor ELSE None

\* Whoever deploys a bundle key means one purchase by it (evc-verifier.js: "the
\* deployer knows their own retry semantics"), and a challenge is one purchase.
SamePurchase(o, p) == o.grant = p.grant /\ idempotencyKey(o) = idempotencyKey(p)

ASSUME X402Assumption ==
  /\ Divisor \in Nat \ {0}
  /\ Offers \subseteq Offer /\ None \notin Offers
  /\ None \notin Nonces /\ {challengeKey(n) : n \in Nonces} \subseteq Keys
  /\ \A o \in Offers : toMinor(o.units) \in Amounts \cup {0, None}
  /\ \A o, p \in Offers : SamePurchase(o, p) /\ idempotencyKey(o) # None => o.units = p.units

\* What the closed registry of denial codes makes of the reasons of Cosmos.
REASON_TO_CODE(reason) ==
  CASE reason \in {"PER_PAYMENT_LIMIT", "DAILY_LIMIT", "INSUFFICIENT_BALANCE", "GRANT_OVERRUN",
                   "APPROVAL_REQUIRED"} -> "scope_exceeded"
    [] reason = "CATEGORY_NOT_ALLOWED"  -> "unknown_capability"
    [] reason = "CURRENCY_MISMATCH"     -> "request_mismatch"
    [] reason = "EXPIRED"               -> "expired"
    [] reason = "NOT_ACTIVE"            -> "delegation_invalid"
    [] reason = "GRANT_NOT_FOUND"       -> "invalid_bundle"
    [] reason \in {"INVALID_AMOUNT", "INVALID_AMOUNT_MINOR"} -> "malformed_input"
    [] OTHER                            -> "internal_error"

allow == [says |-> "allow", code |-> "none", receipt |-> None]
deny(code, receipt) == [says |-> "deny", code |-> code, receipt |-> receipt]
NoVerdict == [says |-> "nothing", code |-> "none", receipt |-> None]

VARIABLES
  offer,     \* what each process read, None before it is spawned
  wire,      \* processes whose POST is under way
  reply,     \* what Cosmos has answered a process: nothing, a decision, an error
  verdict    \* the line on stdout

x402Vars == <<offer, wire, reply, verdict>>
allVars == <<vars, x402Vars>>

X402Init ==
  /\ Init
  /\ offer = [p \in Procs |-> None]
  /\ wire = {}
  /\ reply = [p \in Procs |-> "nothing"]
  /\ verdict = [p \in Procs |-> NoVerdict]

Waiting(p) == offer[p] # None /\ verdict[p] = NoVerdict

Say(p, v) == verdict' = [verdict EXCEPT ![p] = v] /\ reply' = [reply EXCEPT ![p] = "nothing"]
-----------------------------------------------------------------------------
\* What decide() refuses before it calls Cosmos, in its order.
refusal(o) ==
  IF o.grant = None \/ o.category = None THEN "invalid_bundle"
  ELSE IF toMinor(o.units) = None THEN "malformed_input"
  ELSE IF idempotencyKey(o) = None THEN "nonce_missing" ELSE "none"

\* A process is spawned and reads its offer.
Spawn(p, o) ==
  /\ offer[p] = None
  /\ offer' = [offer EXCEPT ![p] = o]
  /\ IF refusal(o) # "none" THEN Say(p, deny(refusal(o), None)) /\ UNCHANGED wire
                            ELSE wire' = wire \cup {p} /\ UNCHANGED <<reply, verdict>>
  /\ UNCHANGED vars

\* The authorization under the key of an offer.
Decided(o) == {a \in AuthIds : req[a].grant = o.grant /\ req[a].key = idempotencyKey(o)}

(***************************************************************************)
(* Cosmos handles a POST: an error, the decision already under the key, or *)
(* a new one.  A signer or an append that fails answers 503 or 500 after   *)
(* whatever its sweep has made durable.                                    *)
(***************************************************************************)
Answer(p, what) ==
  /\ wire' = wire \ {p}
  /\ reply' = IF Waiting(p) THEN [reply EXCEPT ![p] = what] ELSE reply
  /\ UNCHANGED <<offer, verdict>>

Handle(p) ==
  LET o == offer[p]
      k == idempotencyKey(o)
  IN  /\ p \in wire
      /\ \/ toMinor(o.units) = 0 /\ Answer(p, "INVALID_AMOUNT_MINOR") /\ UNCHANGED vars
         \/ /\ toMinor(o.units) # 0 /\ policy[o.grant] = None
            /\ Answer(p, "GRANT_NOT_FOUND") /\ UNCHANGED vars
         \/ /\ toMinor(o.units) # 0 /\ Decided(o) # {}
            /\ Answer(p, "decision") /\ UNCHANGED vars
         \/ /\ toMinor(o.units) # 0
            /\ \E later \in clock..MaxTime :
                 Authorize(o.grant, k, toMinor(o.units), o.currency, o.category, later)
            /\ Answer(p, "decision")
         \/ /\ toMinor(o.units) # 0 /\ policy[o.grant] # None /\ Decided(o) = {}
            /\ AuthorizeFails(o.grant) \/ (expiredReservations(o.grant) = {} /\ UNCHANGED vars)
            /\ Answer(p, "RECEIPT_SIGNER_UNAVAILABLE")

\* The POST, or what came of it, is lost.
Lose(p) == p \in wire /\ wire' = wire \ {p} /\ UNCHANGED <<vars, offer, reply, verdict>>

\* Mutant: the human's later yes is taken up by a retry.
verdictOfApproved(a) ==
  IF \E b \in AuthIds : b \in {a} \cup {c \in AuthIds : req[c].parent = a} /\ life[b].decision = "ALLOW"
  THEN allow ELSE deny(REASON_TO_CODE(req[a].reason), a)

\* An ALLOW carries nothing; a refusal, an escalation included, names its receipt.
verdictOf(a) ==
  IF life[a].decision = "ALLOW" THEN allow ELSE deny(REASON_TO_CODE(req[a].reason), a)

\* The answer reaches a process that still waits.
Receive(p) ==
  /\ Waiting(p) /\ reply[p] # "nothing"
  /\ IF reply[p] = "decision" THEN \E a \in Decided(offer[p]) : Say(p, verdictOf(a))
                              ELSE Say(p, deny(REASON_TO_CODE(reply[p]), None))
  /\ UNCHANGED <<vars, offer, wire>>

\* Mutant: a process whose timer has fired waits on for the answer.
GiveUpLoud(p) ==
  /\ Waiting(p) /\ p \notin wire
  /\ Say(p, deny("internal_error", None))
  /\ UNCHANGED <<vars, offer, wire>>

\* AbortSignal.timeout(), or a connection that breaks: Cosmos is unreachable.
GiveUp(p) ==
  /\ Waiting(p)
  /\ Say(p, deny("internal_error", None))
  /\ UNCHANGED <<vars, offer, wire>>

(***************************************************************************)
(* The operator, and time.  The verifier drops the handoff token of the    *)
(* ALLOW, so nobody but the operator can report on these authorizations.   *)
(***************************************************************************)
Elsewhere ==
  /\ \/ \E g \in Grants, p \in Policies : CreateGrant(g, p)
     \/ \E a \in AuthIds : Deny(a) \/ ReportSubmitted(a, "operator") \/ ReportSettled(a, "operator")
     \/ \E a \in AuthIds, later \in clock..MaxTime : Approve(a, later)
     \/ \E t \in 1..MaxTime : Tick(t)
  /\ UNCHANGED x402Vars

X402Next ==
  \/ \E p \in Procs : (\E o \in Offers : Spawn(p, o)) \/ Handle(p) \/ Lose(p) \/ Receive(p) \/ GiveUp(p)
  \/ Elsewhere

\* A process has a timer of its own and a loop that runs what it receives.
X402Spec == X402Init /\ [][X402Next]_allVars /\ \A p \in Procs : WF_allVars(Receive(p) \/ GiveUp(p))
-----------------------------------------------------------------------------
Allowed(p) == verdict[p].says = "allow"

\* A payment is allowed only on an ALLOW that Cosmos recorded for this purchase
\* and this amount (evc-verifier.js: "Cosmos unreachable is NOT an allow. Ever").
\* One purchase has one authorization however often it is offered, and without a
\* key of the deployer's two purchases share one only if they are one challenge.
AllowIsBacked ==
  /\ \A p \in Procs : Allowed(p) =>
       \E a \in AuthIds : Decided(offer[p]) = {a} /\ life[a].decision = "ALLOW"
                         /\ life[a].amount * Divisor = offer[p].units
  /\ \A p, q \in Procs :
       /\ p # q /\ Allowed(p) /\ Allowed(q) /\ Decided(offer[p]) = Decided(offer[q])
       /\ offer[p].bundleKey = None /\ offer[q].bundleKey = None
       => offer[p].nonce = offer[q].nonce /\ offer[p].nonce # None

\* A purchase that was refused by a decision is never allowed to another process,
\* before or after, not even when a human approves the escalation out of band; and
\* the receipt the refusal names never held budget.
RefusalStands ==
  \A p, q \in Procs : verdict[p].says = "deny" /\ verdict[p].receipt # None =>
    /\ ~life[verdict[p].receipt].reserved
    /\ offer[q] # None /\ SamePurchase(offer[p], offer[q]) => ~Allowed(q)

\* At the moment a payment is allowed its hold stands, unless the deadline has
\* passed, so that the retry of a challenge picks up an ALLOW the sweep has
\* reversed, or a `submitted` of the operator's moved the deadline of one.
HeldStep ==
  \A p \in Procs : ~Allowed(p) /\ Allowed(p)' =>
    \E a \in Decided(offer[p]) :
      life[a].reserved \/ clock > life[a].deadline \/ life[a].outcome = "submitted"

AllowIsHeld == [][HeldStep]_allVars

\* Every process prints its one verdict, whatever Cosmos and the network do.
EveryProcessSpeaks == \A p \in Procs : offer[p] # None ~> verdict[p] # NoVerdict
=============================================================================
