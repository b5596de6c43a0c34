# Cosmos: specification and proofs

Cosmos (`core/`, `api/`) decides whether an agent may spend. An operator mints a
*grant* (budget, caps, categories, approval line), an agent asks to spend
against it (`POST /authorize`), a human resolves what passes the line
(`POST /approvals/:id`), and the payment rail reports how the payment ended
(`POST /settlements/:id`). Every answer is an append to one event log, every
read a fold of it. Cosmos never moves money: it *holds* budget for an ALLOW, and
the hold ends by the rail's report or by a deadline.

This directory holds TLA+ modules translated from that code, the TLC runs that
check them, and the TLAPS proofs of what the core of it guarantees.

## 1. The system

| part | state | operations | talks to |
|---|---|---|---|
| guardrails, agent view (`core/guardrails.js`, `core/agent-view.js`) | none | `evaluate`, `decide`, `spentToday` | called under the grant's lock |
| approval line (`core/approvals.js`) | the `pending` map, one per process | `needsApproval`, `record`, `resolve`, `rehydrate` | authorize and approvals routes, boot |
| rail lifecycle (`core/rail.js`) | none: a fold of the log | `railState`, `reportEvents`, `sweepable` | settlements route; its rules are repeated by the sweep |
| store (`core/store.js`) | file, events, queue, lock chains, idempotency index | `append` (group commit), `withLock`, load | every route |
| replay (`core/replay.js`) | none: a fold of the log | `replay` | every decision, the audit script |
| grants (`api/grants.js`) | none | `createGrant`, `loadGrants` | store |
| authorize (`api/authorize.js`) | none of its own | sweep, decide, record; `rehydrateIdem` | store, pending map, signer |
| approvals (`api/approvals.js`) | none of its own | resolve | store, pending map, signer |
| settlements (`api/settlements.js`) | none of its own | authenticate, one-shot outcome, report | store, signer |
| boot (`api/server.js`) | - | load, rebuild index and pending map | all of the above |
| reference rail (`examples/reference-rail/rail.js`) | the outbox file, live flushes | `/pay`, `enqueue`, `flush` | `POST /settlements` |
| keystore (`core/receipt-keystore.js`) | registry of keys | sign, rotate, revoke, export | signer of every receipt |
| MCP gate (`mcp/`) | pending requests both ways | `tools/call`, elicitation, forward | `/authorize`, `/approvals`, an upstream |
| x402 verifier (`x402/evc-verifier.js`) | none: one process per payment offered | `decide`, a two-second timer | `/authorize` |
| capability commitment (`core/capability-commitment.js`) | none | commit, prove, verify, `reCommit` | receipts; parties that hand authority down |
| receipts (`core/receipt.js`, `core/cose.js`, `core/cbor.js`) | none | `issue`, `verify` | keystore, commitment; every route that signs |
| Python verifier (`verifier/cosmos_verify.py`) | none | `verify` of a receipt and a key set, offline | nothing |
| HTTP, operator authentication, evidence and JWKS routes, JCS, envelope, scripts | none | parsing, reads, tooling | - |

**What is hard here.** Node runs one handler at a time from one `await` to the
next; between them anything else may run. A handler looks at the index or at
`railState`, waits for the grant's lock, waits for the fsync of its sweep, and
waits for the fsync of its records; a retry, a second approver, a contradicting
report or a kill may come at each of these points. The group commit makes the
records of several requests durable together, and a power loss or a failed write
leaves any part of them in the file. Budget is given back by a timer and taken
again by a late report. The rail has the mirror image of this problem with its
outbox. The MCP gate waits for three parties, any of which may answer late or
never, and what it gave up on may still happen at Cosmos or upstream. The
keystore lives in one process and its receipts for ever: what a restart knows is
what the operator saved before it. An x402 verifier lives for one payment and
gives up on Cosmos after two seconds; what it gave up on may still be decided, and
the same challenge may be offered to the next process. Receipts and commitments
are read by parties Cosmos never meets, in another language, from bytes and proofs
that came by any way.

**What makes each part correct.**

* *lifecycle and balance*: the balance is the sum of the standing holds; budget
  returns only by a deadline or the rail's `failed`; a terminal outcome is final;
  no ALLOW passes the budget; only a late settlement can.
* *requests and store*: seen through the log, the interleaved server is the
  one-decision-at-a-time `Authority`; a key is decided once; an ALLOW that was
  answered is readable by the next boot; the memory maps are those a boot would
  rebuild; no rejection leaves a request waiting.
* *rail*: the outcome of an executed payment is never lost, Cosmos ends with
  that outcome, and the response says truly whether it was delivered.
* *gate*: what Cosmos, and the human if asked, did not allow never reaches the
  upstream; what was refused never runs later; every call is answered.
* *keystore*: one key signs at a time; a receipt stays verifiable through
  rotations and restarts unless its kid is revoked, and a revocation is for good.
* *x402*: a payment is allowed only on an ALLOW of Cosmos for that purchase and
  amount, once per purchase however often it is retried; a refusal stays one; every
  process says something.
* *commitment*: a root proves the members of its set and nothing else; authority
  that is handed down narrows on both axes; a band belongs to one party and one set.
* *receipts*: two verifiers written apart accept the same bytes; bytes that verify,
  damaged or not, say what was issued.

## 2. The modules

| module | models | form |
|---|---|---|
| `Policy` | `evaluate`, `decide`, the approval line | operators |
| `RailState` | `railState` as one update per event kind; who may report what | operators |
| `Money` | sums over finite sets, as the cardinality of a set of minor units | operators |
| `Authority` | the whole of grants, decisions, approvals and reports, one critical section per step | state machine |
| `Store` | file, torn lines, queue, group commit, crash, load | actions for `Server` |
| `Folding` | the loop over a log that every fold of it is | operator |
| `EventLog` | the records and every fold of them | operators |
| `Server` | requests, event loop, lock chains, index, pending map, faults, boot | state machine over `Store` and `EventLog` |
| `ServerImplements` | the refinement `Server` => `Authority` | `INSTANCE ... WITH` |
| `ReferenceRail` | `/pay`, outbox, flush, restart, against Cosmos's one-shot outcome | state machine |
| `McpGate` | `tools/call` of `mcp/server.js` between client, Cosmos and upstream | state machine |
| `Keystore` | the key registry, its configuration, restarts | state machine |
| `X402` | verifier processes, their POSTs and timers, the operator | state machine over `Authority` |
| `Capability` | Merkle tree, membership and scope proofs, bands | operators |
| `Delegation` | parties that commit and re-commit | state machine over `Capability` |
| `Cbor`, `Receipt`, `CosmosVerify` | bytes of a receipt; `verify()` in JavaScript and in Python | operators |
| `Evidence` | receipts, whole or damaged, before both verifiers | `Keystore` with the three above |
| `MCAuthority`, `MCX402`, `MCServer`, `MCReferenceRail`, `MCMcpGate`, `MCDelegation`, `MCEvidence` | instances for TLC | definitions |
| `FoldTheorems` | induction over a log, for each fold of it | lemmas |
| `AuthorityProofs` (and of `X402`), `ServerProofs`, `ReferenceRailProofs`, `McpGateProofs`, `KeystoreProofs`, `DelegationProofs`, `ServerImplementsProofs` | what the runs cannot show for every instance | theorems |

`Authority` is the abstract specification: what Cosmos promises, in terms of the
folds its handlers read. Its variables are `policy` (loadGrants), `life`
(railState of each authorization), `req` (the rest of the decision record),
`spent` and `today` (the two folds of a grant's balance), `pending`, and
`lateHeld`, a history variable. An action is one critical section of
`store.withLock`, with everything the handler does in it: `Authorize` sweeps,
decides, escalates and records in one step; `AuthorizeFails` is the same request
when its second append or the signer throws, which leaves the reversals alone.
`later` is the clock `evaluate()` reads for itself, at or after the `now` of the
handler.

`Server` has the requests. A request is at a program counter between two awaits;
`Quiet` says that no continuation is due, so that arrivals and drains happen only
when Node's loop would run them. `Lock`/`Release` are the promise chain of
`withLock` as a queue. `Drain` commits every queued append at once;
`DrainFails` and `PowerLoss` leave in the file any number of the batch's lines,
the last of them whole, without its newline, or followed by a piece of the next;
an unterminated line swallows the first record of the next write. `Boot` loads
what parses and rebuilds the index and the pending map. What the clients ask is a
variable that never changes (`client`, one of `Clients`), so that one run covers
several sets of requests, each with a clock bound of its own. A kill without power loss
(`Crash`) leaves the one write call of the batch wholly in the file or not at
all. `told` and `lastNow` are history variables.

In `ServerImplements` the clock of `Authority` is the last `now` read under the
grant's lock and the rest is folded from the log (what the process holds, or what
the next boot will load). The commit of a batch is then the step of the request
it covers. The refinement is of each
grant by itself: the records, the lock and the clock of the others are not seen,
though they share its batches.

`McpGate` has a program counter per call between the awaits of its handler, and
the peers as actions of their own. A POST is on the `wire` from `fetch()` until
Cosmos handles it; `FetchFails` ends the fetch and leaves the POST where it is.
Cosmos is what the gate sees of `Authority`: one decision per call (the gate draws
a new idempotency key for each) and a one-shot resolution, by the gate's POST or by
somebody else's. `serverPending` of the code is `pc[c] = "asking"`, so a line that
comes after the timer is read by nobody. Both timers are real time in the code and
may fire at any moment here.

`Keystore` has the registry of the running process and `config`, which is what the
operator has saved: a signing key and a list of retired ones, each saved on its
own. `Exit` may come between any two steps; `Boot` knows `config` only. The code
can keep receipts verifiable only if the operator saves what `rotate()` and
`revoke()` ask for, so `careful` records whether that was so at the end of every
process (`Carried`) and whether no retired kid was taken again.

`X402` takes the whole of `Authority` as its environment: `Handle` is a POST that
reaches `/authorize`, `Elsewhere` an operator, an approver or the clock. `wire` is
the set of processes whose POST is under way, which a process that has given up
leaves there. An offer is what decide() reads from stdin, with the members it looks
at; what it refuses by itself is decided in the order of the code (`refusal`). The
purchase an offer is for is its key: `X402Assumption` states what the code leaves to
the deployer, that two offers under one key are one purchase of one amount. Nothing
ties a key to an amount in the code, so without it a changed amount under a reused
key is allowed on the old decision.

`Capability` takes a digest to be the term it is a digest of, so two digests are
equal exactly when their preimages are, and a signature to be the key it was made
with. The preimage of a leaf keeps the code's bar between type and value, and the
assumption that no type contains one is what makes leaves exact. `Proved` pairs each
set with what its root proves along the honest paths and along every path that can
be put together of digests up to two levels. In `Delegation` the grants are the
commitments made; `Circulating` is every band that was signed and bands that nobody
signed; `ReCommit` takes any two of them, any root, nonce and key that some grant
has, and the tree of any grant, since reCommit() does not compare the tree with the
root.

`Cbor` has a byte as its three high and five low bits and a name, digest or
signature as one token that counts as one byte. `Receipt` and `CosmosVerify` are
the two readers, each from its own source: order of the checks, what is decoded
when, what throws. In Python an exception outside the `try` is a traceback
(`"crash"`). `Evidence` gives both every receipt that the process of `Keystore` has
issued, whole, with any one byte changed, left out or added, or cut anywhere, and
the key set that is published at that moment.

## 3. The runs

All runs but `gate`, whose client may always initialise again, turn deadlock checking
off: every instance is finite, so a run ends when its slots, ids or clock are used up.
`server_approvals` and `rail` ask instead that every request, and every payment, ends.

| run | instance | shows |
|---|---|---|
| `lifecycle` | one grant of 2, without an approval line or with one at 1, amounts 1-2, 3 authorizations, TTL 2, grace 1, day 4, clock to 5 | balance, bound, final outcomes and deadlines over every order of sweep, report and midnight |
| `escalations` | 2 verifier processes, 6 offers (two challenges of one price, a larger one under a key of the deployer's, one of nothing, two refused unseen); a grant with a line or one in free rein that expires; 3 authorizations; fairness | allowed means decided, once per purchase, within budget and held; refusals stand; one resolution per escalation; every process speaks |
| `server_races` | two sets of clients: request, retry, rival and a second grant's request; and request, later request that sweeps, settlement and a contradicting `failed`; 1 kill | refinement; a key is decided once and answered alike; answered ALLOWs are in the file; the sweep's fold and `railState` agree |
| `server_approvals` | escalation, retry, approver, denier; 1 kill or failed write; fairness | refinement; every request ends |
| `server_faults` | escalation, approval, sweeping request, operator's late report; 1 power loss or failed write | the memory maps are the boot's; every part of a batch balances |
| `gate` | 2 calls of any kind, each POST lost, late or refused; an operator; 1 exit; fairness | what ran was allowed; what was refused never runs or is resolved by the gate; every call ends |
| `delegation` | 2 parties, 2 nonces, 3 capabilities in 3 sets, limits on and off a ladder of 2 bands, 2 forged bands, 3 commitments | roots are exact; chains narrow; bands stay where they were signed |
| `keys` | 3 kids, 3 keys, rotations, revocations and restarts without bound; each receipt whole and in every damaged form | one signer; receipts verify; revoked stays revoked; the verifiers agree; what verifies was issued |
| `rail` | 2 payments and the boot's flush at once; 2 kills or failed writes, 1 outage; fairness | nothing executed is lost; right outcome; only outages delay a report; every payment ends |

*Bounds.* Three authorizations are enough for one to expire, one to take its
place and one to meet the overrun; two payments of 2 do not fit a budget of 3, so
every rivalry is real. In `escalations` two processes are a payment and its retry or
its rival; of its offers two are one price under two challenges and one is two
prices under one grant, and a hold may expire between two of them. The clock runs past TTL, past the extended deadline and
past midnight. A lock needs a holder and a waiter, a batch two appends, and both
occur. Calls of the gate share only the client's capabilities and the process, so two
are enough. Three kids are two rotations, so that two retired keys are carried at
once; `keys` stops where the operator has broken a rule, past which its properties
ask nothing (`SignerIsOne` is proved there too). Three commitments are a chain of two
links, the second of which may name a grant, and use a tree, that is not its
parent's; three capabilities make an odd level; two of them are told apart only by
where the bar stands. `Damaged` changes one place of a receipt: a byte to another
head of the same type, of another type, or of a longer argument, or the kid to
another kid; what changes two places and still verifies would need a signature
(`signers`). A torn batch is three or four records and every cut of it is a state. The
rail needs two payments for a lost update. `MaxTime`, `MaxFaults`, `MaxOutages`, `MaxInFlight`, `MaxGrants`, `MaxExits` and
the numbers of request slots, ids and processes are the only bounds on behaviour;
each is a guard of its own.

*Fairness.* `LoopFairness` is weak fairness of the drain, which `schedule()` has
put on the loop, and of each request's due continuation, which the loop runs. No
fairness is assumed of clients, approvers, rails, the clock or the boot.
`ReferenceRail` assumes that a `fetch` ends (undici times out) and that the loop
runs what it resolves; none of payments or restarts. `McpGate` assumes that a
fetch ends and that its two timers fire, and nothing of Cosmos, the human or the
upstream. `X402` assumes of each process that it reads an answer that has come or
that its timer fires, and nothing of Cosmos or the network.

Of the type invariants the runs check that of `Authority`; those of `Server`,
`ReferenceRail`, `McpGate`, `Keystore` and `Delegation` are proved.

### Where the code and its words disagree

Three runs expect a violation; each quotes the line it is about in
`PROJECT.json`.

| run | what TLC shows |
|---|---|
| `claim_torn_tail` | a torn last line swallows the first record of the next batch: an acknowledged ALLOW loses its decision at the boot after |
| `claim_failed_fsync` | a rejected commit that is in the file, and its retry, both count after a restart |
| `claim_lost_update` | concurrent flushes of the rail lose a queued report |

The bounds of the passing runs say where their properties stop. Each of these
fails as soon as the bound is lifted, and TLC shows how:

* `SweepReadsLifecycle` with `"power"` in `Faults`: half a late settlement is a hold
  with no deadline for the sweep and an expired one for `railState`, so no sweep
  ever ends it (`api/authorize.js:41`, `core/rail.js:73-75`).
* `ReplayedAllowHolds` with `"power"` in `Faults`: a batch torn after the decision
  leaves an index that answers ALLOW with no reservation behind it, against
  README.md:119 of the repository (`api/authorize.js:214`).
* `LogBalances` with two faults: the record a torn line swallows may be the
  decision of a hold.
* `NothingLost` and `OnlyOutagesDelay` without their conditions on `spoilt`: a kill
  between truncating and writing the outbox loses its rows, and a report that
  cannot be queued is not sent either (`examples/reference-rail/rail.js:135`,
  `:200-204`).
* `ReceiptsVerify` without `careful`: the new key is in the configuration before
  `rotate()` and the retired list after it, so a restart in between publishes the
  new kid alone and every older receipt is KEY_UNKNOWN. Saving the JWKS before the
  key avoids it; `exportRetiredKeys()` cannot, since it leaves out the key that is
  about to be retired (`core/receipt-keystore.js:135`).
* `RevokedStays` without `careful`: a restart whose configuration still signs with
  the revoked kid makes it active again, even though the saved list says revoked
  (`core/receipt-keystore.js:70-71`).

* `VerifiersAgree` without `whole`: `decode()` of `core/cbor.js:79-83` ignores what
  follows the item, and `cosmos_verify.py:85` refuses it, so bytes appended to a
  receipt pass the one and not the other (`cosmos_verify.py:10-12`: "if this file
  and the issuer disagree by one byte, that is the bug we want to find").
* `AllowIsBacked` without the last conjunct of `X402Assumption`: a key the bundle
  brings twice with two amounts is one decision, and the second amount is allowed on
  the first (`x402/evc-verifier.js:94`, `api/authorize.js:82`).
* `AllowIsHeld` without its exceptions: the retry of a challenge after the sweep is
  answered with the ALLOW of a hold that is gone; and a `submitted` that the
  operator sends after the sweep moves the deadline of no hold (`core/rail.js:181`).
* `RootsAreExact` and the scope half of `NarrowNeverWiden` with a type that contains
  the bar: `category|merchant` with value `api` and `category` with value
  `merchant|api` have one leaf, against `core/capability-commitment.js:41-42` ("can
  never be replayed as a value in another").
* `SetsNarrow` without `Shown`: `reCommit` never compares `parentTree.root` with
  `parentRoot`, so the set it commits to may be of another tree; only who checks
  `parent_membership` against the root sees it (`core/capability-commitment.js:150-153`).

More differences are in the models and no property is about them: on a damaged
protected header the Python verifier ends with a traceback where its head promises a
printed reason (`cosmos_verify.py:6`, `:152`), and a payload that
does not decode is COSE_MALFORMED in JavaScript before the signature is looked at and
SIGNATURE_INVALID in Python; `True` is the header label 1 to a Python dict;
`verifyWithinLimit` compares the root of a band and never its nonce, so bands of two
grants of one party with one set are interchangeable, with the larger limit
(`core/capability-commitment.js:108-110`, `:129-135`); a POST that the x402 verifier
has given up on may still be allowed and hold budget until the deadline for a payment
that was refused;
 an approved
escalation has no capability, so its rail cannot report (`api/approvals.js:109`,
README.md:81); an escalation approved out of band holds budget for a tool call
that never runs, since the caller's retry has a new key (`mcp/server.js:46`, `:193`);
`submitted` is accepted after the sweep and extends nothing; `POST /approvals`
does not sweep, so an expired hold may refuse an approval; the rail's response
says `delivered` when another payment's queued report got through; a call that times
out at the upstream may still run, and the caller's retry is a second spend
(`mcp/proxy.js:57`).

## 4. The proofs

`AuthorityProofs` proves, for every finite set of authorizations, every set of
grants, keys, policies and amounts, and every TTL, grace and clock bound:

| theorem | property |
|---|---|
| `TypeCorrect` | `[]TypeOK` |
| `Balanced` | `[]BooksBalance` |
| `Bounded` | `[]BudgetBound` |
| `OverrunExplained` | `[]OverrunMeansLate` |
| `OutcomesAgree` | `[]OutcomeMatchesHold` |
| `Final` | `TerminalIsFinal` |
| `Released` | `OnlyRailOrTTLReleases` |
| `DeadlineKept` | `DeadlineNeverShrinks` |
| `AllowFits` | `AllowFitsBudget` |
| `ResolvedOnce` | `[]OneResolution` |

*Assumptions*: `AuthorityAssumption`, `PolicyAssumption`, `MoneyAssumption`, which
TLC evaluates on the instances.

*Argument.* The inductive invariant `IInv` is `TypeOK`, the four safety
invariants and `Shape`. `Shape` is what they need and do not say: an
authorization that does not exist holds nothing and belongs to no grant; one that
exists belongs to a minted grant; a pending one is an escalation. Each kind of
step is first shown to be one of a few opaque shapes (`Recorded`: a decision, its
hold and the sweep before it; `Reported`: one lifecycle updated), and the parts of
the invariant are proved of those shapes. `BooksBalance` is where the work is: a
sum over the holds of a grant must follow the set of holds as a sweep takes
several out and a decision puts one in. `Money` defines the sum as the cardinality
of a set of units, and the first section of `AuthorityProofs` proves what is needed of
it (empty sum, added element, disjoint union, removed subset, equal summands) from the
finite-set theorems, with no induction. `ServerProofs` has the same lemmas: neither
module can extend the other, since their variables differ. The action properties follow from `IInv` and one
lemma on what a step can do to one authorization (`Changed`). `OneResolution` is not
inductive, since it says nothing of an escalation that is still pending: `Descent`
adds that a resolution descends from an escalation, and that an authorization that
does not exist descends from nothing.

The second half of `AuthorityProofs`, for every set of processes, nonces and offers that satisfies
`X402Assumption` and every loss, delay and timeout:

| theorem | property |
|---|---|
| `AnswersAuthority` | `X402Spec => Authority!Spec`, a step of `X402` is a step or a stutter of `Authority` |
| `PaymentsFit` | `AllowFitsBudget` |
| `PaymentsResolveOnce` | `[]OneResolution` |
| `Backing` | `[]AllowIsBacked` |
| `Refusals` | `[]RefusalStands` |
| `AllowedIsHeld` | `AllowIsHeld` |

*Argument.* The first three carry what is proved of `Authority` over to what is seen
through the verifiers. `XInv` adds that a key of a grant has one decision
(`KeyedOnce`) and that each verdict is that of the decision its offer's key has now
(`Backed`); since a decision that is recorded keeps its request, verdict and amount
(`Grows`), a late POST, a retry or a resolution cannot make a verdict untrue. For
`AllowIsHeld` every ALLOW is shown to stand, to be past its deadline, or to have been
reported on (`StandsOrPast`): the rail's credential, which alone could give the
budget back early, never leaves the verifier.

`ServerProofs`, for every set of clients and what they send, every set of grants,
keys and ids, and every number of faults of the kinds named. *Kill* is the death of
the process alone; *power* and *write* may tear the batch at any line.

| theorem | property | faults |
|---|---|---|
| `ServerProofs!TypeCorrect` | `[]TypeOK` | any |
| `CachesAreExact` | `[]CachesMatchLog` | any |
| `Exclusive` | two requests are never in the critical section of one grant | any |
| `KeysDecidedOnce` | `[]KeyDecidedOnce` | any but *write* |
| `BalancesAreHolds` | `[]LogBalances` | *kill*; or one of any kind |
| `SweepIsLifecycle` | `[]SweepReadsLifecycle` | *kill*; or one *write* |
| `AllowedIsDurable` | `[]AllowIsDurable` | *kill* |
| `ReplayedHasItsHold` | `[]ReplayedAllowHolds` | *kill* |
| `AnswersNeverDiffer` | `[]AnswersAgree` | *kill* |

The hypotheses are where the code stops giving the guarantee, and TLC has the
counterexample on the other side of each: `claim_failed_fsync` decides a key twice
after a write error, `claim_torn_tail` loses an answered ALLOW after a power loss,
and the list above has the torn late settlement and the second fault.

*Argument.* A handler's step is first classified by what it does to the lock, the
queue and the two maps (`Shape`: turned away, takes the lock, queues records, leaves
the lock, ...), so that each conjunct of the invariant is proved once per shape and
not once per handler. The inductive invariant `Inv` is `TypeInv` and
`LockInv` (the queue of a lock is duplicate-free and holds exactly who waits for it),
`DownInv` (nothing survives in memory), `BatchInv` (the batch is the records of the
requests that wait for the drain, and which record is whose), `MintInv`, `FreshInv`
(no two decisions under way have one id, and no log has seen it), and `PendingInv`
and `IdemInv`, which say of each map how it differs from the log's while a durable
request has its last turn to take. `CachesMatchLog` is those two when there is no
such request; neither is inductive without the lock and the batch.

`OnceInv` adds that the file decides no key that the running process does not know
to be decided, which a failed write breaks and a torn one does not. `KillInv` adds
that the file is what the process has read, that every ALLOW in the file or the batch
is there whole, and that what was told is in the file.

`BooksInv` is about money. `Books` says of a log that the balance is the sum of the
holds, with what makes that inductive over one more record: who owns an
authorization, that it is decided once, that amounts repeat the decision's and that
an open row of the sweep is a hold. `Steady(es, rs)` says that *every prefix* of `rs`
keeps the books of `es`, because a power loss may keep any; each handler is shown to
queue records that are steady behind what is queued already. Two requests of one
grant cannot both be about to: the lock (`BatchApart`), so that what a handler read in
the log is still so behind the batch (`BatchSkips`). `MirrorsInv` adds, for whole
batches only, that the row the sweep keeps of an authorization is open and expires
exactly when its lifecycle does (`Mirrored`); a late settlement breaks it with its
first record and mends it with its second.

What a fold says of a longer log is what all of this rests on. A recursive
definition cannot be unfolded by induction here, but the least length at which a claim
fails can be looked for: `FoldTheorems` proves from the well-founded-induction
theorems that a claim which holds of the empty log and is kept by one record holds of
every log, for a step and a claim that are its constants, and `ServerProofs` takes an
instance of it for each fold.

*Assumptions*: `ServerAssumption`, `MoneyAssumption`, `PolicyAssumption`. That no grant is
minted twice is among them, since `newId('grant')` is not modelled.

`ServerImplementsProofs`, for the same sets, any number of *kills*, or one fault of
*kill* or *write*, and no power loss:

| theorem | property |
|---|---|
| `ServerImplementsAuthority` | `ImplementsAuthority` |

*Argument.* `view(es)` is a log as one grant's `Authority` reads it: the policy, the
decisions, the lifecycles, what is pending, the balance, the late holds and the count
of every day. `Shows` says that a view and a time are what `Authority`'s variables are,
and each `Maps...` lemma that a step of one view to another (`Minted`, `Swept`,
`Authorized`, `Resolved`, `Reported`) is an action of `Authority`; so the rest of the
proof is about logs and views, and never about the instance. `viewStep` is what one
record makes of a view (`ViewAppend`), and the records that each handler queues are
shown to be one step of the view together, behind *any* log that owns the
authorization they name (`DecisionView`, `ReportView`, `SweepView`, `ResolutionView`,
`MintView`).

The invariant is `Sees(v, w, t)`: the process's log has the view `v`, it has the view `w`
once the batch is written, and `v` leads to `w` by one step of the grant at most, at the
time `t` when its lock was last taken (`Leads`). It is one step because a request that
is about to queue is alone in the grant's critical section (`Sole`), so that nothing of
the grant is in the batch before it (`SoleSame`) and what it read of the log is still so
behind the batch. `Relies` adds what a request carries over an await: the clock it read
is still the grant's, and what it swept is still swept, which is why a decision behind a
sweep is one of `Authority`'s although another batch was committed in between. Then a
request moves `w` and not `v`; a drain moves `v` to `w`; a rejected write drops `w`; a kill
leaves the one or the other in the file, whole (`StopFile`, which is where the hypothesis
on faults is used: a torn batch is half a step), and a boot reads it (`ViewBoot`). A clock
that is read with nothing queued is `Tick`. The proof uses `BooksInv` and `MirrorsInv`:
the sweep of the code reads rows of its own, and frees what `Authority`'s lifecycles say
is expired only because `Mirrors` holds.

*Assumptions*: `ImplementsAssumption` (there is a grant, the clients' clocks have a
bound, a policy is a whole record) and those of `ServerProofs`. The grant that is seen is
whichever `CHOOSE` gives of `Grants`; nothing else is used of it.

`ReferenceRailProofs`, for every set of payments and any number of kills, failed
writes, outages and overlapping handlers:

| theorem | property |
|---|---|
| `RailTyped` | `[]TypeOK` |
| `NeverLost` | `[]NothingLost` |
| `AtOnce` | `[]OnlyOutagesDelay` |
| `RightEnd` | `RightOutcome` |

*Argument.* Every row in the file, in a flush or kept by one is an announcement or
the payment's own outcome (`Honest`), from which `RightOutcome` follows whatever
order rows are sent in. `NothingLost` needs to know what a rewrite of the file may
drop: with one handler at work, what Cosmos does not have is in the file and also in
the rows that the flush has left or kept (`Alone`), so the file that the last row's
rewrite leaves has it too. `OnlyOutagesDelay` is about overlapping handlers, where
the file is no help: a report is in the flush of its own handler until Cosmos has it
(`Prompt`).

`DelegationProofs`, for all parties, sets, ladders, limits and forged bands,
chains of any length and paths of any length and digests:

| theorem | property |
|---|---|
| `OnlyMembersProve` | what any path leads to a root from is in the root's set |
| `MembersProve` | `verifyMembership` accepts `membershipProof` of every member |
| `RootsProveTheirSets` | `[]RootsAreExact` |
| `AuthorityNarrows` | `[]NarrowNeverWiden` |
| `NeverAboveParent` | `[]CeilingsNarrow`, the first half of `NarrowNeverWiden` |
| `NoBandLifted` | `[]BandsStayHome` |
| `GrantsTyped` | `[]TypeOK` |

*Argument.* A band that verifies for a key and a root is one of the bands some grant
of that party signed (`BandsAreIssued`), within its limit. A re-commitment's ceiling
is the highest of its bands, so it is within a grant that was there before; that one
is within a party's own, by the invariant, which adds that a grant's root is its set's
(`RootsCommitted`).

The tree's levels, the places on the way up and the digest a path leads to are folds of
one step each, so `FoldTheorems` applies with the level as the length. The leaves are
the members, each at its place: `place` is a bijection because the order is total
(`PlacesAreTaken`), and a leaf says which capability it is because no type has the bar
(`JoinedAreSame`). Levels halve, so one of them has one node (`TreeIs`). A path that
leads to a node of some level ends with a step whose two parts are nodes of the level
below, or is empty and the node is a leaf: the lowest level at which a path of a
capability outside the set could end is none (`LevelsProve`). The other way,
`JoinIsAbove` climbs one level, the odd last node included, and `WayUp` all of them.

`KeystoreProofs` and `McpGateProofs`, for every set of kids, keys and calls:

| theorem | property |
|---|---|
| `KeystoreProofs!TypeCorrect` | `[]TypeOK` |
| `SignerIsOne` | `[]OneSigner` |
| `NoOrphan` | `[]ReceiptsVerify` |
| `RevokedForEver` | `[]RevokedStays` |
| `OnlyAllowedRuns` | `[]RunsOnlyAllowed` |
| `NeverRuns` | `[]RefusedNeverRuns` |
| `StaysOpen` | `[]OutOfBandIsOpen` |
| `DeniedForEver` | `[]DenialIsFinal` |

*Assumptions*: `KeystoreAssumption` and `GateAssumption`; and, for the verifier, the
rail and the delegations above, `X402Assumption`, `RailAssumption`,
`CapabilityAssumption` and `DelegationAssumption`. TLC evaluates every one of them on the instances.

*Argument.* A receipt verifies after a restart because of what the process before
it left behind, so the invariant of the keystore speaks of the process and of its
configuration: as long as the operator has been careful, the registry knows every
kid that has signed while the process is up (and marks every revoked one) while the process is up (`Kept`), and what a boot
would load does while it is down (`Ready`); `Carried` at the exit leads from the one to the
other. Of the gate the invariant is stated per call (`CallInv`), since calls do not
touch one another: what the handler has told and sent at each await, what Cosmos
has on record, that an answer waiting to be read is that record, and what a POST
still under way may ask for (`Underway`), which is why a late POST cannot undo what
the caller was told. A turn of a handler ends in one of four ways, a return or an
await of Cosmos, of the human or of the upstream; each is proved once and every
action is shown to be one of them.

*Only model-checked*: what the verifiers make of bytes (`VerifiersAgree`,
`OnlyIssuedVerifies`), whose operators are recursive over data and format bytes one by
one; and liveness (`EveryProcessSpeaks`, `EveryRequestEnds`, `PaymentsEnd`, `CallsEnd`),
which is beyond this prover. `ServerImplementsAuthority` is not put together with the
theorems on `Authority` into theorems about the server's log; what is proved of the log
directly is the table of `ServerProofs`. After a power loss that tears a batch, the
refinement is neither claimed nor checked (`claim_torn_tail` shows why); the theorems of
`ServerProofs` whose faults include *power* are what remains.

## 5. What is not modelled

Of receipts: the fields no verifier reads, arguments of four and eight bytes, JCS,
`open()`, and what `cosmos_verify.py` prints. The authorization envelope and the
hashes of a policy are functions of the decision. `proveWithinLimit`, which picks the
band to show; the paths that TLC tries in `RootsAreExact` stop at two levels of foreign
digests, those of `OnlyMembersProve` do not. Authentication of operators, the shape checks of requests and of
`validateReport`; HTTP; `findReceipt` and the self-check of `/evidence`; scripts, the
ledger audit among them, whose comparison `LogBalances` and `CachesMatchLog` state of
every state. `fund`, `freeze` and `unfreeze` events are folded by `replay` and written
by nothing. `Date.now()` is monotone in every module. The rail's destinations and
credentials are configuration; a report is retried by the next payment or start only,
and no delivery in time is claimed. Hazards without a property are listed in
`PROJECT.json` with the reason.

## 6. Plan

Done: 1. `Policy`, `RailState`, `Authority` and its runs; 2. `Money`, the proofs of
`Authority`; 3. `Store`, `EventLog`, `Server`, the refinement; 4. `ReferenceRail` and
its proofs; 5. `McpGate` and its proofs; 6. `Keystore` and its proofs; 7. `X402` and
its proofs; 8. `Capability`, `Delegation` and its proofs; 9. `Cbor`, `Receipt`,
`CosmosVerify`, `Evidence`; 10. `FoldTheorems` and the proofs of `Server`; 11. that `Server` implements
`Authority`, as a theorem.

Next, in this order:

1. `validateReport` and the operator policy of `api/auth.js` as operators, so that
   `MAY_REPORT` is reached from a request and not from a class.
2. A model of an operator who retries, for the mint and the approval whose batches a
   power loss tears.
