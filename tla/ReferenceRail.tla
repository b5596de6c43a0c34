--------------------------- MODULE ReferenceRail ---------------------------
(***************************************************************************)
(* examples/reference-rail/rail.js: a payment is announced to Cosmos,      *)
(* executed, and its outcome reported, through an outbox file that flush() *)
(* reads whole, sends row by row and rewrites whole.  Each `await` of a    *)
(* POST lets another payment's handler, or the flush of the boot, run.     *)
(*                                                                         *)
(* Cosmos is the other end of the POST: POST /settlements as module        *)
(* Authority has it, seen from here.  A row is a payment and an outcome;   *)
(* destinations and credentials are configuration and are left out.        *)
(***************************************************************************)
EXTENDS Integers, Sequences, FiniteSets

CONSTANTS
  Payments,      \* POST /pay requests
  Boot,          \* the flush of the boot
  MaxInFlight,   \* bound on the flushes under way at once
  MaxOutages,    \* bound on the POSTs the transport fails
  Faults,        \* the faults that may happen: "kill", "torn", "disk"
  MaxFaults      \* bound on their number

ASSUME RailAssumption ==
  /\ Boot \notin Payments
  /\ MaxInFlight \in Nat \ {0} /\ MaxOutages \in Nat /\ MaxFaults \in Nat
  /\ Faults \subseteq {"kill", "torn", "disk"}

VARIABLES
  up,        \* the process runs
  outbox,    \* the rows of the outbox file
  pc,        \* where each payment's handler is
  flight,    \* the flush() of each handler: rows to send, rows kept, receipts
  executed,  \* the outcome of the payment, once it has one
  answer,    \* cosmos_report of the response
  cosmos,    \* the outcome Cosmos has on record
  outages, faults,
  spoilt     \* history: "overlap" of two handlers, a "write" that failed

vars == <<up, outbox, pc, flight, executed, answer, cosmos, outages, faults, spoilt>>

Flushers == Payments \cup {Boot}
Outcomes == {"submitted", "settled", "failed"}
Rows == [p : Payments, outcome : Outcomes]
NoFlush == [rows |-> <<>>, keep |-> <<>>, receipts |-> {}]

Init ==
  /\ up = TRUE
  /\ outbox = <<>>
  /\ pc = [q \in Flushers |-> "idle"]
  /\ flight = [q \in Flushers |-> NoFlush]
  /\ executed = [p \in Payments |-> "none"]
  /\ answer = [p \in Payments |-> "none"]
  /\ cosmos = [p \in Payments |-> "none"]
  /\ outages = 0 /\ faults = 0 /\ spoilt = {}
-----------------------------------------------------------------------------
Busy == {q \in Flushers : pc[q] \in {"announcing", "reporting", "flushing"}}

\* Mutant: the caller waits until nothing is left in the outbox.
ReturnedDelivered(q) == q \in Busy /\ flight[q].rows = <<>> /\ flight[q].keep = <<>>

\* flush() of q has returned, and its caller goes on before anything else.
Returned(q) == q \in Busy /\ flight[q].rows = <<>>

Quiet == up /\ \A q \in Flushers : ~Returned(q)

\* flush() starts by reading the outbox.
Reading(rows) == [NoFlush EXCEPT !.rows = rows]

(***************************************************************************)
(* writeOutbox(): truncate the file, then write it.  A full disk or a kill *)
(* in between leaves any number of the rows; the open itself may fail too. *)
(***************************************************************************)
writeOutbox(rows, fate) ==
  \/ fate = "done" /\ outbox' = rows /\ UNCHANGED faults
  \/ /\ fate \in Faults \cap {"torn", "disk"} /\ faults < MaxFaults
     /\ faults' = faults + 1
     /\ \/ \E n \in 0..Len(rows) : outbox' = SubSeq(rows, 1, n)
        \/ fate = "disk" /\ outbox' = outbox

Fates == {"done", "torn", "disk"}
Spoils(fate) == IF fate = "done" THEN {} ELSE {"write"}

\* The process is gone with every handler in it.
Dies ==
  /\ up' = FALSE
  /\ pc' = [q \in Flushers |-> IF q \in Busy THEN "lost" ELSE pc[q]]
  /\ flight' = [q \in Flushers |-> NoFlush]

\* Mutants: try before persisting; leave the sending to a flush under way.
TryFirst(p, outcome, at, fate) ==
  /\ fate = "done"
  /\ pc' = [pc EXCEPT ![p] = at]
  /\ flight' = [flight EXCEPT ![p] = Reading(Append(outbox, [p |-> p, outcome |-> outcome]))]
  /\ UNCHANGED <<up, outbox, faults>>
LeaveToOthers(p, outcome, at, fate) ==
  /\ fate = "done"
  /\ outbox' = Append(outbox, [p |-> p, outcome |-> outcome])
  /\ pc' = [pc EXCEPT ![p] = at]
  /\ flight' = [flight EXCEPT ![p] = IF Busy \subseteq {p} THEN Reading(outbox') ELSE NoFlush]
  /\ UNCHANGED <<up, faults>>

\* reportSafely() of p up to its first await: enqueue, whose failure is
\* swallowed, then flush.
ReportSafely(p, outcome, at, fate) ==
  /\ writeOutbox(Append(outbox, [p |-> p, outcome |-> outcome]), fate)
  /\ IF fate = "torn" THEN Dies
     ELSE /\ pc' = [pc EXCEPT ![p] = at]
          /\ flight' = [flight EXCEPT ![p] = Reading(outbox')]
          /\ UNCHANGED up

\* POST /pay arrives: announce.
Pay(p, fate) ==
  /\ Quiet /\ pc[p] = "idle" /\ Cardinality(Busy) < MaxInFlight
  /\ ReportSafely(p, "submitted", "announcing", fate)
  /\ spoilt' = spoilt \cup Spoils(fate) \cup (IF Busy = {} THEN {} ELSE {"overlap"})
  /\ UNCHANGED <<executed, answer, cosmos, outages>>

\* Mutant: a failed payment is reported like any other.
ExecuteSettled(p, outcome, fate) ==
  /\ up /\ Returned(p) /\ pc[p] = "announcing"
  /\ executed' = [executed EXCEPT ![p] = outcome]
  /\ ReportSafely(p, "settled", "reporting", fate)
  /\ spoilt' = spoilt \cup Spoils(fate)
  /\ UNCHANGED <<answer, cosmos, outages>>

\* The announcement returned: execute, and report how it ended.
Execute(p, outcome, fate) ==
  /\ up /\ Returned(p) /\ pc[p] = "announcing"
  /\ executed' = [executed EXCEPT ![p] = outcome]
  /\ ReportSafely(p, outcome, "reporting", fate)
  /\ spoilt' = spoilt \cup Spoils(fate)
  /\ UNCHANGED <<answer, cosmos, outages>>

\* The report returned: answer the caller, with the receipt under the outcome.
Respond(p) ==
  /\ up /\ Returned(p) /\ pc[p] = "reporting"
  /\ answer' = [answer EXCEPT ![p] =
       IF executed[p] \in flight[p].receipts THEN "delivered" ELSE "queued"]
  /\ pc' = [pc EXCEPT ![p] = "answered"]
  /\ UNCHANGED <<up, outbox, flight, executed, cosmos, outages, faults, spoilt>>

\* POST /settlements: a terminal outcome is one-shot, the same one replays.
Refuses(row) == cosmos[row.p] \in {"settled", "failed"} \ {row.outcome}
Accept(row) == cosmos' = IF Refuses(row) THEN cosmos ELSE [cosmos EXCEPT ![row.p] = row.outcome]

\* What one row leaves in flush(): delivered, dropped as permanent, or kept.
sent(f, reply) ==
  LET row == Head(f.rows)
  IN  [ rows |-> Tail(f.rows),
        keep |-> IF reply = "answered" THEN f.keep ELSE Append(f.keep, row),
        receipts |-> IF reply = "answered" /\ ~Refuses(row)
                     THEN f.receipts \cup {row.outcome} ELSE f.receipts ]

\* The POST of the first row left ends: answered, never arrived, or arrived
\* and its answer is lost.  After the last one the file is rewritten; a write
\* that throws there is caught by nobody and ends the process.
Post(q, reply, fate) ==
  LET f == sent(flight[q], reply)
  IN  /\ up /\ Quiet /\ q \in Busy /\ flight[q].rows # <<>>
      /\ IF reply = "unreachable" THEN UNCHANGED cosmos ELSE Accept(Head(flight[q].rows))
      /\ IF reply = "answered" THEN UNCHANGED outages
                               ELSE outages < MaxOutages /\ outages' = outages + 1
      /\ IF f.rows # <<>>
         THEN /\ fate = "done" /\ flight' = [flight EXCEPT ![q] = f]
              /\ UNCHANGED <<up, outbox, pc, faults>>
         ELSE /\ writeOutbox(f.keep, fate)
              /\ \/ /\ fate = "done" /\ flight' = [flight EXCEPT ![q] = f]
                    /\ pc' = IF q = Boot THEN [pc EXCEPT ![q] = "idle"] ELSE pc
                    /\ UNCHANGED up
                 \/ fate # "done" /\ Dies
      /\ spoilt' = spoilt \cup Spoils(fate)
      /\ UNCHANGED <<executed, answer>>

Kill ==
  /\ up /\ "kill" \in Faults /\ faults < MaxFaults
  /\ faults' = faults + 1
  /\ Dies
  /\ UNCHANGED <<outbox, executed, answer, cosmos, outages, spoilt>>

\* The rail starts again: what a previous life owes is owed now.
Start ==
  /\ ~up /\ up' = TRUE
  /\ flight' = [flight EXCEPT ![Boot] = Reading(outbox)]
  /\ pc' = [pc EXCEPT ![Boot] = IF outbox = <<>> THEN "idle" ELSE "flushing"]
  /\ UNCHANGED <<outbox, executed, answer, cosmos, outages, faults, spoilt>>

Next ==
  \/ \E p \in Payments, fate \in Fates :
       Pay(p, fate) \/ \E outcome \in {"settled", "failed"} : Execute(p, outcome, fate)
  \/ \E p \in Payments : Respond(p)
  \/ \E q \in Flushers, reply \in {"answered", "unreachable", "answer lost"}, fate \in Fates :
       Post(q, reply, fate)
  \/ Kill \/ Start

Spec == Init /\ [][Next]_vars

\* Every fetch ends, and the loop goes on with what it returns.
FairSpec ==
  /\ Spec
  /\ \A q \in Flushers : WF_vars(\E reply \in {"answered", "unreachable", "answer lost"},
                                    fate \in Fates : Post(q, reply, fate))
  /\ \A p \in Payments : WF_vars(Respond(p))
  /\ \A p \in Payments : WF_vars(\E outcome \in {"settled", "failed"}, fate \in Fates :
                                    Execute(p, outcome, fate))
-----------------------------------------------------------------------------
TypeOK ==
  /\ up \in BOOLEAN
  /\ outbox \in Seq(Rows)
  /\ pc \in [Flushers -> {"idle", "announcing", "reporting", "flushing", "answered", "lost"}]
  /\ flight \in [Flushers -> [rows : Seq(Rows), keep : Seq(Rows), receipts : SUBSET Outcomes]]
  /\ executed \in [Payments -> {"none", "settled", "failed"}]
  /\ answer \in [Payments -> {"none", "delivered", "queued"}]
  /\ cosmos \in [Payments -> Outcomes \cup {"none"}]
  /\ outages \in 0..MaxOutages /\ faults \in 0..MaxFaults
  /\ spoilt \subseteq {"overlap", "write"}

Queued(p) == \E i \in DOMAIN outbox : outbox[i] = [p |-> p, outcome |-> executed[p]]

\* The outcome of a payment that was executed is with Cosmos or in the outbox,
\* whatever is killed when, as long as one handler runs at a time and the disk
\* takes every write whole (rail.js: "never let a report be lost (persist
\* before you try)").
NothingLost ==
  spoilt = {} =>
    \A p \in Payments : executed[p] # "none" => cosmos[p] = executed[p] \/ Queued(p)

\* A response that says "queued" is of a report that is still owed, if Cosmos
\* did not get it in the meantime (rail.js: "STILL QUEUED").
QueuedIsOwed ==
  \A p \in Payments : answer[p] = "queued" => cosmos[p] = executed[p] \/ Queued(p)

\* Cosmos never has a terminal outcome on record other than the payment's, and
\* a late resend of the announcement does not take a terminal outcome back.
RightOutcome ==
  [][\A p \in Payments :
       cosmos[p] \in {"settled", "failed"} => cosmos[p] = executed[p] /\ cosmos'[p] = cosmos[p]]_vars

\* A payment whose handler ends is on record at once unless the transport
\* failed, whatever other handlers do to the outbox meanwhile; a report that
\* could not be persisted is the exception (rail.js reportSafely()).
OnlyOutagesDelay ==
  \A p \in Payments :
    pc[p] = "answered" /\ outages = 0 /\ "write" \notin spoilt => cosmos[p] = executed[p]

\* Every payment is answered or lost with the process, however long the queue
\* other payments have left.
PaymentsEnd == \A p \in Payments : p \in Busy ~> p \notin Busy
=============================================================================
