-------------------------- MODULE ServerImplements --------------------------
(***************************************************************************)
(* The server implements module Authority: seen through the log, a grant's *)
(* history is a history of whole decisions, taken one at a time.  A commit *)
(* is the step of the request it covers, reading the clock under the lock  *)
(* is the passing of time, and the sweep and the decision of one request   *)
(* are two steps of which a crash may leave the first.                     *)
(***************************************************************************)
EXTENDS Server

\* A grant of which no other grant's records, locks or clock are seen.
theGrant == CHOOSE g \in Grants : TRUE

mine(a) == decisionOf(log, a).g = theGrant
nobody == [ grant |-> None, key |-> None, parent |-> None, reason |-> "none" ]
only(f) == [g \in {theGrant} |-> f[g]]

Ledger == INSTANCE Authority WITH
  Grants <- {theGrant}, clock <- lastNow[theGrant],
  MaxTime <- Max({c.maxTime : c \in Clients}),
  policy <- only(logPolicy), spent <- only(logSpent), today <- only(logToday),
  lateHeld <- only(logLate), pending <- {a \in pendingOf(log) : mine(a)},
  life <- [a \in AuthIds |-> IF mine(a) THEN logLife[a] ELSE NoState],
  req <- [a \in AuthIds |-> IF mine(a) THEN logReq[a] ELSE nobody]

\* There is a grant; the clients' clocks are bounded; a policy is a whole record.
ASSUME ImplementsAssumption ==
  /\ Grants # {}
  /\ \E c \in Clients : \A d \in Clients : d.maxTime <= c.maxTime
  /\ Policies \subseteq Ledger!PolicyRecord

\* The behaviours of the server, with its crashes and restarts, are behaviours
\* of Authority for each of its grants, other grants' records in the same
\* batches or not.  This is Ledger!Spec with the stutter, which most steps of
\* the server are, looked at before the steps of Authority.
ImplementsAuthority == Ledger!Init /\ [][UNCHANGED Ledger!vars \/ Ledger!Next]_(Ledger!vars)
=============================================================================
