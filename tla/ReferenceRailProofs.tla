------------------------ MODULE ReferenceRailProofs ------------------------
(***************************************************************************)
(* What the reference rail keeps of the outcomes of its payments, for any  *)
(* set of payments and any number of kills, failed writes and outages.     *)
(***************************************************************************)
EXTENDS ReferenceRail, SequenceTheorems, TLAPS

-----------------------------------------------------------------------------
(* Rows in a sequence. *)

In(row, s) == \E i \in DOMAIN s : s[i] = row

LEMMA AppendIn ==
  ASSUME NEW s \in Seq(Rows), NEW r \in Rows
  PROVE  /\ Append(s, r) \in Seq(Rows)
         /\ \A x : In(x, Append(s, r)) <=> In(x, s) \/ x = r
<1>1. /\ Append(s, r) \in Seq(Rows) /\ Len(Append(s, r)) = Len(s) + 1
      /\ \A i \in 1..Len(s) : Append(s, r)[i] = s[i]
      /\ Append(s, r)[Len(s) + 1] = r
  BY AppendProperties
<1>2. DOMAIN s = 1..Len(s) /\ DOMAIN Append(s, r) = 1..Len(s) + 1 /\ Len(s) \in Nat
  BY <1>1, LenProperties
<1>3. ASSUME NEW x PROVE In(x, Append(s, r)) <=> In(x, s) \/ x = r
  BY <1>1, <1>2 DEF In
<1> QED
  BY <1>1, <1>3

LEMMA TailIn ==
  ASSUME NEW s \in Seq(Rows), s # <<>>
  PROVE  /\ Head(s) \in Rows /\ Tail(s) \in Seq(Rows) /\ In(Head(s), s)
         /\ \A x : In(x, s) <=> x = Head(s) \/ In(x, Tail(s))
<1>1. /\ Head(s) \in Rows /\ Tail(s) \in Seq(Rows) /\ Len(Tail(s)) = Len(s) - 1
      /\ \A i \in 1..Len(Tail(s)) : Tail(s)[i] = s[i + 1]
      /\ Head(s) = s[1] /\ Len(s) \in Nat /\ Len(s) # 0
  BY HeadTailProperties, EmptySeq, LenProperties
<1>2. DOMAIN s = 1..Len(s) /\ DOMAIN Tail(s) = 1..Len(s) - 1
  BY <1>1, LenProperties
<1>3. ASSUME NEW x, In(x, s) PROVE x = Head(s) \/ In(x, Tail(s))
  <2>1. PICK i \in 1..Len(s) : s[i] = x
    BY <1>2, <1>3 DEF In
  <2>2. CASE i # 1
    <3>1. i - 1 \in 1..Len(s) - 1 /\ (i - 1) + 1 = i
      BY <1>1, <2>2
    <3>2. Tail(s)[i - 1] = x
      BY <1>1, <2>1, <3>1
    <3> QED
      BY <1>2, <3>1, <3>2 DEF In
  <2> QED
    BY <1>1, <2>1, <2>2
<1>4. ASSUME NEW x, x = Head(s) \/ In(x, Tail(s)) PROVE In(x, s)
  <2>1. ASSUME NEW i \in 1..Len(s) - 1, Tail(s)[i] = x PROVE In(x, s)
    BY <1>1, <1>2, <2>1 DEF In
  <2>2. ASSUME x = Head(s) PROVE In(x, s)
    BY <1>1, <1>2, <2>2 DEF In
  <2> QED
    BY <1>2, <1>4, <2>1, <2>2 DEF In
<1> QED
  BY <1>1, <1>3, <1>4

LEMMA SubIn ==
  ASSUME NEW s \in Seq(Rows), NEW n \in 0..Len(s)
  PROVE  /\ SubSeq(s, 1, n) \in Seq(Rows)
         /\ \A x : In(x, SubSeq(s, 1, n)) => In(x, s)
<1>1. Len(s) \in Nat /\ DOMAIN s = 1..Len(s)
  BY LenProperties
<1>2. SubSeq(s, 1, n) \in Seq(Rows) /\ DOMAIN SubSeq(s, 1, n) = 1..n
      /\ \A i \in 1..n : SubSeq(s, 1, n)[i] = s[i]
  BY <1>1
<1> QED
  BY <1>1, <1>2 DEF In

-----------------------------------------------------------------------------
(* The inductive invariant. *)

report(p) == [p |-> p, outcome |-> executed[p]]

\* Every row is an announcement, or the outcome of the payment.
Truthful(s) == \A row \in Rows : In(row, s) => row.outcome \in {"submitted", executed[row.p]}

Honest ==
  /\ \A p \in Payments : executed[p] # "none" => pc[p] \in {"reporting", "answered", "lost"}
  /\ \A p \in Payments : pc[p] \in {"reporting", "answered"} => executed[p] # "none"
  /\ \A p \in Payments : cosmos[p] \in {"none", "submitted", executed[p]}
  /\ Truthful(outbox)
  /\ \A q \in Flushers : Truthful(flight[q].rows) /\ Truthful(flight[q].keep)

\* The outcome is with Cosmos or in one of the rows.
Owed(p, S) == executed[p] # "none" => cosmos[p] = executed[p] \/ \E s \in S : In(report(p), s)

\* One handler runs at a time, and its flush has what is not with Cosmos yet: the
\* file it will rewrite may be dropped.
Alone ==
  spoilt = {} =>
    /\ \A q, r \in Busy : q = r
    /\ \A p \in Payments : Owed(p, {outbox})
    /\ \A q \in Busy : flight[q].rows # <<>> =>
         \A p \in Payments : Owed(p, {flight[q].rows, flight[q].keep})

\* A report is in the flush of its own handler until Cosmos has it.
Prompt ==
  outages = 0 /\ "write" \notin spoilt => \A p \in Payments :
    /\ pc[p] = "reporting" => In(report(p), flight[p].rows) \/ cosmos[p] = executed[p]
    /\ pc[p] = "answered" => cosmos[p] = executed[p]

Inv == TypeOK /\ Honest /\ (~up => Busy = {}) /\ Alone /\ Prompt

-----------------------------------------------------------------------------
(* What the parts of an action do. *)

\* Cosmos moves only to what the row says, and never from a terminal outcome.
LEMMA Accepts ==
  ASSUME TypeOK, Honest, NEW row \in Rows, row.outcome \in {"submitted", executed[row.p]},
         UNCHANGED cosmos \/ Accept(row), NEW p \in Payments
  PROVE  /\ cosmos' \in [Payments -> Outcomes \cup {"none"}]
         /\ cosmos'[p] \in {"none", "submitted", executed[p]}
         /\ cosmos[p] \in {"settled", "failed"} => cosmos'[p] = cosmos[p]
         /\ Accept(row) /\ executed[p] # "none" /\ row = report(p) => cosmos'[p] = executed[p]
<1>1. row.p \in Payments /\ row.outcome \in Outcomes
  BY DEF Rows
<1>2. executed[p] \in {"none", "settled", "failed"} /\ cosmos[p] \in {"none", "submitted", executed[p]}
  BY DEF TypeOK, Honest
<1>3. CASE UNCHANGED cosmos /\ ~Accept(row)
  BY <1>2, <1>3 DEF TypeOK
<1>4. CASE Accept(row)
  <2>1. CASE Refuses(row)
    <3>1. cosmos' = cosmos
      BY <1>4, <2>1 DEF Accept
    <3>2. row = report(p) /\ executed[p] # "none" => FALSE
      BY <1>2, <2>1 DEF Refuses, report
    <3> QED
      BY <1>2, <3>1, <3>2 DEF TypeOK
  <2>2. CASE ~Refuses(row)
    <3>1. cosmos' = [cosmos EXCEPT ![row.p] = row.outcome]
      BY <1>4, <2>2 DEF Accept
    <3>2. cosmos[row.p] \notin {"settled", "failed"} \ {row.outcome}
      BY <2>2 DEF Refuses
    <3>3. cosmos' \in [Payments -> Outcomes \cup {"none"}]
      BY <1>1, <3>1 DEF TypeOK
    <3>4. CASE row.p = p
      <4>1. cosmos'[p] = row.outcome
        BY <1>1, <3>1, <3>4 DEF TypeOK
      <4> QED
        BY <1>1, <1>2, <3>2, <3>3, <3>4, <4>1 DEF report, Outcomes
    <3>5. CASE row.p # p
      <4>1. cosmos'[p] = cosmos[p] /\ row # report(p)
        BY <3>1, <3>5 DEF TypeOK, report
      <4> QED
        BY <1>2, <3>3, <4>1
    <3> QED
      BY <3>4, <3>5
  <2> QED
    BY <2>1, <2>2
<1> QED
  BY <1>3, <1>4

\* A write leaves rows of the new file or of the old one, and all of the new one
\* unless it fails.
LEMMA Writes ==
  ASSUME TypeOK, NEW rows \in Seq(Rows), NEW fate, writeOutbox(rows, fate)
  PROVE  /\ outbox' \in Seq(Rows) /\ faults' \in 0..MaxFaults
         /\ \A x : In(x, outbox') => In(x, rows) \/ In(x, outbox)
         /\ fate = "done" => outbox' = rows
<1>1. outbox \in Seq(Rows) /\ faults \in 0..MaxFaults /\ MaxFaults \in Nat
  BY RailAssumption DEF TypeOK
<1>2. CASE fate = "done" /\ outbox' = rows /\ UNCHANGED faults
  BY <1>1, <1>2
<1>3. CASE /\ fate \in Faults \cap {"torn", "disk"} /\ faults < MaxFaults /\ faults' = faults + 1
           /\ \/ \E n \in 0..Len(rows) : outbox' = SubSeq(rows, 1, n)
              \/ fate = "disk" /\ outbox' = outbox
  <2>1. faults' \in 0..MaxFaults /\ fate # "done"
    BY <1>1, <1>3
  <2>2. outbox' \in Seq(Rows) /\ \A x : In(x, outbox') => In(x, rows) \/ In(x, outbox)
    BY <1>1, <1>3, SubIn
  <2> QED
    BY <2>1, <2>2
<1> QED
  BY <1>2, <1>3 DEF writeOutbox

Flights == [rows : Seq(Rows), keep : Seq(Rows), receipts : SUBSET Outcomes]
States == {"idle", "announcing", "reporting", "flushing", "answered", "lost"}

LEMMA NoFlushType == NoFlush \in Flights /\ \A x : ~In(x, <<>>)
BY DEF NoFlush, Flights, In

LEMMA ReadingType ==
  ASSUME NEW rows \in Seq(Rows)
  PROVE  /\ Reading(rows) \in Flights
         /\ Reading(rows).rows = rows /\ Reading(rows).keep = <<>>
<1>1. PICK f \in Flights : f = NoFlush /\ f.keep = <<>>
  BY NoFlushType DEF NoFlush
<1>2. Reading(rows) = [f EXCEPT !.rows = rows]
  BY <1>1 DEF Reading
<1> QED
  BY <1>1, <1>2 DEF Flights

\* A process that dies leaves nobody at work.
LEMMA Deaths ==
  ASSUME TypeOK, Dies
  PROVE  /\ pc' \in [Flushers -> States] /\ flight' \in [Flushers -> Flights] /\ ~up' /\ up' \in BOOLEAN
         /\ Busy' = {} /\ \A q \in Flushers : flight'[q] = NoFlush
         /\ \A q \in Flushers : /\ pc'[q] \in {pc[q], "lost"}
                                /\ pc'[q] \notin {"announcing", "reporting", "flushing"}
<1>1. pc' \in [Flushers -> States] /\ flight' \in [Flushers -> Flights] /\ up' = FALSE
  BY NoFlushType DEF Dies, TypeOK, States
<1>2. ASSUME NEW q \in Flushers
      PROVE  /\ pc'[q] \in {pc[q], "lost"} /\ pc'[q] \notin {"announcing", "reporting", "flushing"}
             /\ flight'[q] = NoFlush
  BY DEF Dies, Busy
<1> QED
  BY <1>1, <1>2 DEF Busy

Filed(p, row, at, fate) ==
  /\ outbox' \in Seq(Rows) /\ faults' \in 0..MaxFaults /\ up' \in BOOLEAN
  /\ pc' \in [Flushers -> States] /\ flight' \in [Flushers -> Flights]
  /\ \A x : In(x, outbox') => In(x, outbox) \/ x = row
  /\ fate = "done" => \A x : In(x, outbox) \/ x = row => In(x, outbox')
  /\ \/ fate = "torn" /\ Dies
     \/ up' = up /\ pc' = [pc EXCEPT ![p] = at] /\ flight' = [flight EXCEPT ![p] = Reading(outbox')]

\* reportSafely(): the row goes into the file and the file into the flush, unless
\* the write fails or the process dies of it.
LEMMA Reports ==
  ASSUME TypeOK, NEW p \in Payments, NEW outcome \in Outcomes,
         NEW at \in {"announcing", "reporting"}, NEW fate, ReportSafely(p, outcome, at, fate)
  PROVE  Filed(p, [p |-> p, outcome |-> outcome], at, fate)
<1> DEFINE row == [p |-> p, outcome |-> outcome]
<1>1. row \in Rows /\ outbox \in Seq(Rows)
  BY DEF Rows, TypeOK
<1>2. Append(outbox, row) \in Seq(Rows) /\ \A x : In(x, Append(outbox, row)) <=> In(x, outbox) \/ x = row
  BY <1>1, AppendIn
<1>3. writeOutbox(Append(outbox, row), fate)
  BY DEF ReportSafely
<1>4. /\ outbox' \in Seq(Rows) /\ faults' \in 0..MaxFaults
      /\ \A x : In(x, outbox') => In(x, Append(outbox, row)) \/ In(x, outbox)
      /\ fate = "done" => outbox' = Append(outbox, row)
  BY <1>2, <1>3, Writes
<1>5. CASE fate = "torn"
  <2>1. Dies
    BY <1>5 DEF ReportSafely
  <2> QED
    BY <1>2, <1>4, <1>5, <2>1, Deaths DEF Filed
<1>6. CASE fate # "torn"
  <2>1. /\ up' = up /\ pc' = [pc EXCEPT ![p] = at]
        /\ flight' = [flight EXCEPT ![p] = Reading(outbox')]
    BY <1>6 DEF ReportSafely
  <2>2. Reading(outbox') \in Flights
    BY <1>4, ReadingType
  <2>3. up' \in BOOLEAN /\ pc' \in [Flushers -> States] /\ flight' \in [Flushers -> Flights]
    BY <2>1, <2>2 DEF TypeOK, States, Flights, Flushers
  <2> QED
    BY <1>2, <1>4, <2>1, <2>3 DEF Filed
<1> QED
  BY <1>5, <1>6
Left(q, reply, f, row) ==
  /\ f \in Flights /\ row \in Rows /\ row.outcome \in {"submitted", executed[row.p]}
  /\ Truthful(f.rows) /\ Truthful(f.keep)
  /\ \A x : In(x, flight[q].rows) => x = row \/ In(x, f.rows)
  /\ \A x : In(x, flight[q].keep) => In(x, f.keep)
  /\ reply # "answered" => In(row, f.keep)

\* The row in front leaves the flush, for Cosmos or for the rows kept.
LEMMA Sends ==
  ASSUME TypeOK, Honest, NEW q \in Flushers, flight[q].rows # <<>>, NEW reply, NEW f, NEW row,
         f = sent(flight[q], reply), row = Head(flight[q].rows)
  PROVE  Left(q, reply, f, row)
<1>1. flight[q] \in Flights /\ flight[q].rows \in Seq(Rows) /\ flight[q].keep \in Seq(Rows)
      /\ flight[q].receipts \subseteq Outcomes
  BY DEF TypeOK, Flights
<1>2. /\ row \in Rows /\ Tail(flight[q].rows) \in Seq(Rows)
      /\ \A x : In(x, flight[q].rows) <=> x = row \/ In(x, Tail(flight[q].rows))
  BY <1>1, TailIn
<1>3. Append(flight[q].keep, row) \in Seq(Rows)
      /\ \A x : In(x, Append(flight[q].keep, row)) <=> In(x, flight[q].keep) \/ x = row
  BY <1>1, <1>2, AppendIn
<1>4. /\ f.rows = Tail(flight[q].rows)
      /\ f.keep = IF reply = "answered" THEN flight[q].keep ELSE Append(flight[q].keep, row)
      /\ f.receipts \in {flight[q].receipts, flight[q].receipts \cup {row.outcome}}
      /\ f = [rows |-> f.rows, keep |-> f.keep, receipts |-> f.receipts]
  BY DEF sent
<1>5. row.outcome \in Outcomes
  BY <1>2 DEF Rows
<1>6. f \in Flights
  BY <1>1, <1>2, <1>3, <1>4, <1>5 DEF Flights
<1>7. Truthful(flight[q].rows) /\ Truthful(flight[q].keep)
  BY DEF Honest
<1>8. row.outcome \in {"submitted", executed[row.p]}
  BY <1>2, <1>7 DEF Truthful
<1> QED
  BY <1>2, <1>3, <1>4, <1>6, <1>7, <1>8 DEF Left, Truthful

-----------------------------------------------------------------------------
(* Every action preserves the invariant. *)

\* Pay and Execute have this in common: a handler puts one row, with what it has
\* made of its payment, and flushes.
LEMMA ReportInv ==
  ASSUME Inv, NEW p \in Payments, NEW outcome \in Outcomes,
         NEW at \in {"announcing", "reporting"}, NEW fate \in Fates,
         ReportSafely(p, outcome, at, fate), up, executed[p] = "none",
         at = "announcing" => outcome = "submitted" /\ executed' = executed,
         at = "reporting" => /\ outcome # "submitted" /\ pc[p] = "announcing"
                             /\ executed' = [executed EXCEPT ![p] = outcome],
         UNCHANGED <<answer, cosmos, outages>>,
         spoilt \subseteq spoilt', spoilt' \subseteq {"overlap", "write"},
         fate # "done" => "write" \in spoilt', spoilt' = {} => Busy \subseteq {p}
  PROVE  Inv'
<1> DEFINE row == [p |-> p, outcome |-> outcome]
<1>1. /\ TypeOK /\ Honest /\ Alone /\ Prompt /\ p \in Flushers
  BY DEF Inv, Flushers
<1>2. /\ outbox' \in Seq(Rows) /\ faults' \in 0..MaxFaults /\ up' \in BOOLEAN
      /\ pc' \in [Flushers -> States] /\ flight' \in [Flushers -> Flights]
      /\ \A x : In(x, outbox') => In(x, outbox) \/ x = row
      /\ fate = "done" => \A x : In(x, outbox) \/ x = row => In(x, outbox')
      /\ \/ fate = "torn" /\ Dies
         \/ /\ up' = up /\ pc' = [pc EXCEPT ![p] = at]
            /\ flight' = [flight EXCEPT ![p] = Reading(outbox')]
  <2>1. Filed(p, row, at, fate)
    BY <1>1, Reports
  <2> QED
    BY <2>1 DEF Filed
<1>3. /\ executed' \in [Payments -> {"none", "settled", "failed"}]
      /\ \A x \in Payments : x # p => executed'[x] = executed[x]
      /\ outcome \in {"submitted", executed'[p]}
      /\ executed'[p] # "none" => at = "reporting" /\ pc[p] = "announcing" /\ outcome = executed'[p]
  BY <1>1 DEF TypeOK, Outcomes
<1>4. TypeOK'
  BY <1>1, <1>2, <1>3 DEF TypeOK, States, Flights
<1>5. ASSUME NEW s, Truthful(s) PROVE Truthful(s)'
  <2>1. ASSUME NEW x \in Rows, In(x, s) PROVE x.outcome \in {"submitted", executed'[x.p]}
    <3>1. x.outcome \in {"submitted", executed[x.p]} /\ x.outcome # "none" /\ x.p \in Payments
      BY <1>5, <2>1 DEF Truthful, Rows, Outcomes
    <3> QED
      BY <1>3, <3>1
  <2> QED
    BY <2>1 DEF Truthful, In
<1>6. Truthful(outbox)'
  <2>1. ASSUME NEW x \in Rows, In(x, outbox') PROVE x.outcome \in {"submitted", executed'[x.p]}
    <3>1. CASE In(x, outbox)
      <4>1. x.outcome \in {"submitted", executed[x.p]} /\ x.outcome # "none" /\ x.p \in Payments
        BY <1>1, <3>1 DEF Honest, Truthful, Rows, Outcomes
      <4> QED
        BY <1>3, <4>1
    <3>2. CASE x = row
      BY <1>3, <3>2
    <3> QED
      BY <1>2, <2>1, <3>1, <3>2
  <2> QED
    BY <2>1 DEF Truthful, In
<1>7. Reading(outbox').rows = outbox' /\ Reading(outbox').keep = <<>>
  BY <1>2, ReadingType
<1>8. ASSUME NEW q \in Flushers PROVE Truthful(flight[q].rows)' /\ Truthful(flight[q].keep)'
  <2> DEFINE r == flight'[q].rows
             k == flight'[q].keep
  <2>1. \/ r = outbox' /\ k = <<>>
        \/ r = flight[q].rows /\ k = flight[q].keep
        \/ r = <<>> /\ k = <<>>
    <3>1. CASE Dies
      BY <1>1, <3>1, Deaths DEF NoFlush
    <3>2. CASE flight' = [flight EXCEPT ![p] = Reading(outbox')]
      BY <1>1, <1>7, <3>2 DEF TypeOK
    <3> QED
      BY <1>2, <3>1, <3>2
  <2>2. ASSUME NEW x \in Rows, In(x, r) \/ In(x, k)
        PROVE  x.outcome \in {"submitted", executed'[x.p]}
    <3>1. In(x, outbox') \/ In(x, flight[q].rows) \/ In(x, flight[q].keep)
      BY <2>1, <2>2, NoFlushType
    <3>2. ASSUME In(x, flight[q].rows) \/ In(x, flight[q].keep)
          PROVE  x.outcome \in {"submitted", executed'[x.p]}
      <4>1. x.outcome \in {"submitted", executed[x.p]} /\ x.outcome # "none" /\ x.p \in Payments
        BY <1>1, <3>2 DEF Honest, Truthful, Rows, Outcomes
      <4> QED
        BY <1>3, <4>1
    <3> QED
      BY <1>6, <3>1, <3>2 DEF Truthful, In
  <2> QED
    BY <2>2 DEF Truthful, In
<1>9. Honest'
  <2>1. ASSUME NEW x \in Payments PROVE cosmos'[x] \in {"none", "submitted", executed'[x]}
    BY <1>1, <1>3 DEF Honest
  <2>2. ASSUME NEW x \in Payments, executed'[x] # "none"
        PROVE  pc'[x] \in {"reporting", "answered", "lost"}
    <3>1. CASE Dies
      BY <1>1, <1>3, <2>2, <3>1, Deaths DEF Honest, Flushers
    <3>2. CASE pc' = [pc EXCEPT ![p] = at]
      BY <1>1, <1>3, <2>2, <3>2 DEF Honest, TypeOK, Flushers
    <3> QED
      BY <1>2, <3>1, <3>2
  <2>3. ASSUME NEW x \in Payments, pc'[x] \in {"reporting", "answered"}
        PROVE  executed'[x] # "none"
    <3>1. CASE Dies
      <4>1. pc[x] \in {"reporting", "answered"}
        BY <1>1, <2>3, <3>1, Deaths DEF Flushers
      <4> QED
        BY <1>1, <1>3, <4>1 DEF Honest
    <3>2. CASE pc' = [pc EXCEPT ![p] = at]
      <4>1. CASE x = p
        <5>1. at = "reporting"
          BY <1>1, <2>3, <3>2, <4>1 DEF TypeOK
        <5> QED
          BY <1>3, <4>1, <5>1 DEF Outcomes
      <4>2. CASE x # p
        BY <1>1, <1>3, <2>3, <3>2, <4>2 DEF Honest, TypeOK, Flushers
      <4> QED
        BY <4>1, <4>2
    <3> QED
      BY <1>2, <3>1, <3>2
  <2> QED
    BY <1>6, <1>8, <2>1, <2>2, <2>3 DEF Honest
<1>10. ~up' => Busy' = {}
  BY <1>1, <1>2, Deaths
<1>11. ASSUME "write" \notin spoilt'
       PROVE  /\ fate = "done" /\ pc' = [pc EXCEPT ![p] = at]
              /\ flight' = [flight EXCEPT ![p] = Reading(outbox')]
              /\ flight'[p].rows = outbox'
  BY <1>1, <1>2, <1>7, <1>11 DEF TypeOK
<1>12. Alone'
  <2> SUFFICES ASSUME spoilt' = {}
               PROVE  /\ \A q, r \in Busy' : q = r
                      /\ \A x \in Payments : Owed(x, {outbox})'
                      /\ \A q \in Busy' : flight'[q].rows # <<>> =>
                           \A x \in Payments : Owed(x, {flight[q].rows, flight[q].keep})'
    BY DEF Alone
  <2>1. spoilt = {} /\ Busy \subseteq {p}
    OBVIOUS
  <2>2. Busy' \subseteq {p}
    BY <1>1, <1>11, <2>1 DEF Busy, TypeOK
  <2>3. ASSUME NEW x \in Payments
        PROVE  executed'[x] # "none" => cosmos'[x] = executed'[x]
                 \/ In([p |-> x, outcome |-> executed'[x]], outbox')
    <3>1. CASE x = p
      BY <1>2, <1>3, <1>11, <3>1
    <3>2. CASE x # p
      <4>1. Owed(x, {outbox}) /\ executed'[x] = executed[x]
        BY <1>1, <1>3, <2>1, <3>2 DEF Alone
      <4> QED
        BY <1>2, <1>11, <4>1 DEF Owed, report
    <3> QED
      BY <3>1, <3>2
  <2> QED
    BY <1>11, <2>2, <2>3 DEF Owed, report, In
<1>13. Prompt'
  <2> SUFFICES ASSUME outages' = 0, "write" \notin spoilt', NEW x \in Payments
               PROVE  /\ pc'[x] = "reporting" =>
                           In([p |-> x, outcome |-> executed'[x]], flight'[x].rows) \/ cosmos'[x] = executed'[x]
                      /\ pc'[x] = "answered" => cosmos'[x] = executed'[x]
    BY DEF Prompt, report, In
  <2>1. "write" \notin spoilt
    OBVIOUS
  <2>2. CASE x = p
    BY <1>1, <1>2, <1>3, <1>11, <2>2 DEF TypeOK
  <2>3. CASE x # p
    <3>1. pc'[x] = pc[x] /\ flight'[x] = flight[x] /\ executed'[x] = executed[x]
      BY <1>1, <1>3, <1>11, <2>3 DEF TypeOK, Flushers
    <3> QED
      BY <1>1, <2>1, <3>1 DEF Prompt, report
  <2> QED
    BY <2>2, <2>3
<1> QED
  BY <1>4, <1>9, <1>10, <1>12, <1>13 DEF Inv

LEMMA PayInv ==
  ASSUME Inv, NEW p \in Payments, NEW fate \in Fates, Pay(p, fate)
  PROVE  Inv'
<1>1. TypeOK /\ Honest
  BY DEF Inv
<1>2. /\ up /\ pc[p] = "idle" /\ ReportSafely(p, "submitted", "announcing", fate)
      /\ spoilt' = spoilt \cup Spoils(fate) \cup (IF Busy = {} THEN {} ELSE {"overlap"})
      /\ UNCHANGED <<executed, answer, cosmos, outages>>
  BY DEF Pay, Quiet
<1>3. executed[p] = "none"
  BY <1>1, <1>2 DEF Honest
<1>4. /\ spoilt \subseteq spoilt' /\ spoilt' \subseteq {"overlap", "write"}
      /\ fate # "done" => "write" \in spoilt'
      /\ spoilt' = {} => Busy \subseteq {p}
  BY <1>1, <1>2 DEF TypeOK, Spoils
<1> QED
  BY <1>2, <1>3, <1>4, ReportInv DEF Outcomes

LEMMA ExecuteInv ==
  ASSUME Inv, NEW p \in Payments, NEW outcome \in {"settled", "failed"}, NEW fate \in Fates,
         Execute(p, outcome, fate)
  PROVE  Inv'
<1>1. TypeOK /\ Honest /\ Alone
  BY DEF Inv
<1>2. /\ up /\ pc[p] = "announcing" /\ ReportSafely(p, outcome, "reporting", fate)
      /\ executed' = [executed EXCEPT ![p] = outcome] /\ spoilt' = spoilt \cup Spoils(fate)
      /\ UNCHANGED <<answer, cosmos, outages>>
  BY DEF Execute
<1>3. executed[p] = "none"
  BY <1>1, <1>2 DEF Honest
<1>4. p \in Busy
  BY <1>2 DEF Busy, Flushers
<1>5. /\ spoilt \subseteq spoilt' /\ spoilt' \subseteq {"overlap", "write"}
      /\ fate # "done" => "write" \in spoilt'
  BY <1>1, <1>2 DEF TypeOK, Spoils
<1>6. spoilt' = {} => Busy \subseteq {p}
  BY <1>1, <1>4, <1>5 DEF Alone
<1> QED
  BY <1>2, <1>3, <1>5, <1>6, ReportInv DEF Outcomes

LEMMA RespondInv ==
  ASSUME Inv, NEW p \in Payments, Respond(p)
  PROVE  Inv'
<1>1. TypeOK /\ Honest /\ Alone /\ Prompt /\ p \in Flushers
  BY DEF Inv, Flushers
<1>2. /\ up /\ flight[p].rows = <<>> /\ pc[p] = "reporting" /\ pc' = [pc EXCEPT ![p] = "answered"]
      /\ answer' \in [Payments -> {"none", "delivered", "queued"}]
      /\ UNCHANGED <<up, outbox, flight, executed, cosmos, outages, faults, spoilt>>
  BY <1>1 DEF Respond, Returned, TypeOK
<1>3. TypeOK'
  BY <1>1, <1>2 DEF TypeOK
<1>4. Honest'
  BY <1>1, <1>2 DEF Honest, Truthful, In, TypeOK
<1>5. Busy' \subseteq Busy
  BY <1>1, <1>2 DEF Busy, TypeOK
<1>6. Alone'
  BY <1>1, <1>2, <1>5 DEF Alone, Owed, report, In
<1>7. Prompt'
  <2> SUFFICES ASSUME outages' = 0, "write" \notin spoilt', NEW x \in Payments
               PROVE  /\ pc'[x] = "reporting" => In(report(x), flight[x].rows) \/ cosmos[x] = executed[x]
                      /\ pc'[x] = "answered" => cosmos[x] = executed[x]
    BY <1>2 DEF Prompt, report, In
  <2>1. CASE x = p
    BY <1>1, <1>2, <2>1, NoFlushType DEF Prompt, TypeOK
  <2>2. CASE x # p
    BY <1>1, <1>2, <2>2 DEF Prompt, TypeOK
  <2> QED
    BY <2>1, <2>2
<1> QED
  BY <1>2, <1>3, <1>4, <1>6, <1>7 DEF Inv

\* The end of a process keeps what is in the file and with Cosmos.
LEMMA KillInv ==
  ASSUME Inv, Kill
  PROVE  Inv'
<1>1. TypeOK /\ Honest /\ Alone /\ Prompt
  BY DEF Inv
<1>2. /\ Dies /\ faults' \in 0..MaxFaults
      /\ UNCHANGED <<outbox, executed, answer, cosmos, outages, spoilt>>
  BY <1>1, RailAssumption DEF Kill, TypeOK
<1>3. /\ pc' \in [Flushers -> States] /\ flight' \in [Flushers -> Flights] /\ ~up' /\ up' \in BOOLEAN
      /\ Busy' = {} /\ \A q \in Flushers : flight'[q] = NoFlush
      /\ \A q \in Flushers : /\ pc'[q] \in {pc[q], "lost"}
                             /\ pc'[q] \notin {"announcing", "reporting", "flushing"}
  BY <1>1, <1>2, Deaths
<1>4. TypeOK'
  BY <1>1, <1>2, <1>3 DEF TypeOK, States, Flights
<1>5. Honest'
  <2>1. ASSUME NEW q \in Flushers PROVE Truthful(flight[q].rows)' /\ Truthful(flight[q].keep)'
    <3>1. flight'[q].rows = <<>> /\ flight'[q].keep = <<>>
      BY <1>3 DEF NoFlush
    <3> QED
      BY <3>1 DEF Truthful, In
  <2>2. Truthful(outbox)'
    BY <1>1, <1>2 DEF Honest, Truthful, In
  <2>3. ASSUME NEW p \in Payments
        PROVE  /\ executed'[p] # "none" => pc'[p] \in {"reporting", "answered", "lost"}
               /\ pc'[p] \in {"reporting", "answered"} => executed'[p] # "none"
               /\ cosmos'[p] \in {"none", "submitted", executed'[p]}
    BY <1>1, <1>2, <1>3 DEF Honest, Flushers
  <2> QED
    BY <2>1, <2>2, <2>3 DEF Honest
<1>6. Alone'
  BY <1>1, <1>2, <1>3 DEF Alone, Owed, report, In
<1>7. Prompt'
  BY <1>1, <1>2, <1>3 DEF Prompt, Flushers
<1> QED
  BY <1>3, <1>4, <1>5, <1>6, <1>7 DEF Inv

LEMMA StartInv ==
  ASSUME Inv, Start
  PROVE  Inv'
<1>1. TypeOK /\ Honest /\ Alone /\ Prompt /\ Busy = {} /\ Boot \in Flushers /\ Boot \notin Payments
  BY RailAssumption DEF Inv, Start, Flushers
<1>2. /\ up' = TRUE /\ flight' = [flight EXCEPT ![Boot] = Reading(outbox)]
      /\ pc' = [pc EXCEPT ![Boot] = IF outbox = <<>> THEN "idle" ELSE "flushing"]
      /\ UNCHANGED <<outbox, executed, answer, cosmos, outages, faults, spoilt>>
  BY DEF Start
<1>3. /\ Reading(outbox) \in Flights /\ Reading(outbox).rows = outbox /\ Reading(outbox).keep = <<>>
  BY <1>1, ReadingType DEF TypeOK
<1>4. TypeOK'
  BY <1>1, <1>2, <1>3 DEF TypeOK, Flights
<1>5. /\ flight'[Boot] = Reading(outbox)
      /\ \A q \in Flushers \ {Boot} : flight'[q] = flight[q] /\ pc'[q] = pc[q]
  BY <1>1, <1>2 DEF TypeOK
<1>6. Honest'
  <2>1. ASSUME NEW q \in Flushers PROVE Truthful(flight[q].rows)' /\ Truthful(flight[q].keep)'
    <3>1. CASE q = Boot
      BY <1>1, <1>2, <1>3, <1>5, <3>1 DEF Honest, Truthful, In
    <3>2. CASE q # Boot
      BY <1>1, <1>2, <1>5, <3>2 DEF Honest, Truthful, In
    <3> QED
      BY <3>1, <3>2
  <2>2. Truthful(outbox)'
    BY <1>1, <1>2 DEF Honest, Truthful, In
  <2>3. ASSUME NEW p \in Payments
        PROVE  /\ executed'[p] # "none" => pc'[p] \in {"reporting", "answered", "lost"}
               /\ pc'[p] \in {"reporting", "answered"} => executed'[p] # "none"
               /\ cosmos'[p] \in {"none", "submitted", executed'[p]}
    BY <1>1, <1>2, <1>5 DEF Honest, Flushers
  <2> QED
    BY <2>1, <2>2, <2>3 DEF Honest
<1>7. Busy' \subseteq {Boot}
  BY <1>1, <1>5 DEF Busy
<1>8. Alone'
  <2> SUFFICES ASSUME spoilt' = {}
               PROVE  /\ \A q, r \in Busy' : q = r
                      /\ \A x \in Payments : Owed(x, {outbox})
                      /\ \A q \in Busy' : flight'[q].rows # <<>> =>
                           \A x \in Payments : Owed(x, {flight'[q].rows, flight'[q].keep})
    BY <1>2 DEF Alone, Owed, report, In
  <2>1. \A x \in Payments : Owed(x, {outbox})
    BY <1>1, <1>2 DEF Alone
  <2> QED
    BY <1>3, <1>5, <1>7, <2>1 DEF Owed
<1>9. Prompt'
  <2> SUFFICES ASSUME outages' = 0, "write" \notin spoilt', NEW x \in Payments
               PROVE  /\ pc'[x] = "reporting" => In(report(x), flight'[x].rows) \/ cosmos[x] = executed[x]
                      /\ pc'[x] = "answered" => cosmos[x] = executed[x]
    BY <1>2 DEF Prompt, report, In
  <2>1. pc'[x] = pc[x] /\ flight'[x] = flight[x]
    BY <1>1, <1>5 DEF Flushers
  <2> QED
    BY <1>1, <1>2, <2>1 DEF Prompt
<1> QED
  BY <1>2, <1>4, <1>6, <1>8, <1>9 DEF Inv

Replies == {"answered", "unreachable", "answer lost"}

\* One POST ends; after the last one the file holds the rows kept.
LEMMA PostInv ==
  ASSUME Inv, NEW q \in Flushers, NEW reply \in Replies, NEW fate \in Fates, Post(q, reply, fate)
  PROVE  Inv'
<1> DEFINE f == sent(flight[q], reply)
           row == Head(flight[q].rows)
<1>1. TypeOK /\ Honest /\ Alone /\ Prompt
  BY DEF Inv
<1>2. /\ up /\ q \in Busy /\ flight[q].rows # <<>>
      /\ IF reply = "unreachable" THEN UNCHANGED cosmos ELSE Accept(row)
      /\ IF reply = "answered" THEN UNCHANGED outages
                               ELSE outages < MaxOutages /\ outages' = outages + 1
      /\ spoilt' = spoilt \cup Spoils(fate) /\ UNCHANGED <<executed, answer>>
  BY DEF Post
<1>3. \/ /\ f.rows # <<>> /\ fate = "done" /\ flight' = [flight EXCEPT ![q] = f]
         /\ UNCHANGED <<up, outbox, pc, faults>>
      \/ /\ f.rows = <<>> /\ writeOutbox(f.keep, fate) /\ fate = "done"
         /\ flight' = [flight EXCEPT ![q] = f]
         /\ pc' = IF q = Boot THEN [pc EXCEPT ![q] = "idle"] ELSE pc
         /\ UNCHANGED up
      \/ f.rows = <<>> /\ writeOutbox(f.keep, fate) /\ fate # "done" /\ Dies
  BY DEF Post
<1>4. /\ f \in Flights /\ row \in Rows /\ row.outcome \in {"submitted", executed[row.p]}
      /\ Truthful(f.rows) /\ Truthful(f.keep)
      /\ \A x : In(x, flight[q].rows) => x = row \/ In(x, f.rows)
      /\ \A x : In(x, flight[q].keep) => In(x, f.keep)
      /\ reply # "answered" => In(row, f.keep)
  <2>1. Left(q, reply, f, row)
    BY <1>1, <1>2, Sends
  <2> QED
    BY <2>1 DEF Left
<1>5. f.keep \in Seq(Rows)
  BY <1>4 DEF Flights
<1>6. ASSUME NEW p \in Payments
      PROVE  /\ cosmos' \in [Payments -> Outcomes \cup {"none"}]
             /\ cosmos'[p] \in {"none", "submitted", executed[p]}
             /\ cosmos[p] \in {"settled", "failed"} => cosmos'[p] = cosmos[p]
             /\ reply # "unreachable" /\ executed[p] # "none" /\ row = report(p)
                  => cosmos'[p] = executed[p]
  BY <1>1, <1>2, <1>4, Accepts
<1>7. cosmos' \in [Payments -> Outcomes \cup {"none"}]
  <2>1. CASE UNCHANGED cosmos
    BY <1>1, <2>1 DEF TypeOK
  <2>2. CASE cosmos' # cosmos
    <3>1. cosmos' = [cosmos EXCEPT ![row.p] = row.outcome]
      BY <1>2, <2>2 DEF Accept
    <3> QED
      BY <1>1, <1>4, <3>1 DEF TypeOK, Rows
  <2> QED
    BY <2>1, <2>2
<1>8. outages' \in 0..MaxOutages /\ (outages' = 0 => outages = 0 /\ reply = "answered")
  BY <1>1, <1>2, RailAssumption DEF TypeOK
<1>9. /\ spoilt' \subseteq {"overlap", "write"} /\ spoilt \subseteq spoilt'
      /\ "write" \notin spoilt' => fate = "done"
  BY <1>1, <1>2 DEF TypeOK, Spoils
<1>10. /\ outbox' \in Seq(Rows) /\ faults' \in 0..MaxFaults
       /\ \A x : In(x, outbox') => In(x, f.keep) \/ In(x, outbox)
       /\ fate = "done" /\ f.rows = <<>> => outbox' = f.keep
  <2>1. CASE UNCHANGED <<outbox, faults>> /\ f.rows # <<>>
    BY <1>1, <2>1 DEF TypeOK
  <2>2. CASE writeOutbox(f.keep, fate)
    BY <1>1, <1>5, <2>2, Writes
  <2> QED
    BY <1>3, <2>1, <2>2
<1>11. /\ up' \in BOOLEAN /\ pc' \in [Flushers -> States] /\ flight' \in [Flushers -> Flights]
       /\ ~up' => Busy' = {}
       /\ \A p \in Flushers : \/ flight'[p] = flight[p] \/ flight'[p] = NoFlush
                              \/ flight'[p] = f
       /\ \A p \in Payments : pc'[p] \in {pc[p], "lost"}
  <2>1. CASE Dies
    BY <1>1, <2>1, Deaths DEF Flushers
  <2>2. CASE /\ flight' = [flight EXCEPT ![q] = f] /\ UNCHANGED up
             /\ \/ pc' = pc
                \/ q = Boot /\ pc' = [pc EXCEPT ![q] = "idle"]
    <3>1. \A p \in Payments : pc'[p] = pc[p]
      BY <1>1, <2>2, RailAssumption DEF TypeOK, Flushers
    <3> QED
      BY <1>1, <1>2, <1>4, <2>2, <3>1 DEF TypeOK, States, Flights
  <2> QED
    BY <1>3, <2>1, <2>2
<1>12. TypeOK'
  BY <1>1, <1>2, <1>7, <1>8, <1>9, <1>10, <1>11 DEF TypeOK, States, Flights
<1>13. Honest'
  <2>1. ASSUME NEW p \in Payments
        PROVE  /\ executed'[p] # "none" => pc'[p] \in {"reporting", "answered", "lost"}
               /\ pc'[p] \in {"reporting", "answered"} => executed'[p] # "none"
               /\ cosmos'[p] \in {"none", "submitted", executed'[p]}
    BY <1>1, <1>2, <1>6, <1>11 DEF Honest
  <2>2. Truthful(outbox)'
    BY <1>1, <1>2, <1>4, <1>10 DEF Honest, Truthful, In
  <2>3. ASSUME NEW p \in Flushers PROVE Truthful(flight[p].rows)' /\ Truthful(flight[p].keep)'
    <3>1. CASE flight'[p] = flight[p]
      BY <1>1, <1>2, <3>1 DEF Honest, Truthful, In
    <3>2. CASE flight'[p] = NoFlush
      BY <3>2 DEF NoFlush, Truthful, In
    <3>3. CASE flight'[p] = f
      BY <1>2, <1>4, <3>3 DEF Truthful, In
    <3> QED
      BY <1>11, <3>1, <3>2, <3>3
  <2> QED
    BY <2>1, <2>2, <2>3 DEF Honest
<1>14. ASSUME "write" \notin spoilt'
       PROVE  /\ flight' = [flight EXCEPT ![q] = f]
              /\ \/ pc' = pc
                 \/ q = Boot /\ pc' = [pc EXCEPT ![q] = "idle"]
              /\ f.rows # <<>> => outbox' = outbox
              /\ f.rows = <<>> => outbox' = f.keep
  <2>1. fate = "done"
    BY <1>9, <1>14
  <2> QED
    BY <1>3, <1>10, <2>1
<1>15. Alone'
  <2> SUFFICES ASSUME spoilt' = {}
               PROVE  /\ \A p, r \in Busy' : p = r
                      /\ \A x \in Payments : Owed(x, {outbox})'
                      /\ \A p \in Busy' : flight'[p].rows # <<>> =>
                           \A x \in Payments : Owed(x, {flight[p].rows, flight[p].keep})'
    BY DEF Alone
  <2>1. spoilt = {} /\ Busy = {q}
    BY <1>1, <1>2, <1>9 DEF Alone
  <2>2. Busy' \subseteq {q} /\ flight'[q] = f
    BY <1>1, <1>14, <2>1 DEF Busy, TypeOK
  <2>3. ASSUME NEW x \in Payments, executed[x] # "none", cosmos'[x] # executed[x]
        PROVE  In(report(x), f.rows) \/ In(report(x), f.keep)
    <3>1. cosmos[x] # executed[x]
      BY <1>1, <1>6, <2>3 DEF TypeOK
    <3>2. In(report(x), flight[q].rows) \/ In(report(x), flight[q].keep)
      BY <1>1, <1>2, <2>1, <2>3, <3>1 DEF Alone, Owed
    <3>3. report(x) = row => In(row, f.keep)
      BY <1>4, <1>6, <2>3
    <3> QED
      BY <1>4, <3>2, <3>3
  <2>4. ASSUME NEW x \in Payments, executed[x] # "none", cosmos'[x] # executed[x]
        PROVE  In(report(x), outbox')
    <3>1. cosmos[x] # executed[x]
      BY <1>1, <1>6, <2>4 DEF TypeOK
    <3>2. In(report(x), outbox)
      BY <1>1, <2>1, <2>4, <3>1 DEF Alone, Owed
    <3> QED
      BY <1>14, <2>3, <2>4, <3>2, NoFlushType
  <2> QED
    BY <1>2, <2>2, <2>3, <2>4 DEF Owed, report, In
<1>16. Prompt'
  <2> SUFFICES ASSUME outages' = 0, "write" \notin spoilt', NEW x \in Payments
               PROVE  /\ pc'[x] = "reporting" => In(report(x), flight'[x].rows) \/ cosmos'[x] = executed[x]
                      /\ pc'[x] = "answered" => cosmos'[x] = executed[x]
    BY <1>2 DEF Prompt, report, In
  <2>1. /\ outages = 0 /\ "write" \notin spoilt /\ reply = "answered"
        /\ pc'[x] = pc[x] /\ x \in Flushers
    BY <1>1, <1>8, <1>9, <1>14, RailAssumption DEF TypeOK, Flushers
  <2>2. cosmos[x] = executed[x] /\ executed[x] # "none" => cosmos'[x] = executed[x]
    BY <1>1, <1>6 DEF TypeOK
  <2>3. flight'[x] = flight[x] \/ (x = q /\ flight'[x] = f)
    BY <1>1, <1>14, <2>1 DEF TypeOK
  <2>4. CASE pc[x] = "reporting"
    <3>1. executed[x] # "none" /\ (In(report(x), flight[x].rows) \/ cosmos[x] = executed[x])
      BY <1>1, <2>1, <2>4 DEF Prompt, Honest
    <3>2. In(report(x), flight'[x].rows) \/ cosmos'[x] = executed[x]
      BY <1>4, <1>6, <2>1, <2>2, <2>3, <3>1
    <3> QED
      BY <2>1, <2>4, <3>2
  <2>5. CASE pc[x] = "answered"
    BY <1>1, <2>1, <2>2, <2>5 DEF Prompt, Honest
  <2> QED
    BY <2>1, <2>4, <2>5
<1> QED
  BY <1>2, <1>11, <1>12, <1>13, <1>15, <1>16 DEF Inv

-----------------------------------------------------------------------------
LEMMA InitInv ==
  ASSUME Init
  PROVE  Inv
<1>1. TypeOK
  BY RailAssumption, NoFlushType DEF Init, TypeOK, Rows, Flights
<1>2. \A x : ~In(x, outbox)
  BY NoFlushType DEF Init
<1>3. ASSUME NEW q \in Flushers PROVE flight[q].rows = <<>> /\ flight[q].keep = <<>>
  BY DEF Init, NoFlush
<1>4. Honest
  BY <1>2, <1>3, NoFlushType DEF Init, Honest, Truthful, Flushers
<1>5. Busy = {}
  BY DEF Init, Busy
<1>6. Alone /\ Prompt
  BY <1>5 DEF Init, Alone, Owed, Prompt, Flushers
<1> QED
  BY <1>1, <1>4, <1>5, <1>6 DEF Inv

LEMMA StutterInv ==
  ASSUME Inv, UNCHANGED vars
  PROVE  Inv'
<1>1. UNCHANGED <<up, outbox, pc, flight, executed, answer, cosmos, outages, faults, spoilt>>
  BY DEF vars
<1>2. TypeOK'
  BY <1>1 DEF Inv, TypeOK
<1>3. Honest'
  BY <1>1 DEF Inv, Honest, Truthful, In
<1>4. Busy' = Busy
  BY <1>1 DEF Busy
<1>5. Alone'
  BY <1>1, <1>4 DEF Inv, Alone, Owed, report, In
<1>6. Prompt'
  BY <1>1 DEF Inv, Prompt, report, In
<1> QED
  BY <1>1, <1>2, <1>3, <1>4, <1>5, <1>6 DEF Inv

LEMMA Always == Spec => []Inv
<1>1. Init => Inv
  BY InitInv
<1>2. ASSUME Inv, [Next]_vars PROVE Inv'
  <2>1. CASE UNCHANGED vars
    BY <1>2, <2>1, StutterInv
  <2>2. ASSUME NEW p \in Payments, NEW fate \in Fates, Pay(p, fate) PROVE Inv'
    BY <1>2, <2>2, PayInv
  <2>3. ASSUME NEW p \in Payments, NEW fate \in Fates, NEW outcome \in {"settled", "failed"},
               Execute(p, outcome, fate)
        PROVE  Inv'
    BY <1>2, <2>3, ExecuteInv
  <2>4. ASSUME NEW p \in Payments, Respond(p) PROVE Inv'
    BY <1>2, <2>4, RespondInv
  <2>5. ASSUME NEW q \in Flushers, NEW reply \in Replies, NEW fate \in Fates, Post(q, reply, fate)
        PROVE  Inv'
    BY <1>2, <2>5, PostInv
  <2>6. CASE Kill
    BY <1>2, <2>6, KillInv
  <2>7. CASE Start
    BY <1>2, <2>7, StartInv
  <2> QED
    BY <1>2, <2>1, <2>2, <2>3, <2>4, <2>5, <2>6, <2>7 DEF Next, Replies
<1> QED
  BY <1>1, <1>2, PTL DEF Spec

-----------------------------------------------------------------------------
(* What follows. *)

\* The outbox and every flush hold rows, whatever a fault leaves of the file
\* (readOutbox(), writeOutbox()).
THEOREM RailTyped == Spec => []TypeOK
<1>1. Inv => TypeOK
  BY DEF Inv
<1> QED
  BY <1>1, Always, PTL

\* The outcome of an executed payment is with Cosmos or in the outbox, whatever
\* kills and outages happen, when handlers do not overlap and writes do not fail
\* (reportSafely(): "never let a report be lost (persist before you try)").
THEOREM NeverLost == Spec => []NothingLost
<1>1. Inv => NothingLost
  <2> SUFFICES ASSUME Inv, spoilt = {}, NEW p \in Payments, executed[p] # "none",
                      cosmos[p] # executed[p]
               PROVE  Queued(p)
    BY DEF NothingLost
  <2>1. In(report(p), outbox)
    BY DEF Inv, Alone, Owed
  <2> QED
    BY <2>1 DEF Queued, report, In
<1> QED
  BY <1>1, Always, PTL

\* A payment that is answered is on record with Cosmos, unless the transport or
\* the disk failed: however handlers overlap, each flush() carries the report of
\* its own handler.
THEOREM AtOnce == Spec => []OnlyOutagesDelay
<1>1. Inv => OnlyOutagesDelay
  BY DEF Inv, Prompt, OnlyOutagesDelay
<1> QED
  BY <1>1, Always, PTL

\* Cosmos never has a terminal outcome on record that is not the payment's, and
\* no resend of flush(), in whatever order rows are kept and sent again, moves it.
THEOREM RightEnd == Spec => RightOutcome
<1>1. ASSUME Inv, [Next]_vars, NEW p \in Payments, cosmos[p] \in {"settled", "failed"}
      PROVE  cosmos[p] = executed[p] /\ cosmos'[p] = cosmos[p]
  <2>1. TypeOK /\ Honest
    BY <1>1 DEF Inv
  <2>2. cosmos[p] = executed[p]
    BY <1>1, <2>1 DEF Honest
  <2>3. ASSUME NEW q \in Flushers, NEW reply \in Replies, NEW fate \in Fates, Post(q, reply, fate)
        PROVE  cosmos'[p] = cosmos[p]
    <3>1. flight[q].rows # <<>> /\ (UNCHANGED cosmos \/ Accept(Head(flight[q].rows)))
      BY <2>3 DEF Post
    <3>2. Left(q, reply, sent(flight[q], reply), Head(flight[q].rows))
      BY <2>1, <3>1, Sends
    <3>3. /\ Head(flight[q].rows) \in Rows
          /\ Head(flight[q].rows).outcome \in {"submitted", executed[Head(flight[q].rows).p]}
      BY <3>2 DEF Left
    <3> QED
      BY <1>1, <2>1, <3>1, <3>3, Accepts
  <2>4. UNCHANGED cosmos \/ \E q \in Flushers, reply \in Replies, fate \in Fates : Post(q, reply, fate)
    BY <1>1 DEF Next, vars, Pay, Execute, Respond, Kill, Start, Replies
  <2> QED
    BY <2>2, <2>3, <2>4
<1>2. Inv /\ [Next]_vars =>
        [\A p \in Payments : cosmos[p] \in {"settled", "failed"} =>
                                cosmos[p] = executed[p] /\ cosmos'[p] = cosmos[p]]_vars
  BY <1>1
<1> QED
  BY <1>2, Always, PTL DEF Spec, RightOutcome
=============================================================================
