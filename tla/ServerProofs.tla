---------------------------- MODULE ServerProofs ----------------------------
(***************************************************************************)
(* What holds of module Server for every set of clients, grants, keys and  *)
(* ids: the memory of the process agrees with its log under every fault    *)
(* (CachesMatchLog), the log decides a key once unless a write fails       *)
(* half-way (KeyDecidedOnce), what was answered is in the file as long as  *)
(* the machine keeps its power (AllowIsDurable, AnswersAgree), and the     *)
(* balances are the sums of the holds until a second fault (LogBalances).  *)
(***************************************************************************)
EXTENDS Server, FiniteSetTheorems, FunctionTheorems, SequenceTheorems, TLAPS

-----------------------------------------------------------------------------
(* Sums of amounts, from the cardinalities of their units: the lemmas of    *)
(* AuthorityProofs, which is about other variables and cannot be extended. *)

\* The units of finitely many accounts are finitely many, so a sum of amounts
\* is a natural number.
LEMMA SumType ==
  ASSUME NEW S, IsFiniteSet(S), NEW f
  PROVE  IsFiniteSet(Units(f, S)) /\ SumOf(f, S) \in Nat
<1>1. IsFiniteSet(1..MaxAmount)
  BY FS_Interval, MoneyAssumption
<1>2. IsFiniteSet(S \X (1..MaxAmount))
  BY <1>1, FS_Product
<1>3. Units(f, S) \in SUBSET (S \X (1..MaxAmount))
  BY DEF Units
<1>4. IsFiniteSet(Units(f, S))
  BY <1>2, <1>3, FS_Subset
<1> QED
  BY <1>4, FS_CardinalityType DEF SumOf

\* The sum over no account is zero.
LEMMA SumEmpty == ASSUME NEW f PROVE SumOf(f, {}) = 0
<1>1. Units(f, {}) = {}
  BY DEF Units
<1> QED
  BY <1>1, FS_EmptySet DEF SumOf

\* The sum over one account is its amount.
LEMMA SumSingle ==
  ASSUME NEW f, NEW x, f[x] \in 0..MaxAmount
  PROVE  SumOf(f, {x}) = f[x]
<1> DEFINE b == [n \in 1..f[x] |-> <<x, n>>]
<1>0. MaxAmount \in Nat
  BY MoneyAssumption
<1>1. Units(f, {x}) = {<<x, n>> : n \in 1..f[x]}
  BY <1>0 DEF Units
<1>2. b \in Bijection(1..f[x], Units(f, {x}))
  <2>1. b \in [1..f[x] -> Units(f, {x})]
    BY <1>1
  <2>2. \A m, n \in 1..f[x] : b[m] = b[n] => m = n
    OBVIOUS
  <2>3. \A u \in Units(f, {x}) : \E n \in 1..f[x] : b[n] = u
    BY <1>1
  <2> QED
    BY <2>1, <2>2, <2>3, Fun_IsBij
<1>3. ExistsBijection(1..f[x], Units(f, {x}))
  BY <1>2 DEF ExistsBijection
<1> QED
  BY <1>0, <1>3, FS_CountingElements DEF SumOf

\* Sums over disjoint sets add up.
LEMMA SumUnion ==
  ASSUME NEW S, NEW T, IsFiniteSet(S), IsFiniteSet(T), S \cap T = {}, NEW f
  PROVE  SumOf(f, S \cup T) = SumOf(f, S) + SumOf(f, T)
<1>1. Units(f, S \cup T) = Units(f, S) \cup Units(f, T)
  BY DEF Units
<1>2. Units(f, S) \cap Units(f, T) = {}
  BY DEF Units
<1>3. IsFiniteSet(Units(f, S)) /\ IsFiniteSet(Units(f, T))
  BY SumType
<1>4. Cardinality(Units(f, S)) \in Nat /\ Cardinality(Units(f, T)) \in Nat
  BY SumType DEF SumOf
<1>5. Cardinality(Units(f, S) \cup Units(f, T)) =
        Cardinality(Units(f, S)) + Cardinality(Units(f, T)) - Cardinality({})
  BY <1>2, <1>3, FS_Union
<1>6. Cardinality({}) = 0
  BY FS_EmptySet
<1>7. Cardinality(Units(f, S) \cup Units(f, T)) =
        Cardinality(Units(f, S)) + Cardinality(Units(f, T))
  BY <1>4, <1>5, <1>6
<1> QED
  BY <1>1, <1>7 DEF SumOf

\* Taking accounts out of a set takes their amounts out of its sum.
LEMMA SumDifference ==
  ASSUME NEW S, IsFiniteSet(S), NEW T \in SUBSET S, NEW f
  PROVE  SumOf(f, S \ T) = SumOf(f, S) - SumOf(f, T)
<1>1. IsFiniteSet(T) /\ IsFiniteSet(S \ T)
  BY FS_Subset, S \ T \in SUBSET S
<1>2. (S \ T) \cup T = S /\ (S \ T) \cap T = {}
  OBVIOUS
<1>3. SumOf(f, S) = SumOf(f, S \ T) + SumOf(f, T)
  BY <1>1, <1>2, SumUnion
<1>4. SumOf(f, S \ T) \in Nat /\ SumOf(f, T) \in Nat
  BY <1>1, SumType
<1> QED
  BY <1>3, <1>4

\* A new account adds its amount.
LEMMA SumAdd ==
  ASSUME NEW S, IsFiniteSet(S), NEW x, x \notin S, NEW f, f[x] \in 0..MaxAmount
  PROVE  SumOf(f, S \cup {x}) = SumOf(f, S) + f[x]
<1>1. IsFiniteSet({x}) /\ S \cap {x} = {}
  BY FS_Singleton
<1> QED
  BY <1>1, SumUnion, SumSingle

\* A sum depends only on the amounts of the accounts it ranges over.
LEMMA SumSame ==
  ASSUME NEW S, NEW f, NEW h, \A x \in S : f[x] = h[x]
  PROVE  SumOf(f, S) = SumOf(h, S)
<1>1. Units(f, S) = Units(h, S)
  BY DEF Units
<1> QED
  BY <1>1 DEF SumOf

-----------------------------------------------------------------------------
(* The folds of the store and of the sweep, as instances of FoldTheorems.  *)

\* es are the lines that are not garbage, in their places.
Skims(lines, es) ==
  /\ \E f \in [DOMAIN es -> DOMAIN lines] :
       /\ \A i \in DOMAIN es : es[i] = lines[f[i]]
       /\ \A i, j \in DOMAIN es : f[i] = f[j] => i = j
  /\ \A j \in DOMAIN lines : lines[j] # Garbage => \E i \in DOMAIN es : es[i] = lines[j]

loadStep(p, es, line) == IF line = Garbage THEN es ELSE Append(es, line)
loadClaim(p, lines, es) == es \in Seq(Event) /\ Skims(lines, es)
LoadFold == INSTANCE FoldTheorems WITH Step <- loadStep, Claim <- loadClaim

batchStep(p, records, q) == records \o q.records
batchClaim(p, entries, records) == records \in Seq(Event)
BatchFold == INSTANCE FoldTheorems WITH Step <- batchStep, Claim <- batchClaim

Row == [open : BOOLEAN, amount : Nat, deadline : Nat]
rowStep(p, r, e) ==
  IF e.a # p[2] \/ e.g # p[1] THEN r
  ELSE CASE e.kind = "reservation" -> [open |-> TRUE, amount |-> e.amount, deadline |-> e.exp]
         [] e.kind = "submission"  ->
              IF r.open /\ e.exp > r.deadline THEN [r EXCEPT !.deadline = e.exp] ELSE r
         [] e.kind \in {"reversal", "settlement"} -> Closed
         [] OTHER -> r
rowClaim(p, es, r) == r \in Row
RowFold == INSTANCE FoldTheorems WITH Step <- rowStep, Claim <- rowClaim

lifeStep(p, s, e) ==
  IF e.a # p THEN s
  ELSE CASE e.kind = "decision"    -> onDecision(s, e.decision, e.amount)
         [] e.kind = "reservation" -> [onReservation(s, e.exp, e.token) EXCEPT !.amount = e.amount]
         [] e.kind = "reversal"    -> onReversal(s)
         [] e.kind = "submission"  -> onSubmission(s, e.by, e.exp)
         [] e.kind = "settlement"  -> onSettlement(s, e.outcome, e.by, e.late)
         [] OTHER                  -> s
lifeClaim(p, es, s) == s \in Lifecycle
LifeFold == INSTANCE FoldTheorems WITH Step <- lifeStep, Claim <- lifeClaim

LEMMA LoadIs ==
  ASSUME NEW lines
  PROVE  load(lines) = IF \A i \in DOMAIN lines : lines[i] # Garbage THEN lines
                       ELSE LoadFold!total(0, <<>>, lines)
BY DEF load, LoadFold!total, LoadFold!fold, fold, loadStep

LEMMA BatchIs == batch = BatchFold!total(0, <<>>, queue)
BY DEF batch, BatchFold!total, BatchFold!fold, fold, batchStep

LEMMA RowIs ==
  ASSUME NEW es, NEW g, NEW a
  PROVE  sweepRow(es, g, a) = RowFold!total(<<g, a>>, Closed, es)
BY SMT DEF sweepRow, RowFold!total, RowFold!fold, fold, rowStep

LEMMA LifeIs ==
  ASSUME NEW es, NEW a
  PROVE  railState(es, a) = LifeFold!total(a, NoState, es)
BY Zenon DEF railState, LifeFold!total, LifeFold!fold, fold, lifeStep

\* The row of the sweep and the lifecycle of an authorization are well formed.
LEMMA RowType ==
  ASSUME NEW es \in Seq(Event), NEW g, NEW a
  PROVE  sweepRow(es, g, a) \in Row
<1> DEFINE p == <<g, a>>
<1>1. rowClaim(p, <<>>, Closed)
  BY DEF rowClaim, Closed, Row
<1>2. ASSUME NEW fs \in Seq(Event), NEW e \in Event, rowClaim(p, fs, RowFold!total(p, Closed, fs))
      PROVE  rowClaim(p, Append(fs, e), rowStep(p, RowFold!total(p, Closed, fs), e))
  BY <1>2 DEF rowClaim, rowStep, Closed, Event, Row
<1> HIDE DEF p
<1>3. rowClaim(p, es, RowFold!total(p, Closed, es))
  BY <1>1, <1>2, RowFold!FoldInduction
<1> QED
  BY <1>3, RowIs DEF rowClaim, p

LEMMA LifeType ==
  ASSUME NEW es \in Seq(Event), NEW a
  PROVE  railState(es, a) \in Lifecycle
<1>1. lifeClaim(a, <<>>, NoState)
  BY DEF lifeClaim, NoState, Lifecycle, Decisions, Outcomes
<1>2. ASSUME NEW fs \in Seq(Event), NEW e \in Event, lifeClaim(a, fs, LifeFold!total(a, NoState, fs))
      PROVE  lifeClaim(a, Append(fs, e), lifeStep(a, LifeFold!total(a, NoState, fs), e))
  <2>1. \A s \in Lifecycle : lifeStep(a, s, e) \in Lifecycle
    <3> TAKE s \in Lifecycle
    <3>1. /\ e.decision \in Decisions /\ e.amount \in Nat /\ e.exp \in Nat
          /\ e.token \in BOOLEAN /\ e.outcome \in Outcomes /\ e.late \in BOOLEAN
          /\ e.by \in Reporters \cup {"none"}
      BY DEF Event
    <3>2. CASE e.a # a \/ e.kind \notin {"decision", "reservation", "reversal", "submission",
                                       "settlement"}
      BY <3>2 DEF lifeStep
    <3>3. CASE e.a = a /\ e.kind = "decision"
      BY <3>1, <3>3 DEF lifeStep, onDecision, Lifecycle
    <3>4. CASE e.a = a /\ e.kind = "reservation"
      BY <3>1, <3>4 DEF lifeStep, onReservation, Lifecycle
    <3>5. CASE e.a = a /\ e.kind = "reversal"
      BY <3>1, <3>5 DEF lifeStep, onReversal, Lifecycle
    <3>6. CASE e.a = a /\ e.kind = "submission"
      BY <3>1, <3>6 DEF lifeStep, onSubmission, Lifecycle, Outcomes
    <3>7. CASE e.a = a /\ e.kind = "settlement"
      BY <3>1, <3>7 DEF lifeStep, onSettlement, Lifecycle
    <3> QED
      BY <3>2, <3>3, <3>4, <3>5, <3>6, <3>7
  <2> QED
    BY <1>2, <2>1 DEF lifeClaim
<1>3. lifeClaim(a, es, LifeFold!total(a, NoState, es))
  BY <1>1, <1>2, LifeFold!FoldInduction
<1> QED
  BY <1>3, LifeIs DEF lifeClaim

-----------------------------------------------------------------------------
(* What the folds of the store return. *)

LineType == Event \cup {Garbage}

LEMMA SkimsAppend ==
  ASSUME NEW lines \in Seq(LineType), NEW es \in Seq(Event), Skims(lines, es), NEW line \in LineType
  PROVE  Skims(Append(lines, line), IF line = Garbage THEN es ELSE Append(es, line))
<1> DEFINE more == Append(lines, line)
           m == Len(lines) + 1
           n == Len(es) + 1
<1>1. /\ DOMAIN more = DOMAIN lines \cup {m} /\ m \notin DOMAIN lines /\ more[m] = line
      /\ \A i \in DOMAIN lines : more[i] = lines[i]
  OBVIOUS
<1>2. PICK f \in [DOMAIN es -> DOMAIN lines] :
        /\ \A i \in DOMAIN es : es[i] = lines[f[i]]
        /\ \A i, j \in DOMAIN es : f[i] = f[j] => i = j
  BY DEF Skims
<1>3. \A j \in DOMAIN lines : lines[j] # Garbage => \E i \in DOMAIN es : es[i] = lines[j]
  BY DEF Skims
<1> HIDE DEF more, m
<1>4. CASE line = Garbage
  <2>1. f \in [DOMAIN es -> DOMAIN more] /\ \A i \in DOMAIN es : es[i] = more[f[i]]
    BY <1>1, <1>2
  <2>2. \A j \in DOMAIN more : more[j] # Garbage => \E i \in DOMAIN es : es[i] = more[j]
    BY <1>1, <1>3, <1>4
  <2>3. Skims(more, es)
    BY <1>2, <2>1, <2>2 DEF Skims
  <2> QED
    BY <1>4, <2>3 DEF more
<1>5. CASE line # Garbage
  <2> DEFINE rest == Append(es, line)
             h == [i \in DOMAIN rest |-> IF i = n THEN m ELSE f[i]]
  <2>1. /\ DOMAIN rest = DOMAIN es \cup {n} /\ n \notin DOMAIN es /\ rest[n] = line
        /\ \A i \in DOMAIN es : rest[i] = es[i]
    BY <1>5 DEF LineType
  <2> HIDE DEF rest, n
  <2>2. h \in [DOMAIN rest -> DOMAIN more] /\ \A i \in DOMAIN rest : rest[i] = more[h[i]]
    BY <1>1, <1>2, <2>1
  <2>3. \A i, j \in DOMAIN rest : h[i] = h[j] => i = j
    BY <1>1, <1>2, <2>1
  <2>4. \A j \in DOMAIN more : more[j] # Garbage => \E i \in DOMAIN rest : rest[i] = more[j]
    BY <1>1, <1>3, <2>1
  <2> HIDE DEF h
  <2>5. Skims(more, rest)
    BY <2>2, <2>3, <2>4 DEF Skims
  <2> QED
    BY <1>5, <2>5 DEF more, rest
<1> QED
  BY <1>4, <1>5

\* A boot reads the records, whatever is in the file.
LEMMA LoadLines ==
  ASSUME NEW lines \in Seq(LineType)
  PROVE  load(lines) \in Seq(Event) /\ Skims(lines, load(lines))
<1>1. CASE \A i \in DOMAIN lines : lines[i] # Garbage
  <2>1. \A i \in 1..Len(lines) : lines[i] \in Event
    BY <1>1 DEF LineType
  <2>2. lines \in Seq(Event)
    BY <2>1, IsASeq
  <2>3. [i \in DOMAIN lines |-> i] \in [DOMAIN lines -> DOMAIN lines]
    OBVIOUS
  <2>4. Skims(lines, lines)
    BY <2>3 DEF Skims
  <2> QED
    BY <1>1, <2>2, <2>4, LoadIs
<1>2. CASE ~\A i \in DOMAIN lines : lines[i] # Garbage
  <2>1. loadClaim(0, <<>>, <<>>)
    <3>1. DOMAIN <<>> = {} /\ <<>> \in Seq(Event)
      OBVIOUS
    <3>2. [i \in {} |-> i] \in [{} -> {}]
      OBVIOUS
    <3> QED
      BY <3>1, <3>2 DEF loadClaim, Skims
  <2>2. ASSUME NEW ls \in Seq(LineType), NEW l \in LineType,
               loadClaim(0, ls, LoadFold!total(0, <<>>, ls))
        PROVE  loadClaim(0, Append(ls, l), loadStep(0, LoadFold!total(0, <<>>, ls), l))
    <3>1. PICK es \in Seq(Event) : es = LoadFold!total(0, <<>>, ls) /\ Skims(ls, es)
      BY <2>2 DEF loadClaim
    <3>2. (IF l = Garbage THEN es ELSE Append(es, l)) \in Seq(Event)
      BY DEF LineType
    <3> QED
      BY <3>1, <3>2, SkimsAppend DEF loadClaim, loadStep
  <2>3. loadClaim(0, lines, LoadFold!total(0, <<>>, lines))
    BY <2>1, <2>2, LoadFold!FoldInduction
  <2> QED
    BY <1>2, <2>3, LoadIs DEF loadClaim
<1> QED
  BY <1>1, <1>2

LEMMA LoadType ==
  ASSUME NEW lines \in Seq(LineType)
  PROVE  load(lines) \in Seq(Event)
BY LoadLines

Entry == [by : Slots, records : Seq(Event)]

LEMMA BatchType ==
  ASSUME queue \in Seq(Entry)
  PROVE  batch \in Seq(Event)
<1>1. batchClaim(0, <<>>, <<>>)
  BY DEF batchClaim
<1>2. ASSUME NEW qs \in Seq(Entry), NEW q \in Entry,
             batchClaim(0, qs, BatchFold!total(0, <<>>, qs))
      PROVE  batchClaim(0, Append(qs, q), batchStep(0, BatchFold!total(0, <<>>, qs), q))
  BY <1>2 DEF batchClaim, batchStep, Entry
<1>3. batchClaim(0, queue, BatchFold!total(0, <<>>, queue))
  BY <1>1, <1>2, BatchFold!FoldInduction
<1> QED
  BY <1>3, BatchIs DEF batchClaim

LEMMA BatchIsNext == batch' = BatchFold!total(0, <<>>, queue')
BY DEF batch, BatchFold!total, BatchFold!fold, fold, batchStep

\* An append() adds its records to the next drain; a drain leaves none.
LEMMA BatchEnqueue ==
  ASSUME queue \in Seq(Entry), NEW r \in Slots, NEW records \in Seq(Event), Enqueue(r, records)
  PROVE  batch' = batch \o records
<1> DEFINE q == [by |-> r, records |-> records]
<1>1. q \in Entry
  BY DEF Entry
<1>2. queue' = Append(queue, q)
  BY DEF Enqueue
<1>3. BatchFold!total(0, <<>>, Append(queue, q)) = batchStep(0, BatchFold!total(0, <<>>, queue), q)
  <2> HIDE DEF q
  <2> QED
    BY <1>1, BatchFold!FoldAppend
<1> QED
  BY <1>2, <1>3, BatchIs, BatchIsNext DEF batchStep

LEMMA BatchEmpty == queue = <<>> => batch = <<>>
BY BatchIs, BatchFold!FoldEmpty

LEMMA BatchEmptyNext == queue' = <<>> => batch' = <<>>
BY BatchIsNext, BatchFold!FoldEmpty

LEMMA BatchSame == UNCHANGED queue => batch' = batch
BY BatchIs, BatchIsNext

-----------------------------------------------------------------------------
(* The reads of the log, on a log that grows. *)

\* A place in two logs put together is a place in one of them.
LEMMA ConcatPlaces ==
  ASSUME NEW es \in Seq(Event), NEW fs \in Seq(Event)
  PROVE  /\ es \o fs \in Seq(Event)
         /\ \A i \in DOMAIN es : i \in DOMAIN (es \o fs) /\ (es \o fs)[i] = es[i]
         /\ \A j \in DOMAIN fs : /\ Len(es) + j \in DOMAIN (es \o fs)
                                 /\ (es \o fs)[Len(es) + j] = fs[j]
         /\ \A i \in DOMAIN (es \o fs) : i \in DOMAIN es \/ \E j \in DOMAIN fs : i = Len(es) + j
<1>1. /\ DOMAIN es = 1..Len(es) /\ DOMAIN fs = 1..Len(fs) /\ Len(es) \in Nat /\ Len(fs) \in Nat
      /\ DOMAIN (es \o fs) = 1..(Len(es) + Len(fs)) /\ es \o fs \in Seq(Event)
  BY ConcatProperties
<1>2. \A i \in 1..(Len(es) + Len(fs)) : i \notin DOMAIN es => i - Len(es) \in DOMAIN fs
  BY <1>1
<1>3. \A j \in DOMAIN fs : Len(es) + j \in 1..(Len(es) + Len(fs)) /\ Len(es) + j > Len(es)
                           /\ (Len(es) + j) - Len(es) = j
  BY <1>1
<1>4. \A i \in DOMAIN es : i \in 1..(Len(es) + Len(fs)) /\ i <= Len(es)
  BY <1>1
<1>5. \A i \in 1..(Len(es) + Len(fs)) :
        (es \o fs)[i] = IF i <= Len(es) THEN es[i] ELSE fs[i - Len(es)]
  BY ConcatProperties
<1>6. \A j \in DOMAIN fs : (es \o fs)[Len(es) + j] = fs[j]
  BY <1>1, <1>3, <1>5
<1>7. \A i \in 1..(Len(es) + Len(fs)) : i \notin DOMAIN es => i = Len(es) + (i - Len(es))
  BY <1>1
<1> QED
  BY <1>1, <1>2, <1>3, <1>4, <1>5, <1>6, <1>7

LEMMA LoggedConcat ==
  ASSUME NEW es \in Seq(Event), NEW fs \in Seq(Event), NEW kind, NEW a
  PROVE  Logged(es \o fs, kind, a) <=> Logged(es, kind, a) \/ Logged(fs, kind, a)
<1>1. ASSUME Logged(es \o fs, kind, a) PROVE Logged(es, kind, a) \/ Logged(fs, kind, a)
  BY <1>1, ConcatPlaces DEF Logged
<1>2. ASSUME Logged(es, kind, a) \/ Logged(fs, kind, a) PROVE Logged(es \o fs, kind, a)
  <2>1. CASE Logged(es, kind, a)
    <3>1. PICK i \in DOMAIN es : es[i].kind = kind /\ es[i].a = a
      BY <2>1 DEF Logged
    <3> QED
      BY <3>1, ConcatPlaces DEF Logged
  <2>2. CASE Logged(fs, kind, a)
    <3>1. PICK j \in DOMAIN fs : fs[j].kind = kind /\ fs[j].a = a
      BY <2>2 DEF Logged
    <3>2. Len(es) + j \in DOMAIN (es \o fs) /\ (es \o fs)[Len(es) + j] = fs[j]
      BY ConcatPlaces
    <3> QED
      BY <3>1, <3>2 DEF Logged
  <2> QED
    BY <1>2, <2>1, <2>2
<1> QED
  BY <1>1, <1>2

\* The last of some places of a log is one of them, and no other is after it.
LEMMA LastPlace ==
  ASSUME NEW es \in Seq(Event), NEW places \in SUBSET DOMAIN es, places # {}
  PROVE  \E i \in places : (\A j \in places : j <= i) /\ lastAt(es, places) = es[i]
<1>1. DOMAIN es = 1..Len(es) /\ Len(es) \in Nat
  OBVIOUS
<1> DEFINE back == {n \in 0..Len(es) : Len(es) - n \in places}
<1>2. back \in SUBSET Nat /\ back # {}
  <2>1. PICK i \in places : TRUE
    OBVIOUS
  <2>2. Len(es) - i \in 0..Len(es) /\ Len(es) - (Len(es) - i) = i
    BY <1>1, <2>1
  <2> QED
    BY <1>1, <2>1, <2>2
<1>3. PICK n \in back : \A m \in back : n <= m
  BY <1>2, LoadFold!LeastOf
<1>4. Len(es) - n \in places /\ \A j \in places : j <= Len(es) - n
  <2> SUFFICES ASSUME NEW j \in places PROVE j <= Len(es) - n
    OBVIOUS
  <2>1. j \in 1..Len(es) /\ Len(es) - (Len(es) - j) = j
    BY <1>1
  <2>2. Len(es) - j \in back
    BY <1>1, <2>1
  <2> QED
    BY <1>1, <1>3, <2>1, <2>2
<1> DEFINE i == CHOOSE i \in places : \A j \in places : j <= i
<1>5. i \in places /\ \A j \in places : j <= i
  BY <1>4
<1> QED
  BY <1>5 DEF lastAt

\* The last of places that were there before a log grew is the same as before.
LEMMA LastSame ==
  ASSUME NEW es \in Seq(Event), NEW fs \in Seq(Event), NEW places \in SUBSET DOMAIN es
  PROVE  lastAt(es \o fs, places) = lastAt(es, places)
<1>1. CASE places = {}
  BY <1>1 DEF lastAt
<1>2. CASE places # {}
  <2>1. PICK i \in places : (\A j \in places : j <= i) /\ lastAt(es, places) = es[i]
    BY <1>2, LastPlace
  <2>2. places \in SUBSET DOMAIN (es \o fs) /\ es \o fs \in Seq(Event)
    BY ConcatPlaces
  <2>3. PICK k \in places : (\A j \in places : j <= k) /\ lastAt(es \o fs, places) = (es \o fs)[k]
    BY <1>2, <2>2, LastPlace
  <2>4. i \in Nat /\ k \in Nat /\ i = k
    BY <2>1, <2>3
  <2> QED
    BY <2>1, <2>3, <2>4, ConcatPlaces
<1> QED
  BY <1>1, <1>2

\* A grant has a policy in the log when a grant_meta of it is there.
Known(es, g) == \E i \in DOMAIN es : es[i].kind = "grant_meta" /\ es[i].g = g

LEMMA GrantKnown ==
  ASSUME NEW es \in Seq(Event), NEW g
  PROVE  /\ grantOf(es, g) # None <=> Known(es, g)
         /\ grantOf(es, g) # None => g \in Grants /\ grantOf(es, g) \in Policies
<1> DEFINE places == {i \in DOMAIN es : es[i].kind = "grant_meta" /\ es[i].g = g}
<1>1. CASE places = {}
  BY <1>1 DEF grantOf, lastAt, NoEvent, Known
<1>2. CASE places # {}
  <2>1. PICK i \in places : lastAt(es, places) = es[i]
    BY <1>2, LastPlace
  <2>2. es[i] \in Event /\ es[i].kind = "grant_meta" /\ es[i].g = g
    BY <2>1
  <2>3. es[i].g \in Grants /\ es[i].policy \in Policies
    BY <2>2 DEF Event
  <2> QED
    BY <1>2, <2>1, <2>2, <2>3, ServerAssumption DEF grantOf, Known
<1> QED
  BY <1>1, <1>2

LEMMA KnownConcat ==
  ASSUME NEW es \in Seq(Event), NEW fs \in Seq(Event), NEW g
  PROVE  Known(es \o fs, g) <=> Known(es, g) \/ Known(fs, g)
<1>1. ASSUME Known(es \o fs, g) PROVE Known(es, g) \/ Known(fs, g)
  BY <1>1, ConcatPlaces DEF Known
<1>2. ASSUME Known(es, g) \/ Known(fs, g) PROVE Known(es \o fs, g)
  <2>1. CASE Known(es, g)
    <3>1. PICK i \in DOMAIN es : es[i].kind = "grant_meta" /\ es[i].g = g
      BY <2>1 DEF Known
    <3> QED
      BY <3>1, ConcatPlaces DEF Known
  <2>2. CASE Known(fs, g)
    <3>1. PICK j \in DOMAIN fs : fs[j].kind = "grant_meta" /\ fs[j].g = g
      BY <2>2 DEF Known
    <3>2. Len(es) + j \in DOMAIN (es \o fs) /\ (es \o fs)[Len(es) + j] = fs[j]
      BY ConcatPlaces
    <3> QED
      BY <3>1, <3>2 DEF Known
  <2> QED
    BY <1>2, <2>1, <2>2
<1> QED
  BY <1>1, <1>2

LEMMA DecidedConcat ==
  ASSUME NEW es \in Seq(Event), NEW fs \in Seq(Event), NEW g, NEW k
  PROVE  /\ decidedAt(es \o fs, g, k) =
              decidedAt(es, g, k) \cup {Len(es) + j : j \in decidedAt(fs, g, k)}
         /\ decidedAt(fs, g, k) = {} => decidedAt(es \o fs, g, k) = decidedAt(es, g, k)
<1>1. decidedAt(es \o fs, g, k) =
        decidedAt(es, g, k) \cup {Len(es) + j : j \in decidedAt(fs, g, k)}
  BY ConcatPlaces DEF decidedAt
<1>2. ASSUME decidedAt(fs, g, k) = {}
      PROVE  decidedAt(es \o fs, g, k) = decidedAt(es, g, k)
  BY <1>2, ConcatPlaces DEF decidedAt
<1> QED
  BY <1>1, <1>2

\* What a key is answered with: the last decision of it, of a known grant.
LEMMA AnswerIs ==
  ASSUME NEW es \in Seq(Event), NEW g \in Grants, NEW k \in Keys
  PROVE  /\ ~Known(es, g) \/ decidedAt(es, g, k) = {} => answerOf(es, g, k) = None
         /\ Known(es, g) /\ decidedAt(es, g, k) # {} =>
              \E i \in decidedAt(es, g, k) :
                /\ \A j \in decidedAt(es, g, k) : j <= i
                /\ answerOf(es, g, k) = [a |-> es[i].a, decision |-> es[i].decision]
                /\ answerOf(es, g, k) \in [a : AuthIds, decision : Decisions]
<1> DEFINE places == {i \in DOMAIN es : /\ es[i].kind = "decision" /\ es[i].g = g /\ es[i].key = k
                                        /\ grantOf(es, g) # None}
<1>1. idemOf(es, g, k) = lastAt(es, places)
  BY DEF idemOf
<1>2. ~Known(es, g) => places = {}
  BY GrantKnown
<1>3. Known(es, g) => places = decidedAt(es, g, k)
  BY GrantKnown DEF decidedAt
<1>4. ASSUME ~Known(es, g) \/ decidedAt(es, g, k) = {} PROVE answerOf(es, g, k) = None
  <2>1. places = {}
    BY <1>2, <1>3, <1>4
  <2>2. lastAt(es, places) = NoEvent
    BY <2>1 DEF lastAt
  <2> HIDE DEF places
  <2> QED
    BY <1>1, <2>2 DEF answerOf
<1>5. ASSUME Known(es, g), decidedAt(es, g, k) # {}
      PROVE  \E i \in decidedAt(es, g, k) :
                /\ \A j \in decidedAt(es, g, k) : j <= i
                /\ answerOf(es, g, k) = [a |-> es[i].a, decision |-> es[i].decision]
                /\ answerOf(es, g, k) \in [a : AuthIds, decision : Decisions]
  <2>1. places = decidedAt(es, g, k) /\ places # {} /\ places \in SUBSET DOMAIN es
    BY <1>3, <1>5
  <2> HIDE DEF places
  <2>2. PICK i \in places : (\A j \in places : j <= i) /\ lastAt(es, places) = es[i]
    BY <2>1, LastPlace
  <2>3. i \in DOMAIN es /\ es[i] \in Event /\ es[i].kind = "decision"
    BY <2>1 DEF decidedAt
  <2>4. es[i] # NoEvent
    BY <2>3 DEF NoEvent
  <2>5. es[i].a \in AuthIds /\ es[i].decision \in Decisions
    BY <2>3 DEF Event
  <2>6. answerOf(es, g, k) = [a |-> es[i].a, decision |-> es[i].decision]
    BY <1>1, <2>2, <2>4 DEF answerOf
  <2> QED
    BY <2>1, <2>2, <2>5, <2>6
<1> QED
  BY <1>4, <1>5

LEMMA AnswerType ==
  ASSUME NEW es \in Seq(Event), NEW g \in Grants, NEW k \in Keys
  PROVE  answerOf(es, g, k) \in [a : AuthIds, decision : Decisions] \cup {None}
BY AnswerIs

\* A known grant has no answer for a key only when the log never decided it.
LEMMA AnswerNone ==
  ASSUME NEW es \in Seq(Event), NEW g \in Grants, NEW k \in Keys, Known(es, g)
  PROVE  answerOf(es, g, k) = None <=> decidedAt(es, g, k) = {}
<1>1. None \notin [a : AuthIds, decision : Decisions]
  BY ServerAssumption
<1> QED
  BY <1>1, AnswerIs

\* An answer is in the log.
LEMMA AnswerLogged ==
  ASSUME NEW es \in Seq(Event), NEW g \in Grants, NEW k \in Keys, answerOf(es, g, k) # None
  PROVE  \E i \in decidedAt(es, g, k) :
           answerOf(es, g, k) = [a |-> es[i].a, decision |-> es[i].decision]
BY AnswerIs

\* Records that decide nothing of a key leave its answer alone, unless they make
\* its grant known.
LEMMA AnswerSame ==
  ASSUME NEW es \in Seq(Event), NEW fs \in Seq(Event), NEW g \in Grants, NEW k \in Keys,
         decidedAt(fs, g, k) = {},
         Known(fs, g) /\ ~Known(es, g) => decidedAt(es, g, k) = {}
  PROVE  answerOf(es \o fs, g, k) = answerOf(es, g, k)
<1>1. es \o fs \in Seq(Event)
  BY ConcatPlaces
<1>2. decidedAt(es \o fs, g, k) = decidedAt(es, g, k)
  BY DecidedConcat
<1>3. CASE ~Known(es, g)
  BY <1>1, <1>2, <1>3, AnswerIs, KnownConcat
<1>4. CASE decidedAt(es, g, k) = {}
  BY <1>1, <1>2, <1>4, AnswerIs
<1>5. CASE Known(es, g) /\ decidedAt(es, g, k) # {}
  <2>1. Known(es \o fs, g)
    BY <1>5, KnownConcat
  <2>2. PICK i \in decidedAt(es, g, k) :
                /\ \A j \in decidedAt(es, g, k) : j <= i
                /\ answerOf(es, g, k) = [a |-> es[i].a, decision |-> es[i].decision]
    BY <1>5, AnswerIs
  <2>3. PICK m \in decidedAt(es, g, k) :
                /\ \A j \in decidedAt(es, g, k) : j <= m
                /\ answerOf(es \o fs, g, k) =
                     [a |-> (es \o fs)[m].a, decision |-> (es \o fs)[m].decision]
    BY <1>1, <1>2, <1>5, <2>1, AnswerIs
  <2>4. i \in DOMAIN es /\ m \in DOMAIN es
    BY DEF decidedAt
  <2>5. i = m
    BY <2>2, <2>3, <2>4
  <2> QED
    BY <2>2, <2>3, <2>4, <2>5, ConcatPlaces
<1> QED
  BY <1>3, <1>4, <1>5

\* A decision of a key becomes its answer.
LEMMA AnswerNew ==
  ASSUME NEW es \in Seq(Event), NEW fs \in Seq(Event), NEW g \in Grants, NEW k \in Keys,
         Known(es, g), NEW j \in decidedAt(fs, g, k), decidedAt(fs, g, k) = {j}
  PROVE  answerOf(es \o fs, g, k) = [a |-> fs[j].a, decision |-> fs[j].decision]
<1>1. es \o fs \in Seq(Event) /\ Known(es \o fs, g)
  BY ConcatPlaces, KnownConcat
<1>2. decidedAt(es \o fs, g, k) = decidedAt(es, g, k) \cup {Len(es) + j}
  BY DecidedConcat
<1>3. PICK i \in decidedAt(es \o fs, g, k) :
                /\ \A m \in decidedAt(es \o fs, g, k) : m <= i
                /\ answerOf(es \o fs, g, k) =
                     [a |-> (es \o fs)[i].a, decision |-> (es \o fs)[i].decision]
  BY <1>1, <1>2, AnswerIs
<1>4. j \in DOMAIN fs /\ j > 0 /\ Len(es) \in Nat /\ Len(es) + j > Len(es)
  BY DEF decidedAt
<1>5. \A m \in decidedAt(es, g, k) : m \in Nat /\ m <= Len(es)
  BY DEF decidedAt
<1>6. i = Len(es) + j
  <2>1. Len(es) + j <= i
    BY <1>2, <1>3
  <2>2. i \notin decidedAt(es, g, k)
    BY <1>4, <1>5, <2>1
  <2> QED
    BY <1>2, <2>2
<1> QED
  BY <1>3, <1>4, <1>6, ConcatPlaces

\* The request of an escalation is not forgotten for records that request nothing of it.
LEMMA RequestSame ==
  ASSUME NEW es \in Seq(Event), NEW fs \in Seq(Event), NEW a, ~Logged(fs, "approval_request", a)
  PROVE  requestOf(es \o fs, a) = requestOf(es, a)
<1> DEFINE places(ls) == {i \in DOMAIN ls : ls[i].kind = "approval_request" /\ ls[i].a = a}
<1>1. places(es \o fs) = places(es)
  BY ConcatPlaces DEF Logged
<1>2. places(es) \in SUBSET DOMAIN es
  OBVIOUS
<1>3. lastAt(es \o fs, places(es)) = lastAt(es, places(es))
  <2> HIDE DEF places
  <2> QED
    BY <1>2, LastSame
<1> QED
  BY <1>1, <1>3 DEF requestOf

LEMMA RequestType ==
  ASSUME NEW es \in Seq(Event), NEW a, Logged(es, "approval_request", a)
  PROVE  requestOf(es, a).g \in Grants
<1> DEFINE places == {i \in DOMAIN es : es[i].kind = "approval_request" /\ es[i].a = a}
<1>1. PICK i \in places : lastAt(es, places) = es[i]
  <2>1. places # {} /\ places \in SUBSET DOMAIN es
    BY DEF Logged
  <2> QED
    BY <2>1, LastPlace
<1>2. es[i] \in Event /\ es[i].kind = "approval_request"
  OBVIOUS
<1> QED
  BY <1>1, <1>2 DEF requestOf, Event

LEMMA DecisionType ==
  ASSUME NEW es \in Seq(Event), NEW a, decisionOf(es, a) # NoEvent
  PROVE  decisionOf(es, a) \in Event /\ decisionOf(es, a).kind = "decision" /\ decisionOf(es, a).a = a
<1> DEFINE places == {i \in DOMAIN es : es[i].kind = "decision" /\ es[i].a = a}
<1>1. places # {}
  BY DEF decisionOf, lastAt
<1>2. PICK i \in places : lastAt(es, places) = es[i]
  BY <1>1, LastPlace
<1> QED
  BY <1>2 DEF decisionOf

LEMMA PendingIs ==
  ASSUME NEW es
  PROVE  pendingOf(es) = {a \in AuthIds : /\ Logged(es, "approval_request", a)
                                          /\ ~Logged(es, "approval_decision", a)}
BY DEF pendingOf, Logged

LEMMA PendingConcat ==
  ASSUME NEW es \in Seq(Event), NEW fs \in Seq(Event), NEW a \in AuthIds
  PROVE  a \in pendingOf(es \o fs) <=>
           /\ Logged(es, "approval_request", a) \/ Logged(fs, "approval_request", a)
           /\ ~Logged(es, "approval_decision", a) /\ ~Logged(fs, "approval_decision", a)
BY PendingIs, LoggedConcat

-----------------------------------------------------------------------------
(* What a write leaves in the file. *)

\* The lines of `new` are lines of `old` where they were, lines of `more` one
\* after the other behind them, or garbage.
Extends(new, old, more) ==
  \E d \in {0, 1} : \A i \in DOMAIN new :
    \/ new[i] = Garbage
    \/ i \in DOMAIN old /\ new[i] = old[i]
    \/ \E j \in DOMAIN more : i = Len(old) + j - d /\ new[i] = more[j]

LEMMA WrittenLines ==
  ASSUME file \in Seq(LineType), unended \in BOOLEAN, unended => file # <<>>,
         NEW more \in Seq(LineType)
  PROVE  /\ written(more) \in Seq(LineType)
         /\ more # <<>> => written(more) # <<>>
         /\ Extends(written(more), file, more)
<1>1. Garbage \in LineType
  BY DEF LineType
<1>2. CASE more = <<>>
  <2>1. written(more) = file
    BY <1>2 DEF written
  <2> QED
    BY <1>2, <2>1 DEF Extends
<1>3. CASE more # <<>> /\ ~unended
  <2>1. written(more) = file \o more
    BY <1>3 DEF written
  <2>2. \A i \in DOMAIN (file \o more) :
          \/ i \in DOMAIN file /\ (file \o more)[i] = file[i]
          \/ \E j \in DOMAIN more : i = Len(file) + j - 0 /\ (file \o more)[i] = more[j]
    <3> TAKE i \in DOMAIN (file \o more)
    <3>1. CASE i \in DOMAIN file
      BY <3>1, ConcatProperties
    <3>2. CASE i \notin DOMAIN file
      <4>1. i - Len(file) \in DOMAIN more /\ i = Len(file) + (i - Len(file)) - 0
        BY <3>2, ConcatProperties
      <4>2. (file \o more)[i] = more[i - Len(file)]
        BY <3>2, ConcatProperties
      <4> QED
        BY <4>1, <4>2
    <3> QED
      BY <3>1, <3>2
  <2>3. Extends(file \o more, file, more)
    BY <2>2 DEF Extends
  <2>4. file \o more \in Seq(LineType) /\ file \o more # <<>>
    BY <1>3, ConcatProperties
  <2> QED
    BY <2>1, <2>3, <2>4
<1>4. CASE more # <<>> /\ unended
  <2> DEFINE front == Front(file)
             rest == Tail(more)
             mid == front \o <<Garbage>>
  <2>1. /\ front \in Seq(LineType) /\ Len(front) = Len(file) - 1 /\ Len(file) \in Nat \ {0}
        /\ \A i \in 1..(Len(file) - 1) : front[i] = file[i]
    <3>1. Len(file) \in Nat \ {0} /\ \A i \in 1..(Len(file) - 1) : file[i] \in LineType
      BY <1>4
    <3>2. /\ front \in Seq(LineType)
          /\ Len(front) = IF 1 <= Len(file) - 1 THEN (Len(file) - 1) - 1 + 1 ELSE 0
          /\ \A i \in 1..((Len(file) - 1) - 1 + 1) : front[i] = file[1 + i - 1]
      BY <3>1, SubSeqProperties DEF Front
    <3> HIDE DEF front
    <3>3. Len(front) = Len(file) - 1
      <4>1. PICK m \in Nat \ {0} : m = Len(file)
        BY <3>1
      <4>2. Len(front) = IF 1 <= m - 1 THEN (m - 1) - 1 + 1 ELSE 0
        BY <3>2, <4>1
      <4> QED
        BY <4>1, <4>2
    <3>4. \A i \in 1..(Len(file) - 1) : i \in 1..((Len(file) - 1) - 1 + 1) /\ 1 + i - 1 = i
      BY <3>1
    <3> QED
      BY <3>1, <3>2, <3>3, <3>4
  <2>2. /\ rest \in Seq(LineType) /\ Len(rest) = Len(more) - 1 /\ Len(more) \in Nat \ {0}
        /\ \A i \in 1..(Len(more) - 1) : rest[i] = more[i + 1]
    BY <1>4
  <2> HIDE DEF front, rest
  <2>3. /\ mid \in Seq(LineType) /\ Len(mid) = Len(file) /\ mid[Len(file)] = Garbage
        /\ \A i \in 1..(Len(file) - 1) : mid[i] = front[i]
    BY <1>1, <2>1
  <2>4. written(more) = mid \o rest
    BY <1>4 DEF written, front, rest
  <2> HIDE DEF mid
  <2>5. /\ mid \o rest \in Seq(LineType) /\ Len(mid \o rest) = Len(file) + Len(rest)
        /\ \A i \in 1..(Len(file) + Len(rest)) :
             (mid \o rest)[i] = IF i <= Len(file) THEN mid[i] ELSE rest[i - Len(file)]
    <3>1. /\ mid \o rest \in Seq(LineType) /\ Len(mid \o rest) = Len(mid) + Len(rest)
          /\ \A i \in 1..(Len(mid) + Len(rest)) :
               (mid \o rest)[i] = IF i <= Len(mid) THEN mid[i] ELSE rest[i - Len(mid)]
      BY <2>2, <2>3, ConcatProperties
    <3> QED
      BY <2>3, <3>1
  <2>6. \A i \in DOMAIN (mid \o rest) :
          \/ (mid \o rest)[i] = Garbage
          \/ i \in DOMAIN file /\ (mid \o rest)[i] = file[i]
          \/ \E j \in DOMAIN more : i = Len(file) + j - 1 /\ (mid \o rest)[i] = more[j]
    <3> TAKE i \in DOMAIN (mid \o rest)
    <3>1. i \in 1..(Len(file) + Len(rest)) /\ Len(rest) \in Nat
      BY <2>2, <2>5
    <3>2. CASE i < Len(file)
      <4>1. i \in 1..(Len(file) - 1) /\ i \in DOMAIN file
        BY <2>1, <3>1, <3>2
      <4>2. (mid \o rest)[i] = mid[i]
        BY <2>1, <2>5, <3>1, <3>2
      <4>3. mid[i] = front[i] /\ front[i] = file[i]
        BY <2>1, <2>3, <4>1
      <4> QED
        BY <4>1, <4>2, <4>3
    <3>3. CASE i = Len(file)
      BY <2>3, <2>5, <3>1, <3>3
    <3>4. CASE i > Len(file)
      <4>1. i - Len(file) \in 1..(Len(more) - 1)
        BY <2>1, <2>2, <3>1, <3>4
      <4>2. PICK m \in 1..(Len(more) - 1) : m = i - Len(file)
        BY <4>1
      <4>3. m + 1 \in DOMAIN more /\ i = Len(file) + (m + 1) - 1
        <5>1. m \in Nat /\ m >= 1 /\ m <= Len(more) - 1 /\ DOMAIN more = 1..Len(more)
          BY <2>2
        <5>2. i \in Nat /\ Len(file) \in Nat /\ Len(more) \in Nat
          BY <2>1, <2>2, <3>1
        <5>3. m + 1 \in 1..Len(more)
          BY <5>1, <5>2
        <5>4. i = Len(file) + (m + 1) - 1
          BY <4>2, <5>1, <5>2
        <5> QED
          BY <5>1, <5>3, <5>4
      <4>4. ~(i <= Len(file))
        BY <2>1, <3>1, <3>4
      <4>5. (mid \o rest)[i] = rest[m]
        BY <2>5, <3>1, <4>2, <4>4
      <4>6. rest[m] = more[m + 1]
        BY <2>2
      <4> QED
        BY <4>3, <4>5, <4>6
    <3> QED
      BY <2>1, <3>1, <3>2, <3>3, <3>4
  <2>7. Extends(mid \o rest, file, more)
    BY <2>6 DEF Extends
  <2>8. mid \o rest # <<>>
    BY <2>1, <2>2, <2>5
  <2> QED
    BY <2>4, <2>5, <2>7, <2>8
<1> QED
  BY <1>2, <1>3, <1>4

\* Whatever a write of the batch leaves in the file is of the file and the batch.
LEMMA LeavesLines ==
  ASSUME file \in Seq(LineType), unended \in BOOLEAN, unended => file # <<>>,
         batch \in Seq(Event), NEW n, NEW cut, Leaves(n, cut)
  PROVE  /\ file' \in Seq(LineType) /\ unended' \in BOOLEAN /\ (unended' => file' # <<>>)
         /\ Extends(file', file, batch)
<1> DEFINE kept == SubSeq(batch, 1, n)
<1>1. n \in 0..Len(batch) /\ Len(batch) \in Nat
  <2>1. Len(batch) \in Nat
    OBVIOUS
  <2> QED
    BY <2>1 DEF Leaves
<1>2. /\ kept \in Seq(Event) /\ Len(kept) = n
      /\ \A j \in 1..n : kept[j] = batch[j] /\ j \in DOMAIN batch
  BY <1>1
<1> HIDE DEF kept
<1>3. kept \in Seq(LineType) /\ Append(kept, Garbage) \in Seq(LineType)
      /\ Append(kept, Garbage) # <<>> /\ (kept = <<>> <=> n = 0)
  <2>1. Garbage \in LineType /\ Event \subseteq LineType
    BY DEF LineType
  <2> QED
    BY <1>1, <1>2, <2>1
<1>4. ASSUME NEW more \in Seq(LineType),
             \A j \in DOMAIN more : more[j] = Garbage \/ (j \in DOMAIN batch /\ more[j] = batch[j])
      PROVE  /\ written(more) \in Seq(LineType)
             /\ more # <<>> => written(more) # <<>>
             /\ Extends(written(more), file, batch)
  <2>1. Extends(written(more), file, more)
    BY WrittenLines
  <2>2. Extends(written(more), file, batch)
    BY <1>4, <2>1 DEF Extends
  <2> QED
    BY <2>2, WrittenLines
<1>5. \A j \in DOMAIN kept : kept[j] = Garbage \/ (j \in DOMAIN batch /\ kept[j] = batch[j])
  BY <1>2
<1>6. \A j \in DOMAIN Append(kept, Garbage) :
        \/ Append(kept, Garbage)[j] = Garbage
        \/ j \in DOMAIN batch /\ Append(kept, Garbage)[j] = batch[j]
  BY <1>1, <1>2, <1>3
<1>7. CASE cut = "whole"
  <2>1. file' = written(kept) /\ unended' = (unended /\ n = 0)
    BY <1>7 DEF Leaves, kept
  <2>2. n = 0 => file' = file
    BY <1>3, <2>1 DEF written
  <2> QED
    BY <1>3, <1>4, <1>5, <2>1, <2>2
<1>8. CASE cut = "no newline"
  <2>1. file' = written(kept) /\ unended' = TRUE /\ n > 0
    BY <1>8 DEF Leaves, kept
  <2> QED
    BY <1>1, <1>3, <1>4, <1>5, <2>1
<1>9. CASE cut = "piece"
  <2>1. file' = written(Append(kept, Garbage)) /\ unended' = TRUE
    BY <1>9 DEF Leaves, kept
  <2> QED
    BY <1>3, <1>4, <1>6, <2>1
<1> QED
  BY <1>7, <1>8, <1>9 DEF Leaves

-----------------------------------------------------------------------------
(* What the handlers queue. *)

\* What a client sends.
LEMMA CallShape ==
  ASSUME client \in Clients, NEW r \in Slots
  PROVE  /\ Call(r).op \in {"mint", "authorize", "approve", "deny", "report"}
         /\ Call(r).op = "mint" => Call(r).g \in Grants /\ Call(r).policy \in Policies
         /\ Call(r).op = "authorize" =>
              Call(r).g \in Grants /\ Call(r).key \in Keys /\ Call(r).amount \in Nat
         /\ Call(r).op = "report" => Call(r).outcome \in Outcomes \ {"none"} /\ Call(r).by \in Reporters
<1>1. Call(r) \in Calls
  BY ServerAssumption DEF Slots, Call
<1>2. Amounts \subseteq Nat
  BY ServerAssumption, MoneyAssumption
<1> QED
  BY <1>1, <1>2 DEF Calls

LEMMA MintsDiffer ==
  ASSUME client \in Clients, NEW r \in Slots, NEW q \in Slots,
         Call(r).op = "mint", Call(q).op = "mint", Call(r).g = Call(q).g
  PROVE  r = q
BY ServerAssumption DEF Slots, Call

LEMMA Pair ==
  ASSUME NEW x, NEW y
  PROVE  <<x>> \o <<y>> = <<x, y>>
<1> PICK S : S = {x, y}
  OBVIOUS
<1>1. <<x>> \in Seq(S) /\ <<y>> \in Seq(S) /\ <<x, y>> \in Seq(S)
  OBVIOUS
<1>2. /\ <<x>> \o <<y>> \in Seq(S) /\ Len(<<x>> \o <<y>>) = 2
      /\ (<<x>> \o <<y>>)[1] = x /\ (<<x>> \o <<y>>)[2] = y
  BY <1>1, ConcatProperties
<1>3. \A i \in 1..2 : (<<x>> \o <<y>>)[i] = <<x, y>>[i]
  BY <1>2
<1> QED
  BY <1>1, <1>2, <1>3, SeqEqual

LEMMA Triple ==
  ASSUME NEW x, NEW y, NEW z
  PROVE  <<x, y>> \o <<z>> = <<x, y, z>>
<1> PICK S : S = {x, y, z}
  OBVIOUS
<1>1. <<x, y>> \in Seq(S) /\ <<z>> \in Seq(S) /\ <<x, y, z>> \in Seq(S)
  OBVIOUS
<1>2. /\ <<x, y>> \o <<z>> \in Seq(S) /\ Len(<<x, y>> \o <<z>>) = 3
      /\ (<<x, y>> \o <<z>>)[1] = x /\ (<<x, y>> \o <<z>>)[2] = y /\ (<<x, y>> \o <<z>>)[3] = z
  BY <1>1, ConcatProperties
<1>3. \A i \in 1..3 : (<<x, y>> \o <<z>>)[i] = <<x, y, z>>[i]
  BY <1>2
<1> QED
  BY <1>1, <1>2, <1>3, SeqEqual

\* A decision has its receipt, and an ALLOW its hold.
Whole(es) ==
  \A i \in DOMAIN es : es[i].kind = "decision" =>
    /\ Logged(es, "receipt", es[i].a)
    /\ es[i].decision = "ALLOW" => Logged(es, "reservation", es[i].a)

\* The records of a decision, in their order.
DecisionShape(ds, a, g, key, decision) ==
  /\ Len(ds) = IF decision = "DENY" THEN 2 ELSE 3
  /\ ds[1].kind = "decision" /\ ds[1].a = a /\ ds[1].g = g /\ ds[1].key = key
  /\ ds[1].decision = decision
  /\ decision = "ALLOW" => ds[2].kind = "reservation" /\ ds[2].a = a
  /\ decision = "ESCALATE" => ds[2].kind = "approval_request" /\ ds[2].a = a
  /\ ds[Len(ds)].kind = "receipt" /\ ds[Len(ds)].a = a

LEMMA DecisionRecords ==
  ASSUME NEW a \in AuthIds, NEW g \in Grants, NEW now \in Nat, NEW amount \in Nat,
         NEW decision \in {"ALLOW", "DENY", "ESCALATE"}, NEW reason \in Why,
         NEW key \in Keys \cup {None}, NEW parent \in AuthIds \cup {None}, NEW exp \in Nat,
         NEW hasToken \in BOOLEAN
  PROVE  /\ decisionRecords(a, g, now, amount, decision, reason, key, parent, exp, hasToken)
              \in Seq(Event)
         /\ DecisionShape(
              decisionRecords(a, g, now, amount, decision, reason, key, parent, exp, hasToken),
              a, g, key, decision)
<1> DEFINE base == [NoEvent EXCEPT !.a = a, !.g = g, !.ts = now, !.amount = amount]
           d == [base EXCEPT !.kind = "decision", !.decision = decision, !.reason = reason,
                             !.key = key, !.parent = parent]
           h == [base EXCEPT !.kind = "reservation", !.exp = exp, !.token = hasToken]
           q == [base EXCEPT !.kind = "approval_request"]
           c == [base EXCEPT !.kind = "receipt", !.amount = 0]
           ds == decisionRecords(a, g, now, amount, decision, reason, key, parent, exp, hasToken)
<1> SUFFICES ds \in Seq(Event) /\ DecisionShape(ds, a, g, key, decision)
  OBVIOUS
<1>1. d \in Event /\ d.kind = "decision" /\ d.a = a /\ d.g = g /\ d.key = key /\ d.decision = decision
  BY DEF Event, NoEvent, Kinds, Decisions, Outcomes
<1>2. h \in Event /\ h.kind = "reservation" /\ h.a = a
  BY DEF Event, NoEvent, Kinds, Decisions, Outcomes, Why
<1>3. q \in Event /\ q.kind = "approval_request" /\ q.a = a
  BY DEF Event, NoEvent, Kinds, Decisions, Outcomes, Why
<1>4. c \in Event /\ c.kind = "receipt" /\ c.a = a
  BY DEF Event, NoEvent, Kinds, Decisions, Outcomes, Why
<1>5. ds = <<d>> \o (IF decision = "ALLOW" THEN <<h>> ELSE <<>>)
             \o (IF decision = "ESCALATE" THEN <<q>> ELSE <<>>) \o <<c>>
  BY DEF decisionRecords
<1> HIDE DEF d, h, q, c, ds
<1>6. CASE decision = "ALLOW"
  <2>1. ds = <<d>> \o <<h>> \o <<>> \o <<c>>
    BY <1>5, <1>6
  <2>2. <<d>> \o <<h>> \o <<>> = <<d, h>>
    BY <1>1, <1>2, Pair
  <2>3. ds = <<d, h, c>>
    <3>1. <<d, h>> \o <<c>> = <<d, h, c>>
      BY Triple, Zenon
    <3> QED
      BY <2>1, <2>2, <3>1, Zenon
  <2>4. ds \in Seq(Event) /\ Len(ds) = 3 /\ ds[1] = d /\ ds[2] = h /\ ds[3] = c
    BY <1>1, <1>2, <1>4, <2>3
  <2> QED
    BY <1>1, <1>2, <1>4, <1>6, <2>4 DEF DecisionShape
<1>7. CASE decision = "ESCALATE"
  <2>1. ds = <<d>> \o <<>> \o <<q>> \o <<c>>
    BY <1>5, <1>7
  <2>2. <<d>> \o <<>> \o <<q>> = <<d, q>>
    BY <1>1, <1>3, Pair
  <2>3. ds = <<d, q, c>>
    <3>1. <<d, q>> \o <<c>> = <<d, q, c>>
      BY Triple, Zenon
    <3> QED
      BY <2>1, <2>2, <3>1, Zenon
  <2>4. ds \in Seq(Event) /\ Len(ds) = 3 /\ ds[1] = d /\ ds[2] = q /\ ds[3] = c
    BY <1>1, <1>3, <1>4, <2>3
  <2> QED
    BY <1>1, <1>3, <1>4, <1>7, <2>4 DEF DecisionShape
<1>8. CASE decision = "DENY"
  <2>1. ds = <<d>> \o <<>> \o <<>> \o <<c>>
    BY <1>5, <1>8
  <2>2. ds = <<d, c>>
    BY <1>1, <1>4, <2>1, Pair
  <2>3. ds \in Seq(Event) /\ Len(ds) = 2 /\ ds[1] = d /\ ds[2] = c
    BY <1>1, <1>4, <2>2
  <2> QED
    BY <1>1, <1>4, <1>8, <2>3 DEF DecisionShape
<1> QED
  BY <1>6, <1>7, <1>8

LEMMA WholeConcat ==
  ASSUME NEW es \in Seq(Event), NEW fs \in Seq(Event), Whole(es), Whole(fs)
  PROVE  Whole(es \o fs)
<1>1. /\ \A i \in DOMAIN es : (es \o fs)[i] = es[i]
      /\ \A j \in DOMAIN fs : (es \o fs)[Len(es) + j] = fs[j]
      /\ \A i \in DOMAIN (es \o fs) : i \in DOMAIN es \/ \E j \in DOMAIN fs : i = Len(es) + j
  BY ConcatPlaces
<1>2. \A kind, a : Logged(es, kind, a) \/ Logged(fs, kind, a) => Logged(es \o fs, kind, a)
  BY LoggedConcat
<1> QED
  BY <1>1, <1>2 DEF Whole

\* What they say, and of whom.
LEMMA DecisionFacts ==
  ASSUME NEW ds \in Seq(Event), NEW a, NEW g, NEW key, NEW decision \in {"ALLOW", "DENY", "ESCALATE"},
         DecisionShape(ds, a, g, key, decision)
  PROVE  /\ 1 \in DOMAIN ds
         /\ \A i \in DOMAIN ds : ds[i].kind = "decision" => i = 1
         /\ \A i \in DOMAIN ds : ds[i].kind \notin {"grant_meta", "approval_decision"}
         /\ \A b : Logged(ds, "approval_request", b) <=> decision = "ESCALATE" /\ b = a
         /\ Whole(ds)
<1>1. CASE decision = "DENY"
  <2>1. Len(ds) = 2 /\ DOMAIN ds = 1..2
    BY <1>1 DEF DecisionShape
  <2> QED
    BY <1>1, <2>1 DEF DecisionShape, Logged, Whole
<1>2. CASE decision = "ALLOW"
  <2>1. Len(ds) = 3 /\ DOMAIN ds = 1..3
    BY <1>2 DEF DecisionShape
  <2> QED
    BY <1>2, <2>1 DEF DecisionShape, Logged, Whole
<1>3. CASE decision = "ESCALATE"
  <2>1. Len(ds) = 3 /\ DOMAIN ds = 1..3
    BY <1>3 DEF DecisionShape
  <2> QED
    BY <1>3, <2>1 DEF DecisionShape, Logged, Whole
<1> QED
  BY <1>1, <1>2, <1>3

\* A finite set in some order.
LEMMA InSomeOrder ==
  ASSUME NEW S, IsFiniteSet(S)
  PROVE  /\ SetToSeq(S) \in Seq(S) /\ DOMAIN SetToSeq(S) = 1..Cardinality(S)
         /\ Cardinality(S) \in Nat
         /\ \A i, j \in DOMAIN SetToSeq(S) : SetToSeq(S)[i] = SetToSeq(S)[j] => i = j
<1>1. Cardinality(S) \in Nat /\ ExistsBijection(1..Cardinality(S), S)
  BY FS_CardinalityType
<1>2. PICK f \in Bijection(1..Cardinality(S), S) : TRUE
  BY <1>1 DEF ExistsBijection
<1>3. f \in [1..Cardinality(S) -> S] /\ IsInjective(f)
  BY <1>2 DEF Bijection, Injection, IsInjective
<1>4. SetToSeq(S) \in [1..Cardinality(S) -> S] /\ IsInjective(SetToSeq(S))
  BY <1>3 DEF SetToSeq
<1> QED
  BY <1>1, <1>4, IsASeq DEF IsInjective

Only(records, kinds) == \A i \in DOMAIN records : records[i].kind \in kinds

LEMMA Reversals ==
  ASSUME NEW es \in Seq(Event), NEW g \in Grants, NEW now \in Nat
  PROVE  reversals(es, g, now) \in Seq(Event) /\ Only(reversals(es, g, now), {"reversal"})
<1> DEFINE back(a) == [NoEvent EXCEPT !.kind = "reversal", !.a = a, !.g = g, !.ts = now,
                                      !.amount = sweepRow(es, g, a).amount]
           S == {back(a) : a \in expiredReservations(es, g, now)}
<1>1. IsFiniteSet(S)
  <2>1. expiredReservations(es, g, now) \in SUBSET AuthIds
    BY DEF expiredReservations
  <2>2. IsFiniteSet(expiredReservations(es, g, now))
    BY <2>1, FS_Subset, ServerAssumption
  <2> DEFINE B == expiredReservations(es, g, now)
  <2> HIDE DEF back, B
  <2>3. IsFiniteSet(B)
    BY <2>2 DEF B
  <2>4. [a \in B |-> back(a)] \in Surjection(B, {back(a) : a \in B})
    BY Fun_IsSurj
  <2>5. IsFiniteSet({back(a) : a \in B})
    BY <2>3, <2>4, FS_Surjection
  <2> QED
    BY <2>5 DEF B
<1>2. \A a \in AuthIds : back(a) \in Event /\ back(a).kind = "reversal"
  <2> TAKE a \in AuthIds
  <2>1. sweepRow(es, g, a).amount \in Nat
    BY RowType DEF Row
  <2> QED
    BY <2>1 DEF Event, NoEvent, Kinds, Decisions, Outcomes, Why
<1>3. \A e \in S : e \in Event /\ e.kind = "reversal"
  BY <1>2 DEF expiredReservations
<1>4. reversals(es, g, now) = SetToSeq(S)
  BY DEF reversals
<1> HIDE DEF S
<1>5. SetToSeq(S) \in Seq(S) /\ \A i \in DOMAIN SetToSeq(S) : SetToSeq(S)[i] \in S
  BY <1>1, InSomeOrder
<1>6. SetToSeq(S) \in Seq(Event)
  BY <1>3, <1>5
<1> QED
  BY <1>3, <1>4, <1>5, <1>6 DEF Only

ReportKinds == {"reservation", "reversal", "submission", "settlement", "receipt"}

LEMMA ReportRecords ==
  ASSUME NEW s \in Lifecycle, NEW a \in AuthIds, NEW g \in Grants,
         NEW outcome \in Outcomes \ {"none"}, NEW by \in Reporters, NEW now \in Nat
  PROVE  /\ reportEvents(s, a, g, outcome, by, now) \in Seq(Event)
         /\ Only(reportEvents(s, a, g, outcome, by, now), ReportKinds)
<1> DEFINE base == [NoEvent EXCEPT !.a = a, !.g = g, !.ts = now]
           ended == [base EXCEPT !.kind = "settlement", !.outcome = outcome, !.by = by]
           sub == [base EXCEPT !.kind = "submission", !.by = by, !.exp = now + GRACE]
           back == [base EXCEPT !.kind = "reversal", !.amount = s.amount]
           again == [base EXCEPT !.kind = "reservation", !.amount = s.amount, !.late = TRUE]
           done == [ended EXCEPT !.late = ~s.reserved]
           Fine(e) == e \in Event /\ e.kind \in ReportKinds
<1>1. s.amount \in Nat /\ s.reserved \in BOOLEAN /\ now + GRACE \in Nat
  BY ServerAssumption DEF Lifecycle
<1>2. Fine(ended) /\ Fine(sub) /\ Fine(back) /\ Fine(again) /\ Fine(done)
  <2>1. Fine(ended)
    BY <1>1 DEF Event, NoEvent, Kinds, Decisions, ReportKinds, Outcomes, Why
  <2>2. Fine(sub)
    BY <1>1 DEF Event, NoEvent, Kinds, Decisions, ReportKinds, Outcomes, Why
  <2>3. Fine(back)
    BY <1>1 DEF Event, NoEvent, Kinds, Decisions, ReportKinds, Outcomes, Why
  <2>4. Fine(again)
    BY <1>1 DEF Event, NoEvent, Kinds, Decisions, ReportKinds, Outcomes, Why
  <2>5. Fine(done)
    BY <1>1, ZenonT(40) DEF Event, NoEvent, Kinds, Decisions, ReportKinds, Outcomes, Why
  <2> QED
    BY <2>1, <2>2, <2>3, <2>4, <2>5
<1>3. /\ outcome = "submitted" => reportEvents(s, a, g, outcome, by, now) = <<sub>>
      /\ outcome = "failed" => reportEvents(s, a, g, outcome, by, now) =
                                 (IF s.reserved THEN <<back>> ELSE <<>>) \o <<ended>>
      /\ outcome = "settled" => reportEvents(s, a, g, outcome, by, now) =
                                 (IF ~s.reserved THEN <<again>> ELSE <<>>) \o <<done>>
  BY DEF reportEvents
<1> HIDE DEF ended, sub, back, again, done
<1>4. outcome \in {"submitted", "failed", "settled"}
  BY DEF Outcomes
<1>5. <<back>> \o <<ended>> = <<back, ended>> /\ <<again>> \o <<done>> = <<again, done>>
      /\ <<>> \o <<ended>> = <<ended>> /\ <<>> \o <<done>> = <<done>>
  BY <1>2, Pair
<1>6. reportEvents(s, a, g, outcome, by, now) \in
        {<<sub>>, <<back, ended>>, <<ended>>, <<again, done>>, <<done>>}
  BY <1>3, <1>4, <1>5
<1>7. \A x, y : Fine(x) /\ Fine(y) => /\ <<x>> \in Seq(Event) /\ Only(<<x>>, ReportKinds)
                                      /\ <<x, y>> \in Seq(Event) /\ Only(<<x, y>>, ReportKinds)
  BY DEF Only
<1> QED
  BY <1>2, <1>6, <1>7

-----------------------------------------------------------------------------
(***************************************************************************)
(* The invariant.  Each part is about one pair of things that must not come *)
(* apart: the lock and the places of the requests, the queue and what the   *)
(* requests wait for, the maps and the log.                                 *)
(***************************************************************************)

Asks(r) == Call(r).op = "authorize"
Resolves(r) == Call(r).op \in {"approve", "deny"}

\* Between withLock() and its release, and inside the critical section.
InLock(r) ==
  /\ Call(r).op # "mint"
  /\ pc[r] \in {"waiting", "sweeping", "deciding", "writing", "written", "rejected"}
Busy(r) == InLock(r) /\ pc[r] # "waiting"

TypeInv == TypeOK /\ (unended => file # <<>>)

LockInv ==
  /\ \A g \in Grants : \A i, j \in DOMAIN lockQ[g] : lockQ[g][i] = lockQ[g][j] => i = j
  /\ \A g \in Grants : \A i \in DOMAIN lockQ[g] :
       InLock(lockQ[g][i]) /\ task[lockQ[g][i]].g = g
  /\ \A r \in Slots : Busy(r) => Holds(r)
  /\ \A r \in Slots : InLock(r) => task[r].g \in Grants
  /\ \A r \in Slots : InLock(r) /\ Asks(r) => task[r].g = Call(r).g
  /\ \A r \in Slots : InLock(r) /\ ~Asks(r) => task[r].a \in AuthIds
  /\ \A r \in Slots : pc[r] \in {"sweeping", "deciding"} => Asks(r)
  /\ \A r \in Slots : Call(r).op = "mint" => pc[r] # "waiting" /\ task[r].g = None

\* Without the process there is nothing in memory and nobody on the line.
DownInv ==
  ~up => /\ queue = <<>> /\ events = <<>> /\ pending = {}
         /\ \A r \in Slots : ~InFlight(r)
         /\ \A g \in Grants : lockQ[g] = <<>> /\ \A k \in Keys : idem[g][k] = None

\* An escalation, or a resolution, of a by a request at l.
Escalating(l, a) ==
  \E r \in Slots : pc[r] = l /\ Asks(r) /\ task[r].decision = "ESCALATE" /\ task[r].a = a
Resolving(l, a) == \E r \in Slots : pc[r] = l /\ Resolves(r) /\ task[r].a = a

\* The next drain holds what the requests that wait for it have decided.
BatchInv ==
  /\ InBatch = {r \in Slots : pc[r] \in {"sweeping", "writing"}}
  /\ \A a \in AuthIds : Logged(batch, "approval_request", a) <=> Escalating("writing", a)
  /\ \A a \in AuthIds : Logged(batch, "approval_decision", a) <=> Resolving("writing", a)
  /\ \A i \in DOMAIN batch : batch[i].kind = "decision" =>
       \E r \in Slots : /\ pc[r] = "writing" /\ InLock(r) /\ batch[i].g = task[r].g
                        /\ batch[i].key = IF Asks(r) THEN Call(r).key ELSE None
                        /\ Asks(r) => batch[i].a = task[r].a /\ batch[i].decision = task[r].decision
  /\ \A r \in Slots : pc[r] = "writing" /\ Asks(r) =>
       \E i \in decidedAt(batch, task[r].g, Call(r).key) : batch[i].a = task[r].a
  /\ DecidedOnce(batch)
  /\ \A i \in DOMAIN batch : batch[i].kind = "grant_meta" =>
       \E r \in Slots : pc[r] = "writing" /\ Call(r).op = "mint" /\ Call(r).g = batch[i].g

\* Nothing is decided of a grant that is not minted, or only being minted.
Untouched(e, g) == e.kind \in {"decision", "grant_meta"} => e.g # g

MintInv ==
  /\ \A r \in Slots : Call(r).op = "mint" /\ pc[r] \in {"idle", "writing"} =>
       /\ \A i \in DOMAIN events : Untouched(events[i], Call(r).g)
       /\ \A i \in DOMAIN file : file[i] # Garbage => Untouched(file[i], Call(r).g)
  /\ \A r \in Slots : InLock(r) => Known(events, task[r].g)

\* Two decisions on their way have two ids, and the log has seen neither before.
FreshInv ==
  \A r \in Slots : Asks(r) =>
    /\ pc[r] = "writing" =>
         ~Logged(events, "approval_request", task[r].a) /\ ~Logged(events, "approval_decision", task[r].a)
    /\ pc[r] = "written" => Logged(events, "decision", task[r].a)
    /\ pc[r] \in {"writing", "written"} =>
         /\ task[r].a \in AuthIds
         /\ \A q \in Slots \ {r} : Asks(q) /\ pc[q] \in {"writing", "written"} => task[q].a # task[r].a

\* The pending map is the log's, but for what the written requests have yet to
\* do to it; who resolves an escalation holds the lock of its grant.
PendingInv ==
  /\ \A a \in AuthIds : a \in pending <=>
       (a \in pendingOf(events) /\ ~Escalating("written", a)) \/ Resolving("written", a)
  /\ \A a \in AuthIds : Resolving("written", a) => a \notin pendingOf(events)
  /\ \A a \in AuthIds : Escalating("written", a) => a \in pendingOf(events)
  /\ \A r \in Slots : InLock(r) /\ Resolves(r) =>
       Logged(events, "approval_request", task[r].a) /\ task[r].g = requestOf(events, task[r].a).g
  /\ \A r \in Slots : pc[r] = "writing" /\ Resolves(r) => task[r].a \in pending

\* So are the answers.
Finishing(g, k) == \E r \in Slots : pc[r] = "written" /\ Asks(r) /\ task[r].g = g /\ Call(r).key = k

IdemInv ==
  up =>
  /\ \A g \in Grants, k \in Keys :
       idem[g][k] = IF Finishing(g, k) THEN None ELSE answerOf(events, g, k)
  /\ \A r \in Slots : pc[r] = "written" /\ Asks(r) =>
       answerOf(events, task[r].g, Call(r).key) = [a |-> task[r].a, decision |-> task[r].decision]
  /\ \A r \in Slots : pc[r] \in {"sweeping", "deciding", "writing"} /\ Asks(r) =>
       idem[task[r].g][Call(r).key] = None

Inv == TypeInv /\ LockInv /\ DownInv /\ BatchInv /\ MintInv /\ FreshInv /\ PendingInv /\ IdemInv

-----------------------------------------------------------------------------
(***************************************************************************)
(* The steps of the server by what they do to the lock, the queue and the  *)
(* maps; the handlers differ in little else.                               *)
(***************************************************************************)

\* A repeat is told what is kept under its key; nobody else is told anything.
Repeats(r) ==
  \/ UNCHANGED told
  \/ /\ Asks(r) /\ idem[Call(r).g][Call(r).key] # None
     /\ Tell(Call(r).g, Call(r).key, idem[Call(r).g][Call(r).key])

\* Refused or answered before the lock.
Turned(r) ==
  /\ MayArrive(r) /\ Call(r).op # "mint"
  /\ Goto(r, "refused") \/ Goto(r, "answered")
  /\ Repeats(r)
  /\ UNCHANGED <<storeVars, clock, task, lockQ, idem, pending, lastNow, faults>>

Locks(r, g, a) ==
  /\ MayArrive(r) /\ Call(r).op # "mint"
  /\ g \in Grants /\ a \in AuthIds \cup {None} /\ Known(events, g)
  /\ IF Asks(r) THEN g = Call(r).g ELSE a \in AuthIds
  /\ Resolves(r) => a \in pending /\ g = requestOf(events, a).g
  /\ Lock(r, g, a)
  /\ UNCHANGED <<storeVars, clock, idem, pending, told, lastNow, faults>>

\* Out of the lock with nothing to record.
Ends(r) ==
  /\ InLock(r) /\ Holds(r) /\ pc[r] \in {"waiting", "deciding", "rejected"}
  /\ Release(r, "refused") \/ Release(r, "answered") \/ Release(r, "failed")
  /\ Repeats(r)
  /\ UNCHANGED <<storeVars, clock, task, idem, pending, lastNow, faults>>

\* What is in the records that a request waits for at l, its task then being t.
RecordsOf(r, l, t, records) ==
  /\ \A i \in DOMAIN records : records[i].kind = "decision" =>
       /\ l = "writing" /\ Call(r).op # "mint" /\ records[i].g = task[r].g
       /\ records[i].key = IF Asks(r) THEN Call(r).key ELSE None
       /\ Asks(r) => records[i].a = t.a /\ records[i].decision = t.decision
  /\ \A i, j \in DOMAIN records : records[i].kind = "decision" /\ records[j].kind = "decision" => i = j
  /\ Asks(r) /\ l = "writing" => \E i \in DOMAIN records : records[i].kind = "decision"
  /\ \A a \in AuthIds : Logged(records, "approval_request", a) <=>
       l = "writing" /\ Asks(r) /\ t.decision = "ESCALATE" /\ t.a = a
  /\ \A a \in AuthIds : Logged(records, "approval_decision", a) <=>
       l = "writing" /\ Resolves(r) /\ t.a = a
  /\ \A i \in DOMAIN records : records[i].kind = "grant_meta" =>
       l = "writing" /\ Call(r).op = "mint" /\ records[i].g = Call(r).g

Records(r, l, t, records) ==
  /\ up /\ Goto(r, l) /\ l \in {"sweeping", "writing"}
  /\ IF Call(r).op = "mint" THEN pc[r] = "idle" ELSE InLock(r) /\ Holds(r) /\ pc[r] \in {"waiting", "deciding"}
  /\ l = "sweeping" => Asks(r)
  /\ Asks(r) => /\ l = "sweeping" => pc[r] = "waiting" /\ idem[task[r].g][Call(r).key] = None
                /\ l = "writing" => pc[r] = "deciding" /\ t.a \in Fresh
  /\ Resolves(r) => task[r].a \in pending
  /\ task' = [task EXCEPT ![r] = t]
  /\ t.g = task[r].g /\ (~Asks(r) => t.a = task[r].a)
  /\ t \in [g : Grants \cup {None}, a : AuthIds \cup {None}, now : Nat, decision : Decisions]
  /\ Enqueue(r, records) /\ records \in Seq(Event)
  /\ RecordsOf(r, l, t, records) /\ Whole(records)
  /\ (UNCHANGED lastNow) \/ \E g \in Grants : lastNow' = [lastNow EXCEPT ![g] = clock]
  /\ UNCHANGED <<file, unended, events, up, clock, lockQ, idem, pending, told, faults>>

\* Into the critical section with nothing to sweep.
Enters(r) ==
  /\ InLock(r) /\ Asks(r) /\ Holds(r) /\ pc[r] = "waiting" /\ Goto(r, "deciding")
  /\ idem[task[r].g][Call(r).key] = None
  /\ task' = [task EXCEPT ![r].now = clock]
  /\ \E g \in Grants : lastNow' = [lastNow EXCEPT ![g] = clock]
  /\ UNCHANGED <<storeVars, clock, lockQ, idem, pending, told, faults>>

\* POST /grants has no lock to leave.
MintEnds(r) ==
  /\ Call(r).op = "mint"
  /\ (pc[r] = "rejected" /\ Goto(r, "failed")) \/ (pc[r] = "written" /\ Goto(r, "answered"))
  /\ UNCHANGED <<storeVars, clock, task, lockQ, idem, pending, told, lastNow, faults>>

FinishAuthorize(r) ==
  LET answer == [a |-> task[r].a, decision |-> task[r].decision]
  IN  /\ Asks(r) /\ pc[r] = "written" /\ InLock(r)
      /\ pending' = IF task[r].decision = "ESCALATE" THEN pending \cup {task[r].a} ELSE pending
      /\ idem' = [idem EXCEPT ![task[r].g][Call(r).key] = answer]
      /\ Tell(task[r].g, Call(r).key, answer)
      /\ Release(r, "answered")
      /\ UNCHANGED <<storeVars, clock, task, lastNow, faults>>

FinishOther(r) ==
  /\ ~Asks(r) /\ pc[r] = "written" /\ InLock(r)
  /\ pending' = IF Resolves(r) THEN pending \ {task[r].a} ELSE pending
  /\ Release(r, "answered")
  /\ UNCHANGED <<storeVars, clock, task, idem, told, lastNow, faults>>

\* The machine stops, whatever the reason.
Stops(n, cut) ==
  /\ Halt(n, cut) /\ Forget
  /\ "power" \in Faults \/ ("kill" \in Faults /\ cut = "whole" /\ n \in {0, Len(batch)})

Shape ==
  \/ \E r \in Slots :
       \/ Turned(r) \/ Ends(r) \/ Enters(r) \/ MintEnds(r) \/ FinishAuthorize(r) \/ FinishOther(r)
       \/ \E g \in Grants, a \in AuthIds \cup {None} : Locks(r, g, a)
       \/ \E l, t, records : Records(r, l, t, records)
  \/ Drain
  \/ \E n, cut : DrainFails(n, cut) \/ Stops(n, cut)
  \/ Boot
  \/ Tick
  \/ UNCHANGED vars

PlainKinds == {"open", "reversal", "reservation", "submission", "settlement", "receipt"}

\* Records that decide nothing.
LEMMA PlainRecords ==
  ASSUME NEW r, NEW l, NEW t, NEW records, Only(records, PlainKinds),
         ~(l = "writing" /\ (Asks(r) \/ Resolves(r)))
  PROVE  RecordsOf(r, l, t, records) /\ Whole(records)
<1>1. \A i \in DOMAIN records :
        records[i].kind \notin {"decision", "approval_request", "approval_decision", "grant_meta"}
  BY DEF Only, PlainKinds
<1> QED
  BY <1>1 DEF RecordsOf, Whole, Logged

LEMMA ShapeMint ==
  ASSUME Inv, NEW r \in Slots, CreateGrant(r)
  PROVE  \E l, t, records : Records(r, l, t, records)
<1> DEFINE c == Call(r)
           meta == [NoEvent EXCEPT !.kind = "grant_meta", !.g = c.g, !.ts = clock, !.policy = c.policy]
           open == [NoEvent EXCEPT !.kind = "open", !.g = c.g, !.ts = clock, !.amount = c.policy.budget]
           records == <<meta, open>>
<1>1. client \in Clients /\ clock \in Nat /\ c.op = "mint" /\ task[r] \in
        [g : Grants \cup {None}, a : AuthIds \cup {None}, now : Nat, decision : Decisions]
  BY ServerAssumption DEF Inv, TypeInv, TypeOK, CreateGrant, MaxTime
<1>2. c.g \in Grants /\ c.policy \in Policies /\ c.policy.budget \in Nat
  BY <1>1, CallShape, ServerAssumption
<1> HIDE DEF c
<1>3. meta \in Event /\ meta.kind = "grant_meta" /\ meta.g = c.g
  BY <1>1, <1>2 DEF Event, NoEvent, Kinds, Decisions, Outcomes, Why
<1>4. open \in Event /\ open.kind = "open"
  BY <1>1, <1>2 DEF Event, NoEvent, Kinds, Decisions, Outcomes, Why
<1>5. Enqueue(r, records)
  BY DEF CreateGrant, c
<1> HIDE DEF meta, open
<1>6. records \in Seq(Event) /\ DOMAIN records = {1, 2} /\ records[1] = meta /\ records[2] = open
  BY <1>3, <1>4
<1> HIDE DEF records
<1>7. ~Asks(r) /\ ~Resolves(r)
  BY <1>1 DEF Asks, Resolves, c
<1>8. \A i \in DOMAIN records :
        (records[i].kind = "grant_meta" /\ records[i].g = c.g) \/ records[i].kind = "open"
  BY <1>3, <1>4, <1>6
<1>9. RecordsOf(r, "writing", task[r], records) /\ Whole(records)
  BY <1>1, <1>7, <1>8 DEF RecordsOf, Whole, Logged, c
<1>10. task' = [task EXCEPT ![r] = task[r]]
  BY DEF CreateGrant, Inv, TypeInv, TypeOK
<1>11. Records(r, "writing", task[r], records)
  BY <1>1, <1>5, <1>6, <1>7, <1>9, <1>10 DEF Records, CreateGrant, Quiet, c
<1> QED
  BY <1>11

LEMMA ShapeAuthorizeArrives ==
  ASSUME Inv, NEW r \in Slots, AuthorizeArrives(r)
  PROVE  Turned(r) \/ \E g \in Grants, a \in AuthIds \cup {None} : Locks(r, g, a)
<1> DEFINE g == Call(r).g
           k == Call(r).key
<1>1. client \in Clients /\ Call(r).op = "authorize" /\ events \in Seq(Event)
  BY DEF Inv, TypeInv, TypeOK, AuthorizeArrives
<1>2. g \in Grants /\ k \in Keys
  BY <1>1, CallShape
<1>3. CASE Goto(r, "refused") /\ UNCHANGED <<task, lockQ, told>>
  BY <1>1, <1>3 DEF AuthorizeArrives, Turned, Repeats
<1>4. CASE idem[g][k] # None /\ Goto(r, "answered") /\ Tell(g, k, idem[g][k]) /\ UNCHANGED <<task, lockQ>>
  BY <1>1, <1>4 DEF AuthorizeArrives, Turned, Repeats, Asks
<1>5. CASE grantOf(events, g) # None /\ Lock(r, g, None) /\ UNCHANGED told
  <2>1. Known(events, g)
    BY <1>1, <1>5, GrantKnown
  <2>2. Locks(r, g, None)
    BY <1>1, <1>2, <1>5, <2>1 DEF AuthorizeArrives, Locks, Asks, Resolves
  <2> QED
    BY <1>2, <2>2
<1> QED
  BY <1>3, <1>4, <1>5 DEF AuthorizeArrives

LEMMA ShapeOtherArrives ==
  ASSUME Inv, NEW r \in Slots, NEW a \in AuthIds, ResolveArrives(r, a) \/ ReportArrives(r, a)
  PROVE  Turned(r) \/ \E g \in Grants : Locks(r, g, a)
<1>1. client \in Clients /\ events \in Seq(Event)
  BY DEF Inv, TypeInv, TypeOK
<1>2. CASE Goto(r, "refused") /\ UNCHANGED <<task, lockQ>>
  BY <1>2 DEF ResolveArrives, ReportArrives, Turned, Repeats
<1>3. CASE /\ ResolveArrives(r, a) /\ a \in pending /\ grantOf(events, requestOf(events, a).g) # None
           /\ Lock(r, requestOf(events, a).g, a)
  <2>1. requestOf(events, a).g \in Grants /\ Known(events, requestOf(events, a).g)
    BY <1>1, <1>3, GrantKnown
  <2>2. Locks(r, requestOf(events, a).g, a)
    BY <1>3, <2>1 DEF ResolveArrives, Locks, Asks, Resolves
  <2> QED
    BY <2>1, <2>2
<1>4. CASE /\ ReportArrives(r, a) /\ grantOf(events, decisionOf(events, a).g) # None
           /\ Lock(r, decisionOf(events, a).g, a)
  <2>1. decisionOf(events, a).g \in Grants /\ Known(events, decisionOf(events, a).g)
    BY <1>1, <1>4, GrantKnown
  <2>2. Locks(r, decisionOf(events, a).g, a)
    BY <1>4, <2>1 DEF ReportArrives, Locks, Asks, Resolves
  <2> QED
    BY <2>1, <2>2
<1> QED
  BY <1>2, <1>3, <1>4 DEF ResolveArrives, ReportArrives

LEMMA ShapeAuthorizeEnters ==
  ASSUME Inv, NEW r \in Slots, AuthorizeEnters(r)
  PROVE  Ends(r) \/ Enters(r) \/ \E l, t, records : Records(r, l, t, records)
<1> DEFINE g == task[r].g
           k == Call(r).key
           back == reversals(events, g, clock)
           t == [task[r] EXCEPT !.now = clock]
<1>1. /\ client \in Clients /\ events \in Seq(Event) /\ clock \in Nat
      /\ task[r] \in [g : Grants \cup {None}, a : AuthIds \cup {None}, now : Nat, decision : Decisions]
  BY ServerAssumption DEF Inv, TypeInv, TypeOK, MaxTime
<1>2. Asks(r) /\ InLock(r) /\ Holds(r) /\ pc[r] = "waiting" /\ ~Resolves(r)
  BY DEF AuthorizeEnters, Asks, InLock, Resolves
<1>3. g = Call(r).g /\ g \in Grants
  BY <1>2 DEF Inv, LockInv
<1>4. CASE /\ idem[g][k] # None /\ Release(r, "answered") /\ Tell(g, k, idem[g][k])
           /\ UNCHANGED <<task, lastNow, queue>>
  BY <1>2, <1>3, <1>4 DEF AuthorizeEnters, Ends, Repeats, storeVars
<1>5. CASE /\ idem[g][k] = None /\ task' = [task EXCEPT ![r].now = clock]
           /\ lastNow' = [lastNow EXCEPT ![g] = clock] /\ UNCHANGED <<lockQ, told>>
  <2>1. CASE UNCHANGED queue /\ Goto(r, "deciding")
    BY <1>2, <1>3, <1>5, <2>1 DEF AuthorizeEnters, Enters, storeVars
  <2>2. CASE Enqueue(r, back) /\ Goto(r, "sweeping")
    <3>1. back \in Seq(Event) /\ Only(back, PlainKinds)
      <4>1. back \in Seq(Event) /\ Only(back, {"reversal"})
        BY <1>1, <1>3, Reversals
      <4> HIDE DEF back
      <4> QED
        BY <4>1 DEF Only, PlainKinds
    <3>2. RecordsOf(r, "sweeping", t, back) /\ Whole(back)
      BY <3>1, PlainRecords
    <3>3. task' = [task EXCEPT ![r] = t]
      BY <1>5
    <3>4. /\ t.g = task[r].g
          /\ t \in [g : Grants \cup {None}, a : AuthIds \cup {None}, now : Nat, decision : Decisions]
      BY <1>1
    <3>5. Call(r).op # "mint" /\ up
      BY <1>2 DEF Asks, Inv, DownInv, InFlight
    <3> HIDE DEF back, t
    <3>6. Records(r, "sweeping", t, back)
      BY <1>2, <1>3, <1>5, <2>2, <3>1, <3>2, <3>3, <3>4, <3>5 DEF AuthorizeEnters, Records
    <3> QED
      BY <3>6
  <2> QED
    BY <1>5, <2>1, <2>2 DEF AuthorizeEnters
<1> QED
  BY <1>4, <1>5 DEF AuthorizeEnters

\* What decide() answers is a reason.
LEMMA DecideType ==
  ASSUME NEW view, NEW now, NEW amount, NEW currency, NEW category
  PROVE  decide(view, now, amount, currency, category) \in Reasons
BY DEF decide, evaluate, Reasons

LEMMA ShapeAuthorizeDecides ==
  ASSUME Inv, NEW r \in Slots, AuthorizeDecides(r)
  PROVE  \E l, t, records : Records(r, l, t, records)
<1> DEFINE g == task[r].g
           c == Call(r)
           verdict == decide(agentView(events, g, task[r].now), clock, c.amount, c.currency, c.category)
           decision == IF verdict # "APPROVED" THEN "DENY"
                       ELSE IF needsApproval(grantOf(events, g), c.amount) THEN "ESCALATE" ELSE "ALLOW"
           reason == IF decision = "ESCALATE" THEN "APPROVAL_REQUIRED" ELSE verdict
           ds == decisionRecords(newId, g, task[r].now, c.amount, decision, reason, c.key,
                                 None, task[r].now + TTL, TRUE)
           t == [task[r] EXCEPT !.a = newId, !.decision = decision]
<1>1. /\ client \in Clients /\ task \in [Slots ->
        [g : Grants \cup {None}, a : AuthIds \cup {None}, now : Nat, decision : Decisions]]
  BY DEF Inv, TypeInv, TypeOK
<1>2. Asks(r) /\ InLock(r) /\ pc[r] = "deciding" /\ ~Resolves(r) /\ c.op # "mint"
  BY DEF AuthorizeDecides, Asks, InLock, Resolves
<1>3. g = c.g /\ g \in Grants /\ Holds(r) /\ c.key \in Keys /\ c.amount \in Nat /\ up
  BY <1>1, <1>2, CallShape DEF Inv, LockInv, DownInv, InFlight, Asks, Busy
<1>4. newId \in Fresh /\ newId \in AuthIds
  BY DEF AuthorizeDecides, newId, Fresh
<1>5. Enqueue(r, ds) /\ Goto(r, "writing") /\ task' = [task EXCEPT ![r].a = newId, ![r].decision = decision]
  BY DEF AuthorizeDecides
<1>6. /\ decision \in {"ALLOW", "DENY", "ESCALATE"} /\ reason \in Why
      /\ task[r].now \in Nat /\ task[r].now + TTL \in Nat
  BY <1>1, DecideType, ServerAssumption DEF Why
<1> HIDE DEF decision, reason, c, g
<1>7. ds \in Seq(Event) /\ DecisionShape(ds, newId, g, c.key, decision)
  <2>1. c.key \in Keys \cup {None}
    BY <1>3
  <2>2. PICK now \in Nat : now = task[r].now
    BY <1>6
  <2>3. PICK exp \in Nat : exp = task[r].now + TTL
    BY <1>6
  <2>4. PICK n \in AuthIds : n = newId
    BY <1>4
  <2>5. PICK amount \in Nat, key \in Keys \cup {None} : amount = c.amount /\ key = c.key
    BY <1>3, <2>1
  <2> DEFINE es == decisionRecords(n, g, now, amount, decision, reason, key, None, exp, TRUE)
  <2>6. es = ds
    BY <2>2, <2>3, <2>4, <2>5
  <2>7. /\ g \in Grants /\ decision \in {"ALLOW", "DENY", "ESCALATE"} /\ reason \in Why
        /\ None \in AuthIds \cup {None}
    BY <1>3, <1>6
  <2>8. es \in Seq(Event)
    BY <2>7, DecisionRecords, Zenon
  <2>9. DecisionShape(es, n, g, key, decision)
    BY <2>7, DecisionRecords, ZenonT(40)
  <2> HIDE DEF ds, es
  <2> QED
    BY <2>4, <2>5, <2>6, <2>8, <2>9
<1>8. t.a = newId /\ t.decision = decision /\ t.g = task[r].g
  BY <1>1
<1>9. t \in [g : Grants \cup {None}, a : AuthIds \cup {None}, now : Nat, decision : Decisions]
  BY <1>1, <1>4, <1>6 DEF Decisions
<1>10. task' = [task EXCEPT ![r] = t]
  BY <1>1, <1>5
<1> HIDE DEF ds, t
<1>11. /\ 1 \in DOMAIN ds
       /\ \A i \in DOMAIN ds : ds[i].kind = "decision" => i = 1
       /\ \A i \in DOMAIN ds : ds[i].kind \notin {"grant_meta", "approval_decision"}
       /\ \A b : Logged(ds, "approval_request", b) <=> decision = "ESCALATE" /\ b = newId
       /\ Whole(ds)
  BY <1>6, <1>7, DecisionFacts
<1>12. RecordsOf(r, "writing", t, ds)
  <2>1. /\ ds[1].kind = "decision" /\ ds[1].a = newId /\ ds[1].g = g /\ ds[1].key = c.key
        /\ ds[1].decision = decision
    BY <1>7 DEF DecisionShape
  <2>2. \A a : ~Logged(ds, "approval_decision", a)
    BY <1>11 DEF Logged
  <2> QED
    BY <1>2, <1>8, <1>11, <2>1, <2>2 DEF RecordsOf, c, g
<1>13. Records(r, "writing", t, ds)
  BY <1>2, <1>3, <1>4, <1>5, <1>7, <1>8, <1>9, <1>10, <1>11, <1>12 DEF AuthorizeDecides, Records, c
<1> QED
  BY <1>13

LEMMA ShapeResolveEnters ==
  ASSUME Inv, NEW r \in Slots, ResolveEnters(r)
  PROVE  Ends(r) \/ \E l, t, records : Records(r, l, t, records)
<1> DEFINE a == task[r].a
           g == task[r].g
           orig == decisionOf(events, a)
           verdict == IF Call(r).op = "deny" THEN "DENIED_BY_APPROVER"
                      ELSE decide(agentView(events, g, clock), clock, orig.amount,
                                  grantOf(events, g).currency, "")
           decision == IF verdict = "APPROVED" THEN "ALLOW" ELSE "DENY"
           reason == IF verdict = "APPROVED" THEN "APPROVED_BY_HUMAN" ELSE verdict
           decided == [NoEvent EXCEPT !.kind = "approval_decision", !.a = a, !.g = g, !.ts = clock]
           ds == decisionRecords(newId, g, clock, orig.amount, decision, reason, None, a,
                                 clock + ApprovalTTL, FALSE)
<1>1. /\ client \in Clients /\ events \in Seq(Event) /\ clock \in Nat
      /\ task \in [Slots ->
        [g : Grants \cup {None}, a : AuthIds \cup {None}, now : Nat, decision : Decisions]]
  BY ServerAssumption DEF Inv, TypeInv, TypeOK, MaxTime
<1>2. Resolves(r) /\ InLock(r) /\ Holds(r) /\ pc[r] = "waiting" /\ ~Asks(r) /\ Call(r).op # "mint"
  BY DEF ResolveEnters, Asks, InLock, Resolves
<1>3. g \in Grants /\ a \in AuthIds /\ up
  BY <1>1, <1>2 DEF Inv, LockInv, DownInv, InFlight
<1>4. CASE (Release(r, "refused") \/ Release(r, "failed")) /\ UNCHANGED <<queue, lastNow>>
  BY <1>2, <1>4 DEF ResolveEnters, Ends, Repeats, storeVars
<1>5. CASE /\ StillPending(r) /\ orig # NoEvent /\ Fresh # {} /\ Enqueue(r, <<decided>> \o ds)
           /\ lastNow' = [lastNow EXCEPT ![g] = clock] /\ Goto(r, "writing") /\ UNCHANGED lockQ
  <2>1. newId \in AuthIds
    BY <1>5 DEF newId, Fresh
  <2>2. orig.amount \in Nat
    BY <1>1, <1>5, DecisionType DEF Event
  <2>3. /\ decision \in {"ALLOW", "DENY", "ESCALATE"} /\ decision # "ESCALATE" /\ reason \in Why
        /\ clock + ApprovalTTL \in Nat
    <3>1. verdict \in Reasons \cup {"DENIED_BY_APPROVER"}
      BY DecideType
    <3> HIDE DEF verdict
    <3> QED
      BY <1>1, <3>1, ServerAssumption DEF Why
  <2>4. decided \in Event /\ decided.kind = "approval_decision" /\ decided.a = a
    BY <1>1, <1>3 DEF Event, NoEvent, Kinds, Decisions, Outcomes, Why
  <2>5. a \in pending
    BY <1>5 DEF StillPending
  <2> HIDE DEF decision, reason, orig, g, a
  <2>6. ds \in Seq(Event) /\ DecisionShape(ds, newId, g, None, decision)
    <3>1. None \in Keys \cup {None}
      OBVIOUS
    <3>2. PICK now \in Nat, amount \in Nat : now = clock /\ amount = orig.amount
      BY <1>1, <2>2
    <3>3. PICK exp \in Nat : exp = clock + ApprovalTTL
      BY <2>3
    <3>4. PICK n \in AuthIds : n = newId
      BY <2>1
    <3>5. PICK parent \in AuthIds \cup {None} : parent = a
      BY <1>3 DEF a
    <3> DEFINE es == decisionRecords(n, g, now, amount, decision, reason, None, parent, exp, FALSE)
    <3>6. es = ds
      BY <3>2, <3>3, <3>4, <3>5
    <3>7. g \in Grants /\ decision \in {"ALLOW", "DENY", "ESCALATE"} /\ reason \in Why
      BY <1>3, <2>3 DEF g
    <3>8. es \in Seq(Event)
      BY <3>1, <3>7, DecisionRecords, Zenon
    <3>9. DecisionShape(es, n, g, None, decision)
      BY <3>1, <3>7, DecisionRecords, ZenonT(40)
    <3> HIDE DEF ds, es
    <3> QED
      BY <3>4, <3>6, <3>8, <3>9
  <2> HIDE DEF ds
  <2>7. /\ 1 \in DOMAIN ds
        /\ \A i \in DOMAIN ds : ds[i].kind = "decision" => i = 1
        /\ \A i \in DOMAIN ds : ds[i].kind \notin {"grant_meta", "approval_decision"}
        /\ \A b : Logged(ds, "approval_request", b) <=> decision = "ESCALATE" /\ b = newId
        /\ Whole(ds)
    BY <2>3, <2>6, DecisionFacts
  <2>8. ds[1].kind = "decision" /\ ds[1].g = g /\ ds[1].key = None
    BY <2>6 DEF DecisionShape
  <2> HIDE DEF decided
  <2> DEFINE one == <<decided>>
             records == one \o ds
  <2>9. one \in Seq(Event) /\ DOMAIN one = {1} /\ one[1] = decided
    BY <2>4
  <2> HIDE DEF one
  <2>10. Whole(one) /\ \A b : /\ Logged(one, "approval_decision", b) <=> b = a
                              /\ ~Logged(one, "approval_request", b)
    BY <2>4, <2>9 DEF Whole, Logged
  <2>11. records \in Seq(Event) /\ Whole(records)
    BY <2>6, <2>7, <2>9, <2>10, ConcatPlaces, WholeConcat
  <2>12. \A b : /\ Logged(records, "approval_decision", b) <=> b = a
               /\ ~Logged(records, "approval_request", b)
    <3>1. \A b : ~Logged(ds, "approval_decision", b) /\ ~Logged(ds, "approval_request", b)
      BY <2>3, <2>7 DEF Logged
    <3> QED
      BY <2>6, <2>9, <2>10, <3>1, LoggedConcat
  <2>13. RecordsOf(r, "writing", task[r], records) /\ Whole(records)
    <3>1. \A i \in DOMAIN records : i \in DOMAIN one \/ \E j \in DOMAIN ds : i = Len(one) + j
      BY <2>6, <2>9, ConcatPlaces
    <3>2. /\ \A i \in DOMAIN one : records[i] = one[i]
          /\ \A j \in DOMAIN ds : records[Len(one) + j] = ds[j]
      BY <2>6, <2>9, ConcatPlaces
    <3>3. \A i \in DOMAIN records :
            /\ records[i].kind # "grant_meta"
            /\ records[i].kind = "decision" =>
                 i = Len(one) + 1 /\ records[i].g = g /\ records[i].key = None
      BY <2>4, <2>7, <2>8, <2>9, <3>1, <3>2
    <3> HIDE DEF records
    <3> QED
      BY <1>2, <2>11, <2>12, <3>3 DEF RecordsOf, g, a
  <2> HIDE DEF records
  <2>14. task' = [task EXCEPT ![r] = task[r]] /\ task[r] \in
           [g : Grants \cup {None}, a : AuthIds \cup {None}, now : Nat, decision : Decisions]
    BY <1>1 DEF ResolveEnters
  <2>15. Enqueue(r, records)
    BY <1>5 DEF records, one
  <2>16. lastNow' = [lastNow EXCEPT ![g] = clock] /\ g \in Grants
    BY <1>3, <1>5 DEF g
  <2>17. Records(r, "writing", task[r], records)
    BY <1>2, <1>3, <1>5, <2>5, <2>11, <2>13, <2>14, <2>15, <2>16 DEF ResolveEnters, Records, a
  <2> QED
    BY <2>17
<1> QED
  BY <1>4, <1>5 DEF ResolveEnters

LEMMA ShapeReportEnters ==
  ASSUME Inv, NEW r \in Slots, ReportEnters(r)
  PROVE  Ends(r) \/ \E l, t, records : Records(r, l, t, records)
<1> DEFINE a == task[r].a
           g == task[r].g
           s == railState(events, a)
           c == Call(r)
           rs == reportEvents(s, a, g, c.outcome, c.by, clock)
           receipt == [NoEvent EXCEPT !.kind = "receipt", !.g = g, !.ts = clock]
           records == Append(rs, receipt)
<1>1. /\ client \in Clients /\ events \in Seq(Event) /\ clock \in Nat
      /\ task \in [Slots ->
        [g : Grants \cup {None}, a : AuthIds \cup {None}, now : Nat, decision : Decisions]]
  BY ServerAssumption DEF Inv, TypeInv, TypeOK, MaxTime
<1>2. c.op = "report" /\ ~Resolves(r) /\ InLock(r) /\ Holds(r) /\ pc[r] = "waiting" /\ ~Asks(r)
  BY DEF ReportEnters, Asks, InLock, Resolves
<1>3. g \in Grants /\ a \in AuthIds /\ up /\ c.outcome \in Outcomes \ {"none"} /\ c.by \in Reporters
  BY <1>1, <1>2, CallShape DEF Inv, LockInv, DownInv, InFlight
<1>4. CASE (Release(r, "refused") \/ Release(r, "answered")) /\ UNCHANGED <<queue, lastNow>>
  BY <1>2, <1>4 DEF ReportEnters, Ends, Repeats, storeVars
<1>5. CASE /\ Enqueue(r, records) /\ lastNow' = [lastNow EXCEPT ![g] = clock] /\ Goto(r, "writing")
           /\ UNCHANGED lockQ
  <2>1. s \in Lifecycle
    BY <1>1, LifeType
  <2>2. rs \in Seq(Event) /\ Only(rs, ReportKinds)
    <3> HIDE DEF s, a, g, c
    <3> QED
      BY <1>1, <1>3, <2>1, ReportRecords
  <2>3. receipt \in Event /\ receipt.kind = "receipt"
    BY <1>1, <1>3 DEF Event, NoEvent, Kinds, Decisions, Outcomes, Why
  <2> HIDE DEF rs, receipt
  <2>4. records \in Seq(Event) /\ Only(records, PlainKinds)
    BY <2>2, <2>3 DEF Only, PlainKinds, ReportKinds
  <2> HIDE DEF records
  <2>5. RecordsOf(r, "writing", task[r], records) /\ Whole(records)
    BY <1>2, <2>4, PlainRecords
  <2>6. task' = [task EXCEPT ![r] = task[r]] /\ task[r] \in
           [g : Grants \cup {None}, a : AuthIds \cup {None}, now : Nat, decision : Decisions]
    BY <1>1 DEF ReportEnters
  <2>7. Records(r, "writing", task[r], records)
    BY <1>2, <1>3, <1>5, <2>4, <2>5, <2>6 DEF ReportEnters, Records
  <2> QED
    BY <2>7
<1> QED
  BY <1>4, <1>5 DEF ReportEnters
LEMMA ShapeSignerFails ==
  ASSUME Inv, NEW r \in Slots, SignerFails(r)
  PROVE  Ends(r)
<1>1. InLock(r) /\ Holds(r) /\ pc[r] \in {"waiting", "deciding"}
  <2>1. CASE pc[r] = "deciding"
    <3>1. Asks(r)
      BY <2>1 DEF Inv, LockInv
    <3>2. InLock(r)
      BY <2>1, <3>1 DEF InLock, Asks
    <3> QED
      BY <2>1, <3>2 DEF Inv, LockInv, Busy
  <2>2. CASE pc[r] = "waiting" /\ Holds(r) /\ Call(r).op # "mint"
    BY <2>2 DEF InLock
  <2> QED
    BY <2>1, <2>2 DEF SignerFails
<1> QED
  BY <1>1 DEF SignerFails, Ends, Repeats

LEMMA ShapeRejected ==
  ASSUME Inv, NEW r \in Slots, Rejected(r)
  PROVE  MintEnds(r) \/ Ends(r)
<1>1. CASE Call(r).op = "mint"
  BY <1>1 DEF Rejected, MintEnds, Inv, LockInv
<1>2. CASE Call(r).op # "mint"
  <2>1. InLock(r) /\ pc[r] = "rejected"
    BY <1>2 DEF InLock, Rejected
  <2>2. Holds(r)
    BY <2>1 DEF Inv, LockInv, Busy
  <2>3. task[r].g # None
    BY <2>2 DEF Holds
  <2> QED
    BY <2>1, <2>2, <2>3 DEF Rejected, Ends, Repeats
<1> QED
  BY <1>1, <1>2

LEMMA ShapeFinish ==
  ASSUME Inv, NEW r \in Slots, Finish(r)
  PROVE  MintEnds(r) \/ FinishAuthorize(r) \/ FinishOther(r)
<1>1. Call(r).op \in {"mint", "authorize", "approve", "deny", "report"}
  BY CallShape DEF Inv, TypeInv, TypeOK
<1>2. CASE Call(r).op = "mint"
  BY <1>2 DEF Finish, MintEnds
<1>3. CASE Call(r).op = "authorize"
  BY <1>3 DEF Finish, FinishAuthorize, Asks, InLock
<1>4. CASE Call(r).op \in {"approve", "deny"}
  BY <1>4 DEF Finish, FinishOther, Asks, Resolves, InLock
<1>5. CASE Call(r).op = "report"
  BY <1>5 DEF Finish, FinishOther, Asks, Resolves, InLock
<1> QED
  BY <1>1, <1>2, <1>3, <1>4, <1>5

\* Every step has one of the shapes.
LEMMA Shapes ==
  ASSUME Inv, [Next]_<<client, vars>>
  PROVE  client' = client /\ Shape
<1>1. CASE UNCHANGED <<client, vars>>
  BY <1>1 DEF Shape
<1>2. ASSUME NEW r \in Slots, Arrive(r) PROVE Shape
  <2>1. CASE CreateGrant(r)
    BY <2>1, ShapeMint DEF Shape
  <2>2. CASE AuthorizeArrives(r)
    BY <2>2, ShapeAuthorizeArrives DEF Shape
  <2>3. ASSUME NEW a \in AuthIds, ResolveArrives(r, a) \/ ReportArrives(r, a) PROVE Shape
    BY <2>3, ShapeOtherArrives DEF Shape
  <2> QED
    BY <1>2, <2>1, <2>2, <2>3 DEF Arrive
<1>3. ASSUME NEW r \in Slots, Continue(r) PROVE Shape
  <2>1. CASE AuthorizeEnters(r)
    BY <2>1, ShapeAuthorizeEnters DEF Shape
  <2>2. CASE AuthorizeDecides(r)
    BY <2>2, ShapeAuthorizeDecides DEF Shape
  <2>3. CASE ResolveEnters(r)
    BY <2>3, ShapeResolveEnters DEF Shape
  <2>4. CASE ReportEnters(r)
    BY <2>4, ShapeReportEnters DEF Shape
  <2>5. CASE SignerFails(r)
    BY <2>5, ShapeSignerFails DEF Shape
  <2>6. CASE Rejected(r)
    BY <2>6, ShapeRejected DEF Shape
  <2>7. CASE Finish(r)
    BY <2>7, ShapeFinish DEF Shape
  <2> QED
    BY <1>3, <2>1, <2>2, <2>3, <2>4, <2>5, <2>6, <2>7 DEF Continue
<1>4. ASSUME Faulty PROVE Shape
  BY <1>4 DEF Faulty, PowerLoss, Stops, Shape
<1>5. ASSUME Crash PROVE Shape
  <2>1. Stops(0, "whole") \/ Stops(Len(batch), "whole")
    BY <1>5 DEF Crash, Kill, Stops
  <2> QED
    BY <2>1 DEF Shape
<1> QED
  BY <1>1, <1>2, <1>3, <1>4, <1>5 DEF Next, Shape
-----------------------------------------------------------------------------
(* Types. *)

Task == [g : Grants \cup {None}, a : AuthIds \cup {None}, now : Nat, decision : Decisions]
Answer == [a : AuthIds, decision : Decisions]

LEMMA Types ==
  ASSUME TypeInv
  PROVE  /\ client \in Clients /\ MaxTime \in Nat
         /\ file \in Seq(LineType) /\ unended \in BOOLEAN /\ (unended => file # <<>>)
         /\ events \in Seq(Event) /\ queue \in Seq(Entry) /\ batch \in Seq(Event) /\ up \in BOOLEAN
         /\ clock \in Nat /\ clock <= MaxTime
         /\ pc \in [Slots -> PCs] /\ task \in [Slots -> Task]
         /\ lockQ \in [Grants -> Seq(Slots)]
         /\ idem \in [Grants -> [Keys -> Answer \cup {None}]]
         /\ pending \subseteq AuthIds
         /\ told \subseteq [g : Grants, key : Keys, a : AuthIds, decision : Decisions]
         /\ lastNow \in [Grants -> 0..clock] /\ faults \in 0..MaxFaults /\ MaxFaults \in Nat
<1>1. queue \in Seq(Entry)
  BY DEF TypeInv, TypeOK, Entry
<1>2. batch \in Seq(Event)
  BY <1>1, BatchType
<1>3. client \in Clients /\ MaxTime \in Nat
  BY ServerAssumption DEF TypeInv, TypeOK, MaxTime
<1> QED
  BY <1>1, <1>2, <1>3, ServerAssumption DEF TypeInv, TypeOK, LineType, Task, Answer

\* An answer that is told has the type of an answer.
LEMMA ToldType ==
  ASSUME TypeInv, NEW g \in Grants, NEW k \in Keys, NEW answer \in Answer, Tell(g, k, answer)
  PROVE  told' \subseteq [g : Grants, key : Keys, a : AuthIds, decision : Decisions]
BY Types DEF Tell, Answer

LEMMA RepeatsType ==
  ASSUME TypeInv, NEW r \in Slots, Repeats(r)
  PROVE  told' \subseteq [g : Grants, key : Keys, a : AuthIds, decision : Decisions]
<1>1. CASE UNCHANGED told
  BY <1>1, Types
<1>2. CASE Asks(r) /\ idem[Call(r).g][Call(r).key] # None
           /\ Tell(Call(r).g, Call(r).key, idem[Call(r).g][Call(r).key])
  <2>1. Call(r).g \in Grants /\ Call(r).key \in Keys
    BY <1>2, Types, CallShape DEF Asks
  <2>2. idem[Call(r).g][Call(r).key] \in Answer
    BY <1>2, <2>1, Types
  <2> QED
    BY <1>2, <2>1, <2>2, ToldType
<1> QED
  BY <1>1, <1>2 DEF Repeats

\* What a step does to the store.
StoreStep ==
  \/ UNCHANGED <<file, unended, events, up, queue>>
  \/ \E r \in Slots, records \in Seq(Event) :
       Enqueue(r, records) /\ UNCHANGED <<file, unended, events, up>>
  \/ Commit
  \/ Load
  \/ \E n, cut : CommitFails(n, cut) \/ Halt(n, cut)

LEMMA StoreSteps ==
  ASSUME Shape
  PROVE  StoreStep
<1>1. ASSUME NEW r \in Slots,
             \/ Turned(r) \/ Ends(r) \/ Enters(r) \/ MintEnds(r) \/ FinishAuthorize(r) \/ FinishOther(r)
             \/ \E g \in Grants, a \in AuthIds \cup {None} : Locks(r, g, a)
      PROVE  StoreStep
  <2>1. UNCHANGED storeVars
    BY <1>1 DEF Turned, Ends, Enters, MintEnds, FinishAuthorize, FinishOther, Locks
  <2> QED
    BY <2>1 DEF StoreStep, storeVars
<1>2. ASSUME NEW r \in Slots, NEW l, NEW t, NEW records, Records(r, l, t, records)
      PROVE  StoreStep
  BY <1>2 DEF Records, StoreStep
<1>3. CASE Drain
  BY <1>3 DEF Drain, StoreStep
<1>4. ASSUME NEW n, NEW cut, DrainFails(n, cut) \/ Stops(n, cut) PROVE StoreStep
  BY <1>4 DEF DrainFails, Stops, StoreStep
<1>5. CASE Boot
  BY <1>5 DEF Boot, StoreStep
<1>6. CASE Tick \/ UNCHANGED vars
  BY <1>6 DEF Tick, vars, storeVars, StoreStep
<1> QED
  BY <1>1, <1>2, <1>3, <1>4, <1>5, <1>6 DEF Shape

LEMMA StoreType ==
  ASSUME TypeInv, Shape
  PROVE  /\ file' \in Seq(LineType) /\ unended' \in BOOLEAN /\ (unended' => file' # <<>>)
         /\ events' \in Seq(Event) /\ up' \in BOOLEAN
<1> USE Types
<1>1. CASE UNCHANGED <<file, unended, events, up>>
  BY <1>1
<1>2. CASE Commit
  <2>1. batch \in Seq(LineType)
    BY DEF LineType
  <2>2. file' = written(batch) /\ unended' = FALSE /\ events' = events \o batch /\ up' = up
    BY <1>2 DEF Commit
  <2>3. written(batch) \in Seq(LineType)
    BY <2>1, WrittenLines
  <2>4. events \o batch \in Seq(Event)
    BY ConcatPlaces
  <2> QED
    BY <2>2, <2>3, <2>4
<1>3. ASSUME NEW n, NEW cut, CommitFails(n, cut) \/ Halt(n, cut)
      PROVE  /\ file' \in Seq(LineType) /\ unended' \in BOOLEAN /\ (unended' => file' # <<>>)
             /\ events' \in Seq(Event) /\ up' \in BOOLEAN
  <2>1. Leaves(n, cut)
    BY <1>3 DEF CommitFails, Halt
  <2>2. file' \in Seq(LineType) /\ unended' \in BOOLEAN /\ (unended' => file' # <<>>)
    BY <2>1, LeavesLines
  <2>3. ((UNCHANGED <<events, up>>) \/ (events' = <<>> /\ up' = FALSE))
    BY <1>3 DEF CommitFails, Halt
  <2>4. <<>> \in Seq(Event)
    OBVIOUS
  <2> QED
    BY <2>2, <2>3, <2>4
<1>4. CASE Load
  BY <1>4, LoadType DEF Load
<1> QED
  BY <1>1, <1>2, <1>3, <1>4, StoreSteps DEF StoreStep

LEMMA QueueType ==
  ASSUME TypeInv, Shape
  PROVE  queue' \in Seq(Entry)
<1> USE Types
<1>1. CASE queue' = queue \/ queue' = <<>>
  <2>1. <<>> \in Seq(Entry)
    OBVIOUS
  <2> QED
    BY <1>1, <2>1
<1>2. ASSUME NEW r \in Slots, NEW records \in Seq(Event), Enqueue(r, records)
      PROVE  queue' \in Seq(Entry)
  <2>1. [by |-> r, records |-> records] \in Entry
    BY DEF Entry
  <2> QED
    BY <1>2, <2>1 DEF Enqueue
<1> QED
  BY <1>1, <1>2, StoreSteps DEF StoreStep, Commit, CommitFails, Halt, Load
MemoryType ==
  /\ pc \in [Slots -> PCs] /\ task \in [Slots -> Task] /\ lockQ \in [Grants -> Seq(Slots)]
  /\ idem \in [Grants -> [Keys -> Answer \cup {None}]] /\ pending \subseteq AuthIds
  /\ told \subseteq [g : Grants, key : Keys, a : AuthIds, decision : Decisions]
  /\ clock \in 0..MaxTime /\ lastNow \in [Grants -> 0..clock] /\ faults \in 0..MaxFaults

LEMMA LastNowType ==
  ASSUME TypeInv, (UNCHANGED lastNow) \/ \E g \in Grants : lastNow' = [lastNow EXCEPT ![g] = clock]
  PROVE  lastNow' \in [Grants -> 0..clock]
<1>1. lastNow \in [Grants -> 0..clock] /\ clock \in 0..clock
  BY Types
<1>2. CASE UNCHANGED lastNow
  BY <1>1, <1>2
<1>3. ASSUME NEW g \in Grants, lastNow' = [lastNow EXCEPT ![g] = clock]
      PROVE  lastNow' \in [Grants -> 0..clock]
  BY <1>1, <1>3
<1> QED
  BY <1>2, <1>3

\* A released lock is still a queue of slots.
LEMMA ReleaseType ==
  ASSUME TypeInv, NEW r \in Slots, Holds(r), NEW l \in PCs, Release(r, l)
  PROVE  pc' \in [Slots -> PCs] /\ lockQ' \in [Grants -> Seq(Slots)]
<1> USE Types
<1>1. pc' \in [Slots -> PCs]
  BY DEF Release, Goto
<1>2. CASE task[r].g \in Grants
  <2>1. Tail(lockQ[task[r].g]) \in Seq(Slots)
    BY <1>2 DEF Holds
  <2> QED
    BY <1>1, <1>2, <2>1 DEF Release
<1>3. CASE task[r].g \notin Grants
  BY <1>1, <1>3 DEF Release
<1> QED
  BY <1>2, <1>3

LEMMA MemoryTypeStep ==
  ASSUME Inv, Shape, client' = client
  PROVE  MemoryType'
<1> USE Types DEF Slots
<1>0. TypeInv /\ Slots' = Slots /\ MaxTime' = MaxTime
  BY DEF Inv, MaxTime
<1>1. ASSUME NEW r \in Slots, Turned(r) \/ Ends(r) PROVE MemoryType'
  <2>1. told' \subseteq [g : Grants, key : Keys, a : AuthIds, decision : Decisions]
    BY <1>0, <1>1, RepeatsType DEF Turned, Ends
  <2>2. pc' \in [Slots -> PCs] /\ lockQ' \in [Grants -> Seq(Slots)]
    <3>1. CASE Turned(r)
      BY <1>0, <3>1 DEF Turned, Goto, PCs
    <3>2. CASE Ends(r)
      <4>1. PICK l \in {"refused", "answered", "failed"} : Release(r, l)
        BY <3>2 DEF Ends
      <4>2. l \in PCs
        BY DEF PCs
      <4> QED
        BY <1>0, <3>2, <4>1, <4>2, ReleaseType DEF Ends
    <3> QED
      BY <1>1, <3>1, <3>2
  <2> QED
    BY <1>0, <1>1, <2>1, <2>2 DEF Turned, Ends, MemoryType
<1>2. ASSUME NEW r \in Slots, Enters(r) \/ MintEnds(r) PROVE MemoryType'
  <2>1. pc' \in [Slots -> PCs]
    BY <1>0, <1>2 DEF Enters, MintEnds, Goto, PCs
  <2>2. CASE Enters(r)
    <3>1. task' \in [Slots -> Task]
      <4>1. task' = [task EXCEPT ![r] = [task[r] EXCEPT !.now = clock]]
        BY <1>0, <2>2 DEF Enters
      <4>2. [task[r] EXCEPT !.now = clock] \in Task
        <5>1. task[r] \in Task /\ clock \in Nat
          BY <1>0
        <5> QED
          BY <5>1 DEF Task
      <4> QED
        BY <1>0, <4>1, <4>2
    <3>2. lastNow' \in [Grants -> 0..clock]
      BY <1>0, <2>2, LastNowType DEF Enters
    <3> QED
      BY <1>0, <2>1, <2>2, <3>1, <3>2 DEF Enters, MemoryType
  <2>3. CASE MintEnds(r)
    BY <1>0, <2>1, <2>3 DEF MintEnds, MemoryType
  <2> QED
    BY <1>2, <2>2, <2>3
<1>3. ASSUME NEW r \in Slots, FinishAuthorize(r) PROVE MemoryType'
  <2> DEFINE answer == [a |-> task[r].a, decision |-> task[r].decision]
  <2>1. Call(r).key \in Keys /\ task[r].g \in Grants /\ task[r].a \in AuthIds /\ Holds(r)
    <3>1. Call(r).key \in Keys
      BY <1>0, <1>3, CallShape DEF FinishAuthorize, Asks
    <3>2. InLock(r) /\ Busy(r) /\ pc[r] = "written" /\ Asks(r)
      BY <1>3 DEF FinishAuthorize, Busy
    <3> QED
      BY <3>1, <3>2 DEF Inv, LockInv, FreshInv
  <2>2. answer \in Answer
    BY <1>0, <2>1 DEF Task, Answer
  <2>3. told' \subseteq [g : Grants, key : Keys, a : AuthIds, decision : Decisions]
    BY <1>0, <1>3, <2>1, <2>2, ToldType DEF FinishAuthorize
  <2>4. "answered" \in PCs
    BY DEF PCs
  <2>5. pc' \in [Slots -> PCs] /\ lockQ' \in [Grants -> Seq(Slots)]
    BY <1>0, <1>3, <2>1, <2>4, ReleaseType DEF FinishAuthorize
  <2>6. idem' \in [Grants -> [Keys -> Answer \cup {None}]]
    <3>1. idem' = [idem EXCEPT ![task[r].g][Call(r).key] = answer]
      BY <1>3 DEF FinishAuthorize
    <3> HIDE DEF answer
    <3> QED
      BY <1>0, <2>1, <2>2, <3>1
  <2>7. pending' \subseteq AuthIds
    BY <1>0, <1>3, <2>1 DEF FinishAuthorize
  <2> QED
    BY <1>0, <1>3, <2>3, <2>5, <2>6, <2>7 DEF FinishAuthorize, MemoryType
<1>4. ASSUME NEW r \in Slots, FinishOther(r) PROVE MemoryType'
  <2>1. Holds(r)
    BY <1>4 DEF FinishOther, Inv, LockInv, Busy
  <2>2. "answered" \in PCs
    BY DEF PCs
  <2>3. pc' \in [Slots -> PCs] /\ lockQ' \in [Grants -> Seq(Slots)]
    BY <1>0, <1>4, <2>1, <2>2, ReleaseType DEF FinishOther
  <2> QED
    BY <1>0, <1>4, <2>3 DEF FinishOther, MemoryType
<1>5. ASSUME NEW r \in Slots, NEW g \in Grants, NEW a \in AuthIds \cup {None}, Locks(r, g, a)
      PROVE  MemoryType'
  <2>1. pc' \in [Slots -> PCs]
    BY <1>0, <1>5 DEF Locks, Lock, Goto, PCs
  <2>2. task' \in [Slots -> Task]
    BY <1>0, <1>5 DEF Locks, Lock, Task, NoTask, Decisions
  <2>3. lockQ' \in [Grants -> Seq(Slots)]
    <3>1. Append(lockQ[g], r) \in Seq(Slots)
      BY <1>0
    <3> QED
      BY <1>0, <1>5, <3>1 DEF Locks, Lock
  <2> QED
    BY <1>0, <1>5, <2>1, <2>2, <2>3 DEF Locks, MemoryType
<1>6. ASSUME NEW r \in Slots, NEW l, NEW t, NEW records, Records(r, l, t, records)
      PROVE  MemoryType'
  <2>1. pc' \in [Slots -> PCs]
    BY <1>0, <1>6 DEF Records, Goto, PCs
  <2>2. task' \in [Slots -> Task]
    BY <1>0, <1>6 DEF Records, Task
  <2>3. lastNow' \in [Grants -> 0..clock]
    BY <1>0, <1>6, LastNowType DEF Records
  <2>4. UNCHANGED <<lockQ, idem, pending, told, clock, faults>>
    BY <1>6 DEF Records
  <2> QED
    BY <1>0, <2>1, <2>2, <2>3, <2>4 DEF MemoryType
<1>7. ASSUME Drain \/ \E n, cut : DrainFails(n, cut) PROVE MemoryType'
  <2>1. pc' \in [Slots -> PCs]
    BY <1>0, <1>7 DEF Drain, DrainFails, PCs
  <2>2. faults' \in 0..MaxFaults
    BY <1>0, <1>7 DEF Drain, DrainFails, serverVarsButPc
  <2> QED
    BY <1>0, <1>7, <2>1, <2>2 DEF Drain, DrainFails, serverVarsButPc, MemoryType
<1>8. ASSUME NEW n, NEW cut, Stops(n, cut) PROVE MemoryType'
  <2>1. pc' \in [Slots -> PCs]
    BY <1>0, <1>8 DEF Stops, Forget, PCs
  <2>2. lockQ' \in [Grants -> Seq(Slots)]
    <3>1. <<>> \in Seq(Slots)
      OBVIOUS
    <3> QED
      BY <1>8, <3>1 DEF Stops, Forget
  <2>3. faults' \in 0..MaxFaults
    BY <1>0, <1>8 DEF Stops, Forget
  <2> QED
    BY <1>0, <1>8, <2>1, <2>2, <2>3 DEF Stops, Forget, MemoryType
<1>9. ASSUME Boot PROVE MemoryType'
  <2>1. events' \in Seq(Event)
    BY <1>0, StoreType
  <2>2. idem' \in [Grants -> [Keys -> Answer \cup {None}]]
    <3>1. PICK es \in Seq(Event) : es = events'
      BY <2>1
    <3>2. \A g \in Grants, k \in Keys : answerOf(es, g, k) \in Answer \cup {None}
      BY AnswerType DEF Answer
    <3> QED
      BY <1>9, <3>1, <3>2 DEF Boot
  <2>3. pending' \subseteq AuthIds
    BY <1>9 DEF Boot, pendingOf
  <2> QED
    BY <1>0, <1>9, <2>2, <2>3 DEF Boot, MemoryType
<1>10. ASSUME Tick PROVE MemoryType'
  <2>1. clock' \in 0..MaxTime /\ lastNow' \in [Grants -> 0..clock']
    BY <1>0, <1>10 DEF Tick
  <2> QED
    BY <1>0, <1>10, <2>1 DEF Tick, MemoryType
<1>11. ASSUME UNCHANGED vars PROVE MemoryType'
  BY <1>0, <1>11 DEF vars, serverVarsButPc, MemoryType
<1> QED
  BY <1>1, <1>2, <1>3, <1>4, <1>5, <1>6, <1>7, <1>8, <1>9, <1>10, <1>11 DEF Shape

LEMMA TypeStep ==
  ASSUME Inv, Shape, client' = client
  PROVE  TypeInv'
<1>1. TypeInv /\ Slots' = Slots /\ MaxTime' = MaxTime /\ client' \in Clients
  BY Types DEF Inv, MaxTime, Slots
<1>2. queue' \in Seq(Entry)
  BY <1>1, QueueType
<1> QED
  BY <1>1, <1>2, StoreType, MemoryTypeStep
  DEF TypeInv, TypeOK, MemoryType, LineType, Entry, Task, Answer
-----------------------------------------------------------------------------
(* The lock. *)

NoRepeat(q) == \A i, j \in DOMAIN q : q[i] = q[j] => i = j

LEMMA QueueTail ==
  ASSUME NEW S, NEW q \in Seq(S), q # <<>>, NoRepeat(q)
  PROVE  /\ NoRepeat(Tail(q))
         /\ \A i \in DOMAIN Tail(q) : Tail(q)[i] # Head(q) /\ \E j \in DOMAIN q : Tail(q)[i] = q[j]
         /\ Head(q) = q[1] /\ 1 \in DOMAIN q
<1>1. /\ Len(q) \in Nat /\ Len(q) > 0 /\ DOMAIN q = 1..Len(q) /\ Head(q) = q[1]
      /\ DOMAIN Tail(q) = 1..(Len(q) - 1)
      /\ \A i \in 1..(Len(q) - 1) : Tail(q)[i] = q[i + 1]
  OBVIOUS
<1>2. \A i \in 1..(Len(q) - 1) : i + 1 \in DOMAIN q /\ i + 1 # 1 /\ i \in Nat
  BY <1>1
<1> QED
  BY <1>1, <1>2 DEF NoRepeat

LEMMA QueueAppend ==
  ASSUME NEW S, NEW q \in Seq(S), NEW x \in S, NoRepeat(q), \A i \in DOMAIN q : q[i] # x
  PROVE  /\ NoRepeat(Append(q, x))
         /\ \A i \in DOMAIN Append(q, x) : Append(q, x)[i] = x \/ \E j \in DOMAIN q : Append(q, x)[i] = q[j]
         /\ Append(q, x) # <<>>
         /\ q # <<>> => Head(Append(q, x)) = Head(q)
<1>1. /\ Len(q) \in Nat /\ DOMAIN q = 1..Len(q) /\ DOMAIN Append(q, x) = 1..(Len(q) + 1)
      /\ \A i \in 1..Len(q) : Append(q, x)[i] = q[i]
      /\ Append(q, x)[Len(q) + 1] = x
  OBVIOUS
<1>2. \A i \in 1..(Len(q) + 1) : i \in 1..Len(q) \/ i = Len(q) + 1
  BY <1>1
<1>3. q # <<>> => Head(Append(q, x)) = Head(q)
  OBVIOUS
<1> QED
  BY <1>1, <1>2, <1>3 DEF NoRepeat

\* What a step does to the lock: nothing ...
Stays ==
  /\ UNCHANGED lockQ
  /\ \A q \in Slots :
       /\ InLock(q)' = InLock(q)
       /\ InLock(q) => task'[q].g = task[q].g
       /\ InLock(q) /\ ~Asks(q) => task'[q].a = task[q].a
       /\ InLock(q) /\ pc'[q] # "waiting" => Holds(q)
       /\ pc'[q] \in {"sweeping", "deciding"} => Asks(q)
       /\ Call(q).op = "mint" => pc'[q] # "waiting" /\ task'[q].g = task[q].g

\* ... or the holder leaves.
Goes(r) ==
  /\ InLock(r) /\ Holds(r)
  /\ Release(r, "refused") \/ Release(r, "answered") \/ Release(r, "failed")
  /\ UNCHANGED task

LEMMA LockSteps ==
  ASSUME Inv, Shape, client' = client
  PROVE  \/ Stays
         \/ \E r \in Slots : Goes(r)
         \/ \E r \in Slots, g \in Grants, a \in AuthIds \cup {None} : Locks(r, g, a)
         \/ \E n, cut : Stops(n, cut)
<1>0. /\ TypeInv /\ pc \in [Slots -> PCs] /\ task \in [Slots -> Task]
      /\ \A q \in Slots : Busy(q) => Holds(q)
      /\ \A q \in Slots : pc[q] \in {"sweeping", "deciding"} => Asks(q)
      /\ \A q \in Slots : Call(q).op = "mint" => pc[q] # "waiting"
      /\ \A q \in Slots : InLock(q) /\ pc[q] # "waiting" => Holds(q)
      /\ InBatch = {r \in Slots : pc[r] \in {"sweeping", "writing"}}
  BY Types DEF Inv, LockInv, Busy, BatchInv
<1>1. \A r \in Slots : Ends(r) => Goes(r)
  BY DEF Ends, Goes
<1>2. \A r \in Slots : FinishAuthorize(r) \/ FinishOther(r) => Goes(r)
  BY <1>0 DEF FinishAuthorize, FinishOther, Goes, Busy
<1>3. ASSUME NEW r \in Slots, Turned(r) \/ MintEnds(r) PROVE Stays
  BY <1>0, <1>3 DEF Turned, MintEnds, MayArrive, Stays, InLock, Call, Goto
<1>4. ASSUME NEW r \in Slots, Enters(r) PROVE Stays
  <2>1. /\ pc' = [pc EXCEPT ![r] = "deciding"] /\ pc[r] = "waiting" /\ InLock(r) /\ Holds(r) /\ Asks(r)
        /\ UNCHANGED lockQ /\ task' = [task EXCEPT ![r].now = clock]
    BY <1>4 DEF Enters, Goto
  <2>2. \A q \in Slots : task'[q].g = task[q].g /\ task'[q].a = task[q].a
    BY <1>0, <2>1 DEF Task
  <2>3. \A q \in Slots : InLock(q)' = InLock(q)
    BY <1>0, <2>1 DEF InLock, Call
  <2>4. \A q \in Slots : q # r => pc'[q] = pc[q]
    BY <1>0, <2>1
  <2>5. pc'[r] = "deciding" /\ Call(r).op # "mint"
    BY <1>0, <2>1 DEF Asks
  <2> QED
    BY <1>0, <2>1, <2>2, <2>3, <2>4, <2>5 DEF Stays
<1>5. ASSUME NEW r \in Slots, NEW l, NEW t, NEW records, Records(r, l, t, records) PROVE Stays
  <2>1. /\ pc' = [pc EXCEPT ![r] = l] /\ l \in {"sweeping", "writing"} /\ UNCHANGED lockQ
        /\ IF Call(r).op = "mint" THEN pc[r] = "idle" ELSE InLock(r) /\ Holds(r)
        /\ l = "sweeping" => Asks(r)
        /\ task' = [task EXCEPT ![r] = t] /\ t.g = task[r].g /\ (~Asks(r) => t.a = task[r].a)
    BY <1>5 DEF Records, Goto
  <2>2. \A q \in Slots : task'[q].g = task[q].g /\ (~Asks(q) => task'[q].a = task[q].a)
    BY <1>0, <2>1
  <2>3. \A q \in Slots : q # r => pc'[q] = pc[q]
    BY <1>0, <2>1
  <2>4. pc'[r] = l
    BY <1>0, <2>1
  <2>5. \A q \in Slots : InLock(q)' = InLock(q)
    BY <2>1, <2>3, <2>4 DEF InLock, Call
  <2>6. InLock(r) => Holds(r)
    BY <2>1 DEF InLock
  <2> QED
    BY <1>0, <2>1, <2>2, <2>3, <2>4, <2>5, <2>6 DEF Stays
<1>6. ASSUME Drain \/ \E n, cut : DrainFails(n, cut) PROVE Stays
  <2>1. /\ UNCHANGED <<lockQ, task>>
        /\ \A q \in Slots : \/ pc'[q] = pc[q]
                            \/ pc[q] \in {"sweeping", "writing"} /\ pc'[q] = "rejected"
                            \/ pc[q] = "sweeping" /\ pc'[q] = "deciding"
                            \/ pc[q] = "writing" /\ pc'[q] = "written"
    BY <1>0, <1>6 DEF Drain, DrainFails, serverVarsButPc
  <2>2. \A q \in Slots : InLock(q)' = InLock(q)
    BY <2>1 DEF InLock, Call
  <2>3. \A q \in Slots : pc'[q] # "waiting" => pc[q] # "waiting"
    BY <2>1
  <2> QED
    BY <1>0, <2>1, <2>2, <2>3 DEF Stays
<1>7. ASSUME Boot \/ Tick \/ UNCHANGED vars PROVE Stays
  <2>1. UNCHANGED <<pc, task, lockQ>>
    BY <1>7 DEF Boot, Tick, vars, serverVarsButPc
  <2> QED
    BY <1>0, <2>1 DEF Stays, InLock, Call
<1> QED
  BY <1>1, <1>2, <1>3, <1>4, <1>5, <1>6, <1>7 DEF Shape
\* The invariant after a step, in terms of the requests.
LEMMA LockInvNext ==
  ASSUME client' = client,
         \A g \in Grants : \A i, j \in DOMAIN lockQ'[g] : lockQ'[g][i] = lockQ'[g][j] => i = j,
         \A g \in Grants : \A i \in DOMAIN lockQ'[g] :
           \E q \in Slots : lockQ'[g][i] = q /\ InLock(q)' /\ task'[q].g = g,
         \A q \in Slots : Busy(q)' => Holds(q)',
         \A q \in Slots : InLock(q)' => task'[q].g \in Grants,
         \A q \in Slots : InLock(q)' /\ Asks(q) => task'[q].g = Call(q).g,
         \A q \in Slots : InLock(q)' /\ ~Asks(q) => task'[q].a \in AuthIds,
         \A q \in Slots : pc'[q] \in {"sweeping", "deciding"} => Asks(q),
         \A q \in Slots : Call(q).op = "mint" => pc'[q] # "waiting" /\ task'[q].g = None
  PROVE  LockInv'
<1>1. \A g \in Grants : \A i \in DOMAIN lockQ'[g] :
        (InLock(lockQ[g][i]))' /\ task'[lockQ'[g][i]].g = g
  BY DEF InLock, Call
<1> QED
  BY <1>1 DEF LockInv, Slots, Asks, Call

LEMMA LockStep ==
  ASSUME Inv, Shape, client' = client
  PROVE  LockInv'
<1>0. /\ TypeInv /\ LockInv /\ pc \in [Slots -> PCs] /\ task \in [Slots -> Task] /\ Slots' = Slots
      /\ lockQ \in [Grants -> Seq(Slots)] /\ client \in Clients
  BY Types DEF Inv, Slots
<1>1. ASSUME Stays PROVE LockInv'
  <2>1. /\ lockQ' = lockQ
        /\ \A q \in Slots :
             /\ InLock(q)' = InLock(q)
             /\ InLock(q) => task'[q].g = task[q].g
             /\ InLock(q) /\ ~Asks(q) => task'[q].a = task[q].a
             /\ InLock(q) /\ pc'[q] # "waiting" => Holds(q)
             /\ pc'[q] \in {"sweeping", "deciding"} => Asks(q)
             /\ Call(q).op = "mint" => pc'[q] # "waiting" /\ task'[q].g = task[q].g
    BY <1>1 DEF Stays
  <2>2. \A g \in Grants : \A i, j \in DOMAIN lockQ'[g] : lockQ'[g][i] = lockQ'[g][j] => i = j
    BY <1>0, <2>1 DEF LockInv
  <2>3. \A g \in Grants : \A i \in DOMAIN lockQ'[g] :
          \E q \in Slots : lockQ'[g][i] = q /\ InLock(q)' /\ task'[q].g = g
    <3> SUFFICES ASSUME NEW g \in Grants, NEW i \in DOMAIN lockQ[g]
                 PROVE  \E q \in Slots : lockQ[g][i] = q /\ InLock(q)' /\ task'[q].g = g
      BY <2>1
    <3>1. lockQ[g][i] \in Slots
      BY <1>0
    <3>2. PICK q \in Slots : q = lockQ[g][i]
      BY <3>1
    <3>3. InLock(q) /\ task[q].g = g
      BY <1>0, <3>2 DEF LockInv
    <3>4. InLock(q)' /\ task'[q].g = g
      BY <2>1, <3>3
    <3> QED
      BY <3>2, <3>4
  <2>4. \A q \in Slots : InLock(q) => Call(q).op # "mint"
    BY DEF InLock
  <2>5. \A q \in Slots : (InLock(q) /\ pc'[q] # "waiting") => Holds(q)'
    BY <2>1 DEF Holds
  <2>6. \A q \in Slots : Busy(q)' => InLock(q) /\ pc'[q] # "waiting"
    BY <2>1 DEF Busy, InLock, Call
  <2>7. \A q \in Slots : InLock(q)' => task'[q].g \in Grants
    BY <1>0, <2>1 DEF LockInv
  <2>8. \A q \in Slots : InLock(q)' /\ Asks(q) => task'[q].g = Call(q).g
    BY <1>0, <2>1 DEF LockInv
  <2>9. \A q \in Slots : InLock(q)' /\ ~Asks(q) => task'[q].a \in AuthIds
    BY <1>0, <2>1 DEF LockInv
  <2>10. \A q \in Slots : Call(q).op = "mint" => pc'[q] # "waiting" /\ task'[q].g = None
    BY <1>0, <2>1 DEF LockInv
  <2> QED
    BY <1>0, <2>1, <2>2, <2>3, <2>5, <2>6, <2>7, <2>8, <2>9, <2>10, LockInvNext
<1>2. ASSUME NEW r \in Slots, Goes(r) PROVE LockInv'
  <2> DEFINE h == task[r].g
  <2>1. PICK l \in {"refused", "answered", "failed"} : Release(r, l)
    BY <1>2 DEF Goes
  <2>2. /\ pc' = [pc EXCEPT ![r] = l] /\ task' = task /\ InLock(r) /\ Holds(r)
        /\ lockQ' = [lockQ EXCEPT ![h] = Tail(lockQ[h])]
    BY <1>2, <2>1 DEF Release, Goto, Goes
  <2>3. h \in Grants /\ lockQ[h] # <<>> /\ Head(lockQ[h]) = r
    BY <1>0, <2>2 DEF Holds, LockInv
  <2>4. NoRepeat(lockQ[h]) /\ lockQ[h] \in Seq(Slots)
    BY <1>0, <2>3 DEF LockInv, NoRepeat
  <2> HIDE DEF h
  <2>5. /\ NoRepeat(Tail(lockQ[h]))
        /\ \A i \in DOMAIN Tail(lockQ[h]) :
             Tail(lockQ[h])[i] # r /\ \E j \in DOMAIN lockQ[h] : Tail(lockQ[h])[i] = lockQ[h][j]
    BY <2>3, <2>4, QueueTail
  <2>6. /\ lockQ'[h] = Tail(lockQ[h])
        /\ \A g \in Grants : g # h => lockQ'[g] = lockQ[g]
    BY <1>0, <2>2, <2>3
  <2>7. /\ \A q \in Slots : q # r => pc'[q] = pc[q]
        /\ pc'[r] \in {"refused", "answered", "failed"}
    BY <1>0, <2>2
  <2>8. /\ \A q \in Slots : q # r => InLock(q)' = InLock(q) /\ Busy(q)' = Busy(q)
        /\ ~InLock(r)' /\ ~Busy(r)'
    BY <2>7 DEF InLock, Busy, Call
  <2>9. \A g \in Grants : \A i, j \in DOMAIN lockQ'[g] : lockQ'[g][i] = lockQ'[g][j] => i = j
    BY <1>0, <2>5, <2>6 DEF LockInv, NoRepeat
  <2>10. \A g \in Grants : \A i \in DOMAIN lockQ'[g] :
           \E j \in DOMAIN lockQ[g] : lockQ'[g][i] = lockQ[g][j] /\ lockQ[g][j] # r
    <3> SUFFICES ASSUME NEW g \in Grants, NEW i \in DOMAIN lockQ'[g]
                 PROVE  \E j \in DOMAIN lockQ[g] : lockQ'[g][i] = lockQ[g][j] /\ lockQ[g][j] # r
      OBVIOUS
    <3>1. CASE g = h
      BY <2>5, <2>6, <3>1
    <3>2. CASE g # h
      <4>1. lockQ'[g] = lockQ[g] /\ task[lockQ[g][i]].g = g
        BY <1>0, <2>6, <3>2 DEF LockInv
      <4>2. lockQ[g][i] # r
        BY <3>2, <4>1 DEF h
      <4> QED
        BY <4>1, <4>2
    <3> QED
      BY <3>1, <3>2
  <2>11. \A g \in Grants : \A i \in DOMAIN lockQ'[g] :
           \E q \in Slots : lockQ'[g][i] = q /\ InLock(q)' /\ task'[q].g = g
    <3> SUFFICES ASSUME NEW g \in Grants, NEW i \in DOMAIN lockQ'[g]
                 PROVE  \E q \in Slots : lockQ'[g][i] = q /\ InLock(q)' /\ task'[q].g = g
      OBVIOUS
    <3>1. PICK j \in DOMAIN lockQ[g] : lockQ'[g][i] = lockQ[g][j] /\ lockQ[g][j] # r
      BY <2>10
    <3>2. PICK q \in Slots : q = lockQ[g][j] /\ q # r
      BY <1>0, <3>1
    <3>3. InLock(q) /\ task[q].g = g
      BY <1>0, <3>2 DEF LockInv
    <3>4. InLock(q)' /\ task'[q].g = g /\ lockQ'[g][i] = q
      BY <2>2, <2>8, <3>1, <3>2, <3>3
    <3> QED
      BY <3>2, <3>4
  <2>12. \A q \in Slots : Busy(q)' => Holds(q)'
    <3> SUFFICES ASSUME NEW q \in Slots, Busy(q)' PROVE Holds(q)'
      OBVIOUS
    <3>1. q # r /\ Busy(q) /\ Holds(q) /\ InLock(q)
      BY <1>0, <2>8 DEF LockInv, Busy
    <3>2. task[q].g \in Grants /\ task[q].g # h
      BY <1>0, <2>3, <3>1 DEF LockInv, Holds
    <3> QED
      BY <2>2, <2>6, <3>1, <3>2 DEF Holds
  <2>13. /\ \A q \in Slots : InLock(q)' => InLock(q)
         /\ \A q \in Slots : pc'[q] \in {"sweeping", "deciding"} => Asks(q)
         /\ \A q \in Slots : Call(q).op = "mint" => pc'[q] # "waiting" /\ task'[q].g = None
    BY <1>0, <2>2, <2>7, <2>8 DEF LockInv
  <2> QED
    <3>1. /\ \A q \in Slots : InLock(q)' => task'[q].g \in Grants
          /\ \A q \in Slots : InLock(q)' /\ Asks(q) => task'[q].g = Call(q).g
          /\ \A q \in Slots : InLock(q)' /\ ~Asks(q) => task'[q].a \in AuthIds
      BY <1>0, <2>2, <2>13 DEF LockInv
    <3> QED
      BY <2>9, <2>11, <2>12, <2>13, <3>1, LockInvNext
<1>3. ASSUME NEW r \in Slots, NEW h \in Grants, NEW a \in AuthIds \cup {None}, Locks(r, h, a)
      PROVE  LockInv'
  <2> DEFINE t == [NoTask EXCEPT !.g = h, !.a = a]
  <2>1. /\ pc' = [pc EXCEPT ![r] = "waiting"] /\ task' = [task EXCEPT ![r] = t]
        /\ lockQ' = [lockQ EXCEPT ![h] = Append(lockQ[h], r)]
        /\ pc[r] \in {"idle", "lost", "failed"} /\ Call(r).op # "mint"
        /\ IF Asks(r) THEN h = Call(r).g ELSE a \in AuthIds
    BY <1>3 DEF Locks, Lock, Goto, MayArrive
  <2>2. t.g = h /\ t.a = a
    BY DEF NoTask
  <2> HIDE DEF t
  <2>3. \A g \in Grants : \A i \in DOMAIN lockQ[g] : lockQ[g][i] # r
    <3> SUFFICES ASSUME NEW g \in Grants, NEW i \in DOMAIN lockQ[g], lockQ[g][i] = r PROVE FALSE
      OBVIOUS
    <3>1. InLock(r)
      BY <1>0 DEF LockInv
    <3> QED
      BY <2>1, <3>1 DEF InLock
  <2>4. NoRepeat(lockQ[h]) /\ lockQ[h] \in Seq(Slots)
    BY <1>0 DEF LockInv, NoRepeat
  <2>5. /\ NoRepeat(Append(lockQ[h], r))
        /\ \A i \in DOMAIN Append(lockQ[h], r) :
             Append(lockQ[h], r)[i] = r \/ \E j \in DOMAIN lockQ[h] : Append(lockQ[h], r)[i] = lockQ[h][j]
        /\ Append(lockQ[h], r) # <<>>
        /\ lockQ[h] # <<>> => Head(Append(lockQ[h], r)) = Head(lockQ[h])
    BY <2>3, <2>4, QueueAppend
  <2>6. /\ lockQ'[h] = Append(lockQ[h], r)
        /\ \A g \in Grants : g # h => lockQ'[g] = lockQ[g]
    BY <1>0, <2>1
  <2>7. /\ \A q \in Slots : q # r => pc'[q] = pc[q] /\ task'[q] = task[q]
        /\ pc'[r] = "waiting" /\ task'[r] = t
    BY <1>0, <2>1
  <2>8. /\ \A q \in Slots : q # r => InLock(q)' = InLock(q) /\ Busy(q)' = Busy(q)
        /\ InLock(r)' /\ ~Busy(r)'
    BY <2>1, <2>7 DEF InLock, Busy, Call
  <2>9. \A g \in Grants : \A i, j \in DOMAIN lockQ'[g] : lockQ'[g][i] = lockQ'[g][j] => i = j
    BY <1>0, <2>5, <2>6 DEF LockInv, NoRepeat
  <2>10. \A g \in Grants : \A i \in DOMAIN lockQ'[g] :
           (g = h /\ lockQ'[g][i] = r) \/ \E j \in DOMAIN lockQ[g] : lockQ'[g][i] = lockQ[g][j]
    BY <2>5, <2>6
  <2>11. \A g \in Grants : \A i \in DOMAIN lockQ'[g] :
           \E q \in Slots : lockQ'[g][i] = q /\ InLock(q)' /\ task'[q].g = g
    <3> SUFFICES ASSUME NEW g \in Grants, NEW i \in DOMAIN lockQ'[g]
                 PROVE  \E q \in Slots : lockQ'[g][i] = q /\ InLock(q)' /\ task'[q].g = g
      OBVIOUS
    <3>1. CASE g = h /\ lockQ'[g][i] = r
      BY <2>2, <2>7, <2>8, <3>1
    <3>2. CASE \E j \in DOMAIN lockQ[g] : lockQ'[g][i] = lockQ[g][j]
      <4>1. PICK j \in DOMAIN lockQ[g] : lockQ'[g][i] = lockQ[g][j]
        BY <3>2
      <4>2. PICK q \in Slots : q = lockQ[g][j] /\ q # r
        BY <1>0, <2>3, <4>1
      <4>3. InLock(q) /\ task[q].g = g
        BY <1>0, <4>2 DEF LockInv
      <4>4. InLock(q)' /\ task'[q].g = g /\ lockQ'[g][i] = q
        BY <2>7, <2>8, <4>1, <4>2, <4>3
      <4> QED
        BY <4>2, <4>4
    <3> QED
      BY <2>10, <3>1, <3>2
  <2>12. \A q \in Slots : Busy(q)' => Holds(q)'
    <3> SUFFICES ASSUME NEW q \in Slots, Busy(q)' PROVE Holds(q)'
      OBVIOUS
    <3>1. q # r /\ Busy(q) /\ Holds(q) /\ InLock(q)
      BY <1>0, <2>8 DEF LockInv, Busy
    <3>2. task'[q] = task[q] /\ task[q].g \in Grants
      BY <1>0, <2>7, <3>1 DEF LockInv
    <3> QED
      BY <2>5, <2>6, <3>1, <3>2 DEF Holds
  <2>13. \A q \in Slots : q # r =>
           /\ pc'[q] \in {"sweeping", "deciding"} => Asks(q)
           /\ Call(q).op = "mint" => pc'[q] # "waiting" /\ task'[q].g = None
           /\ InLock(q)' => task'[q].g \in Grants
           /\ InLock(q)' /\ Asks(q) => task'[q].g = Call(q).g
           /\ InLock(q)' /\ ~Asks(q) => task'[q].a \in AuthIds
    BY <1>0, <2>7, <2>8 DEF LockInv
  <2>14. /\ pc'[r] \notin {"sweeping", "deciding"} /\ Call(r).op # "mint"
         /\ task'[r].g \in Grants /\ (Asks(r) => task'[r].g = Call(r).g)
         /\ ~Asks(r) => task'[r].a \in AuthIds
    BY <2>1, <2>2, <2>7
  <2> QED
    BY <2>9, <2>11, <2>12, <2>13, <2>14, LockInvNext
<1>4. ASSUME NEW n, NEW cut, Stops(n, cut) PROVE LockInv'
  <2>1. /\ pc' = [r \in Slots |-> IF InFlight(r) THEN "lost" ELSE pc[r]] /\ task' = task
        /\ lockQ' = [g \in Grants |-> <<>>]
    BY <1>4 DEF Stops, Forget
  <2>2. \A q \in Slots : pc'[q] \in {"idle", "answered", "refused", "failed", "lost"}
    BY <1>0, <2>1 DEF InFlight
  <2>3. \A g \in Grants : lockQ'[g] = <<>> /\ DOMAIN lockQ'[g] = {}
    BY <2>1
  <2>4. \A q \in Slots : Call(q).op = "mint" => task'[q].g = None
    BY <1>0, <2>1 DEF LockInv
  <2> QED
    BY <1>0, <2>2, <2>3, <2>4 DEF LockInv, Busy, InLock, Asks, Call
<1> QED
  BY <1>1, <1>2, <1>3, <1>4, LockSteps
LEMMA DownStep ==
  ASSUME Inv, Shape, client' = client
  PROVE  DownInv'
<1>0. DownInv /\ TypeInv /\ pc \in [Slots -> PCs] /\ Slots' = Slots
  BY Types DEF Inv, Slots
<1>1. \A r \in Slots : InLock(r) => InFlight(r)
  BY DEF InLock, InFlight
<1>2. ASSUME UNCHANGED <<up, queue, events, pending, pc, lockQ, idem>> PROVE DownInv'
  BY <1>0, <1>2 DEF DownInv, InFlight
<1>3. ASSUME UNCHANGED up, up PROVE DownInv'
  BY <1>3 DEF DownInv
<1>4. ASSUME NEW r \in Slots, Turned(r) PROVE DownInv'
  BY <1>3, <1>4 DEF Turned, MayArrive, Quiet, storeVars
<1>5. ASSUME NEW r \in Slots, Ends(r) \/ Enters(r) \/ FinishAuthorize(r) \/ FinishOther(r) PROVE DownInv'
  BY <1>0, <1>1, <1>3, <1>5 DEF Ends, Enters, FinishAuthorize, FinishOther, storeVars, DownInv
<1>6. ASSUME NEW r \in Slots, MintEnds(r) PROVE DownInv'
  <2>1. InFlight(r) /\ UNCHANGED up
    BY <1>6 DEF MintEnds, InFlight, storeVars
  <2> QED
    BY <1>0, <1>3, <2>1 DEF DownInv
<1>7. ASSUME NEW r \in Slots, NEW g \in Grants, NEW a \in AuthIds \cup {None}, Locks(r, g, a)
      PROVE  DownInv'
  BY <1>3, <1>7 DEF Locks, MayArrive, Quiet, storeVars
<1>8. ASSUME NEW r \in Slots, NEW l, NEW t, NEW records, Records(r, l, t, records) PROVE DownInv'
  BY <1>3, <1>8 DEF Records
<1>9. ASSUME Drain \/ \E n, cut : DrainFails(n, cut) PROVE DownInv'
  BY <1>3, <1>9 DEF Drain, DrainFails, Commit, CommitFails
<1>10. ASSUME NEW n, NEW cut, Stops(n, cut) PROVE DownInv'
  <2>1. /\ queue' = <<>> /\ events' = <<>> /\ pending' = {} /\ lockQ' = [g \in Grants |-> <<>>]
        /\ idem' = [g \in Grants |-> [k \in Keys |-> None]]
        /\ pc' = [r \in Slots |-> IF InFlight(r) THEN "lost" ELSE pc[r]]
    BY <1>10 DEF Stops, Halt, Forget
  <2>2. \A r \in Slots : pc'[r] \in {"idle", "answered", "refused", "failed", "lost"}
    BY <1>0, <2>1 DEF InFlight
  <2> QED
    BY <1>0, <2>1, <2>2 DEF DownInv, InFlight
<1>11. ASSUME Boot PROVE DownInv'
  BY <1>11 DEF Boot, Load, DownInv
<1>12. ASSUME Tick \/ UNCHANGED vars PROVE DownInv'
  BY <1>2, <1>12 DEF Tick, vars, serverVarsButPc, storeVars
<1> QED
  BY <1>4, <1>5, <1>6, <1>7, <1>8, <1>9, <1>10, <1>11, <1>12 DEF Shape

-----------------------------------------------------------------------------
(* The queue. *)

\* A step of r that queues nothing: no other request moves.
Moves(r) ==
  /\ \A q \in Slots \ {r} : pc'[q] = pc[q] /\ task'[q] = task[q]
  /\ UNCHANGED <<queue, events, file>>
  /\ pc'[r] \in {"refused", "answered", "failed", "waiting", "deciding"}
  /\ pc[r] \notin {"sweeping", "writing"}

LEMMA MoveSteps ==
  ASSUME Inv, NEW r \in Slots,
         \/ Turned(r) \/ Ends(r) \/ Enters(r) \/ MintEnds(r) \/ FinishAuthorize(r) \/ FinishOther(r)
         \/ \E g \in Grants, a \in AuthIds \cup {None} : Locks(r, g, a)
  PROVE  Moves(r)
<1>0. pc \in [Slots -> PCs] /\ task \in [Slots -> Task]
  BY Types DEF Inv
<1>1. CASE Turned(r)
  BY <1>0, <1>1 DEF Turned, MayArrive, Moves, Goto, storeVars
<1>2. CASE Ends(r) \/ FinishAuthorize(r) \/ FinishOther(r)
  BY <1>0, <1>2 DEF Ends, FinishAuthorize, FinishOther, Moves, Release, Goto, storeVars
<1>3. CASE Enters(r)
  BY <1>0, <1>3 DEF Enters, Moves, Goto, storeVars
<1>4. CASE MintEnds(r)
  BY <1>0, <1>4 DEF MintEnds, Moves, Goto, storeVars
<1>5. CASE \E g \in Grants, a \in AuthIds \cup {None} : Locks(r, g, a)
  BY <1>0, <1>5 DEF Locks, Lock, MayArrive, Moves, Goto, storeVars
<1> QED
  BY <1>1, <1>2, <1>3, <1>4, <1>5
\* e is a decision taken for r, whose task is t.
DecidesFor(r, t, e) ==
  /\ Call(r).op # "mint" /\ e.g = t.g
  /\ e.key = IF Asks(r) THEN Call(r).key ELSE None
  /\ Asks(r) => e.a = t.a /\ e.decision = t.decision

\* The invariant of a queue after a step, its batch then being b.
LEMMA BatchInvNext ==
  ASSUME client' = client, NEW b, b = batch',
         {queue'[i].by : i \in DOMAIN queue'} = {r \in Slots : pc'[r] \in {"sweeping", "writing"}},
         \A a \in AuthIds : Logged(b, "approval_request", a) <=>
           \E r \in Slots : /\ pc'[r] = "writing" /\ Asks(r)
                            /\ task'[r].decision = "ESCALATE" /\ task'[r].a = a,
         \A a \in AuthIds : Logged(b, "approval_decision", a) <=>
           \E r \in Slots : pc'[r] = "writing" /\ Resolves(r) /\ task'[r].a = a,
         \A i \in DOMAIN b : b[i].kind = "decision" =>
           \E r \in Slots : pc'[r] = "writing" /\ DecidesFor(r, task'[r], b[i]),
         \A r \in Slots : pc'[r] = "writing" /\ Asks(r) =>
           \E i \in decidedAt(b, task'[r].g, Call(r).key) : b[i].a = task'[r].a,
         DecidedOnce(b),
         \A i \in DOMAIN b : b[i].kind = "grant_meta" =>
           \E r \in Slots : pc'[r] = "writing" /\ Call(r).op = "mint" /\ Call(r).g = b[i].g
  PROVE  BatchInv'
<1>1. /\ Slots' = Slots /\ \A r \in Slots : Asks(r)' = Asks(r) /\ Resolves(r)' = Resolves(r)
      /\ \A r \in Slots : Call(r)' = Call(r)
  BY DEF Slots, Asks, Resolves, Call
<1>2. InBatch' = {r \in Slots : pc'[r] \in {"sweeping", "writing"}}
  BY DEF InBatch
<1>3. \A a \in AuthIds : Escalating("writing", a)' <=>
        \E r \in Slots : /\ pc'[r] = "writing" /\ Asks(r)
                         /\ task'[r].decision = "ESCALATE" /\ task'[r].a = a
  BY <1>1 DEF Escalating, Asks, Call
<1>4. \A a \in AuthIds : Resolving("writing", a)' <=>
        \E r \in Slots : pc'[r] = "writing" /\ Resolves(r) /\ task'[r].a = a
  BY <1>1 DEF Resolving, Resolves, Call
<1>5. \A a \in AuthIds : /\ Logged(batch, "approval_request", a)' <=> Logged(b, "approval_request", a)
                         /\ Logged(batch, "approval_decision", a)' <=> Logged(b, "approval_decision", a)
  BY DEF Logged
<1>6. \A i \in DOMAIN batch' : batch'[i].kind = "decision" =>
       \E r \in Slots : /\ pc'[r] = "writing" /\ InLock(r)' /\ batch'[i].g = task'[r].g
                        /\ batch'[i].key = IF Asks(r) THEN Call(r).key ELSE None
                        /\ Asks(r) => batch'[i].a = task'[r].a /\ batch'[i].decision = task'[r].decision
  BY <1>1 DEF InLock, Call, DecidesFor
<1>7. \A r \in Slots : pc'[r] = "writing" /\ Asks(r) =>
       \E i \in decidedAt(batch, task[r].g, Call(r).key)' : batch'[i].a = task'[r].a
  BY <1>1 DEF decidedAt, Call
<1>8. DecidedOnce(batch)'
  BY DEF DecidedOnce, decidedAt
<1> QED
  BY <1>1, <1>2, <1>3, <1>4, <1>5, <1>6, <1>7, <1>8 DEF BatchInv, Asks, Call

LEMMA BatchStays ==
  ASSUME Inv, client' = client, UNCHANGED queue,
         \A q \in Slots :
           /\ pc'[q] \in {"sweeping", "writing"} <=> pc[q] \in {"sweeping", "writing"}
           /\ pc[q] \in {"sweeping", "writing"} => pc'[q] = pc[q] /\ task'[q] = task[q]
  PROVE  BatchInv'
<1>1. BatchInv /\ batch' = batch
  BY BatchSame DEF Inv
<1> DEFINE b == batch
<1> HIDE DEF b
<1>2. b = batch' /\ b = batch
  BY <1>1 DEF b
<1>3. {queue'[i].by : i \in DOMAIN queue'} = {r \in Slots : pc'[r] \in {"sweeping", "writing"}}
  BY <1>1 DEF BatchInv, InBatch
<1>4. \A a \in AuthIds : Logged(b, "approval_request", a) <=>
           \E r \in Slots : /\ pc'[r] = "writing" /\ Asks(r)
                            /\ task'[r].decision = "ESCALATE" /\ task'[r].a = a
  BY <1>1, <1>2 DEF BatchInv, Escalating
<1>5. \A a \in AuthIds : Logged(b, "approval_decision", a) <=>
           \E r \in Slots : pc'[r] = "writing" /\ Resolves(r) /\ task'[r].a = a
  BY <1>1, <1>2 DEF BatchInv, Resolving
<1>6. \A i \in DOMAIN b : b[i].kind = "decision" =>
        \E r \in Slots : pc'[r] = "writing" /\ DecidesFor(r, task'[r], b[i])
  <2>1. \A i \in DOMAIN b : b[i].kind = "decision" =>
          \E r \in Slots : pc[r] = "writing" /\ DecidesFor(r, task[r], b[i])
    BY <1>1, <1>2 DEF BatchInv, InLock, DecidesFor
  <2>2. \A r \in Slots : pc[r] = "writing" => pc'[r] = "writing" /\ task'[r] = task[r]
    OBVIOUS
  <2> QED
    BY <2>1, <2>2
<1>7. \A r \in Slots : pc'[r] = "writing" /\ Asks(r) =>
        \E i \in decidedAt(b, task'[r].g, Call(r).key) : b[i].a = task'[r].a
  BY <1>1, <1>2 DEF BatchInv
<1>8. DecidedOnce(b)
  BY <1>1, <1>2 DEF BatchInv
<1>9. \A i \in DOMAIN b : b[i].kind = "grant_meta" =>
        \E r \in Slots : pc'[r] = "writing" /\ Call(r).op = "mint" /\ Call(r).g = b[i].g
  BY <1>1, <1>2 DEF BatchInv
<1> QED
  BY <1>2, <1>3, <1>4, <1>5, <1>6, <1>7, <1>8, <1>9, BatchInvNext

LEMMA BatchClears ==
  ASSUME client' = client, queue' = <<>>, \A q \in Slots : pc'[q] \notin {"sweeping", "writing"}
  PROVE  BatchInv'
<1> DEFINE b == <<>>
<1>1. b = batch' /\ DOMAIN b = {}
  BY BatchEmptyNext
<1> HIDE DEF b
<1>2. {queue'[i].by : i \in DOMAIN queue'} = {r \in Slots : pc'[r] \in {"sweeping", "writing"}}
  OBVIOUS
<1>3. \A a, kind : ~Logged(b, kind, a)
  BY <1>1 DEF Logged
<1>4. \A g, k : decidedAt(b, g, k) = {}
  BY <1>1 DEF decidedAt
<1>5. DecidedOnce(b)
  BY <1>4 DEF DecidedOnce
<1> QED
  BY <1>1, <1>2, <1>3, <1>5, BatchInvNext
LEMMA BatchGrows ==
  ASSUME Inv, client' = client, NEW r \in Slots, NEW l, NEW t, NEW records, Records(r, l, t, records)
  PROVE  BatchInv'
<1> DEFINE b == batch'
<1>0. /\ TypeInv /\ BatchInv /\ LockInv /\ pc \in [Slots -> PCs] /\ task \in [Slots -> Task]
      /\ batch \in Seq(Event) /\ queue \in Seq(Entry)
  BY Types DEF Inv
<1>1. /\ pc' = [pc EXCEPT ![r] = l] /\ task' = [task EXCEPT ![r] = t] /\ l \in {"sweeping", "writing"}
      /\ IF Call(r).op = "mint" THEN pc[r] = "idle"
         ELSE InLock(r) /\ Holds(r) /\ pc[r] \in {"waiting", "deciding"}
      /\ t.g = task[r].g /\ Enqueue(r, records) /\ records \in Seq(Event)
      /\ RecordsOf(r, l, t, records)
  BY DEF Records, Goto
<1>2. b = batch \o records
  BY <1>0, <1>1, BatchEnqueue
<1> HIDE DEF b
<1>3. /\ b \in Seq(Event)
      /\ \A i \in DOMAIN batch : i \in DOMAIN b /\ b[i] = batch[i]
      /\ \A j \in DOMAIN records : Len(batch) + j \in DOMAIN b /\ b[Len(batch) + j] = records[j]
      /\ \A i \in DOMAIN b : i \in DOMAIN batch \/ \E j \in DOMAIN records : i = Len(batch) + j
  BY <1>0, <1>1, <1>2, ConcatPlaces
<1>4. /\ pc'[r] = l /\ task'[r] = t /\ pc[r] \notin {"sweeping", "writing"}
      /\ \A q \in Slots : q # r => pc'[q] = pc[q] /\ task'[q] = task[q]
  BY <1>0, <1>1
<1>5. {queue'[i].by : i \in DOMAIN queue'} = {q \in Slots : pc'[q] \in {"sweeping", "writing"}}
  <2> DEFINE n == Len(queue) + 1
  <2>1. /\ DOMAIN queue' = DOMAIN queue \cup {n} /\ queue'[n].by = r
        /\ \A i \in DOMAIN queue : queue'[i] = queue[i]
    BY <1>0, <1>1 DEF Enqueue, Entry
  <2> HIDE DEF n
  <2>2. {queue'[i].by : i \in DOMAIN queue'} = InBatch \cup {r}
    BY <2>1 DEF InBatch
  <2> QED
    BY <1>0, <1>1, <1>4, <2>2 DEF BatchInv
<1>6. \A a \in AuthIds : Logged(b, "approval_request", a) <=>
           \E q \in Slots : /\ pc'[q] = "writing" /\ Asks(q)
                            /\ task'[q].decision = "ESCALATE" /\ task'[q].a = a
  <2> SUFFICES ASSUME NEW a \in AuthIds
               PROVE  Logged(b, "approval_request", a) <=>
                        \E q \in Slots : /\ pc'[q] = "writing" /\ Asks(q)
                                         /\ task'[q].decision = "ESCALATE" /\ task'[q].a = a
    OBVIOUS
  <2>1. Logged(b, "approval_request", a) <=>
          Logged(batch, "approval_request", a) \/ Logged(records, "approval_request", a)
    BY <1>0, <1>1, <1>2, LoggedConcat
  <2>2. Logged(records, "approval_request", a) <=>
          l = "writing" /\ Asks(r) /\ t.decision = "ESCALATE" /\ t.a = a
    BY <1>1 DEF RecordsOf
  <2>3. Logged(batch, "approval_request", a) <=> Escalating("writing", a)
    BY <1>0 DEF BatchInv
  <2> QED
    BY <1>4, <2>1, <2>2, <2>3 DEF Escalating
<1>7. \A a \in AuthIds : Logged(b, "approval_decision", a) <=>
           \E q \in Slots : pc'[q] = "writing" /\ Resolves(q) /\ task'[q].a = a
  <2> SUFFICES ASSUME NEW a \in AuthIds
               PROVE  Logged(b, "approval_decision", a) <=>
                        \E q \in Slots : pc'[q] = "writing" /\ Resolves(q) /\ task'[q].a = a
    OBVIOUS
  <2>1. Logged(b, "approval_decision", a) <=>
          Logged(batch, "approval_decision", a) \/ Logged(records, "approval_decision", a)
    BY <1>0, <1>1, <1>2, LoggedConcat
  <2>2. Logged(records, "approval_decision", a) <=> l = "writing" /\ Resolves(r) /\ t.a = a
    BY <1>1 DEF RecordsOf
  <2>3. Logged(batch, "approval_decision", a) <=> Resolving("writing", a)
    BY <1>0 DEF BatchInv
  <2> QED
    BY <1>4, <2>1, <2>2, <2>3 DEF Resolving
<1>8. \A i \in DOMAIN batch : batch[i].kind = "decision" =>
        \E q \in Slots : /\ q # r /\ pc[q] = "writing" /\ DecidesFor(q, task[q], batch[i])
                         /\ Holds(q) /\ batch[i].g = task[q].g
  <2>1. \A i \in DOMAIN batch : batch[i].kind = "decision" =>
          \E q \in Slots : pc[q] = "writing" /\ InLock(q) /\ DecidesFor(q, task[q], batch[i])
    BY <1>0 DEF BatchInv, InLock, DecidesFor
  <2>2. \A q \in Slots : pc[q] = "writing" /\ InLock(q) => q # r /\ Holds(q)
    BY <1>0, <1>4 DEF LockInv, Busy
  <2> QED
    BY <2>1, <2>2 DEF DecidesFor
<1>9. \A j \in DOMAIN records : records[j].kind = "decision" =>
        /\ l = "writing" /\ DecidesFor(r, t, records[j]) /\ Holds(r) /\ records[j].g = task[r].g
        /\ Asks(r) => records[j].a = t.a /\ records[j].key = Call(r).key
  <2>1. \A j \in DOMAIN records : records[j].kind = "decision" =>
          /\ l = "writing" /\ Call(r).op # "mint" /\ records[j].g = task[r].g
          /\ records[j].key = IF Asks(r) THEN Call(r).key ELSE None
          /\ (Asks(r) => records[j].a = t.a /\ records[j].decision = t.decision)
    BY <1>1 DEF RecordsOf
  <2> QED
    BY <1>1, <2>1 DEF DecidesFor
<1>10. \A i \in DOMAIN b : b[i].kind = "decision" =>
         \E q \in Slots : pc'[q] = "writing" /\ DecidesFor(q, task'[q], b[i])
  BY <1>3, <1>4, <1>8, <1>9
<1>11. \A q \in Slots : pc'[q] = "writing" /\ Asks(q) =>
         \E i \in decidedAt(b, task'[q].g, Call(q).key) : b[i].a = task'[q].a
  <2> SUFFICES ASSUME NEW q \in Slots, pc'[q] = "writing", Asks(q)
               PROVE  \E i \in decidedAt(b, task'[q].g, Call(q).key) : b[i].a = task'[q].a
    OBVIOUS
  <2>1. CASE q # r
    <3>1. PICK i \in decidedAt(batch, task[q].g, Call(q).key) : batch[i].a = task[q].a
      BY <1>0, <1>4, <2>1 DEF BatchInv
    <3> QED
      BY <1>3, <1>4, <2>1, <3>1 DEF decidedAt
  <2>2. CASE q = r
    <3>1. PICK j \in DOMAIN records : records[j].kind = "decision"
      BY <1>1, <1>4, <2>2 DEF RecordsOf
    <3>2. /\ records[j].g = task[r].g /\ records[j].a = t.a /\ records[j].key = Call(r).key
      BY <1>9, <2>2, <3>1
    <3>3. PICK i \in DOMAIN b : b[i] = records[j]
      BY <1>3
    <3>4. i \in decidedAt(b, task[r].g, Call(r).key)
      BY <3>1, <3>2, <3>3 DEF decidedAt
    <3>5. task'[r] = t /\ t.g = task[r].g
      BY <1>1, <1>4
    <3> QED
      BY <2>2, <3>2, <3>3, <3>4, <3>5
  <2> QED
    BY <2>1, <2>2
<1>12. DecidedOnce(b)
  <2> SUFFICES ASSUME NEW g \in Grants, NEW k \in Keys, NEW i \in decidedAt(b, g, k),
                      NEW j \in decidedAt(b, g, k)
               PROVE  i = j
    BY DEF DecidedOnce
  <2>1. /\ i \in DOMAIN b /\ j \in DOMAIN b /\ b[i].kind = "decision" /\ b[j].kind = "decision"
        /\ b[i].g = g /\ b[j].g = g /\ b[i].key = k /\ b[j].key = k
    BY DEF decidedAt
  <2>2. CASE i \in DOMAIN batch /\ j \in DOMAIN batch
    <3>1. i \in decidedAt(batch, g, k) /\ j \in decidedAt(batch, g, k)
      BY <1>3, <2>1, <2>2 DEF decidedAt
    <3> QED
      BY <1>0, <3>1 DEF BatchInv, DecidedOnce
  <2>3. \A m, n \in DOMAIN b : ~(/\ m \in DOMAIN batch /\ n \notin DOMAIN batch
                                 /\ b[m].kind = "decision" /\ b[n].kind = "decision"
                                 /\ b[m].g = g /\ b[n].g = g)
    <3> SUFFICES ASSUME NEW m \in DOMAIN b, NEW n \in DOMAIN b, m \in DOMAIN batch,
                        n \notin DOMAIN batch, b[m].kind = "decision", b[n].kind = "decision",
                        b[m].g = g, b[n].g = g
                 PROVE  FALSE
      OBVIOUS
    <3>1. PICK q \in Slots : q # r /\ Holds(q) /\ task[q].g = g
      BY <1>3, <1>8
    <3>2. PICK x \in DOMAIN records : n = Len(batch) + x
      BY <1>3
    <3>3. Holds(r) /\ task[r].g = g
      BY <1>3, <1>9, <3>2
    <3> QED
      BY <3>1, <3>3 DEF Holds
  <2>4. CASE i \notin DOMAIN batch /\ j \notin DOMAIN batch
    <3>1. PICK x \in DOMAIN records, y \in DOMAIN records : i = Len(batch) + x /\ j = Len(batch) + y
      BY <1>3, <2>1, <2>4
    <3>2. records[x].kind = "decision" /\ records[y].kind = "decision"
      BY <1>3, <2>1, <3>1
    <3>3. x = y
      BY <1>1, <3>2 DEF RecordsOf
    <3> QED
      BY <3>1, <3>3
  <2> QED
    BY <2>1, <2>2, <2>3, <2>4
<1>13. \A i \in DOMAIN b : b[i].kind = "grant_meta" =>
         \E q \in Slots : pc'[q] = "writing" /\ Call(q).op = "mint" /\ Call(q).g = b[i].g
  <2> SUFFICES ASSUME NEW i \in DOMAIN b, b[i].kind = "grant_meta"
               PROVE  \E q \in Slots : pc'[q] = "writing" /\ Call(q).op = "mint" /\ Call(q).g = b[i].g
    OBVIOUS
  <2>1. CASE i \in DOMAIN batch
    <3>1. b[i] = batch[i] /\ batch[i].kind = "grant_meta"
      BY <1>3, <2>1
    <3>2. PICK q \in Slots : pc[q] = "writing" /\ Call(q).op = "mint" /\ Call(q).g = batch[i].g
      BY <1>0, <2>1, <3>1 DEF BatchInv
    <3>3. q # r /\ pc'[q] = "writing"
      BY <1>4, <3>2
    <3> QED
      BY <3>1, <3>2, <3>3
  <2>2. CASE i \notin DOMAIN batch
    BY <1>1, <1>3, <1>4, <2>2 DEF RecordsOf
  <2> QED
    BY <2>1, <2>2
<1>14. b = batch'
  BY DEF b
<1> QED
  BY <1>5, <1>6, <1>7, <1>10, <1>11, <1>12, <1>13, <1>14, BatchInvNext

LEMMA BatchStep ==
  ASSUME Inv, Shape, client' = client
  PROVE  BatchInv'
<1>0. /\ pc \in [Slots -> PCs] /\ TypeInv
      /\ InBatch = {r \in Slots : pc[r] \in {"sweeping", "writing"}}
  BY Types DEF Inv, BatchInv
<1>1. ASSUME NEW r \in Slots,
         \/ Turned(r) \/ Ends(r) \/ Enters(r) \/ MintEnds(r) \/ FinishAuthorize(r) \/ FinishOther(r)
         \/ \E g \in Grants, a \in AuthIds \cup {None} : Locks(r, g, a)
      PROVE BatchInv'
  <2>1. Moves(r)
    BY <1>1, MoveSteps
  <2>2. \A q \in Slots :
          /\ pc'[q] \in {"sweeping", "writing"} <=> pc[q] \in {"sweeping", "writing"}
          /\ pc[q] \in {"sweeping", "writing"} => pc'[q] = pc[q] /\ task'[q] = task[q]
    BY <2>1 DEF Moves
  <2> QED
    BY <2>1, <2>2, BatchStays DEF Moves
<1>2. ASSUME NEW r \in Slots, NEW l, NEW t, NEW records, Records(r, l, t, records) PROVE BatchInv'
  BY <1>2, BatchGrows
<1>3. ASSUME Drain \/ \E n, cut : DrainFails(n, cut) \/ Stops(n, cut) PROVE BatchInv'
  <2>1. queue' = <<>>
    BY <1>3 DEF Drain, Commit, DrainFails, CommitFails, Stops, Halt
  <2>2. \A q \in Slots : pc'[q] \notin {"sweeping", "writing"}
    BY <1>0, <1>3 DEF Drain, DrainFails, Stops, Forget, InFlight
  <2> QED
    BY <2>1, <2>2, BatchClears
<1>4. ASSUME Boot \/ Tick \/ UNCHANGED vars PROVE BatchInv'
  <2>1. UNCHANGED <<queue, pc, task>>
    BY <1>4 DEF Boot, Load, Tick, vars, serverVarsButPc, storeVars
  <2> QED
    BY <2>1, BatchStays
<1> QED
  BY <1>1, <1>2, <1>3, <1>4 DEF Shape
-----------------------------------------------------------------------------
(* The log. *)

\* What a step does to the log and to the file.
LEMMA LogSteps ==
  ASSUME Inv, Shape
  PROVE  \/ UNCHANGED <<events, file>>
         \/ Drain /\ events' = events \o batch /\ Extends(file', file, batch)
         \/ \E n, cut : DrainFails(n, cut) /\ UNCHANGED events /\ Extends(file', file, batch)
         \/ \E n, cut : Stops(n, cut) /\ events' = <<>> /\ Extends(file', file, batch)
         \/ Boot /\ ~up /\ events' = load(file) /\ UNCHANGED file
<1>0. /\ file \in Seq(LineType) /\ unended \in BOOLEAN /\ (unended => file # <<>>)
      /\ batch \in Seq(Event) /\ batch \in Seq(LineType)
  <2>1. Event \subseteq LineType
    BY DEF LineType
  <2> QED
    BY <2>1, Types DEF Inv
<1>1. ASSUME NEW r \in Slots,
         \/ Turned(r) \/ Ends(r) \/ Enters(r) \/ MintEnds(r) \/ FinishAuthorize(r) \/ FinishOther(r)
         \/ \E g \in Grants, a \in AuthIds \cup {None} : Locks(r, g, a)
      PROVE  UNCHANGED <<events, file>>
  BY <1>1, MoveSteps DEF Moves
<1>2. ASSUME NEW r \in Slots, NEW l, NEW t, NEW records, Records(r, l, t, records)
      PROVE  UNCHANGED <<events, file>>
  BY <1>2 DEF Records
<1>3. ASSUME Drain PROVE events' = events \o batch /\ Extends(file', file, batch)
  <2>1. file' = written(batch) /\ events' = events \o batch
    BY <1>3 DEF Drain, Commit
  <2>2. Extends(written(batch), file, batch)
    BY <1>0, WrittenLines
  <2> QED
    BY <2>1, <2>2
<1>4. ASSUME NEW n, NEW cut, Leaves(n, cut) PROVE Extends(file', file, batch)
  BY <1>0, <1>4, LeavesLines
<1>5. ASSUME NEW n, NEW cut, DrainFails(n, cut) PROVE UNCHANGED events /\ Extends(file', file, batch)
  BY <1>4, <1>5 DEF DrainFails, CommitFails
<1>6. ASSUME NEW n, NEW cut, Stops(n, cut) PROVE events' = <<>> /\ Extends(file', file, batch)
  BY <1>4, <1>6 DEF Stops, Halt
<1>7. ASSUME Boot PROVE ~up /\ events' = load(file) /\ UNCHANGED file
  BY <1>7 DEF Boot, Load
<1>8. ASSUME Tick \/ UNCHANGED vars PROVE UNCHANGED <<events, file>>
  BY <1>8 DEF Tick, vars, storeVars
<1> QED
  BY <1>1, <1>2, <1>3, <1>5, <1>6, <1>7, <1>8 DEF Shape

\* A request that is minting was about to, or was minting before.
LEMMA MintSteps ==
  ASSUME Inv, Shape, client' = client, NEW q \in Slots, Call(q).op = "mint", pc'[q] \in {"idle", "writing"}
  PROVE  /\ pc[q] \in {"idle", "writing"}
         /\ Drain \/ (\E n, cut : DrainFails(n, cut) \/ Stops(n, cut)) => pc[q] = "idle"
<1>0. /\ pc \in [Slots -> PCs] /\ InBatch = {r \in Slots : pc[r] \in {"sweeping", "writing"}}
  BY Types DEF Inv, BatchInv
<1>1. ASSUME NEW r \in Slots,
         \/ Turned(r) \/ Ends(r) \/ Enters(r) \/ MintEnds(r) \/ FinishAuthorize(r) \/ FinishOther(r)
         \/ \E g \in Grants, a \in AuthIds \cup {None} : Locks(r, g, a)
      PROVE  pc[q] \in {"idle", "writing"}
  BY <1>1, MoveSteps DEF Moves
<1>2. ASSUME NEW r \in Slots, NEW l, NEW t, NEW records, Records(r, l, t, records)
      PROVE  pc[q] \in {"idle", "writing"}
  BY <1>0, <1>2 DEF Records, Goto
<1>3. ASSUME Drain \/ \E n, cut : DrainFails(n, cut) \/ Stops(n, cut)
      PROVE  pc[q] = "idle"
  BY <1>0, <1>3 DEF Drain, DrainFails, Stops, Forget, InFlight
<1>4. ASSUME Boot \/ Tick \/ UNCHANGED vars PROVE pc[q] \in {"idle", "writing"}
  BY <1>4 DEF Boot, Tick, vars
<1> QED
  BY <1>1, <1>2, <1>3, <1>4 DEF Shape

LEMMA MintStep ==
  ASSUME Inv, Shape, client' = client
  PROVE  MintInv'
<1>0. /\ TypeInv /\ MintInv /\ BatchInv /\ client \in Clients
      /\ file \in Seq(LineType) /\ events \in Seq(Event) /\ batch \in Seq(Event)
  BY Types DEF Inv
<1>1. ASSUME NEW q \in Slots, Call(q).op = "mint", pc[q] = "idle", NEW i \in DOMAIN batch
      PROVE  Untouched(batch[i], Call(q).g)
  <2>1. ASSUME batch[i].kind = "decision", batch[i].g = Call(q).g PROVE FALSE
    <3>1. PICK r \in Slots : InLock(r) /\ batch[i].g = task[r].g
      BY <1>0, <2>1 DEF BatchInv
    <3>2. Known(events, Call(q).g)
      BY <1>0, <2>1, <3>1 DEF MintInv
    <3> QED
      BY <1>0, <1>1, <3>2 DEF Known, MintInv, Untouched
  <2>2. ASSUME batch[i].kind = "grant_meta", batch[i].g = Call(q).g PROVE FALSE
    <3>1. PICK r \in Slots : pc[r] = "writing" /\ Call(r).op = "mint" /\ Call(r).g = batch[i].g
      BY <1>0, <2>2 DEF BatchInv
    <3>2. r = q
      BY <1>0, <1>1, <2>2, <3>1, MintsDiffer
    <3> QED
      BY <1>1, <3>1, <3>2
  <2> QED
    BY <2>1, <2>2 DEF Untouched
<1>2. ASSUME NEW q \in Slots, Call(q).op = "mint", pc'[q] \in {"idle", "writing"}
      PROVE  /\ \A i \in DOMAIN events' : Untouched(events'[i], Call(q).g)
             /\ \A i \in DOMAIN file' : file'[i] # Garbage => Untouched(file'[i], Call(q).g)
  <2>1. /\ pc[q] \in {"idle", "writing"}
        /\ Drain \/ (\E n, cut : DrainFails(n, cut) \/ Stops(n, cut)) => pc[q] = "idle"
    BY <1>2, MintSteps
  <2>2. /\ \A i \in DOMAIN events : Untouched(events[i], Call(q).g)
        /\ \A i \in DOMAIN file : file[i] # Garbage => Untouched(file[i], Call(q).g)
    BY <1>0, <1>2, <2>1 DEF MintInv
  <2>3. ASSUME Extends(file', file, batch), pc[q] = "idle"
        PROVE  \A i \in DOMAIN file' : file'[i] # Garbage => Untouched(file'[i], Call(q).g)
    BY <1>1, <1>2, <2>2, <2>3 DEF Extends
  <2>4. CASE UNCHANGED <<events, file>>
    BY <2>2, <2>4
  <2>5. CASE Drain /\ events' = events \o batch /\ Extends(file', file, batch)
    <3>1. \A i \in DOMAIN (events \o batch) : Untouched((events \o batch)[i], Call(q).g)
      BY <1>0, <1>1, <1>2, <2>1, <2>2, <2>5, ConcatPlaces
    <3> QED
      BY <2>1, <2>3, <2>5, <3>1
  <2>6. CASE \E n, cut : DrainFails(n, cut) /\ UNCHANGED events /\ Extends(file', file, batch)
    BY <2>1, <2>2, <2>3, <2>6
  <2>7. CASE \E n, cut : Stops(n, cut) /\ events' = <<>> /\ Extends(file', file, batch)
    BY <2>1, <2>3, <2>7
  <2>8. CASE Boot /\ ~up /\ events' = load(file) /\ UNCHANGED file
    <3>1. load(file) \in Seq(Event) /\ Skims(file, load(file))
      BY <1>0, LoadLines
    <3>2. \A i \in DOMAIN load(file) : load(file)[i] \in Event /\ load(file)[i] # Garbage
      BY <3>1, ServerAssumption
    <3>3. \A i \in DOMAIN load(file) : Untouched(load(file)[i], Call(q).g)
      BY <2>2, <3>1, <3>2 DEF Skims
    <3> QED
      BY <2>2, <2>8, <3>3
  <2> QED
    BY <2>4, <2>5, <2>6, <2>7, <2>8, LogSteps
<1>3. ASSUME NEW q \in Slots, InLock(q)' PROVE Known(events', task'[q].g)
  <2>1. DownInv' /\ DownInv
    BY DownStep DEF Inv
  <2>2. InFlight(q)' /\ up'
    BY <1>3, <2>1 DEF DownInv, InFlight, InLock, Slots
  <2>3. CASE \E r \in Slots, g \in Grants, a \in AuthIds \cup {None} : r = q /\ Locks(r, g, a)
    <3>1. PICK g \in Grants, a \in AuthIds \cup {None} : Locks(q, g, a)
      BY <2>3
    <3>2. task'[q].g = g /\ events' = events
      BY <1>0, <3>1, Types DEF Locks, Lock, NoTask, storeVars
    <3> QED
      BY <3>1, <3>2 DEF Locks
  <2>4. CASE ~\E r \in Slots, g \in Grants, a \in AuthIds \cup {None} : r = q /\ Locks(r, g, a)
    <3>1. InLock(q) /\ task'[q].g = task[q].g
      <4>1. CASE Stays
        BY <1>3, <4>1 DEF Stays
      <4>2. ASSUME NEW r \in Slots, Goes(r) PROVE InLock(q) /\ task'[q].g = task[q].g
        BY <1>0, <1>3, <4>2, Types DEF Goes, Release, Goto, InLock, Call
      <4>3. ASSUME NEW r \in Slots, NEW g \in Grants, NEW a \in AuthIds \cup {None}, Locks(r, g, a)
            PROVE  InLock(q) /\ task'[q].g = task[q].g
        BY <1>0, <1>3, <2>4, <4>3, Types DEF Locks, Lock, Goto, InLock, Call
      <4>4. ASSUME NEW n, NEW cut, Stops(n, cut) PROVE FALSE
        BY <2>2, <4>4 DEF Stops, Halt
      <4> QED
        BY <4>1, <4>2, <4>3, <4>4, LockSteps
    <3>2. Known(events, task[q].g) /\ InFlight(q)
      BY <1>0, <3>1 DEF MintInv, InLock, InFlight
    <3>3. up
      BY <2>1, <3>2 DEF DownInv
    <3>4. events' = events \/ events' = events \o batch
      BY <2>2, <3>3, LogSteps DEF Stops, Halt
    <3> QED
      BY <1>0, <3>1, <3>2, <3>4, KnownConcat
  <2> QED
    BY <2>3, <2>4
<1> QED
  BY <1>2, <1>3 DEF MintInv, Slots, Call, Untouched, Known
\* Who is in the critical section of a grant is alone there.
LEMMA OneHolder ==
  ASSUME LockInv, NEW q \in Slots, NEW r \in Slots, Busy(q), Busy(r), task[q].g = task[r].g
  PROVE  q = r
BY DEF LockInv, Holds

\* An id of a record is not fresh.
LEMMA FreshUnused ==
  ASSUME TypeInv, NEW a \in Fresh
  PROVE  /\ a \in AuthIds
         /\ \A i \in DOMAIN events : events[i].a # a
         /\ \A i \in DOMAIN batch : batch[i].a # a
         /\ \A i \in DOMAIN file : file[i] # Garbage => file[i].a # a
BY DEF Fresh, Used

LEMMA FreshStep ==
  ASSUME Inv, Shape, client' = client
  PROVE  FreshInv'
<1>0. /\ TypeInv /\ FreshInv /\ BatchInv /\ DownInv /\ events \in Seq(Event) /\ batch \in Seq(Event)
      /\ pc \in [Slots -> PCs] /\ task \in [Slots -> Task]
      /\ InBatch = {r \in Slots : pc[r] \in {"sweeping", "writing"}}
  BY Types DEF Inv, BatchInv
<1>1. ASSUME NEW r \in Slots,
         \/ Turned(r) \/ Ends(r) \/ Enters(r) \/ MintEnds(r) \/ FinishAuthorize(r) \/ FinishOther(r)
         \/ \E g \in Grants, a \in AuthIds \cup {None} : Locks(r, g, a)
      PROVE FreshInv'
  <2>1. Moves(r)
    BY <1>1, MoveSteps
  <2>2. events' = events
    BY <2>1 DEF Moves
  <2>3. \A q \in Slots : pc'[q] \in {"writing", "written"} => pc'[q] = pc[q] /\ task'[q] = task[q]
    BY <2>1 DEF Moves
  <2> QED
    BY <1>0, <2>2, <2>3 DEF FreshInv, Slots, Asks, Call, Logged
<1>2. ASSUME NEW r \in Slots, NEW l, NEW t, NEW records, Records(r, l, t, records) PROVE FreshInv'
  <2>1. /\ pc' = [pc EXCEPT ![r] = l] /\ task' = [task EXCEPT ![r] = t] /\ events' = events
        /\ l \in {"sweeping", "writing"} /\ (Asks(r) /\ l = "writing" => t.a \in Fresh)
    BY <1>2 DEF Records, Goto
  <2>2. /\ \A q \in Slots : q # r => pc'[q] = pc[q] /\ task'[q] = task[q]
        /\ pc'[r] = l /\ task'[r] = t
    BY <1>0, <2>1
  <2>3. ASSUME Asks(r), l = "writing"
        PROVE  /\ t.a \in AuthIds
               /\ ~Logged(events, "approval_request", t.a) /\ ~Logged(events, "approval_decision", t.a)
               /\ \A q \in Slots : q # r /\ Asks(q) /\ pc[q] \in {"writing", "written"} => task[q].a # t.a
    <3>1. /\ t.a \in AuthIds
          /\ \A i \in DOMAIN events : events[i].a # t.a
          /\ \A i \in DOMAIN batch : batch[i].a # t.a
      BY <1>0, <2>1, <2>3, FreshUnused
    <3>2. \A q \in Slots : Asks(q) /\ pc[q] = "writing" => \E i \in DOMAIN batch : batch[i].a = task[q].a
      BY <1>0 DEF BatchInv, decidedAt
    <3>3. \A q \in Slots : Asks(q) /\ pc[q] = "written" => \E i \in DOMAIN events : events[i].a = task[q].a
      BY <1>0 DEF FreshInv, Logged
    <3> QED
      BY <3>1, <3>2, <3>3 DEF Logged
  <2> QED
    BY <1>0, <2>1, <2>2, <2>3 DEF FreshInv, Slots, Asks, Call, Logged
<1>3. ASSUME Drain PROVE FreshInv'
  <2>1. /\ events' = events \o batch /\ task' = task
        /\ \A q \in Slots : pc'[q] \in {"writing", "written"} => pc[q] = "writing" /\ pc'[q] = "written"
    BY <1>0, <1>3 DEF Drain, Commit, serverVarsButPc, Quiet, Ready
  <2>2. \A q \in Slots : Asks(q) /\ pc[q] = "writing" => Logged(events \o batch, "decision", task[q].a)
    <3> SUFFICES ASSUME NEW q \in Slots, Asks(q), pc[q] = "writing"
                 PROVE  Logged(events \o batch, "decision", task[q].a)
      OBVIOUS
    <3>1. Logged(batch, "decision", task[q].a)
      BY <1>0 DEF BatchInv, decidedAt, Logged
    <3> QED
      BY <1>0, <3>1, LoggedConcat
  <2>3. \A q \in Slots : Asks(q) /\ pc[q] = "writing" => Logged(events', "decision", task'[q].a)
    BY <2>1, <2>2
  <2>4. \A q \in Slots : Asks(q) /\ pc'[q] \in {"writing", "written"} =>
          /\ pc[q] = "writing" /\ pc'[q] # "writing" /\ task'[q].a \in AuthIds
          /\ \A r \in Slots \ {q} : Asks(r) /\ pc[r] = "writing" => task'[r].a # task'[q].a
    BY <1>0, <2>1 DEF FreshInv
  <2>5. \A q \in Slots : Asks(q) /\ pc'[q] \in {"writing", "written"} =>
          /\ pc'[q] # "writing" /\ task'[q].a \in AuthIds /\ Logged(events', "decision", task'[q].a)
          /\ \A r \in Slots \ {q} : Asks(r) /\ pc'[r] \in {"writing", "written"} => task'[r].a # task'[q].a
    BY <2>1, <2>3, <2>4
  <2> QED
    BY <2>5 DEF FreshInv, Slots, Asks, Call, Logged
<1>4. ASSUME NEW n, NEW cut, DrainFails(n, cut) PROVE FreshInv'
  <2>1. /\ events' = events /\ task' = task
        /\ \A q \in Slots : pc'[q] \in {"writing", "written"} => pc'[q] = pc[q]
    BY <1>0, <1>4 DEF DrainFails, CommitFails
  <2> QED
    BY <1>0, <2>1 DEF FreshInv, Slots, Asks, Call, Logged
<1>5. ASSUME NEW n, NEW cut, Stops(n, cut) PROVE FreshInv'
  <2>1. \A q \in Slots : pc'[q] \notin {"writing", "written"}
    BY <1>0, <1>5 DEF Stops, Forget, InFlight
  <2> QED
    BY <2>1 DEF FreshInv, Slots, Asks, Call
<1>6. ASSUME Boot PROVE FreshInv'
  <2>1. \A q \in Slots : pc'[q] \notin {"writing", "written"}
    BY <1>0, <1>6 DEF Boot, Load, DownInv, InFlight
  <2> QED
    BY <2>1 DEF FreshInv, Slots, Asks, Call
<1>7. ASSUME Tick \/ UNCHANGED vars PROVE FreshInv'
  <2>1. UNCHANGED <<events, pc, task>>
    BY <1>7 DEF Tick, vars, storeVars, serverVarsButPc
  <2> QED
    BY <1>0, <2>1 DEF FreshInv, Slots, Asks, Call, Logged
<1> QED
  BY <1>1, <1>2, <1>3, <1>4, <1>5, <1>6, <1>7 DEF Shape
-----------------------------------------------------------------------------
(* The pending map. *)

\* A request that holds the lock to resolve an escalation is alone with it.
LEMMA OneResolver ==
  ASSUME LockInv, PendingInv, NEW q \in Slots, NEW r \in Slots, Busy(q), Busy(r),
         Resolves(q), Resolves(r), task[q].a = task[r].a
  PROVE  q = r
BY OneHolder DEF PendingInv, Busy

\* The invariant after a step, pending then being p and the log es.
LEMMA PendingInvNext ==
  ASSUME client' = client, NEW p, p = pending',
         \A a \in AuthIds : a \in p <=>
           \/ /\ a \in pendingOf(events')
              /\ ~\E r \in Slots : /\ pc'[r] = "written" /\ Asks(r)
                                   /\ task'[r].decision = "ESCALATE" /\ task'[r].a = a
           \/ \E r \in Slots : pc'[r] = "written" /\ Resolves(r) /\ task'[r].a = a,
         \A r \in Slots : pc'[r] = "written" /\ Resolves(r) => task'[r].a \notin pendingOf(events'),
         \A r \in Slots : pc'[r] = "written" /\ Asks(r) /\ task'[r].decision = "ESCALATE" =>
           task'[r].a \in pendingOf(events'),
         \A r \in Slots : InLock(r)' /\ Resolves(r) =>
           Logged(events', "approval_request", task'[r].a) /\ task'[r].g = requestOf(events', task'[r].a).g,
         \A r \in Slots : pc'[r] = "writing" /\ Resolves(r) => task'[r].a \in p
  PROVE  PendingInv'
<1>1. \A a : (a \in pendingOf(events))' <=> a \in pendingOf(events')
  BY DEF pendingOf
<1>2. \A a \in AuthIds : Escalating("written", a)' <=>
        \E r \in Slots : /\ pc'[r] = "written" /\ Asks(r)
                         /\ task'[r].decision = "ESCALATE" /\ task'[r].a = a
  BY DEF Escalating, Asks, Call, Slots
<1>3. \A a \in AuthIds : Resolving("written", a)' <=>
        \E r \in Slots : pc'[r] = "written" /\ Resolves(r) /\ task'[r].a = a
  BY DEF Resolving, Resolves, Call, Slots
<1>4. \A r \in Slots : (InLock(r) /\ Resolves(r))' =>
        (Logged(events, "approval_request", task[r].a) /\ task[r].g = requestOf(events, task[r].a).g)'
  <2>1. \A a : (requestOf(events, a))' = requestOf(events', a)
    BY DEF requestOf, lastAt
  <2>2. \A a : (Logged(events, "approval_request", a))' <=> Logged(events', "approval_request", a)
    BY DEF Logged
  <2> QED
    BY <2>1, <2>2 DEF Resolves, Call
<1>5. \A r \in Slots : (pc[r] = "writing" /\ Resolves(r))' => (task[r].a \in pending)'
  BY DEF Resolves, Call
<1>6. Slots' = Slots
  BY DEF Slots
<1> QED
  BY <1>1, <1>2, <1>3, <1>4, <1>5, <1>6 DEF PendingInv

\* A step that leaves the map, the log and the written requests alone.
LEMMA PendingStays ==
  ASSUME Inv, client' = client, UNCHANGED <<events, pending>>,
         \A q \in Slots :
           /\ Asks(q) \/ Resolves(q) => (pc'[q] = "written" <=> pc[q] = "written")
           /\ pc[q] = "written" => task'[q] = task[q]
           /\ InLock(q)' /\ Resolves(q) =>
                \/ InLock(q) /\ task'[q].a = task[q].a /\ task'[q].g = task[q].g
                \/ task'[q].a \in pending /\ task'[q].g = requestOf(events, task'[q].a).g
           /\ pc'[q] = "writing" /\ Resolves(q) => task'[q].a \in pending
  PROVE  PendingInv'
<1>0. PendingInv /\ LockInv /\ pending \subseteq AuthIds
  BY Types DEF Inv
<1> DEFINE p == pending
<1>1. p = pending' /\ events' = events
  OBVIOUS
<1>2. \A q \in Slots : Asks(q) \/ Resolves(q) => (pc'[q] = "written" <=> pc[q] = "written")
  OBVIOUS
<1>3. \A q \in Slots : pc[q] = "written" => task'[q] = task[q]
  OBVIOUS
<1>4. \A a \in AuthIds : a \in p <=>
           \/ /\ a \in pendingOf(events')
              /\ ~\E r \in Slots : /\ pc'[r] = "written" /\ Asks(r)
                                   /\ task'[r].decision = "ESCALATE" /\ task'[r].a = a
           \/ \E r \in Slots : pc'[r] = "written" /\ Resolves(r) /\ task'[r].a = a
  BY <1>0, <1>2, <1>3 DEF PendingInv, Escalating, Resolving
<1>5. \A r \in Slots : pc'[r] = "written" /\ Resolves(r) => task'[r].a \notin pendingOf(events')
  BY <1>0, <1>2, <1>3 DEF PendingInv, Resolving, LockInv, pendingOf
<1>6. \A r \in Slots : pc'[r] = "written" /\ Asks(r) /\ task'[r].decision = "ESCALATE" =>
           task'[r].a \in pendingOf(events')
  <2> SUFFICES ASSUME NEW r \in Slots, pc[r] = "written", Asks(r), task[r].decision = "ESCALATE"
               PROVE  task[r].a \in pendingOf(events')
    BY <1>2, <1>3
  <2>1. task[r].a \in AuthIds
    BY DEF Inv, FreshInv
  <2> QED
    BY <1>0, <2>1 DEF PendingInv, Escalating
<1>7. \A a \in AuthIds : a \in pending => Logged(events, "approval_request", a)
  <2> SUFFICES ASSUME NEW a \in AuthIds, a \in pending PROVE Logged(events, "approval_request", a)
    OBVIOUS
  <2>1. CASE a \in pendingOf(events)
    BY <2>1, PendingIs
  <2>2. CASE Resolving("written", a)
    <3>1. PICK r \in Slots : pc[r] = "written" /\ Resolves(r) /\ task[r].a = a
      BY <2>2 DEF Resolving
    <3>2. InLock(r)
      BY <3>1 DEF InLock, Resolves
    <3> QED
      BY <1>0, <3>1, <3>2 DEF PendingInv
  <2> QED
    BY <1>0, <2>1, <2>2 DEF PendingInv
<1>8. \A r \in Slots : InLock(r)' /\ Resolves(r) =>
           Logged(events', "approval_request", task'[r].a) /\ task'[r].g = requestOf(events', task'[r].a).g
  <2> SUFFICES ASSUME NEW r \in Slots, InLock(r)', Resolves(r)
               PROVE  Logged(events', "approval_request", task'[r].a)
                      /\ task'[r].g = requestOf(events', task'[r].a).g
    OBVIOUS
  <2>1. CASE InLock(r) /\ task'[r].a = task[r].a /\ task'[r].g = task[r].g
    BY <1>0, <2>1 DEF PendingInv
  <2>2. CASE task'[r].a \in pending /\ task'[r].g = requestOf(events, task'[r].a).g
    BY <1>0, <1>7, <2>2
  <2> QED
    BY <2>1, <2>2
<1>9. \A r \in Slots : pc'[r] = "writing" /\ Resolves(r) => task'[r].a \in p
  OBVIOUS
<1> HIDE DEF p
<1> QED
  BY <1>1, <1>4, <1>5, <1>6, <1>8, <1>9, PendingInvNext
\* The log that has taken in the batch of a drain.
LEMMA DrainLog ==
  ASSUME Inv, Drain
  PROVE  /\ events' = events \o batch /\ UNCHANGED <<task, lockQ, idem, pending, told, up>> /\ up
         /\ \A q \in Slots : pc[q] \notin {"written", "deciding", "rejected"}
         /\ \A q \in Slots :
              pc'[q] = IF pc[q] = "writing" THEN "written"
                       ELSE IF pc[q] = "sweeping" THEN "deciding" ELSE pc[q]
<1>1. /\ pc \in [Slots -> PCs]
      /\ InBatch = {r \in Slots : pc[r] \in {"sweeping", "writing"}}
  BY Types DEF Inv, BatchInv
<1>2. \A q \in Slots : pc[q] \notin {"written", "deciding", "rejected"}
  BY DEF Drain, Quiet, Ready
<1> QED
  BY <1>1, <1>2 DEF Drain, Commit, Quiet, serverVarsButPc

LEMMA PendingDrain ==
  ASSUME Inv, client' = client, Drain
  PROVE  PendingInv'
<1>0. /\ TypeInv /\ PendingInv /\ BatchInv /\ FreshInv
      /\ events \in Seq(Event) /\ batch \in Seq(Event) /\ pending \subseteq AuthIds
      /\ task \in [Slots -> Task]
  BY Types DEF Inv
<1>1. /\ events' = events \o batch /\ task' = task /\ pending' = pending
      /\ \A q \in Slots : pc[q] # "written"
      /\ \A q \in Slots : pc'[q] = IF pc[q] = "writing" THEN "written"
                                   ELSE IF pc[q] = "sweeping" THEN "deciding" ELSE pc[q]
  BY DrainLog
<1>2. \A q \in Slots : (pc'[q] = "written" <=> pc[q] = "writing") /\ pc'[q] # "writing"
  BY <1>1
<1> DEFINE Asked(a) == Logged(events, "approval_request", a)
           Closes(a) == Logged(events, "approval_decision", a)
           Asking(a) == Logged(batch, "approval_request", a)
           Closing(a) == Logged(batch, "approval_decision", a)
<1>3. \A a \in AuthIds : a \in pendingOf(events \o batch) <=>
                           (Asked(a) \/ Asking(a)) /\ ~Closes(a) /\ ~Closing(a)
  BY <1>0, PendingConcat
<1>4. \A a \in AuthIds : a \in pending <=> Asked(a) /\ ~Closes(a)
  BY <1>0, <1>1, PendingIs DEF PendingInv, Escalating, Resolving
<1>5. \A a \in AuthIds : /\ Asking(a) <=> Escalating("writing", a)
                         /\ Closing(a) <=> Resolving("writing", a)
  BY <1>0 DEF BatchInv
<1>6. \A a \in AuthIds : Asking(a) => ~Asked(a) /\ ~Closes(a)
  BY <1>0, <1>5 DEF Escalating, FreshInv
<1>7. \A a \in AuthIds : Closing(a) => a \in pending
  BY <1>0, <1>5 DEF Resolving, PendingInv
<1>8. \A a \in AuthIds : Escalating("writing", a) <=>
        \E r \in Slots : pc'[r] = "written" /\ Asks(r) /\ task'[r].decision = "ESCALATE" /\ task'[r].a = a
  BY <1>1, <1>2 DEF Escalating
<1>9. \A a \in AuthIds : Resolving("writing", a) <=>
        \E r \in Slots : pc'[r] = "written" /\ Resolves(r) /\ task'[r].a = a
  BY <1>1, <1>2 DEF Resolving
<1>10. \A r \in Slots : pc[r] = "writing" /\ (Asks(r) \/ Resolves(r)) => task[r].a \in AuthIds
  BY <1>0 DEF FreshInv, Inv, LockInv, InLock, Asks, Resolves
<1>11. \A r \in Slots : InLock(r)' /\ Resolves(r) =>
         /\ Logged(events \o batch, "approval_request", task[r].a)
         /\ task[r].g = requestOf(events \o batch, task[r].a).g
  <2> SUFFICES ASSUME NEW r \in Slots, InLock(r)', Resolves(r)
               PROVE  /\ Logged(events \o batch, "approval_request", task[r].a)
                      /\ task[r].g = requestOf(events \o batch, task[r].a).g
    OBVIOUS
  <2>1. InLock(r)
    BY <1>1 DEF InLock, Call
  <2>2. Asked(task[r].a) /\ task[r].g = requestOf(events, task[r].a).g /\ task[r].a \in AuthIds
    BY <1>0, <2>1 DEF PendingInv, Inv, LockInv, Asks, Resolves
  <2>3. ~Asking(task[r].a)
    BY <1>6, <2>2
  <2> QED
    BY <1>0, <2>2, <2>3, LoggedConcat, RequestSame
<1> HIDE DEF Asked, Closes, Asking, Closing
<1> DEFINE p == pending
<1>12. \A a \in AuthIds : a \in p <=>
           \/ /\ a \in pendingOf(events')
              /\ ~\E r \in Slots : /\ pc'[r] = "written" /\ Asks(r)
                                   /\ task'[r].decision = "ESCALATE" /\ task'[r].a = a
           \/ \E r \in Slots : pc'[r] = "written" /\ Resolves(r) /\ task'[r].a = a
  <2> TAKE a \in AuthIds
  <2>1. (a \in pendingOf(events')) <=> ((Asked(a) \/ Asking(a)) /\ ~Closes(a) /\ ~Closing(a))
    BY <1>1, <1>3
  <2>2. (\E r \in Slots : /\ pc'[r] = "written" /\ Asks(r)
                          /\ task'[r].decision = "ESCALATE" /\ task'[r].a = a) <=> Asking(a)
    BY <1>5, <1>8
  <2>3. (\E r \in Slots : pc'[r] = "written" /\ Resolves(r) /\ task'[r].a = a) <=> Closing(a)
    BY <1>5, <1>9
  <2> QED
    BY <1>4, <1>6, <1>7, <2>1, <2>2, <2>3
<1>13. \A r \in Slots : pc'[r] = "written" /\ Resolves(r) => task'[r].a \notin pendingOf(events')
  <2> SUFFICES ASSUME NEW r \in Slots, pc'[r] = "written", Resolves(r)
               PROVE  task'[r].a \notin pendingOf(events')
    OBVIOUS
  <2>1. task[r].a \in AuthIds /\ Closing(task[r].a)
    BY <1>1, <1>2, <1>5, <1>10 DEF Resolving
  <2> QED
    BY <1>1, <1>3, <2>1
<1>14. \A r \in Slots : pc'[r] = "written" /\ Asks(r) /\ task'[r].decision = "ESCALATE" =>
           task'[r].a \in pendingOf(events')
  <2> SUFFICES ASSUME NEW r \in Slots, pc'[r] = "written", Asks(r), task'[r].decision = "ESCALATE"
               PROVE  task'[r].a \in pendingOf(events')
    OBVIOUS
  <2>1. task[r].a \in AuthIds /\ Asking(task[r].a)
    BY <1>1, <1>2, <1>5, <1>10 DEF Escalating
  <2> QED
    BY <1>1, <1>3, <1>4, <1>6, <1>7, <2>1
<1>15. \A r \in Slots : pc'[r] = "writing" /\ Resolves(r) => task'[r].a \in p
  BY <1>2
<1> HIDE DEF p
<1>16. p = pending'
  BY <1>1 DEF p
<1> QED
  BY <1>1, <1>11, <1>12, <1>13, <1>14, <1>15, <1>16, PendingInvNext
\* Everything but a drain, an end of a decision and of a resolution, and a restart.
LEMMA PendingRests ==
  ASSUME Inv, client' = client,
         \/ \E r \in Slots :
              \/ Turned(r) \/ Ends(r) \/ Enters(r) \/ MintEnds(r)
              \/ FinishOther(r) /\ ~Resolves(r)
              \/ \E g \in Grants, a \in AuthIds \cup {None} : Locks(r, g, a)
              \/ \E l, t, records : Records(r, l, t, records)
         \/ \E n, cut : DrainFails(n, cut)
         \/ Tick \/ UNCHANGED vars
  PROVE  PendingInv'
<1>0. /\ pc \in [Slots -> PCs] /\ task \in [Slots -> Task] /\ PendingInv /\ LockInv
      /\ InBatch = {r \in Slots : pc[r] \in {"sweeping", "writing"}}
  BY Types DEF Inv, BatchInv
<1>1. \A q \in Slots : pc[q] = "writing" /\ Resolves(q) => task[q].a \in pending
  BY <1>0 DEF PendingInv
<1>2. \A q \in Slots : InLock(q)' <=>
        /\ Call(q).op # "mint"
        /\ pc'[q] \in {"waiting", "sweeping", "deciding", "writing", "written", "rejected"}
  BY DEF InLock, Call
<1> DEFINE Fine(q) ==
      /\ Asks(q) \/ Resolves(q) => (pc'[q] = "written" <=> pc[q] = "written")
      /\ pc[q] = "written" => task'[q] = task[q]
      /\ InLock(q)' /\ Resolves(q) =>
           \/ InLock(q) /\ task'[q].a = task[q].a /\ task'[q].g = task[q].g
           \/ task'[q].a \in pending /\ task'[q].g = requestOf(events, task'[q].a).g
      /\ pc'[q] = "writing" /\ Resolves(q) => task'[q].a \in pending
<1>3. ASSUME NEW q \in Slots, pc'[q] = pc[q], task'[q] = task[q] PROVE Fine(q)
  BY <1>1, <1>2, <1>3 DEF InLock
<1>4. ASSUME UNCHANGED <<events, pending>>, \A q \in Slots : Fine(q) PROVE PendingInv'
  BY <1>4, PendingStays
<1>5. ASSUME NEW r \in Slots, Turned(r) \/ Ends(r) \/ MintEnds(r) \/ (FinishOther(r) /\ ~Resolves(r))
      PROVE  PendingInv'
  <2>1. /\ UNCHANGED <<events, pending, task>> /\ (\A q \in Slots \ {r} : pc'[q] = pc[q])
        /\ pc'[r] \in {"refused", "answered", "failed"}
    BY <1>0, <1>5 DEF Turned, Ends, MintEnds, FinishOther, Release, Goto, storeVars
  <2>2. Asks(r) \/ Resolves(r) => pc[r] # "written"
    BY <1>5 DEF Turned, Ends, MintEnds, FinishOther, MayArrive, Asks, Resolves
  <2>3. Fine(r)
    BY <1>2, <2>1, <2>2
  <2> QED
    BY <1>3, <1>4, <2>1, <2>3
<1>6. ASSUME NEW r \in Slots, Enters(r) PROVE PendingInv'
  <2>1. /\ UNCHANGED <<events, pending>>
        /\ (\A q \in Slots \ {r} : pc'[q] = pc[q] /\ task'[q] = task[q])
        /\ pc'[r] = "deciding" /\ pc[r] = "waiting" /\ ~Resolves(r)
    BY <1>0, <1>6 DEF Enters, Goto, storeVars, Asks, Resolves
  <2>2. Fine(r)
    BY <1>2, <2>1
  <2> QED
    BY <1>3, <1>4, <2>1, <2>2
<1>7. ASSUME NEW r \in Slots, NEW g \in Grants, NEW a \in AuthIds \cup {None}, Locks(r, g, a)
      PROVE  PendingInv'
  <2>1. /\ UNCHANGED <<events, pending>>
        /\ (\A q \in Slots \ {r} : pc'[q] = pc[q] /\ task'[q] = task[q])
        /\ pc'[r] = "waiting" /\ pc[r] \in {"idle", "lost", "failed"}
        /\ task'[r].g = g /\ task'[r].a = a
        /\ (Resolves(r) => a \in pending /\ g = requestOf(events, a).g)
    BY <1>0, <1>7 DEF Locks, Lock, MayArrive, Goto, NoTask, storeVars
  <2>2. Fine(r)
    BY <1>2, <2>1
  <2> QED
    BY <1>3, <1>4, <2>1, <2>2
<1>8. ASSUME NEW r \in Slots, NEW l, NEW t, NEW records, Records(r, l, t, records) PROVE PendingInv'
  <2>1. /\ UNCHANGED <<events, pending>>
        /\ (\A q \in Slots \ {r} : pc'[q] = pc[q] /\ task'[q] = task[q])
        /\ pc'[r] \in {"sweeping", "writing"} /\ pc[r] # "written"
        /\ (Resolves(r) => /\ InLock(r) /\ task'[r].g = task[r].g /\ task'[r].a = task[r].a
                           /\ task[r].a \in pending)
    BY <1>0, <1>8 DEF Records, Goto, Resolves, Asks
  <2>2. Fine(r)
    BY <1>2, <2>1
  <2> QED
    BY <1>3, <1>4, <2>1, <2>2
<1>9. ASSUME NEW n, NEW cut, DrainFails(n, cut) PROVE PendingInv'
  <2>1. /\ UNCHANGED <<events, pending, task>>
        /\ \A q \in Slots : pc[q] # "written"
        /\ \A q \in Slots : pc'[q] = IF pc[q] \in {"sweeping", "writing"} THEN "rejected" ELSE pc[q]
    BY <1>0, <1>9 DEF DrainFails, CommitFails, Quiet, Ready
  <2>2. \A q \in Slots : Fine(q)
    BY <1>1, <1>2, <2>1 DEF InLock
  <2> QED
    BY <1>4, <2>1, <2>2
<1>10. ASSUME Tick \/ UNCHANGED vars PROVE PendingInv'
  <2>1. UNCHANGED <<events, pending, pc, task>>
    BY <1>10 DEF Tick, vars, storeVars, serverVarsButPc
  <2> QED
    BY <1>3, <1>4, <2>1
<1> QED
  BY <1>5, <1>6, <1>7, <1>8, <1>9, <1>10
\* What is decided enters the map when it is escalated, and leaves it when it is resolved.
LEMMA PendingFinishes ==
  ASSUME Inv, client' = client, NEW r \in Slots, FinishAuthorize(r) \/ (FinishOther(r) /\ Resolves(r))
  PROVE  PendingInv'
<1> DEFINE p == pending'
           c == task[r].a
           Done(q) == pc[q] = "written" /\ q # r
<1>0. /\ pc \in [Slots -> PCs] /\ PendingInv /\ LockInv /\ FreshInv /\ pending \subseteq AuthIds
  BY Types DEF Inv
<1>1. /\ UNCHANGED <<events, task>> /\ pc' = [pc EXCEPT ![r] = "answered"] /\ pc[r] = "written"
      /\ InLock(r)
  BY DEF FinishAuthorize, FinishOther, Release, Goto, storeVars
<1>2. \A q \in Slots : /\ pc'[q] = "written" <=> Done(q)
                       /\ InLock(q)' => InLock(q)
                       /\ pc'[q] = "writing" => pc[q] = "writing"
  BY <1>0, <1>1 DEF InLock, Call
<1>3. c \in AuthIds
  BY <1>0, <1>1 DEF FreshInv, LockInv
<1>4. \A q \in Slots : Asks(q) /\ pc[q] = "written" => task[q].a \in AuthIds
  BY <1>0 DEF FreshInv
<1>5. \A q \in Slots : Resolves(q) /\ pc[q] = "written" => task[q].a \in AuthIds /\ Busy(q)
  BY <1>0 DEF LockInv, InLock, Busy, Resolves, Asks
<1>6. \A r1 \in Slots : InLock(r1)' /\ Resolves(r1) =>
        Logged(events', "approval_request", task'[r1].a) /\ task'[r1].g = requestOf(events', task'[r1].a).g
  BY <1>0, <1>1, <1>2 DEF PendingInv
<1>7. \A q \in Slots : pc'[q] = "written" /\ Resolves(q) => task'[q].a \notin pendingOf(events')
  BY <1>0, <1>1, <1>2, <1>5 DEF PendingInv, Resolving
<1>8. \A q \in Slots : pc'[q] = "written" /\ Asks(q) /\ task'[q].decision = "ESCALATE" =>
           task'[q].a \in pendingOf(events')
  BY <1>0, <1>1, <1>2, <1>4 DEF PendingInv, Escalating
<1>9. CASE FinishAuthorize(r)
  <2>1. /\ p = IF task[r].decision = "ESCALATE" THEN pending \cup {c} ELSE pending
        /\ Asks(r)
    BY <1>9 DEF FinishAuthorize
  <2> HIDE DEF p, c
  <2>2. \A q \in Slots : Done(q) /\ Asks(q) => task[q].a # c
    BY <1>0, <1>1, <2>1 DEF FreshInv, c
  <2>3. \A a \in AuthIds : a \in p <=>
           \/ /\ a \in pendingOf(events')
              /\ ~\E q \in Slots : /\ pc'[q] = "written" /\ Asks(q)
                                   /\ task'[q].decision = "ESCALATE" /\ task'[q].a = a
           \/ \E q \in Slots : pc'[q] = "written" /\ Resolves(q) /\ task'[q].a = a
    <3> TAKE a \in AuthIds
    <3>1. (\E q \in Slots : pc'[q] = "written" /\ Resolves(q) /\ task'[q].a = a)
            <=> Resolving("written", a)
      BY <1>1, <1>2, <2>1 DEF Resolving, Resolves, Asks
    <3>2. Escalating("written", a) <=>
            \/ task[r].decision = "ESCALATE" /\ c = a
            \/ \E q \in Slots : Done(q) /\ Asks(q) /\ task[q].decision = "ESCALATE" /\ task[q].a = a
      BY <1>1, <2>1 DEF Escalating, c
    <3>3. (\E q \in Slots : /\ pc'[q] = "written" /\ Asks(q)
                            /\ task'[q].decision = "ESCALATE" /\ task'[q].a = a) <=>
          \E q \in Slots : Done(q) /\ Asks(q) /\ task[q].decision = "ESCALATE" /\ task[q].a = a
      BY <1>1, <1>2
    <3>4. a \in pending <=> (a \in pendingOf(events) /\ ~Escalating("written", a))
                              \/ Resolving("written", a)
      BY <1>0 DEF PendingInv
    <3>5. Escalating("written", a) => a \in pendingOf(events)
      BY <1>0 DEF PendingInv
    <3> QED
      BY <1>1, <2>1, <2>2, <3>1, <3>2, <3>3, <3>4, <3>5
  <2>4. \A q \in Slots : pc'[q] = "writing" /\ Resolves(q) => task'[q].a \in p
    BY <1>0, <1>1, <1>2, <2>1 DEF PendingInv
  <2>5. p = pending'
    BY DEF p
  <2> QED
    BY <1>6, <1>7, <1>8, <2>3, <2>4, <2>5, PendingInvNext
<1>10. CASE FinishOther(r) /\ Resolves(r)
  <2>1. p = pending \ {c} /\ Resolves(r) /\ ~Asks(r) /\ Busy(r)
    BY <1>1, <1>10 DEF FinishOther, Busy
  <2> HIDE DEF p
  <2>2. \A q \in Slots : Done(q) /\ Resolves(q) => task[q].a # c
    BY <1>0, <1>5, <2>1, OneResolver
  <2>3. \A a \in AuthIds : a \in p <=>
           \/ /\ a \in pendingOf(events')
              /\ ~\E q \in Slots : /\ pc'[q] = "written" /\ Asks(q)
                                   /\ task'[q].decision = "ESCALATE" /\ task'[q].a = a
           \/ \E q \in Slots : pc'[q] = "written" /\ Resolves(q) /\ task'[q].a = a
    <3> TAKE a \in AuthIds
    <3>1. (\E q \in Slots : /\ pc'[q] = "written" /\ Asks(q)
                            /\ task'[q].decision = "ESCALATE" /\ task'[q].a = a)
            <=> Escalating("written", a)
      BY <1>1, <1>2, <2>1 DEF Escalating
    <3>2. Resolving("written", a) <=>
            c = a \/ \E q \in Slots : Done(q) /\ Resolves(q) /\ task[q].a = a
      BY <1>1, <2>1 DEF Resolving
    <3>3. (\E q \in Slots : pc'[q] = "written" /\ Resolves(q) /\ task'[q].a = a) <=>
          \E q \in Slots : Done(q) /\ Resolves(q) /\ task[q].a = a
      BY <1>1, <1>2
    <3>4. a \in pending <=> (a \in pendingOf(events) /\ ~Escalating("written", a))
                              \/ Resolving("written", a)
      BY <1>0 DEF PendingInv
    <3>5. Resolving("written", a) => a \notin pendingOf(events)
      BY <1>0 DEF PendingInv
    <3> QED
      BY <1>1, <2>1, <2>2, <3>1, <3>2, <3>3, <3>4, <3>5
  <2>4. \A q \in Slots : pc'[q] = "writing" /\ Resolves(q) => task'[q].a \in p
    <3> SUFFICES ASSUME NEW q \in Slots, pc[q] = "writing", Resolves(q) PROVE task[q].a \in p
      BY <1>1, <1>2
    <3>1. task[q].a \in pending /\ Busy(q) /\ q # r
      BY <1>0, <1>1 DEF PendingInv, Busy, InLock, Resolves
    <3>2. task[q].a # task[r].a
      BY <1>0, <2>1, <3>1, OneResolver
    <3> QED
      BY <2>1, <3>1, <3>2
  <2>5. p = pending'
    BY DEF p
  <2> QED
    BY <1>6, <1>7, <1>8, <2>3, <2>4, <2>5, PendingInvNext
<1> QED
  BY <1>9, <1>10

LEMMA PendingStep ==
  ASSUME Inv, Shape, client' = client
  PROVE  PendingInv'
<1>0. pc \in [Slots -> PCs] /\ DownInv
  BY Types DEF Inv
<1>1. ASSUME NEW p, p = pending', p = pendingOf(events'),
             \A q \in Slots : ~InLock(q)' /\ pc'[q] \notin {"writing", "written"}
      PROVE  PendingInv'
  BY <1>1, PendingInvNext
<1>2. ASSUME NEW n, NEW cut, Stops(n, cut) PROVE PendingInv'
  <2>1. /\ pending' = {} /\ events' = <<>>
        /\ \A q \in Slots : pc'[q] \in {"idle", "answered", "refused", "failed", "lost"}
    BY <1>0, <1>2 DEF Stops, Halt, Forget, InFlight
  <2>2. pendingOf(<<>>) = {}
    BY PendingIs DEF Logged
  <2>3. \A q \in Slots : ~InLock(q)'
    BY <2>1 DEF InLock
  <2> QED
    BY <1>1, <2>1, <2>2, <2>3
<1>3. ASSUME Boot PROVE PendingInv'
  <2>1. /\ pending' = pendingOf(events') /\ pc' = pc
        /\ \A q \in Slots : pc[q] \in {"idle", "answered", "refused", "failed", "lost"}
    BY <1>0, <1>3 DEF Boot, Load, DownInv, InFlight
  <2>2. \A q \in Slots : ~InLock(q)'
    BY <2>1 DEF InLock
  <2> QED
    BY <1>1, <2>1, <2>2
<1>4. ASSUME Drain PROVE PendingInv'
  BY <1>4, PendingDrain
<1>5. ASSUME NEW r \in Slots, FinishAuthorize(r) \/ (FinishOther(r) /\ Resolves(r)) PROVE PendingInv'
  BY <1>5, PendingFinishes
<1> QED
  BY <1>2, <1>3, <1>4, <1>5, PendingRests DEF Shape
-----------------------------------------------------------------------------
(* The idempotency map. *)

\* The invariant after a step.
LEMMA IdemInvNext ==
  ASSUME client' = client,
         up' => \A g \in Grants, k \in Keys :
           idem'[g][k] = IF \E r \in Slots : /\ pc'[r] = "written" /\ Asks(r)
                                             /\ task'[r].g = g /\ Call(r).key = k
                         THEN None ELSE answerOf(events', g, k),
         up' => \A r \in Slots : pc'[r] = "written" /\ Asks(r) =>
           answerOf(events', task'[r].g, Call(r).key) = [a |-> task'[r].a, decision |-> task'[r].decision],
         up' => \A r \in Slots : pc'[r] \in {"sweeping", "deciding", "writing"} /\ Asks(r) =>
           idem'[task'[r].g][Call(r).key] = None
  PROVE  IdemInv'
<1>1. \A g, k : (answerOf(events, g, k))' = answerOf(events', g, k)
  BY DEF answerOf, idemOf, grantOf, lastAt
<1>2. Slots' = Slots /\ \A r \in Slots : Asks(r)' = Asks(r) /\ Call(r)' = Call(r)
  BY DEF Slots, Asks, Call
<1>3. \A g \in Grants, k \in Keys : Finishing(g, k)' <=>
        \E r \in Slots : pc'[r] = "written" /\ Asks(r) /\ task'[r].g = g /\ Call(r).key = k
  BY <1>2 DEF Finishing, Asks, Call
<1>4. up' => \A g \in Grants, k \in Keys :
        idem'[g][k] = IF Finishing(g, k)' THEN None ELSE (answerOf(events, g, k))'
  BY <1>1, <1>3
<1>5. up' => \A r \in Slots : (pc[r] = "written" /\ Asks(r))' =>
        (answerOf(events, task[r].g, Call(r).key))' = [a |-> task[r].a, decision |-> task[r].decision]'
  BY <1>1, <1>2
<1>6. up' => \A r \in Slots : (pc[r] \in {"sweeping", "deciding", "writing"} /\ Asks(r))' =>
        (idem[task[r].g][Call(r).key] = None)'
  BY <1>2
<1> QED
  BY <1>2, <1>4, <1>5, <1>6 DEF IdemInv

\* A step that leaves the map, the log and the written requests alone.
LEMMA IdemStays ==
  ASSUME Inv, client' = client, UNCHANGED <<events, idem, up>>,
         \A q \in Slots : Asks(q) =>
           /\ pc'[q] = "written" <=> pc[q] = "written"
           /\ pc[q] = "written" => task'[q] = task[q]
           /\ pc'[q] \in {"sweeping", "deciding", "writing"} => idem[task'[q].g][Call(q).key] = None
  PROVE  IdemInv'
<1>0. up => /\ \A g \in Grants, k \in Keys :
                 idem[g][k] = IF Finishing(g, k) THEN None ELSE answerOf(events, g, k)
            /\ \A r \in Slots : pc[r] = "written" /\ Asks(r) =>
                 answerOf(events, task[r].g, Call(r).key) = [a |-> task[r].a, decision |-> task[r].decision]
  BY DEF Inv, IdemInv
<1>1. \A g \in Grants, k \in Keys : Finishing(g, k) <=>
        \E r \in Slots : pc'[r] = "written" /\ Asks(r) /\ task'[r].g = g /\ Call(r).key = k
  BY DEF Finishing
<1>2. up' => \A g \in Grants, k \in Keys :
        idem'[g][k] = IF \E r \in Slots : /\ pc'[r] = "written" /\ Asks(r)
                                          /\ task'[r].g = g /\ Call(r).key = k
                      THEN None ELSE answerOf(events', g, k)
  BY <1>0, <1>1
<1>3. up' => \A r \in Slots : pc'[r] = "written" /\ Asks(r) =>
        answerOf(events', task'[r].g, Call(r).key) = [a |-> task'[r].a, decision |-> task'[r].decision]
  BY <1>0
<1>4. up' => \A r \in Slots : pc'[r] \in {"sweeping", "deciding", "writing"} /\ Asks(r) =>
        idem'[task'[r].g][Call(r).key] = None
  OBVIOUS
<1> QED
  BY <1>2, <1>3, <1>4, IdemInvNext

LEMMA IdemRests ==
  ASSUME Inv, client' = client,
         \/ \E r \in Slots :
              \/ Turned(r) \/ Ends(r) \/ Enters(r) \/ MintEnds(r) \/ FinishOther(r)
              \/ \E g \in Grants, a \in AuthIds \cup {None} : Locks(r, g, a)
              \/ \E l, t, records : Records(r, l, t, records)
         \/ \E n, cut : DrainFails(n, cut)
         \/ Tick \/ UNCHANGED vars
  PROVE  IdemInv'
<1>0. /\ pc \in [Slots -> PCs] /\ task \in [Slots -> Task]
      /\ InBatch = {r \in Slots : pc[r] \in {"sweeping", "writing"}}
      /\ \A q \in Slots : InFlight(q) => up
  BY Types DEF Inv, BatchInv, DownInv
<1>1. \A q \in Slots : pc[q] \in {"sweeping", "deciding", "writing"} /\ Asks(q) =>
        idem[task[q].g][Call(q).key] = None
  BY <1>0 DEF Inv, IdemInv, InFlight
<1> DEFINE Fine(q) == Asks(q) =>
      /\ pc'[q] = "written" <=> pc[q] = "written"
      /\ pc[q] = "written" => task'[q] = task[q]
      /\ pc'[q] \in {"sweeping", "deciding", "writing"} => idem[task'[q].g][Call(q).key] = None
<1>3. ASSUME NEW q \in Slots, pc'[q] = pc[q], task'[q] = task[q] PROVE Fine(q)
  BY <1>1, <1>3
<1>4. ASSUME UNCHANGED <<events, idem, up>>, \A q \in Slots : Fine(q) PROVE IdemInv'
  BY <1>4, IdemStays
<1>5. ASSUME NEW r \in Slots, Turned(r) \/ Ends(r) \/ MintEnds(r) \/ FinishOther(r)
      PROVE  IdemInv'
  <2>1. /\ UNCHANGED <<events, idem, up, task>> /\ (\A q \in Slots \ {r} : pc'[q] = pc[q])
        /\ pc'[r] \in {"refused", "answered", "failed"}
    BY <1>0, <1>5 DEF Turned, Ends, MintEnds, FinishOther, Release, Goto, storeVars
  <2>2. Asks(r) => pc[r] # "written"
    BY <1>5 DEF Turned, Ends, MintEnds, FinishOther, MayArrive, Asks
  <2>3. Fine(r)
    BY <2>1, <2>2
  <2> QED
    BY <1>3, <1>4, <2>1, <2>3
<1>6. ASSUME NEW r \in Slots, Enters(r) PROVE IdemInv'
  <2>1. /\ UNCHANGED <<events, idem, up>>
        /\ (\A q \in Slots \ {r} : pc'[q] = pc[q] /\ task'[q] = task[q])
        /\ pc'[r] = "deciding" /\ pc[r] = "waiting" /\ task'[r].g = task[r].g
        /\ idem[task[r].g][Call(r).key] = None
    BY <1>0, <1>6 DEF Enters, Goto, storeVars, Task
  <2>2. Fine(r)
    BY <2>1
  <2> QED
    BY <1>3, <1>4, <2>1, <2>2
<1>7. ASSUME NEW r \in Slots, NEW g \in Grants, NEW a \in AuthIds \cup {None}, Locks(r, g, a)
      PROVE  IdemInv'
  <2>1. /\ UNCHANGED <<events, idem, up>>
        /\ (\A q \in Slots \ {r} : pc'[q] = pc[q] /\ task'[q] = task[q])
        /\ pc'[r] = "waiting" /\ pc[r] \in {"idle", "lost", "failed"}
    BY <1>0, <1>7 DEF Locks, Lock, MayArrive, Goto, storeVars
  <2>2. Fine(r)
    BY <2>1
  <2> QED
    BY <1>3, <1>4, <2>1, <2>2
<1>8. ASSUME NEW r \in Slots, NEW l, NEW t, NEW records, Records(r, l, t, records) PROVE IdemInv'
  <2>1. /\ UNCHANGED <<events, idem, up>>
        /\ (\A q \in Slots \ {r} : pc'[q] = pc[q] /\ task'[q] = task[q])
        /\ pc'[r] = l /\ l \in {"sweeping", "writing"} /\ task'[r].g = task[r].g
        /\ (Asks(r) /\ l = "sweeping" => pc[r] = "waiting" /\ idem[task[r].g][Call(r).key] = None)
        /\ (Asks(r) /\ l = "writing" => pc[r] = "deciding")
    BY <1>0, <1>8 DEF Records, Goto
  <2>2. Fine(r)
    BY <1>1, <2>1
  <2> QED
    BY <1>3, <1>4, <2>1, <2>2
<1>9. ASSUME NEW n, NEW cut, DrainFails(n, cut) PROVE IdemInv'
  <2>1. /\ UNCHANGED <<events, idem, up, task>>
        /\ \A q \in Slots : pc[q] # "written"
        /\ \A q \in Slots : pc'[q] = IF pc[q] \in {"sweeping", "writing"} THEN "rejected" ELSE pc[q]
    BY <1>0, <1>9 DEF DrainFails, CommitFails, Quiet, Ready
  <2>2. \A q \in Slots : Fine(q)
    BY <1>1, <2>1
  <2> QED
    BY <1>4, <2>1, <2>2
<1>10. ASSUME Tick \/ UNCHANGED vars PROVE IdemInv'
  <2>1. UNCHANGED <<events, idem, up, pc, task>>
    BY <1>10 DEF Tick, vars, storeVars, serverVarsButPc
  <2> QED
    BY <1>3, <1>4, <2>1
<1> QED
  BY <1>5, <1>6, <1>7, <1>8, <1>9, <1>10
\* Who decides a key of a grant holds its lock: what it keeps under the key is its own.
LEMMA IdemFinish ==
  ASSUME Inv, client' = client, NEW r \in Slots, FinishAuthorize(r)
  PROVE  IdemInv'
<1> DEFINE c == task[r].g
           k0 == Call(r).key
           answer == [a |-> task[r].a, decision |-> task[r].decision]
           es == events
<1>0. /\ pc \in [Slots -> PCs] /\ LockInv /\ IdemInv /\ client \in Clients
      /\ idem \in [Grants -> [Keys -> Answer \cup {None}]]
  <2>1. idem \in [Grants -> [Keys -> Answer \cup {None}]]
    BY DEF Inv, TypeInv, TypeOK, Answer
  <2> QED
    BY <2>1, Types DEF Inv
<1>1. /\ UNCHANGED <<events, task, up>> /\ pc' = [pc EXCEPT ![r] = "answered"] /\ pc[r] = "written"
      /\ InLock(r) /\ Asks(r) /\ idem' = [idem EXCEPT ![c][k0] = answer]
  BY DEF FinishAuthorize, Release, Goto, storeVars
<1>2. c \in Grants /\ k0 \in Keys
  BY <1>0, <1>1, CallShape DEF LockInv, Asks
<1>3. \A q \in Slots \ {r} : Asks(q) /\ pc[q] \in {"sweeping", "deciding", "writing", "written"}
        => task[q].g # c /\ task[q].g \in Grants /\ Call(q).key \in Keys
  <2> SUFFICES ASSUME NEW q \in Slots \ {r}, Asks(q),
                      pc[q] \in {"sweeping", "deciding", "writing", "written"}
               PROVE  task[q].g # c /\ task[q].g \in Grants /\ Call(q).key \in Keys
    OBVIOUS
  <2>1. InLock(q) /\ Busy(q) /\ Busy(r)
    BY <1>1 DEF InLock, Busy, Asks
  <2>2. Call(q).key \in Keys
    BY <1>0, CallShape DEF Asks
  <2> QED
    BY <1>0, <2>1, <2>2, OneHolder DEF LockInv
<1>4. \A q \in Slots : /\ q # r => pc'[q] = pc[q]
                       /\ pc'[r] = "answered"
  BY <1>0, <1>1
<1> HIDE DEF c, k0, answer
<1>5. /\ \A k \in Keys : idem'[c][k] = IF k = k0 THEN answer ELSE idem[c][k]
      /\ \A g \in Grants \ {c} : idem'[g] = idem[g]
  BY <1>0, <1>1, <1>2
<1>6. answer = [a |-> task[r].a, decision |-> task[r].decision] /\ c = task[r].g /\ k0 = Call(r).key
  BY DEF answer, c, k0
<1>7. ASSUME up
      PROVE  /\ \A g \in Grants, k \in Keys :
                  idem[g][k] = IF Finishing(g, k) THEN None ELSE answerOf(es, g, k)
             /\ answerOf(es, c, k0) = answer
             /\ \A q \in Slots : pc[q] = "written" /\ Asks(q) =>
                  answerOf(es, task[q].g, Call(q).key) = [a |-> task[q].a, decision |-> task[q].decision]
             /\ \A q \in Slots : pc[q] \in {"sweeping", "deciding", "writing"} /\ Asks(q) =>
                  idem[task[q].g][Call(q).key] = None
  BY <1>0, <1>1, <1>6, <1>7 DEF IdemInv
<1>8. events' = es /\ up' = up
  BY <1>1
<1> HIDE DEF es
<1>9. ASSUME up'
      PROVE  \A g \in Grants, k \in Keys :
               idem'[g][k] = IF \E q \in Slots : /\ pc'[q] = "written" /\ Asks(q)
                                                 /\ task'[q].g = g /\ Call(q).key = k
                             THEN None ELSE answerOf(es, g, k)
  <2> SUFFICES ASSUME NEW g \in Grants, NEW k \in Keys
               PROVE  idem'[g][k] = IF \E q \in Slots : /\ pc'[q] = "written" /\ Asks(q)
                                                        /\ task'[q].g = g /\ Call(q).key = k
                                    THEN None ELSE answerOf(es, g, k)
    OBVIOUS
  <2>1. (\E q \in Slots : pc'[q] = "written" /\ Asks(q) /\ task'[q].g = g /\ Call(q).key = k)
          <=> (Finishing(g, k) /\ ~(g = c /\ k = k0))
    BY <1>1, <1>3, <1>4, <1>6 DEF Finishing
  <2>2. g = c => (Finishing(g, k) => k = k0)
    BY <1>3, <1>6 DEF Finishing
  <2> QED
    BY <1>5, <1>7, <1>8, <1>9, <2>1, <2>2
<1>10. ASSUME up'
       PROVE \A q \in Slots : pc'[q] = "written" /\ Asks(q) =>
               answerOf(es, task'[q].g, Call(q).key) = [a |-> task'[q].a, decision |-> task'[q].decision]
  BY <1>1, <1>4, <1>7, <1>8, <1>10
<1>11. ASSUME up'
       PROVE \A q \in Slots : pc'[q] \in {"sweeping", "deciding", "writing"} /\ Asks(q) =>
               idem'[task'[q].g][Call(q).key] = None
  BY <1>1, <1>3, <1>4, <1>5, <1>7, <1>8, <1>11
<1> QED
  BY <1>8, <1>9, <1>10, <1>11, IdemInvNext

\* A drain makes answers of the decisions it commits, and of nothing else.
LEMMA IdemDrain ==
  ASSUME Inv, client' = client, Drain
  PROVE  IdemInv'
<1>0. /\ LockInv /\ BatchInv /\ MintInv /\ IdemInv /\ client \in Clients
      /\ events \in Seq(Event) /\ batch \in Seq(Event)
  BY Types DEF Inv
<1>1. /\ events' = events \o batch /\ task' = task /\ idem' = idem /\ up
      /\ \A q \in Slots : pc[q] \notin {"written", "deciding"}
      /\ \A q \in Slots : pc'[q] = IF pc[q] = "writing" THEN "written"
                                   ELSE IF pc[q] = "sweeping" THEN "deciding" ELSE pc[q]
  BY DrainLog
<1>2. \A q \in Slots : /\ pc'[q] = "written" <=> pc[q] = "writing"
                       /\ pc'[q] \in {"sweeping", "deciding", "writing"} => pc[q] = "sweeping"
  BY <1>1
<1>3. \A g \in Grants, k \in Keys : idem[g][k] = answerOf(events, g, k)
  BY <1>0, <1>1 DEF IdemInv, Finishing
<1>4. ASSUME NEW q \in Slots, pc[q] = "writing", Asks(q)
      PROVE  /\ task[q].g \in Grants /\ Call(q).key \in Keys /\ InLock(q) /\ Busy(q)
             /\ Known(events, task[q].g)
  <2>1. InLock(q) /\ Busy(q)
    BY <1>4 DEF InLock, Busy, Asks
  <2>2. Call(q).key \in Keys
    BY <1>0, <1>4, CallShape DEF Asks
  <2> QED
    BY <1>0, <2>1, <2>2 DEF LockInv, MintInv
<1>5. ASSUME NEW q \in Slots, pc[q] = "writing", Asks(q)
      PROVE  answerOf(events \o batch, task[q].g, Call(q).key)
               = [a |-> task[q].a, decision |-> task[q].decision]
  <2> DEFINE g == task[q].g
             k == Call(q).key
  <2>1. PICK i \in decidedAt(batch, g, k) : batch[i].a = task[q].a
    BY <1>0, <1>5 DEF BatchInv
  <2>2. g \in Grants /\ k \in Keys /\ Busy(q) /\ Known(events, g)
    BY <1>4, <1>5
  <2>3. decidedAt(batch, g, k) = {i}
    BY <1>0, <2>1, <2>2 DEF BatchInv, DecidedOnce
  <2>4. i \in DOMAIN batch /\ batch[i].kind = "decision" /\ batch[i].g = g /\ batch[i].key = k
    BY <2>1 DEF decidedAt
  <2>5. PICK r \in Slots : /\ pc[r] = "writing" /\ InLock(r) /\ batch[i].g = task[r].g
                           /\ batch[i].key = IF Asks(r) THEN Call(r).key ELSE None
                           /\ Asks(r) => batch[i].decision = task[r].decision
    BY <1>0, <2>4 DEF BatchInv
  <2>6. Busy(r) /\ task[r].g = task[q].g
    BY <2>4, <2>5 DEF Busy
  <2>7. r = q
    BY <1>0, <2>2, <2>6, OneHolder
  <2>8. batch[i].decision = task[q].decision
    BY <1>5, <2>5, <2>7
  <2> HIDE DEF g, k
  <2>9. answerOf(events \o batch, g, k) = [a |-> batch[i].a, decision |-> batch[i].decision]
    BY <1>0, <2>1, <2>2, <2>3, AnswerNew
  <2> QED
    BY <2>1, <2>8, <2>9 DEF g, k
<1>6. ASSUME NEW g \in Grants, NEW k \in Keys,
             ~\E r \in Slots : pc[r] = "writing" /\ Asks(r) /\ task[r].g = g /\ Call(r).key = k
      PROVE  answerOf(events \o batch, g, k) = answerOf(events, g, k)
  <2>1. decidedAt(batch, g, k) = {}
    <3> SUFFICES ASSUME NEW i \in decidedAt(batch, g, k) PROVE FALSE
      OBVIOUS
    <3>1. i \in DOMAIN batch /\ batch[i].kind = "decision" /\ batch[i].g = g /\ batch[i].key = k
      BY DEF decidedAt
    <3>2. PICK r \in Slots : /\ pc[r] = "writing" /\ batch[i].g = task[r].g
                             /\ batch[i].key = IF Asks(r) THEN Call(r).key ELSE None
      BY <1>0, <3>1 DEF BatchInv
    <3> QED
      BY <1>6, <3>1, <3>2, ServerAssumption
  <2>2. ASSUME Known(batch, g) PROVE decidedAt(events, g, k) = {}
    <3>1. PICK i \in DOMAIN batch : batch[i].kind = "grant_meta" /\ batch[i].g = g
      BY <2>2 DEF Known
    <3>2. PICK r \in Slots : pc[r] = "writing" /\ Call(r).op = "mint" /\ Call(r).g = g
      BY <1>0, <3>1 DEF BatchInv
    <3>3. \A j \in DOMAIN events : Untouched(events[j], g)
      BY <1>0, <3>2 DEF MintInv
    <3> QED
      BY <3>3 DEF Untouched, decidedAt
  <2> QED
    BY <1>0, <2>1, <2>2, AnswerSame
<1>7. ASSUME NEW q \in Slots, pc[q] = "writing", Asks(q) PROVE idem[task[q].g][Call(q).key] = None
  BY <1>0, <1>1, <1>7 DEF IdemInv
<1>8. \A g \in Grants, k \in Keys :
        idem'[g][k] = IF \E r \in Slots : /\ pc'[r] = "written" /\ Asks(r)
                                          /\ task'[r].g = g /\ Call(r).key = k
                      THEN None ELSE answerOf(events', g, k)
  <2> SUFFICES ASSUME NEW g \in Grants, NEW k \in Keys
               PROVE  idem'[g][k] = IF \E r \in Slots : /\ pc'[r] = "written" /\ Asks(r)
                                                        /\ task'[r].g = g /\ Call(r).key = k
                                    THEN None ELSE answerOf(events', g, k)
    OBVIOUS
  <2>1. CASE \E r \in Slots : pc[r] = "writing" /\ Asks(r) /\ task[r].g = g /\ Call(r).key = k
    BY <1>1, <1>2, <1>7, <2>1
  <2>2. CASE ~\E r \in Slots : pc[r] = "writing" /\ Asks(r) /\ task[r].g = g /\ Call(r).key = k
    <3>1. ~\E r \in Slots : pc'[r] = "written" /\ Asks(r) /\ task'[r].g = g /\ Call(r).key = k
      BY <1>1, <1>2, <2>2
    <3>2. answerOf(events \o batch, g, k) = answerOf(events, g, k)
      BY <1>6, <2>2
    <3>3. idem'[g][k] = answerOf(events', g, k)
      BY <1>1, <1>3, <3>2
    <3> QED
      BY <3>1, <3>3
  <2> QED
    BY <2>1, <2>2
<1>9. \A r \in Slots : pc'[r] = "written" /\ Asks(r) =>
        answerOf(events', task'[r].g, Call(r).key) = [a |-> task'[r].a, decision |-> task'[r].decision]
  BY <1>1, <1>2, <1>5
<1>10. \A r \in Slots : pc'[r] \in {"sweeping", "deciding", "writing"} /\ Asks(r) =>
         idem'[task'[r].g][Call(r).key] = None
  BY <1>0, <1>1, <1>2 DEF IdemInv
<1> QED
  BY <1>8, <1>9, <1>10, IdemInvNext

LEMMA IdemStep ==
  ASSUME Inv, Shape, client' = client
  PROVE  IdemInv'
<1>0. pc \in [Slots -> PCs] /\ DownInv
  BY Types DEF Inv
<1>1. ASSUME NEW n, NEW cut, Stops(n, cut) PROVE IdemInv'
  <2>1. ~up'
    BY <1>1 DEF Stops, Halt
  <2> QED
    BY <2>1 DEF IdemInv
<1>2. ASSUME Boot PROVE IdemInv'
  <2>1. /\ idem' = [g \in Grants |-> [k \in Keys |-> answerOf(events', g, k)]] /\ pc' = pc
        /\ \A q \in Slots : pc[q] \notin {"sweeping", "deciding", "writing", "written"}
    BY <1>0, <1>2 DEF Boot, Load, DownInv, InFlight
  <2>2. \A g \in Grants, k \in Keys : idem'[g][k] = answerOf(events', g, k)
    BY <2>1
  <2> QED
    BY <2>1, <2>2, IdemInvNext
<1>3. ASSUME Drain PROVE IdemInv'
  BY <1>3, IdemDrain
<1>4. ASSUME NEW r \in Slots, FinishAuthorize(r) PROVE IdemInv'
  BY <1>4, IdemFinish
<1> QED
  BY <1>1, <1>2, <1>3, <1>4, IdemRests DEF Shape
-----------------------------------------------------------------------------
(* The theorems that hold under every fault. *)

LEMMA InitInv == Init => Inv
<1> SUFFICES ASSUME Init PROVE Inv
  OBVIOUS
<1>1. /\ client \in Clients /\ file = <<>> /\ unended = FALSE /\ events = <<>> /\ queue = <<>> /\ up
      /\ clock = 0 /\ pc = [r \in Slots |-> "idle"] /\ task = [r \in Slots |-> NoTask]
      /\ lockQ = [g \in Grants |-> <<>>] /\ idem = [g \in Grants |-> [k \in Keys |-> None]]
      /\ pending = {} /\ told = {} /\ lastNow = [g \in Grants |-> 0] /\ faults = 0
  BY DEF Init, StoreInit
<1>2. MaxTime \in Nat /\ MaxFaults \in Nat
  BY <1>1, ServerAssumption DEF MaxTime
<1>3. TypeInv
  <2>1. /\ \A S : <<>> \in Seq(S)
        /\ 0 \in 0..0 /\ 0 \in 0..MaxTime /\ 0 \in 0..MaxFaults
    BY <1>2
  <2>2. pc \in [Slots -> PCs]
    BY <1>1 DEF PCs
  <2>3. task \in [Slots -> [ g : Grants \cup {None}, a : AuthIds \cup {None}, now : Nat,
                             decision : Decisions ]]
    BY <1>1 DEF NoTask, Decisions
  <2>4. lockQ \in [Grants -> Seq(Slots)] /\ lastNow \in [Grants -> 0..clock]
    BY <1>1, <2>1
  <2>5. idem \in [Grants -> [Keys -> [a : AuthIds, decision : Decisions] \cup {None}]]
    BY <1>1
  <2> QED
    BY <1>1, <2>1, <2>2, <2>3, <2>4, <2>5 DEF TypeInv, TypeOK
<1>4. \A r \in Slots : pc[r] = "idle" /\ task[r].g = None
  BY <1>1 DEF NoTask
<1>5. \A r \in Slots : ~InLock(r) /\ ~Busy(r)
  BY <1>4 DEF InLock, Busy
<1>6. LockInv
  <2>1. \A g \in Grants : lockQ[g] = <<>> /\ DOMAIN lockQ[g] = {}
    BY <1>1
  <2> QED
    BY <1>4, <1>5, <2>1 DEF LockInv
<1>7. DownInv
  BY <1>1 DEF DownInv
<1>8. batch = <<>> /\ DOMAIN events = {} /\ DOMAIN file = {} /\ DOMAIN batch = {} /\ DOMAIN queue = {}
  BY <1>1, BatchEmpty
<1>9. BatchInv
  <2>1. InBatch = {}
    BY <1>8 DEF InBatch
  <2>2. \A kind, a : ~Logged(batch, kind, a)
    BY <1>8 DEF Logged
  <2>3. DecidedOnce(batch)
    BY <1>8 DEF DecidedOnce, decidedAt
  <2> QED
    BY <1>4, <1>8, <2>1, <2>2, <2>3 DEF BatchInv, Escalating, Resolving
<1>10. MintInv
  BY <1>5, <1>8 DEF MintInv
<1>11. FreshInv
  BY <1>4 DEF FreshInv
<1>12. PendingInv
  <2>1. pendingOf(events) = {}
    BY <1>8, PendingIs DEF Logged
  <2> QED
    BY <1>1, <1>4, <1>5, <2>1 DEF PendingInv, Escalating, Resolving
<1>13. IdemInv
  <2>1. \A g \in Grants, k \in Keys : answerOf(events, g, k) = None
    <3>1. <<>> \in Seq(Event)
      OBVIOUS
    <3>2. \A g : ~Known(events, g)
      BY <1>8 DEF Known
    <3> QED
      BY <1>1, <3>1, <3>2, AnswerIs
  <2>2. \A g \in Grants, k \in Keys : ~Finishing(g, k) /\ idem[g][k] = None
    BY <1>1, <1>4 DEF Finishing
  <2> QED
    BY <1>4, <2>1, <2>2 DEF IdemInv
<1> QED
  BY <1>3, <1>6, <1>7, <1>9, <1>10, <1>11, <1>12, <1>13 DEF Inv

LEMMA NextInv == Inv /\ [Next]_<<client, vars>> => Inv'
<1> SUFFICES ASSUME Inv, [Next]_<<client, vars>> PROVE Inv'
  OBVIOUS
<1>1. Shape /\ client' = client
  BY Shapes
<1> QED
  BY <1>1, TypeStep, LockStep, DownStep, BatchStep, MintStep, FreshStep, PendingStep, IdemStep DEF Inv

LEMMA Inductive == Spec => []Inv
BY InitInv, NextInv, PTL DEF Spec

\* Every variable of the server keeps its type: what a handler queues is a record
\* of the log, and a lock is only ever released by the request that heads it
\* (withLock() of core/store.js: its chain is never advanced past its end).
THEOREM TypeCorrect == Spec => []TypeOK
<1>1. Inv => TypeOK
  BY DEF Inv, TypeInv
<1> QED BY <1>1, Inductive, PTL

\* The idempotency map and the pending map never disagree with the log they
\* cache, but while a request that is durable has its last turn to take: after
\* any order of commits, write errors, rejections, crashes and boots
\* (core/approvals.js, rehydrateIdem() of api/authorize.js).
THEOREM CachesAreExact == Spec => []CachesMatchLog
<1>1. Inv => CachesMatchLog
  <2> SUFFICES ASSUME Inv, Quiet
               PROVE  /\ pending = pendingOf(events)
                      /\ \A g \in Grants, k \in Keys : idem[g][k] = answerOf(events, g, k)
    BY DEF CachesMatchLog
  <2>1. up /\ \A r \in Slots : pc[r] # "written"
    BY DEF Quiet, Ready
  <2>2. pending \subseteq AuthIds /\ pendingOf(events) \subseteq AuthIds
    BY Types DEF Inv, pendingOf
  <2>3. \A a \in AuthIds : a \in pending <=> a \in pendingOf(events)
    BY <2>1 DEF Inv, PendingInv, Escalating, Resolving
  <2>4. \A g \in Grants, k \in Keys : idem[g][k] = answerOf(events, g, k)
    BY <2>1 DEF Inv, IdemInv, Finishing
  <2> QED
    BY <2>2, <2>3, <2>4
<1> QED BY <1>1, Inductive, PTL

\* Two requests are never in the critical section of one grant together, whether
\* they sweep, decide, wait for the disk or have been refused by it (withLock():
\* check, sign and record of one grant do not interleave).
THEOREM Exclusive ==
  Spec => [](\A r, q \in Slots : Busy(r) /\ Busy(q) /\ task[r].g = task[q].g => r = q)
<1>1. Inv => \A r, q \in Slots : Busy(r) /\ Busy(q) /\ task[r].g = task[q].g => r = q
  BY OneHolder DEF Inv
<1> QED BY <1>1, Inductive, PTL
-----------------------------------------------------------------------------
(***************************************************************************)
(* Without write errors: a key is decided once.  A write that fails after  *)
(* it has reached the file is forgotten by the process and not by the      *)
(* file, so that a retry decides the key again; a crash forgets it too,    *)
(* but the next boot remembers.                                            *)
(***************************************************************************)

\* The lines of the file that decide a key of a grant.
FileDecides(lines, g, k) ==
  {i \in DOMAIN lines : /\ lines[i] # Garbage /\ lines[i].kind = "decision"
                        /\ lines[i].g = g /\ lines[i].key = k}

OnceInv ==
  /\ DecidedOnce(events)
  /\ \A g \in Grants, k \in Keys : \A i, j \in FileDecides(file, g, k) : i = j
  /\ up => \A g \in Grants, k \in Keys : FileDecides(file, g, k) # {} => decidedAt(events, g, k) # {}

\* A key that is being decided has not been.
LEMMA UndecidedBatch ==
  ASSUME Inv, up, NEW g \in Grants, NEW k \in Keys, decidedAt(batch, g, k) # {}
  PROVE  decidedAt(events, g, k) = {}
<1>0. LockInv /\ BatchInv /\ MintInv /\ IdemInv /\ events \in Seq(Event)
  BY Types DEF Inv
<1>1. PICK i \in DOMAIN batch : batch[i].kind = "decision" /\ batch[i].g = g /\ batch[i].key = k
  BY DEF decidedAt
<1>2. PICK r \in Slots : /\ pc[r] = "writing" /\ InLock(r) /\ batch[i].g = task[r].g
                         /\ batch[i].key = IF Asks(r) THEN Call(r).key ELSE None
  BY <1>0, <1>1 DEF BatchInv
<1>3. Asks(r) /\ Call(r).key = k /\ task[r].g = g /\ Busy(r)
  BY <1>1, <1>2, ServerAssumption DEF Busy
<1>4. ~Finishing(g, k)
  <2> SUFFICES ASSUME NEW q \in Slots, pc[q] = "written", Asks(q), task[q].g = g PROVE FALSE
    BY DEF Finishing
  <2>1. Busy(q)
    BY DEF Busy, InLock, Asks
  <2> QED
    BY <1>0, <1>2, <1>3, <2>1, OneHolder
<1>5. answerOf(events, g, k) = None
  BY <1>0, <1>2, <1>3, <1>4 DEF IdemInv
<1>6. Known(events, g)
  BY <1>0, <1>2, <1>3 DEF MintInv
<1> QED
  BY <1>0, <1>5, <1>6, AnswerNone

\* So a file with some of the batch in it still decides every key once.
LEMMA OnceInFile ==
  ASSUME Inv, OnceInv, up, Extends(file', file, batch), NEW g \in Grants, NEW k \in Keys
  PROVE  /\ \A i, j \in FileDecides(file', g, k) : i = j
         /\ FileDecides(file', g, k) # {} =>
              decidedAt(events, g, k) # {} \/ decidedAt(batch, g, k) # {}
<1> DEFINE old == FileDecides(file, g, k)
           new == decidedAt(batch, g, k)
<1>0. file \in Seq(LineType) /\ batch \in Seq(Event) /\ Len(file) \in Nat /\ DOMAIN batch \subseteq Nat
  BY Types DEF Inv
<1>1. PICK d \in {0, 1} : \A i \in DOMAIN file' :
        \/ file'[i] = Garbage
        \/ i \in DOMAIN file /\ file'[i] = file[i]
        \/ \E j \in DOMAIN batch : i = Len(file) + j - d /\ file'[i] = batch[j]
  BY DEF Extends
<1>2. \A i \in FileDecides(file', g, k) : i \in old \/ \E j \in new : i = Len(file) + j - d
  BY <1>1 DEF FileDecides, decidedAt
<1>3. old # {} => new = {}
  BY UndecidedBatch DEF OnceInv
<1>4. \A i, j \in old : i = j
  BY DEF OnceInv
<1>5. \A i, j \in new : i = j
  BY DEF Inv, BatchInv, DecidedOnce
<1>6. old # {} => decidedAt(events, g, k) # {}
  BY DEF OnceInv
<1> HIDE DEF old, new
<1> QED
  BY <1>2, <1>3, <1>4, <1>5, <1>6 DEF new

\* The process goes on but for a stop, and comes back with a boot.
LEMMA UpSteps ==
  ASSUME Shape
  PROVE  Boot \/ (\E n, cut : Stops(n, cut)) \/ UNCHANGED up
<1>1. ASSUME NEW r \in Slots,
         \/ Turned(r) \/ Ends(r) \/ Enters(r) \/ MintEnds(r) \/ FinishAuthorize(r) \/ FinishOther(r)
      PROVE  UNCHANGED up
  BY <1>1 DEF Turned, Ends, Enters, MintEnds, FinishAuthorize, FinishOther, storeVars
<1>2. ASSUME NEW r \in Slots, NEW g \in Grants, NEW a \in AuthIds \cup {None}, Locks(r, g, a)
      PROVE  UNCHANGED up
  BY <1>2 DEF Locks, storeVars
<1>3. ASSUME NEW r \in Slots, NEW l, NEW t, NEW records, Records(r, l, t, records) PROVE UNCHANGED up
  BY <1>3 DEF Records
<1>4. ASSUME Drain \/ (\E n, cut : DrainFails(n, cut)) \/ Tick \/ UNCHANGED vars PROVE UNCHANGED up
  BY <1>4 DEF Drain, Commit, DrainFails, CommitFails, Tick, vars, storeVars
<1> QED
  BY <1>1, <1>2, <1>3, <1>4 DEF Shape

LEMMA OnceBoot ==
  ASSUME Inv, OnceInv, Boot
  PROVE  OnceInv'
<1>1. file \in Seq(LineType) /\ up' /\ events' = load(file) /\ file' = file
  BY Types DEF Inv, Boot, Load
<1> DEFINE es == load(file)
<1>2. es \in Seq(Event) /\ Skims(file, es)
  BY <1>1, LoadLines
<1> HIDE DEF es
<1>3. PICK f \in [DOMAIN es -> DOMAIN file] :
        /\ \A i \in DOMAIN es : es[i] = file[f[i]]
        /\ \A i, j \in DOMAIN es : f[i] = f[j] => i = j
  BY <1>2 DEF Skims
<1>4. \A i \in DOMAIN es : es[i] # Garbage
  BY <1>2, ServerAssumption
<1>5. ASSUME NEW g \in Grants, NEW k \in Keys
      PROVE  /\ \A i, j \in decidedAt(es, g, k) : i = j
             /\ FileDecides(file, g, k) # {} => decidedAt(es, g, k) # {}
  <2>1. \A i \in decidedAt(es, g, k) : i \in DOMAIN es /\ f[i] \in FileDecides(file, g, k)
    BY <1>3, <1>4 DEF decidedAt, FileDecides
  <2>2. \A i, j \in FileDecides(file, g, k) : i = j
    BY DEF OnceInv
  <2>3. ASSUME NEW j \in FileDecides(file, g, k) PROVE \E i \in DOMAIN es : i \in decidedAt(es, g, k)
    <3>1. PICK i \in DOMAIN es : es[i] = file[j]
      BY <1>2 DEF Skims, FileDecides
    <3> QED
      BY <3>1 DEF decidedAt, FileDecides
  <2> QED
    BY <1>3, <2>1, <2>2, <2>3
<1>6. events' = es
  BY <1>1 DEF es
<1> QED
  BY <1>1, <1>5, <1>6 DEF OnceInv, DecidedOnce, FileDecides, decidedAt

LEMMA OnceStep ==
  ASSUME Inv, OnceInv, Shape, client' = client, "write" \notin Faults
  PROVE  OnceInv'
<1>0. events \in Seq(Event) /\ batch \in Seq(Event)
  BY Types DEF Inv
<1>1. CASE Boot
  BY <1>1, OnceBoot
<1>2. ASSUME NEW n, NEW cut, Stops(n, cut), events' = <<>>, Extends(file', file, batch) PROVE OnceInv'
  <2>1. up /\ ~up' /\ DOMAIN events' = {}
    BY <1>2 DEF Stops, Halt
  <2>2. DecidedOnce(events)'
    BY <2>1 DEF DecidedOnce, decidedAt
  <2>3. \A g \in Grants, k \in Keys : \A i, j \in FileDecides(file', g, k) : i = j
    BY <1>2, <2>1, OnceInFile
  <2> QED
    BY <2>1, <2>2, <2>3 DEF OnceInv, FileDecides
<1>3. ASSUME Drain, events' = events \o batch, Extends(file', file, batch) PROVE OnceInv'
  <2>1. up /\ up'
    BY <1>3, DrainLog
  <2> DEFINE es == events \o batch
  <2>2. ASSUME NEW g \in Grants, NEW k \in Keys
        PROVE  /\ \A i, j \in decidedAt(es, g, k) : i = j
               /\ \A i, j \in FileDecides(file', g, k) : i = j
               /\ FileDecides(file', g, k) # {} => decidedAt(es, g, k) # {}
    <3>1. decidedAt(es, g, k) = decidedAt(events, g, k) \cup {Len(events) + j : j \in decidedAt(batch, g, k)}
      BY <1>0, DecidedConcat
    <3>2. decidedAt(batch, g, k) # {} => decidedAt(events, g, k) = {}
      BY <2>1, UndecidedBatch
    <3>3. \A i, j \in decidedAt(events, g, k) : i = j
      BY DEF OnceInv, DecidedOnce
    <3>4. \A i, j \in decidedAt(batch, g, k) : i = j
      BY DEF Inv, BatchInv, DecidedOnce
    <3>5. /\ \A i, j \in FileDecides(file', g, k) : i = j
          /\ FileDecides(file', g, k) # {} =>
               decidedAt(events, g, k) # {} \/ decidedAt(batch, g, k) # {}
      BY <1>3, <2>1, OnceInFile
    <3> HIDE DEF es
    <3> QED
      BY <3>1, <3>2, <3>3, <3>4, <3>5
  <2>3. events' = es
    BY <1>3
  <2> HIDE DEF es
  <2> QED
    BY <2>2, <2>3 DEF OnceInv, DecidedOnce, FileDecides, decidedAt
<1>4. ASSUME UNCHANGED <<events, file>>, ~Boot, ~\E n, cut : Stops(n, cut) PROVE OnceInv'
  <2>1. up' = up
    BY <1>4, UpSteps
  <2> QED
    BY <1>4, <2>1 DEF OnceInv, DecidedOnce, FileDecides, decidedAt
<1>5. ~\E n, cut : DrainFails(n, cut)
  BY DEF DrainFails
<1>6. CASE \E n, cut : Stops(n, cut)
  <2>1. PICK n, cut : Stops(n, cut)
    BY <1>6
  <2>2. Leaves(n, cut) /\ events' = <<>>
    BY <2>1 DEF Stops, Halt
  <2>3. Extends(file', file, batch)
    BY <2>2, Types, LeavesLines DEF Inv
  <2> QED
    BY <1>2, <2>1, <2>2, <2>3
<1> QED
  BY <1>1, <1>3, <1>4, <1>5, <1>6, LogSteps

\* Without write errors the log decides a key of a grant once, whatever the crashes
\* and power losses and whatever they tear: every request that decides a key has
\* looked it up, under the lock of its grant, in a map that has missed nothing the
\* file holds (replay() of core/store.js does not dedupe, so a second decision
\* would reserve twice).
THEOREM KeysDecidedOnce ==
  ASSUME "write" \notin Faults
  PROVE  Spec => []KeyDecidedOnce
<1>1. Init => OnceInv
  BY DEF Init, StoreInit, OnceInv, DecidedOnce, decidedAt, FileDecides
<1>2. Inv /\ OnceInv /\ [Next]_<<client, vars>> => OnceInv'
  BY Shapes, OnceStep
<1>3. Spec => []OnceInv
  BY <1>1, <1>2, Inductive, PTL DEF Spec
<1>4. Inv /\ OnceInv => KeyDecidedOnce
  <2> SUFFICES ASSUME Inv, OnceInv PROVE KeyDecidedOnce
    OBVIOUS
  <2>1. CASE up
    BY <2>1 DEF OnceInv, KeyDecidedOnce, log
  <2>2. CASE ~up
    <3> DEFINE es == load(file)
    <3>1. es \in Seq(Event) /\ Skims(file, es)
      BY LoadLines, Types DEF Inv
    <3> HIDE DEF es
    <3>2. \A i \in DOMAIN es : es[i] # Garbage
      BY <3>1, ServerAssumption
    <3>3. DecidedOnce(es)
      BY <3>1, <3>2 DEF Skims, OnceInv, DecidedOnce, decidedAt, FileDecides
    <3>4. log = es
      BY <2>2 DEF log, es
    <3> QED
      BY <3>3, <3>4 DEF KeyDecidedOnce
  <2> QED
    BY <2>1, <2>2
<1> QED
  BY <1>3, <1>4, Inductive, PTL
-----------------------------------------------------------------------------
(***************************************************************************)
(* As long as only the process can die, the file is what the process has   *)
(* read and written: whole records, ended lines, nothing answered missing. *)
(***************************************************************************)

Decides(es, t) ==
  \E i \in DOMAIN es : /\ es[i].kind = "decision" /\ es[i].g = t.g /\ es[i].key = t.key
                       /\ es[i].a = t.a /\ es[i].decision = t.decision

KillInv ==
  /\ file \in Seq(Event) /\ ~unended
  /\ up => events = file
  /\ Whole(file) /\ Whole(batch)
  /\ \A t \in told : Decides(file, t)

LEMMA DecidesConcat ==
  ASSUME NEW es \in Seq(Event), NEW fs \in Seq(Event), NEW t, Decides(es, t)
  PROVE  Decides(es \o fs, t)
BY ConcatPlaces DEF Decides

LEMMA WholePrefix ==
  ASSUME NEW es \in Seq(Event)
  PROVE  SubSeq(es, 1, 0) = <<>> /\ SubSeq(es, 1, Len(es)) = es /\ es \o <<>> = es
<1>1. SubSeq(es, 1, Len(es)) \in Seq(Event) /\ Len(SubSeq(es, 1, Len(es))) = Len(es)
      /\ \A i \in 1..Len(es) : SubSeq(es, 1, Len(es))[i] = es[i]
  OBVIOUS
<1>2. SubSeq(es, 1, Len(es)) = es
  BY <1>1, SeqEqual
<1> QED
  BY <1>2

\* A write that a kill interrupts is in the file or it is not.
LEMMA KillLines ==
  ASSUME Inv, KillInv,
         NEW n \in {0, Len(batch)}, file' = written(SubSeq(batch, 1, n))
  PROVE  file' = file \/ file' = file \o batch
<1>1. batch \in Seq(Event)
  BY Types DEF Inv
<1>2. SubSeq(batch, 1, n) = <<>> \/ SubSeq(batch, 1, n) = batch
  BY <1>1, WholePrefix
<1> QED
  BY <1>2 DEF written, KillInv

\* What a step does to the file and to the log then.
LEMMA KillSteps ==
  ASSUME Inv, KillInv, Shape, Faults \subseteq {"kill"}
  PROVE  /\ file' = file \/ file' = file \o batch
         /\ ~unended'
         /\ up' => events' = file'
<1>0. file \in Seq(Event) /\ ~unended /\ (up => events = file) /\ batch \in Seq(Event)
  BY Types DEF KillInv, Inv
<1>1. CASE Drain
  <2>1. file' = written(batch) /\ ~unended' /\ events' = events \o batch /\ up
    BY <1>1 DEF Drain, Commit
  <2>2. file' = file \o batch
    BY <1>0, <2>1, WholePrefix DEF written
  <2> QED
    BY <1>0, <2>1, <2>2
<1>2. ASSUME NEW n, NEW cut, DrainFails(n, cut) PROVE FALSE
  BY <1>2 DEF DrainFails
<1>3. ASSUME NEW n, NEW cut, Stops(n, cut)
      PROVE  (file' = file \/ file' = file \o batch) /\ ~unended' /\ ~up'
  <2>1. Leaves(n, cut) /\ ~up' /\ cut = "whole" /\ n \in {0, Len(batch)}
    BY <1>3 DEF Stops, Halt
  <2>2. file' = written(SubSeq(batch, 1, n)) /\ ~unended'
    BY <1>0, <2>1 DEF Leaves
  <2> QED
    BY <2>1, <2>2, KillLines
<1>4. CASE Boot
  <2>1. /\ \A i \in DOMAIN file : file[i] # Garbage
        /\ file' = file /\ unended' = unended /\ events' = load(file)
    BY <1>0, <1>4, ServerAssumption DEF Boot, Load
  <2>2. load(file) = file
    BY <2>1 DEF load
  <2> QED
    BY <1>0, <2>1, <2>2
<1>5. ASSUME UNCHANGED <<file, unended, events, up>>
      PROVE  file' = file /\ ~unended' /\ (up' => events' = file')
  BY <1>0, <1>5
<1>6. ASSUME NEW r \in Slots,
         \/ Turned(r) \/ Ends(r) \/ Enters(r) \/ MintEnds(r) \/ FinishAuthorize(r) \/ FinishOther(r)
      PROVE  UNCHANGED <<file, unended, events, up>>
  BY <1>6 DEF Turned, Ends, Enters, MintEnds, FinishAuthorize, FinishOther, storeVars
<1>7. ASSUME NEW r \in Slots, NEW g \in Grants, NEW a \in AuthIds \cup {None}, Locks(r, g, a)
      PROVE  UNCHANGED <<file, unended, events, up>>
  BY <1>7 DEF Locks, storeVars
<1>8. ASSUME NEW r \in Slots, NEW l, NEW t, NEW records, Records(r, l, t, records)
      PROVE  UNCHANGED <<file, unended, events, up>>
  BY <1>8 DEF Records
<1>9. ASSUME Tick \/ UNCHANGED vars PROVE UNCHANGED <<file, unended, events, up>>
  BY <1>9 DEF Tick, vars, storeVars
<1>10. \/ UNCHANGED <<file, unended, events, up>> \/ Drain \/ Boot
       \/ \E n, cut : DrainFails(n, cut) \/ Stops(n, cut)
  BY <1>6, <1>7, <1>8, <1>9 DEF Shape
<1> QED
  BY <1>1, <1>2, <1>3, <1>4, <1>5, <1>10

LEMMA WholeBatchStep ==
  ASSUME Inv, Shape, Whole(batch)
  PROVE  Whole(batch')
<1>0. batch \in Seq(Event) /\ queue \in Seq(Entry)
  BY Types DEF Inv
<1>1. Whole(<<>>)
  BY DEF Whole
<1>2. ASSUME NEW r \in Slots, NEW l, NEW t, NEW records, Records(r, l, t, records)
      PROVE  Whole(batch')
  <2>1. Enqueue(r, records) /\ records \in Seq(Event) /\ Whole(records)
    BY <1>2 DEF Records
  <2>2. batch' = batch \o records
    BY <1>0, <2>1, BatchEnqueue
  <2> QED
    BY <1>0, <2>1, <2>2, WholeConcat
<1>3. CASE queue' = <<>>
  BY <1>1, <1>3, BatchEmptyNext
<1>4. CASE queue' = queue
  BY <1>4, BatchSame
<1>5. ASSUME NEW r \in Slots,
         \/ Turned(r) \/ Ends(r) \/ Enters(r) \/ MintEnds(r) \/ FinishAuthorize(r) \/ FinishOther(r)
         \/ \E g \in Grants, a \in AuthIds \cup {None} : Locks(r, g, a)
      PROVE  queue' = queue
  BY <1>5, MoveSteps DEF Moves
<1>6. ASSUME Drain \/ \E n, cut : DrainFails(n, cut) \/ Stops(n, cut) PROVE queue' = <<>>
  BY <1>6 DEF Drain, Commit, DrainFails, CommitFails, Stops, Halt
<1>7. ASSUME Boot \/ Tick \/ UNCHANGED vars PROVE queue' = queue
  BY <1>7 DEF Boot, Load, Tick, vars, storeVars
<1> QED
  BY <1>2, <1>3, <1>4, <1>5, <1>6, <1>7 DEF Shape

\* Nobody is told what the log does not say.
LEMMA ToldSteps ==
  ASSUME Inv, Shape, NEW t \in told', t \notin told
  PROVE  up /\ Decides(events, t)
<1>0. /\ IdemInv /\ LockInv /\ DownInv /\ client \in Clients /\ events \in Seq(Event)
      /\ \A q \in Slots : InFlight(q) => up
  BY Types DEF Inv, DownInv
<1>1. ASSUME NEW g \in Grants, NEW k \in Keys, NEW b, b # None, answerOf(events, g, k) = b,
             t = [g |-> g, key |-> k, a |-> b.a, decision |-> b.decision]
      PROVE  Decides(events, t)
  <2>1. PICK i \in decidedAt(events, g, k) : b = [a |-> events[i].a, decision |-> events[i].decision]
    BY <1>0, <1>1, AnswerLogged
  <2>2. /\ i \in DOMAIN events /\ events[i].kind = "decision" /\ events[i].g = g /\ events[i].key = k
    BY DEF decidedAt
  <2>3. b.a = events[i].a /\ b.decision = events[i].decision
    BY <2>1
  <2>4. t.g = g /\ t.key = k /\ t.a = b.a /\ t.decision = b.decision
    BY <1>1
  <2> QED
    BY <2>2, <2>3, <2>4 DEF Decides
<1>2. ASSUME NEW r \in Slots, up, Repeats(r) PROVE Decides(events, t)
  <2>1. Asks(r)
    BY <1>2 DEF Repeats
  <2> DEFINE g == Call(r).g
             k == Call(r).key
             b == idem[g][k]
  <2>2. g \in Grants /\ k \in Keys
    BY <1>0, <2>1, CallShape DEF Asks
  <2>3. b # None /\ t = [g |-> g, key |-> k, a |-> b.a, decision |-> b.decision]
    BY <1>2 DEF Repeats, Tell
  <2>4. answerOf(events, g, k) = b
    BY <1>0, <1>2, <2>2, <2>3 DEF IdemInv
  <2> HIDE DEF g, k, b
  <2> QED
    BY <1>1, <2>2, <2>3, <2>4
<1>3. ASSUME NEW r \in Slots, FinishAuthorize(r) PROVE up /\ Decides(events, t)
  <2> DEFINE g == task[r].g
             k == Call(r).key
             b == [a |-> task[r].a, decision |-> task[r].decision]
  <2>1. Asks(r) /\ pc[r] = "written" /\ InLock(r)
    BY <1>3 DEF FinishAuthorize
  <2>2. g \in Grants /\ k \in Keys /\ up
    BY <1>0, <2>1, CallShape DEF Asks, LockInv, InFlight
  <2>3. t = [g |-> g, key |-> k, a |-> b.a, decision |-> b.decision]
    BY <1>3 DEF FinishAuthorize, Tell
  <2>4. answerOf(events, g, k) = b
    BY <1>0, <2>1, <2>2 DEF IdemInv
  <2>5. b # None
    <3>1. task[r].a \in AuthIds
      BY <2>1 DEF Inv, FreshInv
    <3>2. task[r].decision \in Decisions
      BY Types DEF Inv, Task
    <3>3. b \in [a : AuthIds, decision : Decisions]
      BY <3>1, <3>2
    <3> QED
      BY <3>3, ServerAssumption
  <2>6. b.a = task[r].a /\ b.decision = task[r].decision
    OBVIOUS
  <2> HIDE DEF g, k, b
  <2> QED
    BY <1>1, <2>2, <2>3, <2>4, <2>5
<1>4. ASSUME NEW r \in Slots, Turned(r) \/ Ends(r) PROVE up /\ Decides(events, t)
  <2>1. Repeats(r)
    BY <1>4 DEF Turned, Ends
  <2>2. up
    BY <1>0, <1>4 DEF Turned, MayArrive, Quiet, Ends, InLock, InFlight
  <2> QED
    BY <1>2, <2>1, <2>2
<1>5. ASSUME NEW r \in Slots, Enters(r) \/ MintEnds(r) \/ FinishOther(r) PROVE FALSE
  BY <1>5 DEF Enters, MintEnds, FinishOther
<1>6. ASSUME NEW r \in Slots, NEW g \in Grants, NEW a \in AuthIds \cup {None}, Locks(r, g, a) PROVE FALSE
  BY <1>6 DEF Locks
<1>7. ASSUME NEW r \in Slots, NEW l, NEW s, NEW records, Records(r, l, s, records) PROVE FALSE
  BY <1>7 DEF Records
<1>8. ASSUME Drain \/ \E n, cut : DrainFails(n, cut) \/ Stops(n, cut) PROVE FALSE
  BY <1>8 DEF Drain, DrainFails, Stops, Forget, serverVarsButPc
<1>9. ASSUME Boot \/ Tick \/ UNCHANGED vars PROVE FALSE
  BY <1>9 DEF Boot, Tick, vars, serverVarsButPc
<1> QED
  BY <1>3, <1>4, <1>5, <1>6, <1>7, <1>8, <1>9 DEF Shape
LEMMA KillStep ==
  ASSUME Inv, KillInv, Shape, Faults \subseteq {"kill"}
  PROVE  KillInv'
<1>0. /\ file \in Seq(Event) /\ batch \in Seq(Event) /\ Whole(file) /\ Whole(batch)
      /\ (up => events = file) /\ \A t \in told : Decides(file, t)
  BY Types DEF KillInv, Inv
<1> DEFINE lines == file'
<1>1. /\ lines = file \/ lines = file \o batch
      /\ ~unended' /\ (up' => events' = lines)
  BY KillSteps
<1>2. Whole(batch')
  BY <1>0, WholeBatchStep
<1>3. \A t \in told' : Decides(file, t)
  <2> SUFFICES ASSUME NEW t \in told', t \notin told PROVE Decides(file, t)
    BY <1>0
  <2> QED
    BY <1>0, ToldSteps
<1> HIDE DEF lines
<1>4. lines \in Seq(Event) /\ Whole(lines) /\ \A t \in told' : Decides(lines, t)
  <2>1. CASE lines = file
    BY <1>0, <1>3, <2>1
  <2>2. CASE lines = file \o batch
    BY <1>0, <1>3, <2>2, ConcatPlaces, WholeConcat, DecidesConcat
  <2> QED
    BY <1>1, <2>1, <2>2
<1>5. lines = file'
  BY DEF lines
<1> QED
  BY <1>1, <1>2, <1>4, <1>5 DEF KillInv, Whole, Logged, Decides

LEMMA KillInductive ==
  ASSUME Faults \subseteq {"kill"}
  PROVE  Spec => [](Inv /\ KillInv)
<1>1. Init => KillInv
  <2> SUFFICES ASSUME Init PROVE KillInv
    OBVIOUS
  <2>1. file = <<>> /\ unended = FALSE /\ events = <<>> /\ queue = <<>> /\ told = {}
    BY DEF Init, StoreInit
  <2>2. <<>> \in Seq(Event) /\ DOMAIN <<>> = {}
    OBVIOUS
  <2>3. batch = <<>>
    BY <2>1, BatchEmpty
  <2> QED
    BY <2>1, <2>2, <2>3 DEF KillInv, Whole
<1>2. Inv /\ KillInv /\ [Next]_<<client, vars>> => KillInv'
  BY Shapes, KillStep
<1> QED
  BY <1>1, <1>2, Inductive, PTL DEF Spec

\* What a boot would read is the file itself.
LEMMA KillLoad == KillInv => load(file) = file
<1> SUFFICES ASSUME KillInv PROVE load(file) = file
  OBVIOUS
<1>1. \A i \in DOMAIN file : file[i] # Garbage
  BY ServerAssumption DEF KillInv
<1> QED
  BY <1>1 DEF load

\* As long as only the process can die, an ALLOW that was answered is in the file
\* with its hold and its receipt: nobody is told before the fsync, and one write
\* carries all the records of a decision (core/store.js: "Cosmos never
\* acknowledges an ALLOW that could vanish").
THEOREM AllowedIsDurable ==
  ASSUME Faults \subseteq {"kill"}
  PROVE  Spec => []AllowIsDurable
<1>1. Inv /\ KillInv => AllowIsDurable
  <2> SUFFICES ASSUME KillInv, NEW t \in told, t.decision = "ALLOW"
               PROVE  \A kind \in {"decision", "reservation", "receipt"} : Logged(file, kind, t.a)
    BY KillLoad DEF AllowIsDurable
  <2>1. PICK i \in DOMAIN file : file[i].kind = "decision" /\ file[i].a = t.a /\ file[i].decision = t.decision
    BY DEF KillInv, Decides
  <2> QED
    BY <2>1 DEF KillInv, Whole, Logged
<1> QED
  BY <1>1, KillInductive, PTL

\* And an ALLOW that is kept under its key for a repeat has its hold in the file,
\* after any number of restarts: the boot finds no decision without its
\* reservation (README: no ALLOW before the fsync that covers its reservation).
THEOREM ReplayedHasItsHold ==
  ASSUME Faults \subseteq {"kill"}
  PROVE  Spec => []ReplayedAllowHolds
<1>1. Inv /\ KillInv => ReplayedAllowHolds
  <2> SUFFICES ASSUME Inv, KillInv, NEW g \in Grants, NEW k \in Keys,
                      idem[g][k] # None, idem[g][k].decision = "ALLOW"
               PROVE  Logged(file, "reservation", idem[g][k].a)
    BY KillLoad DEF ReplayedAllowHolds
  <2>1. up
    BY DEF Inv, DownInv
  <2> DEFINE b == idem[g][k]
  <2>2. answerOf(file, g, k) = b /\ file \in Seq(Event)
    BY <2>1 DEF Inv, IdemInv, KillInv
  <2> HIDE DEF b
  <2>3. b # None /\ b.decision = "ALLOW"
    BY DEF b
  <2>4. PICK i \in decidedAt(file, g, k) : b = [a |-> file[i].a, decision |-> file[i].decision]
    BY <2>2, <2>3, AnswerLogged
  <2>5. /\ i \in DOMAIN file /\ file[i].kind = "decision" /\ file[i].a = b.a
        /\ file[i].decision = "ALLOW"
    BY <2>3, <2>4 DEF decidedAt
  <2>6. Logged(file, "reservation", b.a)
    BY <2>5 DEF KillInv, Whole
  <2> QED
    BY <2>6 DEF b
<1> QED
  BY <1>1, KillInductive, PTL

\* A grant and key are told of one authorization only, by whichever request and
\* on either side of a restart: what is told is in the file, and the file decides
\* the key once (DESIGN: an idempotent repeat returns the original decision).
THEOREM AnswersNeverDiffer ==
  ASSUME Faults \subseteq {"kill"}
  PROVE  Spec => []AnswersAgree
<1>1. Inv /\ KillInv /\ KeyDecidedOnce => AnswersAgree
  <2> SUFFICES ASSUME Inv, KillInv, KeyDecidedOnce,
                      NEW t \in told, NEW u \in told, t.g = u.g, t.key = u.key
               PROVE  t = u
    BY DEF AnswersAgree
  <2>1. /\ t \in [g : Grants, key : Keys, a : AuthIds, decision : Decisions]
        /\ u \in [g : Grants, key : Keys, a : AuthIds, decision : Decisions]
    BY Types DEF Inv
  <2>2. log = file
    BY KillLoad DEF KillInv, log
  <2>3. PICK i \in DOMAIN file : /\ file[i].kind = "decision" /\ file[i].g = t.g /\ file[i].key = t.key
                                 /\ file[i].a = t.a /\ file[i].decision = t.decision
    BY DEF KillInv, Decides
  <2>4. PICK j \in DOMAIN file : /\ file[j].kind = "decision" /\ file[j].g = u.g /\ file[j].key = u.key
                                 /\ file[j].a = u.a /\ file[j].decision = u.decision
    BY DEF KillInv, Decides
  <2>5. i = j
    BY <2>1, <2>2, <2>3, <2>4 DEF KeyDecidedOnce, DecidedOnce, decidedAt
  <2> QED
    BY <2>1, <2>3, <2>4, <2>5
<1>2. Spec => []KeyDecidedOnce
  <2>1. "write" \notin Faults
    OBVIOUS
  <2> QED
    BY <2>1, KeysDecidedOnce
<1> QED
  BY <1>1, <1>2, KillInductive, PTL
-----------------------------------------------------------------------------
(***************************************************************************)
(* Without a second fault: the balance in the log is the sum of its holds, *)
(* after every record of it.                                               *)
(***************************************************************************)

\* The kinds of record that railState() and the sweep read.
LifeKinds == {"decision", "reservation", "reversal", "submission", "settlement"}

spentStep(g, n, e) == n + moved(e, g)
spentClaim(g, es, n) == n \in Int
SpentFold == INSTANCE FoldTheorems WITH Step <- spentStep, Claim <- spentClaim

LEMMA SpentIs ==
  ASSUME NEW es, NEW g
  PROVE  spentOf(es, g) = SpentFold!total(g, 0, es)
BY Zenon DEF spentOf, SpentFold!total, SpentFold!fold, fold, spentStep

LEMMA MovedType ==
  ASSUME NEW e \in Event, NEW g
  PROVE  moved(e, g) \in Int
<1>1. e.amount \in Nat
  BY DEF Event
<1> QED
  BY <1>1 DEF moved

LEMMA SpentType ==
  ASSUME NEW es \in Seq(Event), NEW g
  PROVE  spentOf(es, g) \in Int
<1>1. spentClaim(g, <<>>, 0)
  BY DEF spentClaim
<1>2. ASSUME NEW fs \in Seq(Event), NEW e \in Event, spentClaim(g, fs, SpentFold!total(g, 0, fs))
      PROVE  spentClaim(g, Append(fs, e), spentStep(g, SpentFold!total(g, 0, fs), e))
  BY <1>2, MovedType DEF spentClaim, spentStep
<1>3. spentClaim(g, es, SpentFold!total(g, 0, es))
  BY <1>1, <1>2, SpentFold!FoldInduction
<1> QED
  BY <1>3, SpentIs DEF spentClaim

\* One more record makes its step of every fold.
LEMMA SpentAppend ==
  ASSUME NEW es \in Seq(Event), NEW e \in Event, NEW g
  PROVE  spentOf(Append(es, e), g) = spentOf(es, g) + moved(e, g)
<1>1. SpentFold!total(g, 0, Append(es, e)) = spentStep(g, SpentFold!total(g, 0, es), e)
  BY SpentFold!FoldAppend
<1> QED
  BY <1>1, SpentIs DEF spentStep

LEMMA RowAppend ==
  ASSUME NEW es \in Seq(Event), NEW e \in Event, NEW g, NEW a
  PROVE  sweepRow(Append(es, e), g, a) = rowStep(<<g, a>>, sweepRow(es, g, a), e)
<1> DEFINE p == <<g, a>>
<1> HIDE DEF p
<1>1. RowFold!total(p, Closed, Append(es, e)) = rowStep(p, RowFold!total(p, Closed, es), e)
  BY RowFold!FoldAppend
<1> QED
  BY <1>1, RowIs DEF p

LEMMA LifeAppend ==
  ASSUME NEW es \in Seq(Event), NEW e \in Event, NEW a
  PROVE  railState(Append(es, e), a) = lifeStep(a, railState(es, a), e)
<1>1. LifeFold!total(a, NoState, Append(es, e)) = lifeStep(a, LifeFold!total(a, NoState, es), e)
  BY LifeFold!FoldAppend
<1> QED
  BY <1>1, LifeIs

LEMMA AppendPlaces ==
  ASSUME NEW es \in Seq(Event), NEW e \in Event
  PROVE  /\ Append(es, e) \in Seq(Event) /\ Append(es, e) = es \o <<e>> /\ <<e>> \in Seq(Event)
         /\ Len(es) \in Nat /\ DOMAIN es = 1..Len(es)
         /\ DOMAIN Append(es, e) = 1..(Len(es) + 1)
         /\ \A i \in DOMAIN es : i \in DOMAIN Append(es, e) /\ Append(es, e)[i] = es[i]
         /\ Append(es, e)[Len(es) + 1] = e
         /\ \A i \in DOMAIN Append(es, e) : i \in DOMAIN es \/ i = Len(es) + 1
OBVIOUS

LEMMA DecisionAppend ==
  ASSUME NEW es \in Seq(Event), NEW e \in Event, NEW a
  PROVE  decisionOf(Append(es, e), a) =
           IF e.kind = "decision" /\ e.a = a THEN e ELSE decisionOf(es, a)
<1> DEFINE fs == Append(es, e)
           old == {i \in DOMAIN es : es[i].kind = "decision" /\ es[i].a = a}
           new == {i \in DOMAIN fs : fs[i].kind = "decision" /\ fs[i].a = a}
<1>1. /\ fs \in Seq(Event) /\ fs = es \o <<e>> /\ <<e>> \in Seq(Event)
      /\ Len(es) \in Nat /\ DOMAIN es = 1..Len(es) /\ DOMAIN fs = 1..(Len(es) + 1)
      /\ \A i \in DOMAIN es : i \in DOMAIN fs /\ fs[i] = es[i]
      /\ fs[Len(es) + 1] = e
      /\ \A i \in DOMAIN fs : i \in DOMAIN es \/ i = Len(es) + 1
  BY AppendPlaces
<1>2. decisionOf(fs, a) = lastAt(fs, new) /\ decisionOf(es, a) = lastAt(es, old)
  BY DEF decisionOf
<1> HIDE DEF fs
<1>3. CASE e.kind = "decision" /\ e.a = a
  <2>1. Len(es) + 1 \in new
    BY <1>1, <1>3
  <2>2. PICK i \in new : (\A j \in new : j <= i) /\ lastAt(fs, new) = fs[i]
    BY <1>1, <2>1, LastPlace
  <2>3. i = Len(es) + 1
    BY <1>1, <2>1, <2>2
  <2> QED
    BY <1>1, <1>2, <1>3, <2>2, <2>3 DEF fs
<1>4. CASE ~(e.kind = "decision" /\ e.a = a)
  <2>1. new = old
    BY <1>1, <1>4
  <2>2. old \in SUBSET DOMAIN es
    OBVIOUS
  <2> HIDE DEF old, new
  <2>3. lastAt(es \o <<e>>, old) = lastAt(es, old)
    BY <1>1, <2>2, LastSame
  <2> QED
    BY <1>1, <1>2, <1>4, <2>1, <2>3 DEF fs
<1> QED
  BY <1>3, <1>4

\* A decision of es gives the authorization a to grant g.
Owner(es, a, g) == \E i \in DOMAIN es : es[i].kind = "decision" /\ es[i].a = a /\ es[i].g = g

\* The books of a log: an authorization is decided once, for one grant, and what
\* is recorded of it later is of that grant; amounts are amounts; the sweep's rows
\* are holds; the balance is their sum.
Unique(es) ==
  \A i, j \in DOMAIN es :
    es[i].kind = "decision" /\ es[j].kind = "decision" /\ es[i].a = es[j].a => i = j
Owned(es) ==
  \A i \in DOMAIN es : es[i].kind \in LifeKinds =>
    es[i].a \in AuthIds /\ es[i].g \in Grants /\ Owner(es, es[i].a, es[i].g)
InRange(es) ==
  /\ \A i \in DOMAIN es : es[i].kind = "decision" => es[i].amount \in 0..MaxAmount
  /\ \A a \in AuthIds : railState(es, a).amount \in 0..MaxAmount
RowsHeld(es) ==
  \A g \in Grants, a \in AuthIds : sweepRow(es, g, a).open =>
    /\ decisionOf(es, a).g = g /\ railState(es, a).reserved
    /\ sweepRow(es, g, a).amount = railState(es, a).amount

heldOf(es, g) == {a \in AuthIds : decisionOf(es, a).g = g /\ railState(es, a).reserved}
amountsOf(es) == [a \in AuthIds |-> railState(es, a).amount]
Sums(es) == \A g \in Grants : spentOf(es, g) = SumOf(amountsOf(es), heldOf(es, g))

Books(es) == es \in Seq(Event) /\ Unique(es) /\ Owned(es) /\ InRange(es) /\ RowsHeld(es) /\ Sums(es)

\* A record that may come next: a decision is of a new authorization, a hold and
\* its end are of the amount that was decided, and what ends is held.
Sane(es, e) ==
  LET s == railState(es, e.a)
  IN  /\ e \in Event
      /\ e.kind \in LifeKinds => e.a \in AuthIds /\ e.g \in Grants
      /\ e.kind = "decision" =>
           e.amount \in 0..MaxAmount /\ \A i \in DOMAIN es : es[i].kind \in LifeKinds => es[i].a # e.a
      /\ e.kind \in LifeKinds \ {"decision"} => Owner(es, e.a, e.g)
      /\ e.kind = "reservation" => ~s.reserved /\ e.amount = s.amount
      /\ e.kind = "reversal" => s.reserved /\ e.amount = s.amount
      /\ e.kind = "settlement" /\ e.outcome = "settled" => s.reserved

LEMMA OwnerIs ==
  ASSUME NEW es \in Seq(Event), Unique(es), NEW a, NEW g, Owner(es, a, g)
  PROVE  decisionOf(es, a).g = g
<1> DEFINE places == {i \in DOMAIN es : es[i].kind = "decision" /\ es[i].a = a}
<1>1. PICK j \in places : es[j].g = g
  BY DEF Owner
<1>2. PICK i \in places : lastAt(es, places) = es[i]
  BY <1>1, LastPlace
<1>3. i = j
  BY DEF Unique
<1> QED
  BY <1>1, <1>2, <1>3 DEF decisionOf

LEMMA IsOwner ==
  ASSUME NEW es \in Seq(Event), NEW a, decisionOf(es, a).g # None
  PROVE  Owner(es, a, decisionOf(es, a).g)
<1> DEFINE places == {i \in DOMAIN es : es[i].kind = "decision" /\ es[i].a = a}
<1>1. places # {}
  BY DEF decisionOf, lastAt, NoEvent
<1>2. PICK i \in places : lastAt(es, places) = es[i]
  BY <1>1, LastPlace
<1> QED
  BY <1>2 DEF decisionOf, Owner

LEMMA OwnerConcat ==
  ASSUME NEW es \in Seq(Event), NEW fs \in Seq(Event), NEW a, NEW g, Owner(es, a, g)
  PROVE  Owner(es \o fs, a, g)
BY ConcatPlaces DEF Owner

LEMMA OwnerAppend ==
  ASSUME NEW es \in Seq(Event), NEW e \in Event, NEW a, NEW g, Owner(es, a, g)
  PROVE  Owner(Append(es, e), a, g)
BY AppendPlaces DEF Owner

\* What has no record is not known.
restClaim(a, es, s) == (\A i \in DOMAIN es : es[i].kind \in LifeKinds => es[i].a # a) => s = NoState
RestFold == INSTANCE FoldTheorems WITH Step <- lifeStep, Claim <- restClaim

LEMMA LifeUnknown ==
  ASSUME NEW es \in Seq(Event), NEW a, \A i \in DOMAIN es : es[i].kind \in LifeKinds => es[i].a # a
  PROVE  railState(es, a) = NoState
<1>1. restClaim(a, <<>>, NoState)
  BY DEF restClaim
<1>2. ASSUME NEW fs \in Seq(Event), NEW e \in Event, restClaim(a, fs, RestFold!total(a, NoState, fs))
      PROVE  restClaim(a, Append(fs, e), lifeStep(a, RestFold!total(a, NoState, fs), e))
  <2> DEFINE s == RestFold!total(a, NoState, fs)
  <2> HIDE DEF s
  <2> SUFFICES ASSUME \A i \in DOMAIN Append(fs, e) :
                        Append(fs, e)[i].kind \in LifeKinds => Append(fs, e)[i].a # a
               PROVE  lifeStep(a, s, e) = NoState
    BY DEF restClaim, s
  <2>1. /\ \A i \in DOMAIN fs : i \in DOMAIN Append(fs, e) /\ Append(fs, e)[i] = fs[i]
        /\ Len(fs) + 1 \in DOMAIN Append(fs, e) /\ Append(fs, e)[Len(fs) + 1] = e
    BY AppendPlaces
  <2>2. s = NoState
    BY <1>2, <2>1 DEF restClaim, s
  <2>3. e.kind \in LifeKinds => e.a # a
    BY <2>1
  <2> QED
    BY <2>2, <2>3 DEF lifeStep, LifeKinds
<1>3. restClaim(a, es, RestFold!total(a, NoState, es))
  BY <1>1, <1>2, RestFold!FoldInduction
<1>4. RestFold!total(a, NoState, es) = LifeFold!total(a, NoState, es)
  BY DEF RestFold!total, LifeFold!total, RestFold!fold, LifeFold!fold
<1> QED
  BY <1>3, <1>4, LifeIs DEF restClaim

\* A record touches the hold and the amount of its own authorization alone.
LEMMA LifeMoves ==
  ASSUME NEW es, NEW e, Books(es), Sane(es, e), NEW a
  PROVE  LET s == railState(es, a)
             t == railState(Append(es, e), a)
         IN  /\ e.a = a /\ e.kind = "decision" => t.amount = e.amount /\ ~s.reserved
             /\ ~(e.a = a /\ e.kind = "decision") => t.amount = s.amount
             /\ e.a = a /\ e.kind = "reservation" => t.reserved
             /\ e.a = a /\ e.kind = "reversal" => ~t.reserved
             /\ ~(e.a = a /\ e.kind \in {"reservation", "reversal"}) => t.reserved = s.reserved
<1> DEFINE s == railState(es, a)
           t == railState(Append(es, e), a)
<1>1. es \in Seq(Event) /\ e \in Event
  BY DEF Books, Sane
<1>2. t = lifeStep(a, s, e) /\ s \in Lifecycle
  BY <1>1, LifeAppend, LifeType
<1>3. e.a = a /\ e.kind = "decision" => s = NoState
  BY <1>1, LifeUnknown DEF Sane
<1>4. e.a = a /\ e.kind = "settlement" /\ e.outcome = "settled" => s.reserved
  BY DEF Sane
<1> HIDE DEF s, t
<1> SUFFICES /\ e.a = a /\ e.kind = "decision" => t.amount = e.amount /\ ~s.reserved
             /\ ~(e.a = a /\ e.kind = "decision") => t.amount = s.amount
             /\ e.a = a /\ e.kind = "reservation" => t.reserved
             /\ e.a = a /\ e.kind = "reversal" => ~t.reserved
             /\ ~(e.a = a /\ e.kind \in {"reservation", "reversal"}) => t.reserved = s.reserved
  BY DEF s, t
<1>5. CASE e.a # a \/ e.kind \notin LifeKinds
  <2>1. t = s
    BY <1>2, <1>5 DEF lifeStep, LifeKinds
  <2>2. e.a = a => e.kind \notin {"decision", "reservation", "reversal"}
    BY <1>5 DEF LifeKinds
  <2> QED
    BY <2>1, <2>2
<1>6. CASE e.a = a /\ e.kind = "decision"
  <2>1. t = onDecision(s, e.decision, e.amount) /\ s = NoState
    BY <1>2, <1>3, <1>6 DEF lifeStep
  <2>2. t.amount = e.amount /\ t.reserved = FALSE /\ s.reserved = FALSE
    BY <2>1 DEF onDecision, NoState
  <2> QED
    BY <1>6, <2>2
<1>7. CASE e.a = a /\ e.kind = "reservation"
  <2>1. t = [onReservation(s, e.exp, e.token) EXCEPT !.amount = e.amount] /\ e.amount = s.amount
    BY <1>2, <1>7 DEF lifeStep, Sane, s
  <2>2. t.amount = e.amount /\ t.reserved = TRUE
    BY <1>2, <2>1 DEF onReservation, Lifecycle
  <2> QED
    BY <1>7, <2>1, <2>2
<1>8. CASE e.a = a /\ e.kind = "reversal"
  BY <1>2, <1>8 DEF lifeStep, onReversal, Lifecycle
<1>9. CASE e.a = a /\ e.kind = "submission"
  BY <1>2, <1>9 DEF lifeStep, onSubmission, Lifecycle
<1>10. CASE e.a = a /\ e.kind = "settlement"
  BY <1>2, <1>4, <1>10 DEF lifeStep, onSettlement, Lifecycle
<1> QED
  BY <1>5, <1>6, <1>7, <1>8, <1>9, <1>10 DEF LifeKinds

\* A record is of the grant its authorization was decided for.
LEMMA SaneOwner ==
  ASSUME NEW es, NEW e, Books(es), Sane(es, e), e.kind \in LifeKinds
  PROVE  /\ decisionOf(Append(es, e), e.a).g = e.g
         /\ IF e.kind = "decision" THEN decisionOf(es, e.a) = NoEvent
                                   ELSE decisionOf(es, e.a).g = e.g
<1>1. es \in Seq(Event) /\ e \in Event /\ Unique(es)
  BY DEF Books, Sane
<1>2. decisionOf(Append(es, e), e.a) = IF e.kind = "decision" THEN e ELSE decisionOf(es, e.a)
  BY <1>1, DecisionAppend
<1>3. CASE e.kind = "decision"
  <2>1. {i \in DOMAIN es : es[i].kind = "decision" /\ es[i].a = e.a} = {}
    BY <1>3 DEF Sane, LifeKinds
  <2>2. decisionOf(es, e.a) = NoEvent
    BY <2>1 DEF decisionOf, lastAt
  <2> QED
    BY <1>2, <1>3, <2>2
<1>4. CASE e.kind # "decision"
  <2>1. Owner(es, e.a, e.g)
    BY <1>4 DEF Sane
  <2> QED
    BY <1>1, <1>2, <1>4, <2>1, OwnerIs
<1> QED
  BY <1>3, <1>4

LEMMA AppendOwned ==
  ASSUME NEW es, NEW e, Books(es), Sane(es, e)
  PROVE  Unique(Append(es, e)) /\ Owned(Append(es, e))
<1> DEFINE fs == Append(es, e)
<1>1. es \in Seq(Event) /\ e \in Event /\ Unique(es) /\ Owned(es)
  BY DEF Books, Sane
<1>2. /\ \A i \in DOMAIN es : i \in DOMAIN fs /\ fs[i] = es[i]
      /\ Len(es) + 1 \in DOMAIN fs /\ fs[Len(es) + 1] = e
      /\ \A i \in DOMAIN fs : i \in DOMAIN es \/ i = Len(es) + 1
  BY <1>1, AppendPlaces
<1>3. \A a, g : Owner(es, a, g) => Owner(fs, a, g)
  BY <1>1, OwnerAppend
<1> HIDE DEF fs
<1>4. Unique(fs)
  <2>1. e.kind = "decision" => \A i \in DOMAIN es : es[i].kind = "decision" => es[i].a # e.a
    BY DEF Sane, LifeKinds
  <2> QED
    BY <1>1, <1>2, <2>1 DEF Unique
<1>5. Owned(fs)
  <2>1. e.kind \in LifeKinds => e.a \in AuthIds /\ e.g \in Grants /\ Owner(fs, e.a, e.g)
    <3>1. CASE e.kind = "decision"
      BY <1>2, <3>1 DEF Sane, Owner
    <3>2. CASE e.kind # "decision"
      BY <1>3, <3>2 DEF Sane
    <3> QED
      BY <3>1, <3>2 DEF Sane
  <2>2. \A i \in DOMAIN es : es[i].kind \in LifeKinds =>
          es[i].a \in AuthIds /\ es[i].g \in Grants /\ Owner(fs, es[i].a, es[i].g)
    BY <1>1, <1>3 DEF Owned
  <2> QED
    BY <1>2, <2>1, <2>2 DEF Owned
<1> QED
  BY <1>4, <1>5 DEF fs

LEMMA AppendInRange ==
  ASSUME NEW es, NEW e, Books(es), Sane(es, e)
  PROVE  InRange(Append(es, e))
<1> DEFINE fs == Append(es, e)
<1>1. es \in Seq(Event) /\ e \in Event /\ InRange(es)
  BY DEF Books, Sane
<1>2. /\ \A i \in DOMAIN es : fs[i] = es[i]
      /\ fs[Len(es) + 1] = e
      /\ \A i \in DOMAIN fs : i \in DOMAIN es \/ i = Len(es) + 1
  BY <1>1, AppendPlaces
<1>3. \A a \in AuthIds :
        \/ railState(fs, a).amount = railState(es, a).amount
        \/ e.kind = "decision" /\ railState(fs, a).amount = e.amount
  BY LifeMoves
<1>4. e.kind = "decision" => e.amount \in 0..MaxAmount
  BY DEF Sane
<1> HIDE DEF fs
<1>5. \A i \in DOMAIN fs : fs[i].kind = "decision" => fs[i].amount \in 0..MaxAmount
  BY <1>1, <1>2, <1>4 DEF InRange
<1>6. \A a \in AuthIds : railState(fs, a).amount \in 0..MaxAmount
  BY <1>1, <1>3, <1>4 DEF InRange
<1> QED
  BY <1>5, <1>6 DEF InRange, fs

LEMMA AppendRows ==
  ASSUME NEW es, NEW e, Books(es), Sane(es, e)
  PROVE  RowsHeld(Append(es, e))
<1> DEFINE fs == Append(es, e)
<1>1. es \in Seq(Event) /\ e \in Event /\ RowsHeld(es)
  BY DEF Books, Sane
<1> SUFFICES ASSUME NEW g \in Grants, NEW a \in AuthIds, sweepRow(fs, g, a).open
             PROVE  /\ decisionOf(fs, a).g = g /\ railState(fs, a).reserved
                    /\ sweepRow(fs, g, a).amount = railState(fs, a).amount
  BY DEF RowsHeld
<1> DEFINE r == sweepRow(es, g, a)
           s == railState(es, a)
           t == railState(fs, a)
           u == sweepRow(fs, g, a)
<1>2. u = rowStep(<<g, a>>, r, e) /\ r \in Row
  BY <1>1, RowAppend, RowType
<1>3. r.open => decisionOf(es, a).g = g /\ s.reserved /\ r.amount = s.amount
  BY <1>1 DEF RowsHeld
<1>4. /\ ~(e.a = a /\ e.kind = "decision") => t.amount = s.amount
      /\ e.a = a /\ e.kind = "reservation" => t.reserved
      /\ ~(e.a = a /\ e.kind \in {"reservation", "reversal"}) => t.reserved = s.reserved
  BY LifeMoves
<1>5. decisionOf(fs, a) = IF e.kind = "decision" /\ e.a = a THEN e ELSE decisionOf(es, a)
  BY <1>1, DecisionAppend
<1>6. e.kind \in LifeKinds /\ e.a = a =>
        IF e.kind = "decision" THEN decisionOf(es, a) = NoEvent ELSE decisionOf(es, a).g = e.g
  BY SaneOwner
<1>7. e.kind = "reservation" /\ e.a = a => e.amount = s.amount
  BY DEF Sane
<1>8. NoEvent.g \notin Grants
  BY ServerAssumption DEF NoEvent
<1>9. u.open
  OBVIOUS
<1> HIDE DEF r, s, t, u, fs
<1>10. CASE e.a # a \/ e.kind \notin LifeKinds
  <2>1. u = r
    BY <1>2, <1>10 DEF rowStep, LifeKinds
  <2> QED
    BY <1>3, <1>4, <1>5, <1>9, <1>10, <2>1 DEF LifeKinds, t, u, s, r
<1>11. CASE e.a = a /\ e.kind = "decision"
  <2>1. u = r
    BY <1>2, <1>11 DEF rowStep
  <2> QED
    BY <1>3, <1>6, <1>8, <1>9, <1>11, <2>1 DEF LifeKinds
<1>12. CASE e.a = a /\ e.kind \in LifeKinds \ {"decision"} /\ e.g # g
  <2>1. u = r
    BY <1>2, <1>12 DEF rowStep
  <2> QED
    BY <1>3, <1>6, <1>9, <1>12, <2>1
<1>13. CASE e.a = a /\ e.g = g /\ e.kind = "reservation"
  <2>1. u.amount = e.amount
    BY <1>2, <1>13 DEF rowStep
  <2> QED
    BY <1>4, <1>5, <1>6, <1>7, <1>13, <2>1 DEF LifeKinds, t, u, s
<1>14. CASE e.a = a /\ e.g = g /\ e.kind = "submission"
  <2>1. u.open = r.open /\ u.amount = r.amount
    BY <1>2, <1>14 DEF rowStep, Row
  <2> QED
    BY <1>3, <1>4, <1>5, <1>9, <1>14, <2>1 DEF t, u, s, r
<1>15. CASE e.a = a /\ e.g = g /\ e.kind \in {"reversal", "settlement"}
  <2>1. u = Closed
    BY <1>2, <1>15 DEF rowStep
  <2> QED
    BY <1>9, <2>1 DEF Closed
<1> QED
  BY <1>10, <1>11, <1>12, <1>13, <1>14, <1>15 DEF LifeKinds

\* The balance follows the holds.
LEMMA AppendSums ==
  ASSUME NEW es, NEW e, Books(es), Sane(es, e)
  PROVE  Sums(Append(es, e))
<1> DEFINE fs == Append(es, e)
           f == amountsOf(es)
           h == amountsOf(fs)
<1>1. es \in Seq(Event) /\ e \in Event /\ Sums(es) /\ InRange(es) /\ fs \in Seq(Event)
  BY AppendPlaces DEF Books, Sane
<1>2. \A a \in AuthIds :
        /\ e.a = a /\ e.kind = "decision" => ~railState(es, a).reserved
        /\ ~(e.a = a /\ e.kind = "decision") => h[a] = f[a]
        /\ e.a = a /\ e.kind = "reservation" => railState(fs, a).reserved
        /\ e.a = a /\ e.kind = "reversal" => ~railState(fs, a).reserved
        /\ ~(e.a = a /\ e.kind \in {"reservation", "reversal"}) =>
              railState(fs, a).reserved = railState(es, a).reserved
  BY LifeMoves DEF amountsOf
<1>3. \A a \in AuthIds :
        decisionOf(fs, a) = IF e.kind = "decision" /\ e.a = a THEN e ELSE decisionOf(es, a)
  BY <1>1, DecisionAppend
<1>4. e.kind \in LifeKinds \ {"decision"} => decisionOf(es, e.a).g = e.g
  BY SaneOwner DEF LifeKinds
<1>5. \A g \in Grants : spentOf(fs, g) = spentOf(es, g) + moved(e, g)
  BY <1>1, SpentAppend
<1>6. \A g \in Grants : spentOf(es, g) = SumOf(f, heldOf(es, g)) /\ IsFiniteSet(heldOf(es, g))
  <2>1. \A g \in Grants : IsFiniteSet(heldOf(es, g))
    BY FS_Subset, ServerAssumption DEF heldOf
  <2> QED
    BY <1>1, <2>1 DEF Sums
<1>7. \A a \in AuthIds : f[a] \in 0..MaxAmount
  BY <1>1 DEF InRange, amountsOf
<1>8. e.kind \in LifeKinds => e.a \in AuthIds /\ e.g \in Grants
  BY DEF Sane
<1>9. e.kind = "reservation" => ~railState(es, e.a).reserved /\ e.amount = f[e.a]
  BY <1>8 DEF Sane, amountsOf, LifeKinds
<1>10. e.kind = "reversal" => railState(es, e.a).reserved /\ e.amount = f[e.a]
  BY <1>8 DEF Sane, amountsOf, LifeKinds
<1>11. \A g \in Grants : spentOf(es, g) \in Int
  BY <1>1, SpentType
<1> HIDE DEF fs, f, h
<1> SUFFICES ASSUME NEW g \in Grants PROVE spentOf(fs, g) = SumOf(h, heldOf(fs, g))
  BY DEF Sums, fs, h
<1> DEFINE H == heldOf(es, g)
           K == heldOf(fs, g)
<1>12. /\ H = {a \in AuthIds : decisionOf(es, a).g = g /\ railState(es, a).reserved}
       /\ K = {a \in AuthIds : decisionOf(fs, a).g = g /\ railState(fs, a).reserved}
  BY DEF heldOf
<1> HIDE DEF H, K
<1>13. \A a \in K : h[a] = f[a]
  <2>1. \A a \in K : ~(e.a = a /\ e.kind = "decision")
    BY <1>2, <1>12
  <2> QED
    BY <1>2, <1>12, <2>1
<1>14. SumOf(h, K) = SumOf(f, K)
  BY <1>13, SumSame
<1>15. CASE e.kind = "reservation" /\ e.g = g
  <2>1. K = H \cup {e.a} /\ e.a \notin H
    <3>1. e.a \in AuthIds /\ decisionOf(fs, e.a).g = g /\ railState(fs, e.a).reserved
          /\ ~railState(es, e.a).reserved
      BY <1>2, <1>3, <1>4, <1>8, <1>9, <1>15 DEF LifeKinds
    <3>2. \A a \in AuthIds \ {e.a} : /\ decisionOf(fs, a) = decisionOf(es, a)
                                    /\ railState(fs, a).reserved = railState(es, a).reserved
      BY <1>2, <1>3
    <3> QED
      BY <1>12, <3>1, <3>2
  <2>2. moved(e, g) = f[e.a]
    BY <1>9, <1>15 DEF moved
  <2>3. f[e.a] \in 0..MaxAmount /\ IsFiniteSet(H)
    BY <1>6, <1>7, <1>8, <1>15 DEF LifeKinds, H
  <2>4. SumOf(f, K) = SumOf(f, H) + f[e.a]
    BY <2>1, <2>3, SumAdd
  <2> QED
    BY <1>5, <1>6, <1>14, <2>2, <2>4 DEF H, K
<1>16. CASE e.kind = "reversal" /\ e.g = g
  <2>1. K = H \ {e.a} /\ e.a \in H
    <3>1. e.a \in AuthIds /\ decisionOf(es, e.a).g = g /\ railState(es, e.a).reserved
          /\ ~railState(fs, e.a).reserved
      BY <1>2, <1>4, <1>8, <1>10, <1>16 DEF LifeKinds
    <3>2. \A a \in AuthIds \ {e.a} : /\ decisionOf(fs, a) = decisionOf(es, a)
                                    /\ railState(fs, a).reserved = railState(es, a).reserved
      BY <1>2, <1>3
    <3> QED
      BY <1>12, <3>1, <3>2
  <2>2. moved(e, g) = -f[e.a]
    BY <1>10, <1>16 DEF moved
  <2>3. f[e.a] \in 0..MaxAmount /\ IsFiniteSet(H)
    BY <1>6, <1>7, <1>8, <1>16 DEF LifeKinds, H
  <2>4. SumOf(f, K) = SumOf(f, H) - SumOf(f, {e.a})
    BY <2>1, <2>3, SumDifference
  <2>5. SumOf(f, {e.a}) = f[e.a]
    BY <2>3, SumSingle
  <2>6. spentOf(es, g) = SumOf(f, H) /\ spentOf(es, g) \in Int /\ f[e.a] \in Int
    BY <1>6, <1>11, <2>3, MoneyAssumption DEF H
  <2>7. spentOf(fs, g) = spentOf(es, g) + (-f[e.a])
    BY <1>5, <2>2
  <2>8. spentOf(fs, g) = spentOf(es, g) - f[e.a]
    BY <2>6, <2>7
  <2> QED
    BY <1>14, <2>4, <2>5, <2>6, <2>8 DEF K
<1>17. CASE ~(e.kind \in {"reservation", "reversal"} /\ e.g = g)
  <2>1. moved(e, g) = 0
    BY <1>17 DEF moved
  <2>2. ASSUME NEW a \in AuthIds PROVE a \in K <=> a \in H
    <3>1. CASE e.a = a /\ e.kind \in {"reservation", "reversal"}
      <4>1. decisionOf(es, a).g # g /\ decisionOf(fs, a) = decisionOf(es, a)
        BY <1>3, <1>4, <1>17, <3>1 DEF LifeKinds
      <4> QED
        BY <1>12, <4>1
    <3>2. CASE e.a = a /\ e.kind = "decision"
      BY <1>2, <1>12, <3>2
    <3>3. CASE ~(e.a = a /\ e.kind \in {"reservation", "reversal", "decision"})
      BY <1>2, <1>3, <1>12, <3>3
    <3> QED
      BY <3>1, <3>2, <3>3
  <2>3. K = H
    BY <1>12, <2>2
  <2> QED
    BY <1>5, <1>6, <1>11, <1>14, <2>1, <2>3 DEF H, K
<1> QED
  BY <1>15, <1>16, <1>17

\* Books that are kept stay kept with one more record.
LEMMA BooksAppend ==
  ASSUME NEW es, NEW e, Books(es), Sane(es, e)
  PROVE  Books(Append(es, e))
<1>1. Append(es, e) \in Seq(Event)
  BY DEF Books, Sane
<1> QED
  BY <1>1, AppendOwned, AppendInRange, AppendRows, AppendSums DEF Books

LEMMA BooksEmpty == Books(<<>>)
<1> DEFINE es == <<>>
<1>1. es \in Seq(Event) /\ DOMAIN es = {}
  OBVIOUS
<1>2. /\ \A a \in AuthIds : railState(es, a) = NoState
      /\ \A g \in Grants, a \in AuthIds : sweepRow(es, g, a) = Closed
      /\ \A g \in Grants : spentOf(es, g) = 0
  BY LifeIs, RowIs, SpentIs, LifeFold!FoldEmpty, RowFold!FoldEmpty, SpentFold!FoldEmpty
<1>3. \A g \in Grants : heldOf(es, g) = {}
  BY <1>2 DEF heldOf, NoState
<1> HIDE DEF es
<1>4. 0 \in 0..MaxAmount
  BY MoneyAssumption
<1>5. Sums(es)
  BY <1>2, <1>3, SumEmpty DEF Sums
<1>6. RowsHeld(es) /\ InRange(es) /\ Unique(es) /\ Owned(es)
  BY <1>1, <1>2, <1>4 DEF RowsHeld, InRange, Unique, Owned, Closed, NoState
<1> QED
  BY <1>1, <1>5, <1>6 DEF Books, es

-----------------------------------------------------------------------------
(* Books that every prefix of what is being written keeps. *)

Steady(es, more) == \A n \in 0..Len(more) : Books(es \o SubSeq(more, 1, n))

LEMMA PrefixOfConcat ==
  ASSUME NEW more \in Seq(Event), NEW fs \in Seq(Event), NEW n \in 0..(Len(more) + Len(fs))
  PROVE  SubSeq(more \o fs, 1, n) =
           IF n <= Len(more) THEN SubSeq(more, 1, n) ELSE more \o SubSeq(fs, 1, n - Len(more))
<1>1. /\ Len(more) \in Nat /\ Len(fs) \in Nat /\ n \in Nat
      /\ more \o fs \in Seq(Event) /\ Len(more \o fs) = Len(more) + Len(fs)
      /\ \A i \in 1..(Len(more) + Len(fs)) :
           (more \o fs)[i] = IF i <= Len(more) THEN more[i] ELSE fs[i - Len(more)]
  BY ConcatProperties
<1> DEFINE l == SubSeq(more \o fs, 1, n)
<1>2. l \in Seq(Event) /\ Len(l) = n /\ \A i \in 1..n : l[i] = (more \o fs)[i]
  <2>1. PICK both \in Seq(Event) : both = more \o fs
    BY <1>1
  <2>2. n <= Len(both)
    BY <1>1, <2>1
  <2> QED
    BY <1>1, <2>1, <2>2
<1> HIDE DEF l
<1>3. CASE n <= Len(more)
  <2> DEFINE r == SubSeq(more, 1, n)
  <2>1. r \in Seq(Event) /\ Len(r) = n /\ \A i \in 1..n : r[i] = more[i]
    BY <1>1, <1>3
  <2> HIDE DEF r
  <2>2. \A i \in 1..n : l[i] = r[i]
    BY <1>1, <1>2, <1>3, <2>1
  <2>3. l = r
    BY <1>2, <2>1, <2>2, SeqEqual
  <2> QED
    BY <1>3, <2>3 DEF l, r
<1>4. CASE n > Len(more)
  <2> DEFINE m == n - Len(more)
             t == SubSeq(fs, 1, m)
             r == more \o t
  <2>1. t \in Seq(Event) /\ Len(t) = m /\ \A i \in 1..m : t[i] = fs[i]
    BY <1>1, <1>4
  <2> HIDE DEF t
  <2>2. r \in Seq(Event) /\ Len(r) = n
        /\ \A i \in 1..n : r[i] = IF i <= Len(more) THEN more[i] ELSE t[i - Len(more)]
    BY <1>1, <1>4, <2>1, ConcatProperties
  <2> HIDE DEF r
  <2>3. \A i \in 1..n : l[i] = r[i]
    <3> TAKE i \in 1..n
    <3>1. CASE i <= Len(more)
      BY <1>1, <1>2, <2>2, <3>1
    <3>2. CASE i > Len(more)
      <4> DEFINE j == i - Len(more)
      <4>1. j \in 1..m /\ i \in 1..(Len(more) + Len(fs)) /\ ~(i <= Len(more))
        BY <1>1, <3>2
      <4>2. l[i] = fs[j] /\ r[i] = t[j]
        BY <1>1, <1>2, <2>2, <4>1
      <4> HIDE DEF j
      <4> QED
        BY <2>1, <4>1, <4>2
    <3> QED
      BY <1>1, <3>1, <3>2
  <2>4. l = r
    BY <1>2, <2>2, <2>3, SeqEqual
  <2> QED
    BY <1>1, <1>4, <2>4 DEF l, r, t
<1> QED
  BY <1>1, <1>3, <1>4

LEMMA SteadyEmpty ==
  ASSUME NEW es, Books(es)
  PROVE  Steady(es, <<>>)
<1>1. es \in Seq(Event) /\ <<>> \in Seq(Event) /\ Len(<<>>) = 0
  BY DEF Books
<1>2. SubSeq(<<>>, 1, 0) = <<>> /\ es \o <<>> = es
  BY <1>1, WholePrefix
<1>3. \A n \in 0..Len(<<>>) : n = 0
  OBVIOUS
<1> QED
  BY <1>2, <1>3 DEF Steady

LEMMA SteadyWhole ==
  ASSUME NEW es \in Seq(Event), NEW more \in Seq(Event), Steady(es, more)
  PROVE  Books(es) /\ Books(es \o more)
<1>1. 0 \in 0..Len(more) /\ Len(more) \in 0..Len(more)
  OBVIOUS
<1>2. Books(es \o SubSeq(more, 1, 0)) /\ Books(es \o SubSeq(more, 1, Len(more)))
  BY <1>1 DEF Steady
<1> QED
  BY <1>2, WholePrefix

LEMMA SteadyConcat ==
  ASSUME NEW es \in Seq(Event), NEW more \in Seq(Event), NEW fs \in Seq(Event),
         Steady(es, more), Steady(es \o more, fs)
  PROVE  Steady(es, more \o fs)
<1>1. Len(more) \in Nat /\ Len(fs) \in Nat /\ Len(more \o fs) = Len(more) + Len(fs)
  BY ConcatProperties
<1> SUFFICES ASSUME NEW n \in 0..(Len(more) + Len(fs)) PROVE Books(es \o SubSeq(more \o fs, 1, n))
  BY <1>1 DEF Steady
<1>2. CASE n <= Len(more)
  <2>1. SubSeq(more \o fs, 1, n) = SubSeq(more, 1, n) /\ n \in 0..Len(more)
    BY <1>1, <1>2, PrefixOfConcat
  <2> QED
    BY <2>1 DEF Steady
<1>3. CASE n > Len(more)
  <2> DEFINE m == n - Len(more)
             t == SubSeq(fs, 1, m)
  <2>1. SubSeq(more \o fs, 1, n) = more \o t /\ m \in 0..Len(fs)
    BY <1>1, <1>3, PrefixOfConcat
  <2>2. t \in Seq(Event)
    BY <1>1, <2>1
  <2>3. Books((es \o more) \o t)
    BY <2>1 DEF Steady
  <2> HIDE DEF t
  <2>4. (es \o more) \o t = es \o (more \o t)
    BY <2>2, ConcatAssociative, SMTT(30)
  <2> QED
    BY <2>1, <2>3, <2>4
<1> QED
  BY <1>1, <1>2, <1>3

LEMMA SteadyOne ==
  ASSUME NEW es, NEW e, Books(es), Sane(es, e)
  PROVE  Steady(es, <<e>>)
<1>1. es \in Seq(Event) /\ e \in Event
  BY DEF Books, Sane
<1>2. <<e>> \in Seq(Event) /\ Len(<<e>>) = 1 /\ es \o <<e>> = Append(es, e)
  BY <1>1
<1>3. SubSeq(<<e>>, 1, 0) = <<>> /\ SubSeq(<<e>>, 1, 1) = <<e>> /\ es \o <<>> = es
  BY <1>1, <1>2, WholePrefix
<1>4. Books(es \o SubSeq(<<e>>, 1, 0)) /\ Books(es \o SubSeq(<<e>>, 1, 1))
  BY <1>2, <1>3, BooksAppend
<1>5. \A n \in 0..1 : n = 0 \/ n = 1
  OBVIOUS
<1> QED
  BY <1>2, <1>4, <1>5 DEF Steady

LEMMA SteadyAppend ==
  ASSUME NEW es \in Seq(Event), NEW more \in Seq(Event), NEW e, Steady(es, more), Sane(es \o more, e)
  PROVE  Steady(es, Append(more, e))
<1>1. e \in Event /\ Books(es \o more)
  BY SteadyWhole DEF Sane
<1>2. <<e>> \in Seq(Event) /\ Append(more, e) = more \o <<e>>
  BY <1>1
<1>3. Steady(es \o more, <<e>>)
  BY <1>1, SteadyOne
<1>4. Steady(es, more \o <<e>>)
  BY <1>2, <1>3, SteadyConcat
<1> QED
  BY <1>2, <1>4

LEMMA SteadyTwo ==
  ASSUME NEW es, NEW e, NEW d, Books(es), Sane(es, e), Sane(Append(es, e), d)
  PROVE  Steady(es, <<e, d>>)
<1>1. es \in Seq(Event) /\ e \in Event /\ d \in Event
  BY DEF Books, Sane
<1>2. <<e>> \in Seq(Event) /\ es \o <<e>> = Append(es, e)
  BY <1>1
<1>6. <<e>> \o <<d>> = <<e, d>>
  BY <1>1, Pair
<1>7. Append(<<e>>, d) = <<e>> \o <<d>>
  BY <1>1
<1>3. Steady(es, <<e>>)
  BY SteadyOne
<1>4. Sane(es \o <<e>>, d)
  BY <1>2
<1>5. Steady(es, Append(<<e>>, d))
  BY <1>1, <1>2, <1>3, <1>4, SteadyAppend
<1> QED
  BY <1>6, <1>7, <1>5

LEMMA SteadyThree ==
  ASSUME NEW es, NEW e, NEW d, NEW c, Books(es), Sane(es, e), Sane(Append(es, e), d),
         Sane(Append(Append(es, e), d), c)
  PROVE  Steady(es, <<e, d, c>>)
<1>1. es \in Seq(Event) /\ e \in Event /\ d \in Event /\ c \in Event
  BY DEF Books, Sane
<1>2. <<e, d>> \in Seq(Event)
  BY <1>1
<1>7. <<e, d>> \o <<c>> = <<e, d, c>>
  BY <1>1, Triple
<1>8. Append(<<e, d>>, c) = <<e, d>> \o <<c>>
  BY <1>1, <1>2, AppendPlaces
<1>3. es \o <<e, d>> = Append(Append(es, e), d)
  BY <1>1
<1>4. Steady(es, <<e, d>>)
  BY SteadyTwo
<1>5. Sane(es \o <<e, d>>, c)
  BY <1>3
<1>6. Steady(es, Append(<<e, d>>, c))
  BY <1>1, <1>2, <1>4, <1>5, SteadyAppend
<1> QED
  BY <1>7, <1>8, <1>6

\* What moves no budget may come at any time.
LEMMA PlainIsSane ==
  ASSUME NEW es, NEW e \in Event, e.kind \notin LifeKinds
  PROVE  Sane(es, e)
BY DEF Sane, LifeKinds

-----------------------------------------------------------------------------
(* What the handlers record keeps the books. *)

\* Records of other authorizations leave one alone.
idleStep(p, s, e) == s
skipClaim(p, more, s) ==
  (\A i \in DOMAIN more : more[i].kind \in LifeKinds => more[i].a # p[2]) =>
    railState(p[1] \o more, p[2]) = railState(p[1], p[2])
SkipFold == INSTANCE FoldTheorems WITH Step <- idleStep, Claim <- skipClaim

LEMMA LifeSkip ==
  ASSUME NEW es \in Seq(Event), NEW more \in Seq(Event), NEW a,
         \A i \in DOMAIN more : more[i].kind \in LifeKinds => more[i].a # a
  PROVE  railState(es \o more, a) = railState(es, a)
<1> DEFINE p == <<es, a>>
<1>1. skipClaim(p, <<>>, 0)
  BY WholePrefix DEF skipClaim
<1>2. ASSUME NEW fs \in Seq(Event), NEW e \in Event, skipClaim(p, fs, SkipFold!total(p, 0, fs))
      PROVE  skipClaim(p, Append(fs, e), idleStep(p, SkipFold!total(p, 0, fs), e))
  <2> SUFFICES ASSUME \A i \in DOMAIN Append(fs, e) :
                        Append(fs, e)[i].kind \in LifeKinds => Append(fs, e)[i].a # a
               PROVE  railState(es \o Append(fs, e), a) = railState(es, a)
    BY DEF skipClaim
  <2>1. /\ \A i \in DOMAIN fs : i \in DOMAIN Append(fs, e) /\ Append(fs, e)[i] = fs[i]
        /\ Len(fs) + 1 \in DOMAIN Append(fs, e) /\ Append(fs, e)[Len(fs) + 1] = e
    BY AppendPlaces
  <2>2. railState(es \o fs, a) = railState(es, a)
    BY <1>2, <2>1 DEF skipClaim
  <2>3. e.kind \in LifeKinds => e.a # a
    BY <2>1
  <2>4. es \o fs \in Seq(Event) /\ es \o Append(fs, e) = Append(es \o fs, e)
    BY ConcatPlaces
  <2>5. railState(Append(es \o fs, e), a) = lifeStep(a, railState(es \o fs, a), e)
    BY <2>4, LifeAppend
  <2>6. lifeStep(a, railState(es \o fs, a), e) = railState(es \o fs, a)
    BY <2>3 DEF lifeStep, LifeKinds
  <2> QED
    BY <2>2, <2>4, <2>5, <2>6
<1> HIDE DEF p
<1>3. skipClaim(p, more, SkipFold!total(p, 0, more))
  BY <1>1, <1>2, SkipFold!FoldInduction
<1> QED
  BY <1>3 DEF skipClaim, p

\* Records of a decision of a for g, of a report of a that finds its lifecycle at s.
IsDecision(ds, a, g, amount) ==
  \E now \in Nat, decision \in {"ALLOW", "DENY", "ESCALATE"}, reason \in Why,
     key \in Keys \cup {None}, parent \in AuthIds \cup {None}, exp \in Nat \ {0}, hasToken \in BOOLEAN :
    ds = decisionRecords(a, g, now, amount, decision, reason, key, parent, exp, hasToken)
IsReport(rs, s, a, g) ==
  \E outcome \in Outcomes \ {"none"}, by \in Reporters, now \in Nat :
    rs = reportEvents(s, a, g, outcome, by, now)

\* Nothing in the log is of a.
Unheard(es, a) == \A i \in DOMAIN es : es[i].kind \in LifeKinds => es[i].a # a

\* The forms they come in: a decision with its hold or with its request, and its
\* receipt; a submission, or a settlement with what it gives back or takes again.
DecisionForm(ds, a, g, amount) ==
  \E d \in Event, h \in Event, q \in Event, c \in Event :
    /\ d.kind = "decision" /\ h.kind = "reservation"
    /\ q.kind = "approval_request" /\ c.kind = "receipt"
    /\ d.a = a /\ h.a = a /\ d.amount = amount /\ h.amount = amount /\ h.exp # 0
    /\ d.g = g /\ h.g = g /\ q.g = g /\ c.g = g
    /\ ds = <<d, h, c>> \/ ds = <<d, q, c>> \/ ds = <<d, c>>

ReportForm(rs, s, a, g) ==
  \E x \in Event, y \in Event :
    /\ x.a = a /\ x.g = g /\ y.a = a /\ y.g = g /\ y.amount = s.amount
    /\ x.kind = "settlement" => x.outcome \in {"settled", "failed"}
    /\ \/ rs = <<x>> /\ x.kind = "submission"
       \/ rs = <<x>> /\ x.kind = "settlement" /\ (x.outcome = "settled" => s.reserved)
       \/ /\ rs = <<y, x>> /\ x.kind = "settlement"
          /\ \/ y.kind = "reversal" /\ s.reserved /\ x.outcome = "failed"
             \/ y.kind = "reservation" /\ ~s.reserved

LEMMA DecisionForms ==
  ASSUME NEW a \in AuthIds, NEW g \in Grants, NEW amount \in 0..MaxAmount,
         NEW ds, IsDecision(ds, a, g, amount)
  PROVE  DecisionForm(ds, a, g, amount)
<1>1. PICK now \in Nat, decision \in {"ALLOW", "DENY", "ESCALATE"}, reason \in Why,
           key \in Keys \cup {None}, parent \in AuthIds \cup {None}, exp \in Nat \ {0},
           hasToken \in BOOLEAN :
         ds = decisionRecords(a, g, now, amount, decision, reason, key, parent, exp, hasToken)
  BY DEF IsDecision
<1> DEFINE base == [NoEvent EXCEPT !.a = a, !.g = g, !.ts = now, !.amount = amount]
           d == [base EXCEPT !.kind = "decision", !.decision = decision, !.reason = reason,
                             !.key = key, !.parent = parent]
           h == [base EXCEPT !.kind = "reservation", !.exp = exp, !.token = hasToken]
           q == [base EXCEPT !.kind = "approval_request"]
           c == [base EXCEPT !.kind = "receipt", !.amount = 0]
<1>2. amount \in Nat
  BY MoneyAssumption
<1>3. d \in Event /\ d.kind = "decision" /\ d.a = a /\ d.g = g /\ d.amount = amount
  BY <1>2 DEF Event, NoEvent, Kinds, Decisions, Outcomes
<1>4. h \in Event /\ h.kind = "reservation" /\ h.a = a /\ h.g = g /\ h.amount = amount /\ h.exp # 0
  BY <1>2 DEF Event, NoEvent, Kinds, Decisions, Outcomes, Why
<1>5. q \in Event /\ q.kind = "approval_request" /\ q.g = g
  BY <1>2 DEF Event, NoEvent, Kinds, Decisions, Outcomes, Why
<1>6. c \in Event /\ c.kind = "receipt" /\ c.g = g
  BY <1>2 DEF Event, NoEvent, Kinds, Decisions, Outcomes, Why
<1>7. ds = <<d>> \o (IF decision = "ALLOW" THEN <<h>> ELSE <<>>)
             \o (IF decision = "ESCALATE" THEN <<q>> ELSE <<>>) \o <<c>>
  BY <1>1 DEF decisionRecords
<1> HIDE DEF d, h, q, c
<1>8. CASE decision = "ALLOW"
  <2>1. ds = <<d>> \o <<h>> \o <<>> \o <<c>>
    BY <1>7, <1>8
  <2>2. <<d>> \o <<h>> \o <<>> = <<d, h>>
    BY <1>3, <1>4, Pair
  <2>3. ds = <<d, h, c>>
    <3>1. <<d, h>> \o <<c>> = <<d, h, c>>
      BY Triple, Zenon
    <3> QED
      BY <2>1, <2>2, <3>1, Zenon
  <2> QED
    BY <1>3, <1>4, <1>5, <1>6, <2>3 DEF DecisionForm
<1>9. CASE decision = "ESCALATE"
  <2>1. ds = <<d>> \o <<>> \o <<q>> \o <<c>>
    BY <1>7, <1>9
  <2>2. <<d>> \o <<>> \o <<q>> = <<d, q>>
    BY <1>3, <1>5, Pair
  <2>3. ds = <<d, q, c>>
    <3>1. <<d, q>> \o <<c>> = <<d, q, c>>
      BY Triple, Zenon
    <3> QED
      BY <2>1, <2>2, <3>1, Zenon
  <2> QED
    BY <1>3, <1>4, <1>5, <1>6, <2>3 DEF DecisionForm
<1>10. CASE decision = "DENY"
  <2>1. ds = <<d>> \o <<>> \o <<>> \o <<c>>
    BY <1>7, <1>10
  <2>2. ds = <<d, c>>
    BY <1>3, <1>6, <2>1, Pair
  <2> QED
    BY <1>3, <1>4, <1>5, <1>6, <2>2 DEF DecisionForm
<1> QED
  BY <1>8, <1>9, <1>10

LEMMA DecisionSteady ==
  ASSUME NEW es, Books(es), NEW a \in AuthIds, NEW g \in Grants, NEW amount \in 0..MaxAmount,
         Unheard(es, a), NEW ds, IsDecision(ds, a, g, amount)
  PROVE  ds \in Seq(Event) /\ Steady(es, ds) /\ \A i \in DOMAIN ds : ds[i].g = g
<1>1. PICK d \in Event, h \in Event, q \in Event, c \in Event :
        /\ d.kind = "decision" /\ h.kind = "reservation"
        /\ q.kind = "approval_request" /\ c.kind = "receipt"
        /\ d.a = a /\ h.a = a /\ d.amount = amount /\ h.amount = amount /\ h.exp # 0
        /\ d.g = g /\ h.g = g /\ q.g = g /\ c.g = g
        /\ ds = <<d, h, c>> \/ ds = <<d, q, c>> \/ ds = <<d, c>>
  BY DecisionForms DEF DecisionForm
<1>2. es \in Seq(Event)
  BY DEF Books
<1> DEFINE one == Append(es, d)
<1>3. Sane(es, d)
  BY <1>1 DEF Sane, LifeKinds, Unheard
<1>4. one \in Seq(Event) /\ Books(one)
  BY <1>3, BooksAppend DEF Books
<1>5. Sane(one, h)
  <2>1. Owner(one, a, g)
    <3>1. Len(es) + 1 \in DOMAIN one /\ one[Len(es) + 1] = d
      BY <1>1, <1>2, AppendPlaces
    <3> HIDE DEF one
    <3> QED
      BY <1>1, <3>1 DEF Owner
  <2>2. railState(one, a).amount = amount /\ ~railState(one, a).reserved
    BY <1>1, <1>3, LifeMoves
  <2> HIDE DEF one
  <2> QED
    BY <1>1, <2>1, <2>2 DEF Sane, LifeKinds
<1>6. \A fs : Sane(fs, q) /\ Sane(fs, c)
  BY <1>1, PlainIsSane DEF LifeKinds
<1> HIDE DEF one
<1>7. CASE ds = <<d, h, c>>
  <2>1. Steady(es, <<d, h, c>>)
    BY <1>3, <1>5, <1>6, SteadyThree DEF one
  <2> QED
    BY <1>1, <1>7, <2>1
<1>8. CASE ds = <<d, q, c>>
  <2>1. Steady(es, <<d, q, c>>)
    BY <1>3, <1>6, SteadyThree
  <2> QED
    BY <1>1, <1>8, <2>1
<1>9. CASE ds = <<d, c>>
  <2>1. Steady(es, <<d, c>>)
    BY <1>3, <1>6, SteadyTwo
  <2> QED
    BY <1>1, <1>9, <2>1
<1> QED
  BY <1>1, <1>7, <1>8, <1>9

LEMMA ReportForms ==
  ASSUME NEW s \in Lifecycle, NEW a \in AuthIds, NEW g \in Grants, NEW rs, IsReport(rs, s, a, g)
  PROVE  ReportForm(rs, s, a, g)
<1>1. PICK outcome \in Outcomes \ {"none"}, by \in Reporters, now \in Nat :
        rs = reportEvents(s, a, g, outcome, by, now)
  BY DEF IsReport
<1> DEFINE base == [NoEvent EXCEPT !.a = a, !.g = g, !.ts = now]
           ended == [base EXCEPT !.kind = "settlement", !.outcome = outcome, !.by = by]
           sub == [base EXCEPT !.kind = "submission", !.by = by, !.exp = now + GRACE]
           back == [base EXCEPT !.kind = "reversal", !.amount = s.amount]
           again == [base EXCEPT !.kind = "reservation", !.amount = s.amount, !.late = TRUE]
           done == [ended EXCEPT !.late = ~s.reserved]
           Fine(e) == e \in Event /\ e.a = a /\ e.g = g
<1>2. s.amount \in Nat /\ s.reserved \in BOOLEAN
  BY DEF Lifecycle
<1>3. now + GRACE \in Nat
  BY ServerAssumption
<1>4. ended \in Event /\ sub \in Event
  BY <1>2, <1>3 DEF Event, NoEvent, Kinds, Decisions, Outcomes, Why
<1>5. back \in Event /\ again \in Event /\ done \in Event
  <2>1. back \in Event
    BY <1>2 DEF Event, NoEvent, Kinds, Decisions, Outcomes, Why
  <2>2. again \in Event
    BY <1>2 DEF Event, NoEvent, Kinds, Decisions, Outcomes, Why
  <2>3. done \in Event
    BY <1>2, ZenonT(40) DEF Event, NoEvent, Kinds, Decisions, Outcomes, Why
  <2> QED
    BY <2>1, <2>2, <2>3
<1>6. /\ Fine(ended) /\ ended.kind = "settlement" /\ ended.outcome = outcome
      /\ Fine(sub) /\ sub.kind = "submission"
  BY <1>4 DEF NoEvent
<1>7. /\ Fine(back) /\ back.kind = "reversal" /\ back.amount = s.amount
      /\ Fine(again) /\ again.kind = "reservation" /\ again.amount = s.amount
      /\ Fine(done) /\ done.kind = "settlement" /\ done.outcome = outcome
  BY <1>5 DEF NoEvent
<1>8. /\ outcome = "submitted" => rs = <<sub>>
      /\ outcome = "failed" => rs = (IF s.reserved THEN <<back>> ELSE <<>>) \o <<ended>>
      /\ outcome = "settled" => rs = (IF ~s.reserved THEN <<again>> ELSE <<>>) \o <<done>>
  BY <1>1 DEF reportEvents
<1> HIDE DEF ended, sub, back, again, done
<1>9. outcome \in {"submitted", "failed", "settled"}
  BY DEF Outcomes
<1>10. <<back>> \o <<ended>> = <<back, ended>> /\ <<again>> \o <<done>> = <<again, done>>
      /\ <<>> \o <<ended>> = <<ended>> /\ <<>> \o <<done>> = <<done>>
  BY <1>6, <1>7, Pair
<1>11. CASE outcome = "submitted"
  BY <1>6, <1>7, <1>8, <1>11 DEF ReportForm
<1>12. CASE outcome = "failed" /\ s.reserved
  <2>1. rs = <<back, ended>>
    BY <1>8, <1>10, <1>12
  <2> QED
    BY <1>6, <1>7, <1>12, <2>1 DEF ReportForm
<1>13. CASE outcome = "failed" /\ ~s.reserved
  <2>1. rs = <<ended>>
    BY <1>8, <1>10, <1>13
  <2> QED
    BY <1>6, <1>7, <1>13, <2>1 DEF ReportForm
<1>14. CASE outcome = "settled" /\ ~s.reserved
  <2>1. rs = <<again, done>>
    BY <1>8, <1>10, <1>14
  <2> QED
    BY <1>6, <1>7, <1>14, <2>1 DEF ReportForm
<1>15. CASE outcome = "settled" /\ s.reserved
  <2>1. rs = <<done>>
    BY <1>8, <1>10, <1>15
  <2> QED
    BY <1>6, <1>7, <1>15, <2>1 DEF ReportForm
<1> QED
  BY <1>2, <1>9, <1>11, <1>12, <1>13, <1>14, <1>15

\* The records of a report of an authorization.
LEMMA ReportSteady ==
  ASSUME NEW es, Books(es), NEW a \in AuthIds, NEW g \in Grants, Owner(es, a, g),
         NEW s, s = railState(es, a), NEW rs, IsReport(rs, s, a, g)
  PROVE  rs \in Seq(Event) /\ Steady(es, rs) /\ \A i \in DOMAIN rs : rs[i].g = g
<1>1. es \in Seq(Event) /\ s \in Lifecycle
  BY LifeType DEF Books
<1>2. PICK x \in Event, y \in Event :
        /\ x.a = a /\ x.g = g /\ y.a = a /\ y.g = g /\ y.amount = s.amount
        /\ x.kind = "settlement" => x.outcome \in {"settled", "failed"}
        /\ \/ rs = <<x>> /\ x.kind = "submission"
           \/ rs = <<x>> /\ x.kind = "settlement" /\ (x.outcome = "settled" => s.reserved)
           \/ /\ rs = <<y, x>> /\ x.kind = "settlement"
              /\ \/ y.kind = "reversal" /\ s.reserved /\ x.outcome = "failed"
                 \/ y.kind = "reservation" /\ ~s.reserved
  BY <1>1, ReportForms DEF ReportForm
<1>3. CASE rs = <<x>> /\ Sane(es, x)
  <2>1. Steady(es, <<x>>)
    BY <1>3, SteadyOne
  <2> QED
    BY <1>2, <1>3, <2>1
<1>4. CASE /\ rs = <<y, x>> /\ x.kind = "settlement"
           /\ \/ y.kind = "reversal" /\ s.reserved /\ x.outcome = "failed"
              \/ y.kind = "reservation" /\ ~s.reserved
  <2>1. Sane(es, y)
    BY <1>2, <1>4 DEF Sane, LifeKinds
  <2>2. y.kind = "reservation" => railState(Append(es, y), a).reserved
    BY <1>2, <2>1, LifeMoves
  <2>3. Owner(Append(es, y), a, g)
    BY <1>1, OwnerAppend
  <2>4. Sane(Append(es, y), x)
    BY <1>2, <1>4, <2>2, <2>3 DEF Sane, LifeKinds
  <2>5. Steady(es, <<y, x>>)
    BY <2>1, <2>4, SteadyTwo
  <2> QED
    BY <1>2, <1>4, <2>5
<1>5. x.kind = "submission" => Sane(es, x)
  BY <1>2 DEF Sane, LifeKinds
<1>6. x.kind = "settlement" /\ (x.outcome = "settled" => s.reserved) => Sane(es, x)
  BY <1>2 DEF Sane, LifeKinds
<1> HIDE DEF Steady, Sane
<1> QED
  BY <1>2, <1>3, <1>4, <1>5, <1>6, Zenon

\* Reversals of holds of different authorizations, each of the whole hold.
Releases(es, g, rs) ==
  /\ \A i \in DOMAIN rs :
       /\ rs[i].kind = "reversal" /\ rs[i].g = g /\ rs[i].a \in AuthIds
       /\ Owner(es, rs[i].a, g) /\ railState(es, rs[i].a).reserved
       /\ rs[i].amount = railState(es, rs[i].a).amount
  /\ \A i, j \in DOMAIN rs : rs[i].a = rs[j].a => i = j

backClaim(p, rs, s) == Releases(p[1], p[2], rs) => Steady(p[1], rs)
BackFold == INSTANCE FoldTheorems WITH Step <- idleStep, Claim <- backClaim

LEMMA SweepSteady ==
  ASSUME NEW es, Books(es), NEW g \in Grants, NEW rs \in Seq(Event), Releases(es, g, rs)
  PROVE  Steady(es, rs)
<1> DEFINE p == <<es, g>>
<1>0. es \in Seq(Event)
  BY DEF Books
<1>1. backClaim(p, <<>>, 0)
  BY SteadyEmpty DEF backClaim
<1>2. ASSUME NEW fs \in Seq(Event), NEW e \in Event, backClaim(p, fs, BackFold!total(p, 0, fs))
      PROVE  backClaim(p, Append(fs, e), idleStep(p, BackFold!total(p, 0, fs), e))
  <2> SUFFICES ASSUME Releases(es, g, Append(fs, e)) PROVE Steady(es, Append(fs, e))
    BY DEF backClaim
  <2>1. /\ \A i \in DOMAIN fs : i \in DOMAIN Append(fs, e) /\ Append(fs, e)[i] = fs[i]
        /\ Len(fs) + 1 \in DOMAIN Append(fs, e) /\ Append(fs, e)[Len(fs) + 1] = e
        /\ Len(fs) + 1 \notin DOMAIN fs
    BY AppendPlaces
  <2>2. Releases(es, g, fs)
    BY <2>1 DEF Releases
  <2>3. Steady(es, fs)
    BY <1>2, <2>2 DEF backClaim
  <2>4. /\ e.kind = "reversal" /\ e.g = g /\ e.a \in AuthIds /\ Owner(es, e.a, g)
        /\ railState(es, e.a).reserved /\ e.amount = railState(es, e.a).amount
    BY <2>1 DEF Releases
  <2>5. \A i \in DOMAIN fs : fs[i].a # e.a
    BY <2>1 DEF Releases
  <2>6. railState(es \o fs, e.a) = railState(es, e.a) /\ Owner(es \o fs, e.a, g)
    BY <1>0, <2>4, <2>5, LifeSkip, OwnerConcat
  <2>7. Sane(es \o fs, e)
    BY <2>4, <2>6 DEF Sane, LifeKinds
  <2> QED
    BY <1>0, <2>3, <2>7, SteadyAppend
<1> HIDE DEF p
<1>3. backClaim(p, rs, BackFold!total(p, 0, rs))
  BY <1>1, <1>2, BackFold!FoldInduction
<1> QED
  BY <1>3 DEF backClaim, p

\* What the sweep writes, by the rows it has read.
SweepsRows(es, g, rs) ==
  /\ \A i \in DOMAIN rs : /\ rs[i].kind = "reversal" /\ rs[i].g = g /\ rs[i].a \in AuthIds
                          /\ sweepRow(es, g, rs[i].a).open
                          /\ rs[i].amount = sweepRow(es, g, rs[i].a).amount
  /\ \A i, j \in DOMAIN rs : rs[i].a = rs[j].a => i = j

-----------------------------------------------------------------------------
(* The sweep's rows and the lifecycles. *)

\* The row that the sweep keeps of a for its grant is the lifecycle's hold and
\* deadline while it can be swept.
Mirrored(es, a) ==
  \A g \in Grants : decisionOf(es, a).g = g =>
    /\ sweepRow(es, g, a).open <=> sweepable(railState(es, a))
    /\ sweepRow(es, g, a).open => sweepRow(es, g, a).deadline = railState(es, a).deadline
Mirrors(es) == \A a \in AuthIds : Mirrored(es, a)

\* An authorization of a grant g is mirrored as soon as its row of g is.
LEMMA MirroredBy ==
  ASSUME NEW es, Books(es), NEW a \in AuthIds, NEW g \in Grants, Owner(es, a, g),
         NEW r, r = sweepRow(es, g, a), NEW s, s = railState(es, a),
         r.open <=> sweepable(s), r.open => r.deadline = s.deadline
  PROVE  Mirrored(es, a)
<1>1. decisionOf(es, a).g = g
  BY OwnerIs DEF Books
<1> QED
  BY <1>1 DEF Mirrored

\* The records of others leave it mirrored.
LEMMA MirrorOthers ==
  ASSUME NEW es \in Seq(Event), NEW e \in Event, NEW a \in AuthIds, Mirrored(es, a),
         e.kind \in LifeKinds => e.a # a
  PROVE  Mirrored(Append(es, e), a)
<1>1. decisionOf(Append(es, e), a) = decisionOf(es, a)
  BY DecisionAppend DEF LifeKinds
<1>2. railState(Append(es, e), a) = railState(es, a)
  <2>1. railState(Append(es, e), a) = lifeStep(a, railState(es, a), e)
    BY LifeAppend
  <2> QED
    BY <2>1 DEF lifeStep, LifeKinds
<1>3. \A g \in Grants : sweepRow(Append(es, e), g, a) = sweepRow(es, g, a)
  <2> TAKE g \in Grants
  <2> DEFINE p == <<g, a>>
             r == sweepRow(es, g, a)
  <2>1. sweepRow(Append(es, e), g, a) = rowStep(p, r, e)
    BY RowAppend
  <2>2. p[1] = g /\ p[2] = a
    OBVIOUS
  <2> HIDE DEF p, r
  <2>3. rowStep(p, r, e) = r
    BY <2>2 DEF rowStep, LifeKinds
  <2> QED
    BY <2>1, <2>3 DEF r
<1> QED
  BY <1>1, <1>2, <1>3 DEF Mirrored

\* The step a record makes of its own row and of its own lifecycle.
LEMMA OwnSteps ==
  ASSUME NEW es, Books(es), NEW e, Sane(es, e), Owner(es, e.a, e.g), e.a \in AuthIds, e.g \in Grants,
         NEW p, p = <<e.g, e.a>>
  PROVE  /\ Books(Append(es, e)) /\ Owner(Append(es, e), e.a, e.g) /\ p[1] = e.g /\ p[2] = e.a
         /\ sweepRow(Append(es, e), e.g, e.a) = rowStep(p, sweepRow(es, e.g, e.a), e)
         /\ railState(Append(es, e), e.a) = lifeStep(e.a, railState(es, e.a), e)
         /\ sweepRow(es, e.g, e.a) \in Row /\ railState(es, e.a) \in Lifecycle
<1>1. es \in Seq(Event) /\ e \in Event
  BY DEF Books, Sane
<1> PICK g \in Grants : g = e.g
  OBVIOUS
<1> PICK a \in AuthIds : a = e.a
  OBVIOUS
<1>2. sweepRow(Append(es, e), g, a) = rowStep(<<g, a>>, sweepRow(es, g, a), e)
  BY <1>1, RowAppend
<1> QED
  BY <1>1, <1>2, BooksAppend, OwnerAppend, LifeAppend, RowType, LifeType

\* What ends a hold closes its row.
LEMMA MirrorEnds ==
  ASSUME NEW es, Books(es), NEW e, Sane(es, e), Owner(es, e.a, e.g), e.a \in AuthIds, e.g \in Grants,
         e.kind = "reversal" \/ (e.kind = "settlement" /\ e.outcome \in {"settled", "failed"})
  PROVE  Mirrored(Append(es, e), e.a)
<1> DEFINE p == <<e.g, e.a>>
           r == sweepRow(Append(es, e), e.g, e.a)
           s == railState(Append(es, e), e.a)
           before == railState(es, e.a)
<1>1. /\ Books(Append(es, e)) /\ Owner(Append(es, e), e.a, e.g) /\ p[1] = e.g /\ p[2] = e.a
      /\ r = rowStep(p, sweepRow(es, e.g, e.a), e) /\ s = lifeStep(e.a, before, e)
      /\ before \in Lifecycle
  BY OwnSteps
<1> HIDE DEF p, r, s, before
<1>2. ~r.open
  BY <1>1 DEF rowStep, Closed
<1>3. CASE e.kind = "reversal"
  <2>1. s.reserved = FALSE
    BY <1>1, <1>3 DEF lifeStep, onReversal, Lifecycle
  <2> QED
    BY <1>1, <1>2, <2>1, MirroredBy DEF sweepable, r, s
<1>4. CASE e.kind = "settlement" /\ e.outcome \in {"settled", "failed"}
  <2>1. s.outcome = e.outcome
    BY <1>1, <1>4 DEF lifeStep, onSettlement, Lifecycle
  <2>2. ~sweepable(s)
    BY <1>4, <2>1 DEF sweepable, settled, failed
  <2> QED
    BY <1>1, <1>2, <2>2, MirroredBy DEF r, s
<1> QED
  BY <1>3, <1>4

\* What takes a hold with a deadline opens it.
LEMMA MirrorOpens ==
  ASSUME NEW es, Books(es), NEW e, Sane(es, e), Owner(es, e.a, e.g), e.a \in AuthIds, e.g \in Grants,
         e.kind = "reservation", e.exp # 0, ~terminal(railState(es, e.a))
  PROVE  Mirrored(Append(es, e), e.a)
<1> DEFINE p == <<e.g, e.a>>
           r == sweepRow(Append(es, e), e.g, e.a)
           s == railState(Append(es, e), e.a)
           before == railState(es, e.a)
<1>1. /\ Books(Append(es, e)) /\ Owner(Append(es, e), e.a, e.g) /\ p[1] = e.g /\ p[2] = e.a
      /\ r = rowStep(p, sweepRow(es, e.g, e.a), e) /\ s = lifeStep(e.a, before, e)
      /\ before \in Lifecycle
  BY OwnSteps
<1>2. ~terminal(before)
  OBVIOUS
<1> HIDE DEF p, r, s, before
<1>3. r.open /\ r.deadline = e.exp
  BY <1>1 DEF rowStep
<1>4. s = [onReservation(before, e.exp, e.token) EXCEPT !.amount = e.amount]
  BY <1>1 DEF lifeStep
<1>5. s.reserved /\ s.deadline = e.exp /\ s.outcome = before.outcome
  BY <1>1, <1>4 DEF onReservation, Lifecycle
<1>6. sweepable(s)
  BY <1>2, <1>5 DEF sweepable, terminal, settled, failed
<1> QED
  BY <1>1, <1>3, <1>5, <1>6, MirroredBy DEF r, s

\* What extends a deadline extends both.
LEMMA MirrorExtends ==
  ASSUME NEW es, Books(es), NEW e, Sane(es, e), Owner(es, e.a, e.g), e.a \in AuthIds, e.g \in Grants,
         Mirrored(es, e.a), e.kind = "submission", ~terminal(railState(es, e.a))
  PROVE  Mirrored(Append(es, e), e.a)
<1> DEFINE p == <<e.g, e.a>>
           r == sweepRow(Append(es, e), e.g, e.a)
           s == railState(Append(es, e), e.a)
           row == sweepRow(es, e.g, e.a)
           before == railState(es, e.a)
<1>1. /\ Books(Append(es, e)) /\ Owner(Append(es, e), e.a, e.g) /\ p[1] = e.g /\ p[2] = e.a
      /\ r = rowStep(p, row, e) /\ s = lifeStep(e.a, before, e)
      /\ row \in Row /\ before \in Lifecycle
  BY OwnSteps
<1>2. decisionOf(es, e.a).g = e.g
  BY OwnerIs DEF Books
<1>3. (row.open <=> sweepable(before)) /\ (row.open => row.deadline = before.deadline)
  BY <1>2 DEF Mirrored
<1>4. ~terminal(before) /\ e.exp \in Nat
  BY DEF Sane, Event
<1> HIDE DEF p, r, s, row, before
<1>5. s = onSubmission(before, e.by, e.exp)
  BY <1>1 DEF lifeStep
<1>6. /\ s.reserved = before.reserved /\ s.outcome = "submitted"
      /\ s.deadline = IF e.exp > before.deadline THEN e.exp ELSE before.deadline
  BY <1>1, <1>5 DEF onSubmission, Lifecycle
<1>7. sweepable(s) <=> sweepable(before)
  BY <1>4, <1>6 DEF sweepable, terminal, settled, failed
<1>8. r = IF row.open /\ e.exp > row.deadline THEN [row EXCEPT !.deadline = e.exp] ELSE row
  BY <1>1 DEF rowStep
<1>9. r.open = row.open /\ (row.open => r.deadline = s.deadline)
  BY <1>1, <1>3, <1>4, <1>6, <1>8 DEF Row, Lifecycle
<1> QED
  BY <1>1, <1>3, <1>7, <1>9, MirroredBy DEF r, s

\* What is decided anew is not held yet.
LEMMA MirrorDecides ==
  ASSUME NEW es, Books(es), NEW e, Sane(es, e), e.kind = "decision"
  PROVE  /\ Mirrored(Append(es, e), e.a) /\ Books(Append(es, e)) /\ Owner(Append(es, e), e.a, e.g)
         /\ ~terminal(railState(Append(es, e), e.a))
<1>1. es \in Seq(Event) /\ e \in Event /\ e.a \in AuthIds /\ e.g \in Grants
  BY DEF Books, Sane, LifeKinds
<1> PICK g \in Grants : g = e.g
  BY <1>1
<1> PICK a \in AuthIds : a = e.a
  BY <1>1
<1> DEFINE fs == Append(es, e)
           p == <<g, a>>
           r == sweepRow(fs, g, a)
           s == railState(fs, a)
<1>2. Books(fs)
  BY BooksAppend
<1>3. Owner(fs, a, g)
  <2>1. Len(es) + 1 \in DOMAIN fs /\ fs[Len(es) + 1] = e
    BY <1>1, AppendPlaces
  <2> HIDE DEF fs
  <2> QED
    BY <2>1 DEF Owner
<1>4. \A i \in DOMAIN es : es[i].kind \in LifeKinds => es[i].a # a
  BY DEF Sane
<1>5. railState(es, a) = NoState
  BY <1>1, <1>4, LifeUnknown
<1>6. s = onDecision(NoState, e.decision, e.amount)
  BY <1>1, <1>5, LifeAppend DEF lifeStep
<1>7. ~sweepRow(es, g, a).open
  BY <1>5 DEF Books, RowsHeld, NoState
<1>8. r = sweepRow(es, g, a)
  <2> DEFINE row == sweepRow(es, g, a)
  <2>1. r = rowStep(p, row, e)
    BY <1>1, RowAppend
  <2>2. p[1] = g /\ p[2] = a
    OBVIOUS
  <2> HIDE DEF p, r, row
  <2>3. rowStep(p, row, e) = row
    BY <2>2 DEF rowStep
  <2> QED
    BY <2>1, <2>3 DEF row
<1> HIDE DEF fs, r, s
<1>9. s.reserved = FALSE /\ s.outcome = "none"
  BY <1>6 DEF onDecision, NoState
<1>10. ~sweepable(s) /\ ~terminal(s) /\ ~r.open
  BY <1>7, <1>8, <1>9 DEF sweepable, terminal, settled, failed
<1>11. Mirrored(fs, a)
  BY <1>2, <1>3, <1>10, MirroredBy DEF r, s
<1> QED
  BY <1>2, <1>3, <1>10, <1>11 DEF fs, s

LEMMA MirrorPlain ==
  ASSUME NEW es \in Seq(Event), Mirrors(es), NEW e \in Event, e.kind \notin LifeKinds
  PROVE  Mirrors(Append(es, e))
BY MirrorOthers DEF Mirrors

LEMMA MirrorOwn ==
  ASSUME NEW es \in Seq(Event), Mirrors(es), NEW e \in Event, Mirrored(Append(es, e), e.a)
  PROVE  Mirrors(Append(es, e))
<1> SUFFICES ASSUME NEW a \in AuthIds PROVE Mirrored(Append(es, e), a)
  BY DEF Mirrors
<1>1. CASE e.a = a
  BY <1>1
<1>2. CASE e.a # a
  <2>1. Mirrored(es, a)
    BY DEF Mirrors
  <2> QED
    BY <1>2, <2>1, MirrorOthers
<1> QED
  BY <1>1, <1>2

LEMMA DecisionMirrors ==
  ASSUME NEW es, Books(es), Mirrors(es), NEW a \in AuthIds, NEW g \in Grants, NEW amount \in 0..MaxAmount,
         Unheard(es, a), NEW ds, IsDecision(ds, a, g, amount)
  PROVE  Mirrors(es \o ds)
<1>1. PICK d \in Event, h \in Event, q \in Event, c \in Event :
        /\ d.kind = "decision" /\ h.kind = "reservation"
        /\ q.kind = "approval_request" /\ c.kind = "receipt"
        /\ d.a = a /\ h.a = a /\ d.amount = amount /\ h.amount = amount /\ h.exp # 0
        /\ d.g = g /\ h.g = g /\ q.g = g /\ c.g = g
        /\ ds = <<d, h, c>> \/ ds = <<d, q, c>> \/ ds = <<d, c>>
  BY DecisionForms DEF DecisionForm
<1>2. es \in Seq(Event)
  BY DEF Books
<1> DEFINE one == Append(es, d)
<1>3. Sane(es, d)
  BY <1>1 DEF Sane, LifeKinds, Unheard
<1>4. /\ Mirrored(one, a) /\ Books(one) /\ Owner(one, a, g) /\ ~terminal(railState(one, a))
      /\ one \in Seq(Event)
  BY <1>1, <1>3, MirrorDecides DEF Books
<1>5. Mirrors(one)
  BY <1>1, <1>2, <1>4, MirrorOwn
<1>6. railState(one, a).amount = amount /\ ~railState(one, a).reserved
  BY <1>1, <1>3, LifeMoves
<1> HIDE DEF one
<1>7. CASE ds = <<d, h, c>>
  <2>1. Sane(one, h)
    BY <1>1, <1>4, <1>6 DEF Sane, LifeKinds
  <2>2. Mirrored(Append(one, h), a)
    BY <1>1, <1>4, <2>1, MirrorOpens
  <2>3. Append(one, h) \in Seq(Event) /\ Mirrors(Append(one, h))
    BY <1>1, <1>4, <1>5, <2>2, MirrorOwn, AppendPlaces
  <2>4. Mirrors(Append(Append(one, h), c))
    BY <1>1, <2>3, MirrorPlain DEF LifeKinds
  <2>5. es \o <<d, h, c>> = Append(Append(one, h), c)
    BY <1>1, <1>2 DEF one
  <2> QED
    BY <1>7, <2>4, <2>5
<1>8. CASE ds = <<d, q, c>>
  <2>1. Append(one, q) \in Seq(Event) /\ Mirrors(Append(one, q))
    BY <1>1, <1>4, <1>5, MirrorPlain, AppendPlaces DEF LifeKinds
  <2>2. Mirrors(Append(Append(one, q), c))
    BY <1>1, <2>1, MirrorPlain DEF LifeKinds
  <2>3. es \o <<d, q, c>> = Append(Append(one, q), c)
    BY <1>1, <1>2 DEF one
  <2> QED
    BY <1>8, <2>2, <2>3
<1>9. CASE ds = <<d, c>>
  <2>1. Mirrors(Append(one, c))
    BY <1>1, <1>4, <1>5, MirrorPlain DEF LifeKinds
  <2>2. es \o <<d, c>> = Append(one, c)
    BY <1>1, <1>2 DEF one
  <2> QED
    BY <1>9, <2>1, <2>2
<1> QED
  BY <1>1, <1>7, <1>8, <1>9

LEMMA ReportMirrors ==
  ASSUME NEW es, Books(es), Mirrors(es), NEW a \in AuthIds, NEW g \in Grants, Owner(es, a, g),
         NEW s, s = railState(es, a), ~terminal(s), NEW rs, IsReport(rs, s, a, g)
  PROVE  Mirrors(es \o rs)
<1>1. es \in Seq(Event) /\ s \in Lifecycle
  BY LifeType DEF Books
<1>2. PICK x \in Event, y \in Event :
        /\ x.a = a /\ x.g = g /\ y.a = a /\ y.g = g /\ y.amount = s.amount
        /\ x.kind = "settlement" => x.outcome \in {"settled", "failed"}
        /\ \/ rs = <<x>> /\ x.kind = "submission"
           \/ rs = <<x>> /\ x.kind = "settlement" /\ (x.outcome = "settled" => s.reserved)
           \/ /\ rs = <<y, x>> /\ x.kind = "settlement"
              /\ \/ y.kind = "reversal" /\ s.reserved /\ x.outcome = "failed"
                 \/ y.kind = "reservation" /\ ~s.reserved
  BY <1>1, ReportForms DEF ReportForm
<1>3. Mirrored(es, a)
  BY DEF Mirrors
<1>4. CASE rs = <<x>> /\ Sane(es, x)
  <2>0. x.kind = "submission" \/ x.kind = "settlement"
    BY <1>2, <1>4
  <2>1. Mirrored(Append(es, x), a)
    BY <1>2, <1>3, <1>4, <2>0, MirrorExtends, MirrorEnds
  <2>2. Mirrors(Append(es, x))
    BY <1>1, <1>2, <2>1, MirrorOwn
  <2>3. es \o <<x>> = Append(es, x)
    BY <1>1
  <2> QED
    BY <1>4, <2>2, <2>3
<1>5. CASE /\ rs = <<y, x>> /\ x.kind = "settlement"
           /\ \/ y.kind = "reversal" /\ s.reserved /\ x.outcome = "failed"
              \/ y.kind = "reservation" /\ ~s.reserved
  <2> DEFINE one == Append(es, y)
  <2>1. Sane(es, y)
    BY <1>2, <1>5 DEF Sane, LifeKinds
  <2>2. y.kind = "reservation" => railState(one, a).reserved
    BY <1>2, <2>1, LifeMoves
  <2>3. Owner(one, a, g) /\ Books(one) /\ one \in Seq(Event)
    BY <1>1, <2>1, OwnerAppend, BooksAppend DEF Books
  <2>4. es \o <<y, x>> = Append(one, x)
    BY <1>1
  <2>5. \A b \in AuthIds \ {a} : Mirrored(one, b)
    BY <1>1, <1>2, MirrorOthers DEF Mirrors
  <2> HIDE DEF one
  <2>6. Sane(one, x)
    BY <1>2, <1>5, <2>2, <2>3 DEF Sane, LifeKinds
  <2>7. Mirrored(Append(one, x), a)
    BY <1>2, <1>5, <2>3, <2>6, MirrorEnds
  <2>8. \A b \in AuthIds \ {a} : Mirrored(Append(one, x), b)
    BY <1>2, <2>3, <2>5, MirrorOthers
  <2>9. Mirrors(Append(one, x))
    BY <2>7, <2>8 DEF Mirrors
  <2> QED
    BY <1>5, <2>4, <2>9
<1>6. x.kind = "submission" => Sane(es, x)
  BY <1>2 DEF Sane, LifeKinds
<1>7. x.kind = "settlement" /\ (x.outcome = "settled" => s.reserved) => Sane(es, x)
  BY <1>2 DEF Sane, LifeKinds
<1> HIDE DEF Sane, Mirrors
<1> QED
  BY <1>2, <1>4, <1>5, <1>6, <1>7, Zenon

mirrorClaim(p, rs, s) == Releases(p[1], p[2], rs) => Mirrors(p[1] \o rs)
MirrorFold == INSTANCE FoldTheorems WITH Step <- idleStep, Claim <- mirrorClaim

LEMMA SweepMirrors ==
  ASSUME NEW es, Books(es), Mirrors(es), NEW g \in Grants, NEW rs \in Seq(Event), Releases(es, g, rs)
  PROVE  Mirrors(es \o rs)
<1> DEFINE p == <<es, g>>
<1>0. es \in Seq(Event)
  BY DEF Books
<1>1. mirrorClaim(p, <<>>, 0)
  BY <1>0, WholePrefix DEF mirrorClaim
<1>2. ASSUME NEW fs \in Seq(Event), NEW e \in Event, mirrorClaim(p, fs, MirrorFold!total(p, 0, fs))
      PROVE  mirrorClaim(p, Append(fs, e), idleStep(p, MirrorFold!total(p, 0, fs), e))
  <2> SUFFICES ASSUME Releases(es, g, Append(fs, e)) PROVE Mirrors(es \o Append(fs, e))
    BY DEF mirrorClaim
  <2>1. /\ \A i \in DOMAIN fs : i \in DOMAIN Append(fs, e) /\ Append(fs, e)[i] = fs[i]
        /\ Len(fs) + 1 \in DOMAIN Append(fs, e) /\ Append(fs, e)[Len(fs) + 1] = e
        /\ Len(fs) + 1 \notin DOMAIN fs
    BY AppendPlaces
  <2>2. Releases(es, g, fs)
    BY <2>1 DEF Releases
  <2>3. Mirrors(es \o fs) /\ Steady(es, fs)
    BY <1>2, <2>2, SweepSteady DEF mirrorClaim
  <2>4. /\ e.kind = "reversal" /\ e.g = g /\ e.a \in AuthIds /\ Owner(es, e.a, g)
        /\ railState(es, e.a).reserved /\ e.amount = railState(es, e.a).amount
    BY <2>1 DEF Releases
  <2>5. \A i \in DOMAIN fs : fs[i].a # e.a
    BY <2>1 DEF Releases
  <2> DEFINE all == es \o fs
  <2>6. /\ railState(all, e.a) = railState(es, e.a) /\ Owner(all, e.a, g) /\ Books(all)
        /\ all \in Seq(Event)
    BY <1>0, <2>3, <2>4, <2>5, LifeSkip, OwnerConcat, SteadyWhole DEF Books
  <2>7. es \o Append(fs, e) = Append(all, e)
    BY <1>0
  <2> HIDE DEF all
  <2>8. Sane(all, e)
    BY <2>4, <2>6 DEF Sane, LifeKinds
  <2>9. Mirrored(Append(all, e), e.a)
    BY <2>4, <2>6, <2>8, MirrorEnds
  <2>10. Mirrors(Append(all, e))
    BY <2>3, <2>6, <2>9, MirrorOwn DEF all
  <2> QED
    BY <2>7, <2>10
<1> HIDE DEF p
<1>3. mirrorClaim(p, rs, MirrorFold!total(p, 0, rs))
  BY <1>1, <1>2, MirrorFold!FoldInduction
<1> QED
  BY <1>3 DEF mirrorClaim, p

-----------------------------------------------------------------------------
LEMMA ReversalsAre ==
  ASSUME NEW es \in Seq(Event), NEW g \in Grants, NEW now \in Nat, NEW rs, rs = reversals(es, g, now)
  PROVE  rs \in Seq(Event) /\ SweepsRows(es, g, rs)
<1> DEFINE back(a) == [NoEvent EXCEPT !.kind = "reversal", !.a = a, !.g = g, !.ts = now,
                                      !.amount = sweepRow(es, g, a).amount]
           B == expiredReservations(es, g, now)
           S == {back(a) : a \in B}
<1>1. B \in SUBSET AuthIds /\ \A a \in B : sweepRow(es, g, a).open
  BY DEF expiredReservations
<1>2. IsFiniteSet(S)
  <2>1. IsFiniteSet(B)
    BY <1>1, FS_Subset, ServerAssumption
  <2> HIDE DEF back, B
  <2>2. [a \in B |-> back(a)] \in Surjection(B, {back(a) : a \in B})
    BY Fun_IsSurj
  <2> QED
    BY <2>1, <2>2, FS_Surjection
<1>3. \A a \in AuthIds : /\ back(a).kind = "reversal" /\ back(a).a = a /\ back(a).g = g
                         /\ back(a).amount = sweepRow(es, g, a).amount
  BY DEF NoEvent
<1>4. rs = SetToSeq(S)
  BY DEF reversals
<1>5. rs \in Seq(Event)
  BY Reversals
<1> HIDE DEF back, B
<1>6. \A e \in S : \E a \in B : e = back(a)
  OBVIOUS
<1> HIDE DEF S
<1>7. /\ \A i \in DOMAIN rs : rs[i] \in S
      /\ \A i, j \in DOMAIN rs : rs[i] = rs[j] => i = j
  BY <1>2, <1>4, InSomeOrder
<1>8. \A i \in DOMAIN rs : rs[i].a \in B /\ rs[i] = back(rs[i].a)
  BY <1>1, <1>3, <1>6, <1>7
<1>9. \A i, j \in DOMAIN rs : rs[i].a = rs[j].a => i = j
  BY <1>7, <1>8
<1> QED
  BY <1>1, <1>3, <1>5, <1>8, <1>9 DEF SweepsRows

-----------------------------------------------------------------------------
(* The books as an invariant. *)

\* Nothing has gone wrong with the file, and what is in it is what was read.
Clean == file \in Seq(Event) /\ ~unended /\ (up => file = events)

\* A report is of an authorization that was decided for the grant it has locked.
ReportsOwn ==
  \A r \in Slots : InLock(r) /\ Call(r).op = "report" => Owner(events, task[r].a, task[r].g)

\* What waits to be written of the lifecycles is of grants whose locks are held.
BatchOwn ==
  \A i \in DOMAIN batch : batch[i].kind \in LifeKinds =>
    \E r \in Slots : /\ pc[r] \in {"sweeping", "writing"} /\ Call(r).op # "mint"
                     /\ task[r].g = batch[i].g

BooksInv ==
  /\ up => Steady(events, batch)
  /\ ~up => Books(load(file))
  /\ faults = 0 \/ Faults \subseteq {"kill"} => Clean
  /\ ReportsOwn /\ BatchOwn

\* What is on its way is of no grant whose lock its holder is only now using.
LEMMA BatchApart ==
  ASSUME Inv, BooksInv, up, NEW r \in Slots, InLock(r), Holds(r), pc[r] \in {"waiting", "deciding"},
         NEW i \in DOMAIN batch, batch[i].kind \in LifeKinds
  PROVE  batch[i].g # task[r].g
<1> SUFFICES ASSUME batch[i].g = task[r].g PROVE FALSE
  OBVIOUS
<1>1. PICK q \in Slots : /\ pc[q] \in {"sweeping", "writing"} /\ Call(q).op # "mint"
                         /\ task[q].g = batch[i].g
  BY DEF BooksInv, BatchOwn
<1>2. InLock(q) /\ Holds(q)
  BY <1>1 DEF InLock, Busy, Inv, LockInv
<1>3. q = r
  BY <1>1, <1>2 DEF Holds
<1> QED
  BY <1>1, <1>3

\* So an authorization of that grant is in the log as it will be behind it.
LEMMA BatchSkips ==
  ASSUME Inv, BooksInv, up, NEW r \in Slots, InLock(r), Holds(r), pc[r] \in {"waiting", "deciding"},
         NEW a, Owner(events, a, task[r].g)
  PROVE  /\ Books(events) /\ Books(events \o batch) /\ Owner(events \o batch, a, task[r].g)
         /\ railState(events \o batch, a) = railState(events, a)
<1>1. events \in Seq(Event) /\ batch \in Seq(Event)
  BY Types DEF Inv
<1>2. Books(events) /\ Books(events \o batch)
  BY <1>1, SteadyWhole DEF BooksInv
<1>3. Owner(events \o batch, a, task[r].g)
  BY <1>1, OwnerConcat
<1>4. \A i \in DOMAIN batch : batch[i].kind \in LifeKinds => batch[i].a # a
  <2> SUFFICES ASSUME NEW i \in DOMAIN batch, batch[i].kind \in LifeKinds, batch[i].a = a PROVE FALSE
    OBVIOUS
  <2> DEFINE all == events \o batch
             j == Len(events) + i
  <2>1. j \in DOMAIN all /\ all[j] = batch[i]
    BY <1>1, ConcatPlaces
  <2>2. all \in Seq(Event) /\ Unique(all) /\ Owned(all) /\ Owner(all, a, task[r].g)
    BY <1>2, <1>3 DEF Books
  <2> HIDE DEF all, j
  <2>3. Owner(all, a, batch[i].g)
    BY <2>1, <2>2 DEF Owned
  <2>4. batch[i].g = task[r].g
    BY <2>2, <2>3, OwnerIs
  <2> QED
    BY <2>4, BatchApart
<1> QED
  BY <1>1, <1>2, <1>3, <1>4, LifeSkip

-----------------------------------------------------------------------------
(* What the handlers queue. *)

\* r queues records that keep the books behind what is queued already, and the
\* sweep's rows true to the lifecycles.
Keeps(r) ==
  \E records \in Seq(Event) :
    /\ Enqueue(r, records) /\ up /\ UNCHANGED <<file, unended, events, up, faults>>
    /\ pc'[r] \in {"sweeping", "writing"}
    /\ task'[r].g = task[r].g /\ (Call(r).op = "report" => task'[r].a = task[r].a)
    /\ Call(r).op # "mint" => InLock(r)
    /\ \A q \in Slots \ {r} : pc'[q] = pc[q] /\ task'[q] = task[q]
    /\ Steady(events \o batch, records)
    /\ Mirrors(events \o batch) => Mirrors((events \o batch) \o records)
    /\ \A i \in DOMAIN records : records[i].kind \in LifeKinds =>
         Call(r).op # "mint" /\ records[i].g = task[r].g

LEMMA MintKeeps ==
  ASSUME Inv, BooksInv, NEW r \in Slots, CreateGrant(r)
  PROVE  Keeps(r)
<1> DEFINE c == Call(r)
           meta == [NoEvent EXCEPT !.kind = "grant_meta", !.g = c.g, !.ts = clock, !.policy = c.policy]
           open == [NoEvent EXCEPT !.kind = "open", !.g = c.g, !.ts = clock, !.amount = c.policy.budget]
           records == <<meta, open>>
<1>1. /\ client \in Clients /\ clock \in Nat /\ c.op = "mint" /\ up /\ pc \in [Slots -> PCs]
      /\ events \in Seq(Event) /\ batch \in Seq(Event)
  BY Types DEF Inv, CreateGrant, Quiet
<1>2. c.g \in Grants /\ c.policy \in Policies /\ c.policy.budget \in Nat
  BY <1>1, CallShape, ServerAssumption
<1> HIDE DEF c
<1>3. meta \in Event /\ meta.kind = "grant_meta"
  BY <1>1, <1>2 DEF Event, NoEvent, Kinds, Decisions, Outcomes, Why
<1>4. open \in Event /\ open.kind = "open"
  BY <1>1, <1>2 DEF Event, NoEvent, Kinds, Decisions, Outcomes, Why
<1>5. /\ Enqueue(r, records) /\ Goto(r, "writing")
      /\ UNCHANGED <<file, unended, events, up, task, faults>>
  BY DEF CreateGrant, c
<1> HIDE DEF meta, open
<1>6. records \in Seq(Event) /\ DOMAIN records = {1, 2} /\ records[1] = meta /\ records[2] = open
  BY <1>3, <1>4
<1>7. Books(events \o batch)
  BY <1>1, SteadyWhole DEF BooksInv
<1>8. \A es : Sane(es, meta) /\ Sane(es, open)
  BY <1>3, <1>4, PlainIsSane DEF LifeKinds
<1>9. Steady(events \o batch, records)
  BY <1>7, <1>8, SteadyTwo
<1>10. Mirrors(events \o batch) => Mirrors((events \o batch) \o records)
  <2> SUFFICES ASSUME Mirrors(events \o batch) PROVE Mirrors((events \o batch) \o records)
    OBVIOUS
  <2> PICK all : all = events \o batch
    OBVIOUS
  <2>1. Append(all, meta) \in Seq(Event) /\ Mirrors(Append(all, meta))
    BY <1>3, <1>7, MirrorPlain, AppendPlaces DEF Books, LifeKinds
  <2>2. Mirrors(Append(Append(all, meta), open))
    BY <1>4, <2>1, MirrorPlain DEF LifeKinds
  <2>3. all \o records = Append(Append(all, meta), open)
    BY <1>3, <1>4, <1>7 DEF Books
  <2> QED
    BY <2>2, <2>3
<1> HIDE DEF records
<1>11. \A i \in DOMAIN records : records[i].kind \notin LifeKinds
  BY <1>3, <1>4, <1>6 DEF LifeKinds
<1> QED
  BY <1>1, <1>5, <1>6, <1>9, <1>10, <1>11 DEF Keeps, Goto, c

LEMMA SweepKeeps ==
  ASSUME Inv, BooksInv, NEW r \in Slots, AuthorizeEnters(r)
  PROVE  UNCHANGED queue \/ Keeps(r)
<1> DEFINE g == task[r].g
           rs == reversals(events, g, clock)
<1>1. /\ client \in Clients /\ clock \in Nat /\ pc \in [Slots -> PCs] /\ task \in [Slots -> Task]
      /\ events \in Seq(Event) /\ batch \in Seq(Event)
  BY Types DEF Inv
<1>2. Call(r).op = "authorize" /\ InLock(r) /\ Holds(r) /\ pc[r] = "waiting" /\ Asks(r)
  BY DEF AuthorizeEnters, InLock, Asks
<1>3. up /\ g \in Grants
  BY <1>2 DEF Inv, DownInv, InFlight, LockInv
<1> SUFFICES ASSUME ~UNCHANGED queue PROVE Keeps(r)
  OBVIOUS
<1>4. /\ Enqueue(r, rs) /\ Goto(r, "sweeping") /\ task' = [task EXCEPT ![r].now = clock]
      /\ UNCHANGED <<file, unended, events, up, faults>>
  BY DEF AuthorizeEnters
<1>5. Books(events) /\ Books(events \o batch)
  BY <1>1, <1>3, SteadyWhole DEF BooksInv
<1> HIDE DEF rs, g
<1>6. rs \in Seq(Event) /\ SweepsRows(events, g, rs)
  <2>1. PICK now \in Nat : now = clock
    BY <1>1
  <2>2. PICK back : back = reversals(events, g, now)
    OBVIOUS
  <2>3. back \in Seq(Event) /\ SweepsRows(events, g, back)
    BY <1>1, <1>3, <2>2, ReversalsAre
  <2> QED
    BY <2>1, <2>2, <2>3 DEF rs
<1>7. Releases(events \o batch, g, rs)
  <2> SUFFICES ASSUME NEW i \in DOMAIN rs
               PROVE  /\ Owner(events \o batch, rs[i].a, g) /\ railState(events \o batch, rs[i].a).reserved
                      /\ rs[i].amount = railState(events \o batch, rs[i].a).amount
    BY <1>6 DEF Releases, SweepsRows
  <2> DEFINE a == rs[i].a
  <2>1. a \in AuthIds /\ sweepRow(events, g, a).open /\ rs[i].amount = sweepRow(events, g, a).amount
    BY <1>6 DEF SweepsRows
  <2> HIDE DEF a
  <2>2. /\ decisionOf(events, a).g = g /\ railState(events, a).reserved
        /\ rs[i].amount = railState(events, a).amount
    BY <1>3, <1>5, <2>1 DEF Books, RowsHeld
  <2>3. g # None
    BY <1>3, ServerAssumption
  <2>4. Owner(events, a, task[r].g)
    BY <1>1, <2>2, <2>3, IsOwner DEF g
  <2>5. Owner(events \o batch, a, g) /\ railState(events \o batch, a) = railState(events, a)
    BY <1>2, <1>3, <2>4, BatchSkips DEF g
  <2> QED
    BY <2>2, <2>5 DEF a
<1>8. Steady(events \o batch, rs)
  BY <1>3, <1>5, <1>6, <1>7, SweepSteady
<1>9. task'[r].g = task[r].g /\ \A q \in Slots \ {r} : pc'[q] = pc[q] /\ task'[q] = task[q]
  BY <1>1, <1>4 DEF Goto, Task
<1>10. Mirrors(events \o batch) => Mirrors((events \o batch) \o rs)
  BY <1>3, <1>5, <1>6, <1>7, SweepMirrors
<1> QED
  BY <1>1, <1>2, <1>3, <1>4, <1>6, <1>8, <1>9, <1>10 DEF Keeps, Goto, g, SweepsRows

LEMMA DecideKeeps ==
  ASSUME Inv, BooksInv, NEW r \in Slots, AuthorizeDecides(r)
  PROVE  Keeps(r)
<1> DEFINE g == task[r].g
           c == Call(r)
           verdict == decide(agentView(events, g, task[r].now), clock, c.amount, c.currency, c.category)
           decision == IF verdict # "APPROVED" THEN "DENY"
                       ELSE IF needsApproval(grantOf(events, g), c.amount) THEN "ESCALATE" ELSE "ALLOW"
           reason == IF decision = "ESCALATE" THEN "APPROVAL_REQUIRED" ELSE verdict
           ds == decisionRecords(newId, g, task[r].now, c.amount, decision, reason, c.key,
                                 None, task[r].now + TTL, TRUE)
<1>1. /\ client \in Clients /\ pc \in [Slots -> PCs] /\ task \in [Slots -> Task]
      /\ events \in Seq(Event) /\ batch \in Seq(Event)
  BY Types DEF Inv
<1>2. c.op = "authorize" /\ InLock(r) /\ pc[r] = "deciding" /\ Asks(r)
  BY DEF AuthorizeDecides, InLock, Asks
<1>3. up /\ g \in Grants /\ c.key \in Keys
  BY <1>1, <1>2, CallShape DEF Inv, DownInv, InFlight, LockInv
<1>4. c.amount \in 0..MaxAmount
  <2>1. c \in Calls
    BY <1>1, ServerAssumption DEF Slots, Call
  <2>2. c.amount \in Amounts
    BY <1>2, <2>1 DEF Calls
  <2> QED
    BY <2>2, ServerAssumption, MoneyAssumption
<1>5. newId \in Fresh /\ newId \in AuthIds
  BY DEF AuthorizeDecides, newId, Fresh
<1>6. /\ Enqueue(r, ds) /\ Goto(r, "writing")
      /\ task' = [task EXCEPT ![r].a = newId, ![r].decision = decision]
      /\ UNCHANGED <<file, unended, events, up, faults>>
  BY DEF AuthorizeDecides
<1>7. /\ decision \in {"ALLOW", "DENY", "ESCALATE"} /\ reason \in Why
      /\ task[r].now \in Nat /\ task[r].now + TTL \in Nat \ {0}
  BY <1>1, DecideType, ServerAssumption DEF Why, Task
<1>8. Books(events \o batch)
  BY <1>1, <1>3, SteadyWhole DEF BooksInv
<1>9. task'[r].g = task[r].g /\ \A q \in Slots \ {r} : pc'[q] = pc[q] /\ task'[q] = task[q]
  BY <1>1, <1>6 DEF Goto, Task
<1> HIDE DEF decision, reason, c, g
<1>10. Unheard(events \o batch, newId)
  <2>1. /\ \A i \in DOMAIN events : events[i].a # newId
        /\ \A i \in DOMAIN batch : batch[i].a # newId
    BY <1>5, FreshUnused DEF Inv
  <2> QED
    BY <1>1, <2>1, ConcatPlaces DEF Unheard
<1>11. IsDecision(ds, newId, g, c.amount)
  <2> SUFFICES \E now \in Nat, outcome \in {"ALLOW", "DENY", "ESCALATE"}, why \in Why,
                  key \in Keys \cup {None}, parent \in AuthIds \cup {None}, exp \in Nat \ {0},
                  hasToken \in BOOLEAN :
                 ds = decisionRecords(newId, g, now, c.amount, outcome, why, key, parent, exp, hasToken)
    BY DEF IsDecision
  <2>1. c.key \in Keys \cup {None} /\ None \in AuthIds \cup {None} /\ TRUE \in BOOLEAN
    BY <1>3
  <2> USE <1>1, <1>7, <2>1
  <2> WITNESS task[r].now \in Nat, decision \in {"ALLOW", "DENY", "ESCALATE"}, reason \in Why,
              c.key \in Keys \cup {None}, None \in AuthIds \cup {None}, task[r].now + TTL \in Nat \ {0},
              TRUE \in BOOLEAN
  <2> QED
    OBVIOUS
<1> HIDE DEF ds
<1>12. ds \in Seq(Event) /\ Steady(events \o batch, ds) /\ \A i \in DOMAIN ds : ds[i].g = g
  BY <1>3, <1>4, <1>5, <1>8, <1>10, <1>11, DecisionSteady
<1>13. Mirrors(events \o batch) => Mirrors((events \o batch) \o ds)
  BY <1>3, <1>4, <1>5, <1>8, <1>10, <1>11, DecisionMirrors
<1> QED
  BY <1>1, <1>2, <1>3, <1>6, <1>9, <1>12, <1>13 DEF Keeps, Goto, c, g

LEMMA ResolveKeeps ==
  ASSUME Inv, BooksInv, NEW r \in Slots, ResolveEnters(r)
  PROVE  UNCHANGED queue \/ Keeps(r)
<1> DEFINE a == task[r].a
           g == task[r].g
           orig == decisionOf(events, a)
           verdict == IF Call(r).op = "deny" THEN "DENIED_BY_APPROVER"
                      ELSE decide(agentView(events, g, clock), clock, orig.amount,
                                  grantOf(events, g).currency, "")
           decision == IF verdict = "APPROVED" THEN "ALLOW" ELSE "DENY"
           reason == IF verdict = "APPROVED" THEN "APPROVED_BY_HUMAN" ELSE verdict
           decided == [NoEvent EXCEPT !.kind = "approval_decision", !.a = a, !.g = g, !.ts = clock]
           ds == decisionRecords(newId, g, clock, orig.amount, decision, reason, None, a,
                                 clock + ApprovalTTL, FALSE)
<1>1. /\ client \in Clients /\ clock \in Nat /\ pc \in [Slots -> PCs] /\ task \in [Slots -> Task]
      /\ events \in Seq(Event) /\ batch \in Seq(Event)
  BY Types DEF Inv
<1>2. Call(r).op \in {"approve", "deny"} /\ InLock(r) /\ Holds(r) /\ pc[r] = "waiting"
  BY DEF ResolveEnters, InLock
<1>3. up /\ g \in Grants /\ a \in AuthIds
  BY <1>1, <1>2 DEF Inv, DownInv, InFlight, LockInv, Asks
<1> SUFFICES ASSUME ~UNCHANGED queue PROVE Keeps(r)
  OBVIOUS
<1>4. /\ orig # NoEvent /\ Fresh # {} /\ Enqueue(r, <<decided>> \o ds) /\ Goto(r, "writing")
      /\ UNCHANGED <<file, unended, events, up, task, faults>>
  BY DEF ResolveEnters
<1>5. newId \in Fresh /\ newId \in AuthIds
  BY <1>4 DEF newId, Fresh
<1>6. Books(events) /\ Books(events \o batch)
  BY <1>1, <1>3, SteadyWhole DEF BooksInv
<1>7. orig.amount \in 0..MaxAmount
  <2> DEFINE places == {i \in DOMAIN events : events[i].kind = "decision" /\ events[i].a = a}
  <2>1. places # {}
    BY <1>4 DEF decisionOf, lastAt
  <2>2. PICK i \in places : lastAt(events, places) = events[i]
    BY <1>1, <2>1, LastPlace
  <2> QED
    BY <1>6, <2>2 DEF decisionOf, Books, InRange
<1>8. decision \in {"ALLOW", "DENY", "ESCALATE"} /\ reason \in Why /\ clock + ApprovalTTL \in Nat \ {0}
  <2>1. verdict \in Reasons \cup {"DENIED_BY_APPROVER"}
    BY DecideType
  <2> HIDE DEF verdict
  <2> QED
    BY <1>1, <2>1, ServerAssumption DEF Why
<1>9. decided \in Event /\ decided.kind = "approval_decision"
  BY <1>1, <1>3 DEF Event, NoEvent, Kinds, Decisions, Outcomes, Why
<1> HIDE DEF decision, reason, orig, g, a, decided
<1> DEFINE all == events \o batch
           one == <<decided>>
           behind == all \o one
<1>10. all \in Seq(Event) /\ one \in Seq(Event) /\ DOMAIN one = {1} /\ one[1] = decided
  BY <1>1, <1>9, ConcatPlaces
<1>11. Steady(all, one)
  BY <1>6, <1>9, PlainIsSane, SteadyOne DEF LifeKinds
<1>12. \A i \in DOMAIN all : all[i].a # newId
  <2>1. /\ \A i \in DOMAIN events : events[i].a # newId
        /\ \A i \in DOMAIN batch : batch[i].a # newId
    BY <1>5, FreshUnused DEF Inv
  <2> QED
    BY <1>1, <2>1, ConcatPlaces
<1> HIDE DEF all, one
<1>13. Unheard(behind, newId)
  <2>1. /\ \A i \in DOMAIN behind : i \in DOMAIN all \/ \E j \in DOMAIN one : i = Len(all) + j
        /\ \A i \in DOMAIN all : behind[i] = all[i]
        /\ \A j \in DOMAIN one : behind[Len(all) + j] = one[j]
    BY <1>10, ConcatPlaces
  <2> QED
    BY <1>9, <1>10, <1>12, <2>1 DEF LifeKinds, Unheard
<1>14. Books(behind)
  BY <1>10, <1>11, SteadyWhole
<1> HIDE DEF behind
<1>15. IsDecision(ds, newId, g, orig.amount)
  <2> SUFFICES \E now \in Nat, outcome \in {"ALLOW", "DENY", "ESCALATE"}, why \in Why,
                  key \in Keys \cup {None}, parent \in AuthIds \cup {None}, exp \in Nat \ {0},
                  hasToken \in BOOLEAN :
                 ds = decisionRecords(newId, g, now, orig.amount, outcome, why, key, parent, exp, hasToken)
    BY DEF IsDecision
  <2>1. None \in Keys \cup {None} /\ a \in AuthIds \cup {None} /\ FALSE \in BOOLEAN
    BY <1>3 DEF a
  <2> USE <1>1, <1>8, <2>1
  <2> WITNESS clock \in Nat, decision \in {"ALLOW", "DENY", "ESCALATE"}, reason \in Why,
              None \in Keys \cup {None}, a \in AuthIds \cup {None}, clock + ApprovalTTL \in Nat \ {0},
              FALSE \in BOOLEAN
  <2> QED
    OBVIOUS
<1> HIDE DEF ds
<1>16. ds \in Seq(Event) /\ Steady(behind, ds) /\ \A i \in DOMAIN ds : ds[i].g = g
  <2>1. g \in Grants
    BY <1>3 DEF g
  <2> QED
    BY <1>5, <1>7, <1>13, <1>14, <1>15, <2>1, DecisionSteady
<1> DEFINE records == one \o ds
<1>17. Steady(all, records)
  BY <1>10, <1>11, <1>16, SteadyConcat DEF behind
<1>18. /\ records \in Seq(Event)
       /\ \A i \in DOMAIN records : records[i].kind \in LifeKinds => records[i].g = g
  <2>1. /\ records \in Seq(Event)
        /\ \A i \in DOMAIN records : i \in DOMAIN one \/ \E j \in DOMAIN ds : i = Len(one) + j
        /\ \A i \in DOMAIN one : records[i] = one[i]
        /\ \A j \in DOMAIN ds : records[Len(one) + j] = ds[j]
    BY <1>10, <1>16, ConcatPlaces
  <2> QED
    BY <1>9, <1>10, <1>16, <2>1 DEF LifeKinds
<1>19. Enqueue(r, records)
  BY <1>4 DEF one
<1>20. Mirrors(all) => Mirrors(all \o records)
  <2> SUFFICES ASSUME Mirrors(all) PROVE Mirrors(all \o records)
    OBVIOUS
  <2>1. behind = Append(all, decided)
    BY <1>10 DEF behind, one
  <2>2. Mirrors(behind)
    BY <1>9, <1>10, <2>1, MirrorPlain DEF LifeKinds
  <2>3. g \in Grants
    BY <1>3 DEF g
  <2>4. Mirrors(behind \o ds)
    BY <1>5, <1>7, <1>13, <1>14, <1>15, <2>2, <2>3, DecisionMirrors
  <2>5. all \o (one \o ds) = behind \o ds
    BY <1>10, <1>16, ConcatAssociative DEF behind
  <2> QED
    BY <2>4, <2>5
<1> HIDE DEF records
<1> QED
  BY <1>1, <1>2, <1>3, <1>4, <1>17, <1>18, <1>19, <1>20 DEF Keeps, Goto, all, g

LEMMA ReportKeeps ==
  ASSUME Inv, BooksInv, NEW r \in Slots, ReportEnters(r)
  PROVE  UNCHANGED queue \/ Keeps(r)
<1> DEFINE a == task[r].a
           g == task[r].g
           s == railState(events, a)
           c == Call(r)
           rs == reportEvents(s, a, g, c.outcome, c.by, clock)
           receipt == [NoEvent EXCEPT !.kind = "receipt", !.g = g, !.ts = clock]
           records == Append(rs, receipt)
           all == events \o batch
<1>1. /\ client \in Clients /\ clock \in Nat /\ pc \in [Slots -> PCs] /\ task \in [Slots -> Task]
      /\ events \in Seq(Event) /\ batch \in Seq(Event)
  BY Types DEF Inv
<1>2. c.op = "report" /\ InLock(r) /\ Holds(r) /\ pc[r] = "waiting"
  BY DEF ReportEnters, InLock
<1>3. up /\ g \in Grants /\ a \in AuthIds /\ c.outcome \in Outcomes \ {"none"} /\ c.by \in Reporters
  BY <1>1, <1>2, CallShape DEF Inv, DownInv, InFlight, LockInv, Asks
<1> SUFFICES ASSUME ~UNCHANGED queue PROVE Keeps(r)
  OBVIOUS
<1>4. /\ ~terminal(s) /\ Enqueue(r, records) /\ Goto(r, "writing")
      /\ UNCHANGED <<file, unended, events, up, task, faults>>
  BY DEF ReportEnters
<1>5. Owner(events, a, task[r].g)
  BY <1>2 DEF BooksInv, ReportsOwn
<1>6. Books(all) /\ Owner(all, a, g) /\ s = railState(all, a)
  BY <1>2, <1>3, <1>5, BatchSkips
<1>7. receipt \in Event /\ receipt.kind = "receipt"
  BY <1>1, <1>3 DEF Event, NoEvent, Kinds, Decisions, Outcomes, Why
<1>8. all \in Seq(Event)
  BY <1>1, ConcatPlaces
<1> HIDE DEF s, receipt, c, g, a, all
<1>9. IsReport(rs, s, a, g)
  <2>1. g \in Grants /\ a \in AuthIds /\ c.outcome \in Outcomes \ {"none"} /\ c.by \in Reporters
    BY <1>3
  <2> QED
    BY <1>1, <2>1 DEF IsReport
<1>10. ~terminal(s)
  BY <1>4
<1> HIDE DEF rs
<1>11. rs \in Seq(Event) /\ Steady(all, rs) /\ \A i \in DOMAIN rs : rs[i].g = g
  BY <1>3, <1>6, <1>9, ReportSteady
<1>12. Steady(all, records)
  <2>1. Sane(all \o rs, receipt)
    BY <1>7, PlainIsSane DEF LifeKinds
  <2> QED
    BY <1>8, <1>11, <2>1, SteadyAppend
<1>13. /\ records \in Seq(Event)
       /\ \A i \in DOMAIN records : records[i].kind \in LifeKinds => records[i].g = g
  <2>1. /\ records \in Seq(Event)
        /\ \A i \in DOMAIN records : i \in DOMAIN rs \/ i = Len(rs) + 1
        /\ \A i \in DOMAIN rs : records[i] = rs[i]
        /\ records[Len(rs) + 1] = receipt
    BY <1>7, <1>11, AppendPlaces
  <2> QED
    BY <1>7, <1>11, <2>1 DEF LifeKinds
<1>14. Mirrors(all) => Mirrors(all \o records)
  <2> SUFFICES ASSUME Mirrors(all) PROVE Mirrors(all \o records)
    OBVIOUS
  <2> PICK more : more = all \o rs
    OBVIOUS
  <2>1. Mirrors(more)
    BY <1>3, <1>6, <1>9, <1>10, ReportMirrors
  <2>2. more \in Seq(Event)
    BY <1>8, <1>11, ConcatPlaces
  <2>3. Mirrors(Append(more, receipt))
    BY <1>7, <2>1, <2>2, MirrorPlain DEF LifeKinds
  <2>4. all \o Append(rs, receipt) = Append(more, receipt)
    BY <1>7, <1>8, <1>11
  <2> QED
    BY <2>3, <2>4
<1> HIDE DEF records
<1> QED
  BY <1>1, <1>2, <1>3, <1>4, <1>12, <1>13, <1>14 DEF Keeps, Goto, all, c, g

-----------------------------------------------------------------------------
(* The steps keep the books. *)

\* A log of records is what a boot reads, and so is one with a torn line behind it.
plainClaim(p, lines, es) == es = lines
PlainFold == INSTANCE FoldTheorems WITH Step <- loadStep, Claim <- plainClaim

LEMMA LoadPlain ==
  ASSUME NEW lines \in Seq(Event)
  PROVE  load(lines) = lines /\ load(Append(lines, Garbage)) = lines
<1>1. \A i \in DOMAIN lines : lines[i] # Garbage
  BY ServerAssumption
<1>2. load(lines) = lines
  BY <1>1 DEF load
<1>3. plainClaim(0, <<>>, <<>>)
  BY DEF plainClaim
<1>4. ASSUME NEW ls \in Seq(Event), NEW e \in Event, plainClaim(0, ls, PlainFold!total(0, <<>>, ls))
      PROVE  plainClaim(0, Append(ls, e), loadStep(0, PlainFold!total(0, <<>>, ls), e))
  BY <1>4, ServerAssumption DEF plainClaim, loadStep
<1>5. plainClaim(0, lines, PlainFold!total(0, <<>>, lines))
  BY <1>3, <1>4, PlainFold!FoldInduction
<1>6. PlainFold!total(0, <<>>, lines) = lines
  BY <1>5 DEF plainClaim
<1> DEFINE torn == Append(lines, Garbage)
<1>7. PlainFold!total(0, <<>>, torn) = loadStep(0, PlainFold!total(0, <<>>, lines), Garbage)
  <2>1. lines \in Seq(LineType) /\ Garbage \in LineType
    BY DEF LineType
  <2> QED
    BY <2>1, PlainFold!FoldAppend
<1>8. Len(lines) + 1 \in DOMAIN torn /\ torn[Len(lines) + 1] = Garbage
  OBVIOUS
<1> HIDE DEF torn
<1>9. load(torn) = LoadFold!total(0, <<>>, torn)
  BY <1>8, LoadIs
<1>10. LoadFold!total(0, <<>>, torn) = PlainFold!total(0, <<>>, torn)
  BY DEF LoadFold!total, LoadFold!fold, PlainFold!total, PlainFold!fold
<1> QED
  BY <1>2, <1>6, <1>7, <1>9, <1>10 DEF torn, loadStep

LEMMA BooksSame ==
  ASSUME Inv, BooksInv, client' = client,
         UNCHANGED <<file, unended, events, queue, up, faults, pc, task>>
  PROVE  BooksInv'
<1>1. batch' = batch
  BY BatchSame
<1> QED
  BY <1>1 DEF BooksInv, Clean, ReportsOwn, BatchOwn, InLock, Slots, Call

LEMMA BooksQueue ==
  ASSUME Inv, BooksInv, client' = client, NEW r \in Slots, Keeps(r)
  PROVE  BooksInv'
<1>1. /\ pc \in [Slots -> PCs] /\ task \in [Slots -> Task] /\ queue \in Seq(Entry)
      /\ events \in Seq(Event) /\ batch \in Seq(Event)
  BY Types DEF Inv
<1>2. PICK records \in Seq(Event) :
        /\ Enqueue(r, records) /\ up /\ UNCHANGED <<file, unended, events, up, faults>>
        /\ pc'[r] \in {"sweeping", "writing"}
        /\ task'[r].g = task[r].g /\ (Call(r).op = "report" => task'[r].a = task[r].a)
        /\ Call(r).op # "mint" => InLock(r)
        /\ \A q \in Slots \ {r} : pc'[q] = pc[q] /\ task'[q] = task[q]
        /\ Steady(events \o batch, records)
        /\ \A i \in DOMAIN records : records[i].kind \in LifeKinds =>
             Call(r).op # "mint" /\ records[i].g = task[r].g
  BY DEF Keeps
<1>3. PICK b : b = batch'
  OBVIOUS
<1>4. b = batch \o records
  BY <1>1, <1>2, <1>3, BatchEnqueue
<1>5. Steady(events, b)
  BY <1>1, <1>2, <1>4, SteadyConcat DEF BooksInv
<1>6. ReportsOwn'
  BY <1>2 DEF BooksInv, ReportsOwn, InLock, Slots, Call
<1>7. \A i \in DOMAIN b : b[i].kind \in LifeKinds =>
        \E q \in Slots : /\ pc'[q] \in {"sweeping", "writing"} /\ Call(q).op # "mint"
                         /\ task'[q].g = b[i].g
  <2> SUFFICES ASSUME NEW i \in DOMAIN b, b[i].kind \in LifeKinds
               PROVE  \E q \in Slots : /\ pc'[q] \in {"sweeping", "writing"} /\ Call(q).op # "mint"
                                       /\ task'[q].g = b[i].g
    OBVIOUS
  <2>1. CASE i \in DOMAIN batch
    <3>1. b[i] = batch[i]
      BY <1>1, <1>4, <2>1, ConcatPlaces
    <3>2. PICK q \in Slots : /\ pc[q] \in {"sweeping", "writing"} /\ Call(q).op # "mint"
                             /\ task[q].g = batch[i].g
      BY <2>1, <3>1 DEF BooksInv, BatchOwn
    <3>3. pc'[q] \in {"sweeping", "writing"} /\ task'[q].g = task[q].g
      BY <1>2, <3>2
    <3> QED
      BY <3>1, <3>2, <3>3
  <2>2. ASSUME NEW j \in DOMAIN records, i = Len(batch) + j
        PROVE  \E q \in Slots : /\ pc'[q] \in {"sweeping", "writing"} /\ Call(q).op # "mint"
                                /\ task'[q].g = b[i].g
    <3>1. b[i] = records[j]
      BY <1>1, <1>4, <2>2, ConcatPlaces
    <3> QED
      BY <1>2, <3>1
  <2> QED
    BY <1>1, <1>4, <2>1, <2>2, ConcatPlaces
<1>8. BatchOwn'
  BY <1>3, <1>7 DEF BatchOwn, Slots, Call
<1>9. Clean' <=> Clean
  BY <1>2 DEF Clean
<1> QED
  BY <1>2, <1>3, <1>5, <1>6, <1>8, <1>9 DEF BooksInv

\* A request that queues nothing.
Idles(r) ==
  \/ Turned(r) \/ Ends(r) \/ Enters(r) \/ MintEnds(r) \/ FinishAuthorize(r) \/ FinishOther(r)
  \/ \E g \in Grants, a \in AuthIds \cup {None} :
       Locks(r, g, a) /\ (Call(r).op = "report" => Owner(events, a, g))

LEMMA BooksMove ==
  ASSUME Inv, BooksInv, client' = client, NEW r \in Slots, Idles(r)
  PROVE  BooksInv'
<1>1. pc \in [Slots -> PCs] /\ task \in [Slots -> Task]
  BY Types DEF Inv
<1>2. Moves(r)
  BY MoveSteps DEF Idles
<1>3. UNCHANGED <<storeVars, faults>>
  BY DEF Idles, Turned, Ends, Enters, MintEnds, FinishAuthorize, FinishOther, Locks
<1>4. UNCHANGED <<file, unended, events, queue, up, faults>>
  BY <1>3 DEF storeVars
<1>5. batch' = batch
  BY <1>4, BatchSame
<1>6. BatchOwn'
  <2>1. \A q \in Slots : pc[q] \in {"sweeping", "writing"} => pc'[q] = pc[q] /\ task'[q] = task[q]
    BY <1>2 DEF Moves
  <2> QED
    BY <1>5, <2>1 DEF BooksInv, BatchOwn, Slots, Call
<1>7. pc'[r] \in {"waiting", "deciding"} /\ Call(r).op = "report" =>
        Owner(events, task'[r].a, task'[r].g)
  <2>1. CASE Turned(r) \/ Ends(r) \/ MintEnds(r) \/ FinishAuthorize(r) \/ FinishOther(r)
    <3>1. pc'[r] \in {"refused", "answered", "failed"}
      BY <1>1, <2>1 DEF Turned, Ends, MintEnds, FinishAuthorize, FinishOther, Release, Goto
    <3> QED
      BY <3>1
  <2>2. CASE Enters(r)
    BY <2>2 DEF Enters, Asks
  <2>3. ASSUME NEW g \in Grants, NEW a \in AuthIds \cup {None}, Locks(r, g, a),
               Call(r).op = "report" => Owner(events, a, g)
        PROVE  Call(r).op = "report" => Owner(events, task'[r].a, task'[r].g)
    <3>1. task'[r] = [NoTask EXCEPT !.g = g, !.a = a]
      BY <1>1, <2>3 DEF Locks, Lock
    <3>2. task'[r].a = a /\ task'[r].g = g
      BY <3>1 DEF NoTask
    <3> QED
      BY <2>3, <3>2
  <2> QED
    BY <2>1, <2>2, <2>3 DEF Idles
<1>8. ReportsOwn'
  <2>1. \A q \in Slots \ {r} : pc'[q] = pc[q] /\ task'[q] = task[q]
    BY <1>2 DEF Moves
  <2>2. pc'[r] \in {"refused", "answered", "failed", "waiting", "deciding"}
    BY <1>2 DEF Moves
  <2> QED
    BY <1>4, <1>7, <2>1, <2>2 DEF BooksInv, ReportsOwn, InLock, Slots, Call
<1>9. Clean' <=> Clean
  BY <1>4 DEF Clean
<1> QED
  BY <1>4, <1>5, <1>6, <1>8, <1>9 DEF BooksInv

LEMMA BooksDrain ==
  ASSUME Inv, BooksInv, client' = client, Drain
  PROVE  BooksInv'
<1>1. events \in Seq(Event) /\ batch \in Seq(Event)
  BY Types DEF Inv
<1>2. /\ up /\ up' /\ file' = written(batch) /\ unended' = FALSE /\ events' = events \o batch
      /\ queue' = <<>> /\ UNCHANGED <<task, faults>>
  BY DEF Drain, Commit, serverVarsButPc
<1>3. batch' = <<>>
  BY <1>2, BatchEmptyNext
<1> DEFINE all == events \o batch
<1>4. Books(all)
  BY <1>1, <1>2, SteadyWhole DEF BooksInv
<1>5. Steady(all, <<>>)
  BY <1>4, SteadyEmpty
<1>6. Clean => Clean'
  <2> SUFFICES ASSUME Clean PROVE file' = all /\ all \in Seq(Event)
    BY <1>2 DEF Clean
  <2>1. file = events /\ ~unended
    BY <1>2 DEF Clean
  <2> QED
    BY <1>1, <1>2, <2>1, WholePrefix, ConcatPlaces DEF written
<1>7. ReportsOwn'
  <2> SUFFICES ASSUME NEW r \in Slots, InLock(r)', Call(r).op = "report"
               PROVE  Owner(all, task[r].a, task[r].g)
    BY <1>2 DEF ReportsOwn, Slots, Call
  <2>1. InLock(r)
    BY DrainLog DEF InLock, Call
  <2>2. Owner(events, task[r].a, task[r].g)
    BY <2>1 DEF BooksInv, ReportsOwn
  <2> QED
    BY <1>1, <2>2, OwnerConcat
<1>8. BatchOwn'
  BY <1>3 DEF BatchOwn
<1>9. Steady(events', batch')
  BY <1>2, <1>3, <1>5
<1> QED
  BY <1>2, <1>6, <1>7, <1>8, <1>9 DEF BooksInv

LEMMA BooksFail ==
  ASSUME Inv, BooksInv, client' = client, NEW n, NEW cut, DrainFails(n, cut)
  PROVE  BooksInv'
<1>1. /\ events \in Seq(Event) /\ batch \in Seq(Event) /\ pc \in [Slots -> PCs] /\ faults \in Nat
      /\ InBatch = {r \in Slots : pc[r] \in {"sweeping", "writing"}}
  BY Types DEF Inv, BatchInv
<1>2. /\ up /\ up' /\ queue' = <<>> /\ UNCHANGED <<events, task>>
      /\ pc' = [r \in Slots |-> IF r \in InBatch THEN "rejected" ELSE pc[r]]
      /\ "write" \in Faults /\ faults' = faults + 1
  BY DEF DrainFails, CommitFails
<1>3. batch' = <<>>
  BY <1>2, BatchEmptyNext
<1>4. Steady(events, <<>>)
  BY <1>1, <1>2, SteadyWhole, SteadyEmpty DEF BooksInv
<1>5. ReportsOwn'
  BY <1>1, <1>2 DEF BooksInv, ReportsOwn, InLock, Slots, Call
<1>6. BatchOwn'
  BY <1>3 DEF BatchOwn
<1>7. faults' # 0 /\ ~(Faults \subseteq {"kill"})
  BY <1>1, <1>2
<1>8. Steady(events', batch')
  BY <1>2, <1>3, <1>4
<1> QED
  BY <1>2, <1>5, <1>6, <1>7, <1>8 DEF BooksInv

\* One fault at most, or none that tears a write.
Mild == Faults \subseteq {"kill"} \/ MaxFaults <= 1

LEMMA BooksStop ==
  ASSUME Mild, Inv, BooksInv, client' = client, NEW n, NEW cut, Stops(n, cut)
  PROVE  BooksInv'
<1>1. /\ events \in Seq(Event) /\ batch \in Seq(Event) /\ pc \in [Slots -> PCs]
      /\ faults \in Nat /\ MaxFaults \in Nat
  BY Types DEF Inv
<1>2. /\ Leaves(n, cut) /\ up /\ ~up' /\ queue' = <<>> /\ faults < MaxFaults /\ faults' = faults + 1
      /\ pc' = [r \in Slots |-> IF InFlight(r) THEN "lost" ELSE pc[r]]
  BY DEF Stops, Halt, Forget
<1>3. Clean /\ file = events /\ ~unended /\ file \in Seq(Event)
  BY <1>1, <1>2 DEF Mild, BooksInv, Clean
<1> DEFINE kept == SubSeq(batch, 1, n)
           lines == file \o kept
<1>4. n \in 0..Len(batch) /\ Len(batch) \in Nat
  <2>1. Len(batch) \in Nat
    BY <1>1
  <2> QED
    BY <1>2, <2>1 DEF Leaves
<1>5. kept \in Seq(Event) /\ lines \in Seq(Event)
  BY <1>1, <1>3, <1>4
<1>6. Books(lines)
  BY <1>2, <1>3, <1>4 DEF BooksInv, Steady
<1>7. written(kept) = lines
  BY <1>3, WholePrefix DEF written
<1> HIDE DEF kept
<1>8. written(Append(kept, Garbage)) = Append(lines, Garbage)
  <2>1. Garbage \in LineType /\ Event \subseteq LineType
    BY DEF LineType
  <2>2. kept \in Seq(LineType) /\ file \in Seq(LineType)
    BY <1>3, <1>5, <2>1
  <2>3. Append(kept, Garbage) # <<>> /\ file \o Append(kept, Garbage) = Append(file \o kept, Garbage)
    BY <2>1, <2>2
  <2> QED
    BY <1>3, <2>3 DEF written
<1> HIDE DEF lines
<1>9. file' = lines \/ file' = Append(lines, Garbage)
  BY <1>2, <1>7, <1>8 DEF Leaves, kept
<1>10. load(file') = lines
  BY <1>5, <1>9, LoadPlain
<1>11. Faults \subseteq {"kill"} => Clean'
  <2> SUFFICES ASSUME Faults \subseteq {"kill"} PROVE Clean'
    OBVIOUS
  <2>1. cut = "whole"
    BY DEF Stops
  <2>2. file' = lines /\ ~unended'
    BY <1>2, <1>3, <1>7, <2>1 DEF Leaves, kept
  <2> QED
    BY <1>2, <1>5, <2>2 DEF Clean
<1>12. batch' = <<>>
  BY <1>2, BatchEmptyNext
<1>13. BatchOwn'
  BY <1>12 DEF BatchOwn
<1>14. ReportsOwn'
  <2>1. \A r \in Slots : pc'[r] \in {"idle", "answered", "refused", "failed", "lost"}
    BY <1>1, <1>2 DEF InFlight
  <2> QED
    BY <2>1 DEF ReportsOwn, InLock, Slots
<1>15. Books(load(file))'
  <2> PICK ls : ls = load(file')
    OBVIOUS
  <2> QED
    BY <1>6, <1>10
<1> QED
  BY <1>1, <1>2, <1>11, <1>13, <1>14, <1>15 DEF BooksInv

LEMMA BooksBoot ==
  ASSUME Inv, BooksInv, client' = client, Boot
  PROVE  BooksInv'
<1>1. /\ ~up /\ up' /\ events' = load(file) /\ UNCHANGED <<file, unended, queue, pc, task, faults>>
  BY DEF Boot, Load
<1>2. queue = <<>> /\ \A r \in Slots : ~InFlight(r)
  BY <1>1 DEF Inv, DownInv
<1>3. batch' = <<>>
  BY <1>1, <1>2, BatchEmptyNext
<1>4. Books(load(file))
  BY <1>1 DEF BooksInv
<1>5. Steady(load(file), <<>>)
  BY <1>4, SteadyEmpty
<1>6. Steady(events', batch')
  BY <1>1, <1>3, <1>5
<1>7. Clean => Clean'
  BY <1>1, LoadPlain DEF Clean
<1>8. ReportsOwn'
  BY <1>1, <1>2 DEF ReportsOwn, InLock, InFlight, Slots, Call
<1>9. BatchOwn'
  BY <1>3 DEF BatchOwn
<1> QED
  BY <1>1, <1>6, <1>7, <1>8, <1>9 DEF BooksInv

\* A report is taken up for the grant that its authorization was decided for.
LEMMA IdlesReport ==
  ASSUME Inv, NEW r \in Slots, NEW a \in AuthIds, ReportArrives(r, a)
  PROVE  Idles(r)
<1>1. events \in Seq(Event) /\ task \in [Slots -> Task]
  BY Types DEF Inv
<1>2. CASE Turned(r)
  BY <1>2 DEF Idles
<1>3. ASSUME NEW g \in Grants, Locks(r, g, a) PROVE Idles(r)
  <2> DEFINE h == decisionOf(events, a).g
  <2>1. pc'[r] = "waiting" /\ Lock(r, g, a)
    <3>1. pc \in [Slots -> PCs]
      BY Types DEF Inv
    <3> QED
      BY <1>3, <3>1 DEF Locks, Lock, Goto
  <2>2. Lock(r, h, a)
    BY <2>1, <1>1, Types DEF ReportArrives, Goto, Inv
  <2>3. h = g
    <3>1. task'[r] = [NoTask EXCEPT !.g = g, !.a = a] /\ task'[r] = [NoTask EXCEPT !.g = h, !.a = a]
      BY <1>1, <2>1, <2>2 DEF Lock
    <3> QED
      BY <3>1 DEF NoTask
  <2>4. h # None
    BY <2>3, ServerAssumption
  <2>5. Owner(events, a, g)
    BY <1>1, <2>3, <2>4, IsOwner
  <2> QED
    BY <1>3, <2>5 DEF Idles
<1> QED
  BY <1>2, <1>3, ShapeOtherArrives

LEMMA IdlesAsk ==
  ASSUME Inv, NEW r \in Slots
  PROVE  /\ AuthorizeArrives(r) => Idles(r)
         /\ \A a \in AuthIds : ResolveArrives(r, a) => Idles(r)
<1>1. ASSUME AuthorizeArrives(r) PROVE Idles(r)
  <2>1. Call(r).op # "report"
    BY <1>1 DEF AuthorizeArrives
  <2> QED
    BY <1>1, <2>1, ShapeAuthorizeArrives DEF Idles
<1>2. ASSUME NEW a \in AuthIds, ResolveArrives(r, a) PROVE Idles(r)
  <2>1. Call(r).op # "report"
    BY <1>2 DEF ResolveArrives
  <2> QED
    BY <1>2, <2>1, ShapeOtherArrives DEF Idles
<1> QED
  BY <1>1, <1>2

\* What queues nothing in the critical sections.
LEMMA IdlesInside ==
  ASSUME Inv, NEW r \in Slots, UNCHANGED queue,
         AuthorizeEnters(r) \/ ResolveEnters(r) \/ ReportEnters(r)
  PROVE  Idles(r)
<1>1. ~\E l, t, records : Records(r, l, t, records)
  <2> SUFFICES ASSUME NEW l, NEW t, NEW records, Records(r, l, t, records) PROVE FALSE
    OBVIOUS
  <2>1. queue \in Seq(Entry) /\ records \in Seq(Event)
    BY Types DEF Inv, Records
  <2>2. queue = Append(queue, [by |-> r, records |-> records])
    BY DEF Records, Enqueue
  <2>3. [by |-> r, records |-> records] \in Entry
    BY <2>1 DEF Entry
  <2> PICK q \in Entry : q = [by |-> r, records |-> records]
    BY <2>3
  <2>4. Len(Append(queue, q)) = Len(queue) + 1 /\ Len(queue) \in Nat
    BY <2>1
  <2> QED
    BY <2>2, <2>4
<1> QED
  BY <1>1, ShapeAuthorizeEnters, ShapeResolveEnters, ShapeReportEnters DEF Idles

LEMMA BooksArrive ==
  ASSUME Inv, BooksInv, client' = client, NEW r \in Slots, Arrive(r)
  PROVE  BooksInv'
<1>1. CASE CreateGrant(r)
  BY <1>1, MintKeeps, BooksQueue
<1>2. CASE AuthorizeArrives(r)
  BY <1>2, IdlesAsk, BooksMove
<1>3. ASSUME NEW a \in AuthIds, ResolveArrives(r, a) PROVE BooksInv'
  BY <1>3, IdlesAsk, BooksMove
<1>4. ASSUME NEW a \in AuthIds, ReportArrives(r, a) PROVE BooksInv'
  BY <1>4, IdlesReport, BooksMove
<1> QED
  BY <1>1, <1>2, <1>3, <1>4 DEF Arrive

LEMMA BooksContinue ==
  ASSUME Inv, BooksInv, client' = client, NEW r \in Slots, Continue(r)
  PROVE  BooksInv'
<1>1. CASE AuthorizeEnters(r)
  BY <1>1, SweepKeeps, IdlesInside, BooksQueue, BooksMove
<1>2. CASE AuthorizeDecides(r)
  BY <1>2, DecideKeeps, BooksQueue
<1>3. CASE ResolveEnters(r)
  BY <1>3, ResolveKeeps, IdlesInside, BooksQueue, BooksMove
<1>4. CASE ReportEnters(r)
  BY <1>4, ReportKeeps, IdlesInside, BooksQueue, BooksMove
<1>5. CASE SignerFails(r) \/ Rejected(r) \/ Finish(r)
  <2>1. Idles(r)
    BY <1>5, ShapeSignerFails, ShapeRejected, ShapeFinish DEF Idles
  <2> QED
    BY <2>1, BooksMove
<1> QED
  BY <1>1, <1>2, <1>3, <1>4, <1>5 DEF Continue

LEMMA BooksStep ==
  ASSUME Mild, Inv, BooksInv, [Next]_<<client, vars>>
  PROVE  BooksInv'
<1>1. client' = client
  BY DEF Next
<1>2. CASE UNCHANGED <<client, vars>> \/ Tick
  <2>1. UNCHANGED <<file, unended, events, queue, up, faults, pc, task>>
    BY <1>2 DEF vars, storeVars, serverVarsButPc, Tick
  <2> QED
    BY <1>1, <2>1, BooksSame
<1>3. ASSUME NEW r \in Slots, Arrive(r) \/ Continue(r) PROVE BooksInv'
  BY <1>1, <1>3, BooksArrive, BooksContinue
<1>4. CASE Drain
  BY <1>1, <1>4, BooksDrain
<1>5. CASE Faulty
  <2>1. PICK n, cut : DrainFails(n, cut) \/ PowerLoss(n, cut)
    BY <1>5 DEF Faulty
  <2>2. DrainFails(n, cut) \/ Stops(n, cut)
    BY <2>1 DEF PowerLoss, Stops
  <2> QED
    BY <1>1, <2>2, BooksFail, BooksStop
<1>6. CASE Crash
  <2>1. Stops(0, "whole") \/ Stops(Len(batch), "whole")
    BY <1>6 DEF Crash, Kill, Stops
  <2> QED
    BY <1>1, <2>1, BooksStop
<1>7. CASE Boot
  BY <1>1, <1>7, BooksBoot
<1> QED
  BY <1>2, <1>3, <1>4, <1>5, <1>6, <1>7 DEF Next

LEMMA BooksInit == Init => BooksInv
<1> SUFFICES ASSUME Init PROVE BooksInv
  OBVIOUS
<1>1. /\ file = <<>> /\ unended = FALSE /\ events = <<>> /\ queue = <<>> /\ up = TRUE
      /\ pc = [r \in Slots |-> "idle"]
  BY DEF Init, StoreInit
<1>2. <<>> \in Seq(Event)
  OBVIOUS
<1>3. batch = <<>>
  BY <1>1, BatchEmpty
<1>4. Steady(<<>>, <<>>)
  BY BooksEmpty, SteadyEmpty
<1>5. Steady(events, batch)
  BY <1>1, <1>3, <1>4
<1>6. Clean
  BY <1>1, <1>2 DEF Clean
<1>7. ReportsOwn /\ BatchOwn
  BY <1>1, <1>3 DEF ReportsOwn, BatchOwn, InLock
<1> QED
  BY <1>1, <1>5, <1>6, <1>7 DEF BooksInv

\* The balance of every grant is the sum of what its authorizations hold, in every
\* log that the process has or that a boot will load, whatever prefix of a batch is
\* left of it: after any number of kills, or after one power loss or write error
\* (core/replay.js: the balances "are all rebuildable from events").
THEOREM BalancesAreHolds ==
  ASSUME Mild
  PROVE  Spec => []LogBalances
<1>1. Inv /\ BooksInv /\ [Next]_<<client, vars>> => BooksInv'
  BY BooksStep
<1>2. Inv /\ BooksInv => LogBalances
  <2> SUFFICES ASSUME Inv, BooksInv PROVE LogBalances
    OBVIOUS
  <2> PICK es : es = log
    OBVIOUS
  <2>1. Books(es)
    <3>1. CASE up
      BY <3>1, Types, SteadyWhole DEF Inv, BooksInv, log
    <3>2. CASE ~up
      BY <3>2 DEF BooksInv, log
    <3> QED
      BY <3>1, <3>2
  <2>2. \A g \in Grants : spentOf(es, g) = SumOf(amountsOf(es), heldOf(es, g))
    BY <2>1 DEF Books, Sums
  <2> QED
    BY <2>2 DEF LogBalances, amountsOf, heldOf
<1> QED
  BY <1>1, <1>2, BooksInit, Inductive, PTL DEF Spec


-----------------------------------------------------------------------------
(* The rows as an invariant: no power loss tears a late reservation from the *)
(* settlement behind it.                                                     *)

MirrorsInv ==
  /\ up => Mirrors(events) /\ Mirrors(events \o batch)
  /\ ~up => Mirrors(load(file))

LEMMA MirrorsSame ==
  ASSUME MirrorsInv, UNCHANGED <<file, events, queue, up>>
  PROVE  MirrorsInv'
<1>1. batch' = batch
  BY BatchSame
<1> QED
  BY <1>1 DEF MirrorsInv

LEMMA MirrorsQueue ==
  ASSUME Inv, BooksInv, MirrorsInv, NEW r \in Slots, Keeps(r)
  PROVE  MirrorsInv'
<1>1. events \in Seq(Event) /\ batch \in Seq(Event) /\ queue \in Seq(Entry)
  BY Types DEF Inv
<1>2. PICK records \in Seq(Event) :
        /\ Enqueue(r, records) /\ up /\ UNCHANGED <<file, events, up>>
        /\ Mirrors(events \o batch) => Mirrors((events \o batch) \o records)
  BY DEF Keeps
<1>3. PICK b : b = batch'
  OBVIOUS
<1>4. b = batch \o records
  BY <1>1, <1>2, <1>3, BatchEnqueue
<1>5. (events \o batch) \o records = events \o b
  BY <1>1, <1>4, ConcatAssociative
<1>6. Mirrors(events \o b)
  BY <1>2, <1>5 DEF MirrorsInv
<1> QED
  BY <1>2, <1>3, <1>6 DEF MirrorsInv

LEMMA MirrorsMove ==
  ASSUME MirrorsInv, NEW r \in Slots, Idles(r)
  PROVE  MirrorsInv'
<1>1. UNCHANGED storeVars
  BY DEF Idles, Turned, Ends, Enters, MintEnds, FinishAuthorize, FinishOther, Locks
<1> QED
  BY <1>1, MirrorsSame DEF storeVars

\* Nothing is left to write, and the log is a log with every row true.
LEMMA MirrorsRest ==
  ASSUME NEW es \in Seq(Event), Mirrors(es), events' = es, up', queue' = <<>>
  PROVE  MirrorsInv'
<1>1. batch' = <<>>
  BY BatchEmptyNext
<1>2. es \o <<>> = es
  OBVIOUS
<1>3. PICK b : b = batch'
  OBVIOUS
<1>4. Mirrors(es \o b)
  BY <1>1, <1>2, <1>3
<1> QED
  BY <1>3, <1>4 DEF MirrorsInv

LEMMA MirrorsStop ==
  ASSUME Mild, "power" \notin Faults, Inv, BooksInv, MirrorsInv, NEW n, NEW cut, Stops(n, cut)
  PROVE  MirrorsInv'
<1>1. events \in Seq(Event) /\ batch \in Seq(Event) /\ faults \in Nat /\ MaxFaults \in Nat
  BY Types DEF Inv
<1>2. /\ Leaves(n, cut) /\ up /\ ~up' /\ faults < MaxFaults
      /\ cut = "whole" /\ n \in {0, Len(batch)}
  BY DEF Stops, Halt, Forget
<1>3. file = events /\ ~unended /\ file \in Seq(Event)
  BY <1>1, <1>2 DEF Mild, BooksInv, Clean
<1>4. file' = written(SubSeq(batch, 1, n))
  BY <1>2, <1>3 DEF Leaves
<1>5. file' = events \/ file' = events \o batch
  <2>1. SubSeq(batch, 1, n) = <<>> \/ SubSeq(batch, 1, n) = batch
    BY <1>1, <1>2, WholePrefix
  <2> QED
    BY <1>3, <1>4, <2>1 DEF written
<1>6. PICK fs : fs = file'
  OBVIOUS
<1>7. fs \in Seq(Event) /\ Mirrors(fs)
  BY <1>1, <1>2, <1>5, <1>6, ConcatPlaces DEF MirrorsInv
<1>8. load(fs) = fs
  BY <1>7, LoadPlain
<1>9. Mirrors(load(file))'
  BY <1>6, <1>7, <1>8
<1> QED
  BY <1>2, <1>9 DEF MirrorsInv

LEMMA MirrorsRequest ==
  ASSUME Inv, BooksInv, MirrorsInv, client' = client, NEW r \in Slots, Arrive(r) \/ Continue(r)
  PROVE  MirrorsInv'
<1>1. Keeps(r) => MirrorsInv'
  BY MirrorsQueue
<1>2. Idles(r) => MirrorsInv'
  BY MirrorsMove
<1>3. CASE Arrive(r)
  <2>1. Keeps(r) \/ Idles(r)
    BY <1>3, MintKeeps, IdlesAsk, IdlesReport DEF Arrive
  <2> QED
    BY <1>1, <1>2, <2>1
<1>4. CASE Continue(r)
  <2>1. AuthorizeEnters(r) => Keeps(r) \/ Idles(r)
    BY SweepKeeps, IdlesInside
  <2>2. AuthorizeDecides(r) => Keeps(r)
    BY DecideKeeps
  <2>3. ResolveEnters(r) => Keeps(r) \/ Idles(r)
    BY ResolveKeeps, IdlesInside
  <2>4. ReportEnters(r) => Keeps(r) \/ Idles(r)
    BY ReportKeeps, IdlesInside
  <2>5. SignerFails(r) \/ Rejected(r) \/ Finish(r) => Idles(r)
    BY ShapeSignerFails, ShapeRejected, ShapeFinish DEF Idles
  <2> QED
    BY <1>1, <1>2, <1>4, <2>1, <2>2, <2>3, <2>4, <2>5 DEF Continue
<1> QED
  BY <1>3, <1>4

LEMMA MirrorsStep ==
  ASSUME Mild, "power" \notin Faults, Inv, BooksInv, MirrorsInv, [Next]_<<client, vars>>
  PROVE  MirrorsInv'
<1>0. events \in Seq(Event) /\ batch \in Seq(Event)
  BY Types DEF Inv
<1>1. client' = client
  BY DEF Next
<1>2. CASE UNCHANGED <<client, vars>> \/ Tick
  <2>1. UNCHANGED <<file, events, queue, up>>
    BY <1>2 DEF vars, storeVars, serverVarsButPc, Tick
  <2> QED
    BY <2>1, MirrorsSame
<1>3. ASSUME NEW r \in Slots, Arrive(r) \/ Continue(r) PROVE MirrorsInv'
  BY <1>1, <1>3, MirrorsRequest
<1>4. CASE Drain
  <2>1. up /\ up' /\ events' = events \o batch /\ queue' = <<>>
    BY <1>4 DEF Drain, Commit, serverVarsButPc
  <2>2. events \o batch \in Seq(Event)
    BY <1>0, ConcatPlaces
  <2> QED
    BY <2>1, <2>2, MirrorsRest DEF MirrorsInv
<1>5. ASSUME NEW n, NEW cut, DrainFails(n, cut) PROVE MirrorsInv'
  <2>1. up /\ up' /\ events' = events /\ queue' = <<>>
    BY <1>5 DEF DrainFails, CommitFails
  <2> QED
    BY <1>0, <2>1, MirrorsRest DEF MirrorsInv
<1>6. ASSUME NEW n, NEW cut, Stops(n, cut) PROVE MirrorsInv'
  BY <1>6, MirrorsStop
<1>7. CASE Faulty
  <2>1. PICK n, cut : DrainFails(n, cut) \/ PowerLoss(n, cut)
    BY <1>7 DEF Faulty
  <2>2. DrainFails(n, cut) \/ Stops(n, cut)
    BY <2>1 DEF PowerLoss, Stops
  <2> QED
    BY <1>5, <1>6, <2>2
<1>8. CASE Crash
  <2>1. Stops(0, "whole") \/ Stops(Len(batch), "whole")
    BY <1>8 DEF Crash, Kill, Stops
  <2> QED
    BY <1>6, <2>1
<1>9. CASE Boot
  <2>1. ~up /\ up' /\ events' = load(file) /\ queue' = queue
    BY <1>9 DEF Boot, Load
  <2>2. queue = <<>> /\ load(file) \in Seq(Event)
    BY <2>1, LoadType DEF Inv, DownInv, BooksInv, Books
  <2> QED
    BY <2>1, <2>2, MirrorsRest DEF MirrorsInv
<1> QED
  BY <1>2, <1>3, <1>4, <1>7, <1>8, <1>9 DEF Next

LEMMA MirrorsInit == Init => MirrorsInv
<1> SUFFICES ASSUME Init PROVE MirrorsInv
  OBVIOUS
<1>1. events = <<>> /\ queue = <<>> /\ up = TRUE
  BY DEF Init, StoreInit
<1>2. batch = <<>>
  BY <1>1, BatchEmpty
<1>3. <<>> \in Seq(Event) /\ <<>> \o <<>> = <<>>
  OBVIOUS
<1>4. ASSUME NEW a \in AuthIds, NEW g \in Grants, decisionOf(<<>>, a).g = g PROVE FALSE
  <2>1. decisionOf(<<>>, a) = NoEvent
    BY DEF decisionOf, lastAt
  <2> QED
    BY <1>4, <2>1, ServerAssumption DEF NoEvent
<1>5. Mirrors(<<>>)
  BY <1>4 DEF Mirrors, Mirrored
<1> QED
  BY <1>1, <1>2, <1>3, <1>5 DEF MirrorsInv

\* As long as no power loss tears a batch, the holds that the sweep's own fold finds
\* expired are the ones that railState() says are, whatever the log: a submission
\* extends both deadlines, a settlement closes the row as it ends the lifecycle, and
\* the reservation of a late settlement, which has no deadline for the row, has the
\* settlement behind it (core/rail.js: "cannot come to mean two different things").
THEOREM SweepIsLifecycle ==
  ASSUME Mild, "power" \notin Faults
  PROVE  Spec => []SweepReadsLifecycle
<1>1. Inv /\ BooksInv /\ [Next]_<<client, vars>> => BooksInv'
  BY BooksStep
<1>2. Inv /\ BooksInv /\ MirrorsInv /\ [Next]_<<client, vars>> => MirrorsInv'
  BY MirrorsStep
<1>3. Inv /\ BooksInv /\ MirrorsInv => SweepReadsLifecycle
  <2> SUFFICES ASSUME Inv, BooksInv, MirrorsInv PROVE SweepReadsLifecycle
    OBVIOUS
  <2> PICK es : es = log
    OBVIOUS
  <2>1. Books(es) /\ Mirrors(es)
    <3>1. CASE up
      BY <3>1, Types, SteadyWhole DEF Inv, BooksInv, MirrorsInv, log
    <3>2. CASE ~up
      BY <3>2 DEF BooksInv, MirrorsInv, log
    <3> QED
      BY <3>1, <3>2
  <2>2. ASSUME NEW g \in Grants, NEW now \in 0..(MaxTime + TTL + GRACE)
        PROVE  expiredReservations(es, g, now) =
                 {a \in AuthIds : decisionOf(es, a).g = g /\ expired(railState(es, a), now)}
    <3> SUFFICES ASSUME NEW a \in AuthIds
                 PROVE  (sweepRow(es, g, a).open /\ sweepRow(es, g, a).deadline # 0 /\ now > sweepRow(es, g, a).deadline)
                          <=> (decisionOf(es, a).g = g /\ expired(railState(es, a), now))
      BY DEF expiredReservations
    <3>1. sweepRow(es, g, a).open => decisionOf(es, a).g = g
      BY <2>1 DEF Books, RowsHeld
    <3>2. decisionOf(es, a).g = g =>
            /\ sweepRow(es, g, a).open <=> sweepable(railState(es, a))
            /\ sweepRow(es, g, a).open => sweepRow(es, g, a).deadline = railState(es, a).deadline
      BY <2>1 DEF Mirrors, Mirrored
    <3> QED
      BY <3>1, <3>2 DEF expired
  <2> QED
    BY <2>2 DEF SweepReadsLifecycle
<1> QED
  BY <1>1, <1>2, <1>3, BooksInit, MirrorsInit, Inductive, PTL DEF Spec
=============================================================================
