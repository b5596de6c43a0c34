---------------------------- MODULE FoldTheorems ----------------------------
(***************************************************************************)
(* Induction over a log.  An instance of this module gives, for one fold,  *)
(* what it is on a longer sequence and what holds of it on every sequence. *)
(* An induction is the least of the lengths at which a claim fails.        *)
(***************************************************************************)
EXTENDS Folding, NaturalsInduction, WellFoundedInduction, TLAPS

CONSTANTS
  Step(_, _, _),    \* what an element makes of a state, for a parameter
  Claim(_, _, _)    \* what is claimed of a sequence and the state it folds to

total(p, first, es) == fold(LAMBDA s, e : Step(p, s, e), first, es)

\* A nonempty set of naturals has a least element.
LEMMA LeastOf ==
  ASSUME NEW T \in SUBSET Nat, T # {}
  PROVE  \E m \in T : \A n \in T : m <= n
<1> DEFINE R == {ss \in Nat \X Nat : ss[1] < ss[2]}
<1>1. IsWellFoundedOn(R, Nat)
  BY NatLessThanWellFounded DEF OpToRel
<1> HIDE DEF R
<1>2. PICK x \in T : \A y \in T : ~ (<<y, x>> \in R)
  BY <1>1, WFMin
<1>3. \A y \in T : x <= y
  <2> TAKE y \in T
  <2>1. <<y, x>> \in Nat \X Nat /\ y \in Nat /\ x \in Nat
    OBVIOUS
  <2>2. ~(<<y, x>> \in R)
    BY <1>2
  <2>3. ~(y < x)
    BY <2>1, <2>2 DEF R
  <2> QED
    BY <2>1, <2>3
<1> QED
  BY <1>3

\* f is the run of the fold over the first n elements.
Runs(f, n, p, first, es) ==
  f = [i \in 0..n |-> IF i = 0 THEN first ELSE Step(p, f[i - 1], es[i])]

LEMMA RunsExist ==
  ASSUME NEW p, NEW first, NEW es
  PROVE  \A n \in Nat : \E f : Runs(f, n, p, first, es)
<1> DEFINE T == {n \in Nat : ~\E f : Runs(f, n, p, first, es)}
<1>1. SUFFICES ASSUME T # {} PROVE FALSE
  OBVIOUS
<1>2. PICK m \in T : \A n \in T : m <= n
  BY <1>1, LeastOf
<1>3. m # 0
  <2>1. Runs([i \in 0..0 |-> first], 0, p, first, es)
    BY DEF Runs
  <2> QED
    BY <2>1
<1>4. m - 1 \in Nat /\ m - 1 \notin T
  BY <1>2, <1>3
<1>5. PICK f : Runs(f, m - 1, p, first, es)
  BY <1>4
<1> DEFINE h == [i \in 0..m |-> IF i = m THEN Step(p, f[m - 1], es[m]) ELSE f[i]]
<1>6. Runs(h, m, p, first, es)
  BY <1>3, <1>4, <1>5 DEF Runs
<1> QED
  BY <1>6

\* A longer run begins as a shorter one.
LEMMA RunsAgree ==
  ASSUME NEW p, NEW first, NEW es, NEW n \in Nat, NEW m \in Nat, m >= n,
         NEW f, Runs(f, n, p, first, es), NEW h, Runs(h, m, p, first, es)
  PROVE  \A i \in 0..n : f[i] = h[i]
<1> DEFINE T == {i \in 0..n : f[i] # h[i]}
<1>1. SUFFICES ASSUME T # {} PROVE FALSE
  OBVIOUS
<1>2. PICK k \in T : \A j \in T : k <= j
  <2>1. T \in SUBSET Nat
    OBVIOUS
  <2> QED
    BY <1>1, <2>1, LeastOf
<1>3. k # 0
  BY DEF Runs
<1>4. f[k - 1] = h[k - 1]
  BY <1>2, <1>3
<1> QED
  BY <1>3, <1>4 DEF Runs

run(p, first, es, n) == CHOOSE f : Runs(f, n, p, first, es)

LEMMA RunIs ==
  ASSUME NEW p, NEW first, NEW es, NEW n \in Nat
  PROVE  Runs(run(p, first, es, n), n, p, first, es)
BY RunsExist DEF run

LEMMA TotalIsRun ==
  ASSUME NEW S, NEW p, NEW first, NEW es \in Seq(S)
  PROVE  total(p, first, es) = run(p, first, es, Len(es))[Len(es)]
BY Zenon DEF total, fold, run, Runs

\* The fold of nothing is where it starts.
THEOREM FoldEmpty ==
  ASSUME NEW p, NEW first
  PROVE  total(p, first, <<>>) = first
<1>1. Runs(run(p, first, <<>>, 0), 0, p, first, <<>>)
  BY RunIs
<1>2. <<>> \in Seq({}) /\ Len(<<>>) = 0
  OBVIOUS
<1>3. total(p, first, <<>>) = run(p, first, <<>>, 0)[0]
  BY <1>2, TotalIsRun
<1> HIDE DEF total
<1> QED
  BY <1>1, <1>3 DEF Runs

\* The last element makes its step of the fold of the others.
THEOREM FoldAppend ==
  ASSUME NEW S, NEW p, NEW first, NEW es \in Seq(S), NEW e \in S
  PROVE  total(p, first, Append(es, e)) = Step(p, total(p, first, es), e)
<1> DEFINE n == Len(es)
           f == run(p, first, es, n)
           h == run(p, first, Append(es, e), n + 1)
<1>1. n \in Nat /\ n + 1 \in Nat /\ Len(Append(es, e)) = n + 1 /\ Append(es, e) \in Seq(S)
  OBVIOUS
<1>2. (\A i \in 1..n : Append(es, e)[i] = es[i]) /\ Append(es, e)[n + 1] = e
  OBVIOUS
<1>3. Runs(f, n, p, first, es)
  BY <1>1, RunIs
<1>4. Runs(h, n + 1, p, first, Append(es, e))
  BY <1>1, RunIs
<1>5. total(p, first, es) = f[n] /\ total(p, first, Append(es, e)) = h[n + 1]
  BY <1>1, TotalIsRun
<1> HIDE DEF f, h, n
<1>6. Runs(f, n, p, first, Append(es, e))
  BY <1>1, <1>2, <1>3 DEF Runs
<1>7. \A i \in 0..n : f[i] = h[i]
  BY <1>1, <1>4, <1>6, RunsAgree
<1>8. h[n + 1] = Step(p, h[n], e)
  BY <1>1, <1>2, <1>4 DEF Runs
<1>9. h[n] = f[n]
  BY <1>1, <1>7
<1> QED
  BY <1>5, <1>8, <1>9

\* A sequence is empty or has a last element.
LEMMA LastApart ==
  ASSUME NEW S, NEW es \in Seq(S), es # <<>>
  PROVE  \E front \in Seq(S), last \in S : es = Append(front, last) /\ Len(es) = Len(front) + 1
<1> DEFINE n == Len(es)
           front == [i \in 1..(n - 1) |-> es[i]]
<1>1. n \in Nat /\ n # 0
  OBVIOUS
<1>2. front \in Seq(S) /\ Len(front) = n - 1
  BY <1>1
<1>3. es[n] \in S
  BY <1>1
<1>4. es = Append(front, es[n])
  <2>1. Append(front, es[n]) \in Seq(S) /\ Len(Append(front, es[n])) = n
    BY <1>1, <1>2, <1>3
  <2>2. \A i \in 1..n : Append(front, es[n])[i] = es[i]
    BY <1>1, <1>2, <1>3
  <2> HIDE DEF front
  <2> QED
    BY <1>1, <2>1, <2>2
<1> HIDE DEF front
<1> QED
  BY <1>1, <1>2, <1>3, <1>4

\* A claim that holds of nothing, and of a sequence with one more element when
\* it holds of the sequence, holds of every sequence.
THEOREM FoldInduction ==
  ASSUME NEW S, NEW p, NEW first,
         Claim(p, <<>>, first),
         \A es \in Seq(S), e \in S :
           Claim(p, es, total(p, first, es)) =>
             Claim(p, Append(es, e), Step(p, total(p, first, es), e))
  PROVE  \A es \in Seq(S) : Claim(p, es, total(p, first, es))
<1> DEFINE Fails(es) == ~Claim(p, es, total(p, first, es))
           T == {n \in Nat : \E es \in Seq(S) : Len(es) = n /\ Fails(es)}
<1>1. SUFFICES ASSUME T # {} PROVE FALSE
  <2> SUFFICES ASSUME NEW es \in Seq(S), Fails(es) PROVE FALSE
    OBVIOUS
  <2>1. Len(es) \in T
    OBVIOUS
  <2> QED
    BY <1>1, <2>1
<1>2. PICK m \in T : \A n \in T : m <= n
  BY <1>1, LeastOf
<1>3. PICK es \in Seq(S) : Len(es) = m /\ Fails(es)
  OBVIOUS
<1>4. es # <<>>
  BY <1>3, FoldEmpty
<1>5. PICK front \in Seq(S), last \in S : es = Append(front, last)
  BY <1>4, LastApart
<1>6. Len(front) \in Nat /\ Len(front) = m - 1
  BY <1>3, <1>5
<1>7. ~Fails(front)
  BY <1>2, <1>6
<1>8. Claim(p, es, Step(p, total(p, first, front), last))
  BY <1>5, <1>7
<1> QED
  BY <1>3, <1>5, <1>8, FoldAppend

\* The fold of two sequences is the fold of the second from that of the first.
THEOREM FoldConcat ==
  ASSUME NEW S, NEW p, NEW first, NEW es \in Seq(S)
  PROVE  \A more \in Seq(S) :
           total(p, first, es \o more) = total(p, total(p, first, es), more)
<1> DEFINE mid == total(p, first, es)
           Fails(more) == total(p, first, es \o more) # total(p, mid, more)
           T == {n \in Nat : \E more \in Seq(S) : Len(more) = n /\ Fails(more)}
<1>1. SUFFICES ASSUME T # {} PROVE FALSE
  <2> SUFFICES ASSUME NEW more \in Seq(S), Fails(more) PROVE FALSE
    OBVIOUS
  <2>1. Len(more) \in T
    OBVIOUS
  <2> QED
    BY <1>1, <2>1
<1>2. PICK m \in T : \A n \in T : m <= n
  BY <1>1, LeastOf
<1>3. PICK more \in Seq(S) : Len(more) = m /\ Fails(more)
  OBVIOUS
<1>4. more # <<>>
  <2>1. es \o <<>> = es
    OBVIOUS
  <2> QED
    BY <1>3, <2>1, FoldEmpty
<1>5. PICK front \in Seq(S), last \in S : more = Append(front, last)
  BY <1>4, LastApart
<1>6. Len(front) \in Nat /\ Len(front) = m - 1
  BY <1>3, <1>5
<1>7. total(p, first, es \o front) = total(p, mid, front)
  BY <1>2, <1>6
<1>8. es \o more = Append(es \o front, last) /\ es \o front \in Seq(S)
  BY <1>5
<1>9. PICK both \in Seq(S) : both = es \o front
  BY <1>8
<1>10. total(p, first, Append(both, last)) = Step(p, total(p, first, both), last)
  BY FoldAppend
<1>11. total(p, mid, more) = Step(p, total(p, mid, front), last)
  BY <1>5, FoldAppend
<1> QED
  BY <1>3, <1>7, <1>8, <1>9, <1>10, <1>11
=============================================================================
