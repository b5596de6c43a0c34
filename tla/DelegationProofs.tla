-------------------------- MODULE DelegationProofs --------------------------
(***************************************************************************)
(* A Merkle root proves the members of its set and nothing else, at any    *)
(* size of the set and along paths of any length and any digests.  No      *)
(* chain of re-commitments, however long and from whatever trees and       *)
(* bands, is wider than its parent in its capabilities or above it in its  *)
(* limit, and no accepted band is another grant's.                         *)
(***************************************************************************)
EXTENDS Delegation, FiniteSetTheorems, FunctionTheorems, TLAPS

(***************************************************************************)
(* The tree.  The levels, the way up through them and the digest a path    *)
(* leads to are folds of one step each.                                    *)
(***************************************************************************)
\* A step of the way up (climb).
join(h, step) == IF step.right THEN node(h, step.hash) ELSE node(step.hash, h)
joinStep(p, h, step) == join(h, step)
anyClaim(p, es, s) == TRUE
JoinFold == INSTANCE FoldTheorems WITH Step <- joinStep, Claim <- anyClaim

levelStep(p, level, x) == above(level)
LevelFold == INSTANCE FoldTheorems WITH Step <- levelStep, Claim <- anyClaim

halfStep(p, i, x) == (i + 1) \div 2
HalfFold == INSTANCE FoldTheorems WITH Step <- halfStep, Claim <- anyClaim

LEMMA ClimbIs ==
  ASSUME NEW leaf, NEW path
  PROVE  climb(leaf, path) = JoinFold!total(0, leaf, path)
BY DEF climb, JoinFold!total, JoinFold!fold, fold, joinStep, join

\* The members of a set that sort before a capability.
Below(S, c) == {d \in S : Rank[d] < Rank[c]}
place(S, c) == Cardinality(Below(S, c))

LEMMA SubsetsFinite ==
  ASSUME NEW S \in SUBSET Caps
  PROVE  IsFiniteSet(S) /\ Cardinality(S) \in Nat
BY FS_Subset, FS_CardinalityType, CapabilityAssumption

LEMMA PlaceIsInside ==
  ASSUME NEW S \in SUBSET Caps, NEW c \in S
  PROVE  place(S, c) \in 0..Cardinality(S) - 1
<1>1. IsFiniteSet(S) /\ Cardinality(S) \in Nat
  BY SubsetsFinite
<1>2. Below(S, c) \in SUBSET S /\ c \notin Below(S, c)
  BY CapabilityAssumption DEF Below
<1>3. Cardinality(Below(S, c)) <= Cardinality(S) /\ Cardinality(Below(S, c)) \in Nat
  BY <1>1, <1>2, FS_Subset, FS_CardinalityType
<1>4. Cardinality(Below(S, c)) # Cardinality(S)
  BY <1>1, <1>2, FS_Subset
<1> QED
  BY <1>1, <1>3, <1>4 DEF place

LEMMA PlacesDiffer ==
  ASSUME NEW S \in SUBSET Caps, NEW c \in S, NEW d \in S, place(S, c) = place(S, d)
  PROVE  c = d
<1>1. Rank[c] \in Nat /\ Rank[d] \in Nat /\ (Rank[c] = Rank[d] => c = d)
  BY CapabilityAssumption
<1>2. ASSUME NEW x \in S, NEW y \in S, Rank[x] < Rank[y] PROVE place(S, x) # place(S, y)
  <2>1. Below(S, x) \in SUBSET Below(S, y) /\ x \in Below(S, y) /\ x \notin Below(S, x)
    BY <1>2, CapabilityAssumption DEF Below
  <2>2. Below(S, y) \in SUBSET Caps
    BY DEF Below
  <2>3. IsFiniteSet(Below(S, y))
    BY <2>2, SubsetsFinite
  <2> QED
    BY <2>1, <2>3, FS_Subset DEF place
<1> QED
  BY <1>1, <1>2

\* Every place is somebody's: as many places as members, and no two share one.
LEMMA PlacesAreTaken ==
  ASSUME NEW S \in SUBSET Caps, NEW i \in 0..Cardinality(S) - 1
  PROVE  \E c \in S : place(S, c) = i
<1> DEFINE f == [c \in S |-> place(S, c)]
           N == 0..Cardinality(S) - 1
<1>1. IsFiniteSet(S) /\ Cardinality(S) \in Nat
  BY SubsetsFinite
<1>2. f \in [S -> N]
  BY PlaceIsInside
<1>3. \A c, d \in S : f[c] = f[d] => c = d
  BY PlacesDiffer
<1>4. IsFiniteSet(N) /\ Cardinality(N) = Cardinality(S)
  BY <1>1, FS_Interval
<1> HIDE DEF N
<1>5. f \in Injection(S, N)
  BY <1>2, <1>3, Fun_IsInj
<1>6. f \in Surjection(S, N)
  BY <1>4, <1>5, FS_Injection
<1>7. \A n \in N : \E c \in S : f[c] = n
  BY <1>6, Fun_SurjectionProperties
<1> QED
  BY <1>7 DEF N

\* A leaf says which capability it is.
Joined(w, t, v) ==
  /\ Len(w) = Len(t) + 1 + Len(v) /\ w[Len(t) + 1] = Bar
  /\ \A i \in 1..Len(t) : w[i] = t[i]
  /\ \A i \in 1..Len(v) : w[Len(t) + 1 + i] = v[i]

LEMMA JoinedIs ==
  ASSUME NEW S, NEW t \in Seq(S), NEW v \in Seq(S)
  PROVE  Joined(t \o <<Bar>> \o v, t, v)
<1>1. t \in Seq(S \cup {Bar}) /\ v \in Seq(S \cup {Bar}) /\ <<Bar>> \in Seq(S \cup {Bar})
  OBVIOUS
<1> QED
  BY <1>1 DEF Joined

LEMMA SequencesSame ==
  ASSUME NEW S, NEW t \in Seq(S), NEW x \in Seq(S), Len(t) = Len(x), \A i \in 1..Len(t) : t[i] = x[i]
  PROVE  t = x
OBVIOUS

LEMMA JoinedAreSame ==
  ASSUME NEW S, NEW t \in Seq(S), NEW v \in Seq(S), NEW x \in Seq(S), NEW y \in Seq(S),
         \A i \in 1..Len(t) : t[i] # Bar, \A i \in 1..Len(x) : x[i] # Bar,
         t \o <<Bar>> \o v = x \o <<Bar>> \o y
  PROVE  t = x /\ v = y
<1> DEFINE w == t \o <<Bar>> \o v
<1>1. Joined(w, t, v) /\ Joined(w, x, y)
  BY JoinedIs
<1> HIDE DEF w
<1>2. /\ Len(w) = Len(t) + 1 + Len(v) /\ w[Len(t) + 1] = Bar
      /\ \A i \in 1..Len(t) : w[i] = t[i]
      /\ \A i \in 1..Len(v) : w[Len(t) + 1 + i] = v[i]
  BY <1>1 DEF Joined
<1>3. /\ Len(w) = Len(x) + 1 + Len(y) /\ w[Len(x) + 1] = Bar
      /\ \A i \in 1..Len(x) : w[i] = x[i]
      /\ \A i \in 1..Len(y) : w[Len(x) + 1 + i] = y[i]
  BY <1>1 DEF Joined
<1>4. Len(t) \in Nat /\ Len(x) \in Nat /\ Len(v) \in Nat /\ Len(y) \in Nat
  OBVIOUS
<1>5. Len(t) = Len(x)
  <2>1. ASSUME Len(t) < Len(x) PROVE FALSE
    <3>1. Len(t) + 1 \in 1..Len(x)
      BY <1>4, <2>1
    <3>2. w[Len(t) + 1] = x[Len(t) + 1]
      BY <1>3, <3>1
    <3> QED
      BY <1>2, <3>1, <3>2
  <2>2. ASSUME Len(x) < Len(t) PROVE FALSE
    <3>1. Len(x) + 1 \in 1..Len(t)
      BY <1>4, <2>2
    <3>2. w[Len(x) + 1] = t[Len(x) + 1]
      BY <1>2, <3>1
    <3> QED
      BY <1>3, <3>1, <3>2
  <2> QED
    BY <1>4, <2>1, <2>2
<1>6. Len(v) = Len(y)
  BY <1>2, <1>3, <1>4, <1>5
<1>7. \A i \in 1..Len(t) : t[i] = x[i]
  BY <1>2, <1>3, <1>5
<1>8. \A i \in 1..Len(v) : v[i] = y[i]
  BY <1>2, <1>3, <1>5, <1>6
<1>9. t = x
  BY <1>5, <1>7, SequencesSame
<1>10. v = y
  BY <1>6, <1>8, SequencesSame
<1> QED
  BY <1>9, <1>10

\* A leaf says which capability it is.
LEMMA LeavesDiffer ==
  ASSUME NEW c \in Caps, NEW d \in Caps, leafOf(c) = leafOf(d)
  PROVE  c = d
<1>1. c \in [type : Seq(STRING), value : Seq(STRING)] /\ d \in [type : Seq(STRING), value : Seq(STRING)]
  BY CapabilityAssumption
<1>2. /\ c.type \in Seq(STRING) /\ c.value \in Seq(STRING)
      /\ d.type \in Seq(STRING) /\ d.value \in Seq(STRING)
  BY <1>1
<1>3. c.type \o <<Bar>> \o c.value = d.type \o <<Bar>> \o d.value
  BY DEF leafOf
<1>4. (\A i \in 1..Len(c.type) : c.type[i] # Bar) /\ (\A i \in 1..Len(d.type) : d.type[i] # Bar)
  BY <1>2, CapabilityAssumption
<1>5. c.type = d.type /\ c.value = d.value
  <2>1. PICK t \in Seq(STRING), v \in Seq(STRING), x \in Seq(STRING), y \in Seq(STRING) :
          t = c.type /\ v = c.value /\ x = d.type /\ y = d.value
    BY <1>2
  <2>2. t = x /\ v = y
    <3>1. t \o <<Bar>> \o v = x \o <<Bar>> \o y
      BY <1>3, <2>1
    <3>2. (\A i \in 1..Len(t) : t[i] # Bar) /\ (\A i \in 1..Len(x) : x[i] # Bar)
      BY <1>4, <2>1
    <3> QED
      BY <3>1, <3>2, JoinedAreSame, Zenon
  <2> QED
    BY <2>1, <2>2
<1> QED
  BY <1>1, <1>5

\* The leaves of a set are its members', each at its place.
LEMMA LeavesAre ==
  ASSUME NEW S \in SUBSET Caps
  PROVE  /\ Len(leaves(S)) = Cardinality(S) /\ DOMAIN leaves(S) = 1..Cardinality(S)
         /\ \A i \in 1..Cardinality(S) : \E c \in S : leaves(S)[i] = leafOf(c)
         /\ \A c \in S : \E i \in 1..Cardinality(S) : leaves(S)[i] = leafOf(c)
<1>1. Cardinality(S) \in Nat
  BY SubsetsFinite
<1>2. leaves(S) = [i \in 1..Cardinality(S) |-> leafOf(CHOOSE c \in S : place(S, c) = i - 1)]
  BY DEF leaves, place, Below
<1>3. Len(leaves(S)) = Cardinality(S) /\ DOMAIN leaves(S) = 1..Cardinality(S)
  BY <1>1, <1>2
<1>4. ASSUME NEW i \in 1..Cardinality(S) PROVE \E c \in S : leaves(S)[i] = leafOf(c)
  <2>1. \E c \in S : place(S, c) = i - 1
    BY <1>1, PlacesAreTaken
  <2> QED
    BY <1>2, <2>1
<1>5. ASSUME NEW c \in S PROVE \E i \in 1..Cardinality(S) : leaves(S)[i] = leafOf(c)
  <2> DEFINE i == place(S, c) + 1
  <2>1. i \in 1..Cardinality(S) /\ i - 1 = place(S, c)
    BY <1>1, PlaceIsInside
  <2>2. (CHOOSE d \in S : place(S, d) = i - 1) = c
    BY <2>1, PlacesDiffer
  <2> QED
    BY <1>2, <2>1, <2>2
<1> QED
  BY <1>3, <1>4, <1>5

\* The levels of the tree, before the cut at its root (buildTree).
levels(S) ==
  LET level[n \in 1..Cardinality(S) + 1] == IF n = 1 THEN leaves(S) ELSE above(level[n - 1])
  IN  level

\* A level of the tree after its first is made of the one below it.
LEMMA LevelsAre ==
  ASSUME NEW S \in SUBSET Caps
  PROVE  /\ DOMAIN levels(S) = 1..Cardinality(S) + 1
         /\ levels(S)[1] = leaves(S)
         /\ \A n \in 2..Cardinality(S) + 1 : levels(S)[n] = above(levels(S)[n - 1])
<1> DEFINE N == Cardinality(S)
           IsLevels(f) == f = [n \in 1..N + 1 |-> IF n = 1 THEN leaves(S) ELSE above(f[n - 1])]
<1>1. N \in Nat
  BY SubsetsFinite
<1>2. PICK f : LevelFold!Runs(f, N, 0, leaves(S), <<>>)
  BY <1>1, LevelFold!RunsExist
<1> HIDE DEF N
<1>3. IsLevels([n \in 1..N + 1 |-> f[n - 1]])
  <2>1. \A n \in 1..N + 1 : f[n - 1] = IF n = 1 THEN leaves(S) ELSE above(f[n - 1 - 1])
    BY <1>1, <1>2 DEF LevelFold!Runs, levelStep
  <2> QED
    BY <1>1, <2>1
<1>4. levels(S) = CHOOSE h : IsLevels(h)
  BY DEF levels, N
<1>5. IsLevels(levels(S))
  BY <1>3, <1>4
<1> QED
  BY <1>1, <1>5 DEF N

\* One level up there are half as many, rounded up, each made of two below.
LEMMA AboveIs ==
  ASSUME NEW level, Len(level) \in Nat
  PROVE  /\ Len(above(level)) = (Len(level) + 1) \div 2
         /\ DOMAIN above(level) = 1..(Len(level) + 1) \div 2
         /\ \A i \in 1..(Len(level) + 1) \div 2 :
              above(level)[i] =
                node(level[2 * i - 1], IF 2 * i <= Len(level) THEN level[2 * i] ELSE level[2 * i - 1])
BY DEF above

\* Every level has a node, and fewer than the one below until there is one.
LEMMA LevelsShrink ==
  ASSUME NEW S \in SUBSET Caps, S # {}
  PROVE  \A n \in 1..Cardinality(S) + 1 :
           /\ Len(levels(S)[n]) \in Nat \ {0}
           /\ Len(levels(S)[n]) <= 1 \/ Len(levels(S)[n]) <= Cardinality(S) + 1 - n
           /\ DOMAIN levels(S)[n] = 1..Len(levels(S)[n])
<1> DEFINE N == Cardinality(S)
           L(n) == Len(levels(S)[n])
           Good(n) == /\ L(n) \in Nat \ {0} /\ (L(n) <= 1 \/ L(n) <= N + 1 - n)
                      /\ DOMAIN levels(S)[n] = 1..L(n)
           T == {n \in Nat : n \in 1..N + 1 /\ ~Good(n)}
<1>1. N \in Nat \ {0}
  BY SubsetsFinite, FS_EmptySet
<1>2. SUFFICES ASSUME T # {} PROVE FALSE
  BY <1>1
<1>3. PICK m \in T : \A n \in T : m <= n
  BY <1>2, JoinFold!LeastOf
<1>4. CASE m = 1
  BY <1>1, <1>4, LevelsAre, LeavesAre
<1>5. CASE m # 1
  <2>1. m - 1 \in 1..N + 1 /\ m \in 2..N + 1 /\ Good(m - 1)
    BY <1>1, <1>3, <1>5
  <2>2. levels(S)[m] = above(levels(S)[m - 1])
    BY <2>1, LevelsAre
  <2>3. L(m) = (L(m - 1) + 1) \div 2 /\ DOMAIN levels(S)[m] = 1..L(m)
    BY <2>1, <2>2, AboveIs
  <2> HIDE DEF L, N
  <2>4. L(m) \in Nat \ {0} /\ (L(m) <= 1 \/ L(m) <= N + 1 - m)
    BY <1>1, <2>1, <2>3
  <2> QED
    BY <2>3, <2>4
<1> QED
  BY <1>4, <1>5

\* A tree's levels end with the first of one node, which is its root.
LEMMA TreeIs ==
  ASSUME NEW S \in SUBSET Caps, S # {}
  PROVE  \E h \in 1..Cardinality(S) + 1 :
           /\ buildTree(S) = [n \in 1..h |-> levels(S)[n]]
           /\ Len(levels(S)[h]) = 1 /\ rootOf(S) = levels(S)[h][1]
<1> DEFINE N == Cardinality(S)
           Ends(n) == Len(levels(S)[n]) <= 1 /\ \A m \in 1..n - 1 : Len(levels(S)[m]) > 1
           T == {n \in Nat : n \in 1..N + 1 /\ Len(levels(S)[n]) <= 1}
           h == CHOOSE n \in 1..N + 1 : Ends(n)
<1>1. N \in Nat \ {0}
  BY SubsetsFinite, FS_EmptySet
<1>2. \A n \in 1..N + 1 : Len(levels(S)[n]) \in Nat \ {0}
  BY LevelsShrink
<1>3. Len(levels(S)[N + 1]) <= 1
  <2>1. N + 1 \in 1..N + 1
    BY <1>1
  <2>2. Len(levels(S)[N + 1]) <= 1 \/ Len(levels(S)[N + 1]) <= N + 1 - (N + 1)
    BY <2>1, LevelsShrink
  <2> HIDE DEF N
  <2> QED
    BY <1>1, <1>2, <2>1, <2>2
<1> HIDE DEF N
<1>4. \E n \in 1..N + 1 : Ends(n)
  <2>1. T # {}
    BY <1>1, <1>3
  <2>2. PICK n \in T : \A m \in T : n <= m
    BY <2>1, JoinFold!LeastOf
  <2>3. \A m \in 1..n - 1 : m \in 1..N + 1 /\ m \notin T
    BY <1>1, <2>2
  <2>4. \A m \in 1..n - 1 : Len(levels(S)[m]) > 1
    BY <1>2, <2>3
  <2> QED
    BY <2>2, <2>4
<1>5. h \in 1..N + 1 /\ Ends(h)
  BY <1>4
<1>6. DOMAIN levels(S) = 1..N + 1
  BY LevelsAre DEF N
<1>7. buildTree(S) = [n \in 1..h |-> levels(S)[n]]
  BY <1>6 DEF buildTree, levels
<1> HIDE DEF h
<1>8. h \in Nat /\ h \in 1..h /\ Len(buildTree(S)) = h
  BY <1>1, <1>5, <1>7
<1>9. rootOf(S) = levels(S)[h][1]
  BY <1>7, <1>8 DEF rootOf
<1>10. Len(levels(S)[h]) = 1
  <2>1. Len(levels(S)[h]) \in Nat \ {0}
    BY <1>2, <1>5
  <2>2. Len(levels(S)[h]) <= 1
    BY <1>5
  <2>3. \A k \in Nat \ {0} : k <= 1 => k = 1
    OBVIOUS
  <2> QED
    BY <2>1, <2>2, <2>3, Zenon
<1> QED
  BY <1>5, <1>7, <1>9, <1>10 DEF N

\* Two digests are equal when what they are digests of is.
LEMMA DigestsDiffer ==
  /\ \A c, l, r : leafOf(c) # node(l, r)
  /\ \A l, r, x, y : node(l, r) = node(x, y) => l = x /\ r = y
  /\ \A c, l, r : leafOf(c) # <<"empty">> /\ node(l, r) # <<"empty">>
BY DEF leafOf, node

\* A path leads to its leaf, or to a node one of whose parts its shorter path leads to.
LEMMA ClimbEnds ==
  ASSUME NEW P, NEW path \in Seq(P), NEW leaf
  PROVE  \/ path = <<>> /\ climb(leaf, path) = leaf
         \/ \E front \in Seq(P) : \E other :
              \/ climb(leaf, path) = node(climb(leaf, front), other)
              \/ climb(leaf, path) = node(other, climb(leaf, front))
<1>1. CASE path = <<>>
  BY <1>1, ClimbIs, JoinFold!FoldEmpty, Zenon
<1>2. CASE path # <<>>
  <2>1. PICK front \in Seq(P), last \in P : path = Append(front, last)
    BY <1>2, JoinFold!LastApart
  <2>2. JoinFold!total(0, leaf, Append(front, last)) = joinStep(0, JoinFold!total(0, leaf, front), last)
    BY JoinFold!FoldAppend
  <2>3. climb(leaf, path) = join(climb(leaf, front), last)
    BY <2>1, <2>2, ClimbIs, Zenon DEF joinStep
  <2> QED
    BY <2>3 DEF join
<1> QED
  BY <1>1, <1>2

\* Where the digest of any level is what a path leads to, however long and of
\* whatever digests, the path is that of a member.
LEMMA LevelsProve ==
  ASSUME NEW S \in SUBSET Caps, S # {}, NEW P
  PROVE  \A n \in 1..Cardinality(S) + 1 :
           \A i \in 1..Len(levels(S)[n]), c \in Caps, path \in Seq(P) :
             climb(leafOf(c), path) = levels(S)[n][i] => c \in S
<1> DEFINE N == Cardinality(S)
           Good(n) == \A i \in 1..Len(levels(S)[n]), c \in Caps, path \in Seq(P) :
                        climb(leafOf(c), path) = levels(S)[n][i] => c \in S
           T == {n \in Nat : n \in 1..N + 1 /\ ~Good(n)}
<1>1. N \in Nat
  BY SubsetsFinite
<1>2. SUFFICES ASSUME T # {} PROVE FALSE
  BY <1>1
<1>3. PICK m \in T : \A n \in T : m <= n
  BY <1>2, JoinFold!LeastOf
<1>4. PICK i \in 1..Len(levels(S)[m]), c \in Caps, path \in Seq(P) :
        climb(leafOf(c), path) = levels(S)[m][i] /\ c \notin S
  BY <1>3
<1>5. CASE m = 1
  <2>1. PICK d \in S : levels(S)[1][i] = leafOf(d)
    <3>1. levels(S)[1] = leaves(S) /\ Len(leaves(S)) = N
      BY LevelsAre, LeavesAre
    <3>2. i \in 1..N
      BY <1>4, <1>5, <3>1
    <3> QED
      BY <3>1, <3>2, LeavesAre
  <2>2. climb(leafOf(c), path) = leafOf(c)
    BY <1>4, <1>5, <2>1, ClimbEnds, DigestsDiffer
  <2>3. c = d
    BY <1>4, <1>5, <2>1, <2>2, LeavesDiffer
  <2> QED
    BY <1>4, <2>3
<1>6. CASE m # 1
  <2>1. m \in 2..N + 1 /\ m - 1 \in 1..N + 1 /\ Good(m - 1)
    <3> HIDE DEF N, Good
    <3>1. m \in Nat /\ m \in 1..N + 1
      BY <1>3
    <3>2. m \in 2..N + 1 /\ m - 1 \in Nat /\ m - 1 \in 1..N + 1 /\ ~(m <= m - 1)
      BY <1>1, <1>6, <3>1
    <3>3. m - 1 \notin T
      BY <1>3, <3>2
    <3> QED
      BY <3>2, <3>3
  <2> DEFINE low == levels(S)[m - 1]
  <2>2. Len(low) \in Nat
    BY <2>1, LevelsShrink
  <2>3. levels(S)[m] = above(low)
    BY <2>1, LevelsAre
  <2>4. \E j, k \in 1..Len(low) : levels(S)[m][i] = node(low[j], low[k])
    <3>1. i \in 1..(Len(low) + 1) \div 2
      BY <1>4, <2>2, <2>3, AboveIs
    <3>2. above(low)[i] = node(low[2 * i - 1], IF 2 * i <= Len(low) THEN low[2 * i] ELSE low[2 * i - 1])
      BY <2>2, <3>1, AboveIs
    <3> HIDE DEF low
    <3>3. 2 * i - 1 \in 1..Len(low) /\ (2 * i <= Len(low) => 2 * i \in 1..Len(low))
      BY <2>2, <3>1
    <3>4. CASE 2 * i <= Len(low)
      BY <2>3, <3>2, <3>3, <3>4
    <3>5. CASE ~(2 * i <= Len(low))
      BY <2>3, <3>2, <3>3, <3>5
    <3> QED
      BY <3>4, <3>5
  <2>5. PICK j \in 1..Len(low), k \in 1..Len(low) : levels(S)[m][i] = node(low[j], low[k])
    BY <2>4
  <2>6. PICK front \in Seq(P) : \E other :
          \/ climb(leafOf(c), path) = node(climb(leafOf(c), front), other)
          \/ climb(leafOf(c), path) = node(other, climb(leafOf(c), front))
    BY <1>4, <2>5, ClimbEnds, DigestsDiffer
  <2>7. climb(leafOf(c), front) = low[j] \/ climb(leafOf(c), front) = low[k]
    BY <1>4, <2>5, <2>6, DigestsDiffer
  <2> QED
    BY <1>4, <2>1, <2>7
<1> QED
  BY <1>5, <1>6

\* What a root proves, along a path of any length and any digests, is in its set
\* (capability-commitment.js: "a cap NOT in the set has no valid proof").
THEOREM OnlyMembersProve ==
  ASSUME NEW S \in SUBSET Caps, NEW c \in Caps, NEW P, NEW path \in Seq(P),
         climb(leafOf(c), path) = rootOf(S)
  PROVE  c \in S
<1>1. CASE S = {}
  <2>1. rootOf(S) = <<"empty">>
    BY <1>1 DEF rootOf
  <2> QED
    BY <2>1, ClimbEnds, DigestsDiffer
<1>2. CASE S # {}
  <2>1. PICK h \in 1..Cardinality(S) + 1 : Len(levels(S)[h]) = 1 /\ rootOf(S) = levels(S)[h][1]
    BY <1>2, TreeIs
  <2>2. 1 \in 1..Len(levels(S)[h])
    BY <2>1
  <2> QED
    BY <1>2, <2>1, <2>2, LevelsProve
<1> QED
  BY <1>1, <1>2

\* The siblings of a path from one place, up to a level.
steer(S, index, n) == [hash |-> sibling(levels(S)[n], index[n]), right |-> index[n] % 2 = 1]

\* The way up to a level.
way(S, index, n) == [m \in 1..n - 1 |-> steer(S, index, m)]

\* The places a capability's way up to the root goes through.
LeadsUp(S, h, index, cap) ==
  /\ Len(levels(S)[h]) = 1 /\ rootOf(S) = levels(S)[h][1]
  /\ index[1] \in 1..Len(levels(S)[1]) /\ levels(S)[1][index[1]] = leafOf(cap)
  /\ \A n \in 2..h : index[n] = (index[n - 1] + 1) \div 2

\* A membership proof is the way from its capability's leaf to the root.
LEMMA ProofIs ==
  ASSUME NEW S \in SUBSET Caps, NEW cap \in S
  PROVE  \E h \in 1..Cardinality(S) + 1 : \E index :
           /\ LeadsUp(S, h, index, cap)
           /\ membershipProof(S, cap) = [cap |-> cap, path |-> way(S, index, h)]
<1> DEFINE L == levels(S)
<1>1. Cardinality(S) \in Nat
  BY SubsetsFinite
<1>2. PICK h \in 1..Cardinality(S) + 1 :
        /\ buildTree(S) = [n \in 1..h |-> L[n]]
        /\ Len(L[h]) = 1 /\ rootOf(S) = L[h][1]
  BY TreeIs
<1> DEFINE t == buildTree(S)
           place1 == CHOOSE i \in DOMAIN t[1] : t[1][i] = leafOf(cap)
           IsIndex(f) == f = [n \in 1..Len(t) |-> IF n = 1 THEN place1 ELSE (f[n - 1] + 1) \div 2]
           index == CHOOSE f : IsIndex(f)
<1>3. h \in Nat /\ h - 1 \in Nat /\ 1 \in 1..h /\ Len(t) = h
  BY <1>1, <1>2
<1>4. PICK f : HalfFold!Runs(f, h - 1, 0, place1, <<>>)
  BY <1>3, HalfFold!RunsExist
<1>5. IsIndex([n \in 1..h |-> f[n - 1]])
  <2>1. \A n \in 1..h : f[n - 1] = IF n = 1 THEN place1 ELSE (f[n - 1 - 1] + 1) \div 2
    <3> HIDE DEF place1
    <3> QED
      BY <1>3, <1>4 DEF HalfFold!Runs, halfStep
  <2> HIDE DEF place1, t
  <2> QED
    BY <1>3, <2>1
<1>6. IsIndex(index)
  BY <1>5
<1>7. membershipProof(S, cap) =
        [ cap |-> cap, path |-> [n \in 1..Len(t) - 1 |->
                                   [hash |-> sibling(t[n], index[n]), right |-> index[n] % 2 = 1]] ]
  BY DEF membershipProof
<1>8. place1 \in 1..Len(L[1]) /\ L[1][place1] = leafOf(cap)
  <2>1. L[1] = leaves(S) /\ t[1] = L[1]
    BY <1>2, <1>3, LevelsAre
  <2>2. DOMAIN t[1] = 1..Len(L[1]) /\ \E i \in DOMAIN t[1] : t[1][i] = leafOf(cap)
    BY <2>1, LeavesAre
  <2> HIDE DEF t
  <2> QED
    BY <2>1, <2>2
<1> HIDE DEF place1, index
<1>9. index[1] = place1 /\ \A n \in 2..h : index[n] = (index[n - 1] + 1) \div 2
  <2> HIDE DEF t
  <2>1. \A n \in 1..h : index[n] = IF n = 1 THEN place1 ELSE (index[n - 1] + 1) \div 2
    BY <1>3, <1>6
  <2> QED
    BY <1>3, <2>1
<1>10. membershipProof(S, cap) = [cap |-> cap, path |-> way(S, index, h)]
  <2>1. \A n \in 1..h - 1 : t[n] = L[n]
    BY <1>2, <1>3
  <2> HIDE DEF t, L
  <2> QED
    BY <1>3, <1>7, <2>1 DEF steer, way, L
<1>11. LeadsUp(S, h, index, cap)
  BY <1>2, <1>8, <1>9 DEF LeadsUp
<1> QED
  BY <1>10, <1>11

\* Joined with its sibling, a node of a level makes the node above it.
LEMMA JoinIsAbove ==
  ASSUME NEW level, Len(level) \in Nat, NEW i \in 1..Len(level)
  PROVE  /\ (i + 1) \div 2 \in 1..Len(above(level))
         /\ join(level[i], [hash |-> sibling(level, i), right |-> i % 2 = 1]) = above(level)[(i + 1) \div 2]
<1> DEFINE k == (i + 1) \div 2
           n == Len(level)
<1>1. k \in 1..(n + 1) \div 2 /\ k \in 1..Len(above(level))
  BY AboveIs
<1>2. above(level)[k] = node(level[2 * k - 1], IF 2 * k <= n THEN level[2 * k] ELSE level[2 * k - 1])
  BY <1>1, AboveIs
<1>3. CASE i % 2 = 1
  <2>1. i = 2 * k - 1 /\ i + 1 = 2 * k /\ (i < n <=> 2 * k <= n) /\ ~(i % 2 = 0)
    BY <1>3
  <2>2. sibling(level, i) = IF 2 * k <= n THEN level[2 * k] ELSE level[2 * k - 1]
    BY <2>1 DEF sibling
  <2> HIDE DEF k
  <2> QED
    BY <1>1, <1>2, <1>3, <2>1, <2>2 DEF join, k
<1>4. CASE i % 2 # 1
  <2>1. i = 2 * k /\ i - 1 = 2 * k - 1 /\ 2 * k <= n /\ i % 2 = 0
    BY <1>4
  <2>2. sibling(level, i) = level[2 * k - 1]
    BY <2>1 DEF sibling
  <2> HIDE DEF k
  <2> QED
    BY <1>1, <1>2, <1>4, <2>1, <2>2 DEF join, k
<1> QED
  BY <1>3, <1>4

\* One step longer, a way has its next step at the end.
LEMMA WayIs ==
  ASSUME NEW S, NEW index, NEW m \in Nat, m >= 2
  PROVE  \E P : /\ way(S, index, m - 1) \in Seq(P) /\ steer(S, index, m - 1) \in P
                /\ way(S, index, m) = Append(way(S, index, m - 1), steer(S, index, m - 1))
<1> DEFINE P == {steer(S, index, n) : n \in 1..m - 1}
<1>1. m - 1 - 1 \in Nat /\ m - 1 \in 1..m - 1 /\ (\A n \in 1..m - 1 - 1 : n \in 1..m - 1)
  OBVIOUS
<1>2. way(S, index, m - 1) \in Seq(P)
  BY <1>1 DEF way
<1>3. way(S, index, m) = Append(way(S, index, m - 1), steer(S, index, m - 1))
  BY <1>1 DEF way
<1> QED
  BY <1>1, <1>2, <1>3

\* After each of its steps, the way up is at a node of the next level.
LEMMA WayUp ==
  ASSUME NEW S \in SUBSET Caps, S # {}, NEW cap, NEW h \in 1..Cardinality(S) + 1, NEW index,
         LeadsUp(S, h, index, cap)
  PROVE  \A n \in 1..h : /\ index[n] \in 1..Len(levels(S)[n])
                         /\ climb(leafOf(cap), way(S, index, n)) = levels(S)[n][index[n]]
<1> DEFINE leaf == leafOf(cap)
           N == Cardinality(S)
           Good(n) == index[n] \in 1..Len(levels(S)[n]) /\ climb(leaf, way(S, index, n)) = levels(S)[n][index[n]]
           T == {n \in Nat : n \in 1..h /\ ~Good(n)}
<1>0. /\ index[1] \in 1..Len(levels(S)[1]) /\ levels(S)[1][index[1]] = leaf
      /\ \A n \in 2..h : index[n] = (index[n - 1] + 1) \div 2
  BY DEF LeadsUp
<1> HIDE DEF leaf
<1>1. N \in Nat /\ h \in Nat
  BY SubsetsFinite
<1>2. SUFFICES ASSUME T # {} PROVE FALSE
  <2> SUFFICES ASSUME NEW n \in 1..h, ~Good(n) PROVE FALSE
    BY DEF leaf
  <2> HIDE DEF Good
  <2> QED
    BY <1>1
<1>3. PICK m \in T : \A n \in T : m <= n
  BY <1>2, JoinFold!LeastOf
<1>4. CASE m = 1
  <2>1. way(S, index, 1) = <<>>
    BY DEF way
  <2>2. climb(leaf, way(S, index, 1)) = leaf
    BY <2>1, ClimbIs, JoinFold!FoldEmpty, Zenon
  <2> QED
    BY <1>0, <1>3, <1>4, <2>2
<1>5. CASE m # 1
  <2>0. m \in Nat /\ m >= 2
    <3> HIDE DEF Good
    <3> QED
      BY <1>3, <1>5
  <2>1. m \in 2..h /\ m - 1 \in Nat /\ m - 1 \in 1..N + 1 /\ m \in 2..N + 1 /\ Good(m - 1)
    <3> HIDE DEF N, Good
    <3>1. m \in Nat /\ m \in 1..h /\ h <= N + 1
      BY <1>1, <1>3 DEF N
    <3>2. m \in 2..h /\ m - 1 \in Nat /\ m - 1 \in 1..N + 1 /\ m \in 2..N + 1 /\ m - 1 \in 1..h /\ ~(m <= m - 1)
      BY <1>1, <1>5, <3>1
    <3>3. m - 1 \notin T
      BY <1>3, <3>2
    <3> QED
      BY <3>2, <3>3
  <2> DEFINE low == levels(S)[m - 1]
             i == index[m - 1]
  <2>2. Len(low) \in Nat /\ i \in 1..Len(low) /\ climb(leaf, way(S, index, m - 1)) = low[i]
    BY <2>1, LevelsShrink
  <2>3. levels(S)[m] = above(low) /\ index[m] = (i + 1) \div 2
    BY <1>0, <2>1, LevelsAre
  <2>4. PICK P : /\ way(S, index, m - 1) \in Seq(P) /\ steer(S, index, m - 1) \in P
                 /\ way(S, index, m) = Append(way(S, index, m - 1), steer(S, index, m - 1))
    BY <2>0, WayIs
  <2>5. JoinFold!total(0, leaf, Append(way(S, index, m - 1), steer(S, index, m - 1))) =
          joinStep(0, JoinFold!total(0, leaf, way(S, index, m - 1)), steer(S, index, m - 1))
    BY <2>4, JoinFold!FoldAppend
  <2>6. climb(leaf, way(S, index, m)) = join(low[i], steer(S, index, m - 1))
    BY <2>2, <2>4, <2>5, ClimbIs, Zenon DEF joinStep
  <2>7. steer(S, index, m - 1) = [hash |-> sibling(low, i), right |-> i % 2 = 1]
    BY DEF steer
  <2> HIDE DEF low, i
  <2>8. (i + 1) \div 2 \in 1..Len(above(low)) /\ climb(leaf, way(S, index, m)) = above(low)[(i + 1) \div 2]
    BY <2>2, <2>6, <2>7, JoinIsAbove
  <2>9. Good(m)
    BY <2>3, <2>8
  <2> QED
    BY <1>3, <2>9
<1> QED
  BY <1>4, <1>5 DEF leaf

\* A set's root verifies the proof of each of its members, at any size of the set
\* (verifyMembership over membershipProof).
THEOREM MembersProve ==
  ASSUME NEW S \in SUBSET Caps, NEW c \in S
  PROVE  verifyMembership(rootOf(S), membershipProof(S, c))
<1> DEFINE proof == membershipProof(S, c)
<1>0. PICK h \in 1..Cardinality(S) + 1 :
        \E index : LeadsUp(S, h, index, c) /\ proof = [cap |-> c, path |-> way(S, index, h)]
  BY ProofIs
<1>1. PICK index : /\ LeadsUp(S, h, index, c)
                   /\ proof = [cap |-> c, path |-> way(S, index, h)]
  BY <1>0
<1>2. Cardinality(S) \in Nat /\ h \in 1..h
  BY SubsetsFinite
<1>3. index[h] \in 1..Len(levels(S)[h]) /\ climb(leafOf(c), proof.path) = levels(S)[h][index[h]]
  <2>1. proof.path = way(S, index, h) /\ S # {}
    BY <1>1
  <2> HIDE DEF proof
  <2>2. \A n \in 1..h : /\ index[n] \in 1..Len(levels(S)[n])
                        /\ climb(leafOf(c), way(S, index, n)) = levels(S)[n][index[n]]
    BY <1>1, <2>1, WayUp
  <2> QED
    BY <1>2, <2>1, <2>2
<1>4. index[h] = 1
  BY <1>1, <1>3 DEF LeadsUp
<1>5. proof.cap = c /\ climb(leafOf(proof.cap), proof.path) = rootOf(S)
  BY <1>1, <1>3, <1>4 DEF LeadsUp
<1>6. proof # NoProof
  <2>1. c # <<>>
    <3>1. c \in [type : Seq(STRING), value : Seq(STRING)]
      BY CapabilityAssumption
    <3>2. DOMAIN c = {"type", "value"} /\ DOMAIN <<>> = {}
      BY <3>1
    <3> QED
      BY <3>2
  <2> QED
    BY <1>5, <2>1 DEF NoProof
<1> QED
  BY <1>5, <1>6 DEF verifyMembership

\* A proof that a party was given a tree for proves nothing of another's root that is
\* not in that other's set.
LEMMA ProofsOfOthers ==
  ASSUME NEW S \in SUBSET Caps, NEW R \in SUBSET Caps, NEW c \in Caps,
         verifyMembership(rootOf(R), membershipProof(S, c))
  PROVE  c \in R
<1>1. c \in S
  BY DEF verifyMembership, membershipProof
<1>0. PICK h \in 1..Cardinality(S) + 1 :
        \E index : membershipProof(S, c) = [cap |-> c, path |-> way(S, index, h)]
  BY <1>1, ProofIs
<1>2. PICK index : membershipProof(S, c) = [cap |-> c, path |-> way(S, index, h)]
  BY <1>0
<1> DEFINE P == {steer(S, index, n) : n \in 1..h - 1}
<1>3. way(S, index, h) \in Seq(P)
  <2>1. h - 1 \in Nat
    BY SubsetsFinite
  <2> QED
    BY <2>1 DEF way
<1>4. climb(leafOf(c), way(S, index, h)) = rootOf(R)
  BY <1>2 DEF verifyMembership
<1> QED
  BY <1>3, <1>4, OnlyMembersProve

\* Every root of a set proves that set.
LEMMA ExactRoot ==
  ASSUME NEW S \in SUBSET Caps
  PROVE  /\ {c \in S : verifyMembership(rootOf(S), membershipProof(S, c))} = S
         /\ {c \in Caps : \E path \in paths :
               verifyMembership(rootOf(S), [cap |-> c, path |-> path])} \subseteq S
<1>1. ASSUME NEW c \in Caps, NEW path \in paths, verifyMembership(rootOf(S), [cap |-> c, path |-> path])
      PROVE  c \in S
  <2>1. path \in Seq(steps)
    <3>1. PICK n \in 0..2 : path \in [1..n -> steps]
      BY DEF paths
    <3>2. n \in Nat
      OBVIOUS
    <3> HIDE DEF steps
    <3> QED
      BY <3>1, <3>2
  <2>2. climb(leafOf(c), path) = rootOf(S)
    BY <1>1 DEF verifyMembership
  <2> QED
    BY <2>1, <2>2, OnlyMembersProve
<1> QED
  BY <1>1, MembersProve
-----------------------------------------------------------------------------
\* A grant's root is that of its set (commitCapabilities).
RootsCommitted == \A g \in grants : g.root = rootOf(g.caps)

IInv == TypeOK /\ RootsCommitted /\ CeilingsNarrow

\* A band that verifies for a party's key and a root is one of the bands of a grant
\* of that party under that root, and is within its limit: the others carry no key.
LEMMA BandsAreIssued ==
  ASSUME TypeOK, NEW a \in Circulating, NEW k \in Parties, NEW r, NEW req,
         verifyWithinLimit(req, a, k, r)
  PROVE  \E g \in grants : /\ g.signer = k /\ g.root = r /\ g.nonce = a.nonce
                           /\ a.band \in Ladder /\ a.band <= g.limit
<1>1. a.signer = k /\ a.root = r
  BY DEF verifyWithinLimit
<1>2. ASSUME NEW b \in Fakes, NEW g \in grants, a = attestation(b, g.root, g.nonce, None)
      PROVE  FALSE
  BY <1>1, <1>2, DelegationAssumption DEF attestation
<1>3. PICK g \in grants : a \in attestations(g)
  <2>1. a \in {attestation(b, g.root, g.nonce, None) : b \in Fakes, g \in grants} => FALSE
    BY <1>2
  <2>2. a \in UNION {attestations(g) : g \in grants}
    BY <2>1 DEF Circulating
  <2> QED
    BY <2>2
<1>4. PICK b \in {x \in Ladder : x <= g.limit} : a = attestation(b, g.root, g.nonce, g.signer)
  BY <1>3 DEF attestations, commitLimit
<1>5. a.band = b /\ a.root = g.root /\ a.nonce = g.nonce /\ a.signer = g.signer
  BY <1>4 DEF attestation
<1> QED
  BY <1>1, <1>4, <1>5

\* A new commitment leaves every earlier one its parents and its origin.
LEMMA ParentsStay ==
  ASSUME CeilingsNarrow, grants \subseteq grants', NEW g \in grants, g.from # None
  PROVE  /\ \E p \in Parents(g)' : g.limit <= p.limit
         /\ \E t \in grants' : t.from = None /\ g.limit <= t.limit
BY DEF CeilingsNarrow, Parents

LEMMA InitInv == Init => IInv
BY DEF Init, IInv, TypeOK, RootsCommitted, CeilingsNarrow

LEMMA CommitInv ==
  ASSUME IInv, NEW p \in Parties, NEW S \in Mandates, NEW limit \in Limits, NEW nonce \in Nonces,
         Commit(p, S, limit, nonce)
  PROVE  IInv'
<1> DEFINE new == grant(p, S, nonce, limit, None)
<1>1. grants' = grants \cup {new}
  BY DEF Commit
<1>2. new \in Grant
  <2>1. S \in SUBSET Caps /\ limit \in Nat
    BY DelegationAssumption
  <2>2. rootOf(S) \in Roots
    BY <2>1 DEF Roots
  <2> QED
    BY <2>1, <2>2 DEF grant, Grant
<1>3. TypeOK'
  BY <1>1, <1>2 DEF IInv, TypeOK
<1>4. new.from = None
  BY DEF grant
<1>5. CeilingsNarrow'
  <2> SUFFICES ASSUME NEW g \in grants', g.from # None
               PROVE  /\ \E q \in Parents(g)' : g.limit <= q.limit
                      /\ \E t \in grants' : t.from = None /\ g.limit <= t.limit
    BY DEF CeilingsNarrow
  <2>1. g \in grants
    BY <1>1, <1>4
  <2> QED
    BY <2>1, <1>1, ParentsStay DEF IInv
<1>6. RootsCommitted'
  BY <1>1 DEF IInv, RootsCommitted, grant
<1> QED
  BY <1>3, <1>5, <1>6 DEF IInv

LEMMA ReCommitInv ==
  ASSUME IInv, NEW p \in Parties, NEW o \in Origins, NEW bands \in SUBSET Circulating,
         ReCommit(p, o, bands)
  PROVE  IInv'
<1>1. PICK top \in bands, S \in SUBSET o.tree, nonce \in Nonces :
        grants' = grants \cup {grant(p, S, nonce, top.band, o)}
  BY DEF ReCommit
<1> DEFINE new == grant(p, S, nonce, top.band, o)
<1>2. o \in Origin
  <2>1. PICK k \in Parties, n \in Nonces, g \in grants, h \in grants :
          o = [key |-> k, root |-> g.root, nonce |-> n, tree |-> h.caps]
    BY DEF Origins
  <2>2. g \in Grant /\ h \in Grant
    BY DEF IInv, TypeOK
  <2>3. g.root \in Roots /\ h.caps \in SUBSET Caps
    BY <2>2 DEF Grant
  <2> QED
    BY <2>1, <2>3 DEF Origin
<1>3. counts(top, o)
  BY DEF ReCommit
<1>4. PICK h \in grants : /\ h.signer = o.key /\ h.root = o.root /\ h.nonce = top.nonce
                          /\ top.band \in Ladder /\ top.band <= h.limit
  <2>1. o.key \in Parties
    BY <1>2 DEF Origin
  <2>2. verifyWithinLimit(top.band, top, o.key, o.root)
    BY <1>3 DEF counts
  <2> QED
    BY <2>1, <2>2, BandsAreIssued DEF IInv
<1>5. top.band \in Nat
  BY <1>4, CapabilityAssumption
<1>6. new \in Grant
  <2>1. S \in SUBSET Caps
    BY <1>2 DEF Origin
  <2>2. rootOf(S) \in Roots
    BY <2>1 DEF Roots
  <2> QED
    BY <1>2, <1>5, <2>1, <2>2 DEF grant, Grant
<1>7. TypeOK'
  BY <1>1, <1>6 DEF IInv, TypeOK
<1>8. new.from = o /\ new.limit = top.band
  BY DEF grant
<1>9. \E t \in grants : t.from = None /\ h.limit <= t.limit
  <2>1. h.limit \in Nat
    BY DEF IInv, TypeOK, Grant
  <2>2. CASE h.from = None
    BY <2>1, <2>2
  <2>3. CASE h.from # None
    BY <2>3 DEF IInv, CeilingsNarrow
  <2> QED
    BY <2>2, <2>3
<1>10. CeilingsNarrow'
  <2> SUFFICES ASSUME NEW g \in grants', g.from # None
               PROVE  /\ \E q \in Parents(g)' : g.limit <= q.limit
                      /\ \E t \in grants' : t.from = None /\ g.limit <= t.limit
    BY DEF CeilingsNarrow
  <2>1. CASE g \in grants
    BY <2>1, <1>1, ParentsStay DEF IInv
  <2>2. CASE g = new
    <3>1. h \in Parents(g)'
      BY <2>2, <1>1, <1>3, <1>4, <1>8 DEF Parents, counts
    <3>2. PICK t \in grants : t.from = None /\ h.limit <= t.limit
      BY <1>9
    <3>3. h.limit \in Nat /\ t.limit \in Nat
      BY DEF IInv, TypeOK, Grant
    <3>4. g.limit <= h.limit /\ g.limit <= t.limit
      BY <2>2, <1>4, <1>5, <1>8, <3>2, <3>3
    <3> QED
      BY <3>1, <3>2, <3>4, <1>1
  <2> QED
    BY <2>1, <2>2, <1>1
<1>11. RootsCommitted'
  BY <1>1 DEF IInv, RootsCommitted, grant
<1> QED
  BY <1>7, <1>10, <1>11 DEF IInv

LEMMA NextInv == IInv /\ [Next]_grants => IInv'
<1> SUFFICES ASSUME IInv, [Next]_grants PROVE IInv'
  OBVIOUS
<1>1. CASE UNCHANGED grants
  BY <1>1 DEF IInv, TypeOK, RootsCommitted, CeilingsNarrow, Parents
<1>2. ASSUME NEW p \in Parties, NEW S \in Mandates, NEW limit \in Limits, NEW nonce \in Nonces,
             Commit(p, S, limit, nonce)
      PROVE  IInv'
  BY <1>2, CommitInv
<1>3. ASSUME NEW p \in Parties, NEW o \in Origins, NEW a \in Circulating, NEW b \in Circulating,
             ReCommit(p, o, {a, b})
      PROVE  IInv'
  <2>1. {a, b} \in SUBSET Circulating
    OBVIOUS
  <2> QED
    BY <1>3, <2>1, ReCommitInv
<1> QED
  BY <1>1, <1>2, <1>3 DEF Next

LEMMA Invariance == Spec => []IInv
<1>1. Init => IInv
  BY InitInv
<1>2. IInv /\ [Next]_grants => IInv'
  BY NextInv
<1> QED
  BY <1>1, <1>2, PTL DEF Spec

\* Every grant is well typed and carries a root of some set, for all parties, sets,
\* ladders and limits.
THEOREM GrantsTyped == Spec => []TypeOK
<1>1. IInv => TypeOK
  BY DEF IInv
<1> QED
  BY <1>1, Invariance, PTL

\* However long the chain, the ceiling of a re-commitment is within that of the grant
\* it was made from and within one that a party committed to by itself (reCommit's
\* parentMaxBand over verified bands).
THEOREM NeverAboveParent == Spec => []CeilingsNarrow
<1>1. IInv => CeilingsNarrow
  BY DEF IInv
<1> QED
  BY <1>1, Invariance, PTL

\* What verifyWithinLimit() accepts for a key and a root was signed by the holder of
\* that key for that root with a limit that covers the request: no band is lifted.
THEOREM NoBandLifted == Spec => []BandsStayHome
<1>1. IInv => BandsStayHome
  <2> SUFFICES ASSUME IInv, NEW a \in Circulating, NEW k \in Parties,
                      NEW r \in {g.root : g \in grants}, NEW req \in Ladder \cup Fakes,
                      verifyWithinLimit(req, a, k, r)
               PROVE  \E g \in grants : g.signer = k /\ g.root = r /\ req <= g.limit
    BY DEF BandsStayHome
  <2>1. PICK g \in grants : /\ g.signer = k /\ g.root = r
                            /\ a.band \in Ladder /\ a.band <= g.limit
    BY BandsAreIssued DEF IInv
  <2>2. req \in Nat /\ a.band \in Nat /\ g.limit \in Nat
    BY <2>1, CapabilityAssumption, DelegationAssumption DEF IInv, TypeOK, Grant
  <2>3. req <= a.band
    BY DEF verifyWithinLimit
  <2> QED
    BY <2>1, <2>2, <2>3
<1> QED
  BY <1>1, Invariance, PTL

\* The root of a grant proves exactly what was committed under it, for all sets of
\* capabilities and at any length of the chain of re-commitments.
THEOREM RootsProveTheirSets == Spec => []RootsAreExact
<1>1. IInv => RootsAreExact
  <2> SUFFICES ASSUME IInv, NEW g \in grants, NEW p \in Proved, p[1] = g.caps
               PROVE  p[2] = g.caps /\ p[3] \subseteq g.caps
    BY DEF RootsAreExact
  <2>1. PICK S \in SUBSET Caps :
          p = << S, {c \in S : verifyMembership(rootOf(S), membershipProof(S, c))},
                 {c \in Caps : \E path \in paths : verifyMembership(rootOf(S), [cap |-> c, path |-> path])} >>
    BY DEF Proved
  <2>2. S = g.caps
    BY <2>1
  <2> QED
    BY <2>1, <2>2, ExactRoot
<1> QED
  BY <1>1, Invariance, PTL

\* However long the chain of re-commitments and whatever trees and bands they were
\* made from, authority narrows on both axes: the ceiling stays below the parent's, and
\* a set whose proofs verify is within that of every grant under the parent's root.
THEOREM AuthorityNarrows == Spec => []NarrowNeverWiden
<1>1. IInv => NarrowNeverWiden
  <2> SUFFICES ASSUME IInv, NEW g \in grants, NEW p \in grants,
                      g.from # None, p.root = g.from.root, Shown(g), NEW c \in g.caps
               PROVE  c \in p.caps
    BY DEF NarrowNeverWiden, SetsNarrow, IInv
  <2>1. g \in Grant /\ p \in Grant
    BY DEF IInv, TypeOK
  <2>2. g.from \in Origin /\ c \in Caps /\ p.caps \in SUBSET Caps
    BY <2>1 DEF Grant
  <2>3. g.from.tree \in SUBSET Caps
    BY <2>2 DEF Origin
  <2>4. p.root = rootOf(p.caps)
    BY DEF IInv, RootsCommitted
  <2>5. verifyMembership(g.from.root, membershipProof(g.from.tree, c))
    BY DEF Shown, verifyAttenuation, proveAttenuation
  <2> QED
    BY <2>2, <2>3, <2>4, <2>5, ProofsOfOthers
<1> QED
  BY <1>1, Invariance, PTL
=============================================================================
