----------------------------- MODULE Capability -----------------------------
(***************************************************************************)
(* The commitments of core/capability-commitment.js: the Merkle tree over  *)
(* a set of capabilities, membership proofs in it, and the attestations of *)
(* a limit.  A SHA-256 digest is the term it was computed from, so that    *)
(* two digests are equal when their preimages are; the order of digests is *)
(* any order.  A signature is the key it was made with.  Pure operators.   *)
(***************************************************************************)
EXTENDS Folding, FiniteSets

CONSTANTS
  Caps,      \* (type, value) pairs, each part a sequence of words
  Bar,       \* the word the code writes between the parts of a digest's preimage
  Rank,      \* the order their leaves' digests happen to sort in
  Ladder     \* the bands a limit is rounded down to

ASSUME CapabilityAssumption ==
  /\ IsFiniteSet(Caps) /\ Caps \subseteq [type : Seq(STRING), value : Seq(STRING)]
  /\ \A c \in Caps : Bar \notin {c.type[i] : i \in DOMAIN c.type}
  /\ Rank \in [Caps -> Nat] /\ \A c, d \in Caps : Rank[c] = Rank[d] => c = d
  /\ Ladder \subseteq Nat \ {0} /\ IsFiniteSet(Ladder)

\* Two capabilities have one leaf when their words join to one text, which the
\* assumption on the types rules out.
leafOf(cap) == <<"cap", cap.type \o <<Bar>> \o cap.value>>
node(l, r) == <<"node", l, r>>

\* The deduplicated, sorted leaves of a set.
leaves(S) ==
  [i \in 1..Cardinality(S) |->
     leafOf(CHOOSE c \in S : Cardinality({d \in S : Rank[d] < Rank[c]}) = i - 1)]

\* The level above: neighbours are joined, an odd last one with itself.
above(level) ==
  [i \in 1..(Len(level) + 1) \div 2 |->
     node(level[2 * i - 1], IF 2 * i <= Len(level) THEN level[2 * i] ELSE level[2 * i - 1])]

\* The levels of the tree, from the leaves to the root.
buildTree(S) ==
  LET level[n \in 1..Cardinality(S) + 1] == IF n = 1 THEN leaves(S) ELSE above(level[n - 1])
      height == CHOOSE n \in DOMAIN level : Len(level[n]) <= 1 /\ \A m \in 1..n - 1 : Len(level[m]) > 1
  IN  [n \in 1..height |-> level[n]]

\* commitCapabilities(): the root of a set.
rootOf(S) == IF S = {} THEN <<"empty">> ELSE LET t == buildTree(S) IN t[Len(t)][1]

\* Mutant: an odd last node shows the node before it.
siblingBefore(level, i) == IF i % 2 = 0 \/ i = Len(level) THEN level[i - 1] ELSE level[i + 1]

\* The sibling of the i-th node of a level; an odd last one is its own.
sibling(level, i) == IF i % 2 = 0 THEN level[i - 1] ELSE level[IF i < Len(level) THEN i + 1 ELSE i]

NoProof == [cap |-> <<>>, path |-> <<>>]

\* What proves that a capability is in the set of a tree: its siblings on the way up.
membershipProof(S, cap) ==
  LET t == buildTree(S)
      index[n \in 1..Len(t)] ==
        IF n = 1 THEN CHOOSE i \in DOMAIN t[1] : t[1][i] = leafOf(cap) ELSE (index[n - 1] + 1) \div 2
  IN  IF cap \notin S THEN NoProof
      ELSE [ cap  |-> cap,
             path |-> [n \in 1..Len(t) - 1 |->
                         [hash |-> sibling(t[n], index[n]), right |-> index[n] % 2 = 1]] ]

\* The digest a path leads to from a leaf.
climb(leaf, path) ==
  fold(LAMBDA h, step : IF step.right THEN node(h, step.hash) ELSE node(step.hash, h), leaf, path)

verifyMembership(root, proof) == proof # NoProof /\ climb(leafOf(proof.cap), proof.path) = root

\* Every capability of the child in the parent's set, shown by itself.
proveAttenuation(S, childCaps) == {membershipProof(S, c) : c \in childCaps}
verifyAttenuation(root, proofs) == proofs # {} /\ \A p \in proofs : verifyMembership(root, p)

(***************************************************************************)
(* "limit >= band", signed for one root and one nonce.                     *)
(***************************************************************************)
attestation(band, root, nonce, signer) ==
  [band |-> band, root |-> root, nonce |-> nonce, signer |-> signer]

commitLimit(limit, signer, root, nonce) ==
  {attestation(b, root, nonce, signer) : b \in {x \in Ladder : x <= limit}}

\* Mutant: the root of the attestation is taken for the grant's.
withinLimitOfAny(req, a, parentKey, root) == req <= a.band /\ a.signer = parentKey

\* The nonce is part of what is signed, and is not compared with any other.
verifyWithinLimit(req, a, parentKey, root) ==
  req <= a.band /\ a.root = root /\ a.signer = parentKey
-----------------------------------------------------------------------------
\* Paths anybody could put together of the digests of two levels.
digests == {leafOf(c) : c \in Caps} \cup {node(leafOf(c), leafOf(d)) : c, d \in Caps}
steps == [hash : digests, right : BOOLEAN]
paths == UNION {[1..n -> steps] : n \in 0..2}

\* With each set, what its root proves along the paths its holder is given, and
\* what it proves along any path.
Proved ==
  {<< S, {c \in S : verifyMembership(rootOf(S), membershipProof(S, c))},
      {c \in Caps : \E path \in paths : verifyMembership(rootOf(S), [cap |-> c, path |-> path])} >> :
     S \in SUBSET Caps}
=============================================================================
