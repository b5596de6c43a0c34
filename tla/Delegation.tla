----------------------------- MODULE Delegation -----------------------------
(***************************************************************************)
(* A swarm that hands authority down with core/capability-commitment.js.   *)
(* A party commits to a set of capabilities and to a limit; another, who   *)
(* holds the tree and some attestations, re-commits a narrower part under  *)
(* its own key, and so on.  Attestations go round freely: a party may pass *)
(* reCommit() those of other grants, other parties or nobody, and any tree *)
(* next to any root.                                                       *)
(***************************************************************************)
EXTENDS Capability

CONSTANTS
  Parties,       \* holders of a keypair
  Nonces,        \* what keeps the grants of a party apart
  Limits,        \* limits a party commits to by itself
  Mandates,      \* sets of capabilities a party commits to by itself
  Fakes,         \* bands nobody signed
  MaxGrants,     \* bound on the number of commitments
  None           \* no parent, no signer

ASSUME DelegationAssumption ==
  /\ Mandates \subseteq SUBSET Caps /\ Limits \subseteq Nat /\ Fakes \subseteq Nat
  /\ MaxGrants \in Nat /\ None \notin Parties

VARIABLE
  grants         \* the commitments made, each with where it came from

\* What a re-commitment was made from, and the proofs that came with it.
Roots == {rootOf(S) : S \in SUBSET Caps}
Origin == [key : Parties, root : Roots, nonce : Nonces, tree : SUBSET Caps]

Grant == [ signer : Parties, caps : SUBSET Caps, root : Roots, nonce : Nonces,
           limit : Nat, from : Origin \cup {None} ]

\* A party commits to a set and to a limit: only the root and the bands leave it.
grant(p, S, nonce, limit, from) ==
  [ signer |-> p, caps |-> S, root |-> rootOf(S), nonce |-> nonce, limit |-> limit,
    from |-> from ]

attestations(g) == commitLimit(g.limit, g.signer, g.root, g.nonce)

\* Every attestation anybody can present.
Circulating ==
  (UNION {attestations(g) : g \in grants})
    \cup {attestation(b, g.root, g.nonce, None) : b \in Fakes, g \in grants}

Init == grants = {}

\* commitCapabilities() and commitLimit() of a party's own authority.
Commit(p, S, limit, nonce) ==
  /\ Cardinality(grants) < MaxGrants
  /\ grants' = grants \cup {grant(p, S, nonce, limit, None)}

\* Mutant: a band counts whatever root it was signed for.
countsFromAnyRoot(a, o) ==
  a.band \in Ladder /\ a.nonce = o.nonce /\ verifyWithinLimit(a.band, a, o.key, a.root)

\* A band counts toward the ceiling only if it is on the ladder, is for the
\* expected root and nonce, and verifies under the trusted parent's key.
counts(a, o) ==
  /\ a.band \in Ladder /\ a.root = o.root /\ a.nonce = o.nonce
  /\ verifyWithinLimit(a.band, a, o.key, o.root)

\* What a party may take for its parent's: a root and nonce of some grant, and
\* the tree of that grant or of another.
Origins == {[key |-> k, root |-> g.root, nonce |-> n, tree |-> h.caps] :
              k \in Parties, n \in Nonces, g \in grants, h \in grants}

(***************************************************************************)
(* reCommit(): the child's set is within the tree it was given, every band *)
(* it was given counts, none twice, and the highest is the child's ceiling.*)
(* Nothing ties the tree to the root; that is what the proofs are for.     *)
(***************************************************************************)
ReCommit(p, o, bands) ==
  /\ Cardinality(grants) < MaxGrants
  /\ \A a \in bands : counts(a, o)
  /\ \A a, b \in bands : a.band = b.band => a = b
  /\ \E top \in bands, S \in SUBSET o.tree, nonce \in Nonces :
       /\ \A a \in bands : a.band <= top.band
       /\ grants' = grants \cup {grant(p, S, nonce, top.band, o)}

Next ==
  \/ \E p \in Parties, S \in Mandates, limit \in Limits, nonce \in Nonces :
       Commit(p, S, limit, nonce)
  \/ \E p \in Parties, o \in Origins, a, b \in Circulating : ReCommit(p, o, {a, b})

Spec == Init /\ [][Next]_grants
-----------------------------------------------------------------------------
TypeOK == grants \subseteq Grant

\* The proofs that came with a re-commitment verify against the parent's root.
Shown(g) ==
  g.from # None => verifyAttenuation(g.from.root, proveAttenuation(g.from.tree, g.caps))

\* The grants a re-commitment says it was made from.
Parents(g) ==
  {p \in grants : p.signer = g.from.key /\ p.root = g.from.root /\ p.nonce = g.from.nonce}

\* The root of a grant proves what is in it, and nothing else along any path, made
\* up of other trees' digests or not (capability-commitment.js: "a cap NOT in the
\* set has no valid proof").
RootsAreExact ==
  \A g \in grants, p \in Proved : p[1] = g.caps => p[2] = g.caps /\ p[3] \subseteq g.caps

\* No ceiling is above that of the grant it was made from, nor above every one that
\* a party committed to by itself.
CeilingsNarrow ==
  \A g \in grants : g.from # None =>
    /\ \E p \in Parents(g) : g.limit <= p.limit
    /\ \E t \in grants : t.from = None /\ g.limit <= t.limit

\* Where the proofs that came with a re-commitment verify, its set is not wider
\* than that of any grant under the root it names.
SetsNarrow ==
  \A g, p \in grants : g.from # None /\ p.root = g.from.root /\ Shown(g) => g.caps \subseteq p.caps

\* However often authority is handed down, and with whatever trees and bands, it
\* narrows on both axes (capability-commitment.js: "reCommit refuses to widen
\* either axis").
NarrowNeverWiden == CeilingsNarrow /\ SetsNarrow

\* An attestation that a verifier accepts for a request, a key and a root was made
\* by the holder of that key for that root, with a limit that covers the request:
\* none can be lifted onto a grant of another set or party.
BandsStayHome ==
  \A a \in Circulating, k \in Parties, r \in {g.root : g \in grants}, req \in Ladder \cup Fakes :
    verifyWithinLimit(req, a, k, r) =>
      \E g \in grants : g.signer = k /\ g.root = r /\ req <= g.limit
=============================================================================
