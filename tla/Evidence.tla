------------------------------ MODULE Evidence ------------------------------
(***************************************************************************)
(* Receipts on their way: the bytes that Keystore's process issues, whole  *)
(* or damaged by one byte or a cut, before the repository's verifier and   *)
(* the Python one, with the key set that the process publishes by then.    *)
(***************************************************************************)
EXTENDS Keystore, CosmosVerify, FiniteSets

CONSTANT Strays    \* bytes that damage may put into a receipt

\* One byte changed, left out or added, or the end cut off.
Damaged(bytes) ==
  {[bytes EXCEPT ![i] = s] : i \in DOMAIN bytes, s \in Strays}
    \cup {SubSeq(bytes, 1, n) : n \in 0..Len(bytes) - 1}
    \cup {SubSeq(bytes, 1, i - 1) \o SubSeq(bytes, i + 1, Len(bytes)) : i \in DOMAIN bytes}
    \cup {Append(bytes, s) : s \in Strays}

\* Is the whole of it one item?
isWhole(bytes) == decode(bytes).ok /\ decode(bytes).i = Len(bytes) + 1

\* What each verifier makes of a receipt, damaged or not, before it looks for a key.
readings(kid, key) ==
  LET bytes == issue(kid, key)
  IN  {[ intact |-> b = bytes, whole |-> isWhole(b),
         js |-> opened(b, Keys), py |-> pyOpened(b, Keys) ] : b \in Damaged(bytes) \cup {bytes}}

\* The readings of every receipt there can be.
Readings == {<< [kid |-> kid, key |-> key], readings(kid, key) >> : kid \in Kids, key \in Keys}

\* The two verifiers accept the same bytes, except that only Python refuses what
\* follows a receipt; and an intact receipt they accept exactly when its key is
\* published and not revoked (cosmos_verify.py: "if this file and the issuer
\* disagree by one byte, that is the bug we want to find").
VerifiersAgree ==
  LET ring == jwks IN
  \A of \in Readings : of[1] \in receipts =>
    \A e \in of[2] : LET accepted == verify(e.js, ring) = "ok" IN
      /\ pyVerify(e.py, ring) = "ok" <=> accepted /\ e.whole
      /\ e.intact => (accepted <=> Verifies(of[1]))

\* Bytes that verify, however damaged, say what was issued, and name the kid that
\* it was issued under (core/receipt.js: the kid is in the protected header "which
\* the signature covers").
OnlyIssuedVerifies ==
  LET ring == jwks IN
  \A of \in Readings : of[1] \in receipts =>
    \A e \in of[2] :
      verify(e.js, ring) = "ok" => e.js.payload = payload /\ e.js.kid = << <<"kid", of[1].kid>> >>
=============================================================================
