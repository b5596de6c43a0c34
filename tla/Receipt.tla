------------------------------ MODULE Receipt -------------------------------
(***************************************************************************)
(* core/receipt.js and core/cose.js: a decision as a signed CBOR payload,  *)
(* and what the repository's own verifier says of some bytes against the   *)
(* keys that are published.  A signature is the key and the bytes it was   *)
(* made over.  Pure operators.                                             *)
(***************************************************************************)
EXTENDS Cbor, Capability

CONSTANTS
  SCHEMA,              \* what an issuer writes
  ACCEPTED_SCHEMAS,    \* what a verifier reads
  Allowed,             \* the categories of the grant of the decision
  Category             \* the category of the request, one of Caps

ASSUME ReceiptAssumption == SCHEMA \in ACCEPTED_SCHEMAS /\ Allowed \subseteq Caps /\ Category \in Caps

word(w) == Tstr(<< <<"word", w>> >>)
digest(d) == Tstr(<< <<"digest", d>> >>)

\* The proof of the request's category in the set of the grant, where it is in it.
capabilityProof ==
  LET p == membershipProof(Allowed, Category)
      step(s) == Map(<< <<word("hash"), digest(s.hash)>>,
                        <<word("right"), IF s.right THEN True ELSE False>> >>)
  IN  IF p = NoProof THEN Null
      ELSE Map(<< <<word("cap"), Tstr(<< <<"cap", p.cap>> >>)>>,
                  <<word("path"), Arr([i \in DOMAIN p.path |-> step(p.path[i])])>> >>)

\* The decision; of its fields, those that a verifier reads.
payload == Map(<< <<word("schema"), Uint(SCHEMA)>>, <<word("root"), digest(rootOf(Allowed))>>,
                  <<word("proof"), capabilityProof>> >>)

ALG == Uint(1)
KID == Uint(4)
EdDSA == Nint(7)

protectedHeader(kid) == encode(Map(<< <<ALG, EdDSA>>, <<KID, Bstr(<< <<"kid", kid>> >>)>> >>))

\* Mutant: the protected header is not signed.
signedPayload(prot, body) == encode(Arr(<<word("Signature1"), Bstr(body)>>))

\* The bytes that are signed.
toBeSigned(prot, body) == encode(Arr(<<word("Signature1"), Bstr(prot), Bstr(<<>>), Bstr(body)>>))

signature(key, tbs) == << <<"sig", key, tbs>> >>

\* issue() and sign1(): tag 18, the headers, the payload, the signature.
issue(kid, key) ==
  LET prot == protectedHeader(kid)
      body == encode(payload)
  IN  encode(Tag(18, Arr(<< Bstr(prot), Map(<<>>), Bstr(body),
                            Bstr(signature(key, toBeSigned(prot, body))) >>)))
-----------------------------------------------------------------------------
Bad(reason) == [reason |-> reason]

isBstr(v) == v[1] = 2

\* verifyMembership() of a decoded proof.
capOf(proof) == get(proof, word("cap"))[2][1][2]
pathOf(proof) ==
  LET path == get(proof, word("path"))[2]
  IN  [i \in DOMAIN path |-> [ hash |-> get(path[i], word("hash"))[2][1][2],
                               right |-> get(path[i], word("right")) = True ]]

\* What the payload of a good signature is worth: an unknown schema fails closed, a
\* capability proof must reach the root.
readPayload(p) ==
  LET proof == get(p, word("proof"))
      proves == proof = Null \/
        verifyMembership(get(p, word("root"))[2][1][2], [cap |-> capOf(proof), path |-> pathOf(proof)])
  IN  IF get(p, word("schema")) \notin {Uint(n) : n \in ACCEPTED_SCHEMAS} THEN "UNSUPPORTED_SCHEMA"
      ELSE IF ~proves THEN "CAPABILITY_PROOF_INVALID" ELSE "ok"

\* The four parts of a COSE_Sign1, tagged or not, or nothing.
fourParts(item) ==
  LET arr == IF item[1] = 6 THEN item[2][2] ELSE item
  IN  IF (item[1] = 6 /\ item[2][1] # 18) \/ arr[1] # 4 \/ Len(arr[2]) # 4 THEN <<>>
      ELSE IF ~isBstr(arr[2][1]) \/ ~isBstr(arr[2][3]) \/ ~isBstr(arr[2][4]) THEN <<>> ELSE arr[2]

\* The keys of a set that a signature verifies under.
signers(keys, sig, tbs) == {key \in keys : sig = signature(key, tbs)}

\* The checks of verify1() and verify() that need no key.
signedParts(parts, hdr, body, keys) ==
  LET kid == get(hdr.v, KID)
      by == signers(keys, parts[4][2], toBeSigned(parts[1][2], parts[3][2]))
  IN  IF ~hdr.ok \/ ~body.ok THEN Bad("COSE_MALFORMED")
      ELSE IF hdr.v[1] # 5 THEN Bad("COSE_MALFORMED_PROTECTED")
      ELSE IF get(hdr.v, ALG) # EdDSA THEN Bad("COSE_UNSUPPORTED_ALG")
      ELSE IF ~isBstr(kid) \/ kid[2] = <<>> THEN Bad("COSE_KID_MISSING")
      ELSE [ reason |-> IF by = {} THEN "SIGNATURE_INVALID" ELSE readPayload(body.v),
             kid |-> kid[2], signers |-> by, payload |-> IF by = {} THEN Null ELSE body.v ]

\* parse(): everything is decoded, payload included, before anything is checked.
parsedParts(parts, keys) ==
  LET prot == parts[1][2]
  IN  IF parts = <<>> THEN Bad("COSE_MALFORMED")
      ELSE signedParts(parts, IF prot = <<>> THEN Read(Map(<<>>), 1) ELSE decode(prot),
                       decode(parts[3][2]), keys)

parsedItem(item, keys) ==
  IF ~item.ok THEN Bad("COSE_MALFORMED") ELSE parsedParts(fourParts(item.v), keys)

opened(bytes, keys) == parsedItem(decode(bytes), keys)

\* verify(): the published key of the kid, its status, its signature, the payload.
\* `ring` says of each kid which key is published for it and with what status.
verify(o, ring) ==
  LET known == {k \in DOMAIN ring : ring[k].status # "absent" /\ o.kid = << <<"kid", k>> >>}
      entry == ring[CHOOSE k \in known : TRUE]
  IN  IF "kid" \notin DOMAIN o THEN o.reason
      ELSE IF known = {} THEN "KEY_UNKNOWN"
      ELSE IF entry.status = "revoked" THEN "KEY_REVOKED"
      ELSE IF entry.key \notin o.signers THEN "SIGNATURE_INVALID"
      ELSE o.reason
=============================================================================
