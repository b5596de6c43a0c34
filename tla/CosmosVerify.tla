---------------------------- MODULE CosmosVerify ----------------------------
(***************************************************************************)
(* verifier/cosmos_verify.py: the same receipt, read by a decoder and an   *)
(* encoder of its own.  An exception of Python's is a throw; where verify()*)
(* does not catch it the program ends with a traceback ("crash").          *)
(***************************************************************************)
EXTENDS Receipt

\* _arg(): a slice that runs off the end is shorter, and the position moves on.
pyArg(b, i, ai) ==
  LET at(k) == IF k <= Len(b) THEN value(b[k]) ELSE 0
  IN  CASE ai < 24 -> Read(ai, i)
        [] ai = 24 /\ i <= Len(b) -> Read(at(i), i + 1)
        [] ai = 25 -> Read(IF i + 1 <= Len(b) THEN 256 * at(i) + at(i + 1) ELSE at(i), i + 2)
        [] OTHER -> Throw

\* bytes.decode("utf-8"), of which nothing but ASCII turns up.
ascii(s) == \A k \in DOMAIN s : major(s[k]) < 4

RECURSIVE pyItem(_, _)
RECURSIVE pyItems(_, _, _)
pyItems(b, i, n) ==
  IF n = 0 THEN Read(<<>>, i)
  ELSE LET first == pyItem(b, i)
           rest == pyItems(b, first.i, n - 1)
       IN  IF ~first.ok \/ ~rest.ok THEN Throw ELSE Read(<<first.v>> \o rest.v, rest.i)

\* A list or a dict cannot be the key of a dict.
hashable(v) == v[1] \notin {4, 5}

pyItem(b, i) ==
  IF i > Len(b) THEN Throw
  ELSE LET m == major(b[i])
           arg == pyArg(b, i + 1, info(b[i]))
           n == arg.v
           text == SubSeq(b, arg.i, arg.i + n - 1)
           content == pyItems(b, arg.i, IF m = 4 THEN n ELSE IF m = 5 THEN 2 * n ELSE 1)
       IN  CASE ~arg.ok -> Throw
             [] m \in {0, 1} /\ arg.ok -> Read(<<m, n>>, arg.i)
             [] m \in {2, 3} /\ arg.ok ->
                  IF arg.i + n - 1 > Len(b) \/ (m = 3 /\ ~ascii(text)) THEN Throw
                  ELSE Read(<<m, text>>, arg.i + n)
             [] m \in {4, 6} /\ arg.ok ->
                  IF ~content.ok THEN Throw
                  ELSE Read(IF m = 4 THEN Arr(content.v) ELSE Tag(n, content.v[1]), content.i)
             [] m = 5 /\ arg.ok ->
                  IF ~content.ok \/ \E k \in DOMAIN pairs(content.v) : ~hashable(pairs(content.v)[k][1])
                  THEN Throw ELSE Read(Map(pairs(content.v)), content.i)
             [] m = 7 /\ arg.ok ->
                  IF info(b[i]) \in {20, 21, 22} THEN Read(Simple(info(b[i])), arg.i) ELSE Throw

\* cbor_decode(): the item is all there is.
cborDecode(b) ==
  LET item == pyItem(b, 1) IN IF ~item.ok \/ item.i # Len(b) + 1 THEN Throw ELSE item

\* dict.get(): True is 1 for a dict.
pyGet(map, key) ==
  LET at == {k \in DOMAIN map[2] : map[2][k][1] = key \/ (key = Uint(1) /\ map[2][k][1] = True)}
  IN  IF at = {} THEN Null ELSE map[2][CHOOSE k \in at : \A j \in at : j <= k][2]

\* cbor_encode() of what it is used for.
pyHead(m, n) ==
  CASE n < 24 -> <<B(m, n)>>
    [] n >= 24 /\ n < 256 -> <<B(m, 24)>> \o <<byte(n)>>
    [] n >= 256 -> <<B(m, 25)>> \o <<byte(n \div 256), byte(n % 256)>>

sigStructure(prot, body) ==
  pyHead(4, 4) \o pyHead(3, 1) \o << <<"word", "Signature1">> >>
    \o pyHead(2, Len(prot)) \o prot \o pyHead(2, 0) \o pyHead(2, Len(body)) \o body

\* verify_capability(): no proof is a proof.
verifyCapability(p) ==
  LET proof == pyGet(p, word("proof"))
  IN  proof = Null \/ climb(leafOf(capOf(proof)), pathOf(proof)) = pyGet(p, word("root"))[2][1][2]

readPyPayload(p) ==
  IF ~p.ok \/ p.v[1] # 5 THEN "crash"
  ELSE IF pyGet(p.v, word("schema")) \notin {Uint(n) : n \in ACCEPTED_SCHEMAS} THEN "UNSUPPORTED_SCHEMA"
  ELSE IF ~verifyCapability(p.v) THEN "CAPABILITY_PROOF_INVALID" ELSE "ok"

\* The parts and their header checked, up to what needs a key: the payload is
\* decoded last.
pySigned(parts, hdr, keys) ==
  LET kid == pyGet(hdr.v, KID)
      by == signers(keys, parts[4][2], sigStructure(parts[1][2], parts[3][2]))
  IN  IF ~hdr.ok \/ hdr.v[1] # 5 THEN Bad("crash")
      ELSE IF pyGet(hdr.v, ALG) # EdDSA THEN Bad("COSE_UNSUPPORTED_ALG")
      ELSE IF ~isBstr(kid) THEN Bad("COSE_KID_MISSING")
      ELSE IF ~ascii(kid[2]) THEN Bad("crash")
      ELSE LET body == cborDecode(parts[3][2])
           IN  [ reason |-> IF by = {} THEN "SIGNATURE_INVALID" ELSE readPyPayload(body),
                 kid |-> kid[2], signers |-> by ]

\* verify() of the parts of an item, if there are four.
pyParts(parts, keys) ==
  LET prot == parts[1][2]
  IN  IF parts = <<>> THEN Bad("COSE_MALFORMED")
      ELSE pySigned(parts, IF prot = <<>> THEN Read(Map(<<>>), 1) ELSE cborDecode(prot), keys)

pyItemParts(item, keys) ==
  IF ~item.ok THEN Bad("COSE_MALFORMED") ELSE pyParts(fourParts(item.v), keys)

pyOpened(bytes, keys) == pyItemParts(cborDecode(bytes), keys)

\* find_key(), and the checks that need it; in the order of Receipt's.
pyVerify(o, ring) ==
  LET listed == {k \in DOMAIN ring : ring[k].status # "absent" /\ o.kid = << <<"kid", k>> >>}
  IN  IF "kid" \notin DOMAIN o THEN o.reason
      ELSE IF listed = {} THEN "KEY_UNKNOWN"
      ELSE LET key == ring[CHOOSE k \in listed : TRUE]
           IN  CASE key.status = "revoked" -> "KEY_REVOKED"
                 [] key.status # "revoked" /\ key.key \notin o.signers -> "SIGNATURE_INVALID"
                 [] OTHER -> o.reason
=============================================================================
