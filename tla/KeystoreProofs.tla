--------------------------- MODULE KeystoreProofs ---------------------------
(***************************************************************************)
(* Theorems about module Keystore, for every set of kids and keys.         *)
(*                                                                         *)
(* The inductive invariant follows a receipt through the process that      *)
(* issued it and the configuration that outlives it: while a process runs  *)
(* the registry has the receipt's key, and once it has ended the           *)
(* configuration boots a registry that has it.                             *)
(***************************************************************************)
EXTENDS Keystore, TLAPS

\* What is marked revoked, here or in the configuration, was revoked.
Marked ==
  \A kid \in Kids :
    /\ registry[kid].status = "revoked" => kid \in revoked
    /\ config.retired[kid].status = "revoked" => kid \in revoked

\* A running process has the key of every receipt and marks every revoked kid.
Kept ==
  /\ \A r \in receipts : registry[r.kid].key = r.key
  /\ \A kid \in revoked : registry[kid].status = "revoked"

\* So will the process that the configuration boots.
Ready ==
  /\ \A r \in receipts :
       IF r.kid = config.kid THEN r.key = config.key ELSE config.retired[r.kid].key = r.key
  /\ \A kid \in revoked : config.kid # kid /\ config.retired[kid].status = "revoked"

IInv ==
  /\ TypeOK /\ OneSigner /\ Marked
  /\ careful => IF up THEN Kept ELSE Ready

\* An entry of the registry, and the public part of it, are well typed.
LEMMA EntryTypes ==
  ASSUME NEW e \in Published \cup {Absent}
  PROVE  /\ public(e) \in {x \in Published : ~x.private} \cup {Absent}
         /\ public(e).key = e.key /\ public(e).status = e.status
         /\ e.status = "absent" => e.key = NoKey
         /\ e.status # "absent" => e.key \in Keys
<1>1. CASE e \in Published
  <2>1. e.key \in Keys /\ e.status \in {"active", "retired", "revoked"}
    BY <1>1 DEF Published
  <2>2. public(e) \in Published /\ ~public(e).private
    BY <2>1 DEF public, Published
  <2>3. public(e).key = e.key /\ public(e).status = e.status
    BY DEF public
  <2> QED BY <2>1, <2>2, <2>3
<1>2. CASE e = Absent
  BY <1>2 DEF public, Absent
<1> QED BY <1>1, <1>2

-----------------------------------------------------------------------------
LEMMA InitIInv == Init => IInv
<1> SUFFICES ASSUME Init PROVE IInv
  OBVIOUS
<1>1. PICK kid \in Kids, key \in Keys \cup {NoKey}, production \in BOOLEAN :
        config = [kid |-> kid, key |-> key, retired |-> Nothing, production |-> production]
  BY DEF Init
<1>2. Nothing \in [Kids -> {e \in Published : ~e.private} \cup {Absent}]
      /\ Nothing \in [Kids -> Published \cup {Absent}]
  BY DEF Nothing
<1>3. TypeOK
  BY <1>1, <1>2 DEF Init, TypeOK
<1>4. OneSigner /\ Marked
  BY <1>1, KeystoreAssumption DEF Init, OneSigner, Marked, Nothing, Absent
<1> QED BY <1>3, <1>4 DEF Init, IInv, Ready

(***************************************************************************)
(* The boot: the registry that loadRetired() and added() make of the       *)
(* configuration, kid by kid.                                              *)
(***************************************************************************)
LEMMA BootStep == IInv /\ Boot => IInv'
<1> SUFFICES ASSUME IInv, Boot PROVE IInv'
  OBVIOUS
<1> DEFINE loaded(kid) == loadRetired(config.retired)[kid]
<1>1. PICK key \in Keys :
        /\ key = config.key \/ config.key = NoKey
        /\ generated' \in SUBSET Keys
        /\ registry' = added(loadRetired(config.retired), config.kid, key)
  BY DEF Boot, IInv, TypeOK
<1>2. /\ config.kid \in Kids /\ activeKid' = config.kid
      /\ config.retired \in [Kids -> {e \in Published : ~e.private} \cup {Absent}]
  BY DEF Boot, IInv, TypeOK
<1>3. \A kid \in Kids :
        /\ loaded(kid) \in Published \cup {Absent}
        /\ loaded(kid).status # "active"
        /\ loaded(kid).key = config.retired[kid].key
        /\ loaded(kid).status = "revoked" <=> config.retired[kid].status = "revoked"
  BY <1>2 DEF loadRetired, Published, Absent
<1>4. registry' = [kid \in Kids |->
        IF kid = config.kid THEN [key |-> key, private |-> TRUE, status |-> "active"]
        ELSE loaded(kid)]
  BY <1>1, <1>2 DEF added, loadRetired
<1>5. TypeOK'
  BY <1>1, <1>2, <1>3, <1>4 DEF Boot, IInv, TypeOK, Published
<1>6. OneSigner'
  BY <1>2, <1>3, <1>4 DEF OneSigner
<1>7. Marked'
  BY <1>2, <1>3, <1>4 DEF Marked, Boot, IInv
<1>8. careful' => Kept'
  <2> SUFFICES ASSUME careful PROVE Kept'
    BY DEF Boot
  <2>1. Ready /\ receipts' = receipts /\ revoked' = revoked
    BY DEF Boot, IInv
  <2>2. \A r \in receipts : r.kid \in Kids /\ r.key \in Keys
    BY DEF IInv, TypeOK
  <2>3. revoked \subseteq Kids
    BY DEF IInv, TypeOK
  <2>4. \A r \in receipts : registry'[r.kid].key = r.key
    BY <1>1, <1>3, <1>4, <2>1, <2>2, KeystoreAssumption DEF Ready
  <2>5. \A kid \in revoked : registry'[kid].status = "revoked"
    BY <1>3, <1>4, <2>1, <2>3 DEF Ready
  <2> QED BY <2>1, <2>4, <2>5 DEF Kept
<1> QED BY <1>5, <1>6, <1>7, <1>8 DEF Boot, IInv

\* Signing records the key that activeKid names.
LEMMA SignStep == IInv /\ Sign => IInv'
<1> SUFFICES ASSUME IInv, Sign PROVE IInv'
  OBVIOUS
<1>1. /\ activeKid \in Kids /\ registry[activeKid].status = "active"
      /\ registry[activeKid] \in Published \cup {Absent}
  BY DEF Sign, IInv, TypeOK, OneSigner
<1>2. registry[activeKid].key \in Keys
  BY <1>1, EntryTypes
<1>3. TypeOK'
  BY <1>1, <1>2 DEF Sign, IInv, TypeOK
<1>4. OneSigner' /\ Marked'
  BY DEF Sign, IInv, OneSigner, Marked
<1>5. careful' => Kept'
  BY DEF Sign, IInv, Kept
<1> QED BY <1>3, <1>4, <1>5 DEF Sign, IInv

(***************************************************************************)
(* A rotation touches two kids: the one that was active, which keeps its   *)
(* key, and the one it takes, which no receipt names unless it is retired. *)
(***************************************************************************)
LEMMA RotateStep ==
  ASSUME IInv, NEW kid \in Kids, NEW key \in Keys, Rotate(kid, key) PROVE IInv'
<1>1. /\ up /\ up' /\ Usable(kid) /\ activeKid' = kid
      /\ config' = config /\ receipts' = receipts /\ revoked' = revoked
      /\ registry \in [Kids -> Published \cup {Absent}] /\ activeKid \in Kids \cup {NoKid}
  BY DEF Rotate, IInv, TypeOK
<1>2. retiring \in [Kids -> Published \cup {Absent}]
      /\ \A k \in Kids :
           /\ retiring[k].key = registry[k].key
           /\ retiring[k].status # "active"
           /\ retiring[k].status = "revoked" <=> registry[k].status = "revoked"
  <2>1. CASE activeKid = NoKid
    BY <1>1, <2>1, KeystoreAssumption DEF retiring, IInv, OneSigner
  <2>2. CASE activeKid # NoKid
    <3>1. activeKid \in Kids /\ registry[activeKid].status = "active"
      BY <1>1, <2>2 DEF IInv, OneSigner
    <3>2. registry[activeKid] \in Published
      BY <1>1, <3>1 DEF Absent
    <3>3. retiring = [registry EXCEPT ![activeKid].status = "retired"]
      BY <2>2 DEF retiring
    <3>4. [registry[activeKid] EXCEPT !.status = "retired"] \in Published
      BY <3>2 DEF Published
    <3>5. retiring \in [Kids -> Published \cup {Absent}]
      BY <1>1, <3>1, <3>3, <3>4
    <3>6. \A k \in Kids \ {activeKid} : retiring[k] = registry[k] /\ registry[k].status # "active"
      BY <1>1, <3>1, <3>3 DEF IInv, OneSigner
    <3>7. retiring[activeKid].key = registry[activeKid].key /\ retiring[activeKid].status = "retired"
      BY <1>1, <3>1, <3>2, <3>3 DEF Published
    <3> QED BY <3>1, <3>5, <3>6, <3>7
  <2> QED BY <2>1, <2>2
<1>3. registry' = [k \in Kids |->
        IF k = kid THEN [key |-> key, private |-> TRUE, status |-> "active"] ELSE retiring[k]]
  BY <1>2 DEF Rotate, added
<1>4. TypeOK'
  <2>1. registry' \in [Kids -> Published \cup {Absent}]
    BY <1>2, <1>3 DEF Published
  <2>2. generated' \subseteq Keys /\ careful' \in BOOLEAN
    BY DEF Rotate, IInv, TypeOK
  <2> QED BY <1>1, <2>1, <2>2 DEF IInv, TypeOK
<1>5. OneSigner'
  BY <1>1, <1>2, <1>3 DEF OneSigner
<1>6. Marked'
  BY <1>1, <1>2, <1>3 DEF IInv, Marked
<1>7. careful' => Kept'
  <2> SUFFICES ASSUME careful' PROVE Kept'
    OBVIOUS
  <2>1. Kept /\ registry[kid].status = "absent"
    BY <1>1 DEF Rotate, Usable, IInv
  <2>2. registry[kid].key = NoKey
    BY <1>1, <2>1, EntryTypes
  <2>3. \A r \in receipts : r.kid \in Kids /\ r.kid # kid
    BY <2>1, <2>2, KeystoreAssumption DEF Kept, IInv, TypeOK
  <2>4. \A k \in revoked : k \in Kids /\ k # kid
    BY <2>1 DEF Kept, IInv, TypeOK
  <2> QED BY <1>1, <1>2, <1>3, <2>1, <2>3, <2>4 DEF Kept
<1> QED BY <1>1, <1>4, <1>5, <1>6, <1>7 DEF IInv

\* A revocation keeps the key and marks it.
LEMMA RevokeStep == ASSUME IInv, NEW kid \in Kids, Revoke(kid) PROVE IInv'
<1>1. /\ up /\ up' /\ careful' = careful /\ config' = config /\ receipts' = receipts
      /\ revoked' = revoked \cup {kid}
      /\ registry \in [Kids -> Published \cup {Absent}]
  BY DEF Revoke, IInv, TypeOK
<1>2. registry[kid] \in Published
  BY <1>1 DEF Revoke, Absent
<1>3. [registry[kid] EXCEPT !.status = "revoked"] \in Published
  BY <1>2 DEF Published
<1>4. /\ registry'[kid].key = registry[kid].key /\ registry'[kid].status = "revoked"
      /\ \A k \in Kids \ {kid} : registry'[k] = registry[k]
      /\ registry' \in [Kids -> Published \cup {Absent}]
  BY <1>1, <1>2, <1>3 DEF Revoke, Published
<1>5. TypeOK'
  BY <1>1, <1>4 DEF Revoke, IInv, TypeOK
<1>6. OneSigner'
  BY <1>4, KeystoreAssumption DEF Revoke, IInv, OneSigner
<1>7. Marked'
  BY <1>1, <1>4 DEF IInv, Marked
<1>8. careful' => Kept'
  BY <1>1, <1>4 DEF IInv, TypeOK, Kept
<1> QED BY <1>1, <1>5, <1>6, <1>7, <1>8 DEF IInv

\* What the operator saves changes nothing in the process; the JWKS and the
\* export say revoked of revoked kids only.
LEMMA SaveStep ==
  ASSUME IInv,
         \/ SaveRetired(exportRetiredKeys) \/ SaveRetired(jwks)
         \/ \E kid \in Kids, key \in Keys : SaveKey(kid, key)
  PROVE  IInv'
<1>1. /\ up /\ up' /\ registry' = registry /\ activeKid' = activeKid /\ generated' = generated
      /\ receipts' = receipts /\ revoked' = revoked /\ careful' = careful
  <2>1. CASE SaveRetired(exportRetiredKeys)
    BY <2>1 DEF SaveRetired
  <2>2. CASE SaveRetired(jwks)
    BY <2>2 DEF SaveRetired
  <2>3. CASE \E kid \in Kids, key \in Keys : SaveKey(kid, key)
    <3>1. PICK kid \in Kids, key \in Keys : SaveKey(kid, key)
      BY <2>3
    <3> QED BY <3>1, Zenon DEF SaveKey
  <2> QED BY <2>1, <2>2, <2>3
<1>2. \A kid \in Kids : registry[kid] \in Published \cup {Absent}
  BY DEF IInv, TypeOK
<1>3. \A list \in {exportRetiredKeys, jwks} :
        /\ list \in [Kids -> {e \in Published : ~e.private} \cup {Absent}]
        /\ \A kid \in Kids : list[kid].status = "revoked" => registry[kid].status = "revoked"
  BY <1>2, EntryTypes DEF exportRetiredKeys, jwks, Absent
<1>4. /\ config' \in [kid : Kids, key : Keys \cup {NoKey}, production : BOOLEAN,
                      retired : [Kids -> {e \in Published : ~e.private} \cup {Absent}]]
      /\ \A kid \in Kids : config'.retired[kid].status = "revoked" => kid \in revoked
  <2>1. CASE SaveRetired(exportRetiredKeys) \/ SaveRetired(jwks)
    BY <2>1, <1>3 DEF SaveRetired, IInv, TypeOK, Marked
  <2>2. CASE \E kid \in Kids, key \in Keys : SaveKey(kid, key)
    BY <2>2 DEF SaveKey, IInv, TypeOK, Marked
  <2> QED BY <2>1, <2>2
<1>5. TypeOK' /\ OneSigner' /\ Marked'
  BY <1>1, <1>4 DEF IInv, TypeOK, OneSigner, Marked
<1>6. careful' => Kept'
  BY <1>1 DEF IInv, Kept
<1> QED BY <1>1, <1>5, <1>6 DEF IInv

\* The rules at the end of a process are what the next one needs.
LEMMA ExitStep == IInv /\ Exit => IInv'
<1> SUFFICES ASSUME IInv, Exit PROVE IInv'
  OBVIOUS
<1>1. /\ up /\ ~up' /\ registry' = Nothing /\ activeKid' = NoKid
      /\ config' = config /\ receipts' = receipts /\ revoked' = revoked /\ generated' = generated
  BY DEF Exit
<1>2. TypeOK'
  BY <1>1 DEF Exit, IInv, TypeOK, Nothing
<1>3. OneSigner' /\ Marked'
  BY <1>1, KeystoreAssumption DEF IInv, OneSigner, Marked, Nothing, Absent
<1>4. careful' => Ready'
  <2> SUFFICES ASSUME careful' PROVE Ready'
    OBVIOUS
  <2>1. Kept /\ \A kid \in Kids : Carried(kid)
    BY <1>1 DEF Exit, IInv
  <2>2. \A kid \in Kids : registry[kid] \in Published \cup {Absent}
    BY DEF IInv, TypeOK
  <2>3. ASSUME NEW kid \in revoked
        PROVE  config.kid # kid /\ config.retired[kid].status = "revoked"
    <3>1. kid \in Kids /\ registry[kid].status = "revoked"
      BY <2>1 DEF Kept, IInv, TypeOK
    <3> QED BY <2>1, <2>2, <3>1, EntryTypes DEF Carried
  <2>4. ASSUME NEW r \in receipts
        PROVE  IF r.kid = config.kid THEN r.key = config.key
               ELSE config.retired[r.kid].key = r.key
    <3>1. r.kid \in Kids /\ r.key \in Keys /\ registry[r.kid].key = r.key
      BY <2>1 DEF Kept, IInv, TypeOK
    <3>2. registry[r.kid].status \in {"active", "retired", "revoked"}
      BY <2>2, <3>1, KeystoreAssumption DEF Published, Absent
    <3> QED BY <2>1, <2>2, <3>1, <3>2, EntryTypes DEF Carried
  <2> QED BY <1>1, <2>3, <2>4 DEF Ready
<1> QED BY <1>1, <1>2, <1>3, <1>4 DEF IInv

LEMMA IInvStep == IInv /\ [Next]_vars => IInv'
<1> SUFFICES ASSUME IInv, [Next]_vars PROVE IInv'
  OBVIOUS
<1>1. CASE Boot BY <1>1, BootStep
<1>2. CASE Sign BY <1>2, SignStep
<1>3. CASE Exit BY <1>3, ExitStep
<1>4. CASE \E kid \in Kids : Revoke(kid) BY <1>4, RevokeStep
<1>5. CASE \E kid \in Kids, key \in Keys : Rotate(kid, key) BY <1>5, RotateStep
<1>6. CASE \E kid \in Kids, key \in Keys : SaveKey(kid, key) BY <1>6, SaveStep
<1>7. CASE SaveRetired(exportRetiredKeys) \/ SaveRetired(jwks) BY <1>7, SaveStep
<1>8. CASE UNCHANGED vars
  BY <1>8 DEF vars, IInv, TypeOK, OneSigner, Marked, Kept, Ready
<1> QED BY <1>1, <1>2, <1>3, <1>4, <1>5, <1>6, <1>7, <1>8 DEF Next

LEMMA Inductive == Spec => []IInv
BY InitIInv, IInvStep, PTL DEF Spec
-----------------------------------------------------------------------------
\* The registry and the configuration are always well typed; in particular no
\* private half is ever in what the operator saves of the JWKS or the export.
THEOREM TypeCorrect == Spec => []TypeOK
<1>1. IInv => TypeOK BY DEF IInv
<1> QED BY <1>1, Inductive, PTL

\* Two keys never sign in one process, and a kid that is retired or revoked
\* never signs (sign(), rotate(), revoke(), bootstrap()).
THEOREM SignerIsOne == Spec => []OneSigner
<1>1. IInv => OneSigner BY DEF IInv
<1> QED BY <1>1, Inductive, PTL

\* While the operator keeps the rules, no rotation and no restart orphans a
\* receipt (exportRetiredKeys(), _loadRetired()).
THEOREM NoOrphan == Spec => []ReceiptsVerify
<1>1. IInv => ReceiptsVerify
  BY DEF IInv, TypeOK, Marked, Kept, ReceiptsVerify, Verifies
<1> QED BY <1>1, Inductive, PTL

\* While the operator keeps the rules, a revoked kid stays revoked through
\* rotations and restarts.
THEOREM RevokedForEver == Spec => []RevokedStays
<1>1. IInv => RevokedStays BY DEF IInv, Kept, RevokedStays
<1> QED BY <1>1, Inductive, PTL
=============================================================================
