------------------------------ MODULE Keystore ------------------------------
(***************************************************************************)
(* core/receipt-keystore.js, as makeConfiguredKeystore() of api/server.js  *)
(* builds it: the registry of receipt-signing keys, which lives in one     *)
(* process, and the operator's configuration, which is all that the next   *)
(* process knows.  A key is a name for its public half.  The process may   *)
(* end between any two steps.                                              *)
(***************************************************************************)
EXTENDS Naturals

CONSTANTS Kids, Keys, NoKid, NoKey

ASSUME KeystoreAssumption == NoKid \notin Kids /\ NoKey \notin Keys

VARIABLES
  up,         \* a process runs
  registry,   \* kid -> its key, whether the private half is here, its status
  activeKid,
  config,     \* the operator's: kid and private key, retired keys, production
  generated,  \* keys whose private half was only ever in a process
  receipts,   \* history: the receipts issued, as the key each was signed with
  revoked,    \* history: the kids that were revoked
  careful     \* history: the operator has kept the rules so far

vars == <<up, registry, activeKid, config, generated, receipts, revoked, careful>>

Absent == [key |-> NoKey, private |-> FALSE, status |-> "absent"]
Published == [key : Keys, private : BOOLEAN, status : {"active", "retired", "revoked"}]
Nothing == [kid \in Kids |-> Absent]

\* What the JWKS and the export show of an entry: the public half only.
public(entry) == [key |-> entry.key, private |-> FALSE, status |-> entry.status]

Init ==
  /\ up = FALSE /\ registry = Nothing /\ activeKid = NoKid
  /\ \E kid \in Kids, key \in Keys \cup {NoKey}, production \in BOOLEAN :
       config = [kid |-> kid, key |-> key, retired |-> Nothing, production |-> production]
  /\ generated = {} /\ receipts = {} /\ revoked = {} /\ careful = TRUE
-----------------------------------------------------------------------------
\* _add() of an active key.
added(keys, kid, key) ==
  [keys EXCEPT ![kid] = [key |-> key, private |-> TRUE, status |-> "active"]]

\* A key that is generated is none of those in use.
Fresh(key) ==
  /\ key \notin generated \cup {config.key} \cup {r.key : r \in receipts}
  /\ \A kid \in Kids : key \notin {registry[kid].key, config.retired[kid].key}

\* Mutant: an entry that the JWKS calls active is skipped.
loadRetiredStrict(list) ==
  [kid \in Kids |-> IF list[kid].status = "active" THEN Absent ELSE list[kid]]

\* _loadRetired(): nothing from the configuration becomes active.
loadRetired(list) ==
  [kid \in Kids |-> IF list[kid].status = "active" THEN [list[kid] EXCEPT !.status = "retired"]
                    ELSE list[kid]]

\* bootstrap(): the retired keys first, then the signing key of the
\* configuration, or a generated one outside production.  A production process
\* without a key does not start (NO_SIGNING_KEY).
Boot ==
  /\ ~up /\ up' = TRUE
  /\ \E key \in Keys :
       /\ \/ key = config.key /\ UNCHANGED generated
          \/ /\ config.key = NoKey /\ ~config.production /\ Fresh(key)
             /\ generated' = generated \cup {key}
       /\ registry' = added(loadRetired(config.retired), config.kid, key)
  /\ activeKid' = config.kid
  /\ UNCHANGED <<config, receipts, revoked, careful>>

\* sign() and signBytes(): fail closed without an active key.
Sign ==
  /\ up /\ activeKid # NoKid /\ registry[activeKid].private
  /\ receipts' = receipts \cup {[kid |-> activeKid, key |-> registry[activeKid].key]}
  /\ UNCHANGED <<up, registry, activeKid, config, generated, revoked, careful>>

\* Mutant: the key that was active stays so.
stillActive == registry

retiring == IF activeKid = NoKid THEN registry ELSE [registry EXCEPT ![activeKid].status = "retired"]

\* Mutant: a revoked kid may be taken again.
Free(kid) == registry[kid].status # "active"

Usable(kid) == registry[kid].status \in {"absent", "retired"}

\* rotate(): a supplied key, which the operator has persisted somewhere, or a
\* generated one if the caller insists.  To take a retired kid again is allowed
\* by the code and forbidden to the operator (docs/DESIGN.md: "Never reuse a kid").
Rotate(kid, key) ==
  /\ up /\ Usable(kid)
  /\ \/ key \notin generated /\ UNCHANGED generated
     \/ Fresh(key) /\ generated' = generated \cup {key}
  /\ registry' = added(retiring, kid, key)
  /\ activeKid' = kid
  /\ careful' = (careful /\ registry[kid].status # "retired")
  /\ UNCHANGED <<up, config, receipts, revoked>>

\* revoke(): the key stays published, marked.
Revoke(kid) ==
  /\ up /\ registry[kid].status # "absent"
  /\ registry' = [registry EXCEPT ![kid].status = "revoked"]
  /\ activeKid' = IF activeKid = kid THEN NoKid ELSE activeKid
  /\ revoked' = revoked \cup {kid}
  /\ UNCHANGED <<up, config, generated, receipts, careful>>

jwks == [kid \in Kids |-> public(registry[kid])]

exportRetiredKeys ==
  [kid \in Kids |-> IF registry[kid].status = "active" THEN Absent ELSE public(registry[kid])]

\* The operator persists what the process publishes: the export, or the JWKS
\* itself, which bootstrap() takes as well.
SaveRetired(list) ==
  /\ up /\ config' = [config EXCEPT !.retired = list]
  /\ UNCHANGED <<up, registry, activeKid, generated, receipts, revoked, careful>>

\* The operator puts a signing key into the configuration (to do so after the
\* process has ended is the same as to do so just before).
SaveKey(kid, key) ==
  /\ up /\ key \notin generated
  /\ config' = [config EXCEPT !.kid = kid, !.key = key]
  /\ UNCHANGED <<up, registry, activeKid, generated, receipts, revoked, careful>>

(***************************************************************************)
(* The rules the process relies on at its end: the configuration has the   *)
(* key of every kid that was published, and says so of a revoked one and   *)
(* does not sign with it.                                                  *)
(***************************************************************************)
Carried(kid) ==
  /\ registry[kid].status \in {"active", "retired"} =>
       IF config.kid = kid THEN config.key = registry[kid].key
       ELSE /\ config.retired[kid].key = registry[kid].key
            /\ config.retired[kid].status # "revoked"
  /\ registry[kid].status = "revoked" =>
       config.kid # kid /\ config.retired[kid] = public(registry[kid])

\* The process ends.
Exit ==
  /\ up /\ up' = FALSE /\ registry' = Nothing /\ activeKid' = NoKid
  /\ careful' = (careful /\ \A kid \in Kids : Carried(kid))
  /\ UNCHANGED <<config, generated, receipts, revoked>>

Next ==
  \/ Boot \/ Sign \/ Exit
  \/ \E kid \in Kids : Revoke(kid) \/ \E key \in Keys : Rotate(kid, key) \/ SaveKey(kid, key)
  \/ SaveRetired(exportRetiredKeys) \/ SaveRetired(jwks)

Spec == Init /\ [][Next]_vars
-----------------------------------------------------------------------------
TypeOK ==
  /\ up \in BOOLEAN /\ careful \in BOOLEAN
  /\ registry \in [Kids -> Published \cup {Absent}]
  /\ activeKid \in Kids \cup {NoKid}
  /\ config \in [kid : Kids, key : Keys \cup {NoKey}, production : BOOLEAN,
                 retired : [Kids -> {e \in Published : ~e.private} \cup {Absent}]]
  /\ generated \subseteq Keys
  /\ receipts \subseteq [kid : Kids, key : Keys]
  /\ revoked \subseteq Kids

\* There is one active key at most, it is the one activeKid names, and its
\* private half is here; a kid whose status is anything else signs nothing.
OneSigner ==
  \A kid \in Kids :
    /\ registry[kid].status = "active" <=> activeKid = kid
    /\ registry[kid].status = "active" => registry[kid].private

\* core/cose.js verify() against the JWKS of the moment.
Verifies(r) == registry[r.kid].key = r.key /\ registry[r.kid].status # "revoked"

\* A receipt, once issued, verifies for ever, through rotations and restarts at
\* any point, unless its kid was revoked: what exportRetiredKeys() is for.
ReceiptsVerify ==
  careful /\ up => \A r \in receipts : Verifies(r) \/ r.kid \in revoked

\* A revoked kid is published as revoked for ever, and never signs again: no
\* rotation, and no restart with what was exported, takes it back.
RevokedStays ==
  careful /\ up => \A kid \in revoked : registry[kid].status = "revoked"
=============================================================================
