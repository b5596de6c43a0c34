---------------------------- MODULE McpGateProofs ----------------------------
(***************************************************************************)
(* Theorems about module McpGate, for every set of calls.  Calls do not    *)
(* touch one another, so the inductive invariant is stated of one call:    *)
(* what each step of its handler knows of Cosmos, of the human and of the  *)
(* POSTs that are still on their way.                                      *)
(***************************************************************************)
EXTENDS McpGate, TLAPS

Refusals == {"refused", "out of band", "failed closed", "approval failed", "invalid"}
Early == {"idle", "authorizing", "asking", "approving"}

AllowedFor(x) ==
  \/ decision[x] = "ALLOW"
  \/ /\ decision[x] = "ESCALATE" /\ resolution[x] = "ALLOW"
     /\ resolver[x] = "gate" /\ said[x] = "yes"

\* The handler: what it has told, and what it has sent upstream so far.
Handler(x) ==
  /\ pc[x] \in Early => upstream[x] = "untouched"
  /\ pc[x] # "done" => result[x] = "none"
  /\ result[x] \in Refusals => upstream[x] = "untouched"
  /\ upstream[x] # "untouched" /\ kind[x] # "free" => AllowedFor(x)
  /\ pc[x] \in {"idle", "authorizing"} => said[x] = "unasked"
  /\ pc[x] \in {"asking", "approving"} => said[x] # "unasked"

\* Cosmos: an escalation is resolved once, by the gate only as the human said.
Decisions(x) ==
  /\ pc[x] = "idle" => decision[x] = "none"
  /\ resolution[x] = "none" <=> resolver[x] = "none"
  /\ resolution[x] # "none" => decision[x] = "ESCALATE"
  /\ said[x] # "unasked" => decision[x] = "ESCALATE"
  /\ resolver[x] = "gate" => said[x] # "unasked" /\ pc[x] # "asking"
  /\ resolver[x] = "gate" /\ resolution[x] = "ALLOW" => said[x] = "yes"
  /\ result[x] = "out of band" => resolver[x] # "gate"
  /\ result[x] = "refused" =>
       decision[x] = "DENY" \/ (decision[x] = "ESCALATE" /\ resolution[x] = "DENY")

\* An answer that is waiting to be read is what Cosmos has on record.
Answers(x) ==
  reply[x] \notin {"none", "error"} =>
    \/ pc[x] = "authorizing" /\ decision[x] = reply[x]
    \/ /\ pc[x] = "approving" /\ reply[x] \in {"ALLOW", "DENY"}
       /\ resolution[x] = reply[x] /\ resolver[x] = "gate"

\* A POST that Cosmos has not seen yet decides nothing that was told, and asks
\* for what the human said.
Underway(x) ==
  \A post \in wire : post.call = x =>
    /\ result[x] # "out of band"
    /\ post.what = "authorize" => decision[x] = "none" /\ pc[x] # "idle"
    /\ post.what # "authorize" => said[x] # "unasked" /\ pc[x] # "asking"
    /\ post.what = "approve" => said[x] = "yes"

CallInv(x) == Handler(x) /\ Decisions(x) /\ Answers(x) /\ Underway(x)
IInv == TypeOK /\ \A x \in Calls : CallInv(x)

LEMMA InitIInv == Init => IInv
<1> SUFFICES ASSUME Init PROVE IInv
  OBVIOUS
<1>1. /\ up \in BOOLEAN /\ grant \in BOOLEAN /\ form \in BOOLEAN /\ wire = {} /\ exits = 0
  BY DEF Init
<1>2. /\ kind \in [Calls -> Kinds] /\ pc \in [Calls -> Places]
      /\ result \in [Calls -> Results]
      /\ said \in [Calls -> {"unasked", "asked", "yes", "no", "error"}]
  BY DEF Init, All, Kinds, Places, Results
<1>3. /\ reply \in [Calls -> {"none", "ALLOW", "DENY", "ESCALATE", "error"}]
      /\ decision \in [Calls -> {"none", "ALLOW", "DENY", "ESCALATE"}]
      /\ resolution \in [Calls -> {"none", "ALLOW", "DENY"}]
      /\ resolver \in [Calls -> {"none", "gate", "operator"}]
      /\ upstream \in [Calls -> {"untouched", "sent", "ran"}]
  BY DEF Init, All
<1>4. TypeOK
  BY <1>1, <1>2, <1>3, GateAssumption DEF TypeOK
<1>5. \A x \in Calls : CallInv(x)
  BY DEF Init, All, CallInv, Handler, Decisions, Answers, Underway, Early, Refusals
<1> QED BY <1>4, <1>5 DEF IInv
-----------------------------------------------------------------------------
(***************************************************************************)
(* A step that leaves a call alone: no new POST of it, and nothing of it   *)
(* changes at Cosmos, at the gate, at the client or upstream.              *)
(***************************************************************************)
Same(x) ==
  /\ kind'[x] = kind[x] /\ pc'[x] = pc[x] /\ result'[x] = result[x] /\ said'[x] = said[x]
  /\ reply'[x] = reply[x] /\ upstream'[x] = upstream[x]
  /\ decision'[x] = decision[x] /\ resolution'[x] = resolution[x] /\ resolver'[x] = resolver[x]
  /\ \A post \in wire' : post.call = x => post \in wire

LEMMA Frame == ASSUME NEW x \in Calls, CallInv(x), Same(x) PROVE CallInv(x)'
BY DEF Same, CallInv, Handler, Decisions, Answers, Underway, AllowedFor

(***************************************************************************)
(* A turn of a handler leaves Cosmos as it is and ends in one of four      *)
(* ways: it returns, it awaits a fetch, the human, or the upstream.        *)
(***************************************************************************)
Turn(c) ==
  /\ up' = up /\ grant' = grant /\ form' = form /\ exits' = exits
  /\ decision' = decision /\ resolution' = resolution /\ resolver' = resolver
  /\ kind' \in [Calls -> Kinds] /\ \A x \in Calls \ {c} : kind'[x] = kind[x]
  /\ reply' = reply \/ reply' = [reply EXCEPT ![c] = "none"]

Returns(c, r) ==
  Turn(c) /\ Return(c, r) /\ wire' = wire /\ said' = said /\ upstream' = upstream
AwaitsCosmos(c, what, at) ==
  Turn(c) /\ Fetch(c, what, at) /\ result' = result /\ said' = said /\ upstream' = upstream
AwaitsHuman(c) ==
  /\ Turn(c) /\ wire' = wire /\ result' = result /\ upstream' = upstream
  /\ pc' = [pc EXCEPT ![c] = "asking"] /\ said' = [said EXCEPT ![c] = "asked"]
AwaitsUpstream(c) ==
  Turn(c) /\ CallTool(c) /\ wire' = wire /\ result' = result /\ said' = said

LEMMA TurnTypes ==
  ASSUME IInv, NEW c \in Calls, Turn(c),
         pc' \in [Calls -> Places], result' \in [Calls -> Results], wire' \subseteq Posts,
         upstream' \in [Calls -> {"untouched", "sent", "ran"}],
         said' \in [Calls -> {"unasked", "asked", "yes", "no", "error"}]
  PROVE  TypeOK'
<1>1. reply' \in [Calls -> {"none", "ALLOW", "DENY", "ESCALATE", "error"}]
  BY DEF Turn, IInv, TypeOK
<1> QED BY <1>1 DEF Turn, IInv, TypeOK

\* What is left to show of a turn of c is about c.
LEMMA TurnStep ==
  ASSUME IInv, NEW c \in Calls, Turn(c), TypeOK', CallInv(c)',
         \A x \in Calls \ {c} :
           /\ pc'[x] = pc[x] /\ result'[x] = result[x]
           /\ said'[x] = said[x] /\ upstream'[x] = upstream[x],
         \A post \in wire' : post \in wire \/ post.call = c
  PROVE  IInv'
<1>1. ASSUME NEW x \in Calls \ {c} PROVE CallInv(x)'
  <2>1. reply'[x] = reply[x]
    BY DEF Turn, IInv, TypeOK
  <2>2. Same(x)
    BY <2>1 DEF Turn, Same
  <2> QED BY <2>2, Frame DEF IInv
<1> QED BY <1>1 DEF IInv

(***************************************************************************)
(* It returns: a refusal is of a call that was not sent, an escalation is  *)
(* left to others with no POST of it under way, and a denial is Cosmos's.  *)
(***************************************************************************)
LEMMA ReturnStep ==
  ASSUME IInv, NEW c \in Calls, NEW r \in Results, Returns(c, r),
         r \in Refusals => upstream[c] = "untouched",
         r = "out of band" =>
           resolver[c] # "gate" /\ \A post \in wire : post.call # c,
         r = "refused" =>
           decision[c] = "DENY" \/ (decision[c] = "ESCALATE" /\ resolution[c] = "DENY"),
         pc[c] \in {"authorizing", "approving"} => reply'[c] = "none",
         kind'[c] = kind[c] \/ upstream[c] = "untouched"
  PROVE  IInv'
<1>1. /\ pc \in [Calls -> Places] /\ result \in [Calls -> Results] /\ wire \subseteq Posts
      /\ upstream \in [Calls -> {"untouched", "sent", "ran"}]
      /\ said \in [Calls -> {"unasked", "asked", "yes", "no", "error"}]
      /\ reply \in [Calls -> {"none", "ALLOW", "DENY", "ESCALATE", "error"}]
      /\ CallInv(c)
  BY DEF IInv, TypeOK
<1>2. /\ pc' \in [Calls -> Places] /\ result' \in [Calls -> Results]
      /\ pc'[c] = "done" /\ result'[c] = r
      /\ \A x \in Calls \ {c} : pc'[x] = pc[x] /\ result'[x] = result[x]
  BY <1>1 DEF Returns, Return, Places
<1>3. TypeOK'
  BY <1>1, <1>2, TurnTypes DEF Returns
<1>4. /\ said'[c] = said[c] /\ upstream'[c] = upstream[c] /\ wire' = wire
      /\ decision'[c] = decision[c] /\ resolution'[c] = resolution[c] /\ resolver'[c] = resolver[c]
      /\ reply'[c] \in {reply[c], "none"}
  BY <1>1 DEF Returns, Turn
<1>5. Handler(c)'
  BY <1>1, <1>2, <1>4 DEF CallInv, Handler, AllowedFor, Early
<1>6. Decisions(c)'
  BY <1>1, <1>2, <1>4 DEF CallInv, Decisions
<1>7. Answers(c)'
  BY <1>1, <1>2, <1>4 DEF CallInv, Answers
<1>8. Underway(c)'
  BY <1>1, <1>2, <1>4 DEF CallInv, Underway
<1> QED BY <1>2, <1>3, <1>5, <1>6, <1>7, <1>8, TurnStep DEF Returns, CallInv

\* It awaits the upstream: the call is free, or allowed.
LEMMA AwaitUpstreamStep ==
  ASSUME IInv, NEW c \in Calls, AwaitsUpstream(c),
         pc[c] # "done",
         \/ kind'[c] = "free" /\ pc[c] = "idle"
         \/ AllowedFor(c) /\ said[c] # "asked" /\ reply'[c] = "none"
  PROVE  IInv'
<1>1. /\ pc \in [Calls -> Places] /\ result \in [Calls -> Results] /\ wire \subseteq Posts
      /\ upstream \in [Calls -> {"untouched", "sent", "ran"}]
      /\ said \in [Calls -> {"unasked", "asked", "yes", "no", "error"}]
      /\ reply \in [Calls -> {"none", "ALLOW", "DENY", "ESCALATE", "error"}]
      /\ CallInv(c)
  BY DEF IInv, TypeOK
<1>2. /\ pc' \in [Calls -> Places] /\ pc'[c] = "forwarding"
      /\ upstream' \in [Calls -> {"untouched", "sent", "ran"}]
      /\ \A x \in Calls \ {c} : pc'[x] = pc[x] /\ upstream'[x] = upstream[x]
  BY <1>1 DEF AwaitsUpstream, CallTool, Places, Waiting
<1>3. TypeOK'
  BY <1>1, <1>2, TurnTypes DEF AwaitsUpstream
<1>4. /\ said'[c] = said[c] /\ result'[c] = result[c] /\ result[c] = "none" /\ wire' = wire
      /\ decision'[c] = decision[c] /\ resolution'[c] = resolution[c] /\ resolver'[c] = resolver[c]
      /\ reply'[c] \in {reply[c], "none"}
  BY <1>1 DEF AwaitsUpstream, Turn, CallInv, Handler
<1>5. Handler(c)'
  BY <1>1, <1>2, <1>4 DEF CallInv, Handler, AllowedFor, Early, Refusals
<1>6. Decisions(c)'
  BY <1>1, <1>2, <1>4 DEF CallInv, Decisions
<1>7. Answers(c)'
  BY <1>1, <1>2, <1>4 DEF CallInv, Answers
<1>8. Underway(c)'
  BY <1>1, <1>2, <1>4 DEF CallInv, Underway
<1> QED BY <1>2, <1>3, <1>5, <1>6, <1>7, <1>8, TurnStep DEF AwaitsUpstream, CallInv

\* It awaits the human: the call was escalated.
LEMMA AwaitHumanStep ==
  ASSUME IInv, NEW c \in Calls, AwaitsHuman(c),
         pc[c] = "authorizing", decision[c] = "ESCALATE", kind'[c] = kind[c], reply'[c] = "none"
  PROVE  IInv'
<1>1. /\ pc \in [Calls -> Places] /\ result \in [Calls -> Results] /\ wire \subseteq Posts
      /\ upstream \in [Calls -> {"untouched", "sent", "ran"}]
      /\ said \in [Calls -> {"unasked", "asked", "yes", "no", "error"}]
      /\ reply \in [Calls -> {"none", "ALLOW", "DENY", "ESCALATE", "error"}]
      /\ CallInv(c)
  BY DEF IInv, TypeOK
<1>2. /\ pc' \in [Calls -> Places] /\ pc'[c] = "asking"
      /\ said' \in [Calls -> {"unasked", "asked", "yes", "no", "error"}] /\ said'[c] = "asked"
      /\ \A x \in Calls \ {c} : pc'[x] = pc[x] /\ said'[x] = said[x]
  BY <1>1 DEF AwaitsHuman, Places, Waiting
<1>3. TypeOK'
  BY <1>1, <1>2, TurnTypes DEF AwaitsHuman
<1>4. /\ upstream'[c] = upstream[c] /\ result'[c] = result[c] /\ wire' = wire
      /\ decision'[c] = decision[c] /\ resolution'[c] = resolution[c] /\ resolver'[c] = resolver[c]
  BY <1>1 DEF AwaitsHuman, Turn
<1>5. Handler(c)'
  BY <1>1, <1>2, <1>4 DEF CallInv, Handler, AllowedFor, Early, Refusals
<1>6. Decisions(c)'
  BY <1>1, <1>2, <1>4 DEF CallInv, Handler, Decisions
<1>7. Answers(c)'
  BY <1>1, <1>2, <1>4 DEF CallInv, Answers
<1>8. Underway(c)'
  BY <1>1, <1>2, <1>4 DEF CallInv, Handler, Underway
<1> QED BY <1>2, <1>3, <1>5, <1>6, <1>7, <1>8, TurnStep DEF AwaitsHuman, CallInv

\* It awaits Cosmos: of a new call, or of what the human said.
LEMMA AwaitCosmosStep ==
  ASSUME IInv, NEW c \in Calls,
         NEW what \in {"authorize", "approve", "deny"}, NEW at \in {"authorizing", "approving"},
         AwaitsCosmos(c, what, at),
         \/ pc[c] = "idle" /\ what = "authorize" /\ at = "authorizing"
         \/ /\ pc[c] = "asking" /\ what # "authorize" /\ at = "approving" /\ kind'[c] = kind[c]
            /\ what = "approve" => said[c] = "yes"
  PROVE  IInv'
<1>1. /\ pc \in [Calls -> Places] /\ result \in [Calls -> Results] /\ wire \subseteq Posts
      /\ upstream \in [Calls -> {"untouched", "sent", "ran"}]
      /\ said \in [Calls -> {"unasked", "asked", "yes", "no", "error"}]
      /\ reply \in [Calls -> {"none", "ALLOW", "DENY", "ESCALATE", "error"}]
      /\ CallInv(c)
  BY DEF IInv, TypeOK
<1> DEFINE new == [call |-> c, what |-> what]
<1>2. /\ pc' \in [Calls -> Places] /\ pc'[c] = at
      /\ \A x \in Calls \ {c} : pc'[x] = pc[x]
  BY <1>1 DEF AwaitsCosmos, Fetch, Places, Waiting
<1>3. /\ wire' = wire \cup {new} /\ new \in Posts /\ new.call = c /\ new.what = what
  BY DEF AwaitsCosmos, Fetch, Posts
<1>4. /\ wire' \subseteq Posts
      /\ \A post \in wire' : post \in wire \/ post.call = c
  BY <1>1, <1>3
<1>5. TypeOK'
  BY <1>1, <1>2, <1>4, TurnTypes DEF AwaitsCosmos
<1>6. /\ upstream'[c] = upstream[c] /\ result'[c] = result[c] /\ said'[c] = said[c]
      /\ decision'[c] = decision[c] /\ resolution'[c] = resolution[c] /\ resolver'[c] = resolver[c]
      /\ reply'[c] \in {reply[c], "none"}
  BY <1>1 DEF AwaitsCosmos, Turn
<1>7. Handler(c)'
  BY <1>1, <1>2, <1>6 DEF CallInv, Handler, AllowedFor, Early, Refusals
<1>8. Decisions(c)'
  BY <1>1, <1>2, <1>6 DEF CallInv, Decisions
<1>9. Answers(c)'
  BY <1>1, <1>2, <1>6 DEF CallInv, Answers
<1>10. ASSUME NEW post \in wire', post.call = c
       PROVE  /\ result'[c] # "out of band"
              /\ post.what = "authorize" => decision'[c] = "none" /\ pc'[c] # "idle"
              /\ post.what # "authorize" => said'[c] # "unasked" /\ pc'[c] # "asking"
              /\ post.what = "approve" => said'[c] = "yes"
  <2>1. result'[c] = "none"
    BY <1>1, <1>6 DEF CallInv, Handler
  <2>2. CASE post = new
    BY <1>1, <1>2, <1>3, <1>6, <2>1, <2>2 DEF CallInv, Handler, Decisions
  <2>3. CASE post \in wire
    BY <1>1, <1>2, <1>6, <1>10, <2>1, <2>3 DEF CallInv, Handler, Decisions, Underway
  <2> QED BY <1>3, <2>2, <2>3
<1>11. Underway(c)'
  BY <1>10 DEF Underway
<1> QED BY <1>2, <1>4, <1>5, <1>7, <1>8, <1>9, <1>11, TurnStep DEF AwaitsCosmos, CallInv

-----------------------------------------------------------------------------
(***************************************************************************)
(* The turns, one by one.                                                  *)
(***************************************************************************)
LEMMA ToolsCallStep ==
  ASSUME IInv, NEW c \in Calls, NEW k \in Kinds, ToolsCall(c, k) PROVE IInv'
<1>1. /\ pc[c] = "idle" /\ kind \in [Calls -> Kinds] /\ CallInv(c)
      /\ reply \in [Calls -> {"none", "ALLOW", "DENY", "ESCALATE", "error"}]
  BY DEF ToolsCall, IInv, TypeOK
<1>2. /\ kind'[c] = k /\ kind' \in [Calls -> Kinds] /\ \A x \in Calls \ {c} : kind'[x] = kind[x]
  BY <1>1 DEF ToolsCall
<1>3. Turn(c) /\ said' = said
  BY <1>2 DEF ToolsCall, Turn, client, cosmos
<1>4. upstream[c] = "untouched" /\ said[c] = "unasked"
  BY <1>1 DEF CallInv, Handler, Early
<1>5. CASE k \in {"unknown", "malformed"} \/ (k # "free" /\ ~grant)
  <2> DEFINE r == IF k = "unknown" THEN "unknown tool"
                  ELSE IF k = "malformed" THEN "invalid" ELSE "failed closed"
  <2>1. Returns(c, r)
    BY <1>3, <1>5 DEF ToolsCall, Returns
  <2>2. r \in Results /\ r # "out of band" /\ r # "refused"
    BY DEF Results
  <2> HIDE DEF r
  <2> QED BY <1>1, <1>4, <2>1, <2>2, ReturnStep
<1>6. CASE k = "free"
  <2>1. AwaitsUpstream(c)
    BY <1>3, <1>6 DEF ToolsCall, AwaitsUpstream
  <2>2. kind'[c] = "free" /\ pc[c] = "idle"
    BY <1>1, <1>2, <1>6
  <2> QED BY <2>1, <2>2, AwaitUpstreamStep
<1>7. CASE k \in {"priced", "unpriceable", "cosmos_authorize"} /\ grant
  <2>1. AwaitsCosmos(c, "authorize", "authorizing")
    BY <1>3, <1>7 DEF ToolsCall, AwaitsCosmos
  <2> QED BY <1>1, <2>1, AwaitCosmosStep
<1> QED BY <1>5, <1>6, <1>7 DEF Kinds

\* A fetch was answered: the answer is Cosmos's, and is acted upon once.
LEMMA AnswerIsRead ==
  ASSUME IInv, NEW c \in Calls, reply' = [reply EXCEPT ![c] = "none"],
         up' = up, grant' = grant, form' = form, kind' = kind, exits' = exits,
         decision' = decision, resolution' = resolution, resolver' = resolver
  PROVE  Turn(c) /\ reply'[c] = "none" /\ kind'[c] = kind[c]
BY DEF Turn, IInv, TypeOK

LEMMA AuthorizedStep == ASSUME IInv, NEW c \in Calls, Authorized(c) PROVE IInv'
<1>1. pc[c] = "authorizing" /\ wire' = wire /\ CallInv(c)
  BY DEF Authorized, IInv
<1>2. Turn(c) /\ reply'[c] = "none" /\ kind'[c] = kind[c]
  BY AnswerIsRead DEF Authorized, cosmos
<1>3. /\ upstream[c] = "untouched" /\ said[c] = "unasked" /\ result[c] = "none"
      /\ resolver[c] # "gate"
  BY <1>1 DEF CallInv, Handler, Decisions, Early
<1>4. CASE reply[c] = "error" \/ kind[c] = "cosmos_authorize"
  <2> DEFINE r == IF reply[c] = "error" THEN "failed closed" ELSE "reported"
  <2>1. Returns(c, r)
    BY <1>1, <1>2, <1>4 DEF Authorized, Returns
  <2>2. r \in Results /\ r # "out of band" /\ r # "refused"
    BY DEF Results
  <2> HIDE DEF r
  <2> QED BY <1>2, <1>3, <2>1, <2>2, ReturnStep
<1>5. CASE reply[c] # "error" /\ kind[c] # "cosmos_authorize"
  <2>1. ActOn(c, reply[c]) /\ decision[c] = reply[c]
    BY <1>1, <1>5 DEF Authorized, CallInv, Answers
  <2>2. CASE reply[c] = "ALLOW"
    <3>1. AwaitsUpstream(c)
      BY <1>1, <1>2, <2>1, <2>2 DEF ActOn, AwaitsUpstream
    <3> QED BY <1>1, <1>2, <1>3, <2>1, <2>2, <3>1, AwaitUpstreamStep DEF AllowedFor
  <2>3. CASE reply[c] = "DENY"
    <3>1. Returns(c, "refused")
      BY <1>1, <1>2, <2>1, <2>3 DEF ActOn, Returns
    <3> QED BY <1>2, <1>3, <2>1, <2>3, <3>1, ReturnStep DEF Results
  <2>4. CASE reply[c] = "ESCALATE" /\ form
    <3>1. AwaitsHuman(c)
      BY <1>1, <1>2, <2>1, <2>4 DEF ActOn, AwaitsHuman
    <3> QED BY <1>1, <1>2, <2>1, <2>4, <3>1, AwaitHumanStep
  <2>5. CASE reply[c] = "ESCALATE" /\ ~form
    <3>1. Returns(c, "out of band")
      BY <1>1, <1>2, <2>1, <2>5 DEF ActOn, Returns
    <3>2. \A post \in wire : post.call # c
      BY <1>1, <1>3, <2>1, <2>5 DEF CallInv, Underway
    <3> QED BY <1>2, <1>3, <3>1, <3>2, ReturnStep DEF Results
  <2> QED BY <2>1, <2>2, <2>3, <2>4, <2>5 DEF ActOn
<1> QED BY <1>4, <1>5

LEMMA ApprovedStep == ASSUME IInv, NEW c \in Calls, Approved(c) PROVE IInv'
<1>1. pc[c] = "approving" /\ reply[c] # "none" /\ wire' = wire /\ CallInv(c)
  BY DEF Approved, IInv
<1>2. Turn(c) /\ reply'[c] = "none" /\ kind'[c] = kind[c]
  BY AnswerIsRead DEF Approved, cosmos
<1>3. upstream[c] = "untouched" /\ decision[c] = "ESCALATE"
  BY <1>1 DEF CallInv, Handler, Decisions, Early
<1>4. CASE reply[c] = "error"
  <2>1. Returns(c, "approval failed")
    BY <1>1, <1>2, <1>4 DEF Approved, ActOn, Returns
  <2> QED BY <1>2, <1>3, <2>1, ReturnStep DEF Results
<1>5. CASE reply[c] # "error"
  <2>1. /\ ActOn(c, reply[c]) /\ reply[c] \in {"ALLOW", "DENY"}
        /\ resolution[c] = reply[c] /\ resolver[c] = "gate"
    BY <1>1, <1>5 DEF Approved, CallInv, Answers
  <2>2. CASE reply[c] = "ALLOW"
    <3>1. AwaitsUpstream(c)
      BY <1>1, <1>2, <2>1, <2>2 DEF ActOn, AwaitsUpstream
    <3>2. said[c] = "yes" /\ AllowedFor(c)
      BY <1>1, <1>3, <2>1, <2>2 DEF CallInv, Decisions, AllowedFor
    <3> QED BY <1>1, <1>2, <3>1, <3>2, AwaitUpstreamStep
  <2>3. CASE reply[c] = "DENY"
    <3>1. Returns(c, "refused")
      BY <1>1, <1>2, <2>1, <2>3 DEF ActOn, Returns
    <3> QED BY <1>2, <1>3, <2>1, <2>3, <3>1, ReturnStep DEF Results
  <2> QED BY <2>1, <2>2, <2>3
<1> QED BY <1>4, <1>5

\* While the human is asked, no POST of the call is under way.
LEMMA Asking ==
  ASSUME IInv, NEW c \in Calls, pc[c] = "asking"
  PROVE  /\ upstream[c] = "untouched" /\ resolver[c] # "gate"
         /\ \A post \in wire : post.call # c
BY DEF IInv, CallInv, Handler, Decisions, Underway, Early

LEMMA ReadAnswerStep == ASSUME IInv, NEW c \in Calls, ReadAnswer(c) PROVE IInv'
<1>1. Turn(c) /\ pc[c] = "asking" /\ said' = said /\ upstream' = upstream /\ kind' = kind
  BY DEF ReadAnswer, Turn, client, cosmos, IInv, TypeOK
<1>2. CASE said[c] = "error"
  <2>1. Returns(c, "out of band")
    BY <1>1, <1>2 DEF ReadAnswer, Returns
  <2> QED BY <1>1, <2>1, Asking, ReturnStep DEF Results
<1>3. CASE said[c] = "yes"
  <2>1. AwaitsCosmos(c, "approve", "approving")
    BY <1>1, <1>3 DEF ReadAnswer, AwaitsCosmos
  <2> QED BY <1>1, <1>3, <2>1, AwaitCosmosStep
<1>4. CASE said[c] = "no"
  <2>1. AwaitsCosmos(c, "deny", "approving")
    BY <1>1, <1>4 DEF ReadAnswer, AwaitsCosmos
  <2> QED BY <1>1, <1>4, <2>1, AwaitCosmosStep
<1> QED BY <1>2, <1>3, <1>4 DEF ReadAnswer

LEMMA AskTimeoutStep == ASSUME IInv, NEW c \in Calls, AskTimeout(c) PROVE IInv'
<1>1. Turn(c) /\ pc[c] = "asking" /\ kind' = kind
  BY DEF AskTimeout, Turn, client, cosmos, IInv, TypeOK
<1>2. Returns(c, "out of band")
  BY <1>1 DEF AskTimeout, Returns, client
<1> QED BY <1>1, <1>2, Asking, ReturnStep DEF Results

LEMMA FetchFailsStep == ASSUME IInv, NEW c \in Calls, FetchFails(c) PROVE IInv'
<1> DEFINE r == IF pc[c] = "authorizing" THEN "failed closed" ELSE "approval failed"
<1>1. Turn(c) /\ reply'[c] = "none" /\ kind'[c] = kind[c]
  BY AnswerIsRead DEF FetchFails, client, cosmos
<1>2. Returns(c, r)
  BY <1>1 DEF FetchFails, Returns, client
<1>3. upstream[c] = "untouched"
  BY DEF FetchFails, IInv, CallInv, Handler, Early
<1>4. r \in Results /\ r # "out of band" /\ r # "refused"
  BY DEF Results
<1> HIDE DEF r
<1> QED BY <1>1, <1>2, <1>3, <1>4, ReturnStep

LEMMA ForwardingStep ==
  ASSUME IInv, NEW c \in Calls, UpstreamAnswers(c) \/ UpstreamTimeout(c) PROVE IInv'
<1>1. Turn(c) /\ pc[c] = "forwarding" /\ kind' = kind
  BY DEF UpstreamAnswers, UpstreamTimeout, Turn, client, cosmos, IInv, TypeOK
<1>2. PICK r \in {"answered", "upstream timeout"} : Returns(c, r)
  BY <1>1 DEF UpstreamAnswers, UpstreamTimeout, Returns, client
<1> QED BY <1>1, <1>2, ReturnStep DEF Results, Refusals
-----------------------------------------------------------------------------
(***************************************************************************)
(* The peers' steps.                                                       *)
(***************************************************************************)
LEMMA HumanStep ==
  ASSUME IInv, NEW c \in Calls, NEW answer \in {"yes", "no", "error"}, Human(c, answer)
  PROVE  IInv'
<1>1. /\ said[c] = "asked" /\ said' = [said EXCEPT ![c] = answer]
      /\ kind' = kind /\ pc' = pc /\ result' = result /\ wire' = wire /\ reply' = reply
      /\ decision' = decision /\ resolution' = resolution /\ resolver' = resolver
      /\ upstream' = upstream
  BY DEF Human, cosmos
<1>2. TypeOK'
  <2>1. said' \in [Calls -> {"unasked", "asked", "yes", "no", "error"}]
    BY <1>1 DEF IInv, TypeOK
  <2>2. up' = up /\ grant' = grant /\ form' = form /\ exits' = exits
    BY DEF Human
  <2> QED BY <1>1, <2>1, <2>2 DEF IInv, TypeOK
<1>3. ASSUME NEW x \in Calls PROVE CallInv(x)'
  <2>1. CallInv(x) /\ said \in [Calls -> {"unasked", "asked", "yes", "no", "error"}]
    BY DEF IInv, TypeOK
  <2>2. CASE x # c
    BY <1>1, <2>1, <2>2, Frame DEF Same
  <2>3. CASE x = c
    BY <1>1, <2>1, <2>3 DEF CallInv, Handler, Decisions, Answers, Underway, AllowedFor
  <2> QED BY <2>2, <2>3
<1> QED BY <1>2, <1>3 DEF IInv

LEMMA UpstreamRunsStep == ASSUME IInv, NEW c \in Calls, UpstreamRuns(c) PROVE IInv'
<1>1. /\ upstream[c] = "sent" /\ upstream' = [upstream EXCEPT ![c] = "ran"]
      /\ kind' = kind /\ pc' = pc /\ result' = result /\ wire' = wire /\ reply' = reply
      /\ decision' = decision /\ resolution' = resolution /\ resolver' = resolver
      /\ said' = said
  BY DEF UpstreamRuns, cosmos, client
<1>2. TypeOK'
  <2>1. upstream' \in [Calls -> {"untouched", "sent", "ran"}]
    BY <1>1 DEF IInv, TypeOK
  <2>2. up' = up /\ grant' = grant /\ form' = form /\ exits' = exits
    BY DEF UpstreamRuns, client
  <2> QED BY <1>1, <2>1, <2>2 DEF IInv, TypeOK
<1>3. ASSUME NEW x \in Calls PROVE CallInv(x)'
  <2>1. CallInv(x) /\ upstream \in [Calls -> {"untouched", "sent", "ran"}]
    BY DEF IInv, TypeOK
  <2>2. CASE x # c
    BY <1>1, <2>1, <2>2, Frame DEF Same
  <2>3. CASE x = c
    BY <1>1, <2>1, <2>3 DEF CallInv, Handler, Decisions, Answers, Underway, AllowedFor
  <2> QED BY <2>2, <2>3
<1> QED BY <1>2, <1>3 DEF IInv

LEMMA OperatorStep ==
  ASSUME IInv, NEW c \in Calls, NEW d \in {"ALLOW", "DENY"}, Operator(c, d) PROVE IInv'
<1>1. /\ decision[c] = "ESCALATE" /\ resolution[c] = "none" /\ decision' = decision
      /\ resolution' = [resolution EXCEPT ![c] = d]
      /\ resolver' = [resolver EXCEPT ![c] = "operator"]
      /\ kind' = kind /\ pc' = pc /\ result' = result /\ wire' = wire /\ reply' = reply
      /\ upstream' = upstream /\ said' = said
  BY DEF Operator, Escalated, Resolve, client
<1>2. TypeOK'
  <2>1. /\ resolution' \in [Calls -> {"none", "ALLOW", "DENY"}]
        /\ resolver' \in [Calls -> {"none", "gate", "operator"}]
    BY <1>1 DEF IInv, TypeOK
  <2>2. up' = up /\ grant' = grant /\ form' = form /\ exits' = exits
    BY DEF Operator, client
  <2> QED BY <1>1, <2>1, <2>2 DEF IInv, TypeOK
<1>3. ASSUME NEW x \in Calls PROVE CallInv(x)'
  <2>1. /\ CallInv(x)
        /\ resolution \in [Calls -> {"none", "ALLOW", "DENY"}]
        /\ resolver \in [Calls -> {"none", "gate", "operator"}]
    BY DEF IInv, TypeOK
  <2>2. CASE x # c
    BY <1>1, <2>1, <2>2, Frame DEF Same
  <2>3. CASE x = c
    <3>1. resolver[c] = "none" /\ resolver'[c] = "operator" /\ resolution'[c] = d
      BY <1>1, <2>1, <2>3 DEF CallInv, Decisions
    <3>2. Handler(c)'
      BY <1>1, <2>1, <2>3 DEF CallInv, Handler, AllowedFor
    <3>3. Decisions(c)'
      BY <1>1, <2>1, <2>3, <3>1 DEF CallInv, Decisions
    <3>4. Answers(c)'
      BY <1>1, <2>1, <2>3, <3>1 DEF CallInv, Answers
    <3>5. Underway(c)'
      BY <1>1, <2>1, <2>3 DEF CallInv, Underway
    <3> QED BY <2>3, <3>2, <3>3, <3>4, <3>5 DEF CallInv
  <2> QED BY <2>2, <2>3
<1> QED BY <1>2, <1>3 DEF IInv

\* Cosmos answers the fetch that waits for it, if one does.
LEMMA ReplyTypes ==
  ASSUME IInv, NEW c \in Calls, NEW at, NEW r \in {"ALLOW", "DENY", "ESCALATE", "error"},
         Reply(c, at, r)
  PROVE  /\ reply' \in [Calls -> {"none", "ALLOW", "DENY", "ESCALATE", "error"}]
         /\ reply'[c] = IF pc[c] = at THEN r ELSE reply[c]
         /\ \A x \in Calls \ {c} : reply'[x] = reply[x]
BY DEF Reply, IInv, TypeOK

\* What holds of any step of Cosmos's on a POST of c.
LEMMA CosmosStep ==
  ASSUME IInv, NEW post \in wire, NEW d \in {"ALLOW", "DENY", "ESCALATE", "error"},
         CosmosHandles(post, d)
  PROVE  /\ post.call \in Calls /\ post.what \in {"authorize", "approve", "deny"}
         /\ wire' = wire \ {post} /\ up' = up /\ grant' = grant /\ form' = form
         /\ kind' = kind /\ pc' = pc /\ result' = result /\ said' = said
         /\ upstream' = upstream /\ exits' = exits
         /\ reply' \in [Calls -> {"none", "ALLOW", "DENY", "ESCALATE", "error"}]
         /\ \A x \in Calls \ {post.call} : reply'[x] = reply[x]
<1>1. post.call \in Calls /\ post.what \in {"authorize", "approve", "deny"}
  BY DEF IInv, TypeOK, Posts
<1>2. \E at \in {"authorizing", "approving"} : Reply(post.call, at, d)
  BY DEF CosmosHandles
<1>3. /\ reply' \in [Calls -> {"none", "ALLOW", "DENY", "ESCALATE", "error"}]
      /\ \A x \in Calls \ {post.call} : reply'[x] = reply[x]
  BY <1>1, <1>2, ReplyTypes
<1> QED BY <1>1, <1>3 DEF CosmosHandles, client

LEMMA CosmosHandlesStep ==
  ASSUME IInv, NEW post \in wire, NEW d \in {"ALLOW", "DENY", "ESCALATE", "error"},
         CosmosHandles(post, d)
  PROVE  IInv'
<1> DEFINE c == post.call
<1>1. /\ c \in Calls /\ post.what \in {"authorize", "approve", "deny"}
      /\ wire' = wire \ {post} /\ up' = up /\ grant' = grant /\ form' = form
      /\ kind' = kind /\ pc' = pc /\ result' = result /\ said' = said
      /\ upstream' = upstream /\ exits' = exits
      /\ reply' \in [Calls -> {"none", "ALLOW", "DENY", "ESCALATE", "error"}]
      /\ \A x \in Calls \ {c} : reply'[x] = reply[x]
  BY CosmosStep
<1>2. /\ decision \in [Calls -> {"none", "ALLOW", "DENY", "ESCALATE"}]
      /\ resolution \in [Calls -> {"none", "ALLOW", "DENY"}]
      /\ resolver \in [Calls -> {"none", "gate", "operator"}]
      /\ CallInv(c)
  BY <1>1 DEF IInv, TypeOK
<1>3. /\ result[c] # "out of band"
      /\ post.what = "authorize" => decision[c] = "none" /\ pc[c] # "idle"
      /\ post.what # "authorize" => said[c] # "unasked" /\ pc[c] # "asking"
      /\ post.what = "approve" => said[c] = "yes"
  BY <1>2 DEF CallInv, Underway
<1>4. SUFFICES /\ decision' \in [Calls -> {"none", "ALLOW", "DENY", "ESCALATE"}]
               /\ resolution' \in [Calls -> {"none", "ALLOW", "DENY"}]
               /\ resolver' \in [Calls -> {"none", "gate", "operator"}]
               /\ \A x \in Calls \ {c} :
                    /\ decision'[x] = decision[x] /\ resolution'[x] = resolution[x]
                    /\ resolver'[x] = resolver[x]
               /\ CallInv(c)'
  <2>1. TypeOK'
    BY <1>1, <1>4 DEF IInv, TypeOK
  <2>2. ASSUME NEW x \in Calls \ {c} PROVE CallInv(x)'
    <3>1. Same(x)
      BY <1>1, <1>4 DEF Same
    <3> QED BY <3>1, Frame DEF IInv
  <2> QED BY <1>4, <2>1, <2>2 DEF IInv
<1> HIDE DEF c
<1>5. CASE d = "error"
  <2>1. decision' = decision /\ resolution' = resolution /\ resolver' = resolver
    BY <1>5 DEF CosmosHandles, cosmos
  <2>2. reply'[c] \in {"error", reply[c]}
    BY <1>1, <1>5, ReplyTypes DEF CosmosHandles, c
  <2>3. Handler(c)' /\ Decisions(c)'
    BY <1>1, <1>2, <2>1 DEF CallInv, Handler, Decisions, AllowedFor
  <2>4. Answers(c)'
    BY <1>1, <1>2, <2>1, <2>2 DEF CallInv, Answers
  <2>5. Underway(c)'
    BY <1>1, <1>2, <2>1 DEF CallInv, Underway
  <2> QED BY <1>2, <2>1, <2>3, <2>4, <2>5 DEF CallInv
<1>6. CASE post.what = "authorize" /\ d # "error"
  <2>1. /\ decision' = [decision EXCEPT ![c] = d] /\ d \in {"ALLOW", "DENY", "ESCALATE"}
        /\ resolution' = resolution /\ resolver' = resolver /\ Reply(c, "authorizing", d)
    BY <1>6 DEF CosmosHandles, c
  <2>2. /\ decision'[c] = d
        /\ decision' \in [Calls -> {"none", "ALLOW", "DENY", "ESCALATE"}]
        /\ \A x \in Calls \ {c} : decision'[x] = decision[x]
    BY <1>1, <1>2, <2>1
  <2>3. reply'[c] = IF pc[c] = "authorizing" THEN d ELSE reply[c]
    BY <1>1, <2>1, ReplyTypes
  <2>4. decision[c] = "none" /\ pc[c] # "idle" /\ said[c] = "unasked" /\ result[c] # "refused"
    BY <1>2, <1>3, <1>6 DEF CallInv, Decisions
  <2>5. Handler(c)'
    BY <1>1, <1>2, <2>2, <2>4 DEF CallInv, Handler, AllowedFor
  <2>6. Decisions(c)'
    BY <1>1, <1>2, <2>1, <2>2, <2>4 DEF CallInv, Decisions
  <2>7. Answers(c)'
    BY <1>1, <1>2, <2>1, <2>2, <2>3, <2>4 DEF CallInv, Answers, Decisions
  <2>8. Underway(c)'
    <3>1. ASSUME NEW other \in wire', other.call = c PROVE other.what # "authorize"
      <4>1. other \in Posts /\ post \in Posts /\ other # post /\ post.call = c
        BY <1>1, <3>1 DEF IInv, TypeOK, c
      <4> QED BY <1>6, <3>1, <4>1 DEF Posts
    <3> QED BY <1>1, <1>2, <3>1 DEF CallInv, Underway
  <2> QED BY <1>2, <2>1, <2>2, <2>5, <2>6, <2>7, <2>8 DEF CallInv
<1>7. CASE post.what # "authorize" /\ d # "error"
  <2>1. /\ decision[c] = "ESCALATE" /\ resolution[c] = "none" /\ decision' = decision
        /\ resolution' = [resolution EXCEPT ![c] = d]
        /\ resolver' = [resolver EXCEPT ![c] = "gate"]
        /\ d = "DENY" \/ (d = "ALLOW" /\ post.what = "approve")
        /\ Reply(c, "approving", d)
    BY <1>7 DEF CosmosHandles, Escalated, Resolve, c
  <2>2. /\ resolution' \in [Calls -> {"none", "ALLOW", "DENY"}]
        /\ resolver' \in [Calls -> {"none", "gate", "operator"}]
        /\ resolution'[c] = d /\ resolver'[c] = "gate"
        /\ \A x \in Calls \ {c} : resolution'[x] = resolution[x] /\ resolver'[x] = resolver[x]
    BY <1>1, <1>2, <2>1
  <2>3. reply'[c] = IF pc[c] = "approving" THEN d ELSE reply[c]
    BY <1>1, <2>1, ReplyTypes
  <2>4. Handler(c)'
    BY <1>1, <1>2, <2>1, <2>2 DEF CallInv, Handler, AllowedFor
  <2>5. Decisions(c)'
    BY <1>1, <1>2, <1>3, <1>7, <2>1, <2>2 DEF CallInv, Decisions
  <2>6. Answers(c)'
    BY <1>1, <1>2, <2>1, <2>2, <2>3 DEF CallInv, Answers, Decisions
  <2>7. Underway(c)'
    BY <1>1, <1>2, <2>1 DEF CallInv, Underway
  <2> QED BY <1>2, <2>1, <2>2, <2>4, <2>5, <2>6, <2>7 DEF CallInv
<1> QED BY <1>5, <1>6, <1>7

\* A POST is lost, the process starts, the client says what it can do: no call
\* changes.
LEMMA QuietStep ==
  ASSUME IInv,
         \/ \E elicits \in BOOLEAN : Initialize(elicits)
         \/ \E post \in wire : Lost(post)
         \/ Start
         \/ UNCHANGED vars
  PROVE  IInv'
<1>1. /\ grant' = grant /\ exits' = exits
      /\ up' \in BOOLEAN /\ form' \in BOOLEAN /\ wire' \subseteq wire
      /\ kind' = kind /\ pc' = pc /\ result' = result /\ said' = said /\ reply' = reply
      /\ decision' = decision /\ resolution' = resolution /\ resolver' = resolver
      /\ upstream' = upstream
  BY DEF Initialize, Lost, Start, vars, client, cosmos, IInv, TypeOK
<1>2. TypeOK'
  BY <1>1 DEF IInv, TypeOK
<1>3. ASSUME NEW x \in Calls PROVE CallInv(x)'
  <2>1. Same(x)
    BY <1>1 DEF Same
  <2> QED BY <2>1, Frame DEF IInv
<1> QED BY <1>2, <1>3 DEF IInv

LEMMA ExitStep == ASSUME IInv, Exit PROVE IInv'
<1>1. /\ up' = FALSE /\ grant' = grant /\ form' = form /\ exits' = exits + 1 /\ exits < MaxExits
      /\ kind' = kind /\ result' = result /\ said' = said /\ wire' = wire
      /\ decision' = decision /\ resolution' = resolution /\ resolver' = resolver
      /\ upstream' = upstream
      /\ pc' = [c \in Calls |-> IF pc[c] \in Waiting THEN "lost" ELSE pc[c]]
      /\ reply' = [c \in Calls |-> "none"]
  BY DEF Exit, All, client, cosmos
<1>2. TypeOK'
  <2>1. /\ pc' \in [Calls -> Places]
        /\ reply' \in [Calls -> {"none", "ALLOW", "DENY", "ESCALATE", "error"}]
    BY <1>1 DEF IInv, TypeOK, Places
  <2>2. exits' \in 0..MaxExits
    BY <1>1, GateAssumption DEF IInv, TypeOK
  <2> QED BY <1>1, <2>1, <2>2 DEF IInv, TypeOK
<1>3. ASSUME NEW x \in Calls PROVE CallInv(x)'
  <2>1. /\ CallInv(x) /\ reply'[x] = "none"
        /\ pc'[x] = pc[x] \/ (pc[x] \in Waiting /\ pc'[x] = "lost")
    BY <1>1 DEF IInv
  <2>2. Handler(x)'
    BY <1>1, <2>1 DEF CallInv, Handler, AllowedFor, Early, Waiting
  <2>3. Decisions(x)'
    BY <1>1, <2>1 DEF CallInv, Decisions
  <2>4. Answers(x)'
    BY <2>1 DEF Answers
  <2>5. Underway(x)'
    BY <1>1, <2>1 DEF CallInv, Underway
  <2> QED BY <2>2, <2>3, <2>4, <2>5 DEF CallInv
<1> QED BY <1>2, <1>3 DEF IInv

LEMMA NextIInv == ASSUME IInv, [Next]_vars PROVE IInv'
<1>1. CASE \E c \in Calls :
             \/ \E k \in Kinds : ToolsCall(c, k)
             \/ \E answer \in {"yes", "no", "error"} : Human(c, answer)
             \/ \E d \in {"ALLOW", "DENY"} : Operator(c, d)
  BY <1>1, ToolsCallStep, HumanStep, OperatorStep
<1>2. CASE \E c \in Calls :
             \/ Authorized(c) \/ ReadAnswer(c) \/ AskTimeout(c) \/ Approved(c) \/ FetchFails(c)
             \/ UpstreamRuns(c) \/ UpstreamAnswers(c) \/ UpstreamTimeout(c)
  BY <1>2, AuthorizedStep, ReadAnswerStep, AskTimeoutStep, ApprovedStep, FetchFailsStep,
     UpstreamRunsStep, ForwardingStep
<1>3. CASE \E post \in wire :
             \E d \in {"ALLOW", "DENY", "ESCALATE", "error"} : CosmosHandles(post, d)
  BY <1>3, CosmosHandlesStep
<1>4. CASE Exit
  BY <1>4, ExitStep
<1>5. CASE \/ \E elicits \in BOOLEAN : Initialize(elicits)
           \/ \E post \in wire : Lost(post)
           \/ Start
           \/ UNCHANGED vars
  BY <1>5, QuietStep
<1> QED BY <1>1, <1>2, <1>3, <1>4, <1>5 DEF Next

LEMMA Inductive == Spec => []IInv
BY InitIInv, NextIInv, PTL DEF Spec
-----------------------------------------------------------------------------
\* A call that is not free reaches the upstream only on Cosmos's ALLOW, or on
\* its escalation approved by this client's own yes, whatever is lost, late or
\* resolved elsewhere (the three outcomes of mcp/server.js).
THEOREM OnlyAllowedRuns == Spec => []RunsOnlyAllowed
<1>1. IInv => RunsOnlyAllowed
  BY DEF IInv, CallInv, Handler, AllowedFor, RunsOnlyAllowed
<1> QED BY <1>1, Inductive, PTL

\* A call whose caller was told "Not executed" never reaches the upstream, not
\* even after the human or Cosmos answers late.
THEOREM NeverRuns == Spec => []RefusedNeverRuns
<1>1. IInv => RefusedNeverRuns
  BY DEF IInv, CallInv, Handler, Refusals, RefusedNeverRuns
<1> QED BY <1>1, Inductive, PTL

\* A caller who is sent to approve out of band finds the escalation as the gate
\* found it: no answer of the gate is recorded or still on its way.
THEOREM StaysOpen == Spec => []OutOfBandIsOpen
<1>1. IInv => OutOfBandIsOpen
  BY DEF IInv, CallInv, Decisions, Underway, OutOfBandIsOpen
<1> QED BY <1>1, Inductive, PTL

\* A denial told to the caller is on record at Cosmos and is never turned into
\* an approval behind the caller's back.
THEOREM DeniedForEver == Spec => []DenialIsFinal
<1>1. IInv => DenialIsFinal
  BY DEF IInv, CallInv, Decisions, DenialIsFinal
<1> QED BY <1>1, Inductive, PTL
=============================================================================
