------------------------------ MODULE McpGate ------------------------------
(***************************************************************************)
(* mcp/server.js and mcp/proxy.js: a server between an MCP client and an   *)
(* upstream MCP server.  A call of a priced tool is authorized by Cosmos   *)
(* before it is forwarded; an escalation is put to the client's human.     *)
(*                                                                         *)
(* Each action is one turn of the gate's event loop, or a step of one of   *)
(* its peers.  A POST is on the wire from fetch() until Cosmos handles it  *)
(* or it is lost; the gate may have given up on it by then.  Cosmos is     *)
(* seen from here: one decision per call, since the gate makes a new       *)
(* idempotency key for each, and one resolution per escalation.            *)
(***************************************************************************)
EXTENDS Naturals

CONSTANTS
  Calls,      \* tools/call requests
  MaxExits    \* bound on the ends of the process

ASSUME GateAssumption == MaxExits \in Nat

(***************************************************************************)
(* What matchRule() and the tool's name make of a call.  An `unpriceable'  *)
(* one has a rule whose amount_arg is missing; its amount of -1 is for     *)
(* Cosmos to refuse.                                                       *)
(***************************************************************************)
Kinds == {"priced", "unpriceable", "free", "unknown", "cosmos_authorize", "malformed"}

VARIABLES
  up,          \* the gate runs
  grant,       \* COSMOS_GRANT_ID is set
  form,        \* the client declared form elicitation
  kind,        \* what each call is of
  pc,          \* where its handler is
  result,      \* what its caller was told
  said,        \* the client's side of its elicitation
  wire,        \* POSTs that Cosmos has not seen
  reply,       \* Cosmos's answer to the fetch under way
  decision,    \* Cosmos: the decision of the call
  resolution,  \* Cosmos: how an escalation was resolved
  resolver,    \* Cosmos: by whose POST
  upstream,    \* the upstream: the call was sent, it ran
  exits

client == <<form, said>>
cosmos == <<decision, resolution, resolver>>
vars == <<up, grant, client, kind, pc, result, wire, reply, cosmos, upstream, exits>>

All(v) == [c \in Calls |-> v]

Init ==
  /\ up = TRUE /\ grant \in BOOLEAN /\ form = FALSE
  /\ kind = All("unknown") /\ pc = All("idle") /\ result = All("none")
  /\ said = All("unasked")
  /\ wire = {} /\ reply = All("none")
  /\ decision = All("none") /\ resolution = All("none") /\ resolver = All("none")
  /\ upstream = All("untouched")
  /\ exits = 0
-----------------------------------------------------------------------------
Waiting == {"authorizing", "asking", "approving", "forwarding"}
Places == Waiting \cup {"idle", "done", "lost"}
Results == {"none", "unknown tool", "invalid", "failed closed", "refused", "out of band",
            "approval failed", "reported", "answered", "upstream timeout"}
Posts == [call : Calls, what : {"authorize", "approve", "deny"}]

\* The handler of c returns r to the client.
Return(c, r) == pc' = [pc EXCEPT ![c] = "done"] /\ result' = [result EXCEPT ![c] = r]

\* It awaits a fetch.
Fetch(c, what, at) ==
  /\ wire' = wire \cup {[call |-> c, what |-> what]}
  /\ pc' = [pc EXCEPT ![c] = at]

\* It awaits the upstream.
CallTool(c) ==
  /\ upstream' = [upstream EXCEPT ![c] = "sent"]
  /\ pc' = [pc EXCEPT ![c] = "forwarding"]

\* initialize: the client says what it can do, and may say it again.
Initialize(elicits) ==
  /\ up /\ form' = elicits
  /\ UNCHANGED <<up, grant, said, kind, pc, result, wire, reply, cosmos, upstream, exits>>

\* tools/call arrives; its handler runs to its first await.
ToolsCall(c, k) ==
  /\ up /\ pc[c] = "idle"
  /\ kind' = [kind EXCEPT ![c] = k]
  /\ \/ k = "unknown" /\ Return(c, "unknown tool") /\ UNCHANGED <<wire, upstream>>
     \/ k = "malformed" /\ Return(c, "invalid") /\ UNCHANGED <<wire, upstream>>
     \/ k = "free" /\ CallTool(c) /\ UNCHANGED <<result, wire>>
     \/ /\ k \in {"priced", "unpriceable", "cosmos_authorize"} /\ grant
        /\ Fetch(c, "authorize", "authorizing") /\ UNCHANGED <<result, upstream>>
     \/ /\ k \in {"priced", "unpriceable", "cosmos_authorize"} /\ ~grant
        /\ Return(c, "failed closed") /\ UNCHANGED <<wire, upstream>>
  /\ UNCHANGED <<up, grant, client, reply, cosmos, exits>>

\* Mutant: a client that cannot be asked is taken for a yes.
ActOnLoosely(c, d) ==
  \/ d = "DENY" /\ Return(c, "refused") /\ UNCHANGED <<said, upstream>>
  \/ (d = "ALLOW" \/ ~form) /\ CallTool(c) /\ UNCHANGED <<result, said>>
  \/ /\ d = "ESCALATE" /\ form
     /\ pc' = [pc EXCEPT ![c] = "asking"] /\ said' = [said EXCEPT ![c] = "asked"]
     /\ UNCHANGED <<result, upstream>>

\* What a decision makes of a priced call: forwarded, refused, or put to the
\* human if the client can ask one.
ActOn(c, d) ==
  \/ d = "ALLOW" /\ CallTool(c) /\ UNCHANGED <<result, said>>
  \/ d = "DENY" /\ Return(c, "refused") /\ UNCHANGED <<said, upstream>>
  \/ /\ d = "ESCALATE" /\ form
     /\ pc' = [pc EXCEPT ![c] = "asking"] /\ said' = [said EXCEPT ![c] = "asked"]
     /\ UNCHANGED <<result, upstream>>
  \/ /\ d = "ESCALATE" /\ ~form
     /\ Return(c, "out of band") /\ UNCHANGED <<said, upstream>>

\* The answer to POST /authorize is read.
Authorized(c) ==
  /\ up /\ pc[c] = "authorizing" /\ reply[c] # "none"
  /\ reply' = [reply EXCEPT ![c] = "none"]
  /\ \/ /\ reply[c] = "error"
        /\ Return(c, "failed closed") /\ UNCHANGED <<said, upstream>>
     \/ /\ reply[c] # "error" /\ kind[c] = "cosmos_authorize"
        /\ Return(c, "reported") /\ UNCHANGED <<said, upstream>>
     \/ reply[c] # "error" /\ kind[c] # "cosmos_authorize" /\ ActOn(c, reply[c])
  /\ UNCHANGED <<up, grant, form, kind, wire, cosmos, exits>>

\* The human answers the form, in time or not: `no' is a decline, a cancel or
\* a form with approve left false; `error' is the client's failure to ask.
Human(c, answer) ==
  /\ said[c] = "asked" /\ said' = [said EXCEPT ![c] = answer]
  /\ UNCHANGED <<up, grant, form, kind, pc, result, wire, reply, cosmos, upstream, exits>>

\* Mutant: an answer after the timer is still acted upon.
ReadLateAnswer(c) ==
  /\ up /\ said[c] \in {"yes", "no"}
  /\ pc[c] = "asking" \/ result[c] = "out of band"
  /\ Fetch(c, IF said[c] = "yes" THEN "approve" ELSE "deny", "approving")
  /\ UNCHANGED <<up, grant, client, kind, result, reply, cosmos, upstream, exits>>

\* The client's line is read while serverPending has the request: resolve with
\* Cosmos, or give up asking.  A line that comes later is dropped.
ReadAnswer(c) ==
  /\ up /\ pc[c] = "asking"
  /\ \/ said[c] = "yes" /\ Fetch(c, "approve", "approving") /\ UNCHANGED result
     \/ said[c] = "no" /\ Fetch(c, "deny", "approving") /\ UNCHANGED result
     \/ said[c] = "error" /\ Return(c, "out of band") /\ UNCHANGED wire
  /\ UNCHANGED <<up, grant, client, kind, reply, cosmos, upstream, exits>>

\* Mutant: an elicitation that times out is denied behind the caller's back.
AskTimeoutDenies(c) ==
  /\ up /\ pc[c] = "asking"
  /\ wire' = wire \cup {[call |-> c, what |-> "deny"]}
  /\ Return(c, "out of band")
  /\ UNCHANGED <<up, grant, client, kind, reply, cosmos, upstream, exits>>

\* requestClient(): nobody answered within five minutes.
AskTimeout(c) ==
  /\ up /\ pc[c] = "asking"
  /\ Return(c, "out of band")
  /\ UNCHANGED <<up, grant, client, kind, wire, reply, cosmos, upstream, exits>>

\* Mutant: an approval that Cosmos refuses to record is told as a denial.
ApprovedOrRefused(c) ==
  /\ up /\ pc[c] = "approving" /\ reply[c] # "none"
  /\ reply' = [reply EXCEPT ![c] = "none"]
  /\ ActOn(c, IF reply[c] = "error" THEN "DENY" ELSE reply[c])
  /\ UNCHANGED <<up, grant, form, kind, wire, cosmos, exits>>

\* The answer to POST /approvals is read.
Approved(c) ==
  /\ up /\ pc[c] = "approving" /\ reply[c] # "none"
  /\ reply' = [reply EXCEPT ![c] = "none"]
  /\ \/ reply[c] = "error" /\ Return(c, "approval failed") /\ UNCHANGED <<said, upstream>>
     \/ reply[c] # "error" /\ ActOn(c, reply[c])
  /\ UNCHANGED <<up, grant, form, kind, wire, cosmos, exits>>

\* fetch() throws, or its body does not parse: refused, cut off, timed out.
\* The POST may have arrived, may yet arrive, or neither.
FetchFails(c) ==
  /\ up /\ pc[c] \in {"authorizing", "approving"}
  /\ reply' = [reply EXCEPT ![c] = "none"]
  /\ Return(c, IF pc[c] = "authorizing" THEN "failed closed" ELSE "approval failed")
  /\ UNCHANGED <<up, grant, client, kind, wire, cosmos, upstream, exits>>

UpstreamRuns(c) ==
  /\ upstream[c] = "sent" /\ upstream' = [upstream EXCEPT ![c] = "ran"]
  /\ UNCHANGED <<up, grant, client, kind, pc, result, wire, reply, cosmos, exits>>

\* The upstream answers, with a result or an error; callTool() hands it on.
UpstreamAnswers(c) ==
  /\ up /\ pc[c] = "forwarding" /\ upstream[c] = "ran"
  /\ Return(c, "answered")
  /\ UNCHANGED <<up, grant, client, kind, wire, reply, cosmos, upstream, exits>>

\* Mutant: the upstream's answer is waited for without a timer.
UpstreamOverdue(c) ==
  /\ up /\ pc[c] = "forwarding" /\ upstream[c] = "ran"
  /\ Return(c, "upstream timeout")
  /\ UNCHANGED <<up, grant, client, kind, wire, reply, cosmos, upstream, exits>>

\* request(): the upstream did not answer within thirty seconds.  The call may
\* have run, and may yet run.
UpstreamTimeout(c) ==
  /\ up /\ pc[c] = "forwarding"
  /\ Return(c, "upstream timeout")
  /\ UNCHANGED <<up, grant, client, kind, wire, reply, cosmos, upstream, exits>>
-----------------------------------------------------------------------------
Escalated(c) == decision[c] = "ESCALATE" /\ resolution[c] = "none"

Resolve(c, r, who) ==
  /\ resolution' = [resolution EXCEPT ![c] = r] /\ resolver' = [resolver EXCEPT ![c] = who]
  /\ UNCHANGED decision

\* The answer reaches the fetch that is still waiting for it.
Reply(c, at, r) == reply' = IF pc[c] = at THEN [reply EXCEPT ![c] = r] ELSE reply

\* Cosmos handles a POST of the gate: it decides or resolves (an approval may
\* still end in DENY), or answers with an error and changes nothing.
CosmosHandles(post, d) ==
  LET c == post.call
  IN  /\ post \in wire /\ wire' = wire \ {post}
      /\ \/ d = "error" /\ UNCHANGED cosmos
            /\ Reply(c, IF post.what = "authorize" THEN "authorizing" ELSE "approving", d)
         \/ /\ post.what = "authorize" /\ d \in {"ALLOW", "DENY", "ESCALATE"}
            /\ kind[c] # "unpriceable"
            /\ decision' = [decision EXCEPT ![c] = d] /\ UNCHANGED <<resolution, resolver>>
            /\ Reply(c, "authorizing", d)
         \/ /\ post.what # "authorize" /\ Escalated(c)
            /\ d = "DENY" \/ (d = "ALLOW" /\ post.what = "approve")
            /\ Resolve(c, d, "gate")
            /\ Reply(c, "approving", d)
      /\ UNCHANGED <<up, grant, client, kind, pc, result, upstream, exits>>

\* Someone resolves the escalation out of band.
Operator(c, d) ==
  /\ Escalated(c) /\ Resolve(c, d, "operator")
  /\ UNCHANGED <<up, grant, client, kind, pc, result, wire, reply, upstream, exits>>

Lost(post) ==
  /\ post \in wire /\ wire' = wire \ {post}
  /\ UNCHANGED <<up, grant, client, kind, pc, result, reply, cosmos, upstream, exits>>

\* stdin closes, or the process is killed.  A call that the upstream has been
\* sent may still run before the child is gone.
Exit ==
  /\ up /\ exits < MaxExits
  /\ up' = FALSE /\ exits' = exits + 1
  /\ pc' = [c \in Calls |-> IF pc[c] \in Waiting THEN "lost" ELSE pc[c]]
  /\ reply' = All("none")
  /\ UNCHANGED <<grant, client, kind, result, wire, cosmos, upstream>>

\* A new process knows nothing of its client.
Start ==
  /\ ~up /\ up' = TRUE /\ form' = FALSE
  /\ UNCHANGED <<grant, said, kind, pc, result, wire, reply, cosmos, upstream, exits>>

Next ==
  \/ \E elicits \in BOOLEAN : Initialize(elicits)
  \/ \E c \in Calls :
       \/ \E k \in Kinds : ToolsCall(c, k)
       \/ \E answer \in {"yes", "no", "error"} : Human(c, answer)
       \/ \E d \in {"ALLOW", "DENY"} : Operator(c, d)
       \/ Authorized(c) \/ ReadAnswer(c) \/ AskTimeout(c) \/ Approved(c) \/ FetchFails(c)
       \/ UpstreamRuns(c) \/ UpstreamAnswers(c) \/ UpstreamTimeout(c)
  \/ \E post \in wire :
       Lost(post) \/ \E d \in {"ALLOW", "DENY", "ESCALATE", "error"} : CosmosHandles(post, d)
  \/ Exit \/ Start

Spec == Init /\ [][Next]_vars

\* A fetch ends one way or the other, and both timers fire.  Nothing is assumed
\* of Cosmos, the human or the upstream.
FairSpec ==
  /\ Spec
  /\ \A c \in Calls :
       /\ WF_vars(Authorized(c) \/ Approved(c) \/ FetchFails(c))
       /\ WF_vars(AskTimeout(c))
       /\ WF_vars(UpstreamTimeout(c))
-----------------------------------------------------------------------------
TypeOK ==
  /\ up \in BOOLEAN /\ grant \in BOOLEAN /\ form \in BOOLEAN
  /\ kind \in [Calls -> Kinds]
  /\ pc \in [Calls -> Places] /\ result \in [Calls -> Results]
  /\ said \in [Calls -> {"unasked", "asked", "yes", "no", "error"}]
  /\ wire \subseteq Posts
  /\ reply \in [Calls -> {"none", "ALLOW", "DENY", "ESCALATE", "error"}]
  /\ decision \in [Calls -> {"none", "ALLOW", "DENY", "ESCALATE"}]
  /\ resolution \in [Calls -> {"none", "ALLOW", "DENY"}]
  /\ resolver \in [Calls -> {"none", "gate", "operator"}]
  /\ upstream \in [Calls -> {"untouched", "sent", "ran"}]
  /\ exits \in 0..MaxExits

\* A call that is not free reaches the upstream only if Cosmos allowed it, or
\* escalated it and allowed it on this client's own yes, whatever is lost,
\* late or resolved elsewhere (mcp/server.js: "ALLOW -> the call is forwarded").
RunsOnlyAllowed ==
  \A c \in Calls : upstream[c] # "untouched" /\ kind[c] # "free" =>
    \/ decision[c] = "ALLOW"
    \/ /\ decision[c] = "ESCALATE" /\ resolution[c] = "ALLOW"
       /\ resolver[c] = "gate" /\ said[c] = "yes"

\* Once the caller has been told "Not executed", the call never runs, not even
\* if the human or Cosmos answers afterwards (README: "the call never reaches
\* the upstream").
RefusedNeverRuns ==
  \A c \in Calls :
    result[c] \in {"refused", "out of band", "failed closed", "approval failed", "invalid"}
      => upstream[c] = "untouched"

\* A caller that is sent to approve out of band finds the escalation as open as
\* the gate found it: no answer of the gate is recorded or under way.
OutOfBandIsOpen ==
  \A c \in Calls : result[c] = "out of band" =>
    resolver[c] # "gate" /\ \A post \in wire : post.call # c

\* A denial told to the caller is Cosmos's own and stays so: the spend is not
\* approved behind its back, and no budget is held for it.
DenialIsFinal ==
  \A c \in Calls : result[c] = "refused" =>
    \/ decision[c] = "DENY"
    \/ decision[c] = "ESCALATE" /\ resolution[c] = "DENY"

\* Every call gets an answer, whoever of Cosmos, the human and the upstream
\* stays silent, unless the process ends.
CallsEnd == \A c \in Calls : pc[c] \in Waiting ~> pc[c] \notin Waiting
=============================================================================
