--------------------------- MODULE SessionGrammar ----------------------------
(***************************************************************************)
(* The event grammar of a change-review session: what reduceSessionEvent   *)
(* accepts after a prefix of events, and the state it folds an event into. *)
(* A session is the record of what later decisions read of that state; the *)
(* identities that tie an event to the latest decision, lease, checkpoint, *)
(* message and attempt are the positions of those in the session, so that  *)
(* only an event about an earlier attempt or call carries a reference.     *)
(*                                                                         *)
(* The schema of session.created gives a change review one of two routing  *)
(* policies: local_only_v1 or, here "hybrid", hybrid_simulation_v1         *)
(* (session-events.ts:1903-1918). The third policy, hybrid_v0, is for      *)
(* sessions of another kind.                                               *)
(***************************************************************************)
EXTENDS Integers

CONSTANTS
    Rounds,      \* executionPolicy.inferenceRounds
    ToolCalls,   \* executionPolicy.toolCalls
    EpisodeCap,  \* executionPolicy.maxPaidEpisodeMicrousd
    Duration     \* executionPolicy.maxEpisodeDurationMs, in ticks of the clock

ASSUME PolicyAssumption ==
    Rounds \in Nat /\ ToolCalls \in Nat /\ EpisodeCap \in Nat /\ Duration \in Nat

MaxProviderChanges == 2
MaxPaidAttempts == 1

Terminal == {"completed", "failed", "cancelled", "interrupted"}
\* No guard tells local_policy and local_investigation apart: the first stands for both.
\* "gate_denial" is any of the router's denials between the egress and the budget gates.
Denials == {"egress_denial", "gate_denial", "budget_denial"}
Outcomes == {"succeeded", "provider_error", "protocol_error", "cancelled", "timeout",
             "interrupted"}

NoMessage == [status |-> "none", stop |-> "none", parse |-> "none", call |-> "none"]
NoDecision == [boundary |-> "none", action |-> "none", reason |-> "none",
               provider |-> "none", reserve |-> 0]
NoAttempt == [open |-> FALSE, phase |-> "none", tooling |-> "none", structured |-> FALSE,
              reserve |-> 0, outcome |-> "none", cost |-> 0, provenance |-> "none"]

\* How the paid attempt ended, for the ledger row that answers its reservation.
Unsettled == [disposition |-> "none", cost |-> 0]

\* What createSession persists: session.created and the user's message.
NewSession(hybrid, at) ==
    [hybrid |-> hybrid, status |-> "created", last |-> "user.message", at |-> at,
     deadline |-> -1,
     leases |-> 0, provider |-> "none", changes |-> 0,
     decided |-> {}, decision |-> NoDecision, admission |-> "none",
     assistants |-> 0, contexts |-> 0, message |-> NoMessage,
     attempts |-> 0, attempt |-> NoAttempt, paid |-> 0,
     calls |-> 0, inspected |-> FALSE, investigated |-> FALSE,
     check |-> "none", remaining |-> 0, reserved |-> 0, settled |-> Unsettled]

Streaming(s) == s.message.status = "streaming"
PendingCall(s) == s.message.call = "requested"
EvidenceComplete(s) == s.investigated /\ s.inspected

-----------------------------------------------------------------------------
(* The guards every event passes before its own *)

Active(s) == s.status \notin Terminal

StartableBefore == {"session.started", "session.failed", "session.cancelled",
                    "session.interrupted", "session.completed"}

RunningWhenNeeded(s, e) == e.type \notin StartableBefore => s.status = "running"

CheckObeyed(s, e) ==
    s.last = "completion.obligations.checked" =>
        /\ s.check = "accepted" => e.type = "session.completed"
        /\ s.check = "exhausted" => e.type = "session.failed"

\* What the event before e makes of the next one.
Follows(s, e) ==
    /\ s.attempt.open =>
           e.type \in {"assistant.message.completed", "inference.attempt.finished"}
    /\ s.last = "cloud.egress.admission.recorded" => e.type = "routing.decision.recorded"
    /\ s.last = "routing.decision.recorded" =>
           e.type = IF s.decision.action = "assign_new_lease" THEN "route.assigned"
                                                       ELSE "assistant.message.started"
    /\ s.last = "route.assigned" => e.type = "assistant.message.started"
    /\ s.last = "assistant.message.started" => e.type = "context.compiled"
    /\ s.last = "context.compiled" => e.type = "inference.attempt.started"
    /\ s.last = "assistant.message.completed" => e.type = "inference.attempt.finished"
    /\ s.last = "tool.call.requested" => e.type = "tool.call.completed"
    /\ s.last = "inference.attempt.finished" =>
           /\ s.attempt.outcome = "cancelled" => e.type = "session.cancelled"
           /\ s.attempt.outcome = "interrupted" => e.type = "session.interrupted"
           /\ /\ s.attempt.outcome = "succeeded"
              /\ s.attempt.tooling = "required" \/ s.message.stop = "tool_calls"
              => e.type \in {"tool.call.requested", "session.interrupted"}

\* Fault: an event may follow any other.
CommonUnordered(s, e) == e.at >= s.at /\ Active(s) /\ CheckObeyed(s, e) /\ RunningWhenNeeded(s, e)

Common(s, e) ==
    /\ e.at >= s.at
    /\ Active(s)
    /\ CheckObeyed(s, e)
    /\ RunningWhenNeeded(s, e)
    /\ Follows(s, e)

-----------------------------------------------------------------------------
(* Start, egress admission, routing decision, route *)

Started(s, e) == s.status = "created"

Admissible(s, e) ==
    /\ s.hybrid
    /\ EvidenceComplete(s)
    /\ s.admission = "none"
    /\ "evidence_complete" \notin s.decided

\* The shape the event's schema gives every decision. The amount names the reservation.
WellFormedDecision(d) ==
    /\ d.reason = "cloud_admitted" =>
           /\ d.action = "assign_new_lease" /\ d.boundary = "evidence_complete"
           /\ d.reserve > 0
    /\ d.reason # "cloud_admitted" => d.reserve = 0
    /\ d.reason \in Denials => d.boundary = "evidence_complete" /\ d.action = "retain_lease"

\* The authority a hybrid session persists has one local and one cloud provider, and the cloud
\* one is for an admission. In a local session any provider may be named: the schema compares
\* its locality with the reason only if the decision brings the router's input, and then it
\* is the writer of that input who says which providers are local.
WithinAuthority(s, d) == s.hybrid => (d.provider = "cloud" <=> d.reason = "cloud_admitted")

\* Fault: the verdict of the cited admission is not read.
AdmissionUnread(s, d) ==
    (d.reason = "low_risk_local_review") = (s.last # "cloud.egress.admission.recorded")

\* The admission a decision cites is the one recorded just before it.
AdmissionCited(s, d) ==
    IF d.reason = "low_risk_local_review"
    THEN s.last # "cloud.egress.admission.recorded"
    ELSE /\ s.last = "cloud.egress.admission.recorded"
         /\ (s.admission = "deny") = (d.reason = "egress_denial")

\* Fault: any failed attempt is a failure to fall back from.
FailedAttempt(s) ==
    /\ s.last = "inference.attempt.finished"
    /\ s.attempt.outcome \in {"provider_error", "protocol_error", "timeout"}

FailedPaidAttempt(s) ==
    /\ s.last = "inference.attempt.finished"
    /\ s.attempt.outcome \in {"provider_error", "protocol_error", "timeout"}
    /\ s.attempt.reserve > 0 /\ s.decision.reason = "cloud_admitted"

Decidable(s, e) ==
    LET d == e.decision IN
    /\ WellFormedDecision(d)
    /\ WithinAuthority(s, d)
    /\ d.boundary \notin s.decided
    /\ s.hybrid /\ d.boundary = "evidence_complete" => AdmissionCited(s, d)
    /\ ~s.hybrid => d.reason \notin Denials \cup {"cloud_admitted"}
    /\ d.reason = "cloud_admitted" => d.reserve <= EpisodeCap
    /\ ~Streaming(s) /\ ~PendingCall(s)
    /\ IF d.boundary = "session_start"
       THEN s.decided = {} /\ s.leases = 0 /\ s.assistants = 0 /\ d.action = "assign_new_lease"
       ELSE s.leases > 0
    /\ d.action = "retain_lease" => d.provider = s.provider
    /\ d.boundary = "evidence_complete" => EvidenceComplete(s)
    /\ d.boundary = "provider_failure" => FailedPaidAttempt(s) /\ d.reason = "local_fallback"

Changes(s, provider) ==
    s.changes + (IF s.leases > 0 /\ s.provider # provider THEN 1 ELSE 0)

Assignable(s, e) ==
    /\ s.last = "routing.decision.recorded" /\ s.decision.action = "assign_new_lease"
    /\ e.provider = s.decision.provider
    /\ Changes(s, e.provider) <= MaxProviderChanges

-----------------------------------------------------------------------------
(* A round: assistant message, context checkpoint, attempt *)

Speakable(s, e) ==
    /\ s.leases > 0 /\ s.decision.provider = s.provider
    /\ \/ s.last \in {"routing.decision.recorded", "route.assigned", "tool.call.completed"}
       \/ s.last = "completion.obligations.checked" /\ s.check = "retry"
    /\ s.contexts = s.assistants
    /\ s.assistants < Rounds
    /\ ~Streaming(s) /\ ~PendingCall(s)

Compilable(s, e) ==
    /\ s.leases > 0
    /\ Streaming(s) /\ s.contexts = s.assistants - 1

PhaseOf(boundary) == IF boundary = "session_start" THEN "investigation" ELSE "synthesis"

\* Fault: the phase of an attempt is not the one of its decision.
AttemptableInAnyPhase(s, e) ==
    /\ s.last = "context.compiled" /\ Streaming(s)
    /\ e.phase = "synthesis" => e.tooling = "none"
    /\ e.structured => e.phase = "synthesis"
    /\ e.at < s.deadline
    /\ e.reserve = s.decision.reserve

Attemptable(s, e) ==
    /\ s.last = "context.compiled" /\ Streaming(s)
    /\ e.phase = PhaseOf(s.decision.boundary)
    /\ e.phase = "synthesis" => e.tooling = "none"
    /\ e.structured => e.phase = "synthesis"
    /\ e.at < s.deadline
    /\ e.reserve > 0 => s.paid < MaxPaidAttempts
    /\ e.reserve = s.decision.reserve

Completable(s, e) ==
    /\ Streaming(s) /\ s.contexts = s.assistants
    /\ s.attempt.open /\ e.attempt = s.attempts
    /\ s.attempt.structured = (e.parse # "none")

\* A cost belongs to a reservation, and an unknown one is all of it.
CostAccountable(s, e) ==
    /\ s.attempt.reserve = 0 => e.cost = 0 /\ e.provenance = "local_zero_cost"
    /\ s.attempt.reserve > 0 => e.provenance # "local_zero_cost"
    /\ e.provenance = "reserved_unknown" =>
           e.cost = s.decision.reserve /\ e.disposition # "not_sent"
    /\ e.disposition = "not_sent" => e.cost = 0

Finishable(s, e) ==
    /\ s.attempt.open /\ e.attempt = s.attempts
    /\ CostAccountable(s, e)
    /\ e.outcome = "succeeded" =>
           /\ e.disposition = "sent"
           /\ ~Streaming(s)
           /\ s.attempt.tooling = "required" => s.message.stop = "tool_calls"
           /\ s.attempt.tooling = "none" => s.message.stop # "tool_calls"

-----------------------------------------------------------------------------
(* Tools, obligations, ends *)

Requestable(s, e) ==
    /\ s.last = "inference.attempt.finished" /\ s.attempt.outcome = "succeeded"
    /\ s.contexts = s.assistants
    /\ s.attempt.tooling # "none"
    /\ s.message.status = "completed" /\ s.message.stop = "tool_calls"
    /\ s.message.call = "none"
    /\ ~s.inspected => e.tool = "inspect_git_changes"
    /\ s.calls < ToolCalls

Returnable(s, e) == PendingCall(s) /\ s.message.status = "completed"

\* The one obligation of a review is its inspection; its citations are resolved or not.
ExpectedCheck(s, e) ==
    IF s.inspected /\ e.resolved THEN "accepted"
    ELSE IF e.remaining > 0 THEN "retry" ELSE "exhausted"

Checkable(s, e) ==
    /\ s.last = "inference.attempt.finished" /\ s.attempt.outcome = "succeeded"
    /\ s.check = "retry" => e.remaining < s.remaining
    /\ s.message.stop = "stop" /\ s.message.call = "none"
    /\ e.remaining \in 0 .. (Rounds - s.assistants)
    /\ s.message.parse = "accepted" => e.resolved
    /\ e.outcome = ExpectedCheck(s, e)
    /\ (s.message.status = "completed") = (e.outcome = "accepted")

Endable(s) ==
    /\ ~s.attempt.open
    /\ s.contexts = s.attempts
    /\ ~Streaming(s)
    /\ ~PendingCall(s)

Successful(s) ==
    /\ s.attempt.outcome = "succeeded" /\ s.attempt.structured
    /\ s.message.parse = "accepted" /\ s.message.status = "completed"
    /\ s.last = "completion.obligations.checked" /\ s.check = "accepted"

-----------------------------------------------------------------------------
(* The reducer *)

Accepts(s, e) ==
    /\ Common(s, e)
    /\ CASE e.type = "session.started" -> Started(s, e)
         [] e.type = "cloud.egress.admission.recorded" -> Admissible(s, e)
         [] e.type = "routing.decision.recorded" -> Decidable(s, e)
         [] e.type = "route.assigned" -> Assignable(s, e)
         [] e.type = "assistant.message.started" -> Speakable(s, e)
         [] e.type = "context.compiled" -> Compilable(s, e)
         [] e.type = "inference.attempt.started" -> Attemptable(s, e)
         [] e.type = "assistant.message.completed" -> Completable(s, e)
         [] e.type = "inference.attempt.finished" -> Finishable(s, e)
         [] e.type = "tool.call.requested" -> Requestable(s, e)
         [] e.type = "tool.call.completed" -> Returnable(s, e)
         [] e.type = "completion.obligations.checked" -> Checkable(s, e)
         [] e.type = "session.completed" -> Endable(s) /\ Successful(s)
         [] OTHER -> Endable(s)

\* Fault: the end of a free attempt settles the reservation too.
FinishSettling(s, e) ==
    [s EXCEPT
        !.attempt = [@ EXCEPT !.open = FALSE, !.outcome = e.outcome, !.cost = e.cost,
                              !.provenance = e.provenance],
        !.message = IF e.outcome = "succeeded" THEN @ ELSE [@ EXCEPT !.status = "failed"],
        !.settled = [disposition |-> e.disposition, cost |-> e.cost],
        !.investigated = @ \/ (e.outcome = "succeeded" /\ s.attempt.phase = "investigation")]

Finish(s, e) ==
    [s EXCEPT
        !.attempt = [@ EXCEPT !.open = FALSE, !.outcome = e.outcome, !.cost = e.cost,
                              !.provenance = e.provenance],
        !.message = IF e.outcome = "succeeded" THEN @ ELSE [@ EXCEPT !.status = "failed"],
        !.settled = IF s.attempt.reserve > 0
                    THEN [disposition |-> e.disposition, cost |-> e.cost]
                    ELSE @,
        !.investigated = @ \/ (e.outcome = "succeeded" /\ s.attempt.phase = "investigation")]

Apply(s, e) ==
    CASE e.type = "session.started" ->
           [s EXCEPT !.status = "running", !.deadline = e.at + Duration]
      [] e.type = "cloud.egress.admission.recorded" -> [s EXCEPT !.admission = e.verdict]
      [] e.type = "routing.decision.recorded" ->
           [s EXCEPT !.decided = @ \cup {e.decision.boundary}, !.decision = e.decision,
                     !.reserved = @ + e.decision.reserve]
      [] e.type = "route.assigned" ->
           [s EXCEPT !.leases = @ + 1, !.provider = e.provider,
                     !.changes = Changes(s, e.provider)]
      [] e.type = "assistant.message.started" ->
           [s EXCEPT !.assistants = @ + 1,
                     !.message = [NoMessage EXCEPT !.status = "streaming"]]
      [] e.type = "context.compiled" -> [s EXCEPT !.contexts = @ + 1]
      [] e.type = "inference.attempt.started" ->
           [s EXCEPT !.attempts = @ + 1,
                     !.attempt = [NoAttempt EXCEPT !.open = TRUE, !.phase = e.phase,
                                      !.tooling = e.tooling, !.structured = e.structured,
                                      !.reserve = e.reserve],
                     !.paid = @ + (IF e.reserve > 0 THEN 1 ELSE 0)]
      [] e.type = "assistant.message.completed" ->
           [s EXCEPT !.message = [@ EXCEPT !.stop = e.stop, !.parse = e.parse,
                                           !.status = IF e.complete THEN "completed"
                                                                    ELSE "failed"]]
      [] e.type = "inference.attempt.finished" -> Finish(s, e)
      [] e.type = "tool.call.requested" ->
           [s EXCEPT !.calls = @ + 1, !.message.call = "requested"]
      [] e.type = "tool.call.completed" ->
           [s EXCEPT !.message.call = IF e.ok THEN "completed" ELSE "failed",
                     !.inspected = @ \/ e.ok]
      [] e.type = "completion.obligations.checked" ->
           [s EXCEPT !.check = e.outcome, !.remaining = e.remaining]
      [] e.type = "session.completed" -> [s EXCEPT !.status = "completed"]
      [] e.type = "session.failed" -> [s EXCEPT !.status = "failed"]
      [] e.type = "session.cancelled" -> [s EXCEPT !.status = "cancelled"]
      [] e.type = "session.interrupted" -> [s EXCEPT !.status = "interrupted"]

Reduce(s, e) == [Apply(s, e) EXCEPT !.at = e.at, !.last = e.type]

=============================================================================
