------------------------------ MODULE SessionLog ------------------------------
(***************************************************************************)
(* The event store of one review session, whoever writes to it: an append  *)
(* is any event the reducer accepts after the events already there. What   *)
(* holds here holds of every coordinator, retry, recovery and late caller  *)
(* of a change review, because the store reduces each event before it is   *)
(* written.                                                                *)
(***************************************************************************)
EXTENDS SessionGrammar

CONSTANTS
    Ticks,      \* times an event may carry
    Reserves,   \* reservations a decision may name; 0 is none
    FinalCosts  \* costs an attempt may end with

ASSUME InputAssumption ==
    Ticks \subseteq Nat /\ Reserves \subseteq Nat /\ 0 \in Reserves /\ FinalCosts \subseteq Nat

VARIABLE session

Decisions ==
    [boundary: {"session_start", "evidence_complete", "provider_failure"},
     action: {"assign_new_lease", "retain_lease"},
     reason: {"local_policy", "low_risk_local_review", "cloud_admitted", "local_fallback"}
                 \cup Denials,
     provider: {"local", "cloud"},
     reserve: Reserves]

\* The events by what they carry.
BareEvents ==
    [type: {"session.started", "context.compiled", "session.completed", "session.failed",
            "session.cancelled", "session.interrupted", "assistant.message.started"},
     at: Ticks]
AdmissionEvents ==
    [type: {"cloud.egress.admission.recorded"}, at: Ticks, verdict: {"pass", "deny"}]
DecisionEvents == [type: {"routing.decision.recorded"}, at: Ticks, decision: Decisions]
RouteEvents == [type: {"route.assigned"}, at: Ticks, provider: {"local", "cloud"}]
AttemptEvents ==
    [type: {"inference.attempt.started"}, at: Ticks, phase: {"investigation", "synthesis"},
     tooling: {"none", "allowed", "required"}, structured: BOOLEAN, reserve: Reserves]
MessageEvents ==
    [type: {"assistant.message.completed"}, at: Ticks, attempt: 1 .. Rounds,
     stop: {"stop", "tool_calls", "error"}, complete: BOOLEAN,
     parse: {"none", "accepted", "rejected"}]
FinishEvents ==
    [type: {"inference.attempt.finished"}, at: Ticks, attempt: 1 .. Rounds,
     outcome: Outcomes, disposition: {"not_sent", "sent"}, cost: FinalCosts,
     provenance: {"local_zero_cost", "reserved_unknown", "priced"}]
CallEvents ==
    [type: {"tool.call.requested"}, at: Ticks, tool: {"inspect_git_changes", "read_text_file"}]
ReturnEvents == [type: {"tool.call.completed"}, at: Ticks, ok: BOOLEAN]
CheckEvents ==
    [type: {"completion.obligations.checked"}, at: Ticks, resolved: BOOLEAN,
     remaining: 0 .. Rounds, outcome: {"accepted", "retry", "exhausted"}]

Events ==
    UNION {BareEvents, AdmissionEvents, DecisionEvents, RouteEvents, AttemptEvents,
           MessageEvents, FinishEvents, CallEvents, ReturnEvents, CheckEvents}

AppendEvent(e) ==
    /\ Accepts(session, e)
    /\ session' = Reduce(session, e)

LogInit == \E hybrid \in BOOLEAN, at \in Ticks : session = NewSession(hybrid, at)
LogNext == \E e \in Events : AppendEvent(e)
LogSpec == LogInit /\ [][LogNext]_session

-----------------------------------------------------------------------------
(* Properties *)

\* Every state the reducer folds a log into has the fields of a session, with their types.
Shape ==
    /\ DOMAIN session = DOMAIN NewSession(FALSE, 0)
    /\ DOMAIN session.attempt = DOMAIN NoAttempt
    /\ DOMAIN session.message = DOMAIN NoMessage

Counts ==
    /\ session.at \in Nat /\ session.deadline \in Int
    /\ session.leases \in Nat /\ session.changes \in Nat
    /\ session.assistants \in Nat /\ session.contexts \in Nat
    /\ session.attempts \in Nat /\ session.paid \in Nat /\ session.calls \in Nat
    /\ session.remaining \in Nat /\ session.reserved \in Nat

Marks ==
    /\ session.hybrid \in BOOLEAN /\ session.inspected \in BOOLEAN
    /\ session.investigated \in BOOLEAN
    /\ session.status \in Terminal \cup {"created", "running"}
    /\ session.provider \in {"none", "local", "cloud"}
    /\ session.admission \in {"none", "pass", "deny"}
    /\ session.check \in {"none", "accepted", "retry", "exhausted"}
    /\ session.decided \subseteq {"session_start", "evidence_complete", "provider_failure"}
    /\ session.decision \in Decisions \cup {NoDecision}

InRound ==
    /\ session.message.status \in {"none", "streaming", "completed", "failed"}
    /\ session.message.call \in {"none", "requested", "completed", "failed"}
    /\ session.attempt.open \in BOOLEAN /\ session.attempt.structured \in BOOLEAN
    /\ session.attempt.phase \in {"none", "investigation", "synthesis"}
    /\ session.attempt.outcome \in Outcomes \cup {"none"}
    /\ session.attempt.reserve \in Nat

TypeOK == Shape /\ Counts /\ Marks /\ InRound

\* A review is completed only on the changes it inspected, and on a synthesis routed
\* after the inspection: the guards that see to it are spread over five events.
CompletedOnEvidence ==
    session.status = "completed" =>
        /\ session.inspected /\ session.investigated
        /\ session.attempt.phase = "synthesis"
        /\ session.decided \cap {"evidence_complete", "provider_failure"} # {}

\* No message of a hybrid review goes to its authority's cloud provider but under an egress
\* admission that passed and a reservation of its decision, and at most one does, whatever is
\* retried; and no other message of any review is paid for. Where the messages of a local
\* review go is for its coordinator to keep: the store does not know its providers.
CloudOnlyAdmitted ==
    session.attempt.open =>
        /\ session.hybrid /\ session.provider = "cloud" =>
               /\ session.admission = "pass"
               /\ session.attempt.reserve = session.decision.reserve
               /\ session.attempt.reserve > 0
               /\ session.paid = 1
        /\ session.attempt.reserve > 0 => session.hybrid /\ session.provider = "cloud"

\* A session that ended left no reservation unanswered: the attempt each one was made for
\* was started and finished.
ReservationAnswered ==
    session.status \in Terminal =>
        /\ session.reserved > 0 => session.paid = 1
        /\ ~session.attempt.open /\ session.contexts = session.attempts

\* After a fallback the session stays with the local model.
FallbackStaysLocal ==
    [][ "provider_failure" \in session.decided =>
            session'.paid = session.paid /\ session'.reserved = session.reserved ]_session

=============================================================================
