---------------------------- MODULE TaskController ----------------------------
(***************************************************************************)
(* The desktop's task controller (general-tasks/controller.ts) over the    *)
(* session it runs (session.ts): what start, resume, pause, cancel, a      *)
(* consultation decision, a quit and a restart make of the task record,    *)
(* the job's policy, the run claim and the event log.  What a session does *)
(* inside its one private phase is RunClaim's and TaskRunner's matter; here *)
(* it is a stage with an outcome.                                          *)
(***************************************************************************)
EXTENDS FiniteSets

CONSTANT Tasks

VARIABLES
    status,    \* TaskRecord.status
    reason,    \* TaskRecord.reason, as far as canResume tells it apart
    policy,    \* the job's policy: "none", "live" or "cancelled"
    claim,     \* the run claim of its context, and whether its owner lives
    log,       \* "completed", "submitted" and "judged", once recorded
    blocked,   \* an operation without its outcome, or a stop that is for good
    consult,   \* the consultation of the task
    expired,   \* the deadline of the task has passed
    changed,   \* the configuration is no longer the one tasks were created in
    stage,     \* what the entry in `active` awaits
    asked,     \* which of pause and cancel its entry was asked for
    closing

durable == <<status, reason, policy, claim, log, blocked, consult, expired>>
vars == <<durable, changed, stage, asked, closing>>

Statuses == {"queued", "running", "paused", "incomplete", "cancelled", "submitted"}

\* The entries of `active` that came from launch().
Executing == {"readiness", "working", "judging"}

Idle(t) == stage[t] = "idle"

CleanupConfirmed(t) == Idle(t) /\ claim[t] = "released"

-----------------------------------------------------------------------------
Init ==
    /\ status = [t \in Tasks |-> "queued"] /\ reason = [t \in Tasks |-> "other"]
    /\ policy = [t \in Tasks |-> "none"] /\ claim = [t \in Tasks |-> "none"]
    /\ log = [t \in Tasks |-> {}] /\ blocked = {} /\ consult = [t \in Tasks |-> "none"]
    /\ expired = {} /\ changed = FALSE
    /\ stage = [t \in Tasks |-> "idle"] /\ asked = [t \in Tasks |-> {}] /\ closing = FALSE

Saved(t, s, why) == status' = [status EXCEPT ![t] = s] /\ reason' = [reason EXCEPT ![t] = why]

\* The entry leaves `active`.
Leaves(t) == stage' = [stage EXCEPT ![t] = "idle"] /\ asked' = [asked EXCEPT ![t] = {}]

-----------------------------------------------------------------------------
(* start, resume, launch *)

\* canResume, in an app that is not closing.
Resumable(t) ==
    /\ \/ status[t] = "paused"
       \/ status[t] = "incomplete" /\ reason[t] \in {"interrupted", "model_unavailable"}
    /\ "completed" \in log[t] \/ t \notin expired
    /\ t \notin blocked /\ consult[t] # "pending"

Launch(t) ==
    /\ ~closing /\ ~changed /\ \A u \in Tasks : Idle(u)
    /\ status[t] = "queued" \/ Resumable(t)
    /\ Saved(t, "running", "other")
    /\ stage' = [stage EXCEPT ![t] = "readiness"]
    /\ UNCHANGED <<policy, claim, log, blocked, consult, expired, changed, asked, closing>>

-----------------------------------------------------------------------------
(* execute *)

\* What execute() makes of a session's result.
Projected(t, result) ==
    IF result = "submitted" /\ ~changed /\ t \notin blocked THEN "submitted"
    ELSE IF "cancel" \in asked[t] THEN "cancelled"
    ELSE IF result = "paused" THEN "paused" ELSE "incomplete"

\* The catch of execute().
Caught(t) == Saved(t, IF "cancel" \in asked[t] THEN "cancelled" ELSE "incomplete", "error")

ExecuteEnds(t, result, why) ==
    /\ Leaves(t)
    /\ \/ Saved(t, Projected(t, result), IF changed THEN "error" ELSE why)
       \/ changed /\ Caught(t)

\* Readiness, the profile, the session or the store throws.
Throws(t) ==
    /\ stage[t] \in {"readiness", "judging"}
    /\ Leaves(t) /\ Caught(t)
    /\ UNCHANGED <<policy, claim, log, blocked, consult, expired, changed, closing>>

\* Fault: the deadline also stops what only needs finalising.
DeadlineStopsAll(t) == t \in expired

DeadlineStops(t) == t \in expired /\ "completed" \notin log[t]

\* A stop that came while the image was inspected.
StoppedEarly(t) ==
    /\ stage[t] = "readiness" /\ ~changed
    /\ \/ "cancel" \in asked[t] /\ UNCHANGED <<status, reason>>
       \/ "cancel" \notin asked[t] /\ "pause" \in asked[t] /\ Saved(t, "paused", "other")
       \/ asked[t] = {} /\ DeadlineStops(t) /\ Saved(t, "incomplete", "other")
    /\ Leaves(t)
    /\ UNCHANGED <<policy, claim, log, blocked, consult, expired, changed, closing>>

\* Fault: the session does not look at the policy it finds.
SessionMayStartAnyway(t) == asked[t] = {} /\ ~DeadlineStops(t)

SessionMayStart(t) == asked[t] = {} /\ ~DeadlineStops(t) /\ policy[t] # "cancelled"

\* The session creates the job and works, or finds its completion and submits it.
SessionStarts(t) ==
    /\ stage[t] = "readiness" /\ ~changed
    /\ SessionMayStart(t)
    /\ policy' = [policy EXCEPT ![t] = "live"]
    /\ IF "completed" \in log[t]
       THEN stage' = [stage EXCEPT ![t] = "judging"] /\ log' = [log EXCEPT ![t] = @ \union {"submitted"}]
       ELSE stage' = [stage EXCEPT ![t] = "working"] /\ UNCHANGED log
    /\ UNCHANGED <<status, reason, claim, blocked, consult, expired, changed, asked, closing>>

\* The session finds the job cancelled.
SessionRefused(t) ==
    /\ stage[t] = "readiness" /\ ~changed
    /\ asked[t] = {} /\ ~DeadlineStops(t) /\ policy[t] = "cancelled"
    /\ ExecuteEnds(t, "incomplete", "other")
    /\ UNCHANGED <<policy, claim, log, blocked, consult, expired, changed, closing>>

Take(t) ==
    /\ stage[t] = "working" /\ claim[t] # "held"
    /\ claim' = [claim EXCEPT ![t] = "held"]
    /\ UNCHANGED <<status, reason, policy, log, blocked, consult, expired, changed, stage, asked, closing>>

RunProposes(t) ==
    /\ stage[t] = "working" /\ claim[t] = "held" /\ policy[t] = "live" /\ consult[t] = "none"
    /\ consult' = [consult EXCEPT ![t] = "pending"]
    /\ UNCHANGED <<status, reason, policy, claim, log, blocked, expired, changed, stage, asked, closing>>

\* The runner ends without having claimed the context.
WorkRefused(t) ==
    /\ stage[t] = "working" /\ claim[t] # "held"
    /\ ExecuteEnds(t, "incomplete", "other")
    /\ UNCHANGED <<policy, claim, log, blocked, consult, expired, changed, closing>>

\* It ends without a completion: stopped, failed, out of allowance, or with an outcome lost.
WorkEnds(t, cleaned, lost) ==
    /\ stage[t] = "working" /\ claim[t] = "held"
    /\ claim' = [claim EXCEPT ![t] = IF cleaned THEN "released" ELSE "cleanup_required"]
    /\ blocked' = IF lost THEN blocked \union {t} ELSE blocked
    /\ \/ ExecuteEnds(t, "incomplete", "other")
       \/ cleaned /\ ~lost /\ policy[t] = "live" /\ ExecuteEnds(t, "incomplete", "model_unavailable")
       \/ /\ cleaned /\ ~lost /\ policy[t] = "live"
          /\ "pause" \in asked[t] \/ consult[t] = "pending"
          /\ ExecuteEnds(t, "paused", "other")
    /\ UNCHANGED <<policy, log, consult, expired, changed, closing>>

\* Fault: a cancel that comes while the sandbox closes is not looked for.
MayCompleteCancelled(t) == claim[t] = "held" /\ t \notin expired /\ consult[t] # "pending"

MayComplete(t) ==
    /\ claim[t] = "held" /\ t \notin expired /\ consult[t] # "pending"
    /\ "cancel" \notin asked[t] /\ policy[t] = "live"

\* completed, the release and session_submitted follow each other without a wait.
Complete(t) ==
    /\ stage[t] = "working" /\ MayComplete(t)
    /\ claim' = [claim EXCEPT ![t] = "released"]
    /\ log' = [log EXCEPT ![t] = @ \union {"completed", "submitted"}]
    /\ stage' = [stage EXCEPT ![t] = "judging"]
    /\ UNCHANGED <<status, reason, policy, blocked, consult, expired, changed, asked, closing>>

\* The deadline passes between completed and the return of the run, which reports it as missed.
CompleteLate(t) ==
    /\ stage[t] = "working" /\ MayComplete(t)
    /\ claim' = [claim EXCEPT ![t] = "released"]
    /\ log' = [log EXCEPT ![t] = @ \union {"completed"}]
    /\ expired' = expired \union {t}
    /\ ExecuteEnds(t, "incomplete", "late")
    /\ UNCHANGED <<policy, blocked, consult, changed, closing>>

\* The evidence pass is judged, skipped or cut short; only a pause leaves it open.
JudgeEnds(t) ==
    /\ stage[t] = "judging"
    /\ \/ "pause" \in asked[t] /\ "judged" \notin log[t] /\ ExecuteEnds(t, "paused", "other") /\ UNCHANGED log
       \/ ExecuteEnds(t, "submitted", "other") /\ log' = [log EXCEPT ![t] = @ \union {"judged"}]
    /\ UNCHANGED <<policy, claim, blocked, consult, expired, changed, closing>>

-----------------------------------------------------------------------------
(* The user *)

Pause(t) ==
    /\ ~Idle(t) /\ "pause" \notin asked[t]
    /\ asked' = [asked EXCEPT ![t] = @ \union {"pause"}]
    /\ UNCHANGED <<durable, changed, stage, closing>>

\* Through the session, which an entry has from the end of its readiness on.
CancelActive(t) ==
    /\ stage[t] \in Executing /\ status[t] # "cancelled"
    /\ asked' = [asked EXCEPT ![t] = @ \union {"cancel"}]
    /\ policy' = IF stage[t] = "readiness" THEN policy ELSE [policy EXCEPT ![t] = "cancelled"]
    /\ Saved(t, "cancelled", "other")
    /\ UNCHANGED <<claim, log, blocked, consult, expired, changed, stage, closing>>

\* Fault: a clean-up can be asked for again while the app closes.
CanRetryClosing(t) == status[t] = "cancelled" /\ Idle(t) /\ claim[t] \notin {"none", "released"}

CanRetryCleanup(t) == ~closing /\ status[t] = "cancelled" /\ Idle(t) /\ claim[t] \notin {"none", "released"}

PolicyCancelled(t) == [policy EXCEPT ![t] = IF policy[t] = "live" THEN "cancelled" ELSE @]

\* A task that is not active, or the clean-up of a cancelled one once more.
CancelIdle(t) ==
    /\ Idle(t) /\ status[t] # "submitted"
    /\ status[t] = "cancelled" => CanRetryCleanup(t)
    /\ policy' = IF status[t] = "cancelled" THEN policy ELSE PolicyCancelled(t)
    /\ Saved(t, "cancelled", "other")
    /\ IF claim[t] \in {"none", "released"}
       THEN UNCHANGED <<claim, stage>>
       ELSE claim' = [claim EXCEPT ![t] = "held"] /\ stage' = [stage EXCEPT ![t] = "cleaning"]
    /\ UNCHANGED <<log, blocked, consult, expired, changed, asked, closing>>

\* cleanupInterrupted(), which has taken the claim over.
CleanEnds(t, ok) ==
    /\ stage[t] = "cleaning"
    /\ claim' = [claim EXCEPT ![t] = IF ok THEN "released" ELSE "cleanup_required"]
    /\ Leaves(t)
    /\ UNCHANGED <<status, reason, policy, log, blocked, consult, expired, changed, closing>>

\* decideConsultation: approve and decline need a stopped task, a revocation does not.
Decide(t, revoke) ==
    /\ consult[t] # "none" /\ consult[t] # (IF revoke THEN "revoked" ELSE "decided")
    /\ status[t] \notin {"cancelled", "submitted"}
    /\ ~revoke =>
         /\ consult[t] = "pending"
         /\ CleanupConfirmed(t) /\ status[t] \in {"paused", "incomplete"}
    /\ consult' = [consult EXCEPT ![t] = IF revoke THEN "revoked" ELSE "decided"]
    /\ IF Idle(t) THEN Saved(t, "paused", "other") ELSE UNCHANGED <<status, reason>>
    /\ UNCHANGED <<policy, claim, log, blocked, expired, changed, stage, asked, closing>>

\* close(): every entry is asked to pause, and the quit waits for it.
Close ==
    /\ ~closing /\ closing' = TRUE
    /\ asked' = [t \in Tasks |-> IF Idle(t) THEN {} ELSE asked[t] \union {"pause"}]
    /\ UNCHANGED <<durable, changed, stage>>

-----------------------------------------------------------------------------
(* The host *)

\* Fault: a task that was asked to stop is left as it is.
InterruptedUnlessAsked(t) == status[t] = "running" /\ asked[t] = {}

Interrupted(t) == status[t] = "running"

\* The constructor's projection of the tasks a process left running.
Restarted ==
    /\ status' = [t \in Tasks |-> IF Interrupted(t) THEN "incomplete" ELSE status[t]]
    /\ reason' = [t \in Tasks |-> IF Interrupted(t) THEN "interrupted" ELSE reason[t]]
    /\ stage' = [t \in Tasks |-> "idle"] /\ asked' = [t \in Tasks |-> {}] /\ closing' = FALSE

Orphaned(c) == [t \in Tasks |-> IF c[t] = "held" THEN "orphaned" ELSE c[t]]

\* Whatever operations the app had open are lost.
Loses ==
    \E lost \in SUBSET {t \in Tasks : stage[t] = "working" /\ claim[t] = "held"} :
        blocked' = blocked \union lost

Die ==
    /\ Restarted /\ Loses
    /\ claim' = Orphaned(claim)
    /\ UNCHANGED <<policy, log, consult, expired, changed>>

\* It ends between the cancelled policy and the cancelled record.
DieCancelling(t) ==
    /\ status[t] \notin {"submitted", "cancelled"} /\ policy[t] = "live"
    /\ stage[t] # "readiness"
    /\ Restarted /\ Loses
    /\ policy' = PolicyCancelled(t)
    /\ claim' = Orphaned(claim)
    /\ UNCHANGED <<log, consult, expired, changed>>

\* It ends between the completion and the release, or between that and session_submitted.
DieCompleting(t, released) ==
    /\ stage[t] = "working" /\ MayComplete(t)
    /\ Restarted
    /\ log' = [log EXCEPT ![t] = @ \union {"completed"}]
    /\ claim' = Orphaned(IF released THEN [claim EXCEPT ![t] = "released"] ELSE claim)
    /\ UNCHANGED <<policy, blocked, consult, expired, changed>>

Expire(t) ==
    /\ status[t] # "queued" /\ t \notin expired
    /\ expired' = expired \union {t}
    /\ UNCHANGED <<status, reason, policy, claim, log, blocked, consult, changed, stage, asked, closing>>

Reconfigure ==
    /\ changed' = ~changed
    /\ UNCHANGED <<durable, stage, asked, closing>>

\* The bounded waits of an active entry: inspection, session, evidence pass, clean-up.
Awaited(t) ==
    \/ Throws(t) \/ StoppedEarly(t) \/ SessionStarts(t) \/ SessionRefused(t)
    \/ WorkRefused(t)
    \/ \E cleaned, lost \in BOOLEAN : WorkEnds(t, cleaned, lost)
    \/ Complete(t) \/ CompleteLate(t) \/ JudgeEnds(t)
    \/ \E ok \in BOOLEAN : CleanEnds(t, ok)

Next ==
    \/ \E t \in Tasks :
         \/ Launch(t) \/ Awaited(t) \/ Take(t) \/ RunProposes(t)
         \/ Pause(t) \/ CancelActive(t) \/ CancelIdle(t)
         \/ \E revoke \in BOOLEAN : Decide(t, revoke)
         \/ DieCancelling(t) \/ Expire(t)
         \/ \E released \in BOOLEAN : DieCompleting(t, released)
    \/ Die \/ Close \/ Reconfigure

Spec == Init /\ [][Next]_vars

\* Every wait has its own timeout.
Fairness == \A t \in Tasks : WF_vars(Awaited(t))

FairSpec == Spec /\ Fairness

-----------------------------------------------------------------------------
(* Properties *)

TypeOK ==
    /\ status \in [Tasks -> Statuses]
    /\ reason \in [Tasks -> {"interrupted", "model_unavailable", "error", "late", "other"}]
    /\ policy \in [Tasks -> {"none", "live", "cancelled"}]
    /\ claim \in [Tasks -> {"none", "held", "orphaned", "cleanup_required", "released"}]
    /\ log \in [Tasks -> SUBSET {"completed", "submitted", "judged"}]
    /\ consult \in [Tasks -> {"none", "pending", "decided", "revoked"}]
    /\ blocked \subseteq Tasks /\ expired \subseteq Tasks
    /\ changed \in BOOLEAN /\ closing \in BOOLEAN
    /\ stage \in [Tasks -> {"idle", "cleaning"} \union Executing]
    /\ asked \in [Tasks -> SUBSET {"pause", "cancel"}]

\* No task is shown as running with nothing behind it, and nothing runs behind a
\* task that shows anything but running or cancelled.
RunningHasAnEntry ==
    \A t \in Tasks :
        /\ status[t] = "running" => stage[t] \in Executing
        /\ stage[t] \in Executing => status[t] \in {"running", "cancelled"}

\* "Cancellation is durable": from the first of its two writes on nothing completes or is
\* submitted and no session makes the policy live again; only a submission that was
\* recorded before it takes the record's place.
CancelledForGood ==
    [][\A t \in Tasks : status[t] = "cancelled" \/ policy[t] = "cancelled" =>
         /\ log'[t] \ {"judged"} = log[t] \ {"judged"}
         /\ policy[t] = "cancelled" => policy'[t] = "cancelled"
         /\ status[t] = "cancelled" /\ status'[t] # "cancelled" =>
                status'[t] = "submitted" /\ "submitted" \in log[t]]_vars

\* No session is let into a task whose record or whose policy is cancelled: each
\* may be without the other, after a cancel during readiness or a crash in one.
NothingRunsCancelled ==
    [][\A t \in Tasks : stage[t] = "readiness" /\ stage'[t] \in {"working", "judging"} =>
         status[t] # "cancelled" /\ policy[t] # "cancelled"]_vars

\* "A durable private completion only needs finalisation, which no allowance or
\* deadline gates": until it is submitted or cancelled it can be resumed; only an
\* error of the runtime or the configuration takes that from it, or a deadline that
\* passes in the very step that records it.
CompletionOutlivesDeadline ==
    \A t \in Tasks : "completed" \in log[t] /\ Idle(t) /\ policy[t] # "cancelled" =>
        \/ status[t] \in {"submitted", "cancelled"} \/ Resumable(t)
        \/ status[t] = "incomplete" /\ reason[t] \in {"error", "late"}

\* A quit that waits comes to its end, whatever is cancelled meanwhile.
QuitEnds == <>[]closing => <>[](\A t \in Tasks : Idle(t))

\* "Preview/export the exact submitted artifact": a submitted task can be exported,
\* for which artifact() asks for the released claim.
SubmittedCanBeExported ==
    \A t \in Tasks : status[t] = "submitted" /\ Idle(t) => CleanupConfirmed(t)

=============================================================================
