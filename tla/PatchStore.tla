----------------------------- MODULE PatchStore -----------------------------
(***************************************************************************)
(* The durable row of one coding run, as the application's store keeps it: *)
(* each operation is one SQLite transaction that throws unless its guard   *)
(* (Can...) holds and otherwise leaves the row its operator returns.       *)
(* The model requests of a run come one after the other, so the row keeps  *)
(* how many were reserved and settled and the state of the last one.       *)
(* A patch is named by the source tree it leads to: Base is an empty one.  *)
(***************************************************************************)
EXTENDS CodingRouter

CONSTANTS
    MaxCost   \* maxCostMicrousd of the run, in cloud requests

ASSUME StoreAssumption == MaxCost \in Nat

RequestPhases == {"planner", "local", "critic", "cloud"}
Price(phase) == IF phase = "local" THEN 0 ELSE 1

Terminal == {"completed", "failed", "cancelled", "interrupted", "blocked"}

NoCheck == [src |-> NoSource, after |-> NoSource, passed |-> FALSE, fresh |-> FALSE]

NewRun(policy) ==
    [policy |-> policy, status |-> "created", phase |-> "pending",
     cp |-> NoRouter, check |-> NoCheck, plan |-> FALSE, handoff |-> NoSource, recoveries |-> 0,
     draft |-> NoSource, draftCalls |-> 0, verdict |-> "none", criticCurrent |-> FALSE,
     patch |-> [kind |-> "none", src |-> Base],
     checks |-> [status |-> "not_run", src |-> NoSource, after |-> NoSource],
     used |-> [p \in RequestPhases |-> 0], receipts |-> [p \in RequestPhases |-> 0],
     last |-> [phase |-> "none", state |-> "none"],
     spent |-> 0, reserved |-> 0, decision |-> "none"]

Running(run) == run.status = "running"
Unresolved(run) == run.last.state \in {"reserved", "started", "unknown"}
Calls(run) == run.used["planner"] + run.used["local"] + run.used["critic"] + run.used["cloud"]
CriticPolicy(run) == run.policy = "local_critic_repair"
Reviewed(run) == run.policy = "cloud_plan_local_review"
HasHandoff(run) == run.handoff # NoSource

Start(run) == [run EXCEPT !.status = "running", !.phase = "preparing"]

CanSetPhase(run, phase) ==
    /\ Running(run)
    /\ CriticPolicy(run) =>
         /\ phase \in {"preparing", "local_solver", "cloud_critic", "checking"}
         /\ phase = "preparing" => run.phase = "preparing" /\ run.cp.seq = 0 /\ Calls(run) = 0
         /\ phase = "cloud_critic" =>
              run.phase = "local_solver" /\ run.cp.reason = "critic_request_started" /\ run.draft # NoSource
         /\ phase = "local_solver" =>
              \/ run.phase = "preparing"
              \/ /\ run.phase = "cloud_critic"
                 /\ run.cp.reason = "critic_repair_required" /\ run.verdict = "repair_required"
         /\ phase = "checking" => run.cp.decision = "submit"
SetPhase(run, phase) == [run EXCEPT !.phase = phase]

RecordTool(run) == [run EXCEPT !.criticCurrent = FALSE]
InvalidateCheckpointCheck(run) == [run EXCEPT !.check.fresh = FALSE, !.criticCurrent = FALSE]

CanRecordCheckpointCheck(run, check) ==
    /\ Running(run) /\ run.phase = "local_solver" /\ ~Unresolved(run)
    /\ check.fresh = (check.src = check.after)
    /\ check.passed => check.src = check.after
RecordCheckpointCheck(run, check) == [run EXCEPT !.check = check]

(***************************************************************************)
(* A checkpoint of the worker's router.                                    *)
(***************************************************************************)
Ordered(run, cp) ==
    /\ cp.policy = run.policy /\ cp.seq = run.cp.seq + 1
    /\ cp.decision # "stop" => ~Unresolved(run)

AdmitsReview(run, cp) ==
    /\ Reviewed(run) => cp.decision # "submit" /\ cp.state # "submitted"
    /\ cp.reason \in {"review_required", "review_time_reserve"} =>
         /\ Reviewed(run) /\ run.phase = "local_solver"
         /\ cp.decision = "checkpoint" /\ HandoffCandidate(cp)
         /\ ~HasHandoff(run) /\ run.recoveries = 0
    /\ cp.reason = "review_required" =>
         run.check.passed /\ run.check.src = cp.src /\ run.check.after = cp.src /\ cp.chk = cp.src

AdmitsSubmission(run, cp) ==
    cp.decision = "submit" =>
        /\ run.phase = "local_solver" \/ (CriticPolicy(run) /\ run.phase = "cloud_critic")
        /\ run.check.passed /\ cp.src = run.check.src /\ cp.chk = cp.src
        /\ CriticPolicy(run) /\ ~run.check.fresh => run.cp.chk = cp.src

AdmitsEscalation(run, cp) ==
    cp.decision = "escalate" =>
        /\ run.policy \notin {"local_only", "local_critic_repair"} /\ run.phase = "local_solver"
        /\ run.recoveries = 0 /\ run.handoff = cp.src
        /\ cp.reason = "handoff_confirmed" /\ cp.handoffUsed

\* validateCriticCheckpointBudget: the repair allowance is part of one episode, never a reset.
CriticBudget(cp) ==
    /\ cp.policy = "local_critic_repair" /\ cp.calls <= DraftLimit + RepairLimit
    /\ PhaseCalls(cp) \in 0..CallLimit(cp)
    /\ cp.half = "draft" => cp.start = 0
    /\ cp.half = "repair" => cp.criticUsed
    /\ ~cp.handoffUsed /\ cp.state \notin {"planner", "cloud"} /\ cp.decision # "escalate"

CriticCounters(run, cp) ==
    LET prior    == run.cp
        local    == cp.reason = "local_request_started"
        repaired == cp.reason = "critic_repair_required"
    IN  /\ prior.state \in {"submitted", "stopped"} => cp.decision = "stop"
        /\ cp.calls = prior.calls + (IF local THEN 1 ELSE 0)
        /\ local => /\ prior.state = "local" /\ prior.decision = "continue"
                    /\ prior.reason # "local_request_started"
        /\ ~repaired => cp.half = prior.half /\ cp.start = prior.start
        /\ cp.criticUsed = (prior.criticUsed \/ cp.reason = "critic_request_started")
        /\ cp.chk \notin {NoSource, prior.chk} =>
             /\ cp.reason = "visible_check_passed" /\ run.check.passed /\ run.check.fresh
             /\ run.check.src = cp.src /\ run.check.after = cp.src
        /\ cp.src # prior.src =>
             cp.reason \in {"command_observed", "finish_required", "visible_check_tree_changed",
                            "visible_checks_failed", "execution_failure", "cancelled"}

VerdictReason ==
    [acceptable |-> "critic_acceptable", repair_required |-> "critic_repair_required",
     insufficient_context |-> "critic_insufficient_context", none |-> "none"]

CriticSteps(run, cp) ==
    LET prior == run.cp
    IN  CASE cp.reason = "critic_required" ->
               /\ run.phase = "local_solver" /\ run.draft = NoSource /\ ~prior.criticUsed
               /\ cp.half = "draft" /\ prior.reason = "local_request_started"
               /\ cp.state = "critic" /\ cp.decision = "checkpoint"
               /\ run.check.passed /\ run.check.fresh
               /\ run.check.src = cp.src /\ run.check.after = cp.src /\ cp.chk = cp.src
          [] cp.reason = "critic_request_started" ->
               /\ prior.reason = "critic_required" /\ prior.state = "critic" /\ ~prior.criticUsed
               /\ run.draft = cp.src /\ cp.state = "critic" /\ cp.decision = "continue"
          [] cp.reason \in {"critic_acceptable", "critic_repair_required", "critic_insufficient_context"} ->
               /\ prior.reason = "critic_request_started" /\ run.phase = "cloud_critic"
               /\ cp.src = run.draft /\ cp.reason = VerdictReason[run.verdict]
               /\ cp.reason = "critic_repair_required" =>
                    /\ cp.half = "repair" /\ PhaseCalls(cp) = 0 /\ cp.chk = NoSource
                    /\ cp.state = "local" /\ prior.half = "draft"
          [] OTHER -> cp.state # "critic" /\ (prior.state = "critic" => cp.decision = "stop")

AdmitsCriticStep(run, cp) ==
    CriticPolicy(run) =>
        /\ CriticBudget(cp)
        /\ IF run.cp.seq = 0
           THEN cp.reason = "initialized" /\ cp.calls = 0 /\ ~cp.criticUsed /\ cp.half = "draft"
           ELSE CriticCounters(run, cp) /\ CriticSteps(run, cp)
        /\ cp.decision = "submit" =>
             \/ cp.reason = "critic_acceptable" /\ run.verdict = "acceptable"
             \/ cp.half = "repair" /\ run.verdict = "repair_required"

CanRecordCheckpoint(run, cp) ==
    /\ Running(run) /\ Ordered(run, cp)
    /\ AdmitsCriticStep(run, cp) /\ AdmitsReview(run, cp)
    /\ AdmitsSubmission(run, cp) /\ AdmitsEscalation(run, cp)

\* The digest of the tree re-establishes that a read-only command did not stale the last check.
RecordCheckpoint(run, cp) ==
    [run EXCEPT
        !.cp = cp,
        !.check.fresh = /\ CriticPolicy(run) => cp.chk = cp.src
                        /\ run.check.src = cp.src /\ run.check.after = cp.src
                        /\ cp.reason # "critic_repair_required",
        !.criticCurrent = @ /\ cp.reason # "critic_repair_required" /\ run.draft = cp.src]

(***************************************************************************)
(* The critic's frozen draft and its verdict, the plan, the handoff.       *)
(***************************************************************************)
LocalSettled(run, n) == ~Unresolved(run) /\ run.used["local"] = n /\ run.receipts["local"] = n

CanRecordCriticDraft(run, src) ==
    /\ Running(run) /\ CriticPolicy(run) /\ run.phase = "local_solver"
    /\ run.draft = NoSource /\ run.verdict = "none"
    /\ run.cp.reason = "critic_required" /\ run.cp.src = src /\ run.cp.chk = src
    /\ LocalSettled(run, run.cp.calls)
RecordCriticDraft(run, src) == [run EXCEPT !.draft = src, !.draftCalls = run.cp.calls]

CanRecordCriticReceipt(run, src) ==
    /\ Running(run) /\ CriticPolicy(run) /\ run.phase = "cloud_critic"
    /\ run.verdict = "none" /\ run.draft = src /\ run.cp.src = src
    /\ run.cp.reason = "critic_request_started" /\ ~Unresolved(run)
    /\ run.used["critic"] = 1 /\ run.receipts["critic"] = 1
RecordCriticReceipt(run, verdict) == [run EXCEPT !.verdict = verdict, !.criticCurrent = TRUE]

CanRecordPlan(run) ==
    /\ Running(run) /\ Planned(run.policy) /\ run.phase = "cloud_planner" /\ ~run.plan
    /\ run.used["planner"] = 1 /\ run.receipts["planner"] = 1 /\ ~Unresolved(run)

CanRecordHandoff(run, src, chk, patch) ==
    /\ Running(run) /\ (run.policy = "local_first" \/ Planned(run.policy))
    /\ run.phase = "local_solver" /\ HandoffCandidate(run.cp)
    /\ ~HasHandoff(run) /\ run.recoveries = 0 /\ ~Unresolved(run)
    /\ src = run.cp.src /\ patch = run.patch.src /\ chk = run.cp.chk

CanBeginCloudRecovery(run) ==
    /\ Running(run) /\ (run.policy = "local_first" \/ Planned(run.policy))
    /\ run.phase = "local_solver" /\ run.cp.decision = "escalate"
    /\ HasHandoff(run) /\ run.recoveries = 0 /\ ~Unresolved(run)
BeginCloudRecovery(run) == [run EXCEPT !.phase = "cloud_solver", !.recoveries = 1]

(***************************************************************************)
(* Model requests.                                                         *)
(***************************************************************************)
CanReserve(run, phase, call) ==
    /\ Running(run) /\ ~Unresolved(run)
    /\ CriticPolicy(run) =>
         /\ Calls(run) < DraftLimit + RepairLimit + 1 /\ phase \in {"local", "critic"}
         /\ phase = "local" =>
              /\ run.phase = "local_solver" /\ run.cp.reason = "local_request_started"
              /\ run.cp.calls = call /\ call = run.used["local"] + 1 /\ call <= DraftLimit + RepairLimit
         /\ phase = "critic" =>
              /\ run.phase = "cloud_critic" /\ run.draft # NoSource /\ run.verdict = "none"
              /\ run.used["critic"] = 0 /\ run.cp.reason = "critic_request_started"

\* A request of the draft also keeps room for the critic's largest reservation.
Affordable(run, phase) ==
    LET headroom == IF phase = "local" /\ CriticDraft(run.cp) THEN Price("critic") ELSE 0
    IN  run.spent + run.reserved + Price(phase) + headroom <= MaxCost

ReserveRequest(run, phase) ==
    [run EXCEPT !.used[phase] = @ + 1, !.last = [phase |-> phase, state |-> "reserved"],
                !.reserved = @ + Price(phase)]

StartRequest(run) == [run EXCEPT !.last.state = "started"]

\* settle: not_sent of a reserved request; succeeded, at its cost, or unknown of a started one.
Settle(run, outcome, cost) ==
    LET phase == run.last.phase
    IN  [run EXCEPT !.last.state = outcome,
                    !.reserved = IF outcome = "unknown" THEN @ ELSE @ - Price(phase),
                    !.spent = @ + cost,
                    !.receipts[phase] = @ + (IF outcome = "succeeded" THEN 1 ELSE 0)]

(***************************************************************************)
(* The patch, its final check, and the end of the run.                     *)
(***************************************************************************)
CanRecordPatch(run, kind, src) ==
    /\ Running(run)
    /\ kind = "submitted" /\ Reviewed(run) =>
         /\ run.phase = "cloud_solver" /\ run.recoveries = 1 /\ run.plan /\ HasHandoff(run)
         /\ ~Unresolved(run) /\ run.receipts["cloud"] >= 1 /\ run.used["cloud"] = run.receipts["cloud"]
    /\ kind = "submitted" /\ CriticPolicy(run) =>
         /\ run.patch.kind # "submitted" /\ run.verdict \in {"acceptable", "repair_required"}
         /\ run.cp.decision = "submit" /\ ~Unresolved(run)
         /\ run.verdict = "acceptable" => run.criticCurrent /\ src = run.draft
\* Recovered work never replaces the submission; it has no check result.
RecordPatch(run, kind, src) ==
    CASE kind = "submitted" -> [run EXCEPT !.patch = [kind |-> kind, src |-> src]]
      [] kind = "recovered" /\ run.patch.kind = "submitted" -> run
      [] OTHER ->
             [run EXCEPT !.patch = [kind |-> kind, src |-> src], !.checks = NewRun(run.policy).checks]

CanRecordChecks(run, checks) ==
    /\ Running(run) /\ run.patch.kind # "recovered"
    /\ CriticPolicy(run) =>
         /\ run.phase = "checking" /\ run.checks.status = "not_run"
         /\ run.cp.decision = "submit" /\ checks.src = run.cp.src
         /\ checks.status = "passed" => checks.after = checks.src
RecordChecks(run, checks) ==
    [run EXCEPT !.checks = checks,
                !.criticCurrent = @ /\ checks.after = run.draft]

CanComplete(run) ==
    /\ run.patch.kind = "submitted" /\ run.patch.src # Base
    /\ Reviewed(run) => run.recoveries = 1
    /\ CriticPolicy(run) =>
         /\ run.verdict \in {"acceptable", "repair_required"} /\ run.cp.decision = "submit"
         /\ run.checks = [status |-> "passed", src |-> run.cp.src, after |-> run.cp.src]
         /\ run.verdict = "acceptable" => run.criticCurrent /\ run.patch.src = run.draft
         /\ run.recoveries = 0 /\ ~run.plan /\ ~HasHandoff(run)
    /\ run.last.state \notin {"reserved", "started", "unknown"} /\ run.reserved = 0

\* Fault: whatever is still open is taken for unsent.
ClosedUnsent(run) == IF run.last.state \in {"reserved", "started"} THEN Settle(run, "not_sent", 0) ELSE run
\* A request that was only reserved was not sent; one that was started may have been.
Closed(run) ==
    CASE run.last.state = "reserved" -> Settle(run, "not_sent", 0)
      [] run.last.state = "started" -> Settle(run, "unknown", 0)
      [] OTHER -> run
Finish(run, status) == [Closed(run) EXCEPT !.status = status, !.phase = "finished"]

CanDecide(run) == run.status \in Terminal /\ run.patch.src # Base

=============================================================================
