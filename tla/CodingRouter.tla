---------------------------- MODULE CodingRouter ----------------------------
(***************************************************************************)
(* The checkpoint state of one coding run, as the Python worker keeps it:  *)
(* which request or action may come next, how many local calls are left,   *)
(* which source the exact visible check last passed on. Every operator     *)
(* takes the router's record and returns the one after the call, whose     *)
(* fields decision and reason are the Decision that is sent to the host.   *)
(* A source tree is a number; Base is the tree the run started from.       *)
(***************************************************************************)
EXTENDS Integers

CONSTANTS
    LocalLimit,   \* local calls of a run
    DraftLimit,   \* those of the critic policy before its critic ...
    RepairLimit,  \* ... and after it asked for a repair
    FinishReserve, DuplicateLimit, FailedCheckLimit

ASSUME RouterAssumption ==
    /\ LocalLimit \in Nat /\ DraftLimit \in Nat /\ RepairLimit \in Nat
    /\ FinishReserve = 2
    /\ DuplicateLimit \in Nat \ {0} /\ FailedCheckLimit \in Nat \ {0}

Base == 0
NoSource == -1

Planned(policy) == policy \in {"cloud_plan_local", "cloud_plan_local_review"}

NoRouter ==
    [policy |-> "none", state |-> "none", decision |-> "none", reason |-> "none", seq |-> 0,
     calls |-> 0, fails |-> 0, dups |-> 0, src |-> Base, chk |-> NoSource,
     pending |-> FALSE, allowed |-> {}, handoffUsed |-> FALSE,
     half |-> "draft", start |-> 0, criticUsed |-> FALSE, receipt |-> FALSE]

CallLimit(r) ==
    IF r.policy # "local_critic_repair" THEN LocalLimit
    ELSE IF r.half = "draft" THEN DraftLimit ELSE RepairLimit
PhaseCalls(r) == r.calls - r.start
Remaining(r) == CallLimit(r) - PhaseCalls(r)
Checked(r) == r.chk = r.src
ReserveSpent(r) == Remaining(r) < FinishReserve /\ ~Checked(r)
CriticDraft(r) == r.policy = "local_critic_repair" /\ r.half = "draft"
HandoffCandidate(r) ==
    /\ r.state = "checkpoint" /\ ~r.handoffUsed
    /\ r.policy \notin {"local_only", "local_critic_repair"}

\* What a request may be answered with when left calls remain before it is counted.
Offered(left, checked) ==
    IF left <= 0 THEN {}
    ELSE (IF left > FinishReserve THEN {"run_command"} ELSE {})
         \cup (IF left >= FinishReserve THEN {"run_visible_checks"} ELSE {})
         \cup (IF checked THEN {"submit_task"} ELSE {})
         \cup {"request_help"}

AllowedActions(r) ==
    IF r.state # "local" THEN {}
    ELSE IF r.pending THEN r.allowed ELSE Offered(Remaining(r), Checked(r))

Record(r, decision, reason) == [r EXCEPT !.seq = @ + 1, !.decision = decision, !.reason = reason]
Settled(r) == [r EXCEPT !.pending = FALSE, !.allowed = {}]
Checkpoint(r, reason) == Record([Settled(r) EXCEPT !.state = "checkpoint"], "checkpoint", reason)
Stop(r, reason) ==
    Record([Settled(r) EXCEPT !.state = "stopped",
                              !.chk = IF r.policy = "local_critic_repair" THEN NoSource ELSE @],
           "stop", reason)

NewRouter(policy, src) ==
    LET planner == Planned(policy)
    IN  Record([NoRouter EXCEPT !.policy = policy, !.src = src,
                                !.state = IF planner THEN "planner" ELSE "local"],
               "continue", IF planner THEN "cloud_plan_required" ELSE "initialized")

(***************************************************************************)
(* One local request: counted before it is sent. few: fewer than two model *)
(* calls are left; late: the time reserve for the review is reached.       *)
(***************************************************************************)
BeforeLocalRequest(r, few, late) ==
    LET reserved == r.policy = "cloud_plan_local_review" \/ CriticDraft(r)
        started  == [r EXCEPT !.pending = TRUE, !.allowed = AllowedActions(r), !.calls = @ + 1]
    IN  IF reserved /\ few THEN Checkpoint(r, "insufficient_model_calls")
        ELSE IF reserved /\ late
             THEN Checkpoint(r, IF CriticDraft(r) THEN "critic_time_reserve" ELSE "review_time_reserve")
        ELSE IF Remaining(r) = 0 THEN Checkpoint(r, "local_call_limit")
        ELSE IF ReserveSpent(r) THEN Checkpoint(r, "finish_reserve_exhausted")
        ELSE Record(started, "continue", "local_request_started")

ContinueOrCheckpoint(r, reason) ==
    IF r.fails >= FailedCheckLimit THEN Checkpoint(r, "visible_checks_failed")
    ELSE IF r.dups >= DuplicateLimit THEN Checkpoint(r, "repeated_observation")
    ELSE IF Remaining(r) = 0 THEN Checkpoint(r, "local_call_limit")
    ELSE IF ReserveSpent(r) THEN Checkpoint(r, "finish_reserve_exhausted")
    ELSE Record(r, "continue",
                IF Remaining(r) <= FinishReserve /\ ~Checked(r) THEN "finish_required" ELSE reason)

\* A command ran and left the tree src; repeated: the same command with the same output as before.
ObserveCommand(r, src, repeated) ==
    LET changed == src # r.src
        same    == IF r.dups < DuplicateLimit THEN r.dups + 1 ELSE DuplicateLimit
    IN  ContinueOrCheckpoint(
            [Settled(r) EXCEPT !.src = src, !.chk = IF changed THEN NoSource ELSE @,
                               !.dups = IF changed THEN 0 ELSE IF repeated THEN same ELSE 1],
            "command_observed")

\* The exact visible check ran on the current tree and left the tree after.
ObserveVisibleCheck(r, zeroExit, after, timedOut) ==
    LET passed == zeroExit /\ after = r.src
        seen   == [Settled(r) EXCEPT !.src = after, !.chk = NoSource]
        fails  == IF r.fails < FailedCheckLimit THEN r.fails + 1 ELSE FailedCheckLimit
    IN  IF timedOut THEN Stop(seen, "check_timeout")
        ELSE IF passed
             THEN ContinueOrCheckpoint([seen EXCEPT !.dups = 0, !.chk = after], "visible_check_passed")
        ELSE ContinueOrCheckpoint([seen EXCEPT !.dups = 0, !.fails = fails],
                 IF after # r.src THEN "visible_check_tree_changed" ELSE "visible_check_failed")

RequestHelp(r) == Checkpoint(r, "explicit_help")

\* Submission of the tree src; MaySubmit is the guard besides the pending request's allowance.
MaySubmit(r, src) == src = r.src /\ r.chk = src /\ ~(CriticDraft(r) /\ r.criticUsed)
\* Fault: a local submission is final although the policy has it reviewed.
SubmitUnreviewed(r, src) ==
    IF CriticDraft(r) THEN Record([Settled(r) EXCEPT !.state = "critic"], "checkpoint", "critic_required")
    ELSE Record([Settled(r) EXCEPT !.state = "submitted"], "submit", "fresh_visible_check")
Submit(r, src) ==
    CASE r.policy = "cloud_plan_local_review" -> Checkpoint(r, "review_required")
      [] CriticDraft(r) -> Record([Settled(r) EXCEPT !.state = "critic"], "checkpoint", "critic_required")
      [] OTHER -> Record([Settled(r) EXCEPT !.state = "submitted"], "submit", "fresh_visible_check")

MayStartCritic(r, src) == r.state = "critic" /\ ~r.criticUsed /\ src = r.src /\ r.chk = src
MarkCriticStarted(r) == Record([r EXCEPT !.criticUsed = TRUE], "continue", "critic_request_started")

MarkCriticComplete(r, verdict, settled, cancelled) ==
    LET known  == [r EXCEPT !.receipt = TRUE]
        repair == [known EXCEPT !.half = "repair", !.start = r.calls, !.chk = NoSource,
                                !.dups = 0, !.state = "local"]
    IN  IF cancelled \/ ~settled THEN Stop(r, IF cancelled THEN "cancelled" ELSE "unknown_outcome")
        ELSE CASE verdict = "insufficient_context" -> Stop(known, "critic_insufficient_context")
               [] verdict = "acceptable" ->
                      Record([known EXCEPT !.state = "submitted"], "submit", "critic_acceptable")
               [] verdict = "repair_required" -> Record(repair, "continue", "critic_repair_required")

MarkCloudPlanComplete(r, settled, cancelled) ==
    IF cancelled \/ ~settled THEN Stop(r, IF cancelled THEN "cancelled" ELSE "unknown_outcome")
    ELSE Record([r EXCEPT !.state = "local"], "continue", "cloud_plan_completed")

\* The one handoff to the cloud; left: model calls that remain, late: its time reserve is not left.
ConfirmHandoff(r, settled, cancelled, left, late) ==
    IF cancelled THEN Stop(r, "cancelled")
    ELSE IF ~settled THEN Stop(r, "unknown_outcome")
    ELSE IF left < 1 THEN Stop(r, "insufficient_model_calls")
    ELSE IF late THEN Stop(r, "insufficient_handoff_time")
    ELSE Record([r EXCEPT !.handoffUsed = TRUE, !.state = "cloud"], "escalate", "handoff_confirmed")

=============================================================================
