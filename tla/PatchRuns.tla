------------------------------ MODULE PatchRuns ------------------------------
(***************************************************************************)
(* One coding run: the controller that starts, cancels and recovers it,    *)
(* the Python worker that edits a disposable copy of the source, and the   *)
(* host that admits what the worker reports to the store, joined by the    *)
(* worker's event stream (pipe) and the host's answers (inbox).            *)
(*                                                                         *)
(* The worker does not wait for the host, except for the admission of a    *)
(* request, the critic's context and its verdict: the host works off a     *)
(* stream that may be several steps behind the worker. The host refuses an *)
(* event by failing the run, which also stops the worker.                  *)
(***************************************************************************)
EXTENDS PatchStore, FiniteSets, Sequences

CONSTANTS
    Policies,    \* the policies a run may be created with
    MaxSource,   \* source trees are 0..MaxSource
    StepLimit,   \* model calls of a run that is not a critic run
    Costs,       \* what a cloud request may turn out to cost, at a price of 1
    PipeLimit,   \* events in the pipe beyond which the worker waits to write more
    MaxCrashes

ASSUME PatchRunsAssumption ==
    /\ Policies \subseteq {"local_only", "local_first", "cloud_plan_local",
                           "cloud_plan_local_review", "local_critic_repair"}
    /\ MaxSource \in Nat \ {0} /\ StepLimit \in Nat /\ Costs \subseteq Nat /\ MaxCrashes \in Nat

VARIABLES
    run,      \* the durable row
    host,     \* the application's memory of the run
    w,        \* the worker process
    pipe,     \* events the worker wrote and the host has not handled
    inbox,    \* answers the host wrote and the worker has not read
    crashes

vars == <<run, host, w, pipe, inbox, crashes>>

Sources == 0..MaxSource

\* The host's state of a run, the locals of launchPatchWorker.
NewHost ==
    [up |-> TRUE, place |-> "idle", cancelled |-> FALSE, stopped |-> FALSE, failure |-> "none",
     pending |-> FALSE, action |-> "none", granted |-> FALSE, context |-> FALSE,
     final |-> FALSE, await |-> "none", terminal |-> "none"]

NoWorker ==
    [at |-> "none", r |-> NoRouter, live |-> Base, phase |-> "none", calls |-> 0,
     saved |-> FALSE, unsettled |-> FALSE, cancelled |-> FALSE, orphan |-> FALSE,
     outcome |-> "none", sends |-> 0]

Init ==
    /\ \E policy \in Policies : run = NewRun(policy)
    /\ host = NewHost /\ w = NoWorker
    /\ pipe = <<>> /\ inbox = <<>> /\ crashes = 0

WorkerAlive == w.at \notin {"none", "gone"}
\* What is left of a worker that is gone: what it did, and how it exited.
Gone(outcome) == [NoWorker EXCEPT !.at = "gone", !.saved = w.saved, !.orphan = w.orphan,
                                  !.sends = w.sends, !.outcome = outcome]
HostRuns == ~host.stopped /\ Running(run)
CallCap == IF CriticPolicy(run) THEN DraftLimit + RepairLimit + 1 ELSE StepLimit
LocalCap == IF CriticPolicy(run) THEN DraftLimit + RepairLimit ELSE LocalLimit

(***************************************************************************)
(* The controller.                                                         *)
(***************************************************************************)
StartRun ==
    /\ host.up /\ host.place = "idle" /\ run.status = "created"
    /\ run' = Start(run)
    /\ host' = [host EXCEPT !.place = "preparing"]
    /\ UNCHANGED <<w, pipe, inbox, crashes>>

\* The runtime is ready, the source is copied, and the worker is spawned.
Launch ==
    /\ host.up /\ host.place = "preparing" /\ ~host.cancelled
    /\ CanSetPhase(run, "preparing")
    /\ run' = SetPhase(run, "preparing")
    /\ host' = [host EXCEPT !.place = "working"]
    /\ w' = [NoWorker EXCEPT !.at = "boot"]
    /\ pipe' = <<[type |-> "ready"]>>
    /\ UNCHANGED <<inbox, crashes>>

\* The runtime is not ready, preparation failed, or the user cancelled while it was going on.
NotLaunched ==
    /\ host.up /\ host.place = "preparing"
    /\ \E status \in IF host.cancelled THEN {"cancelled"} ELSE {"blocked", "failed"} :
           run' = Finish(run, status)
    /\ host' = [host EXCEPT !.place = "idle"]
    /\ UNCHANGED <<w, pipe, inbox, crashes>>

Cancel ==
    /\ host.up /\ ~host.cancelled /\ run.status \in {"created", "running"}
    /\ IF host.place = "idle"
       THEN run' = Finish(run, "cancelled") /\ UNCHANGED host
       ELSE /\ host' = [host EXCEPT !.cancelled = TRUE, !.stopped = @ \/ host.place = "working"]
            /\ UNCHANGED run
    /\ UNCHANGED <<w, pipe, inbox, crashes>>

Decide ==
    /\ host.up /\ CanDecide(run)
    /\ \E decision \in {"keep", "reject"} :
           run.decision # decision /\ run' = [run EXCEPT !.decision = decision]
    /\ UNCHANGED <<host, w, pipe, inbox, crashes>>

\* The application dies: its pipes break, and the worker's reader will see the end of its input.
Crash ==
    /\ host.up /\ crashes < MaxCrashes
    /\ host' = [NewHost EXCEPT !.up = FALSE]
    /\ w' = [w EXCEPT !.orphan = TRUE]
    /\ pipe' = <<>> /\ crashes' = crashes + 1
    /\ UNCHANGED <<run, inbox>>

\* recoverInterrupted, in the next controller's constructor.
Restart ==
    /\ ~host.up
    /\ host' = NewHost
    /\ run' = IF Running(run) THEN Finish(run, "interrupted") ELSE run
    /\ UNCHANGED <<w, pipe, inbox, crashes>>

(***************************************************************************)
(* The worker. Writing an event to a dead host raises, which ends it.      *)
(***************************************************************************)
Emit(events) == ~w.orphan /\ Len(pipe) < PipeLimit /\ pipe' = pipe \o events
Decides(r) == [type |-> "checkpoint", cp |-> r]
PhaseStarts(phase) == [type |-> "phase", phase |-> phase]
Recovers(src) == IF src = Base THEN <<>> ELSE <<[type |-> "patch", kind |-> "recovered", src |-> src]>>

\* check_cancelled at a place where the worker may act.
Working(at) == w.at = at /\ ~w.cancelled
WorkerStep == UNCHANGED <<run, host, crashes>>
Inbox(type) == inbox # <<>> /\ Head(inbox).type = type

\* SIGTERM or the cancel message reaches the worker; before it has read its start order the signal kills it.
WorkerCancelled ==
    /\ WorkerAlive /\ ~w.cancelled /\ (host.stopped \/ w.orphan)
    /\ \/ w' = [w EXCEPT !.cancelled = TRUE]
       \/ w.at = "boot" /\ w' = Gone("none")
    /\ UNCHANGED <<pipe, inbox>> /\ WorkerStep

\* 45 seconds after the stop: SIGKILL.
WorkerKilled ==
    /\ WorkerAlive /\ host.stopped /\ w.cancelled
    /\ w' = Gone("none")
    /\ UNCHANGED <<pipe, inbox>> /\ WorkerStep

OrphanEnds ==
    /\ WorkerAlive /\ w.orphan
    /\ w' = Gone("none")
    /\ UNCHANGED <<pipe, inbox>> /\ WorkerStep

\* The sandbox is set up on the pinned source and the router is initialised.
WorkerStarts ==
    /\ Working("boot") /\ Inbox("start")
    /\ LET r       == NewRouter(run.policy, Base)
           planner == r.state = "planner"
           phase   == IF planner THEN "planner" ELSE "local"
       IN  /\ Emit(<<Decides(r), PhaseStarts(phase)>>)
           /\ w' = [w EXCEPT !.r = r, !.phase = phase, !.at = IF planner THEN "ask" ELSE "loop"]
    /\ inbox' = Tail(inbox)
    /\ WorkerStep

\* Docker, a reply, a deadline or a cancellation raises out of the work; on the wire see Unanswered.
WorkerRaises ==
    /\ WorkerAlive /\ ~w.orphan /\ w.at \notin {"wire", "failing", "salvage", "ending"}
    /\ w' = [w EXCEPT !.at = "failing", !.outcome = IF w.cancelled THEN "cancelled" ELSE "failed"]
    /\ UNCHANGED <<pipe, inbox>> /\ WorkerStep

ModelCallsLeft == CallCap - w.calls

LocalRequest ==
    /\ Working("loop")
    /\ \E late \in BOOLEAN :
         LET r == BeforeLocalRequest(w.r, ModelCallsLeft < 2, late)
         IN  /\ Emit(<<Decides(r)>>)
             /\ w' = [w EXCEPT !.r = r, !.at = IF r.decision = "continue" THEN "ask" ELSE "leave"]
    /\ UNCHANGED inbox /\ WorkerStep

\* complete_body up to the wait for the host's admission.
Ask ==
    /\ Working("ask")
    /\ LET kept == IF w.phase = "local" /\ (Reviewed(run) \/ CriticDraft(w.r)) THEN 1 ELSE 0
       IN  ModelCallsLeft > kept
    /\ Emit(<<[type |-> "prepare", phase |-> w.phase, call |-> w.r.calls]>>)
    /\ w' = [w EXCEPT !.at = "admission", !.calls = @ + 1]
    /\ UNCHANGED inbox /\ WorkerStep

\* An orphan may still find an admission the dead host wrote.
Send ==
    /\ Working("admission") /\ Inbox("admitted")
    /\ w' = [w EXCEPT !.at = "wire", !.sends = @ + 1]
    /\ inbox' = Tail(inbox)
    /\ UNCHANGED pipe /\ WorkerStep

Unsettle ==
    /\ Emit(<<[type |-> "unsettled"]>>)
    /\ w' = [w EXCEPT !.at = "failing", !.unsettled = TRUE,
                      !.outcome = IF w.cancelled THEN "cancelled" ELSE "failed"]

\* The admission came too late for the request to be sent at all.
AdmittedTooLate ==
    /\ Working("admission") /\ Inbox("admitted")
    /\ Unsettle
    /\ inbox' = Tail(inbox)
    /\ WorkerStep

Answered ==
    /\ w.at = "wire"
    /\ \E cost \in IF Price(w.phase) = 0 THEN {0} ELSE Costs :
           Emit(<<[type |-> "finished", cost |-> cost]>>)
    /\ w' = [w EXCEPT !.at = "answer"]
    /\ UNCHANGED inbox /\ WorkerStep

\* The provider failed, ran into the deadline, or the run was cancelled meanwhile.
Unanswered ==
    /\ w.at = "wire"
    /\ Unsettle
    /\ UNCHANGED inbox /\ WorkerStep

PlanReady ==
    /\ Working("answer") /\ w.phase = "planner"
    /\ LET r == MarkCloudPlanComplete(w.r, ~w.unsettled, w.cancelled)
       IN  /\ Emit(<<[type |-> "plan"], Decides(r), PhaseStarts("local")>>)
           /\ w' = [w EXCEPT !.r = r, !.phase = "local", !.at = "loop"]
    /\ UNCHANGED inbox /\ WorkerStep

LocalAnswer(action) ==
    Working("answer") /\ w.phase = "local" /\ action \in AllowedActions(w.r)

\* The model answered with an action its request did not allow.
ActionDenied ==
    /\ Working("answer") /\ w.phase = "local"
    /\ \E action \in {"run_command", "run_visible_checks", "submit_task"} \ AllowedActions(w.r) :
           Emit(<<[type |-> "denied", call |-> w.r.calls, action |-> action]>>)
    /\ w' = [w EXCEPT !.at = "failing", !.outcome = "failed"]
    /\ UNCHANGED inbox /\ WorkerStep

RunCommand ==
    /\ LocalAnswer("run_command")
    /\ Emit(<<[type |-> "command"]>>)
    /\ w' = [w EXCEPT !.at = "command"]
    /\ UNCHANGED inbox /\ WorkerStep

\* The command ran, or ran into its time limit, and may have edited the tree.
CommandRan ==
    /\ Working("command")
    /\ Emit(<<[type |-> "tool"]>>)
    /\ \E src \in Sources, at \in {"ran", "failing"} :
           w' = [w EXCEPT !.live = src, !.at = at, !.outcome = IF at = "failing" THEN "failed" ELSE @]
    /\ UNCHANGED inbox /\ WorkerStep

ToLoop(r) == IF r.state = "local" THEN "loop" ELSE "leave"

CommandObserved ==
    /\ Working("ran")
    /\ \E repeated \in BOOLEAN :
         LET r == ObserveCommand(w.r, w.live, repeated)
         IN  /\ Emit(<<Decides(r)>>)
             /\ w' = [w EXCEPT !.r = r, !.at = ToLoop(r)]
    /\ UNCHANGED inbox /\ WorkerStep

\* The exact check runs in a container of its own; its tree becomes the candidate.
VisibleCheck ==
    /\ LocalAnswer("run_visible_checks")
    /\ \E zeroExit, timedOut \in BOOLEAN, after \in Sources :
         LET r      == ObserveVisibleCheck(w.r, zeroExit, after, timedOut)
             passed == ~timedOut /\ zeroExit /\ after = w.r.src
             check  == [src |-> w.r.src, after |-> after, passed |-> passed, fresh |-> after = w.r.src]
         IN  /\ timedOut => ~zeroExit
             /\ Emit(<<[type |-> "checked", check |-> check], Decides(r)>>)
             /\ w' = [w EXCEPT !.r = r, !.live = after,
                               !.at = IF timedOut THEN "failing" ELSE ToLoop(r),
                               !.outcome = IF timedOut THEN "failed" ELSE @]
    /\ UNCHANGED inbox /\ WorkerStep

Help ==
    /\ LocalAnswer("request_help")
    /\ LET r == RequestHelp(w.r)
       IN  Emit(<<Decides(r)>>) /\ w' = [w EXCEPT !.r = r, !.at = "leave"]
    /\ UNCHANGED inbox /\ WorkerStep

SubmitTask ==
    /\ LocalAnswer("submit_task") /\ MaySubmit(w.r, w.live)
    /\ LET r == Submit(w.r, w.live)
       IN  /\ Emit(<<Decides(r)>>)
           /\ w' = [w EXCEPT !.r = r, !.at = CASE r.state = "submitted" -> "finish"
                                               [] r.state = "critic" -> "critic"
                                               [] OTHER -> "leave"]
    /\ UNCHANGED inbox /\ WorkerStep

\* The local phase ended without a submission and the policy has no second phase.
NoSubmission ==
    /\ w.at = "leave" /\ run.policy \in {"local_only", "local_critic_repair"}
    /\ LET r == Stop(w.r, IF CriticPolicy(run) THEN "critic_policy_checkpoint" ELSE "local_only_checkpoint")
       IN  /\ Emit((IF CriticPolicy(run) THEN <<>> ELSE Recovers(w.live)) \o <<Decides(r)>>)
           /\ w' = [w EXCEPT !.r = r, !.at = "failing", !.outcome = "failed"]
    /\ UNCHANGED inbox /\ WorkerStep

\* recover_cloud: the local tree is saved, described to the host, and handed to the cloud once.
Handoff ==
    /\ Working("leave") /\ run.policy \notin {"local_only", "local_critic_repair"}
    /\ \E late \in BOOLEAN :
         LET r     == ConfirmHandoff(w.r, ~w.unsettled, w.cancelled, ModelCallsLeft, late)
             ready == [type |-> "handoff", src |-> w.r.src, chk |-> w.r.chk, patch |-> w.live]
             moves == r.decision = "escalate"
         IN  /\ Emit(Recovers(w.live) \o <<ready, Decides(r)>>
                     \o (IF moves THEN <<PhaseStarts("cloud")>> ELSE <<>>))
             /\ w' = [w EXCEPT !.r = r, !.phase = IF moves THEN "cloud" ELSE @,
                               !.at = IF moves THEN "ask" ELSE "failing",
                               !.outcome = IF moves THEN @ ELSE "failed"]
    /\ UNCHANGED inbox /\ WorkerStep

\* The cloud solver's commands edit the tree; one that timed out reports the edits it saved.
CloudCommand ==
    /\ Working("answer") /\ w.phase = "cloud"
    /\ \E src \in Sources, timedOut \in BOOLEAN :
         /\ Emit(<<[type |-> "command"], [type |-> "tool"]>> \o (IF timedOut THEN Recovers(src) ELSE <<>>))
         /\ w' = [w EXCEPT !.live = src, !.at = "ask"]
    /\ UNCHANGED inbox /\ WorkerStep

CloudSubmit ==
    /\ Working("answer") /\ w.phase = "cloud"
    /\ w' = [w EXCEPT !.at = "finish"]
    /\ UNCHANGED <<pipe, inbox>> /\ WorkerStep

\* The draft is frozen and sent to the host, which builds the critic's whole request from it.
FreezeDraft ==
    /\ Working("critic")
    /\ IF w.live = Base
       THEN w' = [w EXCEPT !.at = "failing", !.outcome = "failed"] /\ UNCHANGED pipe
       ELSE Emit(<<[type |-> "context", src |-> w.live]>>) /\ w' = [w EXCEPT !.at = "context"]
    /\ UNCHANGED inbox /\ WorkerStep

CriticStarts ==
    /\ Working("context") /\ Inbox("context") /\ MayStartCritic(w.r, w.live)
    /\ LET r == MarkCriticStarted(w.r)
       IN  /\ Emit(<<Decides(r), PhaseStarts("critic")>>)
           /\ w' = [w EXCEPT !.r = r, !.phase = "critic", !.at = "ask"]
    /\ inbox' = Tail(inbox)
    /\ WorkerStep

CriticAnswer ==
    /\ Working("answer") /\ w.phase = "critic"
    /\ Emit(<<[type |-> "response", src |-> w.live]>>)
    /\ w' = [w EXCEPT !.at = "verdict"]
    /\ UNCHANGED inbox /\ WorkerStep

VerdictRead ==
    /\ Working("verdict") /\ Inbox("verdict")
    /\ LET r == MarkCriticComplete(w.r, Head(inbox).verdict, ~w.unsettled, w.cancelled)
           repair == r.decision = "continue"
       IN  /\ Emit(<<Decides(r)>> \o (IF repair THEN <<PhaseStarts("local")>> ELSE <<>>))
           /\ w' = [w EXCEPT !.r = r, !.phase = IF repair THEN "local" ELSE @,
                             !.at = CASE repair -> "loop"
                                      [] r.decision = "submit" -> "finish"
                                      [] OTHER -> "failing",
                             !.outcome = IF r.decision = "stop" THEN "failed" ELSE @]
    /\ inbox' = Tail(inbox)
    /\ WorkerStep

\* Fault: the final check starts before the patch is saved.
ExportedLate(src) == <<[type |-> "verifying"], [type |-> "patch", kind |-> "submitted", src |-> src]>>
\* The submitted tree is exported as a patch before it is verified.
Exported(src) == <<[type |-> "patch", kind |-> "submitted", src |-> src], [type |-> "verifying"]>>

Export ==
    /\ Working("finish")
    /\ Emit(Exported(w.live))
    /\ w' = [w EXCEPT !.saved = TRUE, !.at = "verify"]
    /\ UNCHANGED inbox /\ WorkerStep

\* Fault: the tree the router last observed, which the cloud's edits are not in.
ObservedTree == w.r.src
\* Final acceptance applies to exactly the exported source.
FinalTree == w.live

Verify ==
    /\ Working("verify")
    /\ \E zeroExit \in BOOLEAN, after \in Sources :
         LET passed == zeroExit /\ after = FinalTree
         IN  /\ Emit(<<[type |-> "verified", src |-> FinalTree, after |-> after, passed |-> passed]>>)
             /\ w' = [w EXCEPT !.at = "ending", !.outcome = IF passed THEN "completed" ELSE "checks_failed"]
    /\ UNCHANGED inbox /\ WorkerStep

\* The handler of run(): close the router, keep unsubmitted edits, and report the end.
StopRouter ==
    /\ w.at = "failing"
    /\ LET open == w.r.state \notin {"none", "stopped", "submitted"}
           r    == Stop(w.r, CASE w.cancelled -> "cancelled"
                               [] ~w.cancelled /\ w.unsettled -> "unknown_outcome"
                               [] OTHER -> "execution_failure")
       IN  /\ Emit(IF open THEN <<Decides(r)>> ELSE <<>>)
           /\ w' = [w EXCEPT !.r = IF open THEN r ELSE @, !.at = IF w.saved THEN "ending" ELSE "salvage"]
    /\ UNCHANGED inbox /\ WorkerStep

\* Best effort: the recovery itself may fail.
Salvage ==
    /\ w.at = "salvage"
    /\ Emit(Recovers(w.live)) \/ Emit(<<>>)
    /\ w' = [w EXCEPT !.at = "ending"]
    /\ UNCHANGED inbox /\ WorkerStep

End ==
    /\ w.at = "ending"
    /\ Emit(<<[type |-> "terminal", status |-> w.outcome]>>)
    /\ w' = Gone(w.outcome)
    /\ UNCHANGED inbox /\ WorkerStep

(***************************************************************************)
(* The host: one event at a time, in the order written.                    *)
(***************************************************************************)
Reads(type) ==
    /\ host.up /\ host.place = "working" /\ host.await = "none"
    /\ pipe # <<>> /\ Head(pipe).type = type
    /\ host.terminal = "none"
Event == Head(pipe)
Handled == pipe' = Tail(pipe) /\ UNCHANGED <<w, crashes>>

\* fail(): the first failure is kept, and the worker is told to stop. An event that the protocol
\* does not allow is refused; any other reason to give up has ended the run.
Failed(h, kind) == [h EXCEPT !.failure = IF @ = "none" THEN kind ELSE @, !.stopped = TRUE]
Fails(kind) == host' = Failed(host, kind) /\ UNCHANGED <<run, inbox>>
Records(next) == run' = next /\ UNCHANGED <<host, inbox>>

Ready ==
    /\ Reads("ready") /\ Handled
    /\ IF host.stopped THEN Fails("refused")
       ELSE inbox' = Append(inbox, [type |-> "start"]) /\ UNCHANGED <<run, host>>

\* What is still recorded of a worker that was told to stop.
Inert == host.stopped /\ Running(run) /\
    \/ Event.type \in {"patch", "tool"}
    \/ Event.type = "checkpoint" /\ Event.cp.decision = "stop"

Admitted(type) == Reads(type) /\ (HostRuns \/ Inert)

\* An event that came after the stop and is not recorded.
Dropped ==
    /\ pipe # <<>> /\ Reads(Event.type) /\ Handled
    /\ Event.type \notin {"ready", "terminal"} /\ ~HostRuns /\ ~Inert
    /\ UNCHANGED <<run, host, inbox>>

TerminalReceipt ==
    /\ Reads("terminal") /\ Handled
    /\ host' = [host EXCEPT !.terminal = Event.status]
    /\ UNCHANGED <<run, inbox>>

Strict == CriticPolicy(run)
HostSettled(n) == ~host.pending /\ LocalSettled(run, n)

\* admitPreparedRequest and the handler's own conditions, the budget and the time apart.
Authorized(phase, call) ==
    /\ phase \in RequestPhases
    /\ Strict => host.action = "none"
    /\ Calls(run) < CallCap
    /\ CASE phase = "planner" ->
              Planned(run.policy) /\ run.phase = "cloud_planner" /\ run.used["planner"] = 0
              /\ run.cp.state = "planner"
         [] phase = "local" ->
              /\ run.phase = "local_solver" /\ run.used["local"] < LocalCap
              /\ Reviewed(run) => Calls(run) < CallCap - 1
              /\ run.cp.state = "local" /\ run.cp.reason = "local_request_started"
              /\ run.cp.calls = call /\ call = run.used["local"] + 1
              /\ run.cp.half = "repair" /\ PhaseCalls(run.cp) = 1 =>
                   /\ host.granted /\ run.verdict = "repair_required" /\ ~run.criticCurrent
                   /\ call = run.draftCalls + 1
         [] phase = "critic" ->
              /\ Strict /\ run.phase = "cloud_critic" /\ run.used["critic"] = 0
              /\ host.context /\ run.cp.state = "critic" /\ run.cp.reason = "critic_request_started"
         [] phase = "cloud" ->
              /\ run.phase = "cloud_solver" /\ run.recoveries = 1 /\ run.cp.state = "cloud"
              /\ run.policy \notin {"local_only", "local_critic_repair"}
    /\ CanReserve(run, phase, call)

\* Reserved and marked started before the worker may send it.
RequestPrepare ==
    /\ Admitted("prepare") /\ Handled
    /\ LET phase == Event.phase
       IN  IF ~Authorized(phase, Event.call) THEN Fails("refused")
           ELSE \/ /\ Affordable(run, phase)
                   /\ run' = StartRequest(ReserveRequest(run, phase))
                   /\ host' = [host EXCEPT !.pending = TRUE]
                   /\ inbox' = Append(inbox, [type |-> "admitted"])
                \* Too late for its deadline, or beyond the run's budget.
                \/ Fails("ended")

\* The application dies between the two transactions, or between the second and the answer.
CrashInAdmission ==
    /\ crashes < MaxCrashes /\ Admitted("prepare")
    /\ Authorized(Event.phase, Event.call) /\ Affordable(run, Event.phase)
    /\ LET reserved == ReserveRequest(run, Event.phase)
       IN  run' \in {reserved, StartRequest(reserved)}
    /\ host' = [NewHost EXCEPT !.up = FALSE]
    /\ w' = [w EXCEPT !.orphan = TRUE]
    /\ pipe' = <<>> /\ crashes' = crashes + 1
    /\ UNCHANGED inbox

\* Real overruns are recorded, and then stop the run.
RequestFinished ==
    /\ Admitted("finished") /\ Handled
    /\ IF host.pending
       THEN LET settled == [host EXCEPT !.pending = FALSE]
            IN  /\ run' = Settle(run, "succeeded", Event.cost)
                /\ host' = IF Event.cost > Price(run.last.phase) THEN Failed(settled, "ended") ELSE settled
                /\ UNCHANGED inbox
       ELSE Fails("refused")

RequestUnsettled ==
    /\ Admitted("unsettled") /\ Handled
    /\ IF host.pending
       THEN /\ run' = Settle(run, "unknown", 0)
            /\ host' = Failed([host EXCEPT !.pending = FALSE], "ended")
            /\ UNCHANGED inbox
       ELSE Fails("refused")

\* The critic's context is built from the source under an await.
ContextPrepare ==
    /\ Admitted("context") /\ Handled
    /\ IF CanRecordCriticDraft(run, Event.src) /\ ~host.context /\ ~host.pending
       THEN host' = [host EXCEPT !.await = "context"] /\ UNCHANGED <<run, inbox>>
       ELSE Fails("refused")

ContextPrepared ==
    /\ host.up /\ host.await = "context"
    /\ LET resumed == [host EXCEPT !.await = "none"]
       IN  \/ /\ HostRuns
              /\ run' = RecordCriticDraft(run, run.cp.src)
              /\ host' = [resumed EXCEPT !.context = TRUE]
              /\ inbox' = Append(inbox, [type |-> "context"])
           \/ host' = Failed(resumed, "ended") /\ UNCHANGED <<run, inbox>>
    /\ UNCHANGED <<w, pipe, crashes>>

CriticResponse ==
    /\ Admitted("response") /\ Handled
    /\ IF CanRecordCriticReceipt(run, Event.src) /\ host.context /\ ~host.pending
       THEN \/ \E verdict \in {"acceptable", "repair_required", "insufficient_context"} :
                 /\ run' = RecordCriticReceipt(run, verdict)
                 /\ inbox' = Append(inbox, [type |-> "verdict", verdict |-> verdict])
                 /\ UNCHANGED host
            \/ Fails("ended")
       ELSE Fails("refused")

\* phase.started: each phase has one place of the run it may start from.
RepairGranted ==
    /\ Strict /\ run.phase = "cloud_critic" /\ run.verdict = "repair_required"
    /\ run.cp.reason = "critic_repair_required" /\ ~host.granted /\ host.action = "none"

PhaseAllowed(phase) ==
    /\ ~host.pending /\ ~Unresolved(run) /\ run.phase \notin {"checking", "cloud_solver"}
    /\ CASE phase = "cloud" -> CanBeginCloudRecovery(run)
         [] phase = "planner" -> Planned(run.policy) /\ run.phase = "preparing"
         [] phase = "critic" -> host.context /\ CanSetPhase(run, "cloud_critic")
         [] phase = "local" ->
              /\ CanSetPhase(run, "local_solver")
              /\ IF Planned(run.policy) THEN run.phase = "cloud_planner" /\ run.plan
                 ELSE run.phase = "preparing" \/ RepairGranted

StorePhase == [planner |-> "cloud_planner", local |-> "local_solver", critic |-> "cloud_critic"]

PhaseStarted ==
    /\ Admitted("phase") /\ Handled
    /\ LET phase == Event.phase
       IN  IF ~PhaseAllowed(phase) THEN Fails("refused")
           ELSE IF phase = "cloud"
           \* The cloud phase must also still fit the time that is left.
           THEN Records(BeginCloudRecovery(run)) \/ Fails("ended")
           ELSE /\ run' = SetPhase(run, StorePhase[phase])
                /\ host' = [host EXCEPT !.granted = @ \/ (phase = "local" /\ RepairGranted)]
                /\ UNCHANGED inbox

CommandStarted ==
    /\ Admitted("command") /\ Handled
    /\ LET local == run.phase = "local_solver"
           ready == /\ local => "run_command" \in AllowedActions(run.cp)
                    /\ Strict => /\ local /\ host.action = "none"
                                 /\ run.cp.reason = "local_request_started" /\ HostSettled(run.cp.calls)
       IN  IF ready
           THEN /\ run' = IF local \/ Reviewed(run) THEN InvalidateCheckpointCheck(run) ELSE run
                /\ host' = IF Strict THEN [host EXCEPT !.action = "command"] ELSE host
                /\ UNCHANGED inbox
           ELSE Fails("refused")

CommandFinished ==
    /\ Admitted("tool") /\ Handled
    /\ IF Strict => run.phase = "local_solver" /\ host.action = "command"
       THEN /\ run' = RecordTool(run)
            /\ host' = IF Strict THEN [host EXCEPT !.action = "ran"] ELSE host
            /\ UNCHANGED inbox
       ELSE Fails("refused")

\* A denied action stops the run either way; the receipt itself must be true.
DeniedAction ==
    /\ Admitted("denied") /\ Handled
    /\ IF /\ run.phase = "local_solver" /\ run.cp.state = "local"
          /\ run.cp.reason = "local_request_started" /\ run.cp.calls = Event.call
          /\ Event.action \notin AllowedActions(run.cp) /\ HostSettled(Event.call)
       THEN Fails("ended") ELSE Fails("refused")

CheckReceipt ==
    /\ Admitted("checked") /\ Handled
    /\ IF /\ run.phase = "local_solver" => "run_visible_checks" \in AllowedActions(run.cp)
          /\ Strict => /\ host.action = "none" /\ run.cp.reason = "local_request_started"
                       /\ HostSettled(run.cp.calls) /\ Event.check.src = run.cp.src
          /\ CanRecordCheckpointCheck(run, Event.check)
       THEN /\ run' = RecordCheckpointCheck(run, Event.check)
            /\ host' = IF Strict THEN [host EXCEPT !.action = "check"] ELSE host
            /\ UNCHANGED inbox
       ELSE Fails("refused")

\* validateNativeCheckpointBudget: the allowance is recomputed from the checkpoint's own counters.
CheckpointBudget(cp) ==
    /\ ~CriticPolicy(run) => cp.calls \in 0..LocalLimit
    /\ AllowedActions(cp) =
         IF cp.state # "local" THEN {}
         ELSE Offered(Remaining(cp) + (IF cp.reason = "local_request_started" THEN 1 ELSE 0), Checked(cp))

\* In a critic run a request follows a finished action and an observation follows its receipt.
ActionOrder(cp) ==
    LET prior == run.cp
        moved == cp.src # prior.src
    IN  /\ cp.reason = "finish_required" /\ prior.seq > 0 /\ moved =>
             host.action \in {"ran", "check"} /\ prior.reason = "local_request_started"
        /\ cp.decision = "stop" => cp.state = "stopped"
        /\ prior.seq > 0 /\ run.phase = "local_solver" /\ cp.decision # "stop" =>
             IF cp.reason = "local_request_started"
             THEN /\ host.action = "none" /\ prior.state = "local" /\ prior.decision = "continue"
                  /\ prior.reason # "local_request_started" /\ cp.calls = prior.calls + 1
                  /\ ~moved /\ cp.chk = prior.chk /\ cp.fails = prior.fails
                  /\ prior.calls > 0 => HostSettled(prior.calls)
             ELSE /\ cp.calls = prior.calls /\ host.action # "command"
                  /\ prior.reason = "local_request_started" =>
                       /\ HostSettled(prior.calls)
                       /\ host.action = "none" =>
                            cp.reason \in {"explicit_help", "fresh_visible_check", "critic_required"}
                  /\ cp.reason = "command_observed" => host.action = "ran"
                  /\ cp.reason \in {"visible_check_passed", "visible_check_failed",
                                    "visible_check_tree_changed", "visible_checks_failed"} =>
                       host.action = "check"

RoutingCheckpoint ==
    /\ Admitted("checkpoint") /\ Handled
    /\ LET cp == Event.cp
       IN  IF CheckpointBudget(cp) /\ (Strict => ActionOrder(cp)) /\ CanRecordCheckpoint(run, cp)
           THEN /\ run' = RecordCheckpoint(run, cp)
                /\ host' = [host EXCEPT !.action = "none"]
                /\ UNCHANGED inbox
           ELSE Fails("refused")

PlanReceived ==
    /\ Admitted("plan") /\ Handled
    /\ IF CanRecordPlan(run) THEN Records([run EXCEPT !.plan = TRUE]) ELSE Fails("refused")

HandoffReady ==
    /\ Admitted("handoff") /\ Handled
    /\ IF CanRecordHandoff(run, Event.src, Event.chk, Event.patch)
       THEN Records([run EXCEPT !.handoff = Event.src]) ELSE Fails("refused")

\* A critic run's submission is reconstructed and compared under an await.
PatchEvent ==
    /\ Admitted("patch") /\ Handled
    /\ LET submitted == Event.kind = "submitted"
           ready == submitted =>
                      /\ Strict => run.cp.decision = "submit"
                      /\ run.phase = "local_solver" => run.cp.decision = "submit"
       IN  IF ~ready \/ ((submitted => ~Strict) /\ ~CanRecordPatch(run, Event.kind, Event.src))
           THEN Fails("refused")
           ELSE IF submitted /\ Strict
           THEN host' = [host EXCEPT !.await = "candidate"] /\ UNCHANGED <<run, inbox>>
           ELSE Records(RecordPatch(run, Event.kind, Event.src))

CandidateVerified ==
    /\ host.up /\ host.await = "candidate"
    /\ LET resumed == [host EXCEPT !.await = "none"]
       IN  \/ /\ HostRuns /\ CanRecordPatch(run, "submitted", run.cp.src)
              /\ run' = RecordPatch(run, "submitted", run.cp.src) /\ host' = resumed
           \/ /\ host' = Failed(resumed, IF HostRuns /\ ~CanRecordPatch(run, "submitted", run.cp.src)
                                         THEN "refused" ELSE "ended")
              /\ UNCHANGED run
    /\ UNCHANGED <<w, pipe, inbox, crashes>>

VerificationStarted ==
    /\ Admitted("verifying") /\ Handled
    /\ IF /\ Strict => run.phase # "checking" /\ ~host.final
          /\ Reviewed(run) => run.phase = "cloud_solver" /\ run.recoveries = 1
          /\ CanSetPhase(run, "checking")
       THEN Records(SetPhase(run, "checking")) ELSE Fails("refused")

VerificationFinished ==
    /\ Admitted("verified") /\ Handled
    /\ LET checks == [status |-> IF Event.passed THEN "passed" ELSE "failed",
                      src |-> Event.src, after |-> Event.after]
       IN  IF (Strict => run.phase = "checking" /\ ~host.final) /\ CanRecordChecks(run, checks)
           THEN /\ run' = RecordChecks(run, checks)
                /\ host' = [host EXCEPT !.final = Strict]
                /\ UNCHANGED inbox
           ELSE Fails("refused")

\* The total time limit of a run, a minute after the worker's own.
HostDeadline ==
    /\ host.up /\ host.place = "working" /\ ~host.stopped /\ WorkerAlive
    /\ host' = Failed(host, "ended")
    /\ UNCHANGED <<run, w, pipe, inbox, crashes>>

(***************************************************************************)
(* The worker's end: its stream is drained, its containers are removed,    *)
(* and the run gets the outcome its receipts allow.                        *)
(***************************************************************************)
CleanExit == w.outcome \in {"completed", "checks_failed", "cancelled"}
EndFailure(removed) ==
    IF host.failure # "none" THEN host.failure
    ELSE IF ~removed THEN "cleanup"
    ELSE IF ~host.stopped /\ ~CleanExit /\ host.terminal # "failed" THEN "exit" ELSE "none"

Outcome(removed) ==
    IF EndFailure(removed) # "none" THEN "failed"
    ELSE IF host.stopped \/ host.terminal = "cancelled" THEN "cancelled"
    ELSE IF /\ host.terminal = (IF run.checks.status = "passed" THEN "completed" ELSE "checks_failed")
            /\ run.checks.status # "not_run" /\ CanComplete(run)
         THEN "completed" ELSE "failed"

WorkerClosed ==
    /\ host.up /\ host.place = "working" /\ host.await = "none"
    /\ w.at = "gone" /\ ~w.orphan /\ pipe = <<>>
    /\ \E removed \in BOOLEAN : run' = Finish(run, Outcome(removed))
    /\ host' = [NewHost EXCEPT !.cancelled = host.cancelled, !.failure = host.failure]
    /\ inbox' = <<>>
    /\ UNCHANGED <<w, pipe, crashes>>

WorkerNext ==
    \/ WorkerCancelled \/ WorkerKilled \/ OrphanEnds \/ WorkerStarts \/ WorkerRaises
    \/ LocalRequest \/ Ask \/ Send \/ AdmittedTooLate \/ Answered \/ Unanswered
    \/ PlanReady \/ ActionDenied \/ RunCommand \/ CommandRan \/ CommandObserved
    \/ VisibleCheck \/ Help \/ SubmitTask \/ NoSubmission \/ Handoff \/ CloudCommand \/ CloudSubmit
    \/ FreezeDraft \/ CriticStarts \/ CriticAnswer \/ VerdictRead
    \/ Export \/ Verify \/ StopRouter \/ Salvage \/ End

HostNext ==
    \/ Ready \/ Dropped \/ TerminalReceipt \/ RequestPrepare \/ RequestFinished \/ RequestUnsettled
    \/ ContextPrepare \/ ContextPrepared \/ CriticResponse \/ PhaseStarted
    \/ CommandStarted \/ CommandFinished \/ DeniedAction \/ CheckReceipt \/ RoutingCheckpoint
    \/ PlanReceived \/ HandoffReady \/ PatchEvent \/ CandidateVerified
    \/ VerificationStarted \/ VerificationFinished \/ WorkerClosed

Preparation == Launch \/ NotLaunched

Next ==
    \/ StartRun \/ Preparation \/ Cancel \/ Decide \/ Crash \/ CrashInAdmission \/ Restart
    \/ WorkerNext \/ HostNext \/ HostDeadline

Spec == Init /\ [][Next]_vars

-----------------------------------------------------------------------------
(* Safety. *)

(***************************************************************************)
(* A completed run has submitted a patch that changes something, and its   *)
(* final check ran on the tree of that patch (worker.ts:895-908). Without  *)
(* the cloud that is the tree the exact visible check last passed on; with *)
(* it, the local tree was handed over once and the cloud answered.         *)
(***************************************************************************)
CompletedAsChecked ==
    run.status = "completed" =>
        /\ run.patch.kind = "submitted" /\ run.patch.src # Base /\ run.checks.src = run.patch.src
        /\ run.recoveries = 0 =>
             run.check.passed /\ run.check.src = run.patch.src /\ run.check.after = run.patch.src
        /\ run.recoveries = 1 => HasHandoff(run) /\ run.receipts["cloud"] >= 1

Receipts == run.receipts["planner"] + run.receipts["local"] + run.receipts["critic"] + run.receipts["cloud"]

(***************************************************************************)
(* "A sent request without a usable receipt retains its full reserved      *)
(* amount across restart. Nothing automatically redispatches it."          *)
(* (MVP_CODING_QUICKSTART.md:219): every request that was ever sent has a  *)
(* receipt, but for a last one, which holds its price (store.ts:669-856).  *)
(***************************************************************************)
SentIsAccounted ==
    /\ w.sends <= Receipts + (IF run.last.state \in {"started", "unknown"} THEN 1 ELSE 0)
    /\ run.reserved = IF Unresolved(run) THEN Price(run.last.phase) ELSE 0

(***************************************************************************)
(* The host and the store refuse nothing that an honest worker reports     *)
(* (worker.ts:316-844): the two keep the same protocol, whatever they have *)
(* not yet heard of each other. Two cases remain. After the user's cancel  *)
(* the host drops checkpoints, and then finds the later stop out of order. *)
(* And in a critic run an exact check that edited the tree is refused when *)
(* it timed out or was the last but one call (store.ts:84).                *)
(***************************************************************************)
HostAcceptsWorker ==
    host.failure = "refused" =>
        host.cancelled \/ (CriticPolicy(run) /\ run.check.src # run.check.after)

(***************************************************************************)
(* "The immutable submitted patch is saved before visible checks, so       *)
(* cancelling or timing out during checking preserves it."                 *)
(* (MVP_CODING_QUICKSTART.md:226): what was submitted when the final check *)
(* began is never lost or replaced, by no event, crash or restart.         *)
(***************************************************************************)
SubmissionSurvives ==
    [][run.phase = "checking" => run.patch.kind = "submitted" /\ run'.patch = run.patch]_vars

=============================================================================
