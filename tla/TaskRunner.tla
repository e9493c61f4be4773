------------------------------ MODULE TaskRunner ------------------------------
(***************************************************************************)
(* GeneralAgentRunner.run (runner.ts): the tool loop of one context over   *)
(* its event log, with the runs that resume it after a pause, a failure or *)
(* a crash.  One run at a time (RunClaim), without a consultation (which   *)
(* the options leave optional).  What a command, a file or a reply         *)
(* contains is a value; what the runner records and reads is kept.         *)
(***************************************************************************)
EXTENDS Naturals, Sequences, SequencesExt, FiniteSets

CONSTANTS
    Contents,         \* contents of the workspace that are told apart
    Inputs,           \* options.files
    MaxModelCalls,    \* contract.maxModelCalls
    MaxToolCalls,     \* contract.maxToolCalls
    NudgeLimit,       \* NUDGE_LIMIT
    LengthLimit,      \* LENGTH_LIMIT
    InvalidLimit,     \* INCOMPLETE_EXECUTE_LIMIT
    MaxSteers,        \* bounds the user's messages
    None

ASSUME RunnerAssumption ==
    /\ Inputs \in Contents
    /\ {MaxModelCalls, MaxToolCalls, NudgeLimit, LengthLimit, InvalidLimit, MaxSteers} \subseteq Nat
    /\ None \notin Contents

VARIABLES
    log,         \* the context's events that a decision reads
    cancelled,   \* policy.cancelled
    unsettled,   \* unsettledDispatch()
    blocked,     \* the claim is not released: a clean-up is outstanding
    late,        \* remainingActiveMs() <= 0
    paused,      \* pauseRequested
    aborted,     \* the run's signals
    pc,          \* where the run is; "stopped" between runs
    snapshot,
    loop,        \* messages, calls, tools, the streaks and allowanceFinalizationEligible
    checked,     \* the contents that passed every check
    pending,     \* completionPending
    clean,       \* cleanupConfirmed
    result

signals == <<cancelled, late, paused, aborted>>
outcome == <<checked, pending, clean, result>>
vars == <<log, unsettled, blocked, signals, pc, snapshot, loop, outcome>>

\* "guarded": an execute, or an action of which the model was warned.
Replies == {"guarded", "plain", "length", "no_action"}

\* "done" makes the work eligible for a host validation; "invalid" are incomplete
\* execute arguments at the output limit.
ToolOutcomes == {"done", "failed", "invalid"}
ModelErrors == {"model_request_failed", "model_request_not_dispatched"}
EventTypes ==
    {"started", "checkpoint", "model_started", "model_finished", "model_action_not_started",
     "progress_stop", "nudge", "tool_started", "tool_finished", "host_validation_started",
     "host_validation_finished", "steering", "completed"} \union ModelErrors

\* An event: its type, the operation or call it belongs to, and its value.
Event(type, op, value) == [type |-> type, op |-> op, value |-> value]

Has(type, op) == \E i \in 1 .. Len(log) : log[i].type = type /\ log[i].op = op
HasAny(type) == \E i \in 1 .. Len(log) : log[i].type = type
Count(type, s) == Cardinality({i \in 1 .. Len(s) : s[i].type = type})
LastValue(type) ==
    log[CHOOSE i \in 1 .. Len(log) :
          log[i].type = type /\ \A j \in i + 1 .. Len(log) : log[j].type # type].value

Stopping == aborted \/ cancelled \/ late

-----------------------------------------------------------------------------
(* What a resumed run rebuilds from the log *)

\* The conversation: an action is an assistant message with one tool call; a
\* nudged reply is one without.
MessageOf(e) ==
    CASE e.type = "model_finished" ->
           << <<IF e.value \in {"guarded", "plain"} THEN "call" ELSE "text", e.op>> >>
      [] e.type = "tool_finished" -> << <<"tool", e.op>> >>
      [] e.type = "nudge" -> << <<e.value, e.op>> >>
      [] e.type = "steering" -> << <<"steering", e.op>> >>
      [] OTHER -> <<>>

Replay(s) == FoldLeft(LAMBDA conversation, e : conversation \o MessageOf(e), <<>>, s)

StreaksAfter(streak, e) ==
    CASE e.type = "tool_started" -> [no_action |-> 0, length |-> 0]
      [] e.type = "nudge" ->
           [k \in {"no_action", "length"} |-> IF k = e.value THEN streak[k] + 1 ELSE 0]
      [] OTHER -> streak

Streaks(s) == FoldLeft(StreaksAfter, [no_action |-> 0, length |-> 0], s)

InvalidStreak(s) ==
    FoldLeft(LAMBDA n, e : IF e.type # "tool_finished" THEN n ELSE IF e.value = "invalid" THEN n + 1 ELSE 0, 0, s)

Eligible(s) ==
    FoldLeft(LAMBDA yes, e : IF e.type = "tool_finished" THEN e.value = "done" ELSE yes, FALSE, s)

Answered(e) == \E type \in ModelErrors \union {"model_finished"} : Has(type, e.op)

\* The operations whose outcome the log does not say.
OpenModel(e) == e.type = "model_started" /\ ~Answered(e)
OpenTool(e) == e.type = "tool_started" /\ ~Has("tool_finished", e.op)
OpenValidation(e) == e.type = "host_validation_started" /\ ~HasAny("host_validation_finished")

\* hasUnresolvedExecutionProgressAction
OpenAction(e) ==
    /\ e.type = "model_finished" /\ e.value = "guarded"
    /\ ~Has("tool_started", e.op) /\ ~Has("progress_stop", e.op)

\* Fault: a restart looks for requests, not for what a tool began.
UnresolvedRequests == \E i \in 1 .. Len(log) : OpenModel(log[i]) \/ OpenAction(log[i])

Unresolved ==
    \E i \in 1 .. Len(log) :
        \/ OpenModel(log[i]) \/ OpenTool(log[i]) \/ OpenValidation(log[i]) \/ OpenAction(log[i])
        \/ log[i].type = "model_action_not_started"

\* Whatever sends a resumed run back before it does anything.
Refused ==
    \/ HasAny("completed")
    \/ Unresolved \/ unsettled
    \/ HasAny("progress_stop") \/ HasAny("model_request_not_dispatched")
    \/ Stopping
    \/ HasAny("host_validation_finished")
    \/ InvalidStreak(log) >= InvalidLimit

-----------------------------------------------------------------------------
(* Steps *)

Goto(where) == pc' = where
Record(e) == log' = Append(log, e)

\* finish(status): the run goes to its finally block.
Finish(status) == Goto("closing") /\ result' = status /\ UNCHANGED <<checked, pending, clean>>

NoLoop == [messages |-> <<>>, calls |-> 0, tools |-> 0, noAction |-> 0, lengths |-> 0, invalid |-> 0, eligible |-> FALSE]

\* The locals of a run that returned or was lost.
Forgotten ==
    /\ Goto("stopped") /\ loop' = NoLoop
    /\ paused' = FALSE /\ aborted' = FALSE
    /\ snapshot' = None /\ checked' = None /\ clean' = FALSE

Init ==
    /\ log = <<>> /\ unsettled = FALSE /\ blocked = FALSE
    /\ cancelled = FALSE /\ late = FALSE /\ paused = FALSE /\ aborted = FALSE
    /\ pc = "stopped" /\ snapshot = None /\ loop = NoLoop
    /\ checked = None /\ pending = FALSE /\ clean = FALSE /\ result = None

\* run() up to the claim; the clean-up of an earlier run that did not end.
Start ==
    /\ pc = "stopped"
    /\ Goto(IF blocked THEN "orphans" ELSE "history")
    /\ pending' = FALSE /\ result' = None
    /\ UNCHANGED <<log, unsettled, blocked, signals, snapshot, loop, checked, clean>>

OrphansEnd(ok) ==
    /\ pc = "orphans"
    /\ IF ok THEN Goto("history") /\ UNCHANGED <<paused, aborted, snapshot, loop, outcome>>
       ELSE Forgotten /\ result' = "incomplete" /\ UNCHANGED pending
    /\ UNCHANGED <<log, unsettled, blocked, cancelled, late>>

EndpointFails ==
    /\ pc = "history" /\ ~blocked
    /\ Forgotten /\ result' = "incomplete"
    /\ UNCHANGED <<log, unsettled, blocked, cancelled, late, pending>>

Rebuild ==
    [messages |-> Replay(log), calls |-> Count("model_started", log), tools |-> Count("tool_started", log),
     noAction |-> Streaks(log).no_action, lengths |-> Streaks(log).length,
     invalid |-> InvalidStreak(log), eligible |-> Eligible(log)]

\* The claim is taken and the history read; the first run records its start.
History ==
    /\ pc = "history"
    /\ blocked' = TRUE
    /\ \/ Refused /\ Finish("incomplete") /\ UNCHANGED <<log, snapshot, loop>>
       \/ /\ ~Refused
          /\ loop' = Rebuild
          /\ snapshot' = IF HasAny("checkpoint") THEN LastValue("checkpoint") ELSE None
          /\ \/ HasAny("started") /\ Goto("create") /\ UNCHANGED log
             \/ ~HasAny("started") /\ Goto("begun") /\ Record(Event("started", 0, None))
          /\ UNCHANGED outcome
    /\ UNCHANGED <<unsettled, signals>>

FirstCheckpoint ==
    /\ pc = "begun"
    /\ Record(Event("checkpoint", 0, Inputs)) /\ snapshot' = Inputs
    /\ Goto("create")
    /\ UNCHANGED <<unsettled, blocked, signals, loop, outcome>>

Create(ok) ==
    /\ pc = "create"
    /\ IF ok /\ ~late THEN Goto("turn") /\ UNCHANGED outcome ELSE Finish("incomplete")
    /\ UNCHANGED <<log, unsettled, blocked, signals, snapshot, loop>>

Exhausted == loop.calls >= MaxModelCalls \/ loop.tools >= MaxToolCalls

\* The checks before a model call; the job's request allowance may be used up.
TurnStops ==
    /\ pc = "turn" /\ ~Exhausted
    /\ Finish(IF paused THEN "paused" ELSE "incomplete")
    /\ UNCHANGED <<log, unsettled, blocked, signals, snapshot, loop>>

Ask ==
    /\ pc = "turn" /\ ~Exhausted
    /\ ~paused /\ ~Stopping /\ ~unsettled
    /\ Record(Event("model_started", loop.calls + 1, None))
    /\ loop' = [loop EXCEPT !.calls = @ + 1]
    /\ Goto("model")
    /\ UNCHANGED <<unsettled, blocked, signals, snapshot, outcome>>

\* The request was confirmed not to be sent or not to be answered, or anything
\* else was thrown, which may leave its dispatch unsettled.
ModelFails ==
    /\ pc = "model"
    /\ \/ \E type \in ModelErrors : Record(Event(type, loop.calls, None)) /\ UNCHANGED unsettled
       \/ unsettled' \in {unsettled, TRUE} /\ UNCHANGED log
    /\ Finish("incomplete")
    /\ UNCHANGED <<blocked, signals, snapshot, loop>>

\* An event that is also a message of the conversation.
Said(e) == loop.messages \o MessageOf(e)

Reply(kind) ==
    /\ pc = "model"
    /\ LET e == Event("model_finished", loop.calls, kind) IN
       Record(e) /\ loop' = [loop EXCEPT !.messages = Said(e)]
    /\ Goto("replied")
    /\ UNCHANGED <<unsettled, blocked, signals, snapshot, outcome>>

-----------------------------------------------------------------------------
(* What becomes of a reply *)

LastReply == LastValue("model_finished")

\* Fault: the model is told, but not the log.
NudgeUnsaved(e) == UNCHANGED log

NudgeSaved(e) == Record(e)

\* A reply without exactly one complete action executes nothing.
Nudged(kind) ==
    LET e == Event("nudge", loop.calls, kind)
        streak == [loop EXCEPT !.noAction = IF kind = "no_action" THEN @ + 1 ELSE 0,
                               !.lengths = IF kind = "length" THEN @ + 1 ELSE 0] IN
    /\ LastReply = kind
    /\ IF streak.noAction > NudgeLimit \/ streak.lengths > LengthLimit
       THEN Finish("incomplete") /\ UNCHANGED <<log, loop>>
       ELSE /\ NudgeSaved(e) /\ loop' = [streak EXCEPT !.messages = Said(e)]
            /\ Goto("turn") /\ UNCHANGED outcome

BeginTool(before) ==
    /\ log' = Append(before, Event("tool_started", loop.calls, None))
    /\ loop' = [loop EXCEPT !.tools = @ + 1, !.eligible = FALSE, !.noAction = 0, !.lengths = 0]
    /\ Goto("tool") /\ UNCHANGED outcome

\* The action is started; or its id was seen before; or it repeats what failed,
\* which the workspace must show first.
Acted ==
    /\ LastReply \in {"guarded", "plain"}
    /\ \/ BeginTool(log)
       \/ Finish("incomplete") /\ UNCHANGED <<log, loop>>
       \/ LastReply = "guarded" /\ Goto("recheck") /\ UNCHANGED <<log, loop, outcome>>

\* Fault: a late reply is acted on.
ActLate ==
    /\ pc = "replied"
    /\ Acted
    /\ UNCHANGED <<unsettled, blocked, signals, snapshot>>

Act ==
    /\ pc = "replied"
    /\ \/ /\ Stopping
          /\ Record(Event("model_action_not_started", loop.calls, None))
          /\ Finish("incomplete") /\ UNCHANGED loop
       \/ ~Stopping /\ (Acted \/ \E kind \in {"length", "no_action"} : Nudged(kind))
    /\ UNCHANGED <<unsettled, blocked, signals, snapshot>>

\* The workspace is captured: unless a background process has changed it, the
\* repeated action is stopped.
Recheck(content) ==
    LET changed == content # snapshot
        before == IF changed THEN Append(log, Event("checkpoint", loop.calls, content)) ELSE log IN
    /\ pc = "recheck"
    /\ snapshot' = content
    /\ \/ /\ Stopping
          /\ log' = Append(before, Event("model_action_not_started", loop.calls, None))
          /\ Finish("incomplete") /\ UNCHANGED loop
       \/ /\ ~Stopping /\ ~changed
          /\ Record(Event("progress_stop", loop.calls, None))
          /\ Finish("incomplete") /\ UNCHANGED loop
       \/ ~Stopping /\ changed /\ BeginTool(before)
    /\ UNCHANGED <<unsettled, blocked, signals>>

\* The workspace is saved with the tool's receipt in one transaction.
Receipt(content, how) ==
    LET e == Event("tool_finished", loop.calls, how) IN
    /\ snapshot' = content
    /\ log' = log \o <<Event("checkpoint", loop.calls, content), e>>
    /\ loop' = [loop EXCEPT !.messages = Said(e), !.eligible = (how = "done"),
                            !.invalid = IF how = "invalid" THEN @ + 1 ELSE 0]

\* A tool has succeeded, or failed in a way the model is told of.
ToolEnds(content, how) ==
    /\ pc = "tool"
    /\ Receipt(content, how)
    /\ IF loop'.invalid >= InvalidLimit THEN Finish("incomplete") ELSE Goto("turn") /\ UNCHANGED outcome
    /\ UNCHANGED <<unsettled, blocked, signals>>

\* Fault: the workspace is captured again once the checks have passed.
Recaptured(content) == Contents

\* What a finish saves after the checks of what it captured: with the sandbox
\* closed, or filled with the same files again, nothing else.
Saved(content) == {content}

\* finish: the capture is checked in another container; failing that, a new
\* sandbox is made from it.
FinishTool(content, passed) ==
    /\ pc = "tool"
    /\ \E saved \in Saved(content) : Receipt(saved, "failed")
    /\ IF passed
       THEN Goto("closing") /\ result' = "completed" /\ checked' = content /\ pending' = TRUE /\ UNCHANGED clean
       ELSE Goto("turn") /\ UNCHANGED outcome
    /\ UNCHANGED <<unsettled, blocked, signals>>

\* A fetch without a known outcome; a capture, retention or check that fails: the
\* tool has no receipt.
ToolLost ==
    /\ pc = "tool"
    /\ unsettled' \in {unsettled, TRUE}
    /\ Finish("incomplete")
    /\ UNCHANGED <<log, blocked, signals, snapshot, loop>>

-----------------------------------------------------------------------------
(* The end of a run *)

\* Fault: only a run with work to check gets anywhere.
ExhaustedEligible ==
    /\ pc = "turn" /\ Exhausted
    /\ loop.eligible /\ ~paused /\ ~Stopping /\ ~unsettled
    /\ Record(Event("host_validation_started", loop.calls, None)) /\ Goto("validating")
    /\ UNCHANGED <<unsettled, blocked, signals, snapshot, loop, outcome>>

\* The allowance is used up: work that is eligible is checked as it is.
LoopExhausted ==
    /\ pc = "turn" /\ Exhausted
    /\ IF loop.eligible /\ ~paused /\ ~Stopping /\ ~unsettled
       THEN Record(Event("host_validation_started", loop.calls, None)) /\ Goto("validating") /\ UNCHANGED outcome
       ELSE Finish(IF paused THEN "paused" ELSE "incomplete") /\ UNCHANGED log
    /\ UNCHANGED <<unsettled, blocked, signals, snapshot, loop>>

ValidationCaptured(content) ==
    /\ pc = "validating"
    /\ Record(Event("checkpoint", loop.calls, content)) /\ snapshot' = content
    /\ IF Stopping THEN Finish("incomplete") ELSE Goto("checking") /\ UNCHANGED outcome
    /\ UNCHANGED <<unsettled, blocked, signals, loop>>

ValidationEnds(passed) ==
    /\ pc = "checking"
    /\ Record(Event("host_validation_finished", loop.calls, IF passed THEN "passed" ELSE "failed"))
    /\ IF passed
       THEN Goto("closing") /\ result' = "completed" /\ checked' = snapshot /\ pending' = TRUE /\ UNCHANGED clean
       ELSE Finish("incomplete")
    /\ UNCHANGED <<unsettled, blocked, signals, snapshot, loop>>

\* A capture, a container or the store fails: runtime_failure.
Throws ==
    /\ pc \in {"history", "begun", "turn", "replied", "recheck", "validating", "checking"}
    /\ Finish("incomplete")
    /\ blocked' = TRUE
    /\ UNCHANGED <<log, unsettled, signals, snapshot, loop>>

CleanupEnds(ok) ==
    /\ pc = "closing"
    /\ clean' = ok
    /\ Goto("ending") /\ loop' = NoLoop
    /\ UNCHANGED <<log, unsettled, blocked, signals, snapshot, checked, pending, result>>

\* run_ended, and completed if nothing has come between.
End ==
    /\ pc = "ending"
    /\ IF pending /\ clean /\ ~Stopping /\ ~unsettled
       THEN Record(Event("completed", 0, snapshot)) ELSE UNCHANGED log
    /\ Goto("ended")
    /\ UNCHANGED <<unsettled, blocked, signals, snapshot, loop, outcome>>

\* The claim is released, and the result corrected, for which the clock is read again.
Return ==
    /\ pc = "ended"
    /\ blocked' = ~clean
    /\ result' = IF ~clean \/ (pending /\ (unsettled \/ Stopping)) THEN "incomplete" ELSE result
    /\ Forgotten
    /\ UNCHANGED <<log, unsettled, cancelled, late, pending>>

\* An append of the finally block fails: run() throws, the claim stays.
EndThrows ==
    /\ pc \in {"ending", "ended"}
    /\ Forgotten /\ result' = None
    /\ UNCHANGED <<log, unsettled, blocked, cancelled, late, pending>>

-----------------------------------------------------------------------------
(* The session, the user, the clock and the host *)

\* Where the run waits; elsewhere the process does nothing else.
Waiting == {"orphans", "history", "create", "turn", "model", "recheck", "tool", "validating", "checking", "closing"}

Pause ==
    /\ pc \in Waiting \ {"closing"} /\ ~paused
    /\ paused' = TRUE
    /\ UNCHANGED <<log, unsettled, blocked, cancelled, late, aborted, pc, snapshot, loop, outcome>>

\* cancel() of the runner; of the job, if nothing runs.
Cancel ==
    /\ pc \in Waiting \union {"stopped"} /\ ~cancelled
    /\ cancelled' = TRUE /\ aborted' = (pc \in Waiting)
    /\ UNCHANGED <<log, unsettled, blocked, late, paused, pc, snapshot, loop, outcome>>

AbortSignal ==
    /\ pc \in Waiting /\ ~aborted
    /\ aborted' = TRUE
    /\ UNCHANGED <<log, unsettled, blocked, cancelled, late, paused, pc, snapshot, loop, outcome>>

DeadlinePasses ==
    /\ ~late /\ late' = TRUE
    /\ UNCHANGED <<log, unsettled, blocked, cancelled, paused, aborted, pc, snapshot, loop, outcome>>

Steer ==
    /\ pc = "stopped" /\ ~blocked
    /\ Count("steering", log) < MaxSteers
    /\ Record(Event("steering", Count("steering", log) + 1, None))
    /\ UNCHANGED <<unsettled, blocked, signals, pc, snapshot, loop, outcome>>

\* A dispatch under way stays unsettled; the time the run took is not recorded.
Crash ==
    /\ pc # "stopped"
    /\ Forgotten /\ pending' = FALSE /\ result' = None
    /\ unsettled' \in IF pc \in {"model", "tool"} THEN {unsettled, TRUE} ELSE {unsettled}
    /\ late' \in {late, FALSE}
    /\ UNCHANGED <<log, cancelled, blocked>>

RunStep ==
    \/ History \/ FirstCheckpoint
    \/ TurnStops \/ Ask \/ ModelFails \/ Act \/ ToolLost \/ LoopExhausted \/ End \/ Return
    \/ \E kind \in Replies : Reply(kind)
    \/ \E ok \in BOOLEAN : OrphansEnd(ok) \/ Create(ok) \/ ValidationEnds(ok) \/ CleanupEnds(ok)
    \/ \E content \in Contents :
        \/ Recheck(content) \/ ValidationCaptured(content)
        \/ \E how \in ToolOutcomes : ToolEnds(content, how)
        \/ \E passed \in BOOLEAN : FinishTool(content, passed)

Next ==
    \/ Start \/ RunStep
    \/ EndpointFails \/ Throws \/ EndThrows
    \/ Pause \/ Cancel \/ AbortSignal \/ DeadlinePasses \/ Steer \/ Crash

Spec == Init /\ [][Next]_vars

\* Everything a run waits for ends under a timer.  No failure of the store or the
\* daemon is needed for it to go on.
FairSpec == Spec /\ WF_vars(RunStep)

-----------------------------------------------------------------------------
(* Properties *)

\* Whatever a run knows when it asks the model, a restart would rebuild from the
\* log: the conversation, the counters, the streaks and the saved workspace.  So
\* the contract's allowances hold over all the runs of a context together.
MemoryIsDurable ==
    pc = "turn" =>
        /\ loop.messages = Replay(log)
        /\ loop.calls = Count("model_started", log) /\ loop.tools = Count("tool_started", log)
        /\ loop.noAction = Streaks(log).no_action /\ loop.lengths = Streaks(log).length
        /\ loop.invalid = InvalidStreak(log) /\ loop.eligible = Eligible(log)
        /\ HasAny("checkpoint") => snapshot = LastValue("checkpoint")

Appended == {log'[i] : i \in Len(log) + 1 .. Len(log')}
Starts == {"model_started", "tool_started", "host_validation_started", "completed"}

\* "unresolved_operation_no_replay": once an operation is left without an outcome,
\* nothing is asked, executed, validated or completed in this context again.
UnknownIsLast ==
    [][\A e \in Appended : e.type \in Starts =>
         ~\E i \in 1 .. Len(log) : OpenModel(log[i]) \/ OpenTool(log[i]) \/ OpenValidation(log[i])]_vars

\* "A delayed timer must not admit a late action": nothing starts, and nothing is
\* completed, after the deadline or a cancellation was there to be seen.
NothingStartsLate == [][(cancelled \/ late) => \A e \in Appended : e.type \notin Starts]_vars

\* "Completion uses exactly these immutable bytes": what a context completes with
\* passed every check, in this run, and is what its last checkpoint holds.
CompletedAsVerified ==
    [][\A e \in Appended : e.type = "completed" => e.value = checked /\ e.value = LastValue("checkpoint")]_vars

\* A run returns.
RunReturns == pc # "stopped" ~> pc = "stopped"

=============================================================================
