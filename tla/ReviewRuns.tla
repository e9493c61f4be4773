------------------------------ MODULE ReviewRuns ------------------------------
(***************************************************************************)
(* Change reviews running side by side in one application: the local and   *)
(* the hybrid coordinator, the event log and the budget rows they write in *)
(* one transaction, cancellation, a failing write, a crash, and the        *)
(* recovery of every running session at the next start.                    *)
(*                                                                         *)
(* A coordinator is the place in its program where it waits (job[s].at);   *)
(* what it does between two waits is one action per transaction. A batch   *)
(* of events is written whole or not at all, and a refused batch throws.   *)
(***************************************************************************)
EXTENDS SessionGrammar, FiniteSets, Sequences, SequencesExt

CONSTANTS
    Sessions,
    Projections,  \* what a cloud attempt may be projected to cost
    Costs,        \* what a cloud attempt may turn out to cost
    Stop,         \* the campaign's automatic stop and hard ceiling
    Paths,        \* changed files a review may want to read
    Window,       \* attemptTimeoutMs, in ticks
    HealthTtl,    \* MODEL_HEALTH_TTL_MS, in ticks
    MaxTime, MaxCrashes, MaxFaults, MaxSetbacks  \* bounds

ASSUME ReviewAssumption ==
    /\ IsFiniteSet(Sessions)
    /\ Projections \subseteq Nat \ {0} /\ Costs \subseteq Nat /\ Stop \in Nat
    /\ Paths \in Nat /\ Window \in Nat /\ HealthTtl \in Nat
    /\ Rounds >= 2 /\ ToolCalls >= 1
    /\ MaxTime \in Nat /\ MaxCrashes \in Nat /\ MaxFaults \in Nat /\ MaxSetbacks \in Nat

VARIABLES
    log,      \* the folded event log of each session
    rows,     \* its row of the budget ledger
    job,      \* its coordinator
    aborted,  \* its AbortController's signal
    faulted,  \* sessions one of whose writes failed
    ready,    \* start-up recovery is over
    now,      \* the wall clock, which may be set back
    crashes, setbacks

vars == <<log, rows, job, aborted, faulted, ready, now, crashes, setbacks>>

Budget == INSTANCE BudgetLedger WITH
    Opening <- 0, AutomaticStop <- Stop, HardCeiling <- Stop,
    Amounts <- Projections \cup Costs \cup {0}

Idle == [at |-> "idle", left |-> 0, risk |-> "none", stamp |-> 0]
Done == [Idle EXCEPT !.at = "done"]

\* Places where nothing is awaited: no other program of the event loop runs there.
Synchronous == {"request", "uninspected", "next", "accepted"}

At(s, place) ==
    /\ ready /\ job[s].at = place
    /\ \A t \in Sessions \ {s} : job[t].at \notin Synchronous

\* timestamp: the clock, but never before the session's last event.
Time(s) == IF now > log[s].at THEN now ELSE log[s].at

To(s, place) == [job[s] EXCEPT !.at = place]

-----------------------------------------------------------------------------
(* Batches of events *)

Ev(type, t) == [type |-> type, at |-> t]

Admission(t, verdict) ==
    [type |-> "cloud.egress.admission.recorded", at |-> t, verdict |-> verdict]

Decision(t, boundary, action, reason, provider, reserve) ==
    [type |-> "routing.decision.recorded", at |-> t,
     decision |-> [boundary |-> boundary, action |-> action, reason |-> reason,
                   provider |-> provider, reserve |-> reserve]]

Assign(t, boundary, reason, provider, reserve) ==
    << Decision(t, boundary, "assign_new_lease", reason, provider, reserve),
       [type |-> "route.assigned", at |-> t, provider |-> provider] >>

Retain(t, reason) ==
    << Decision(t, "evidence_complete", "retain_lease", reason, "local", 0) >>

\* startEvents: the message, its context and its attempt.
Round(t, phase, reserve) ==
    << Ev("assistant.message.started", t), Ev("context.compiled", t),
       [type |-> "inference.attempt.started", at |-> t, phase |-> phase,
        tooling |-> IF phase = "synthesis" THEN "none" ELSE "required",
        structured |-> phase = "synthesis", reserve |-> reserve] >>

\* The message and the end of the open attempt of session s.
Finishing(s, outcome, stop, disposition, cost, provenance) ==
    LET attempt == log[s].attempts
        parse == IF ~log[s].attempt.structured THEN "none"
                 ELSE IF outcome = "succeeded" THEN "accepted" ELSE "rejected" IN
    << [type |-> "assistant.message.completed", at |-> Time(s), attempt |-> attempt,
        stop |-> stop, complete |-> outcome = "succeeded", parse |-> parse],
       [type |-> "inference.attempt.finished", at |-> Time(s), attempt |-> attempt,
        outcome |-> outcome, disposition |-> disposition, cost |-> cost,
        provenance |-> provenance] >>

\* What an event makes of the sessions that accept it.
Reduced(states, e) == { Reduce(s, e) : s \in { x \in states : Accepts(x, e) } }

\* The session a batch leads to, in a set; the empty set when an event of it is refused.
Folded(session, batch) == FoldLeft(Reduced, {session}, batch)

\* The coordinator's catch: the terminal event is written if the log admits one.
GiveUp(s) ==
    LET e == Ev(IF aborted[s] THEN "session.cancelled" ELSE "session.failed", Time(s)) IN
    /\ log' = [log EXCEPT ![s] = IF Accepts(@, e) THEN Reduce(@, e) ELSE @]
    /\ job' = [job EXCEPT ![s] = Done]
    /\ UNCHANGED rows

\* One transaction: the events and the budget rows, then the next place.
Commit(s, batch, next, ledger) ==
    IF Folded(log[s], batch) = {} THEN GiveUp(s)
    ELSE /\ \E session \in Folded(log[s], batch) : log' = [log EXCEPT ![s] = session]
         /\ job' = [job EXCEPT ![s] = next]
         /\ rows' = ledger

End(s, type) == Commit(s, << Ev(type, Time(s)) >>, Done, rows)

-----------------------------------------------------------------------------
(* Evidence: the local model calls the inspection, then reads of changed files *)

\* The route of session_start; its reason is the policy's local investigation.
Investigate(s, next, opening) ==
    Commit(s, opening \o Round(Time(s), "investigation", 0), next, rows)

Begin(s) ==
    /\ At(s, "idle") /\ log[s].status = "created"
    /\ Commit(s, << Ev("session.started", Time(s)) >>, To(s, "health"), rows)

Health(s) ==
    /\ At(s, "health")
    /\ IF aborted[s] THEN End(s, "session.cancelled")
       ELSE \/ End(s, "session.failed")
            \/ Investigate(s, [Idle EXCEPT !.at = "ask", !.stamp = Time(s)],
                   Assign(Time(s), "session_start", "local_policy", "local", 0))

\* Fault: the signal is not looked at once the answer is in.
RepliesUnheeded(s) == {"succeeded", "provider_error", "protocol_error", "timeout"}

\* What a wait for a model ends with; a signal set meanwhile decides.
Replies(s) ==
    IF aborted[s] THEN {"cancelled"}
    ELSE {"succeeded", "provider_error", "protocol_error", "timeout"}

\* A local attempt that fails ends its session in the same batch.
FinishLocal(s, outcome, stop, next) ==
    IF outcome = "succeeded"
    THEN Commit(s, Finishing(s, outcome, stop, "sent", 0, "local_zero_cost"), next, rows)
    ELSE Commit(s, Append(Finishing(s, outcome, "error", "sent", 0, "local_zero_cost"),
                          Ev(IF outcome = "cancelled" THEN "session.cancelled"
                                                      ELSE "session.failed", Time(s))),
                Done, rows)

Ask(s) ==
    /\ At(s, "ask")
    /\ \E outcome \in Replies(s) : FinishLocal(s, outcome, "tool_calls", To(s, "request"))

Request(s) ==
    /\ At(s, "request")
    /\ Commit(s, << [type |-> "tool.call.requested", at |-> Time(s),
                     tool |-> IF log[s].inspected THEN "read_text_file"
                                                  ELSE "inspect_git_changes"] >>,
              To(s, "tool"), rows)

Risks(s) == IF log[s].hybrid THEN {"low_risk", "high_risk", "incomplete"} ELSE {"any"}

\* readLimit
Reads(paths) ==
    CHOOSE n \in {ToolCalls - 1, Rounds - 2, paths} :
        n <= ToolCalls - 1 /\ n <= Rounds - 2 /\ n <= paths

Tool(s) ==
    /\ At(s, "tool")
    /\ \E ok \in BOOLEAN :
           LET batch == << [type |-> "tool.call.completed", at |-> Time(s), ok |-> ok] >> IN
           CASE log[s].inspected -> Commit(s, batch, To(s, "next"), rows)
             [] ~log[s].inspected /\ ~ok -> Commit(s, batch, To(s, "uninspected"), rows)
             [] OTHER ->
                  \E paths \in 0 .. Paths, risk \in Risks(s) :
                      Commit(s, batch, [To(s, "next") EXCEPT !.left = Reads(paths),
                                                             !.risk = risk], rows)

Uninspected(s) ==
    /\ At(s, "uninspected")
    /\ End(s, IF aborted[s] THEN "session.cancelled" ELSE "session.failed")

ReadNext(s) ==
    /\ At(s, "next") /\ ~aborted[s] /\ job[s].left > 0
    /\ Investigate(s, [To(s, "ask") EXCEPT !.left = @ - 1], << >>)

StopReading(s) == At(s, "next") /\ aborted[s] /\ End(s, "session.cancelled")

-----------------------------------------------------------------------------
(* The local synthesis *)

LocalReason(s) == IF job[s].risk = "low_risk" THEN "low_risk_local_review" ELSE "local_policy"

Synthesise(s, opening) ==
    Commit(s, opening \o Round(Time(s), "synthesis", 0), To(s, "review"), rows)

SynthesiseLocal(s) ==
    /\ At(s, "next") /\ ~aborted[s] /\ job[s].left = 0 /\ job[s].risk # "high_risk"
    /\ IF Time(s) >= job[s].stamp + HealthTtl
       THEN /\ job' = [job EXCEPT ![s] = [To(s, "revalidate") EXCEPT !.stamp = Time(s)]]
            /\ UNCHANGED <<log, rows>>
       ELSE Synthesise(s, Retain(Time(s), LocalReason(s)))

\* The hybrid coordinator's route was resolved before the health check, and a batch
\* bears the time of its route.
Revalidate(s) ==
    /\ At(s, "revalidate")
    /\ IF aborted[s] THEN End(s, "session.cancelled")
       ELSE \/ GiveUp(s)
            \/ IF log[s].hybrid /\ Time(s) # job[s].stamp THEN GiveUp(s)
               ELSE Synthesise(s, Retain(Time(s), LocalReason(s)))

\* A result worth checking is checked against the workspace, which is awaited.
Review(s) ==
    /\ At(s, "review")
    /\ \E outcome \in Replies(s) :
           IF outcome = "succeeded"
           THEN job' = [job EXCEPT ![s] = To(s, "verify")] /\ UNCHANGED <<log, rows>>
           ELSE FinishLocal(s, outcome, "error", Done)

Verify(s) ==
    /\ At(s, "verify")
    /\ \E outcome \in Replies(s) \ {"provider_error", "timeout"} :
           FinishLocal(s, outcome, "stop", To(s, "accepted"))

Complete(s) ==
    /\ At(s, "accepted")
    /\ Commit(s, << [type |-> "completion.obligations.checked", at |-> Time(s),
                     resolved |-> TRUE, outcome |-> "accepted",
                     remaining |-> Rounds - log[s].assistants],
                    Ev("session.completed", Time(s)) >>, Done, rows)

-----------------------------------------------------------------------------
(* The cloud synthesis of a high-risk review *)

\* What reconciliation reads of a session: the row its events call for.
RowOf(session) ==
    LET open == [state |-> "reserved", reserved |-> session.reserved, amount |-> 0] IN
    IF session.reserved = 0 THEN Budget!NoRow
    ELSE IF session.settled = Unsettled THEN open
    ELSE [open EXCEPT !.state = Budget!TerminalState(open, session.settled.cost,
                                                     session.settled.disposition),
                      !.amount = session.settled.cost]

\* assertEventReconciled
Reconciled ==
    \A s \in Sessions :
        /\ rows[s] = RowOf(log[s])
        /\ rows[s].state = "reserved" => log[s].status = "running"
        /\ rows[s].state = "overrun" => log[s].status = "failed"

TooLate(s) == Time(s) + Window > log[s].deadline

AdmitCloud(s, projected) ==
    LET t == Time(s)
        paid == << Admission(t, "pass") >>
                    \o Assign(t, "evidence_complete", "cloud_admitted", "cloud", projected)
                    \o Round(t, "synthesis", projected)
    IN IF ~Reconciled THEN GiveUp(s)
       ELSE IF Budget!Denial(rows, s, projected) = "none"
       THEN Commit(s, paid, To(s, "cloud"), Budget!Reserved(rows, s, projected))
       ELSE Synthesise(s, << Admission(t, "pass") >> \o Retain(t, "budget_denial"))

ProposeCloud(s) ==
    /\ At(s, "next") /\ ~aborted[s] /\ job[s].left = 0 /\ job[s].risk = "high_risk"
    /\ \/ Synthesise(s, << Admission(Time(s), "deny") >> \o Retain(Time(s), "egress_denial"))
       \/ Synthesise(s, << Admission(Time(s), "pass") >> \o Retain(Time(s), "gate_denial"))
       \/ ~TooLate(s) /\ \E projected \in Projections : AdmitCloud(s, projected)

\* cloudCost: an answer that reports its usage is priced, any other costs what was reserved.
Charges(s) ==
    { [cost |-> c, provenance |-> "priced"] : c \in Costs }
        \cup { [cost |-> log[s].decision.reserve, provenance |-> "reserved_unknown"] }

FinishCloud(s, outcome, disposition, charge, fatal, next) ==
    LET ends == IF outcome = "cancelled" THEN << Ev("session.cancelled", Time(s)) >>
                ELSE IF fatal \/ charge.cost > log[s].decision.reserve
                THEN << Ev("session.failed", Time(s)) >>
                ELSE << >>
    IN Commit(s, Finishing(s, outcome, IF outcome = "succeeded" THEN "stop" ELSE "error",
                           disposition, charge.cost, charge.provenance) \o ends,
              IF ends = << >> THEN next ELSE Done,
              Budget!Resolved(rows, s, charge.cost, disposition))

Unsent == [cost |-> 0, provenance |-> "priced"]
InFull(s) == [cost |-> log[s].decision.reserve, provenance |-> "reserved_unknown"]

Cloud(s) ==
    /\ At(s, "cloud")
    /\ \/ \* the signal or the deadline came before the request was made
          /\ aborted[s] \/ Time(s) >= log[s].deadline
          /\ FinishCloud(s, IF aborted[s] THEN "cancelled" ELSE "timeout", "not_sent",
                         Unsent, FALSE, To(s, "fallback"))
       \/ \E outcome \in Replies(s) \ {"succeeded"} :
              \E charge \in IF outcome = "protocol_error" THEN Charges(s) ELSE {InFull(s)} :
                  FinishCloud(s, outcome, "sent", charge, FALSE, To(s, "fallback"))
       \/ /\ ~aborted[s]
          /\ job' = [job EXCEPT ![s] = To(s, "cloudverify")]
          /\ UNCHANGED <<log, rows>>

\* The answer is checked against the workspace, which is awaited; a stale workspace ends
\* the session, an answer that does not fit it is a failure of the provider.
CloudVerify(s) ==
    /\ At(s, "cloudverify")
    /\ IF aborted[s]
       THEN FinishCloud(s, "cancelled", "sent", InFull(s), FALSE, Done)
       ELSE \E charge \in Charges(s) :
                \/ FinishCloud(s, "succeeded", "sent", charge, FALSE, To(s, "accepted"))
                \/ \E stale \in BOOLEAN :
                       FinishCloud(s, "protocol_error", "sent", charge, stale,
                                   To(s, "fallback"))

\* The one local fallback after a failure of the provider.
Fallback(s) ==
    /\ At(s, "fallback")
    /\ IF aborted[s] THEN End(s, "session.cancelled")
       ELSE IF TooLate(s) THEN GiveUp(s)
       ELSE Synthesise(s, Assign(Time(s), "provider_failure", "local_fallback", "local", 0))

-----------------------------------------------------------------------------
(* The user, failing writes, crash and recovery *)

\* A review that was not started is cancelled at the clock's own time, or the call throws.
Cancel(s) ==
    /\ ready /\ \A t \in Sessions : job[t].at \notin Synchronous
    /\ \/ /\ job[s].at \notin {"idle", "done"} /\ ~aborted[s]
          /\ aborted' = [aborted EXCEPT ![s] = TRUE]
          /\ UNCHANGED <<log, rows, job>>
       \/ LET e == Ev("session.cancelled", now) IN
          /\ job[s].at = "idle" /\ log[s].status = "created"
          /\ Accepts(log[s], e)
          /\ log' = [log EXCEPT ![s] = Reduce(@, e)]
          /\ UNCHANGED <<rows, job, aborted>>

\* A transaction of the coordinator throws, and so may the one that records it.
Fault(s) ==
    /\ At(s, job[s].at) /\ job[s].at \notin {"idle", "done"}
    /\ Cardinality(faulted) < MaxFaults
    /\ faulted' = faulted \cup {s}
    /\ \/ GiveUp(s)
       \/ job' = [job EXCEPT ![s] = Done] /\ UNCHANGED <<log, rows>>

Crash ==
    /\ ready /\ crashes < MaxCrashes
    /\ ready' = FALSE /\ crashes' = crashes + 1
    /\ job' = [s \in Sessions |-> Idle]
    /\ aborted' = [s \in Sessions |-> FALSE]
    /\ UNCHANGED <<log, rows, faulted, now, setbacks>>

\* Fault: a tool call that was under way is not ended.
RecoveryOfAttempt(s) ==
    LET l == log[s] IN
    (IF l.attempt.open
     THEN << [type |-> "inference.attempt.finished", at |-> now, attempt |-> l.attempts,
              outcome |-> "interrupted", disposition |-> "sent", cost |-> l.attempt.reserve,
              provenance |-> IF l.attempt.reserve > 0 THEN "reserved_unknown"
                                                       ELSE "local_zero_cost"] >>
     ELSE << >>)
        \o << Ev("session.interrupted", now) >>

\* The batch that ends a session found running, at the clock's own time: it is not held back
\* to the session's last event, as a coordinator's is.
Recovery(s) ==
    LET l == log[s]
        paid == l.attempt.reserve > 0
        attempt == [type |-> "inference.attempt.finished", at |-> now, attempt |-> l.attempts,
                    outcome |-> "interrupted", disposition |-> "sent",
                    cost |-> l.attempt.reserve,
                    provenance |-> IF paid THEN "reserved_unknown" ELSE "local_zero_cost"]
        tool == [type |-> "tool.call.completed", at |-> now, ok |-> FALSE]
    IN (IF l.attempt.open THEN << attempt >> ELSE << >>)
           \o (IF PendingCall(l) THEN << tool >> ELSE << >>)
           \o << Ev(IF l.attempt.outcome = "cancelled" THEN "session.cancelled"
                                                       ELSE "session.interrupted", now) >>

\* Fault: recovery leaves the reservation of the attempt it ends open.
RecoverUnsettled(s) ==
    /\ ~ready /\ log[s].status = "running"
    /\ \E session \in Folded(log[s], Recovery(s)) : log' = [log EXCEPT ![s] = session]
    /\ UNCHANGED <<rows, job, aborted, faulted, ready, now, crashes, setbacks>>

\* A start whose batch is refused fails and leaves the session as it was for the next one.
Recover(s) ==
    /\ ~ready /\ log[s].status = "running"
    /\ \E session \in Folded(log[s], Recovery(s)) : log' = [log EXCEPT ![s] = session]
    /\ rows' = IF log[s].attempt.open /\ log[s].attempt.reserve > 0
               THEN Budget!Resolved(rows, s, log[s].attempt.reserve, "sent")
               ELSE rows
    /\ UNCHANGED <<job, aborted, faulted, ready, now, crashes, setbacks>>

\* Fault: the application is up before every session was looked at.
RecoveredEarly ==
    /\ ~ready /\ ready' = TRUE
    /\ UNCHANGED <<log, rows, job, aborted, faulted, now, crashes, setbacks>>

Recovered ==
    /\ ~ready /\ \A s \in Sessions : log[s].status # "running"
    /\ Reconciled
    /\ ready' = TRUE
    /\ UNCHANGED <<log, rows, job, aborted, faulted, now, crashes, setbacks>>

Tick ==
    /\ now < MaxTime
    /\ now' = now + 1
    /\ UNCHANGED <<log, rows, job, aborted, faulted, ready, crashes, setbacks>>

SetBack ==
    /\ setbacks < MaxSetbacks
    /\ setbacks' = setbacks + 1
    /\ now' \in 0 .. now - 1
    /\ UNCHANGED <<log, rows, job, aborted, faulted, ready, crashes>>

-----------------------------------------------------------------------------

Init ==
    /\ now \in 0 .. MaxTime
    /\ \E hybrid \in [Sessions -> BOOLEAN] :
           log = [s \in Sessions |-> NewSession(hybrid[s], now)]
    /\ rows = [s \in Sessions |-> Budget!NoRow]
    /\ job = [s \in Sessions |-> Idle]
    /\ aborted = [s \in Sessions |-> FALSE]
    /\ faulted = {} /\ ready = TRUE /\ crashes = 0 /\ setbacks = 0

\* What a started coordinator does next.
Step(s) ==
    /\ \/ Health(s) \/ Ask(s) \/ Request(s) \/ Tool(s) \/ Uninspected(s)
       \/ ReadNext(s) \/ StopReading(s)
       \/ SynthesiseLocal(s) \/ Revalidate(s) \/ Review(s) \/ Verify(s) \/ Complete(s)
       \/ ProposeCloud(s) \/ Cloud(s) \/ CloudVerify(s) \/ Fallback(s)
    /\ UNCHANGED <<aborted, faulted, ready, now, crashes, setbacks>>

Next ==
    \/ \E s \in Sessions :
           \/ Step(s)
           \/ Begin(s) /\ UNCHANGED <<aborted, faulted, ready, now, crashes, setbacks>>
           \/ Cancel(s) /\ UNCHANGED <<faulted, ready, now, crashes, setbacks>>
           \/ Fault(s) /\ UNCHANGED <<aborted, ready, now, crashes, setbacks>>
           \/ Recover(s)
    \/ Crash \/ Recovered \/ Tick \/ SetBack

\* Every wait ends: model calls and health checks have a timeout, the workspace is
\* inspected by a bounded program, and recovery runs before anything else, at each start
\* until the clock, which goes on, has passed what the logs say.
Fairness ==
    /\ \A s \in Sessions : WF_vars(Step(s)) /\ WF_vars(Recover(s))
    /\ WF_vars(Recovered) /\ WF_vars(Tick)

Spec == Init /\ [][Next]_vars
FairSpec == Spec /\ Fairness

-----------------------------------------------------------------------------
(* Properties *)

\* A crash may come at any moment: whatever a running review has written, the batch
\* recovery would append to it is accepted, unless the clock is behind the review's last
\* event. Only then can a session keep the next start from finishing, and it does, until
\* the clock has caught up: recovery.ts:123 takes the time as it is.
RecoveryAccepted ==
    \A s \in Sessions : log[s].status = "running" =>
        (Folded(log[s], Recovery(s)) # {} <=> log[s].at <= now)

\* What the reviews owe never exceeds the campaign but for an overrun, crashes included.
WithinCampaign == Budget!WithinCampaign

\* A review whose user stopped it is never completed, though its answer may be in and
\* accepted by then.
CancelWins == \A s \in Sessions : aborted[s] => log[s].status # "completed"

\* The event logs alone are a budget ledger: the rows they call for are reserved and
\* answered as the ledger's own specification allows.
Logged == INSTANCE BudgetLedger WITH
    Opening <- 0, AutomaticStop <- Stop, HardCeiling <- Stop,
    Amounts <- Projections \cup Costs \cup {0},
    rows <- [s \in Sessions |-> RowOf(log[s])]

ImplementsBudget == Logged!Spec

\* Every started review ends, crashes and cancellations included, unless a write failed.
ReviewsEnd ==
    \A s \in Sessions :
        log[s].status = "running" ~> (log[s].status \in Terminal \/ s \in faulted)

\* What the step out of a place does to a review nobody stopped and no write of which failed.
Undisturbed(s, place) ==
    /\ ready /\ ready' /\ faulted' = faulted /\ ~aborted[s]
    /\ job[s].at = place /\ job'[s].at # place

\* "Low or incomplete risk retains local synthesis."
LowOrIncompleteStaysLocal ==
    [][ \A s \in Sessions :
            Undisturbed(s, "next") /\ job[s].left = 0
                /\ job[s].risk \in {"low_risk", "incomplete"} /\ Time(s) < log[s].deadline
            => job'[s].at \in {"review", "revalidate"} ]_vars

=============================================================================
