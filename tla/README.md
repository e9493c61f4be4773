# A TLA+ development of SOAR

SOAR runs a *General task* - research over public and private documents - with local
models, cloud models and containers, on a desktop. What must never go wrong is what it
sends out, what it pays, and what it repeats after a failure. This directory holds TLA+
modules of the parts that decide those things, TLC runs of small instances, and TLAPS
proofs for every instance. Source paths are relative to `src/src/main` unless they start
with `src/`.

## 1. Inventory

The default surface is the General task:

    general-tasks/controller.ts      one task at a time: start, pause, resume, cancel
      private-agent/session.ts       public, research and private phases of one job
        private-agent/runner.ts      the tool loop of one context, in containers
          private-agent/model.ts     builds a request and decodes a reply
            private-agent/broker.ts  the only network owner: scan, admit, send, retry
              private-agent/store.ts SQLite: policy, contexts, grants, dispatches, events, run claims
          private-agent/consultation.ts  a proposal to a cloud consultant, decided by a person
          private-agent/checkpoints.ts   history of a context, restored after a restart

| Component | State | Operations | What is hard | What makes it correct |
|---|---|---|---|---|
| Dispatch ledger (`store.ts`) | policy and revision, context sources, grants, dispatch rows | revise, cancel, add sources, grant, revoke, commit, settle, unknown, resolveFailure | commit is the only gate after several waits; a crash leaves rows committed | nothing uncertain is ever repeated or spent over; grants pay exactly; closed rows are final |
| Broker (`broker.ts`) | each call's frozen input, attempt, abort controllers | request, cancelJob | four waits (scan, token admission, transport, back-off), two retry loops, aborts from two sides | resends only after a confirmed abort; sends nothing stale; every call returns |
| Run claims (`store.ts`, `runner.ts`, `controller.ts`) | owner, pid and state per context; containers | acquireRun, acquireRecovery, releaseRun, orphan clean-up | several hosts over one database, death at any step, a clean-up that fails | one live owner; released means no containers; a live owner is never robbed |
| Task runner (`runner.ts`) | event log, checkpoint, pause/steer/cancel state | run, pause, cancel, steer | restart between any two events; deadline read several times | an operation of unknown outcome is not replayed; completed only after clean-up |
| Consultation (`consultation.ts`) | derived from events: proposed, decided, attempted, advised | propose, decide, resume | a decision made stale by a new checkpoint; a crash between grant and dispatch | one dispatch per approval; uncertain stays uncertain |
| General task controller (`controller.ts`) | task rows and the one active task | start, resume, pause, cancel, cleanupInterrupted, close | a cancel racing completion; restart with a running task | one active task; terminal tasks stay; containers cleaned before resume |
| Session (`session.ts`) | job events and phase contexts | run, pause, cancel | three phases that each may be resumed or refused | a session is submitted once and judged once |
| Research pipeline (`research-*.ts`) | stage events | plan, index, read, cover, produce | a partial stage is never replayed | coverage rules |
| Evidence, claims, progress (`evidence.ts`, `claims.ts`, `progress.ts`, ...) | none, or per run | pure functions; the progress guard | a guard that stops a run which still progresses | thresholds |
| Model adapters (`model.ts`, `anthropic.ts`, `flash-next-*.ts`) | none | encode, decode, price | a bill above the reservation | fee within reservation |
| Sandbox, scanner, resolver | containers, sockets | I/O | clean-up failure | - |

The review track, which reviews the uncommitted changes of a git workspace:

    ipc.ts, application.ts               create, run, cancel a session; recovery before the window
      agent/run-local-change-review.ts   coordinator: inspect, read files, synthesise with a local model
      agent/run-hybrid-change-review.ts  coordinator: the same, and one paid cloud synthesis at most
        checkpoint-router.ts (shared)    which provider synthesises, and why not the cloud
        attempt-unit-of-work.ts          events and budget row in one transaction
          event-store.ts + session-reducer.ts (shared)   append what the grammar accepts
          budget-ledger.ts               campaign, one reservation a session, its answer
      recovery.ts, liveness.ts           end every session a crash left running

| Component | State | Operations | What is hard | What makes it correct |
|---|---|---|---|---|
| Event store and reducer (`event-store.ts`, `session-events.ts`, `session-reducer.ts`) | append-only log of a session; its fold | createSession, append, appendMany | the guards of one promise are spread over a dozen event types; several writers | a completion rests on its evidence; a paid message on an admission and a reservation; every reservation is answered |
| Budget ledger (`budget-ledger.ts`) | campaign exposure, one reservation and one terminal row a session | reserve, settle, release, reconcile | two sessions for the last of a campaign; a bill above the reservation | exposure stays within the automatic stop but for a recorded overrun |
| Attempt unit of work (`attempt-unit-of-work.ts`) | none of its own | appendAtomicEvents | one transaction over log and ledger, refused whole | log and ledger always tell the same story |
| Restart recovery (`recovery.ts`, `liveness.ts`) | none | recoverRunningSessions | a crash at any event; an attempt, a tool call, a reservation half way; a clock set back across the restart | every running session is ended, whatever its log ends with, unless its last event is later than the clock |
| Review coordinators (`agent/run-*.ts`) | the place in the program, the abort signal | run, cancel | a stop, a deadline or a failure around each of a dozen waits; a refused batch | a stop wins; a review ends; low and incomplete risk stays local |
| Hybrid consent (`hybrid-simulation-consent.ts`) | one-shot consent | grant, consume | consent bound to what was shown, used once, expiring | - |
| Credential journal and leases (`credentials/*`) | journal phases, leases | store, revoke, recover | crash between keychain and journal | - |
| Git process supervision (`tools/git-process.ts`) | child process | run | timeout, abort and exit racing | - |
| Context compiler, egress policy, review validation | none | pure functions | - | - |
| Electron shell, IPC, renderer, schemas, scripts, benchmarks, Python runtimes | - | - | not state machines | - |

The coding pilot, which edits a disposable copy of a committed source:

    patch-runs/controller.ts             create, start, cancel, recover; one run at a time
      patch-runs/worker.ts               the host of a worker: admits its events, in order
        patch-runs/store.ts              SQLite: run, requests, checkpoints, patch, checks
        runtime/patch-worker/worker.py   Python process: bridge to the host, model requests, salvage
          coding_execution.py            plan, local loop, critic, cloud recovery, final check
            coding_router.py             which request or action may come next

| Component | State | Operations | What is hard | What makes it correct |
|---|---|---|---|---|
| Controller (`controller.ts`) | the active run | start, cancel, decide, recover | a cancel during preparation; a crash with a worker running | an interrupted run is never continued |
| Host (`worker.ts`) | pending request, open action, first failure, terminal receipt | one handler per event | judges a stream the worker is ahead of; two waits inside a handler; events after a stop | refuses nothing an honest worker reports, and nothing less than the protocol |
| Store (`store.ts`) | run row, request rows | about twenty guarded transactions | a second implementation of the router's protocol, in another language | a sent request is accounted for; completed means checked |
| Worker (`worker.py`, `coding_execution.py`) | candidate tree, deadline, saved submission | plan, local, critic, recover_cloud, finish, salvage | cancellation at any wait; salvage after a failure | what is submitted is what is checked, and stays |
| Router (`coding_router.py`) | calls, checked source, critic and handoff used | one method per event | four policies in one machine | submission only of a checked source |

## 2. Plan

Most important first; each item is a module with its own instance, runs and, where named, theorems.

1. `DispatchLedger` (done): store and broker of one job, over the abstract `SpendLedger` (done).
2. `RunClaim` (done): who owns a context and its containers, over several hosts and their deaths.
3. `TaskRunner` (done): run, pause, cancel and steer over the event log.
4. `Consultation` (done): proposal, decision, grant, dispatch, advice over the event log.
5. `TaskController` (done): task records, policy, claim and log over sessions.
6. `SessionGrammar` and `SessionLog` (done): what the event store of a review accepts, from
   any writer, with proofs.
7. `BudgetLedger` (done), and `ReviewRuns` (done): both coordinators, the unit of work, the
   ledger and recovery over `SessionGrammar`, refining `BudgetLedger`.
8. `CodingRouter`, `PatchStore` and `PatchRuns` (done): router, store, and worker and host of a
   coding run; left: the planner's generated checks, the repair-window schedules, the campaign.
9. `Session`: the public and research phases before the private one, each resumed or refused
    (composition with `TaskController`'s stages).
10. `Checkpoints`: exclusive create, rename and a save cut short by a crash.
11. `CredentialJournal`, `HybridConsent`.

Theorems worth proving: each module's type invariant and its central safety invariant; for
the ledger also finality of rows and freshness; for the budget ledger that exposure is
bounded.

## 3. Modules

| Module | Models | Proofs | Instance |
|---|---|---|---|
| `SpendLedger` | the allowance a job has: reserve, settle, freeze (abstract) | with `DispatchLedger` | through `DispatchLedger` |
| `DispatchLedger` | `store.ts` and `request()`, `cancelJob()` of `broker.ts` | `DispatchLedgerProofs` | `MCDispatchLedger` |
| `RunClaim` | `acquireRun`, `acquireRecovery`, `releaseRun`, and who calls them | `RunClaimProofs` | `MCRunClaim` |
| `TaskRunner` | `GeneralAgentRunner.run`, `pause`, `cancel`, `steer` | `TaskRunnerProofs` | `MCTaskRunner` |
| `Consultation` | `GeneralConsultation` and `decideWithoutDispatch` | `GeneralTaskProofs` | `MCConsultation` |
| `TaskController` | `GeneralTaskController` and the stages of its session | `GeneralTaskProofs` | `MCTaskController` |
| `SessionGrammar` | `reduceSessionEvent`: what may follow a log, and what it folds to | with `SessionLog` | - |
| `SessionLog` | the event store of one review, with any writer | `ReviewSessionProofs` | itself |
| `BudgetLedger` | the campaign, its reservations and their answers | with `ReviewRuns` | through `ReviewRuns` |
| `ReviewRuns` | both coordinators, unit of work, ledger, log and recovery, side by side | `ReviewSessionProofs` | itself |
| `CodingRouter` | `coding_router.py`: the router's record and its methods | none | through `PatchRuns` |
| `PatchStore` | `patch-runs/store.ts`: the run's row and its guarded transactions | none | through `PatchRuns` |
| `PatchRuns` | controller, host and Python worker of a run, joined by pipe and inbox | `PatchRunsProofs`, `HostAcceptsProofs` | itself |

The modules meet in the durable state. `TaskController` has the claim as four values and the
log as three events, and leaves to `RunClaim` how the claim is taken and to `TaskRunner` how
a run comes to its end. `TaskRunner` has `unsettled` for the ledger's uncertain rows and
`blocked` for an unreleased claim. `Consultation` has the dispatch rows of one proposal,
with the part of `DispatchLedger`'s commit that its guard depends on. `ReviewRuns` composes
the review track whole: it writes through `SessionGrammar`'s guards into `BudgetLedger`'s rows.
`PatchRuns` composes the coding pilot whole: the worker moves `CodingRouter`'s record, the host
judges it by `PatchStore`'s guards. `SessionLog`, `ReviewRuns` and `PatchRuns` need no symmetry
and no definitions of their own for TLC, so their cfgs instantiate them directly.

An action is what the process does between two awaits, and at most one SQLite transaction
of it unless nothing can come between; where a crash can, there is an action for that
(`DieCancelling`, `DieCompleting`, `FirstCheckpoint`).

Operators whose comment starts with *Fault:* are what a plausible slip in the code would
make of the definition below them. No specification uses them; they show what each
property is sensitive to.

### DispatchLedger

`policy`, `context`, `grants` and `rows` are the four tables of one job; they survive a
crash. `pc`, `call`, `attempt`, `signal` and `failure` are the locals of each `request()`
call; they do not.

`Begin` is the synchronous head (packet snapshot, `eligible`). `ScanEnds`,
`AdmissionEnds`, `Reply`/`SendFails`/`BackOff` and `BackoffEnds`/`BackoffAborted` are the
continuations after the four awaits. `Commit`/`CommitRefused` is the store's transaction.
A call that retries keeps its row committed while it waits. The host's other calls
(`RevisePolicy`, `CancelJob`, `AddSource`, `IssueGrant`, `RevokeGrant`, `ExpireGrant`,
`AbortSignal`) happen at any time. `Crash` drops every call and no row.

Abstracted: a packet is a value with a destination and a fee; the fingerprints are
injective, so they are the values themselves; sources differ in their classification;
failures are one representative per way the code treats them; the scanner's and the
admission's verdicts are free. One context stands for a job's contexts: grants and
fingerprints never mix contexts. `ImplementsAllowance` instantiates `SpendLedger` with the
reserved, spent and frozen fees and the number of rows as its state.

### RunClaim

`claim` is the row of `private_agent_run_claims`, `containers` what the daemon holds of the
context, `up` the process table. `Begin` is the read of the claim and `process.kill(pid, 0)`,
`Acquire` and `Recover` the two transactions that take it, `OrphansEnd` the clean-up of a
recovered one, `Create`/`CloseSandbox`/`LoopEnds` what the run does with containers,
`CleanupEnds`, `Complete` and `Release` the finally block in its three steps. `RecordFails`
is an append of that block that throws. A run and a desktop clean-up are told apart by
`kind`. `Die` leaves claim and containers; `PidReused` gives the pid to another process.

Assumed of the environment: the daemon executes a `create` when it is asked to or never,
and a pid that answers a signal may belong to anybody.

### TaskRunner

`log` has the events of one context that a later decision reads, each with the operation it
belongs to and one value; `loop` has the locals of the loop. `History` is everything between
the claim and the first checkpoint's need (refusals, replay, `started`), `Ask` to
`ModelFails` the model call, `Act` and `Recheck` the checks of its reply, `ToolEnds`,
`FinishTool` and `ToolLost` the tool, `LoopExhausted` to `ValidationEnds` the host
validation, `CleanupEnds`, `End` and `Return` the finally block. `Crash` may happen at any
of them. `late` is the remaining time at zero; since the time of a lost run is not recorded,
a crash may reset it. The model, the tools, the checks and the contents of the workspace are
free, except that a closed sandbox does not change (`Saved`).

### Consultation

`decision`, `attempts`, `rows`, `response` and `grant` are what `state()` derives the status
from; `drift` is what differs from the proposal (profile, context, checkpoint, deadline,
policy). `ResumeEnds` to `Attempt` are the head of `resume()`, `Commit` to `SendFails` the
broker's request, `Retain` what follows it. Decisions come from the controller at any time a
person can make them. Several managers are kept though the claim allows one: the theorem
that one request is made does not need the claim.

### TaskController

`status`, `reason`, `policy`, `claim`, `log`, `blocked`, `consult` and `expired` survive;
`stage`, `asked` and `closing` are the entries of `active` and their flags. A stage is the
wait an entry is in: the inspection of the image (`readiness`), the session's run
(`working`), its evidence pass (`judging`) or a desktop clean-up (`cleaning`). `Launch` is
`start` and `resume`; `StoppedEarly`, `SessionStarts`, `SessionRefused`, `WorkEnds`,
`Complete`, `CompleteLate`, `JudgeEnds` and `Throws` are the ways through `execute()`;
`CancelActive` and `CancelIdle` the two halves of `cancel()`; `CleanEnds` is
`cleanupInterrupted`; `Restarted` the constructor's projection.

Abstracted: `blocked` stands for an operation of unknown outcome or a stop that is for good;
`expired` for spent time, not for counted calls; one configuration stands for those of all
tasks.

### SessionGrammar and SessionLog

A session is the record of what later guards read of a folded log. `Accepts(s, e)` is the
conjunction of what `reduceSessionEvent` tests before it folds an event, `Reduce(s, e)` the
state it folds it into; both are one operator per event type under the common guards
(`Common`). An event names its attempt, message,
lease or checkpoint by an identity in the code; the guards make all of them refer to the
latest one, so an event carries a reference only where an earlier one can be meant. `deadline`
is the session's start plus its duration; time is in ticks.

`SessionLog` is the store with any writer at all: each step appends any event of `Events` that
the grammar accepts. What it shows holds whatever the coordinators, recovery or a late
callback do, and no more than that (imported checkpoints excepted, see section 6). In particular the store does not know which providers are
local. A hybrid review persists an authority that does, and there a decision names the cloud
provider exactly when its reason is `cloud_admitted` (`WithinAuthority`,
`session-reducer.ts:1150-1201`); a local review persists none, and the schema ties the provider's
locality to the reason only for a decision that brings the router's input with it
(`session-events.ts:1078-1119`), where its writer says which provider is local. So a local
review's decision may name any provider here, and `CloudOnlyAdmitted` says of local reviews
only that nothing of theirs is paid for; that their messages stay local is the coordinators'
doing (`Assign`, `Retain` of `ReviewRuns`).

Abstracted: the two policies the schema of `session.created` admits for a change review,
`local_only_v1` and `hybrid_simulation_v1` (`session-events.ts:1903-1918`; `hybrid_v0` is for
other sessions); a reservation is named by its amount,
which `BudgetLedger.reserve` wants positive (`budget-ledger.ts:1327`) though the event's schema
would carry a zero; texts, token counts and fingerprints; message deltas and usage records, which
no later guard of a review reads.

### BudgetLedger and ReviewRuns

`rows` has, per session, the reservation and the terminal row that answers it. `Denial` is the
sequence of tests of the reserving transaction.

In `ReviewRuns`, `log` is the folded log of each session and `job[s].at` the wait its
coordinator is in. Each action is the code between two waits, with one transaction:

| Action | Code |
|---|---|
| `Begin`, `Health` | the start of `run()`, and the model's health check |
| `Ask`, `Request`, `Tool`, `Uninspected` | an investigation round: the model's answer, the tool call it asks for, the tool's result, an answer without one |
| `ReadNext`, `StopReading` | whether another file is read |
| `SynthesiseLocal`, `Revalidate`, `Review`, `Verify`, `Complete` | the local synthesis: route, health again after its TTL, answer, the check against the workspace, the obligations and the end |
| `ProposeCloud`, `Cloud`, `CloudVerify`, `Fallback` | egress, router and budget; the paid answer; its check; the one local fallback |
| `GiveUp` | the coordinator's catch |
| `Cancel`, `Fault`, `Crash` | the user, a transaction that throws, the process |
| `Tick`, `SetBack` | the wall clock, which goes on and may be set back, between two runs of the application or during one |
| `Recover`, `Recovered` | `recoverRunningSessions` before the window opens, one session at a time, and its reconciliation |

Every event is dated and the reducer refuses one before the session's last
(`session-reducer.ts:894-901`). The coordinators hold their times back to it (`Time`,
`run-local-change-review.ts:245-254`); recovery (`recovery.ts:123`) and the cancellation of a
review that was not started (`run-session.ts:461`) take the clock as it is, so with a clock that
was set back their events can be refused: the cancel throws, and the whole start-up fails and
is tried again at the next start. In the code a session that is refused also holds up the
sessions after it; here those may be recovered first, which is one more order.

`Commit` is `AttemptUnitOfWork.appendAtomicEvents`: the events are folded one after another,
and one refusal refuses all of them and the budget row. `Synchronous` places are passed
without a wait in between, so no other coordinator and no cancel runs there.

Abstracted: what a model answers and a tool returns is free (`Replies`); risk is free; the
egress verdict and the gates before the budget are free; a cost is one of `Projections` and
`Costs`.

### CodingRouter, PatchStore and PatchRuns

A source tree is a number; a patch is the tree it leads to, so a patch without text is `Base`.
`CodingRouter` has one operator per method of the router, each from record to record; the last
`decision` and `reason` are what the worker sends as its checkpoint. `PatchStore` has one
operator per transaction of the store and, where it may throw, its guard (`Can...`).
`Ordered`, `AdmitsReview`, `AdmitsSubmission`, `AdmitsEscalation` and `AdmitsCriticStep` are the
parts of `recordCheckpoint`. Requests of a run come one after another, so a row keeps how many
were reserved and settled, and the state of the last.

In `PatchRuns`, `run` survives a crash, `host` (the locals of `launchPatchWorker`) does not, and
`w` is a process of its own, which survives the application for a while (`orphan`). `w.at` is
the wait the worker is in:

| Action | Code |
|---|---|
| `StartRun`, `Launch`, `NotLaunched`, `Cancel`, `Decide`, `Restart` | `controller.ts`: `start`, the two halves of `execute`, `cancel`, `decide`, the constructor |
| `WorkerStarts`, `LocalRequest`, `PlanReady`, `RunCommand`, `CommandRan`, `CommandObserved`, `VisibleCheck`, `Help`, `SubmitTask`, `ActionDenied`, `NoSubmission` | `coding_execution.py`: `run`, `plan` and `local` |
| `Ask`, `Send`, `AdmittedTooLate`, `Answered`, `Unanswered` | `worker.py`: `complete_body`, around its two waits |
| `FreezeDraft`, `CriticStarts`, `CriticAnswer`, `VerdictRead`; `Handoff`, `CloudCommand`, `CloudSubmit` | `critic`; `recover_cloud` |
| `Export`, `Verify`, `StopRouter`, `Salvage`, `End` | `finish`, the handler of `run`, `recover_unsubmitted_patch`, the end of `main` |
| `Ready` to `VerificationFinished` | `patch-runs/worker.ts`: one action per event, each the whole handler; `ContextPrepared` and `CandidateVerified` what follows a wait in one |
| `WorkerCancelled`, `WorkerKilled`, `HostDeadline`, `WorkerClosed` | SIGTERM and the cancel message, SIGKILL, the time limit, the child's close |
| `Crash`, `CrashInAdmission`, `OrphanEnds` | the application dies, also between two transactions of one handler; what the worker does then |

A handler that throws fails the run: *refused* when the event was outside the protocol, *ended*
for any other reason (a deadline, a budget, an overrun, an unknown outcome).

Abstracted: what a model answers, a command prints and a check finds is free; identities,
digests and request bodies are exact by construction; a cloud request has price 1; the clock is
a free choice at each place that reads it.

## 4. Runs

| Run | Question | Bounds |
|---|---|---|
| `ledger_retry` | do two calls with retries serialise, repeat only what is safe, send nothing stale, implement the allowance and return? | 2 calls, a free local packet with token admission and a priced cloud one, 4 rows: one more than a call may make, and more fees than the cap (336 000 states) |
| `ledger_grants` | do grants pay exactly, and does private context leave only under one? | 2 calls, 2 grants of up to 2 uses, 1 proposal, 2 packets, a context that becomes private (1.6 million states) |
| `claim` | is a live owner ever robbed, does a free claim leave containers, does a context complete twice, does every run end? | 3 runs or clean-ups over 2 hosts: an owner, its heir and a rival, on one host and on two (293 000 states) |
| `runner` | is anything forgotten, repeated, late or completed unchecked over the runs of a context, and does every run return? | 2 model calls, 1 tool, 1 message of the user, 2 contents, streak limits 1, 0 and 1: each limit can be met and missed (1.5 million states) |
| `consultation` | is the consultant asked once, only as approved, and is advice current or the task stopped? | 2 managers, every drift (1788 states) |
| `controller` | do record, policy, claim and log agree on what runs, is cancelled, is complete; does a quit end? | a new task beside an interrupted one whose owner is dead (36 400 states) |
| `controller_export` | a finding, see below | as `controller` |
| `session_log` | whatever is offered to the store, does the grammar keep its promises? | 3 rounds, 1 tool call, 2 times, reservations and costs 0, 2, 3 around a cap of 2 (199 000 states) |
| `reviews` | two reviews, one campaign: do logs and rows agree, is the campaign kept, is the ledger implemented? | 2 rounds each, projections 2 and 4 and costs 1 and 3 around a stop of 3, 1 crash, 1 failing write (161 000 states) |
| `review_life` | what can keep recovery from ending a review, does a stop win, does it end? | 1 review, 3 rounds, 2 tool calls, 3 ticks from any of them, 1 crash, 1 failing write, a clock set back once to any earlier time (102 000 states) |
| `reviews_incomplete` | a finding, see below | as `review_life` |
| `patch_runs` | is what completes what was checked, is every sent request accounted for, does the host accept an honest worker, does a submission survive its final check? | one run of each of four policies (`cloud_plan_local` is `cloud_plan_local_review` with a local submission), 3 local calls, 3 for a repair, 2 trees, 2 events in the pipe, 1 crash (1.9 million states) |

`MaxRevision`, `MaxUses`, `Revisions`, `MaxSteers` and the number of calls bound the
environment; one revision already makes everything older stale, and a second call is the
smallest race. One tool call in `runner` is one between two model calls and before a check, so each kind of operation
can be the one a stop or a crash cuts in two; a second one about triples the
states, and its liveness check did not end in twenty minutes. In the review runs a reservation can be refused by
the session's cap, by the campaign and by an overrun, since projections and costs lie on both
sides of the limits; time is left out of `reviews` and everything but time is single in
`review_life`, because the deadline concerns one session and the campaign two. The limits of
`patch_runs` are below the code's (24 local calls, or 8 and 4; 3 repeats; 2 failed checks), but
each can be met before and after a check, and the reserve of two calls is the code's; two
events in the pipe put the worker a step ahead of the host with every kind of event. Symmetry is used only in runs without liveness. `MCRunClaim` fixes how three
runs are spread over two hosts, which is all there is up to names. `MCTaskController`
starts its second task where an earlier process left it, since only one task runs at a time
and what a second one adds is a cancel and a clean-up in the middle of the first's life; it
cannot be resumed, because its operation was lost. Deadlock is not checked where calls,
runs, tasks or reviews are finitely many and come to their end; it is in the
`runner` run.

Fairness is weak fairness of what runs under a timer, and nothing else: each call's own step
(`ledger_retry`: scan, admission, transport and back-off have timers, the rest is
straight-line code); each run's way to its end (`claim`: Docker commands and the loop have
deadlines); the run's own step (`runner`: model, tool, check and clean-up timeouts);
the waits of an active entry (`controller`: image inspection 10 s, the session's deadline,
the evidence pass's clock, four clean-up calls of 20 s); a started coordinator's next step
and the steps of recovery (`review_life`: model calls and health checks have timeouts, the
workspace tools are bounded, and recovery runs before anything else, at every start until one
succeeds; and the clock goes on, so after a clock was set back `ReviewsEnd` says that reviews end
once it has caught up). Hosts, users, aborts, deadlines, crashes and clocks set back have no fairness.

### Findings

- `controller_export` (a bug): a host that dies after `completed` was recorded and before the
  claim is released (`runner.ts:730`, `732`) is resumed without a run, because the completion
  is there; the task becomes *submitted*, but `get()` confirms the clean-up only by a released
  claim, so the artifact can never be exported, and *submitted* cannot be cancelled or cleaned.
- `reviews_incomplete` (a divergence): `src/docs/adr/0004-checkpoint-router-budget-runner-v0.md:44`
  says "Low or incomplete risk retains local synthesis." and the router does choose it, but
  the hybrid coordinator records no egress admission for an incomplete risk, and the reducer
  accepts a decision without one only for `low_risk_local_review`
  (`src/src/shared/session-reducer.ts:1210`). The batch is refused, and every hybrid review of
  incomplete risk ends `session.failed` with `coordinator_error`.

Known divergences without a run of their own, all in the models above:

- `src/docs/adr/0004-checkpoint-router-budget-runner-v0.md:89` says "Startup recovery pages until
  every running session is closed." It does unless the clock is behind a session's last event:
  then recovery's batch is refused and the start-up fails (`RecoveryAccepted` says exactly when);
- the clock is read again after `completed` was recorded (`runner.ts:739`); if the deadline
  passes in between, the run says it did not complete, and the desktop saves a reason that
  cannot be resumed (`CompleteLate` of `TaskController`);
- a run that ends between a reply and the start of its action resumes with a tool call that
  has no answer, which `runner.ts:490` says strict servers reject;
- `started` and the first checkpoint are two appends (`FirstCheckpoint`); a crash between them
  resumes the task with an empty workspace;
- `broker.ts:529` and `store.ts:244` say a row becomes `superseded` only when another attempt
  follows; a cancel or a revision during the back-off refuses that attempt after the row was
  marked. No request is repeated or lost;
- a cancel of the user while a checkpoint of the worker is on its way drops that checkpoint
  (`patch-runs/worker.ts:353`); the stop that follows is out of sequence and refused, so the run
  ends *failed* and not *cancelled*, and a submission on its way, which the worker already counts
  as saved, is neither recorded nor salvaged;
- in a `local_critic_repair` run an exact check that edited the tree is refused by
  `patch-runs/store.ts:84` when it timed out (`check_timeout`) or left one call
  (`finish_reserve_exhausted`): the run fails with a protocol error. `HostAcceptsWorker` names
  both cases as its exceptions.

## 5. Proofs

Every theorem holds for all values of the constants, under the named assumptions of its
module (`ProfileAssumption`: what `normalizeDestination` refuses; `NoneAssumption`: `None` is no grant; `LedgerAssumption`,
`ClaimAssumption`, `ConsultationAssumption`: types and that `None` is not one of the values;
`PolicyAssumption`, `ReviewAssumption`: types, finitely many sessions, at least two rounds and one
tool call).

**`FoldLaws`**: what `FoldLeft` computes, for every operation and every sequence: the value on
one more element is the operation applied to the value before (`FoldAppend`), a fold stays in a
set its operation stays in (`FoldStays`), the last element can be taken out (`FoldLast`). A sum
over a set is the same recursion with another choice of the element taken last, so the laws
are about any choice (`Folds`, `Picks`). The community module defines the fold by recursion over the subsets of the sequence's domain; the
laws rest on the existence of that recursive function (well-founded induction over finite sets,
`SmallestSet`, `FoldsExist`) and on its uniqueness (`FoldsAgree`). The module takes the operation as a
constant; the modules below instantiate it for each sum and replay they need.

**`DispatchLedgerProofs`**: `TypesKept`, `UncertainIsLast`, `WireHoldsItsRow`, `ResendIsSafe`,
`GrantsPayWhatTheyCover`, `DisclosureIsGranted`, `DispatchIsCurrent` from one invariant `Inv`.
`UnresolvedIsLast` alone is not inductive: that a closing row is the last one needs
`InFlightHoldsItsRow`; that a resend follows only superseded rows of a retried failure needs
what each call in flight has left behind (`EarlierRowsAbandoned`) and what it waits for
(`WaitsToRetry`). Actions fall into three kinds, each a lemma: rows untouched (`RowsKept`), one
row closed (`RowClosed`), one row added (`CommitKeeps`).

The refinement: `LedgerIsAnAllowance` (`ImplementsAllowance`) maps every step of the ledger to a
reservation, a settlement, a freeze or a stutter of `SpendLedger`; `AllowanceKept` and
`FrozenKept` are the allowance's two promises, of the ledger itself. The mapping is not enough
to take a step: the store admits a reservation by the exposure it sums over the rows that
exist, the allowance by two numbers. The invariant `Balanced` joins them (exposure is what is
spent and what the last row still holds), and `FoldLaws` says what closing or adding a row does
to the two sums.

**`RunClaimProofs`**: `ClaimKept`, `NothingLeftBehind`, `CompletionIsLast`. The three
invariants support each other, and need besides: an active claim tells which run has it, or
that its host is gone (`ClaimTellsOwner`); the owner a recovery remembers has ended
(`PriorHasEnded`), which is what makes the comparison in `acquireRecovery` enough; a run that
works has its host up (`WorkersAreUp`); and nothing completed where a sandbox is made
(`NotYetCompleted`).

**`GeneralTaskProofs`**, of `Consultation`: `OneRequest`, `RequestLeavesAsApproved`, `GrantEndsWithDecision`, `AdviceStaysCurrent`,
`LostIsFinal`, `ConsultationTyped`. The number of attempts is bounded because an attempt makes the
status anything but *approved* (`AttemptTells`); rows follow attempts (`RowFollows`) and
approvals precede both (`ApprovedFirst`).

**`GeneralTaskProofs`**, of `TaskController`: `RunningIsTrue`, `CompletionKept`, `CancelledStaysOut`,
`CancelIsDurable`. The last two are action properties; they need that while an entry lives
its record shows what it was asked (`AskedAsShown`), since `execute()` reads the flag and
everybody else the record, and what a completion excludes (`CompletionStands`).

**`TaskRunnerProofs`**: `UnknownStaysLast`, `LateStartsNothing`, `CompletionVerified`,
`MemoryKept`, for any allowances and any number of runs, pauses and crashes. None of them is about one run: a
guard in `History` looks at the whole log, and what keeps it true until the next start is the
invariant that at each place of `run()` only the operation under way may be open (`AtModel`,
`AtTool`, `AtValidation`), and that a run about to complete has ended all it began, with its
checked contents in the log's last checkpoint (`AboutToComplete`). The lemmas before it say what
adding one or two events does to the open operations and to the last checkpoint; `StartsOnly`
says what any step may begin.

`MemoryKept` (`MemoryIsDurable`) is about two ways to the same values: the run counts as it goes,
a restart folds the log. Its invariant `Memory` compares them at every place of `run()` from the
history to the last tool, where a tool under way is the one exception: the work is no longer
eligible in memory before the log says so. The conversation, the streaks and the eligibility
are folds (`FoldLaws`), the counts cardinalities; `QuietAfter`, `StartAfter` and `MessageAfter`
say what each type of event adds to all of them at once.

**`ReviewSessionProofs`**, of `SessionLog`: `SessionTyped`, `ReviewsCompleteOnEvidence`, `CloudNeedsAdmission`,
`ReservationsAnswered`, `FallbacksStayLocal`, for every policy and every set of events, from
one invariant with a lemma per event type. The promises are about the end of a session; the
invariant carries them through its middle: what a routed session has decided (`Routed`), what
its paid attempt stands on (`Attempted`), what an unstarted reservation still waits for
(`Awaited`), and what may be open when it has ended (`EndedWell`).

**`ReviewSessionProofs`**, of `ReviewRuns`: `RowsAreReconciled`, `CampaignStays`, `LogsImplementBudget`,
`RecoveryNeedsTheClock`, `CancellationWins`, for any number of sessions side by side, from one
invariant (`AlwaysIInv`). A coordinator writes a batch of events in one transaction and the
reducer takes it whole or not at all, so what a crash finds is a log as some batch left it.
`Resting(x)` is what holds of a session there: its fields fit (`Formed`), an attempt is open only
in a running session and a tool call only without one (`Halted`), what it reserved is exactly what
its open attempt owes or what its answer settles (`Accounted`), and a session that was overcharged
has failed (`OverrunFailed`). Each batch is followed event by event through the reducer
(`FoldedTwo`, `FoldedOnThree`: lemmas about any batch, from `FoldLaws`), with one lemma per shape of
batch; then each action is a lemma that names its batch. Nothing of it rests on how the clock
moves. `RecoveryAccepted` follows because `Resting` tells which events recovery's batch has: the
reducer accepts them all when the clock is not behind the log (`RecoveryIsAccepted`), and refuses
the first when it is (`LateIsRefused`).
`CancelWins` needs that a stop marked on a running coordinator excludes the one place from which a
completion is written without another look at the signal (`Heeded`): that place has no await
before the write. For the budget every step is one of three (`Allowed`): the rows stay, an
admitted reservation is made, or an open one is answered. The rows being a function of the logs,
that is the refinement (`LogsImplementBudget`: `ImplementsBudget`, step by step), and with what one
new row does to the sum over all sessions (`ExposureMoves`) the campaign's bound: the denial
counts what is open in full, so an admission stays within the stop (`ReservedWithin`), and an
answer costs no more than it had reserved or is an overrun (`ResolvedWithin`).

**`PatchRunsProofs`**: `SentRequestsAccounted`, `SubmissionKept`, `CompletedKept`. The worker that
sends and the row that accounts for it are two steps apart, joined by the inbox: the invariant counts the admissions the worker
has not read (`Granted`) with what it has sent against what the row has opened (`Sendable`), and
knows that a request the host waits for is the row's, started, with the worker still attended.
`Books` says what a row reserves. Steps fall into quiet ones, which change neither side, and the
few that reserve, settle, send or end.

`SubmissionKept` (`SubmissionSurvives`) and `CompletedKept` (`CompletedAsChecked`) are about a
worker that does not wait for the host: its decision to submit, its patch and its check may all
be in the pipe while the row still knows nothing of them. The steps of the worker and of the host
are first sorted by what they say and file (`WorkerSays`, `HostSays`), so that what follows has a
lemma per class rather than per action. `Filing` then relates row, pipe and worker: all that is
filed or still to be filed is about one tree (`About`), the host of a worker not told to stop has
the patch, or finds it in the pipe ahead of the check (`Announced`), and a worker still at work
has said none of it (`Unfiled`, `Undecided`). Since the row's patch and the pipe's agree on the
tree, filing a submission again writes what is there. `Backed` adds why a completion stands: the
decision to submit closes the pipe to all but the patch and its check, so the exact check it was
about is not replaced (`Decided`); a request is the last thing its worker says, so it is sent only when
the host has read everything (`Asked`), and the cloud's reply is ahead of the patch (`Clouded`).
These hold of a worker the host still follows (`Live`); a run that was stopped never completes
(`Outcome`).

**`HostAcceptsProofs`**: `HostAccepts` (`HostAcceptsWorker`). It is about two implementations of one protocol: the worker runs
ahead by its own router, and the host and the store judge each of its events later, by rules of
their own, when the worker has long gone on. What has to be invariant is therefore not what the
row says now but what it will say when the pipe has been read. A snapshot is a row with the
host's memory of it; `Accepts(s, x)` is all that the handler of the event `x` asks of a snapshot,
`After(v, s, x)` what it makes of it, and `Replayed` a run of the host through a sequence of
events that refuses none of them. `Seen` is the snapshot now, with what the host awaits taken as
done. `Harmony` says that, for a run the host still follows, replaying the pipe from `Seen` ends
in a snapshot that `Meets` the worker at the place it has come to (`Booting`, `Looping`,
`Requesting`, `Commanding`, `Freezing`, `Judging`, `Finishing`, `Exporting`: what router, row and
host's memory must say of each other there), or in the one refusal that remains (`Contested`: the
checkpoint behind an exact check that edited a critic run's tree). Since the verdict of a critic
is the host's to choose, the replay must succeed for every verdict still possible. A step of the
worker appends events and moves the end: one lemma per action (`...Goes`) shows the new events
accepted at the old end, and the new end met (`WorkerHarmony`). A step of the host takes the
head: it does what `After` says, so the rest is replayed from the new `Seen` (`Agrees`), or it
gives up for a reason of its own (`GivesUp`), or it refuses, which `Harmony` leaves only for the
two exceptions of the property (`Denies`); one lemma per action again (`...Handled`). TLC checked
`Harmony` on the instance of `patch_runs`, with the replay written as a function, before the proof.

`InFlightHoldsItsRow` (a call on the wire or waiting to retry has its own row committed) and
`GrantFollowsDecision` (a grant that can still pay belongs to a standing approval) are proved and
need no run of their own.

Only model-checked: liveness (`EveryCallReturns`, `RunsEnd`, `RunReturns`, `QuitEnds`,
`ReviewsEnd`), which needs fairness and `ENABLED`. Every safety property of a passing run is
proved. `SubmittedCanBeExported` and `LowOrIncompleteStaysLocal` are
violated: they are the findings.

## 6. Not modelled

`PROJECT.json` has every component with its status and reason. Within the modelled ones:

- the bytes of the HTTP exchange, redirects and address checks; schemas and identities;
- failures of the database, except where the code has an answer to them (`Throws`,
  `EndThrows`, `RecordFails`, `RetainFails`);
- what a reply, a command, a file or a check contains, and how the progress guard chooses
  its warnings;
- the plan and observation events of the runner, and a consultation inside its loop;
- the public and research phases of a session, and a change of the task's contract;
- reviews of the first execution policy (`runV1`), imported checkpoints, the receipts a batch
  returns, the projection of a cost from tokens and prices, the order of the router's gates
  before the budget, the consent to a hybrid review;
- of coding runs: the hybrid, cloud and prepared-cloud policies, the planner's generated checks,
  the repair-window schedules, the campaign cap, comparison, scripted mode, the list of containers
  left to remove, oversize and invalid frames, and liveness, which SIGKILL and the host's deadline
  make immediate;
- creating tasks, reading artifacts, counted allowances of `canResume`, heartbeats.
