------------------------------- MODULE RunClaim -------------------------------
(***************************************************************************)
(* Who may run one context, and whose containers exist: the durable claim  *)
(* of PrivateAgentStore (acquireRun, acquireRecovery, releaseRun), taken   *)
(* by GeneralAgentRunner.run (runner.ts) and by the desktop's              *)
(* cleanupInterrupted (controller.ts), over host processes that share the  *)
(* database and the container daemon and may die between any two steps.    *)
(***************************************************************************)

CONSTANTS
    Hosts,  \* host processes
    Runs,   \* owner ids: one per run() or cleanupInterrupted(), never reused
    None

VARIABLES
    claim,       \* private_agent_run_claims, None before the first
    completed,   \* the runs that recorded `completed` in the event log
    cancelled,   \* policy.cancelled
    containers,  \* the runs whose containers the daemon still holds
    up,          \* process table: a host is up, its pid is free, or reused by a stranger
    host,        \* the host of a run
    kind,        \* "run" or "cleanup"
    pc,
    prior,       \* the owner a run read before it tried to recover
    pending,     \* completionPending
    cleaned      \* cleanupConfirmed

vars == <<claim, completed, cancelled, containers, up, host, kind, pc, prior, pending, cleaned>>
locals == <<host, kind, prior, pending, cleaned>>

Claim == [owner: Runs, pid: Hosts, state: {"active", "cleanup_required", "released"}]

ASSUME ClaimAssumption == None \notin Runs /\ None \notin Claim

\* A run owns the claim from its acquisition to its release.
Owning == {"orphans", "owning", "looping", "closing", "ending", "releasing"}
Working == {"endpoint", "taking"} \union Owning
Ended == {"done", "lost"}

State == IF claim = None THEN "released" ELSE claim.state
Free == State = "released"

\* process.kill(pid, 0) fails with ESRCH only if no process has the pid.
OwnerConfirmedDead(pid) == up[pid] = "dead"

Init ==
    /\ claim = None /\ completed = {} /\ cancelled = FALSE /\ containers = {}
    /\ up = [h \in Hosts |-> "up"]
    /\ host \in [Runs -> Hosts]
    /\ kind \in [Runs -> {"run", "cleanup"}]
    /\ pc = [r \in Runs |-> "idle"]
    /\ prior = [r \in Runs |-> None]
    /\ pending = [r \in Runs |-> FALSE]
    /\ cleaned = [r \in Runs |-> FALSE]

Goto(r, where) == pc' = [pc EXCEPT ![r] = where]

-----------------------------------------------------------------------------
(* The store's transactions *)

\* Fault: acquireRun trusts what run() read before it waited for the endpoint.
AcquireUnchecked(r) == claim' = [owner |-> r, pid |-> host[r], state |-> "active"]

AcquireRun(r) == Free /\ claim' = [owner |-> r, pid |-> host[r], state |-> "active"]

\* Fault: the recovery compares no owner.
RecoverAnyOwner(r) == ~Free /\ claim' = [owner |-> r, pid |-> host[r], state |-> "active"]

AcquireRecovery(r) ==
    /\ ~Free
    /\ claim.owner = prior[r]
    /\ claim' = [owner |-> r, pid |-> host[r], state |-> "active"]

\* Fault: the claim is released whatever became of the clean-up.
ReleaseAlways(r, confirmed) ==
    claim # None /\ claim.owner = r /\ claim.state = "active" /\ claim' = [claim EXCEPT !.state = "released"]

ReleaseRun(r, confirmed) ==
    /\ claim # None /\ claim.owner = r /\ claim.state = "active"
    /\ claim' = [claim EXCEPT !.state = IF confirmed THEN "released" ELSE "cleanup_required"]

-----------------------------------------------------------------------------
(* run() and cleanupInterrupted() *)

\* The first read of the claim.  Whoever cleans up has cancelled the job before.
Begin(r) ==
    /\ pc[r] = "idle"
    /\ up[host[r]] = "up"
    /\ kind[r] = "cleanup" => cancelled
    /\ \/ Free /\ Goto(r, IF kind[r] = "run" THEN "endpoint" ELSE "done") /\ UNCHANGED prior
       \/ /\ ~Free
          /\ claim.state = "active" /\ ~OwnerConfirmedDead(claim.pid)
          /\ Goto(r, "done") /\ UNCHANGED prior
       \/ /\ ~Free
          /\ claim.state = "active" => OwnerConfirmedDead(claim.pid)
          /\ Goto(r, "taking") /\ prior' = [prior EXCEPT ![r] = claim.owner]
    /\ UNCHANGED <<claim, completed, cancelled, containers, up, host, kind, pending, cleaned>>

\* Fault: a run that lost the race for the claim waits until it is free.
AcquireWaits(r) ==
    /\ pc[r] = "endpoint"
    /\ AcquireRun(r) /\ Goto(r, "owning")
    /\ UNCHANGED <<completed, cancelled, containers, up, locals>>

\* The endpoint is found, then the claim acquired; or either fails.
Acquire(r) ==
    /\ pc[r] = "endpoint"
    /\ \/ AcquireRun(r) /\ Goto(r, "owning")
       \/ Goto(r, "done") /\ UNCHANGED claim
    /\ UNCHANGED <<completed, cancelled, containers, up, locals>>

Recover(r) ==
    /\ pc[r] = "taking"
    /\ \/ AcquireRecovery(r) /\ Goto(r, "orphans")
       \/ (Free \/ claim.owner # prior[r]) /\ Goto(r, "done") /\ UNCHANGED claim
    /\ UNCHANGED <<completed, cancelled, containers, up, locals>>

\* cleanupOwnedContext: all containers of the context are gone, or it fails part
\* way.  Releasing and saving after a desktop clean-up are one transaction; one
\* that fails releases the claim as not cleaned.
OrphansEnd(r, ok) ==
    /\ pc[r] = "orphans"
    /\ containers' \in SUBSET containers
    /\ ok => containers' = {}
    /\ \/ ok /\ kind[r] = "run" /\ Goto(r, "owning") /\ UNCHANGED claim
       \/ ok /\ kind[r] = "cleanup" /\ Goto(r, "done") /\ ReleaseRun(r, TRUE)
       \/ (~ok \/ kind[r] = "cleanup") /\ Goto(r, "done") /\ ReleaseRun(r, FALSE)
    /\ UNCHANGED <<completed, cancelled, up, locals>>

\* Everything run() may find before it creates a sandbox sends it to its end.
Refuse(r) ==
    /\ pc[r] = "owning"
    /\ Goto(r, "closing")
    /\ UNCHANGED <<claim, completed, cancelled, containers, up, locals>>

\* Fault: the history is not searched for a completion.
CreateAgain(r) == pc[r] \in {"owning", "looping"}

MayCreate(r) ==
    \/ pc[r] = "looping"
    \/ pc[r] = "owning" /\ completed = {}

\* DockerSandbox.create: of the sandbox, and later of the verifiers.  A failed one
\* may leave its container behind.
Create(r, ok) ==
    /\ MayCreate(r)
    /\ \/ containers' = containers \union {r}
       \/ ~ok /\ UNCHANGED containers
    /\ Goto(r, IF ok THEN "looping" ELSE "closing")
    /\ UNCHANGED <<claim, completed, cancelled, up, locals>>

\* sandbox.close(), of the sandbox before a verification, and of a verifier.
CloseSandbox(r) ==
    /\ pc[r] = "looping"
    /\ r \in containers
    /\ containers' = containers \ {r}
    /\ UNCHANGED <<claim, completed, cancelled, up, pc, locals>>

LoopEnds(r, passed) ==
    /\ pc[r] = "looping"
    /\ Goto(r, "closing")
    /\ pending' = [pending EXCEPT ![r] = passed]
    /\ UNCHANGED <<claim, completed, cancelled, containers, up, host, kind, prior, cleaned>>

\* The finally block's close and cleanupOwnedContext.
CleanupEnds(r, ok) ==
    /\ pc[r] = "closing"
    /\ containers' \in SUBSET containers
    /\ ok => containers' = {}
    /\ cleaned' = [cleaned EXCEPT ![r] = ok]
    /\ Goto(r, "ending")
    /\ UNCHANGED <<claim, completed, cancelled, up, host, kind, prior, pending>>

\* Fault: a completion does not wait for the clean-up.
CompleteUnclean(r) == pending[r] /\ ~cancelled

MayComplete(r) == pending[r] /\ cleaned[r] /\ ~cancelled

\* run_ended, and completed if the clean-up is confirmed and time is left.
Complete(r) ==
    /\ pc[r] = "ending"
    /\ \/ MayComplete(r) /\ completed' = completed \union {r}
       \/ UNCHANGED completed
    /\ Goto(r, "releasing")
    /\ UNCHANGED <<claim, cancelled, containers, up, locals>>

Release(r) ==
    /\ pc[r] = "releasing"
    /\ ReleaseRun(r, cleaned[r])
    /\ Goto(r, "done")
    /\ UNCHANGED <<completed, cancelled, containers, up, locals>>

\* An append of the finally block throws: the claim stays active, its host alive.
RecordFails(r) ==
    /\ pc[r] \in {"ending", "releasing"}
    /\ Goto(r, "done")
    /\ UNCHANGED <<claim, completed, cancelled, containers, up, locals>>

-----------------------------------------------------------------------------
(* Hosts *)

CancelJob ==
    /\ ~cancelled
    /\ cancelled' = TRUE
    /\ UNCHANGED <<claim, completed, containers, up, pc, locals>>

\* A host dies; its runs are lost, its claim and its containers stay.
Die(h) ==
    /\ up[h] = "up"
    /\ up' = [up EXCEPT ![h] = "dead"]
    /\ pc' = [r \in Runs |-> IF host[r] = h /\ pc[r] \in Working THEN "lost" ELSE pc[r]]
    /\ UNCHANGED <<claim, completed, cancelled, containers, locals>>

\* The system gives a dead host's pid to another process, or takes it back.
PidReused(h) ==
    /\ up[h] \in {"dead", "reused"}
    /\ up' = [up EXCEPT ![h] = IF @ = "dead" THEN "reused" ELSE "dead"]
    /\ UNCHANGED <<claim, completed, cancelled, containers, pc, locals>>

\* The steps that bring a run nearer to its end.
Progress(r) ==
    \/ Acquire(r) \/ Recover(r) \/ Refuse(r) \/ Complete(r) \/ Release(r) \/ RecordFails(r)
    \/ \E ok \in BOOLEAN : OrphansEnd(r, ok) \/ LoopEnds(r, ok) \/ CleanupEnds(r, ok)

Next ==
    \/ \E r \in Runs :
        \/ Begin(r) \/ CloseSandbox(r) \/ Progress(r)
        \/ \E ok \in BOOLEAN : Create(r, ok)
    \/ CancelJob
    \/ \E h \in Hosts : Die(h) \/ PidReused(h)

Spec == Init /\ [][Next]_vars

\* Every container command runs under a timer and the loop under its deadline.
Fairness == \A r \in Runs : WF_vars(Progress(r))

FairSpec == Spec /\ Fairness

-----------------------------------------------------------------------------
(* Properties *)

TypeOK ==
    /\ claim \in Claim \union {None}
    /\ completed \in SUBSET Runs
    /\ cancelled \in BOOLEAN
    /\ containers \in SUBSET Runs
    /\ up \in [Hosts -> {"up", "dead", "reused"}]
    /\ host \in [Runs -> Hosts]
    /\ kind \in [Runs -> {"run", "cleanup"}]
    /\ pc \in [Runs -> {"idle"} \union Working \union Ended]
    /\ prior \in [Runs -> Runs \union {None}]
    /\ pending \in [Runs -> BOOLEAN]
    /\ cleaned \in [Runs -> BOOLEAN]

\* runner.ts: "the durable claim excludes other live runners".  While a run has
\* not given the claim up, nobody takes it: not a run that read the claim before
\* it waited, nor one that found an earlier owner dead, nor a desktop clean-up.
OwnerNeverRobbed ==
    \A r \in Runs : pc[r] \in Owning => claim # None /\ claim.owner = r /\ claim.state = "active"

\* A released claim is confirmation that no container of the context is left.
FreeMeansClean == Free => containers = {}

\* A context completes at most once, after its containers are gone, and none is
\* ever created for it again.
CompletedForGood ==
    /\ \A a, b \in completed : a = b
    /\ completed # {} => containers = {}

\* Every run ends, or its host dies.
RunsEnd == \A r \in Runs : pc[r] \in Working ~> pc[r] \in Ended

=============================================================================
